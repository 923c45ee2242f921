--------------------------- MODULE MCTrustedTime ---------------------------
(***************************************************************************)
(* Model checking of TrustedTime.  Heads and nonces are only compared.     *)
(***************************************************************************)
EXTENDS TrustedTime, TLC

Symmetry == Permutations(Heads) \cup Permutations(Nonces)

=============================================================================
