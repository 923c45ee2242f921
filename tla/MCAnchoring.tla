---------------------------- MODULE MCAnchoring ----------------------------
(***************************************************************************)
(* Small instances of Anchoring.                                           *)
(***************************************************************************)
EXTENDS Anchoring

CONSTANTS s1, s2, label, key, otherKey, good, bad

MCSessions == {s1, s2}

MCPayloads == {good, bad}

=============================================================================
