---------------------------- MODULE ChainVerdict ----------------------------
(***************************************************************************)
(* What verify_log promises, with no loop and no order of checks in it:    *)
(* one look at a log, one decision.  A log is accepted exactly when every  *)
(* line parses, its header is the trusted one and holds a key, there is an *)
(* entry, and every entry is sound; otherwise the first entry that is not  *)
(* is named, with one of the checks it fails.                              *)
(***************************************************************************)
EXTENDS Verdicts

VARIABLES
    looked,   \* the log has been looked at
    log,      \* what it was then, None if it could not be read
    trust,    \* the pins of this verification
    outcome   \* None, then a VerifyResult or Raised

vars == <<looked, log, trust, outcome>>

-----------------------------------------------------------------------------
Init ==
    /\ looked = FALSE
    /\ log = None
    /\ trust \in Trust
    /\ outcome = None

(***************************************************************************)
(* The look may settle it: there is nothing to read.                       *)
(***************************************************************************)
Look ==
    /\ ~looked
    /\ looked' = TRUE
    /\ log' \in LogFile \cup {None}
    /\ outcome' = None \/ outcome' \in Outcomes(log', trust)
    /\ UNCHANGED trust

Decide ==
    /\ looked /\ outcome = None
    /\ outcome' # None
    /\ outcome' \in Outcomes(log, trust)
    /\ UNCHANGED <<looked, log, trust>>

Next == Look \/ Decide

Spec == Init /\ [][Next]_vars

=============================================================================
