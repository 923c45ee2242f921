---------------------------- MODULE HeadRegister ----------------------------
(***************************************************************************)
(* What a mirror of anchored heads promises: a public log that only ever   *)
(* grows, nothing a call wrote in it twice, and a caller is told "ok" only *)
(* when its line is in the log.  A caller told otherwise knows nothing:    *)
(* one that tries again is another call, and writes the same head again.   *)
(***************************************************************************)
EXTENDS SequencesExt

CONSTANT Callers

VARIABLES
    log,   \* the texts of the public log; a line is named by its caller
    told   \* what each caller has been told

vars == <<log, told>>

Init ==
    /\ log = <<>>
    /\ told = [c \in Callers |-> "pending"]

Grow == IsPrefix(log, log') /\ IsInjective(log')

Tell ==
    \A c \in Callers :
        \/ told'[c] = told[c]
        \/ told[c] = "pending" /\ told'[c] = "failed"
        \/ told[c] = "pending" /\ told'[c] = "ok" /\ c \in Range(log')

Next == Grow /\ Tell

Spec == Init /\ [][Next]_vars

=============================================================================
