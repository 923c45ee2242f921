---------------------------- MODULE AnchorCheck ----------------------------
(***************************************************************************)
(* What an anchor says and how it is held against a log (anchor.py),       *)
(* without the reads: Anchoring and Commands make those.                   *)
(***************************************************************************)
EXTENDS SignedChain, Chainio

(***************************************************************************)
(* What has befallen a file that met one fate and then another.            *)
(***************************************************************************)
Worse(a, b) == IF "changed" \in {a, b} THEN "changed"
               ELSE IF "appended" \in {a, b} THEN "appended" ELSE "still"

-----------------------------------------------------------------------------
ANCHOR_TYPE == "smoke-attest-anchor"

TokenOf(log) ==
    [type |-> ANCHOR_TYPE, version |-> VERSION_V0, session_id |-> log.header.session_id,
     key_id |-> log.header.key_id, spki_sha256 |-> log.header.spki_sha256,
     count |-> Len(log.entries), head_entry_hash |-> Last(log.entries).entry_hash]

-----------------------------------------------------------------------------
(***************************************************************************)
(* Mutant: the index of the anchored entry where its count is asked for.   *)
(***************************************************************************)
AnchorResultOfIndex(ok, reason, anchored_count, log_count) ==
    [ok |-> ok, reason |-> reason, anchored_count |-> anchored_count - 1, log_count |-> log_count]

AnchorResult(ok, reason, anchored_count, log_count) ==
    [ok |-> ok, reason |-> reason, anchored_count |-> anchored_count, log_count |-> log_count]

(***************************************************************************)
(* The stored hash of the anchored entry.  Python's index -1, which is     *)
(* n - 1 when n is 0, is the last entry.                                   *)
(***************************************************************************)
HashAt(entries, n) ==
    IF entries = <<>> THEN None
    ELSE entries[IF n = 0 THEN Len(entries) ELSE n].entry_hash

(***************************************************************************)
(* Mutant: a log that has grown since is no match.                         *)
(***************************************************************************)
ReachesExactly(log, anchor) == Len(log.entries) = anchor.count

Reaches(log, anchor) == Len(log.entries) >= anchor.count

Passes(check, res, log, anchor) ==
    CASE check = "not internally valid" -> res.ok
      [] check = "version"     -> anchor.version \in {None, VERSION_V0}
      [] check = "session_id"  -> log.header.session_id = anchor.session_id
      [] check = "spki_sha256" -> log.header.spki_sha256 = anchor.spki_sha256
      [] check = "no entries"  -> anchor.count > 0
      [] check = "truncated"   -> Reaches(log, anchor)
      [] check = "diverges"    ->
           HashAt(log.entries, anchor.count) = anchor.head_entry_hash

(***************************************************************************)
(* Mutants: a check of check_anchor forgotten.                             *)
(***************************************************************************)
CheckOrderNoKey == <<"not internally valid", "version", "session_id", "no entries",
                     "truncated", "diverges">>

CheckOrderNoCount == <<"not internally valid", "version", "session_id", "spki_sha256",
                       "truncated", "diverges">>

(***************************************************************************)
(* The checks of check_anchor: the first that does not pass is the answer. *)
(***************************************************************************)
CheckOrder == <<"not internally valid", "version", "session_id", "spki_sha256",
                "no entries", "truncated", "diverges">>

AnchorReasons == {"not an anchor", "not internally valid", "version", "session_id",
                  "spki_sha256", "no entries", "truncated", "diverges"}

Compared(res, log, anchor) ==
    LET Holds(m) == Passes(CheckOrder[m], res, log, anchor)
        Answer(ok, reason) == AnchorResult(ok, reason, anchor.count, Len(log.entries))
    IN  IF \A m \in DOMAIN CheckOrder : Holds(m)
        THEN Answer(TRUE, None)
        ELSE LET first == CHOOSE m \in DOMAIN CheckOrder :
                             (\A l \in 1..(m - 1) : Holds(l)) /\ ~Holds(m)
             IN  Answer(FALSE, CheckOrder[first])

-----------------------------------------------------------------------------
Token == [type: {ANCHOR_TYPE, "something else"}, version: Versions \cup {None},
          session_id: Sessions, key_id: Labels, spki_sha256: Fingerprint,
          count: Nat, head_entry_hash: Hash]

AnchorAnswer == [ok: BOOLEAN, reason: AnchorReasons \cup {None},
                 anchored_count: Nat, log_count: Nat]

(***************************************************************************)
(* None is neither an anchor nor an answer.                                *)
(***************************************************************************)
ASSUME AnswerAssumption == None \notin Token /\ None \notin AnchorAnswer

=============================================================================
