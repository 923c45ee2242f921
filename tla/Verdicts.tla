------------------------------ MODULE Verdicts ------------------------------
(***************************************************************************)
(* What verify_log answers for a log, as a set of permitted answers: the   *)
(* declarative reading of verify.py, with no loop and no order of checks.  *)
(***************************************************************************)
EXTENDS Attestation

(***************************************************************************)
(* The hash an entry must link to: that of the record before it.           *)
(***************************************************************************)
LinkBefore(entries, n) ==
    IF n = 1 THEN NoHash ELSE entry_hash(entries[n - 1].record)

(***************************************************************************)
(* The checks an entry fails.                                              *)
(***************************************************************************)
Violations(hdr, entries, n) ==
    LET e   == entries[n]
        rec == e.record
        violated ==
          [sequence    |-> rec.sequence # n - 1,
           link        |-> rec.prev_entry_hash # LinkBefore(entries, n),
           stored      |-> e.entry_hash # entry_hash(rec),
           fingerprint |-> e.public_key.spki_sha256 # hdr.spki_sha256,
           label       |-> e.public_key.key_id # hdr.key_id \/ rec.signer_key_id # hdr.key_id,
           session     |-> rec.session_id # hdr.session_id,
           signature   |-> ~SignatureVerifies(hdr.spki_der, e.signature,
                                              signed_digest(entry_hash(rec)))]
        name == [sequence |-> "sequence", link |-> "prev_entry_hash",
                 stored |-> "entry_hash", fingerprint |-> "public_key fingerprint",
                 label |-> "key_id", session |-> "session_id", signature |-> "signature"]
    IN  {name[v] : v \in {w \in DOMAIN violated : violated[w]}}

Unhashable(entries, n) == entries[n].record.payload \in Unencodable

Sound(hdr, entries, n) ==
    Violations(hdr, entries, n) = {} /\ ~Unhashable(entries, n)

HeaderViolations(hdr, entries, pins) ==
    LET violated ==
          [anchor      |-> pins.trusted_spki_sha256 \notin {None, hdr.spki_sha256},
           label       |-> pins.trusted_key_id \notin {None, hdr.key_id},
           unreadable  |-> hdr.spki_der \in BadDers,
           otherKind   |-> hdr.spki_der \in RsaKeys,
           fingerprint |-> spki_fingerprint(hdr.spki_der) # hdr.spki_sha256,
           empty       |-> entries = <<>>]
        name == [anchor |-> "not the trusted anchor", label |-> "not the trusted key_id",
                 unreadable |-> "key unreadable", otherKind |-> "not an EC key",
                 fingerprint |-> "spki_sha256 mismatch", empty |-> "no entries"]
    IN  {name[v] : v \in {w \in DOMAIN violated : violated[w]}}

Least(S) == CHOOSE n \in S : \A m \in S : n <= m

Unparsed(entries) == {n \in DOMAIN entries : entries[n].form # "object"}

Unsound(hdr, entries) == {n \in DOMAIN entries : ~Sound(hdr, entries, n)}

EndsSession(entries) == entries[Len(entries)].record.event_type = "session_end"

-----------------------------------------------------------------------------
(***************************************************************************)
(* The answers that may be given for a log: a set, because nothing says    *)
(* which of several failed checks is the one reported.                     *)
(***************************************************************************)
ParsedOutcomes(hdr, entries, pins) ==
    CASE HeaderViolations(hdr, entries, pins) # {} ->
           {Fail(0, None, r, hdr.key_id) : r \in HeaderViolations(hdr, entries, pins)}
           \cup (IF hdr.spki_sha256 = None /\ pins.trusted_spki_sha256 # None
                 THEN {Raised} ELSE {})
      [] HeaderViolations(hdr, entries, pins) = {} /\ Unsound(hdr, entries) # {} ->
           LET n == Least(Unsound(hdr, entries))
           IN  {Fail(n - 1, n - 1, r, hdr.key_id) : r \in Violations(hdr, entries, n)}
               \cup (IF Unhashable(entries, n) THEN {Raised} ELSE {})
      [] OTHER -> {Valid(Len(entries), hdr.key_id, EndsSession(entries))}

Outcomes(theLog, pins) ==
    CASE theLog = None -> {Fail(0, None, "cannot read log", None)}
      [] theLog # None ->
           LET hdr     == theLog.header
               entries == theLog.entries
           IN  CASE theLog.medium = "undecodable" -> {Raised}
                 [] theLog.medium = "text" /\ hdr.form = "absent" ->
                      {Fail(0, None, "empty log", None)}
                 [] theLog.medium = "text" /\ hdr.form = "malformed" ->
                      {Fail(0, None, "bad chain header", None)}
                 [] theLog.medium = "text" /\ hdr.form = "nonobject" -> {Raised}
                 [] theLog.medium = "text" /\ hdr.form = "object" ->
                      IF Unparsed(entries) = {} THEN ParsedOutcomes(hdr, entries, pins)
                      ELSE LET n == Least(Unparsed(entries))
                           IN  IF entries[n].form = "malformed"
                               THEN {Fail(n - 1, n - 1, "malformed entry", hdr.key_id)}
                               ELSE {Raised}

=============================================================================
