------------------------------ MODULE VerifyLog ------------------------------
(***************************************************************************)
(* verify_log and verify_chain as the code runs them: the file is read     *)
(* once, its header line parsed, then every entry line, and only then is   *)
(* the chain checked, pins and key first, entries one by one, the first    *)
(* failed check ending it.  The world of StoredLog moves on beside it: the *)
(* signer commits events while a verification runs.                        *)
(***************************************************************************)
EXTENDS StoredLog

CONSTANTS
    Pins,          \* the pairs of pins a verification is started with
    Separating,    \* payloads with a character str.splitlines() ends a line at
    OutOfContract  \* payloads with a value validate() refuses (an unknown actor)

ASSUME PinsAssumption == Pins \subseteq Trust

VARIABLES
    pc,       \* "read", "header", "parse", "chain", "entries", then "done" or "raised"
    trust,    \* the arguments trusted_spki_sha256 and trusted_key_id
    lines,    \* what read_text returned, None before
    i,        \* lines parsed, then entries checked
    prev_eh,  \* the recomputed hash of the last entry checked
    result    \* the VerifyResult returned, None before

vars == <<committed, file, damage, pc, trust, lines, i, prev_eh, result>>

verifyVars == <<pc, trust, lines, i, prev_eh, result>>

Finished == pc \in {"done", "raised"}

-----------------------------------------------------------------------------
Return(verdict) ==
    /\ pc' = "done"
    /\ result' = verdict
    /\ UNCHANGED <<trust, lines, i, prev_eh>>

Raise ==
    /\ pc' = "raised"
    /\ UNCHANGED <<trust, lines, i, prev_eh, result>>

(***************************************************************************)
(* Mutant: a loop that starts counting at 1.                               *)
(***************************************************************************)
GotoFromOne(label) ==
    /\ pc' = label
    /\ i' = 1
    /\ UNCHANGED <<trust, lines, prev_eh, result>>

Goto(label) ==
    /\ pc' = label
    /\ i' = 0
    /\ UNCHANGED <<trust, lines, prev_eh, result>>

(***************************************************************************)
(* Of the checks in `order`, those before the k-th hold and the k-th does  *)
(* not.                                                                    *)
(***************************************************************************)
FirstFailure(order, holds, k) ==
    /\ k \in DOMAIN order
    /\ ~holds[order[k]]
    /\ \A m \in 1..(k - 1) : holds[order[m]]

AllHold(order, holds) == \A k \in DOMAIN order : holds[order[k]]

-----------------------------------------------------------------------------
(***************************************************************************)
(* The lines as splitlines() makes them: one that holds a separator other  *)
(* than "\n" within a string is cut there, and its first half is no JSON.  *)
(* What follows it is never looked at.  And a record whose values are out  *)
(* of contract is none, however it is signed.                              *)
(***************************************************************************)
FormAsRead(line) ==
    IF line.form = "object" /\ line.record.payload \in Separating \cup OutOfContract
    THEN "malformed"
    ELSE line.form

AsRead(stored) ==
    [stored EXCEPT !.entries =
        [n \in 1..Len(stored.entries) |->
            [stored.entries[n] EXCEPT !.form = FormAsRead(stored.entries[n])]]]

(***************************************************************************)
(* p.read_text: OSError is caught, UnicodeDecodeError is not.              *)
(***************************************************************************)
ReadLog ==
    /\ pc = "read"
    /\ UNCHANGED logVars
    /\ \/ /\ file = None
          /\ Return(Fail(0, None, "cannot read log", None))
       \/ /\ file # None /\ file.medium = "undecodable"
          /\ pc' = "raised"
          /\ lines' = AsRead(file)
          /\ UNCHANGED <<trust, i, prev_eh, result>>
       \/ /\ file # None /\ file.medium = "text"
          /\ pc' = "header"
          /\ lines' = AsRead(file)
          /\ UNCHANGED <<trust, i, prev_eh, result>>

(***************************************************************************)
(* No line at all; the first line is no header; or it is no JSON object,   *)
(* which from_dict does not expect.                                        *)
(***************************************************************************)
ParseHeader ==
    /\ pc = "header"
    /\ UNCHANGED logVars
    /\ \/ lines.header.form = "absent" /\ Return(Fail(0, None, "empty log", None))
       \/ lines.header.form = "malformed" /\ Return(Fail(0, None, "bad chain header", None))
       \/ lines.header.form = "nonobject" /\ Raise
       \/ lines.header.form = "object" /\ Goto("parse")


(***************************************************************************)
(* One turn of the parse loop.  i is the number of envelopes parsed.       *)
(***************************************************************************)
ParseEntry ==
    /\ pc = "parse"
    /\ i < Len(lines.entries)
    /\ UNCHANGED logVars
    /\ LET line == lines.entries[i + 1]
       IN  \/ /\ line.form = "malformed"
              /\ Return(Fail(i, i, "malformed entry", lines.header.key_id))
           \/ line.form = "nonobject" /\ Raise
           \/ /\ line.form = "object"
              /\ i' = i + 1
              /\ UNCHANGED <<pc, trust, lines, prev_eh, result>>

ParseDone ==
    /\ pc = "parse"
    /\ i = Len(lines.entries)
    /\ UNCHANGED logVars
    /\ Goto("chain")

-----------------------------------------------------------------------------
(***************************************************************************)
(* Mutant: the key is not held against the fingerprint it is known by.     *)
(***************************************************************************)
HeaderOrderNoFingerprint == <<"not the trusted anchor", "not the trusted key_id",
                              "key unreadable", "not an EC key", "no entries">>

(***************************************************************************)
(* The checks verify_chain makes before its loop, in the code's order.     *)
(***************************************************************************)
HeaderOrder == <<"not the trusted anchor", "not the trusted key_id", "key unreadable",
                 "not an EC key", "spki_sha256 mismatch", "no entries">>

HeaderChecks(hdr, entries, pins) ==
    [c \in HeaderReasons |->
       CASE c = "not the trusted anchor" ->
              pins.trusted_spki_sha256 = None \/ hdr.spki_sha256 = pins.trusted_spki_sha256
         [] c = "not the trusted key_id" ->
              pins.trusted_key_id = None \/ hdr.key_id = pins.trusted_key_id
         [] c = "key unreadable"       -> hdr.spki_der \notin BadDers
         [] c = "not an EC key"        -> hdr.spki_der \notin RsaKeys
         [] c = "spki_sha256 mismatch" -> spki_fingerprint(hdr.spki_der) = hdr.spki_sha256
         [] c = "no entries"           -> entries # <<>>]

(***************************************************************************)
(* The message of a failed pin slices the header's fingerprint: when the   *)
(* header holds null there, the slice itself raises.                       *)
(***************************************************************************)
CheckHeader ==
    /\ pc = "chain"
    /\ UNCHANGED logVars
    /\ LET hdr   == lines.header
           holds == HeaderChecks(hdr, lines.entries, trust)
       IN  \/ \E k \in DOMAIN HeaderOrder :
                 /\ FirstFailure(HeaderOrder, holds, k)
                 /\ IF HeaderOrder[k] = "not the trusted anchor" /\ hdr.spki_sha256 = None
                    THEN Raise
                    ELSE Return(Fail(0, None, HeaderOrder[k], hdr.key_id))
           \/ AllHold(HeaderOrder, holds) /\ Goto("entries")

(***************************************************************************)
(* Mutants: one check of the loop forgotten.                               *)
(***************************************************************************)
EntryOrderNoLink == <<"sequence", "canonical", "entry_hash", "public_key fingerprint",
                      "key_id", "session_id", "signature">>

EntryOrderNoStoredHash == <<"sequence", "prev_entry_hash", "canonical",
                            "public_key fingerprint", "key_id", "session_id", "signature">>

EntryOrderNoSession == <<"sequence", "prev_entry_hash", "canonical", "entry_hash",
                         "public_key fingerprint", "key_id", "signature">>

EntryOrderNoSignature == <<"sequence", "prev_entry_hash", "canonical", "entry_hash",
                           "public_key fingerprint", "key_id", "session_id">>

(***************************************************************************)
(* The checks of one turn of the entry loop, in the code's order.          *)
(* "canonical" is the recomputation of the hash, which raises on a record  *)
(* that has no canonical bytes.                                            *)
(***************************************************************************)
EntryOrder == <<"sequence", "prev_entry_hash", "canonical", "entry_hash",
                "public_key fingerprint", "key_id", "session_id", "signature">>

EntryChecks(hdr, e, n, prev) ==
    LET rec == e.record
    IN  [c \in EntryReasons \cup {"canonical"} |->
           CASE c = "sequence"        -> rec.sequence = n
             [] c = "prev_entry_hash" -> rec.prev_entry_hash = prev
             [] c = "canonical"       -> rec.payload \notin Unencodable
             [] c = "entry_hash"      -> entry_hash(rec) = e.entry_hash
             [] c = "public_key fingerprint" ->
                  e.public_key.spki_sha256 = hdr.spki_sha256
             [] c = "key_id"          ->
                  e.public_key.key_id = hdr.key_id /\ rec.signer_key_id = hdr.key_id
             [] c = "session_id"      -> rec.session_id = hdr.session_id
             [] c = "signature"       ->
                  SignatureVerifies(hdr.spki_der, e.signature,
                                    signed_digest(entry_hash(rec)))]

CheckEntry ==
    /\ pc = "entries"
    /\ i < Len(lines.entries)
    /\ UNCHANGED logVars
    /\ LET hdr   == lines.header
           e     == lines.entries[i + 1]
           holds == EntryChecks(hdr, e, i, prev_eh)
       IN  \/ \E k \in DOMAIN EntryOrder :
                 /\ FirstFailure(EntryOrder, holds, k)
                 /\ IF EntryOrder[k] = "canonical"
                    THEN Raise
                    ELSE Return(Fail(i, i, EntryOrder[k], hdr.key_id))
           \/ /\ AllHold(EntryOrder, holds)
              /\ i' = i + 1
              /\ prev_eh' = entry_hash(e.record)
              /\ UNCHANGED <<pc, trust, lines, result>>

Accept ==
    /\ pc = "entries"
    /\ i = Len(lines.entries)
    /\ UNCHANGED logVars
    /\ Return(Valid(Len(lines.entries), lines.header.key_id,
                    Last(lines.entries).record.event_type = "session_end"))

-----------------------------------------------------------------------------
(***************************************************************************)
(* verify_log reads the file once: what happens to the file after ReadLog  *)
(* is nothing to this verification, so the file rests from there on.  The  *)
(* signer does not.                                                        *)
(***************************************************************************)
VerifyInit ==
    /\ Init
    /\ pc = "read"
    /\ trust \in Pins
    /\ lines = None
    /\ i = 0
    /\ prev_eh = NoHash
    /\ result = None

VerifyStep ==
    \/ ReadLog
    \/ ParseHeader
    \/ ParseEntry
    \/ ParseDone
    \/ CheckHeader
    \/ CheckEntry
    \/ Accept

World ==
    \/ \E s \in Sessions, t \in {"session_start"} \cup WriterEvents :
          \E p \in Payloads \ (Unencodable \cup OutOfContract) :
              Commit(s, t, p) /\ UNCHANGED verifyVars
    \/ \E s \in Sessions : pc = "read" /\ Present(s) /\ UNCHANGED verifyVars
    \/ pc = "read" /\ DamageStep /\ UNCHANGED verifyVars

Next == World \/ VerifyStep

Spec == VerifyInit /\ [][Next]_vars

-----------------------------------------------------------------------------
TypeOK ==
    /\ LogTypeOK
    /\ pc \in {"read", "header", "parse", "chain", "entries", "done", "raised"}
    /\ trust \in Trust
    /\ lines \in LogFile \cup {None}
    /\ i \in Nat
    /\ lines # None => i <= Len(lines.entries)
    /\ prev_eh \in Hash
    /\ result \in VerifyResult \cup {None}
    /\ (result # None) <=> (pc = "done")
    /\ pc \in {"header", "parse", "chain", "entries"} => lines # None

Accepted == result # None /\ result.ok

Pinned == trust.trusted_spki_sha256 = spki_fingerprint(SignerKey)

(***************************************************************************)
(* An accepted log is, in every field that is checked, the log its         *)
(* header's key holder writes for the events it carries: one key, one      *)
(* label, one session, every link, stored hash and signature in place.  No *)
(* edit of those that does not use that key survives; alg, encoding and    *)
(* extra keys are never looked at.                                         *)
(***************************************************************************)
AcceptedAsWritten ==
    Accepted =>
        /\ lines = ChainFile(lines.header.session_id, Bodies(lines.entries),
                             lines.header.spki_der, lines.header.key_id,
                             spki_fingerprint(lines.header.spki_der))
        /\ InOrder(lines.header.session_id, lines.header.key_id, Bodies(lines.entries))

(***************************************************************************)
(* A log accepted under the signer's pinned fingerprint carries a prefix   *)
(* of what the signer committed for the session it names: nothing altered, *)
(* dropped inside, reordered, replayed, or brought in from elsewhere.      *)
(***************************************************************************)
PinnedSound ==
    Accepted /\ Pinned =>
        IsPrefix(Bodies(lines.entries), committed[lines.header.session_id])

(***************************************************************************)
(* When such a log also says it ended, it is the session, whole: nothing   *)
(* was cut off its tail (what --require-ended relies on).                  *)
(***************************************************************************)
EndedIsComplete ==
    Accepted /\ Pinned /\ result.ended =>
        Bodies(lines.entries) = committed[lines.header.session_id]

(***************************************************************************)
(* No false alarm: a log the signer wrote, as far as it goes, and read     *)
(* line by line as it was written, is accepted with its length, under      *)
(* every pin that is the signer's.                                         *)
(***************************************************************************)
GenuineLog(log) ==
    \E s \in Sessions : \E n \in 1..Len(committed[s]) :
        log = GenuineFile(s, SubSeq(committed[s], 1, n))

SignersPins ==
    /\ trust.trusted_spki_sha256 \in {None, spki_fingerprint(SignerKey)}
    /\ trust.trusted_key_id \in {None, SignerLabel}

GenuineAccepted ==
    Finished /\ lines # None /\ GenuineLog(lines) /\ SignersPins
    => Accepted /\ result.count = Len(lines.entries)


(***************************************************************************)
(* The loops decide what ChainVerdict decides at one look: the least       *)
(* offending line or entry and a check it fails.                           *)
(***************************************************************************)
Verdict == INSTANCE ChainVerdict WITH
    looked  <- pc # "read",
    log     <- lines,
    trust   <- trust,
    outcome <- IF pc = "raised" THEN Raised ELSE result

ImplementsVerdict == Verdict!Spec

(***************************************************************************)
(* "The first failure stops verification and is reported with its index":  *)
(* whatever entry is reported, those before it are as written.             *)
(***************************************************************************)
FirstOffendingIndex ==
    result # None /\ result.broken_index # None =>
        \A n \in 1..result.broken_index :
            lines.entries[n] = EnvelopeOf(Bodies(lines.entries), n, lines.header.spki_der,
                                          lines.header.key_id,
                                          spki_fingerprint(lines.header.spki_der))

(***************************************************************************)
(* "One JSONL line per event": a log on disk as the signer wrote it, as    *)
(* far as it goes, is accepted under every pin that is the signer's.       *)
(***************************************************************************)
GenuineNeverRefused ==
    Finished /\ file # None /\ GenuineLog(file) /\ SignersPins => Accepted

=============================================================================
