------------------------------ MODULE TsVerify ------------------------------
(***************************************************************************)
(* The TypeScript port of the verifier (ts/src/verify.ts), as what it may  *)
(* answer for a stored log.  It divides the work differently: the file is  *)
(* cut at "\n" alone; a line is parsed as JSON first, and its shape is     *)
(* only looked at when the loop over the entries gets there, after the     *)
(* header has been checked; the values of the fields are not looked at at  *)
(* all.  And it does not read every text as Python does.                   *)
(***************************************************************************)
EXTENDS VerifyLog, Verdicts

(***************************************************************************)
(* What the port may read in the texts of a log.  Buffer.from(.., "hex")   *)
(* stops at the first character that is no hex digit, where bytes.fromhex  *)
(* skips blanks and raises on the rest, and int(.., 16) takes blanks, a    *)
(* sign, "0x", underscores and a length of its own.  So a text that is a   *)
(* key or a signature for Python may be none here, and one that is none    *)
(* there may be any key here, or any signature over this record that has   *)
(* been made.                                                              *)
(***************************************************************************)
SignaturesMade(e) ==
    {sig \in [key: SigningKeys, over: {signed_digest(entry_hash(e.record))}] :
        Genuine([e EXCEPT !.signature = sig])}

SignatureReadings(e) ==
    {e.signature, [e.signature EXCEPT !.key = None]}
    \cup {sig \in SignaturesMade(e) : e.signature.key = None}

KeyReadings(der) == IF der \in BadDers THEN Ders ELSE {der} \cup BadDers

(***************************************************************************)
(* What from_dict refuses may do here: a number written 1e0, a header that *)
(* names no version.                                                       *)
(***************************************************************************)
FormReadings(form) == IF form = "malformed" THEN {"malformed", "object"} ELSE {form}

LineAs(e, form, sig) == [e EXCEPT !.form = form, !.signature = sig]

HeaderAs(hdr, form, der) == [hdr EXCEPT !.form = form, !.spki_der = der]

LineReadings(e) ==
    {LineAs(e, form, sig) : form \in FormReadings(e.form), sig \in SignatureReadings(e)}

HeaderReadings(hdr) ==
    {HeaderAs(hdr, form, der) :
        form \in FormReadings(hdr.form), der \in KeyReadings(hdr.spki_der)}

EntriesReadings(entries) ==
    {es \in [DOMAIN entries -> UNION {LineReadings(entries[n]) : n \in DOMAIN entries}] :
        \A n \in DOMAIN entries : es[n] \in LineReadings(entries[n])}

(***************************************************************************)
(* Bytes that are no UTF-8 are replaced, never refused.                    *)
(***************************************************************************)
TsReadings(theLog) ==
    {[medium |-> "text", header |-> hdr, entries |-> es] :
        hdr \in HeaderReadings(theLog.header), es \in EntriesReadings(theLog.entries)}

-----------------------------------------------------------------------------
(***************************************************************************)
(* What the loop makes of a line that is no envelope of the contract: its  *)
(* shape is refused, an access to it throws, or one of the checks fails.   *)
(***************************************************************************)
Misshapen(n, key_id) ==
    {Raised} \cup {Fail(n - 1, n - 1, r, key_id) : r \in EntryReasons \cup {"malformed entry"}}

(***************************************************************************)
(* The checks of an envelope under `pub`, the key the header's bytes load  *)
(* as.  A lone surrogate has canonical bytes here, those of its escape.    *)
(***************************************************************************)
TsHolds(hdr, pub, entries, n) ==
    LET e   == entries[n]
        rec == e.record
    IN  [sequence        |-> rec.sequence = n - 1,
         prev_entry_hash |-> rec.prev_entry_hash = LinkBefore(entries, n),
         entry_hash      |-> entry_hash(rec) = e.entry_hash,
         fingerprint     |-> e.public_key.spki_sha256 = hdr.spki_sha256,
         key_id          |-> hdr.key_id = e.public_key.key_id /\ hdr.key_id = rec.signer_key_id,
         session_id      |-> rec.session_id = hdr.session_id,
         signature       |-> SignatureVerifies(pub, e.signature, signed_digest(entry_hash(rec)))]

(***************************************************************************)
(* Mutant: the record's session is not held against the header's.          *)
(***************************************************************************)
TsOrderNoSession == <<"sequence", "prev_entry_hash", "entry_hash", "fingerprint", "key_id",
                      "signature">>

TsOrder == <<"sequence", "prev_entry_hash", "entry_hash", "fingerprint", "key_id",
             "session_id", "signature">>

TsReason(check) == IF check = "fingerprint" THEN "public_key fingerprint" ELSE check

(***************************************************************************)
(* One turn of the loop of verifyChain: the failures it may return.        *)
(***************************************************************************)
EntryFailures(hdr, pub, entries, n) ==
    IF entries[n].form # "object" THEN Misshapen(n, hdr.key_id)
    ELSE {Fail(n - 1, n - 1, TsReason(TsOrder[k]), hdr.key_id) :
             k \in {m \in DOMAIN TsOrder :
                       FirstFailure(TsOrder, TsHolds(hdr, pub, entries, n), m)}}

(***************************************************************************)
(* Mutant: the key is not held against the fingerprint it is known by.     *)
(***************************************************************************)
TsHeaderOrderNoFingerprint ==
    <<"not the trusted anchor", "not the trusted key_id", "key unreadable", "no entries">>

(***************************************************************************)
(* The checks before the loop.  What kind of key it is, is not asked.      *)
(***************************************************************************)
TsHeaderOrder == <<"not the trusted anchor", "not the trusted key_id", "key unreadable",
                   "spki_sha256 mismatch", "no entries">>

TsHeaderHolds(hdr, pub, entries, pins) ==
    [HeaderChecks(hdr, entries, pins) EXCEPT !["key unreadable"] = (pub # None)]

(***************************************************************************)
(* createPublicKey: bytes Python does not load may do here, with others    *)
(* after them.  An RSA key's signatures verify; for other kinds            *)
(* crypto.verify throws at the first signature it gets to.                 *)
(***************************************************************************)
LoadsAs(der) == IF der \in BadDers THEN SigningKeys \cup {None} ELSE {der}

Throws(hdr, pub, entries) ==
    /\ pub \in RsaKeys
    /\ LET holds == TsHolds(hdr, pub, entries, 1)
       IN  \A check \in DOMAIN holds \ {"signature"} : holds[check]

verifyChain(hdr, pub, entries, pins) ==
    LET holds   == TsHeaderHolds(hdr, pub, entries, pins)
        failing == {n \in DOMAIN entries : EntryFailures(hdr, pub, entries, n) # {}}
    IN  IF ~AllHold(TsHeaderOrder, holds)
        THEN {Fail(0, None, TsHeaderOrder[k], hdr.key_id) :
                 k \in {m \in DOMAIN TsHeaderOrder : FirstFailure(TsHeaderOrder, holds, m)}}
        ELSE (IF failing # {} THEN EntryFailures(hdr, pub, entries, Least(failing))
              ELSE {Valid(Len(entries), hdr.key_id, EndsSession(entries))})
             \cup {x \in {Raised} : Throws(hdr, pub, entries)}

(***************************************************************************)
(* verifyLog: a line that is no JSON ends it before anything is checked,   *)
(* and a header that is none, before the chain is.                         *)
(***************************************************************************)
NotJson(entries) == {n \in DOMAIN entries : entries[n].form = "malformed"}

TsHeaderRefused(form) ==
    {Fail(0, None, "empty log", None) : x \in {form} \cap {"absent"}}
    \cup {Fail(0, None, "bad chain header", None) : x \in {form} \cap {"malformed", "nonobject"}}

verifyLog(theLog, pins) ==
    IF theLog = None THEN {Fail(0, None, "cannot read log", None)}
    ELSE LET hdr     == theLog.header
             entries == theLog.entries
             key_id  == IF hdr.form = "object" THEN hdr.key_id ELSE None
         IN  TsHeaderRefused(hdr.form)
             \cup {Fail(n - 1, n - 1, "malformed entry", key_id) : n \in NotJson(entries)}
             \cup (IF hdr.form = "object"
                   THEN UNION {verifyChain(hdr, pub, entries, pins) : pub \in LoadsAs(hdr.spki_der)}
                   ELSE {})

-----------------------------------------------------------------------------
(***************************************************************************)
(* A log both were written for: under an EC key, with the values of the    *)
(* contract, and no character in them but "\n" at which Python alone ends  *)
(* a line.                                                                 *)
(***************************************************************************)
Conformant(theLog) ==
    /\ theLog.header.spki_der \in Keys
    /\ \A n \in DOMAIN theLog.entries :
          theLog.entries[n].form = "object"
          => theLog.entries[n].record.payload \notin Separating \cup OutOfContract

(***************************************************************************)
(* "Same accepts, same rejects" (ts/test/verify.test.ts), for such logs    *)
(* and with their texts read alike: whatever was damaged in the log, the   *)
(* port accepts it exactly if the reference does, and where every line is  *)
(* an envelope both give the same answer: count, end, the entry they stop  *)
(* at and the reason.                                                      *)
(***************************************************************************)
PortsAgree ==
    result # None /\ (file # None => Conformant(file)) =>
        \A port \in verifyLog(file, trust) :
            /\ Accepted <=> port # Raised /\ port.ok
            /\ file = None \/ Unparsed(file.entries) = {} => port = result

(***************************************************************************)
(* Pinned to the signer, the port is as sound as the reference on every    *)
(* log, however it reads it: what it accepts is a prefix of what the       *)
(* signer committed for the session the header names, and all of it when   *)
(* it says the session ended (verifyChain, opts.trustedSpkiSha256).        *)
(***************************************************************************)
PortSound ==
    Finished /\ Pinned /\ file # None =>
        \A asRead \in TsReadings(file) : \A port \in verifyLog(asRead, trust) :
            port # Raised /\ port.ok =>
                LET bodies == Bodies(asRead.entries)
                    signed == committed[asRead.header.session_id]
                IN  IsPrefix(bodies, signed) /\ (port.ended => bodies = signed)

(***************************************************************************)
(* "Both verifiers reject the SAME inputs": what the reference answers     *)
(* with a refusal, the port does not accept.                               *)
(***************************************************************************)
PortRejects ==
    result # None /\ ~result.ok =>
        \A port \in verifyLog(file, trust) : port = Raised \/ ~port.ok

=============================================================================
