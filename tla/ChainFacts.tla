----------------------------- MODULE ChainFacts -----------------------------
(***************************************************************************)
(* Facts about records, hashes, chains and verdicts that the proofs about  *)
(* verify_log and about anchors share.                                     *)
(***************************************************************************)
EXTENDS AnchorCheck, SequenceTheorems, FiniteSetTheorems, TLAPS

-----------------------------------------------------------------------------
(***************************************************************************)
(* Hashes and records.                                                     *)
(***************************************************************************)
LEMMA BodyTyped == \A rec \in Record : BodyOf(rec) \in Body
  BY DEF Record, Body, BodyOf

\* A body keeps the fields of the record it is the body of.
LEMMA BodyFields ==
  ASSUME NEW rec
  PROVE  /\ BodyOf(rec).session_id = rec.session_id
         /\ BodyOf(rec).signer_key_id = rec.signer_key_id
         /\ BodyOf(rec).sequence = rec.sequence
         /\ BodyOf(rec).event_type = rec.event_type
  BY DEF BodyOf

\* The hash of a record is a hash.
LEMMA EntryHashTyped == \A rec \in Record : entry_hash(rec) \in Hash
  BY BodyTyped, AppendProperties DEF entry_hash, Hash, Record

\* A body with a link makes a record.
LEMMA RecordTyped ==
  ASSUME NEW body \in Body, NEW prev \in Hash
  PROVE  RecordOf(body, prev) \in Record
  BY DEF RecordOf, Record, Body

\* Linking a body changes nothing else it says.
LEMMA BodyOfRecordOf ==
  ASSUME NEW body \in Body, NEW prev
  PROVE  BodyOf(RecordOf(body, prev)) = body
  BY DEF RecordOf, BodyOf, Body

\* A record is its body and its link, nothing more.
LEMMA RecordOfBodyOf ==
  ASSUME NEW rec \in Record
  PROVE  rec = RecordOf(BodyOf(rec), rec.prev_entry_hash)
  BY DEF RecordOf, BodyOf, Record

\* An EC key is one that signs, and what signs is a key that loads.
LEMMA KeysSign == Keys \subseteq SigningKeys /\ SigningKeys \subseteq Ders
  BY DEF SigningKeys, Ders

\* A signature over a record's signed digest is a signature.
LEMMA SignatureTyped ==
  ASSUME NEW key \in SigningKeys \cup {None}, NEW hash \in Hash
  PROVE  SignedBy(key, hash) \in Signature
  BY DEF SignedBy, signed_digest, Signature, Digest, DomainTags

\* The null link of a genesis record is a hash.
LEMMA NoHashTyped == NoHash \in Hash
  BY DEF NoHash, Hash

(***************************************************************************)
(* The start of a history is a history.                                    *)
(***************************************************************************)
LEMMA StartTyped ==
  ASSUME NEW bodies \in Seq(Body), NEW n \in 0..Len(bodies)
  PROVE  /\ SubSeq(bodies, 1, n) \in Hash
         /\ Len(SubSeq(bodies, 1, n)) = n
         /\ \A m \in 1..n : SubSeq(bodies, 1, n)[m] = bodies[m]
  BY SubSeqProperties DEF Hash

\* What the holder of a key writes for an event is an envelope.
LEMMA EnvelopeTyped ==
  ASSUME NEW bodies \in Seq(Body), NEW n \in 1..Len(bodies),
         NEW key \in SigningKeys, NEW label \in Labels, NEW claimed \in Fingerprint
  PROVE  EnvelopeOf(bodies, n, key, label, claimed) \in Envelope
  <1>1. SubSeq(bodies, 1, n - 1) \in Hash /\ SubSeq(bodies, 1, n) \in Hash
    BY StartTyped
  <1>2. RecordOf(bodies[n], SubSeq(bodies, 1, n - 1)) \in Record
    BY <1>1, RecordTyped
  <1>3. SignedBy(key, SubSeq(bodies, 1, n)) \in Signature
    BY <1>1, SignatureTyped
  <1>4. PublicKeyOf(label, claimed) \in PublicKeyRef
    BY DEF PublicKeyOf, PublicKeyRef
  <1> QED
    BY <1>1, <1>2, <1>3, <1>4 DEF EnvelopeOf, Envelope, LineForms

\* What the holder of a key writes for a history is a log.
LEMMA ChainFileTyped ==
  ASSUME NEW session \in Sessions, NEW bodies \in Seq(Body),
         NEW key \in SigningKeys, NEW label \in Labels, NEW claimed \in Fingerprint
  PROVE  ChainFile(session, bodies, key, label, claimed) \in LogFile
  <1>1. [n \in 1..Len(bodies) |-> EnvelopeOf(bodies, n, key, label, claimed)]
            \in Seq(Envelope)
    BY EnvelopeTyped
  <1>2. [form |-> "object", session_id |-> session, key_id |-> label,
         spki_der |-> key, spki_sha256 |-> claimed] \in Header
    BY DEF Header, LineForms, Ders, SigningKeys
  <1> QED
    BY <1>1, <1>2 DEF ChainFile, LogFile, Media

\* The bodies that envelopes carry, one each.
LEMMA BodiesTyped ==
  ASSUME NEW entries \in Seq(Envelope)
  PROVE  /\ Bodies(entries) \in Seq(Body)
         /\ Len(Bodies(entries)) = Len(entries)
         /\ \A n \in 1..Len(entries) : Bodies(entries)[n] = BodyOf(entries[n].record)
  <1>1. ASSUME NEW n \in 1..Len(entries)
        PROVE  BodyOf(entries[n].record) \in Body
    <2>1. entries[n] \in Envelope
      OBVIOUS
    <2> QED
      BY <2>1, BodyTyped DEF Envelope
  <1> QED
    BY <1>1 DEF Bodies

\* The start of a history grows by the next of its events.
LEMMA SubSeqGrows ==
  ASSUME NEW S, NEW s \in Seq(S), NEW n \in 1..Len(s)
  PROVE  SubSeq(s, 1, n) = Append(SubSeq(s, 1, n - 1), s[n])
  <1>1. SubSeq(s, 1, n) = SubSeq(s, 1, n - 1) \o <<s[n]>>
    BY SubSeqRecursiveSecond
  <1>2. SubSeq(s, 1, n - 1) \in Seq(S)
    BY SubSeqProperties
  <1> QED
    BY <1>1, <1>2

\* An entry whose link, stored hash, key and signature are in place is the
\* envelope the key holder writes there, and hashes to the history up to it.
LEMMA WrittenEntry ==
  ASSUME NEW entries \in Seq(Envelope), NEW hdr, NEW n \in 1..Len(entries),
         entries[n].form = "object",
         spki_fingerprint(hdr.spki_der) = hdr.spki_sha256,
         entries[n].record.prev_entry_hash = SubSeq(Bodies(entries), 1, n - 1),
         entry_hash(entries[n].record) = entries[n].entry_hash,
         entries[n].public_key.spki_sha256 = hdr.spki_sha256,
         entries[n].public_key.key_id = hdr.key_id,
         entries[n].signature.key = hdr.spki_der,
         entries[n].signature.over = signed_digest(entry_hash(entries[n].record))
  PROVE  /\ entries[n] = EnvelopeOf(Bodies(entries), n, hdr.spki_der, hdr.key_id,
                                    spki_fingerprint(hdr.spki_der))
         /\ entry_hash(entries[n].record) = SubSeq(Bodies(entries), 1, n)
  <1> DEFINE e == entries[n]
             bodies == Bodies(entries)
  <1>1. /\ e \in Envelope /\ e.record \in Record /\ e.signature \in Signature
        /\ e.public_key \in PublicKeyRef
    <2>1. e \in Envelope
      OBVIOUS
    <2> QED
      BY <2>1 DEF Envelope
  <1>2. /\ e.record.prev_entry_hash = SubSeq(bodies, 1, n - 1)
        /\ entry_hash(e.record) = e.entry_hash
        /\ e.public_key.spki_sha256 = hdr.spki_sha256
        /\ e.public_key.key_id = hdr.key_id
        /\ e.signature.key = hdr.spki_der
        /\ e.signature.over = signed_digest(entry_hash(e.record))
    OBVIOUS
  <1>3. bodies \in Seq(Body) /\ n \in 1..Len(bodies) /\ bodies[n] = BodyOf(e.record)
    BY BodiesTyped
  <1>4. entry_hash(e.record) = SubSeq(bodies, 1, n)
    BY <1>2, <1>3, SubSeqGrows DEF entry_hash
  <1>5. e.record = RecordOf(bodies[n], SubSeq(bodies, 1, n - 1))
    BY <1>1, <1>2, <1>3, RecordOfBodyOf
  <1>6. e.signature = SignedBy(hdr.spki_der, SubSeq(bodies, 1, n))
    BY <1>1, <1>2, <1>4 DEF SignedBy, Signature
  <1>7. e.public_key = PublicKeyOf(hdr.key_id, spki_fingerprint(hdr.spki_der))
    BY <1>1, <1>2 DEF PublicKeyOf, PublicKeyRef
  <1>8. e = EnvelopeOf(bodies, n, hdr.spki_der, hdr.key_id, spki_fingerprint(hdr.spki_der))
    BY <1>1, <1>2, <1>4, <1>5, <1>6, <1>7 DEF EnvelopeOf, Envelope
  <1> QED
    BY <1>4, <1>8

-----------------------------------------------------------------------------
(***************************************************************************)
(* Verdicts.                                                               *)
(***************************************************************************)
\* A failure is an answer that is not ok.
LEMMA FailTyped ==
  ASSUME NEW count \in Nat, NEW index \in Nat \cup {None},
         NEW reason \in LogReasons \cup HeaderReasons \cup EntryReasons,
         NEW key_id \in Labels \cup {None}
  PROVE  /\ Fail(count, index, reason, key_id) \in VerifyResult
         /\ ~Fail(count, index, reason, key_id).ok
  BY DEF Fail, VerifyResult

\* A set of naturals that is not empty has a least element: of the finite sets
\* 0..k for k in it, one has none of the others within it.
LEMMA LeastNatural ==
  ASSUME NEW T \in SUBSET Nat, T # {}
  PROVE  \E k \in T : \A m \in T : k <= m
  <1> DEFINE Starts == {0..k : k \in T}
             R == StrictSubsetOrdering(Nat)
             F == FiniteSubsetsOf(Nat)
  <1>1. Starts \subseteq F
    <2> SUFFICES ASSUME NEW k \in T
                 PROVE  0..k \in F
      OBVIOUS
    <2>1. IsFiniteSet(0..k)
      BY FS_Interval
    <2>2. 0..k \in SUBSET Nat
      OBVIOUS
    <2> QED
      BY <2>1, <2>2 DEF FiniteSubsetsOf
  <1>2. Starts # {}
    OBVIOUS
  <1>3. \E x \in Starts : \A y \in Starts : <<y, x>> \notin R
    <2>1. IsWellFoundedOn(R, F)
      BY FS_StrictSubsetOrderingWellFounded
    <2> HIDE DEF Starts, R, F
    <2> QED
      BY <1>1, <1>2, <2>1, WFMin
  <1>4. PICK k \in T : \A m \in T : <<0..m, 0..k>> \notin R
    BY <1>3
  <1>5. ASSUME NEW m \in T, m < k
        PROVE  FALSE
    <2>1. 0..m \in SUBSET Nat /\ 0..k \in SUBSET Nat
      OBVIOUS
    <2>2. 0..m \subseteq 0..k /\ k \in 0..k /\ k \notin 0..m
      BY <1>5
    <2>3. <<0..m, 0..k>> \in R
      BY <2>1, <2>2 DEF StrictSubsetOrdering
    <2> QED
      BY <1>4, <2>3
  <1> QED
    BY <1>4, <1>5

\* A set that holds 0 and, up to N, the successor of what it holds, is 0..N.
LEMMA UpFromZero ==
  ASSUME NEW N \in Nat, NEW T \in SUBSET (0..N), 0 \in T,
         \A n \in T : n < N => n + 1 \in T
  PROVE  T = 0..N
  <1> SUFFICES ASSUME 0..N \ T # {}
               PROVE  FALSE
    OBVIOUS
  <1>1. PICK k \in 0..N \ T : \A m \in 0..N \ T : k <= m
    <2> DEFINE U == 0..N \ T
    <2>1. U \in SUBSET Nat /\ U # {}
      OBVIOUS
    <2> HIDE DEF U
    <2>2. \E k \in U : \A m \in U : k <= m
      BY <2>1, LeastNatural
    <2> QED
      BY <2>2 DEF U
  <1>2. k # 0 /\ k - 1 \in 0..N /\ k - 1 < N
    BY <1>1
  <1>3. k - 1 \in T
    BY <1>1, <1>2
  <1>4. (k - 1) + 1 \in T
    BY <1>2, <1>3
  <1> QED
    BY <1>1, <1>4

\* The least number is the one that is least.
LEMMA LeastIs ==
  ASSUME NEW S \in SUBSET Nat, NEW n \in S, \A m \in S : n <= m
  PROVE  Least(S) = n
  <1>1. \A k \in S : (\A m \in S : k <= m) => k = n
    OBVIOUS
  <1> QED
    BY <1>1 DEF Least

\* The header checks that can fail, and when each does.
LEMMA HeaderViolationsAre ==
  ASSUME NEW hdr, NEW entries, NEW pins, NEW r
  PROVE  r \in HeaderViolations(hdr, entries, pins) <=>
           \/ r = "not the trusted anchor" /\ pins.trusted_spki_sha256 \notin {None, hdr.spki_sha256}
           \/ r = "not the trusted key_id" /\ pins.trusted_key_id \notin {None, hdr.key_id}
           \/ r = "key unreadable" /\ hdr.spki_der \in BadDers
           \/ r = "not an EC key" /\ hdr.spki_der \in RsaKeys
           \/ r = "spki_sha256 mismatch" /\ spki_fingerprint(hdr.spki_der) # hdr.spki_sha256
           \/ r = "no entries" /\ entries = <<>>
  <1> DEFINE a == pins.trusted_spki_sha256 \notin {None, hdr.spki_sha256}
             b == pins.trusted_key_id \notin {None, hdr.key_id}
             c == hdr.spki_der \in BadDers
             d == hdr.spki_der \in RsaKeys
             e == spki_fingerprint(hdr.spki_der) # hdr.spki_sha256
             f == entries = <<>>
             violated == [anchor |-> a, label |-> b, unreadable |-> c, otherKind |-> d,
                          fingerprint |-> e, empty |-> f]
             name == [anchor |-> "not the trusted anchor", label |-> "not the trusted key_id",
                 unreadable |-> "key unreadable", otherKind |-> "not an EC key",
                 fingerprint |-> "spki_sha256 mismatch", empty |-> "no entries"]
  <1>1. HeaderViolations(hdr, entries, pins) = {name[v] : v \in {w \in DOMAIN violated : violated[w]}}
    BY DEF HeaderViolations
  <1>2. DOMAIN violated = {"anchor", "label", "unreadable", "otherKind", "fingerprint", "empty"}
    OBVIOUS
  <1>3. /\ violated["anchor"] <=> a
        /\ violated["label"] <=> b
        /\ violated["unreadable"] <=> c
        /\ violated["otherKind"] <=> d
        /\ violated["fingerprint"] <=> e
        /\ violated["empty"] <=> f
    <2>1. violated["anchor"] <=> a
      OBVIOUS
    <2>2. violated["label"] <=> b
      OBVIOUS
    <2>3. violated["unreadable"] <=> c
      OBVIOUS
    <2>4. violated["otherKind"] <=> d
      OBVIOUS
    <2>5. violated["fingerprint"] <=> e
      OBVIOUS
    <2>6. violated["empty"] <=> f
      OBVIOUS
    <2> QED
      BY <2>1, <2>2, <2>3, <2>4, <2>5, <2>6
  <1>4. /\ name["anchor"] = "not the trusted anchor" /\ name["label"] = "not the trusted key_id"
        /\ name["unreadable"] = "key unreadable" /\ name["otherKind"] = "not an EC key"
        /\ name["fingerprint"] = "spki_sha256 mismatch" /\ name["empty"] = "no entries"
    OBVIOUS
  <1> HIDE DEF violated, name
  <1>5. r \in HeaderViolations(hdr, entries, pins) <=>
           \E w \in DOMAIN violated : violated[w] /\ r = name[w]
    BY <1>1
  <1> QED
    BY <1>2, <1>3, <1>4, <1>5

\* The entry checks that can fail, and when each does.
LEMMA ViolationsAre ==
  ASSUME NEW hdr, NEW entries, NEW n, NEW r
  PROVE  r \in Violations(hdr, entries, n) <=>
           \/ r = "sequence" /\ entries[n].record.sequence # n - 1
           \/ r = "prev_entry_hash" /\ entries[n].record.prev_entry_hash # LinkBefore(entries, n)
           \/ r = "entry_hash" /\ entries[n].entry_hash # entry_hash(entries[n].record)
           \/ r = "public_key fingerprint" /\ entries[n].public_key.spki_sha256 # hdr.spki_sha256
           \/ r = "key_id" /\ (\/ entries[n].public_key.key_id # hdr.key_id
                               \/ entries[n].record.signer_key_id # hdr.key_id)
           \/ r = "session_id" /\ entries[n].record.session_id # hdr.session_id
           \/ r = "signature" /\ ~SignatureVerifies(hdr.spki_der, entries[n].signature,
                                              signed_digest(entry_hash(entries[n].record)))
  <1> DEFINE a == entries[n].record.sequence # n - 1
             b == entries[n].record.prev_entry_hash # LinkBefore(entries, n)
             c == entries[n].entry_hash # entry_hash(entries[n].record)
             d == entries[n].public_key.spki_sha256 # hdr.spki_sha256
             e == \/ entries[n].public_key.key_id # hdr.key_id
                  \/ entries[n].record.signer_key_id # hdr.key_id
             f == entries[n].record.session_id # hdr.session_id
             g == ~SignatureVerifies(hdr.spki_der, entries[n].signature,
                                     signed_digest(entry_hash(entries[n].record)))
             violated == [sequence |-> a, link |-> b, stored |-> c, fingerprint |-> d,
                          label |-> e, session |-> f, signature |-> g]
             name == [sequence |-> "sequence", link |-> "prev_entry_hash",
                      stored |-> "entry_hash", fingerprint |-> "public_key fingerprint",
                      label |-> "key_id", session |-> "session_id", signature |-> "signature"]
  <1>1. Violations(hdr, entries, n) = {name[v] : v \in {w \in DOMAIN violated : violated[w]}}
    BY DEF Violations
  <1>2. DOMAIN violated = {"sequence", "link", "stored", "fingerprint", "label", "session",
                           "signature"}
    OBVIOUS
  <1>3. violated["sequence"] <=> a
    OBVIOUS
  <1>4. violated["link"] <=> b
    OBVIOUS
  <1>5. violated["stored"] <=> c
    OBVIOUS
  <1>6. violated["fingerprint"] <=> d
    OBVIOUS
  <1>7. violated["label"] <=> e
    OBVIOUS
  <1>8. violated["session"] <=> f
    OBVIOUS
  <1>9. violated["signature"] <=> g
    OBVIOUS
  <1>10. /\ name["sequence"] = "sequence" /\ name["link"] = "prev_entry_hash"
         /\ name["stored"] = "entry_hash" /\ name["fingerprint"] = "public_key fingerprint"
         /\ name["label"] = "key_id" /\ name["session"] = "session_id"
         /\ name["signature"] = "signature"
    OBVIOUS
  <1> HIDE DEF violated, name
  <1>11. r \in Violations(hdr, entries, n) <=>
            \E w \in DOMAIN violated : violated[w] /\ r = name[w]
    BY <1>1
  <1> QED
    BY <1>2, <1>3, <1>4, <1>5, <1>6, <1>7, <1>8, <1>9, <1>10, <1>11

Unviolated(hdr, entries, n) == Violations(hdr, entries, n) = {}

\* An entry that fails no check is in its place, linked, hashed, labelled and
\* signed.
LEMMA NothingViolated ==
  ASSUME NEW hdr, NEW entries, NEW n
  PROVE  Unviolated(hdr, entries, n) <=>
           /\ entries[n].record.sequence = n - 1
           /\ entries[n].record.prev_entry_hash = LinkBefore(entries, n)
           /\ entries[n].entry_hash = entry_hash(entries[n].record)
           /\ entries[n].public_key.spki_sha256 = hdr.spki_sha256
           /\ entries[n].public_key.key_id = hdr.key_id
           /\ entries[n].record.signer_key_id = hdr.key_id
           /\ entries[n].record.session_id = hdr.session_id
           /\ entries[n].signature.key = hdr.spki_der
           /\ entries[n].signature.over = signed_digest(entry_hash(entries[n].record))
  <1>1. Violations(hdr, entries, n) = {} <=>
          \A r : r \notin Violations(hdr, entries, n)
    OBVIOUS
  <1>2. (\A r : r \notin Violations(hdr, entries, n)) <=>
           /\ entries[n].record.sequence = n - 1
           /\ entries[n].record.prev_entry_hash = LinkBefore(entries, n)
           /\ entries[n].entry_hash = entry_hash(entries[n].record)
           /\ entries[n].public_key.spki_sha256 = hdr.spki_sha256
           /\ entries[n].public_key.key_id = hdr.key_id
           /\ entries[n].record.signer_key_id = hdr.key_id
           /\ entries[n].record.session_id = hdr.session_id
           /\ SignatureVerifies(hdr.spki_der, entries[n].signature,
                                signed_digest(entry_hash(entries[n].record)))
    BY ViolationsAre
  <1> QED
    BY <1>1, <1>2 DEF Unviolated, SignatureVerifies

\* A sound entry fails no check and has canonical bytes.
LEMMA SoundIs ==
  ASSUME NEW hdr, NEW entries, NEW n
  PROVE  Sound(hdr, entries, n) <=>
           /\ entries[n].record.sequence = n - 1
           /\ entries[n].record.prev_entry_hash = LinkBefore(entries, n)
           /\ entries[n].entry_hash = entry_hash(entries[n].record)
           /\ entries[n].public_key.spki_sha256 = hdr.spki_sha256
           /\ entries[n].public_key.key_id = hdr.key_id
           /\ entries[n].record.signer_key_id = hdr.key_id
           /\ entries[n].record.session_id = hdr.session_id
           /\ entries[n].signature.key = hdr.spki_der
           /\ entries[n].signature.over = signed_digest(entry_hash(entries[n].record))
           /\ entries[n].record.payload \notin Unencodable
  BY NothingViolated DEF Unviolated, Sound, Unhashable

\* A chain whose entries fail no check is the one the key holder writes for
\* the events it carries: link by link, each hash unfolds to the history.
LEMMA SoundChain ==
  ASSUME NEW entries \in Seq(Envelope), NEW hdr,
         spki_fingerprint(hdr.spki_der) = hdr.spki_sha256,
         \A n \in 1..Len(entries) : entries[n].form = "object" /\ Unviolated(hdr, entries, n)
  PROVE  \A n \in 1..Len(entries) :
           /\ entries[n] = EnvelopeOf(Bodies(entries), n, hdr.spki_der, hdr.key_id,
                                      spki_fingerprint(hdr.spki_der))
           /\ entry_hash(entries[n].record) = SubSeq(Bodies(entries), 1, n)
  <1> DEFINE N == Len(entries)
             bodies == Bodies(entries)
             T == {m \in 0..N : m = 0 \/ entry_hash(entries[m].record) = SubSeq(bodies, 1, m)}
  <1>1. N \in Nat
    OBVIOUS
  <1>2. ASSUME NEW n \in 0..N, n \in T, n < N
        PROVE  /\ entries[n + 1].record.prev_entry_hash = SubSeq(bodies, 1, n)
               /\ n + 1 \in 1..Len(entries) /\ (n + 1) - 1 = n
    <2>1. n + 1 \in 1..Len(entries) /\ (n + 1) - 1 = n
      BY <1>2
    <2>2. entries[n + 1].record.prev_entry_hash = LinkBefore(entries, n + 1)
      BY <2>1, NothingViolated
    <2>3. CASE n = 0
      <3>1. SubSeq(bodies, 1, 0) = <<>>
        BY SubSeqEmpty
      <3> QED
        BY <2>1, <2>2, <2>3, <3>1 DEF LinkBefore, NoHash
    <2>4. CASE n # 0
      <3>1. LinkBefore(entries, n + 1) = entry_hash(entries[n].record)
        BY <2>1, <2>4 DEF LinkBefore
      <3> QED
        BY <1>2, <2>1, <2>2, <2>4, <3>1
    <2> QED
      BY <2>3, <2>4
  <1>3. ASSUME NEW n \in 0..N, n \in T, n < N
        PROVE  /\ entries[n + 1] = EnvelopeOf(bodies, n + 1, hdr.spki_der, hdr.key_id,
                                             spki_fingerprint(hdr.spki_der))
               /\ entry_hash(entries[n + 1].record) = SubSeq(bodies, 1, n + 1)
    <2>1. /\ entries[n + 1].record.prev_entry_hash = SubSeq(bodies, 1, (n + 1) - 1)
          /\ n + 1 \in 1..Len(entries)
      BY <1>2, <1>3
    <2>2. entries[n + 1].form = "object" /\ Unviolated(hdr, entries, n + 1)
      BY <2>1
    <2>3. /\ entries[n + 1].entry_hash = entry_hash(entries[n + 1].record)
          /\ entries[n + 1].public_key.spki_sha256 = hdr.spki_sha256
          /\ entries[n + 1].public_key.key_id = hdr.key_id
          /\ entries[n + 1].signature.key = hdr.spki_der
          /\ entries[n + 1].signature.over = signed_digest(entry_hash(entries[n + 1].record))
      BY <2>2, NothingViolated
    <2> QED
      BY <2>1, <2>2, <2>3, WrittenEntry
  <1>4. T = 0..N
    <2>1. T \in SUBSET (0..N) /\ 0 \in T
      BY <1>1
    <2>2. \A n \in T : n < N => n + 1 \in T
      BY <1>1, <1>3
    <2> HIDE DEF T, N
    <2> QED
      BY <1>1, <2>1, <2>2, UpFromZero
  <1> SUFFICES ASSUME NEW n \in 1..N
               PROVE  /\ entries[n] = EnvelopeOf(bodies, n, hdr.spki_der, hdr.key_id,
                                                 spki_fingerprint(hdr.spki_der))
                      /\ entry_hash(entries[n].record) = SubSeq(bodies, 1, n)
    OBVIOUS
  <1>5. n - 1 \in 0..N /\ n - 1 \in T /\ n - 1 < N /\ (n - 1) + 1 = n
    <2>1. n - 1 \in 0..N /\ n - 1 < N /\ (n - 1) + 1 = n
      BY <1>1
    <2> HIDE DEF T
    <2> QED
      BY <1>4, <2>1
  <1> HIDE DEF T, bodies, N
  <1> QED
    BY <1>3, <1>5

\* Conversely, what the holder of a key writes for an ordered history with
\* canonical bytes is sound, entry by entry.
LEMMA WrittenIsSound ==
  ASSUME NEW session, NEW bodies \in Seq(Body), NEW key, NEW label, NEW claimed,
         InOrder(session, label, bodies),
         \A m \in 1..Len(bodies) : bodies[m].payload \notin Unencodable,
         NEW n \in 1..Len(bodies)
  PROVE  LET log == ChainFile(session, bodies, key, label, claimed)
         IN  Sound(log.header, log.entries, n)
  <1> DEFINE log == ChainFile(session, bodies, key, label, claimed)
  <1>1. /\ log.header.session_id = session /\ log.header.key_id = label
        /\ log.header.spki_der = key /\ log.header.spki_sha256 = claimed
        /\ \A m \in 1..Len(bodies) :
              log.entries[m] = EnvelopeOf(bodies, m, key, label, claimed)
    BY DEF ChainFile
  <1> HIDE DEF log
  <1>2. \A m \in 1..Len(bodies) :
           /\ BodyOf(log.entries[m].record) = bodies[m]
           /\ log.entries[m].record.prev_entry_hash = SubSeq(bodies, 1, m - 1)
           /\ log.entries[m].entry_hash = SubSeq(bodies, 1, m)
           /\ log.entries[m].public_key = [key_id |-> label, spki_sha256 |-> claimed]
           /\ log.entries[m].signature = [key |-> key, over |-> signed_digest(SubSeq(bodies, 1, m))]
    <2> SUFFICES ASSUME NEW m \in 1..Len(bodies)
                 PROVE  /\ BodyOf(log.entries[m].record) = bodies[m]
                        /\ log.entries[m].record.prev_entry_hash = SubSeq(bodies, 1, m - 1)
                        /\ log.entries[m].entry_hash = SubSeq(bodies, 1, m)
                        /\ log.entries[m].public_key = [key_id |-> label, spki_sha256 |-> claimed]
                        /\ log.entries[m].signature =
                             [key |-> key, over |-> signed_digest(SubSeq(bodies, 1, m))]
      OBVIOUS
    <2>1. bodies[m] \in Body
      OBVIOUS
    <2> DEFINE e == log.entries[m]
    <2>2. e = EnvelopeOf(bodies, m, key, label, claimed)
      BY <1>1
    <2> HIDE DEF e
    <2>3. /\ e.record = RecordOf(bodies[m], SubSeq(bodies, 1, m - 1))
          /\ e.entry_hash = SubSeq(bodies, 1, m)
          /\ e.signature = SignedBy(key, SubSeq(bodies, 1, m))
          /\ e.public_key = PublicKeyOf(label, claimed)
      BY <2>2 DEF EnvelopeOf
    <2>4. BodyOf(e.record) = bodies[m]
      BY <2>1, <2>3, BodyOfRecordOf
    <2>5. e.record.prev_entry_hash = SubSeq(bodies, 1, m - 1)
      BY <2>3 DEF RecordOf
    <2> QED
      BY <2>3, <2>4, <2>5 DEF e, PublicKeyOf, SignedBy
  <1>3. \A m \in 1..Len(bodies) : entry_hash(log.entries[m].record) = SubSeq(bodies, 1, m)
    BY <1>2, SubSeqGrows DEF entry_hash
  <1>4. SubSeq(bodies, 1, n - 1) = LinkBefore(log.entries, n)
    <2>1. CASE n = 1
      <3>1. SubSeq(bodies, 1, 0) = <<>>
        BY SubSeqEmpty
      <3> QED
        BY <2>1, <3>1 DEF LinkBefore, NoHash
    <2>2. CASE n # 1
      <3>1. n - 1 \in 1..Len(bodies)
        BY <2>2
      <3> QED
        BY <1>3, <2>2, <3>1 DEF LinkBefore
    <2> QED
      BY <2>1, <2>2
  <1>5. /\ log.entries[n].record.session_id = session
        /\ log.entries[n].record.signer_key_id = label
        /\ log.entries[n].record.sequence = n - 1
        /\ log.entries[n].record.payload \notin Unencodable
    <2>1. /\ bodies[n].session_id = session /\ bodies[n].signer_key_id = label
          /\ bodies[n].sequence = n - 1 /\ bodies[n].payload \notin Unencodable
      BY DEF InOrder
    <2>2. BodyOf(log.entries[n].record) = bodies[n]
      BY <1>2
    <2>3. \A rec : /\ BodyOf(rec).session_id = rec.session_id
                   /\ BodyOf(rec).signer_key_id = rec.signer_key_id
                   /\ BodyOf(rec).sequence = rec.sequence
                   /\ BodyOf(rec).payload = rec.payload
      BY DEF BodyOf
    <2> QED
      BY <2>1, <2>2, <2>3
  <1>6. /\ log.entries[n].record.prev_entry_hash = LinkBefore(log.entries, n)
        /\ log.entries[n].entry_hash = entry_hash(log.entries[n].record)
        /\ log.entries[n].public_key.spki_sha256 = claimed
        /\ log.entries[n].public_key.key_id = label
        /\ log.entries[n].signature.key = key
        /\ log.entries[n].signature.over = signed_digest(entry_hash(log.entries[n].record))
    <2> DEFINE e == log.entries[n]
    <2>1. /\ e.record.prev_entry_hash = SubSeq(bodies, 1, n - 1)
          /\ e.entry_hash = SubSeq(bodies, 1, n)
          /\ e.public_key = [key_id |-> label, spki_sha256 |-> claimed]
          /\ e.signature = [key |-> key, over |-> signed_digest(SubSeq(bodies, 1, n))]
          /\ entry_hash(e.record) = SubSeq(bodies, 1, n)
      BY <1>2, <1>3
    <2> HIDE DEF e
    <2> QED
      BY <1>4, <2>1 DEF e
  <1>7. Sound(log.header, log.entries, n)
    <2> DEFINE hdr == log.header
               entries == log.entries
    <2>1. /\ hdr.session_id = session /\ hdr.key_id = label
          /\ hdr.spki_der = key /\ hdr.spki_sha256 = claimed
      BY <1>1
    <2> HIDE DEF hdr, entries
    <2>2. Sound(hdr, entries, n)
      BY <1>5, <1>6, <2>1, SoundIs DEF entries
    <2> QED
      BY <2>2 DEF hdr, entries
  <1> QED
    BY <1>7 DEF log

-----------------------------------------------------------------------------
(***************************************************************************)
(* What verify_log can answer.                                             *)
(***************************************************************************)
\* The checks that can fail are those that have a name.
LEMMA ViolationsNamed ==
  ASSUME NEW hdr, NEW entries, NEW pins, NEW n
  PROVE  /\ HeaderViolations(hdr, entries, pins) \subseteq HeaderReasons
         /\ Violations(hdr, entries, n) \subseteq EntryReasons
  <1>1. HeaderViolations(hdr, entries, pins) \subseteq HeaderReasons
    BY HeaderViolationsAre DEF HeaderReasons
  <1>2. Violations(hdr, entries, n) \subseteq EntryReasons
    BY ViolationsAre DEF EntryReasons
  <1> QED
    BY <1>1, <1>2

\* The outcomes of a log whose lines all parse are verdicts or the exception,
\* and it is accepted only when nothing is wrong with it.
LEMMA ParsedTyped ==
  ASSUME NEW hdr \in Header, NEW entries \in Seq(Envelope), NEW pins,
         NEW r \in ParsedOutcomes(hdr, entries, pins), r # Raised
  PROVE  /\ r \in VerifyResult
         /\ r.ok => /\ HeaderViolations(hdr, entries, pins) = {}
                    /\ Unsound(hdr, entries) = {}
  <1> DEFINE bad == Unsound(hdr, entries)
             refused == HeaderViolations(hdr, entries, pins)
  <1>1. hdr.key_id \in Labels /\ Len(entries) \in Nat
    BY DEF Header
  <1>2. CASE refused # {}
    <2>1. PICK reason \in refused : r = Fail(0, None, reason, hdr.key_id)
      BY <1>2 DEF ParsedOutcomes
    <2>2. reason \in HeaderReasons
      BY ViolationsNamed
    <2> QED
      BY <1>1, <2>1, <2>2, FailTyped
  <1>3. CASE refused = {} /\ bad # {}
    <2> DEFINE n == Least(bad)
    <2>1. PICK reason \in Violations(hdr, entries, n) : r = Fail(n - 1, n - 1, reason, hdr.key_id)
      BY <1>3 DEF ParsedOutcomes
    <2>2. n \in bad
      <3>1. bad \in SUBSET Nat
        BY DEF Unsound
      <3> HIDE DEF bad
      <3>2. PICK k \in bad : \A m \in bad : k <= m
        BY <1>3, <3>1, LeastNatural
      <3> QED
        BY <3>1, <3>2, LeastIs
    <2>3. n - 1 \in Nat
      BY <1>1, <2>2 DEF Unsound
    <2>4. reason \in EntryReasons
      BY ViolationsNamed
    <2> HIDE DEF n
    <2> QED
      BY <1>1, <2>1, <2>3, <2>4, FailTyped
  <1>4. CASE refused = {} /\ bad = {}
    <2>1. r = Valid(Len(entries), hdr.key_id, EndsSession(entries))
      BY <1>4 DEF ParsedOutcomes
    <2>2. EndsSession(entries) \in BOOLEAN
      BY DEF EndsSession
    <2> QED
      BY <1>1, <1>4, <2>1, <2>2 DEF Valid, VerifyResult
  <1> QED
    BY <1>2, <1>3, <1>4

\* A verdict is a verdict, and an accepted log is one nothing is wrong with.
LEMMA OutcomesTyped ==
  ASSUME NEW log \in LogFile \cup {None}, NEW pins, NEW r \in Outcomes(log, pins), r # Raised
  PROVE  /\ r \in VerifyResult
         /\ r.ok => /\ log # None /\ log.medium = "text" /\ log.header.form = "object"
                    /\ \A n \in 1..Len(log.entries) : log.entries[n].form = "object"
                    /\ HeaderViolations(log.header, log.entries, pins) = {}
                    /\ \A n \in 1..Len(log.entries) : Sound(log.header, log.entries, n)
  <1>1. CASE log = None
    <2>1. r = Fail(0, None, "cannot read log", None)
      BY <1>1 DEF Outcomes
    <2> QED
      BY <2>1, FailTyped DEF LogReasons
  <1>2. ASSUME log # None
        PROVE  /\ r \in VerifyResult
               /\ r.ok => /\ log # None /\ log.medium = "text" /\ log.header.form = "object"
                          /\ \A n \in 1..Len(log.entries) : log.entries[n].form = "object"
                          /\ HeaderViolations(log.header, log.entries, pins) = {}
                          /\ \A n \in 1..Len(log.entries) : Sound(log.header, log.entries, n)
    <2> DEFINE hdr == log.header
               entries == log.entries
               bad == Unparsed(entries)
    <2>1. /\ log \in LogFile /\ hdr \in Header /\ entries \in Seq(Envelope)
          /\ hdr.key_id \in Labels /\ DOMAIN entries = 1..Len(entries)
          /\ log.medium \in {"text", "undecodable"}
          /\ hdr.form \in {"object", "malformed", "nonobject", "absent"}
      BY <1>2 DEF LogFile, Media, Header, LineForms
    <2>2. log.medium = "text"
      BY <1>2, <2>1 DEF Outcomes
    <2>3. CASE hdr.form # "object"
      <3>1. r \in {Fail(0, None, "empty log", None), Fail(0, None, "bad chain header", None)}
        BY <1>2, <2>1, <2>2, <2>3 DEF Outcomes
      <3> QED
        BY <3>1, FailTyped DEF LogReasons
    <2>4. CASE hdr.form = "object" /\ bad # {}
      <3> DEFINE n == Least(bad)
      <3>1. r = Fail(n - 1, n - 1, "malformed entry", hdr.key_id)
        BY <1>2, <2>2, <2>4 DEF Outcomes
      <3>2. n \in bad
        <4>1. bad \in SUBSET Nat
          BY <2>1 DEF Unparsed
        <4> HIDE DEF bad
        <4>2. PICK k \in bad : \A m \in bad : k <= m
          BY <2>4, <4>1, LeastNatural
        <4> QED
          BY <4>1, <4>2, LeastIs
      <3>3. n - 1 \in Nat
        BY <2>1, <3>2 DEF Unparsed
      <3> HIDE DEF n
      <3> QED
        BY <2>1, <3>1, <3>3, FailTyped DEF LogReasons
    <2>5. CASE hdr.form = "object" /\ bad = {}
      <3>1. r \in ParsedOutcomes(hdr, entries, pins)
        BY <1>2, <2>2, <2>5 DEF Outcomes
      <3>2. /\ r \in VerifyResult
            /\ r.ok => HeaderViolations(hdr, entries, pins) = {} /\ Unsound(hdr, entries) = {}
        BY <2>1, <3>1, ParsedTyped
      <3>3. \A n \in 1..Len(entries) : entries[n].form = "object"
        BY <2>1, <2>5 DEF Unparsed
      <3>4. Unsound(hdr, entries) = {} => \A n \in 1..Len(entries) : Sound(hdr, entries, n)
        BY <2>1 DEF Unsound
      <3> QED
        BY <1>2, <2>2, <2>5, <3>2, <3>3, <3>4
    <2> QED
      BY <2>3, <2>4, <2>5
  <1> QED
    BY <1>1, <1>2

-----------------------------------------------------------------------------
(***************************************************************************)
(* What check_anchor can answer.                                           *)
(***************************************************************************)
\* The seven checks of check_anchor, by position.
LEMMA CheckOrderIs ==
  /\ DOMAIN CheckOrder = 1..7
  /\ CheckOrder[1] = "not internally valid"
  /\ CheckOrder[2] = "version"
  /\ CheckOrder[3] = "session_id"
  /\ CheckOrder[4] = "spki_sha256"
  /\ CheckOrder[5] = "no entries"
  /\ CheckOrder[6] = "truncated"
  /\ CheckOrder[7] = "diverges"
  <1>1. CheckOrder[1] = "not internally valid"
    BY DEF CheckOrder
  <1>2. CheckOrder[2] = "version"
    BY DEF CheckOrder
  <1>3. CheckOrder[3] = "session_id"
    BY DEF CheckOrder
  <1>4. CheckOrder[4] = "spki_sha256"
    BY DEF CheckOrder
  <1>5. CheckOrder[5] = "no entries"
    BY DEF CheckOrder
  <1>6. CheckOrder[6] = "truncated"
    BY DEF CheckOrder
  <1>7. CheckOrder[7] = "diverges"
    BY DEF CheckOrder
  <1>8. DOMAIN CheckOrder = 1..7
    BY DEF CheckOrder
  <1> QED
    BY <1>1, <1>2, <1>3, <1>4, <1>5, <1>6, <1>7, <1>8

\* An anchor counts, and a log has entries.
LEMMA AnchorFields ==
  ASSUME NEW log \in LogFile, NEW anchor \in Token
  PROVE  /\ anchor.count \in Nat /\ anchor.head_entry_hash \in Hash
         /\ log.entries \in Seq(Envelope) /\ Len(log.entries) \in Nat
  <1>1. anchor.count \in Nat /\ anchor.head_entry_hash \in Hash
    BY DEF Token
  <1>2. log.entries \in Seq(Envelope)
    BY DEF LogFile
  <1> QED
    BY <1>1, <1>2

\* A comparison answers, and passes only what every check passes.
LEMMA ComparedTyped ==
  ASSUME NEW res \in VerifyResult, NEW log \in LogFile, NEW anchor \in Token
  PROVE  /\ Compared(res, log, anchor) \in AnchorAnswer
         /\ Compared(res, log, anchor).ok =>
              /\ Compared(res, log, anchor).reason = None
              /\ \A m \in 1..7 : Passes(CheckOrder[m], res, log, anchor)
         /\ ~Compared(res, log, anchor).ok => Compared(res, log, anchor).reason \in AnchorReasons
  <1> DEFINE Holds(m) == Passes(CheckOrder[m], res, log, anchor)
             first == CHOOSE m \in DOMAIN CheckOrder : (\A l \in 1..(m - 1) : Holds(l)) /\ ~Holds(m)
             failing == {m \in 1..7 : ~Holds(m)}
  <1>1. anchor.count \in Nat /\ Len(log.entries) \in Nat
    BY AnchorFields
  <1>2. CASE \A m \in DOMAIN CheckOrder : Holds(m)
    <2>1. Compared(res, log, anchor) = AnchorResult(TRUE, None, anchor.count, Len(log.entries))
      BY <1>2 DEF Compared
    <2>2. Compared(res, log, anchor) \in AnchorAnswer
      BY <1>1, <2>1 DEF AnchorResult, AnchorAnswer
    <2>3. Compared(res, log, anchor).ok /\ Compared(res, log, anchor).reason = None
      BY <2>1 DEF AnchorResult
    <2> QED
      BY <1>2, <2>2, <2>3, CheckOrderIs
  <1>3. CASE ~(\A m \in DOMAIN CheckOrder : Holds(m))
    <2>1. Compared(res, log, anchor) =
            AnchorResult(FALSE, CheckOrder[first], anchor.count, Len(log.entries))
      BY <1>3 DEF Compared
    <2>2. first \in 1..7
      <3>1. failing \in SUBSET Nat /\ failing # {} /\ failing \subseteq 1..7
        <4> HIDE DEF Holds, first
        <4>1. DOMAIN CheckOrder = 1..7
          BY CheckOrderIs
        <4>2. PICK m \in 1..7 : ~Holds(m)
          BY <1>3, <4>1
        <4>3. m \in failing
          BY <4>2
        <4>4. failing \subseteq 1..7
          OBVIOUS
        <4> HIDE DEF failing
        <4> QED
          BY <4>3, <4>4
      <3>2. PICK k \in failing : \A m \in failing : k <= m
        <4> HIDE DEF failing
        <4> QED
          BY <3>1, LeastNatural
      <3>3. \A l \in 1..(k - 1) : l \in 1..7 /\ l \notin failing
        <4>1. k \in 1..7
          BY <3>1, <3>2
        <4> HIDE DEF failing
        <4> QED
          BY <3>2, <4>1
      <3>4. k \in DOMAIN CheckOrder /\ (\A l \in 1..(k - 1) : Holds(l)) /\ ~Holds(k)
        BY <3>2, <3>3, CheckOrderIs
      <3> HIDE DEF Holds
      <3> QED
        BY <3>4, CheckOrderIs
    <2>3. CheckOrder[first] \in AnchorReasons
      <3> HIDE DEF first
      <3>1. \/ first = 1 \/ first = 2 \/ first = 3 \/ first = 4
            \/ first = 5 \/ first = 6 \/ first = 7
        BY <2>2
      <3> QED
        BY <3>1, CheckOrderIs DEF AnchorReasons
    <2> HIDE DEF first
    <2> QED
      BY <1>1, <2>1, <2>3 DEF AnchorResult, AnchorAnswer
  <1> QED
    BY <1>2, <1>3

\* What passes is a log of the anchor's key that reaches to the anchored head.
LEMMA ComparedPasses ==
  ASSUME NEW res \in VerifyResult, NEW log \in LogFile, NEW anchor \in Token,
         Compared(res, log, anchor).ok
  PROVE  /\ res.ok
         /\ log.header.spki_sha256 = anchor.spki_sha256
         /\ anchor.count \in 1..Len(log.entries)
         /\ log.entries[anchor.count].entry_hash = anchor.head_entry_hash
  <1>1. \A m \in 1..7 : Passes(CheckOrder[m], res, log, anchor)
    BY ComparedTyped
  <1>2. anchor.count \in Nat /\ Len(log.entries) \in Nat /\ log.entries \in Seq(Envelope)
    BY AnchorFields
  <1>3. Passes("not internally valid", res, log, anchor)
    <2>1. Passes(CheckOrder[1], res, log, anchor)
      BY <1>1
    <2> QED
      BY <2>1, CheckOrderIs
  <1>4. Passes("spki_sha256", res, log, anchor)
    <2>1. Passes(CheckOrder[4], res, log, anchor)
      BY <1>1
    <2> QED
      BY <2>1, CheckOrderIs
  <1>5. Passes("no entries", res, log, anchor)
    <2>1. Passes(CheckOrder[5], res, log, anchor)
      BY <1>1
    <2> QED
      BY <2>1, CheckOrderIs
  <1>6. Passes("truncated", res, log, anchor)
    <2>1. Passes(CheckOrder[6], res, log, anchor)
      BY <1>1
    <2> QED
      BY <2>1, CheckOrderIs
  <1>7. Passes("diverges", res, log, anchor)
    <2>1. Passes(CheckOrder[7], res, log, anchor)
      BY <1>1
    <2> QED
      BY <2>1, CheckOrderIs
  <1>8. anchor.count > 0 /\ Len(log.entries) >= anchor.count
    BY <1>5, <1>6 DEF Passes, Reaches
  <1>9. HashAt(log.entries, anchor.count) = anchor.head_entry_hash
    BY <1>7 DEF Passes
  <1>10. log.entries # <<>> /\ anchor.count # 0
    BY <1>2, <1>8
  <1> QED
    BY <1>2, <1>3, <1>4, <1>8, <1>9, <1>10 DEF Passes, HashAt

-----------------------------------------------------------------------------
(***************************************************************************)
(* Histories and what befalls them.                                        *)
(***************************************************************************)
\* What has befallen a file never becomes less.
LEMMA WorseIs ==
  ASSUME NEW a \in {"still", "appended", "changed"}, NEW b \in {"still", "appended", "changed"}
  PROVE  /\ Worse(a, b) \in {"still", "appended", "changed"}
         /\ Worse(a, b) # "changed" => a # "changed" /\ b # "changed"
  BY DEF Worse

\* The start of a history fixes the envelopes written for it.
LEMMA SameStart ==
  ASSUME NEW one \in Seq(Body), NEW other \in Seq(Body),
         NEW n \in 1..Len(one), n \in 1..Len(other),
         \A m \in 1..n : one[m] = other[m], NEW key, NEW label, NEW claimed
  PROVE  EnvelopeOf(one, n, key, label, claimed) = EnvelopeOf(other, n, key, label, claimed)
  <1>1. \A k \in 0..n : SubSeq(one, 1, k) = SubSeq(other, 1, k)
    <2> SUFFICES ASSUME NEW k \in 0..n
                 PROVE  SubSeq(one, 1, k) = SubSeq(other, 1, k)
      OBVIOUS
    <2>1. k \in 0..Len(one) /\ k \in 0..Len(other)
      OBVIOUS
    <2>2. /\ SubSeq(one, 1, k) \in Hash /\ Len(SubSeq(one, 1, k)) = k
          /\ SubSeq(other, 1, k) \in Hash /\ Len(SubSeq(other, 1, k)) = k
          /\ \A m \in 1..k : SubSeq(one, 1, k)[m] = one[m] /\ SubSeq(other, 1, k)[m] = other[m]
      BY <2>1, StartTyped
    <2>3. \A m \in 1..k : one[m] = other[m]
      OBVIOUS
    <2> QED
      BY <2>2, <2>3, SeqEqual DEF Hash
  <1>2. /\ SubSeq(one, 1, n) = SubSeq(other, 1, n)
        /\ SubSeq(one, 1, n - 1) = SubSeq(other, 1, n - 1)
        /\ one[n] = other[n]
    BY <1>1
  <1> QED
    BY <1>2 DEF EnvelopeOf

=============================================================================
