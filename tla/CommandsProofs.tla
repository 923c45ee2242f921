--------------------------- MODULE CommandsProofs ---------------------------
(***************************************************************************)
(* Proofs about Commands: what an exit code, a printed verdict, an         *)
(* explanation, a diff and a sweep are worth, for any histories, keys,     *)
(* payloads and command lines, any number of changes and wherever they     *)
(* fall between the reads.                                                 *)
(***************************************************************************)
EXTENDS Commands, ChainFacts

-----------------------------------------------------------------------------
(***************************************************************************)
(* Fields of records.                                                      *)
(***************************************************************************)
FieldsEdited == LowEntropyFields \cup {"rest"}

ValuesOf(field) ==
    CASE field = "event_type"    -> EVENT_TYPES
      [] field = "signer_key_id" -> Labels
      [] field \in PayloadFields -> {p[field] : p \in Payloads}

\* A payload has the three fields, and its actor is one of the contract's.
LEMMA PayloadIs ==
  ASSUME NEW p \in Payloads
  PROVE  /\ p = [tool_name |-> p.tool_name, actor |-> p.actor, rest |-> p.rest]
         /\ p.actor \in ACTORS
         /\ \A f \in PayloadFields : p[f] \in ValuesOf(f)
  <1> DEFINE Said(field) == {q[field] : q \in Payloads}
  <1>1. p \in [tool_name: Said("tool_name"), actor: ACTORS, rest: Said("rest")]
    BY PayloadAssumption
  <1>2. \A f \in PayloadFields : p[f] \in ValuesOf(f)
    BY DEF PayloadFields, ValuesOf
  <1> HIDE DEF Said
  <1> QED
    BY <1>1, <1>2

\* A field of a payload may say what that of another payload says.
LEMMA PayloadPut ==
  ASSUME NEW p \in Payloads, NEW f \in PayloadFields, NEW v \in ValuesOf(f)
  PROVE  [p EXCEPT ![f] = v] \in Payloads
  <1> DEFINE Said(field) == {q[field] : q \in Payloads}
  <1>1. Payloads = [tool_name: Said("tool_name"), actor: ACTORS, rest: Said("rest")]
    BY PayloadAssumption
  <1>2. PICK q \in Payloads : v = q[f]
    BY DEF ValuesOf, PayloadFields
  <1>3. /\ q.tool_name \in Said("tool_name") /\ q.actor \in ACTORS /\ q.rest \in Said("rest")
        /\ p \in [tool_name: Said("tool_name"), actor: ACTORS, rest: Said("rest")]
    BY <1>1, PayloadIs
  <1> HIDE DEF Said
  <1>4. [p EXCEPT ![f] = v] \in [tool_name: Said("tool_name"), actor: ACTORS, rest: Said("rest")]
    <2>1. CASE f = "tool_name"
      BY <1>2, <1>3, <2>1
    <2>2. CASE f = "actor"
      BY <1>2, <1>3, <2>2
    <2>3. CASE f = "rest"
      BY <1>2, <1>3, <2>3
    <2> QED
      BY <2>1, <2>2, <2>3 DEF PayloadFields
  <1> QED
    BY <1>1, <1>4

\* The fields that are not a payload's.
LEMMA FieldKinds ==
  /\ PayloadFields \subseteq RecordFields
  /\ FieldsEdited \subseteq RecordFields
  /\ FieldsEdited = {"event_type", "signer_key_id"} \cup PayloadFields
  /\ "event_type" \notin PayloadFields /\ "signer_key_id" \notin PayloadFields
  /\ "payload" \notin RecordFields
  BY DEF PayloadFields, RecordFields, FieldsEdited, LowEntropyFields

\* What a record says of a field.
LEMMA GetTyped ==
  ASSUME NEW rec \in Record, NEW f \in FieldsEdited
  PROVE  Get(rec, f) \in ValuesOf(f)
  <1>1. CASE f \in PayloadFields
    BY <1>1, PayloadIs DEF Get, Record
  <1>2. CASE f = "event_type"
    BY <1>2 DEF Get, Record, ValuesOf, PayloadFields
  <1>3. CASE f = "signer_key_id"
    BY <1>3 DEF Get, Record, ValuesOf, PayloadFields
  <1> QED
    BY <1>1, <1>2, <1>3, FieldKinds

\* A record in which a field is made to say another thing is a record, which
\* says that, and of the other fields what it said.
LEMMA PutTyped ==
  ASSUME NEW rec \in Record, NEW f \in FieldsEdited, NEW v \in ValuesOf(f)
  PROVE  /\ Put(rec, f, v) \in Record
         /\ Get(Put(rec, f, v), f) = v
         /\ \A g \in RecordFields \ {f} : Get(Put(rec, f, v), g) = Get(rec, g)
  <1>1. CASE f \in PayloadFields
    <2> DEFINE p == [rec.payload EXCEPT ![f] = v]
               new == Put(rec, f, v)
    <2>1. rec.payload \in Payloads
      BY DEF Record
    <2>2. p \in Payloads
      BY <1>1, <2>1, PayloadPut
    <2>3. new = [rec EXCEPT !.payload = p]
      BY <1>1 DEF Put
    <2>4. f \in DOMAIN rec.payload
      BY <1>1, <2>1, PayloadIs DEF PayloadFields
    <2>5. p[f] = v /\ \A g \in PayloadFields \ {f} : p[g] = rec.payload[g]
      <3>1. DOMAIN rec.payload = PayloadFields
        BY <2>1, PayloadIs DEF PayloadFields
      <3> QED
        BY <2>4, <3>1
    <2> HIDE DEF p, new
    <2>6. /\ new \in Record /\ new.payload = p
          /\ \A g \in RecordFields \ PayloadFields : new[g] = rec[g]
      BY <2>2, <2>3 DEF Record, RecordFields, PayloadFields
    <2> QED
      BY <1>1, <2>5, <2>6 DEF Get, new
  <1>2. CASE f \notin PayloadFields
    <2> DEFINE new == Put(rec, f, v)
    <2>1. new = [rec EXCEPT ![f] = v]
      BY <1>2 DEF Put
    <2>2. \/ f = "event_type" /\ v \in EVENT_TYPES
          \/ f = "signer_key_id" /\ v \in Labels
      BY <1>2, FieldKinds DEF ValuesOf
    <2> HIDE DEF new
    <2>3. /\ new \in Record /\ new[f] = v /\ new.payload = rec.payload
          /\ \A g \in (RecordFields \ PayloadFields) \ {f} : new[g] = rec[g]
      BY <2>1, <2>2 DEF Record, RecordFields, PayloadFields
    <2> QED
      BY <1>2, <2>3 DEF Get, new
  <1> QED
    BY <1>1, <1>2

\* Two records that say the same of every field are one.
LEMMA SameFields ==
  ASSUME NEW a \in Record, NEW b \in Record,
         \A f \in RecordFields : Get(a, f) = Get(b, f)
  PROVE  a = b
  <1>1. a.payload \in Payloads /\ b.payload \in Payloads
    BY DEF Record
  <1>2. /\ a.payload.tool_name = b.payload.tool_name
        /\ a.payload.actor = b.payload.actor
        /\ a.payload.rest = b.payload.rest
    BY DEF Get, RecordFields, PayloadFields
  <1>3. a.payload = b.payload
    BY <1>1, <1>2, PayloadIs
  <1>4. /\ a.session_id = b.session_id /\ a.sequence = b.sequence
        /\ a.event_type = b.event_type /\ a.signer_key_id = b.signer_key_id
        /\ a.prev_entry_hash = b.prev_entry_hash
    BY DEF Get, RecordFields, PayloadFields
  <1> QED
    BY <1>3, <1>4 DEF Record

\* Two records with the same hash are one.
LEMMA HashIsRecord ==
  ASSUME NEW a \in Record, NEW b \in Record, entry_hash(a) = entry_hash(b)
  PROVE  a = b
  <1>1. /\ a.prev_entry_hash \in Seq(Body) /\ b.prev_entry_hash \in Seq(Body)
        /\ BodyOf(a) \in Body /\ BodyOf(b) \in Body
    BY BodyTyped DEF Record, Hash
  <1>2. Append(a.prev_entry_hash, BodyOf(a)) = Append(b.prev_entry_hash, BodyOf(b))
    BY DEF entry_hash
  <1>3. a.prev_entry_hash = b.prev_entry_hash /\ BodyOf(a) = BodyOf(b)
    BY <1>1, <1>2, HeadTailAppend, AppendProperties
  <1> QED
    BY <1>3, RecordOfBodyOf

-----------------------------------------------------------------------------
(***************************************************************************)
(* The log while only its writer touches it: as it was, with the line of   *)
(* the closing event half written, and with it.                            *)
(***************************************************************************)
Genuine(bodies) ==
    ChainFile(bodies[1].session_id, bodies, WriterKey, WriterLabel, spki_fingerprint(WriterKey))

Closing(h) == [Last(h) EXCEPT !.sequence = Len(h), !.event_type = "session_end"]

Whole(h) == Append(h, Closing(h))

HalfWritten(h) == [Genuine(Whole(h)) EXCEPT !.entries[Len(h) + 1].form = "malformed"]

Stages(h) == {Genuine(h), HalfWritten(h), Genuine(Whole(h))}

\* A writer's history: events in order, with canonical bytes.
LEMMA HistoryTyped ==
  ASSUME NEW h \in Histories
  PROVE  /\ h \in Seq(Body) /\ h # <<>> /\ Len(h) \in Nat /\ Len(h) > 0
         /\ h[1] \in Body /\ h[Len(h)] \in Body /\ h[1].session_id \in Sessions
         /\ InOrder(h[1].session_id, WriterLabel, h)
         /\ \A n \in 1..Len(h) : h[n].payload \notin Unencodable
         /\ WriterKey \in Keys /\ WriterLabel \in Labels
         /\ spki_fingerprint(WriterKey) \in Fingerprint
  <1>1. /\ h \in Seq(Body) /\ h # <<>>
        /\ InOrder(h[1].session_id, WriterLabel, h)
        /\ \A n \in DOMAIN h : h[n].payload \notin Unencodable
    BY HistoryAssumption
  <1>2. Len(h) \in Nat /\ Len(h) > 0 /\ DOMAIN h = 1..Len(h)
    BY <1>1
  <1>3. h[1] \in Body /\ h[Len(h)] \in Body
    BY <1>1, <1>2
  <1>4. h[1].session_id \in Sessions
    BY <1>3 DEF Body
  <1>5. WriterKey \in Keys /\ WriterLabel \in Labels /\ spki_fingerprint(WriterKey) \in Fingerprint
    BY WriterAssumption DEF spki_fingerprint, Fingerprint, Ders, SigningKeys
  <1> QED
    BY <1>1, <1>2, <1>3, <1>4, <1>5

\* The closing event continues it.
LEMMA WholeTyped ==
  ASSUME NEW h \in Histories
  PROVE  /\ Whole(h) \in Seq(Body) /\ Len(Whole(h)) = Len(h) + 1
         /\ \A n \in 1..Len(h) : Whole(h)[n] = h[n]
         /\ Whole(h)[Len(h) + 1] = Closing(h)
         /\ Closing(h).event_type = "session_end"
         /\ InOrder(h[1].session_id, WriterLabel, Whole(h))
         /\ \A n \in 1..(Len(h) + 1) : Whole(h)[n].payload \notin Unencodable
  <1> DEFINE k == Len(h)
             c == Closing(h)
             w == Whole(h)
  <1>1. /\ h \in Seq(Body) /\ k \in Nat /\ k > 0 /\ h[k] \in Body
        /\ h[1].session_id \in Sessions /\ InOrder(h[1].session_id, WriterLabel, h)
        /\ \A n \in 1..k : h[n].payload \notin Unencodable
    BY HistoryTyped
  <1>2. Last(h) = h[k]
    BY DEF Last
  <1>3. /\ c \in Body /\ c.session_id = h[k].session_id /\ c.signer_key_id = h[k].signer_key_id
        /\ c.sequence = k /\ c.payload = h[k].payload /\ c.event_type = "session_end"
    BY <1>1, <1>2 DEF Closing, Body, EVENT_TYPES
  <1>4. /\ h[k].session_id = h[1].session_id /\ h[k].signer_key_id = WriterLabel
        /\ h[k].payload \notin Unencodable
    BY <1>1 DEF InOrder
  <1> HIDE DEF c
  <1>5. /\ w \in Seq(Body) /\ Len(w) = k + 1 /\ w[k + 1] = c
        /\ \A n \in 1..k : w[n] = h[n]
    BY <1>1, <1>3, AppendProperties DEF Whole, c
  <1> HIDE DEF w
  <1>6. \A n \in 1..(k + 1) : n \in 1..k \/ n = k + 1
    BY <1>1
  <1>7. InOrder(h[1].session_id, WriterLabel, w)
    <2> SUFFICES ASSUME NEW n \in 1..(k + 1)
                 PROVE  /\ w[n].session_id = h[1].session_id /\ w[n].signer_key_id = WriterLabel
                        /\ w[n].sequence = n - 1
      BY <1>1, <1>5 DEF InOrder
    <2>1. CASE n \in 1..k
      <3>1. w[n] = h[n] /\ n \in DOMAIN h
        BY <1>1, <1>5, <2>1
      <3> QED
        BY <1>1, <3>1 DEF InOrder
    <2>2. CASE n = k + 1
      BY <1>1, <1>3, <1>4, <1>5, <2>2
    <2> QED
      BY <1>6, <2>1, <2>2
  <1>8. \A n \in 1..(k + 1) : w[n].payload \notin Unencodable
    BY <1>1, <1>3, <1>4, <1>5, <1>6
  <1> QED
    BY <1>3, <1>5, <1>7, <1>8 DEF c, w

\* What the log of an ordered history holds.
LEMMA GenuineIs ==
  ASSUME NEW session \in Sessions, NEW b \in Seq(Body), b # <<>>, b[1].session_id = session,
         InOrder(session, WriterLabel, b),
         \A n \in 1..Len(b) : b[n].payload \notin Unencodable
  PROVE  LET it == Genuine(b)
         IN  /\ it \in LogFile /\ it.medium = "text"
             /\ it.header = [form |-> "object", session_id |-> session, key_id |-> WriterLabel,
                             spki_der |-> WriterKey, spki_sha256 |-> spki_fingerprint(WriterKey)]
             /\ it.entries \in Seq(Envelope) /\ Len(it.entries) = Len(b)
             /\ Bodies(it.entries) = b
             /\ \A n \in 1..Len(b) :
                  /\ it.entries[n] = EnvelopeOf(b, n, WriterKey, WriterLabel,
                                                spki_fingerprint(WriterKey))
                  /\ it.entries[n].form = "object"
                  /\ it.entries[n].record \in Record
                  /\ it.entries[n].entry_hash = SubSeq(b, 1, n)
                  /\ it.entries[n].signature = SignedBy(WriterKey, SubSeq(b, 1, n))
                  /\ Sound(it.header, it.entries, n)
                  /\ it.entries[n].entry_hash = entry_hash(it.entries[n].record)
  <1> DEFINE it == Genuine(b)
             own == spki_fingerprint(WriterKey)
  <1>1. WriterKey \in Keys /\ WriterLabel \in Labels /\ own \in Fingerprint
    BY WriterAssumption DEF spki_fingerprint, Fingerprint, Ders, SigningKeys
  <1>2. it = ChainFile(session, b, WriterKey, WriterLabel, own)
    BY DEF Genuine
  <1>3. it \in LogFile
    BY <1>1, <1>2, ChainFileTyped, KeysSign
  <1>4. /\ it.medium = "text"
        /\ it.header = [form |-> "object", session_id |-> session, key_id |-> WriterLabel,
                        spki_der |-> WriterKey, spki_sha256 |-> own]
        /\ it.entries = [n \in 1..Len(b) |-> EnvelopeOf(b, n, WriterKey, WriterLabel, own)]
    BY <1>2 DEF ChainFile
  <1>5. \A n \in 1..Len(b) : Sound(it.header, it.entries, n)
    BY <1>2, WrittenIsSound
  <1> HIDE DEF it, own
  <1>6. it.entries \in Seq(Envelope) /\ Len(it.entries) = Len(b)
    BY <1>3, <1>4 DEF LogFile
  <1>7. ASSUME NEW n \in 1..Len(b)
        PROVE  /\ it.entries[n] = EnvelopeOf(b, n, WriterKey, WriterLabel, own)
               /\ it.entries[n].form = "object"
               /\ it.entries[n].record \in Record
               /\ it.entries[n].entry_hash = SubSeq(b, 1, n)
               /\ it.entries[n].signature = SignedBy(WriterKey, SubSeq(b, 1, n))
               /\ Sound(it.header, it.entries, n)
               /\ it.entries[n].entry_hash = entry_hash(it.entries[n].record)
               /\ BodyOf(it.entries[n].record) = b[n]
    <2> DEFINE e == it.entries[n]
    <2>1. e = EnvelopeOf(b, n, WriterKey, WriterLabel, own) /\ e \in Envelope
      BY <1>4, <1>6
    <2>2. Sound(it.header, it.entries, n)
      BY <1>5
    <2>3. e.entry_hash = entry_hash(e.record)
      BY <2>2, SoundIs
    <2> HIDE DEF e
    <2>4. /\ e.form = "object" /\ e.record = RecordOf(b[n], SubSeq(b, 1, n - 1))
          /\ e.entry_hash = SubSeq(b, 1, n) /\ e.signature = SignedBy(WriterKey, SubSeq(b, 1, n))
      BY <2>1 DEF EnvelopeOf
    <2>5. e.record \in Record
      BY <2>1 DEF Envelope
    <2>6. b[n] \in Body
      OBVIOUS
    <2>7. BodyOf(e.record) = b[n]
      BY <2>4, <2>6, BodyOfRecordOf
    <2> QED
      BY <2>1, <2>2, <2>3, <2>4, <2>5, <2>7 DEF e
  <1>8. Bodies(it.entries) = b
    <2>1. /\ Bodies(it.entries) \in Seq(Body) /\ Len(Bodies(it.entries)) = Len(b)
          /\ \A n \in 1..Len(b) : Bodies(it.entries)[n] = b[n]
      BY <1>6, <1>7, BodiesTyped
    <2> QED
      BY <2>1, SeqEqual
  <1> QED
    BY <1>3, <1>4, <1>6, <1>7, <1>8 DEF it, own

\* A history and its continuation, each as a log.
LEMMA GenuineLogs ==
  ASSUME NEW h \in Histories, NEW b \in {h, Whole(h)}
  PROVE  LET it == Genuine(b)
         IN  /\ it \in LogFile /\ it.medium = "text"
             /\ it.header = [form |-> "object", session_id |-> h[1].session_id,
                             key_id |-> WriterLabel, spki_der |-> WriterKey,
                             spki_sha256 |-> spki_fingerprint(WriterKey)]
             /\ it.entries \in Seq(Envelope) /\ Len(it.entries) = Len(b)
             /\ Bodies(it.entries) = b
             /\ \A n \in 1..Len(b) :
                  /\ it.entries[n] = EnvelopeOf(b, n, WriterKey, WriterLabel,
                                                spki_fingerprint(WriterKey))
                  /\ it.entries[n].form = "object"
                  /\ it.entries[n].record \in Record
                  /\ it.entries[n].entry_hash = SubSeq(b, 1, n)
                  /\ it.entries[n].signature = SignedBy(WriterKey, SubSeq(b, 1, n))
                  /\ Sound(it.header, it.entries, n)
                  /\ it.entries[n].entry_hash = entry_hash(it.entries[n].record)
  <1> DEFINE session == h[1].session_id
  <1>1. /\ session \in Sessions /\ b \in Seq(Body) /\ b # <<>> /\ b[1].session_id = session
        /\ InOrder(session, WriterLabel, b) /\ \A n \in 1..Len(b) : b[n].payload \notin Unencodable
    <2>1. CASE b = h
      BY <2>1, HistoryTyped
    <2>2. CASE b = Whole(h)
      <3>1. 1 \in 1..Len(h) /\ session \in Sessions
        BY HistoryTyped
      <3>2. /\ b \in Seq(Body) /\ Len(b) = Len(h) + 1 /\ b[1] = h[1]
            /\ InOrder(session, WriterLabel, b)
            /\ \A n \in 1..(Len(h) + 1) : b[n].payload \notin Unencodable
        BY <2>2, <3>1, WholeTyped
      <3>3. b # <<>>
        BY <3>1, <3>2
      <3> QED
        BY <3>1, <3>2, <3>3
    <2> QED
      BY <2>1, <2>2
  <1> HIDE DEF session
  <1> QED
    BY <1>1, GenuineIs DEF session

\* The entries a log's stages share.
LEMMA SharedEntries ==
  ASSUME NEW h \in Histories, NEW n \in 1..Len(h)
  PROVE  /\ Genuine(Whole(h)).entries[n] = Genuine(h).entries[n]
         /\ SubSeq(Whole(h), 1, n) = SubSeq(h, 1, n)
  <1>1. /\ h \in Seq(Body) /\ Len(h) \in Nat /\ Whole(h) \in Seq(Body)
        /\ n \in 1..Len(Whole(h)) /\ \A m \in 1..n : h[m] = Whole(h)[m]
    BY HistoryTyped, WholeTyped
  <1>2. EnvelopeOf(h, n, WriterKey, WriterLabel, spki_fingerprint(WriterKey)) =
          EnvelopeOf(Whole(h), n, WriterKey, WriterLabel, spki_fingerprint(WriterKey))
    BY <1>1, SameStart
  <1>3. /\ Genuine(h).entries[n] =
             EnvelopeOf(h, n, WriterKey, WriterLabel, spki_fingerprint(WriterKey))
        /\ Genuine(h).entries[n].entry_hash = SubSeq(h, 1, n)
    BY GenuineLogs
  <1>4. /\ Genuine(Whole(h)).entries[n] =
             EnvelopeOf(Whole(h), n, WriterKey, WriterLabel, spki_fingerprint(WriterKey))
        /\ Genuine(Whole(h)).entries[n].entry_hash = SubSeq(Whole(h), 1, n)
    BY <1>1, GenuineLogs
  <1> QED
    BY <1>2, <1>3, <1>4

\* The half-written line is the last line of the whole log, not yet an object.
LEMMA HalfWrittenIs ==
  ASSUME NEW h \in Histories
  PROVE  LET it == HalfWritten(h)
             whole == Genuine(Whole(h))
             k == Len(h) + 1
         IN  /\ it \in LogFile /\ it.medium = "text" /\ it.header = whole.header
             /\ it.entries \in Seq(Envelope) /\ Len(it.entries) = k
             /\ \A n \in 1..Len(h) : it.entries[n] = whole.entries[n]
             /\ it.entries[k] = [whole.entries[k] EXCEPT !.form = "malformed"]
             /\ it.entries[k].form = "malformed"
             /\ it.entries[k].record = whole.entries[k].record
             /\ it.entries[k].entry_hash = whole.entries[k].entry_hash
             /\ it.entries[k].signature = whole.entries[k].signature
             /\ it.entries[k].public_key = whole.entries[k].public_key
             /\ it.entries = [whole.entries EXCEPT ![k] = [@ EXCEPT !.form = "malformed"]]
  <1> DEFINE it == HalfWritten(h)
             whole == Genuine(Whole(h))
             k == Len(h) + 1
             torn == [whole.entries EXCEPT ![k] = [@ EXCEPT !.form = "malformed"]]
  <1>1. /\ whole \in LogFile /\ whole.medium = "text" /\ whole.entries \in Seq(Envelope)
        /\ Len(whole.entries) = k /\ Len(h) \in Nat
    BY GenuineLogs, WholeTyped, HistoryTyped
  <1>2. k \in 1..k /\ whole.entries[k] \in Envelope
    BY <1>1
  <1>3. it = [whole EXCEPT !.entries = torn]
    BY DEF HalfWritten
  <1>4. [whole.entries[k] EXCEPT !.form = "malformed"] \in Envelope
    BY <1>2 DEF Envelope, LineForms
  <1>5. /\ torn \in Seq(Envelope) /\ Len(torn) = k
        /\ torn[k] = [whole.entries[k] EXCEPT !.form = "malformed"]
        /\ \A n \in 1..Len(h) : torn[n] = whole.entries[n]
    BY <1>1, <1>2, <1>4
  <1>6. /\ torn[k].form = "malformed" /\ torn[k].record = whole.entries[k].record
        /\ torn[k].entry_hash = whole.entries[k].entry_hash
        /\ torn[k].signature = whole.entries[k].signature
        /\ torn[k].public_key = whole.entries[k].public_key
    BY <1>2, <1>5 DEF Envelope
  <1>7. it \in LogFile /\ it.medium = "text" /\ it.header = whole.header /\ it.entries = torn
    <2> HIDE DEF torn, whole, it
    <2> QED
      BY <1>1, <1>3, <1>5 DEF LogFile
  <1> HIDE DEF torn, whole, it, k
  <1>8. /\ it \in LogFile /\ it.medium = "text" /\ it.header = whole.header
        /\ it.entries \in Seq(Envelope) /\ Len(it.entries) = k
        /\ \A n \in 1..Len(h) : it.entries[n] = whole.entries[n]
        /\ it.entries[k] = [whole.entries[k] EXCEPT !.form = "malformed"]
        /\ it.entries[k].form = "malformed"
        /\ it.entries[k].record = whole.entries[k].record
        /\ it.entries[k].entry_hash = whole.entries[k].entry_hash
        /\ it.entries[k].signature = whole.entries[k].signature
        /\ it.entries[k].public_key = whole.entries[k].public_key
    BY <1>5, <1>6, <1>7
  <1>9. it.entries = [whole.entries EXCEPT ![k] = [@ EXCEPT !.form = "malformed"]]
    BY <1>7 DEF torn
  <1> QED
    BY <1>8, <1>9 DEF it, whole, k

\* What the log holds at each stage: sound entries, all hashed and signed as
\* the whole history is, and all of them objects but one half-written.
LEMMA StageIs ==
  ASSUME NEW h \in Histories, NEW it \in Stages(h)
  PROVE  /\ it \in LogFile /\ it.medium = "text" /\ it.header = Genuine(h).header
         /\ it.header.form = "object" /\ it.header.key_id = WriterLabel
         /\ it.header.spki_der = WriterKey
         /\ it.header.spki_sha256 = spki_fingerprint(WriterKey)
         /\ it.entries \in Seq(Envelope)
         /\ Len(it.entries) = IF it = Genuine(h) THEN Len(h) ELSE Len(h) + 1
         /\ \A n \in 1..Len(h) : it.entries[n] = Genuine(h).entries[n]
         /\ \A n \in 1..Len(it.entries) :
               /\ it.entries[n].record \in Record
               /\ it.entries[n].entry_hash = entry_hash(it.entries[n].record)
               /\ it.entries[n].signature = SignedBy(WriterKey, SubSeq(Whole(h), 1, n))
               /\ Sound(it.header, it.entries, n)
               /\ IF it = HalfWritten(h) /\ n = Len(h) + 1
                  THEN it.entries[n].form = "malformed" ELSE it.entries[n].form = "object"
         /\ it = Genuine(h) => Bodies(it.entries) = h
         /\ it = Genuine(Whole(h)) => Bodies(it.entries) = Whole(h)
  <1> DEFINE k == Len(h) + 1
             kept == Genuine(h)
             whole == Genuine(Whole(h))
             half == HalfWritten(h)
  <1>1. /\ Len(h) \in Nat /\ Len(Whole(h)) = k /\ k \in 1..k
        /\ \A n \in 1..k : n \in 1..Len(h) \/ n = k
    BY HistoryTyped, WholeTyped
  <1>2. /\ kept \in LogFile /\ kept.medium = "text" /\ kept.entries \in Seq(Envelope)
        /\ Len(kept.entries) = Len(h) /\ Bodies(kept.entries) = h
        /\ kept.header.form = "object" /\ kept.header.key_id = WriterLabel
        /\ kept.header.spki_der = WriterKey
        /\ kept.header.spki_sha256 = spki_fingerprint(WriterKey)
    <2>1. /\ kept \in LogFile /\ kept.medium = "text" /\ kept.entries \in Seq(Envelope)
          /\ Len(kept.entries) = Len(h) /\ Bodies(kept.entries) = h
          /\ kept.header = [form |-> "object", session_id |-> h[1].session_id,
                            key_id |-> WriterLabel, spki_der |-> WriterKey,
                            spki_sha256 |-> spki_fingerprint(WriterKey)]
      BY GenuineLogs
    <2> HIDE DEF kept
    <2> QED
      BY <2>1
  <1>3. /\ whole \in LogFile /\ whole.medium = "text" /\ whole.entries \in Seq(Envelope)
        /\ Len(whole.entries) = k /\ Bodies(whole.entries) = Whole(h)
        /\ whole.header = kept.header
    BY <1>1, GenuineLogs
  <1>4. /\ half \in LogFile /\ half.medium = "text" /\ half.entries \in Seq(Envelope)
        /\ Len(half.entries) = k /\ half.header = kept.header
        /\ \A n \in 1..Len(h) : half.entries[n] = whole.entries[n]
        /\ half.entries[k].form = "malformed"
        /\ half.entries[k].record = whole.entries[k].record
        /\ half.entries[k].entry_hash = whole.entries[k].entry_hash
        /\ half.entries[k].signature = whole.entries[k].signature
        /\ half.entries[k].public_key = whole.entries[k].public_key
    BY <1>3, HalfWrittenIs
  <1>5. \A n \in 1..Len(h) : whole.entries[n] = kept.entries[n]
    BY SharedEntries
  <1>6. \A n \in 1..Len(h) :
          /\ kept.entries[n].record \in Record
          /\ kept.entries[n].entry_hash = entry_hash(kept.entries[n].record)
          /\ kept.entries[n].signature = SignedBy(WriterKey, SubSeq(Whole(h), 1, n))
          /\ Sound(kept.header, kept.entries, n)
          /\ kept.entries[n].form = "object"
    BY GenuineLogs, SharedEntries
  <1>7. \A n \in 1..k :
          /\ whole.entries[n].record \in Record
          /\ whole.entries[n].entry_hash = entry_hash(whole.entries[n].record)
          /\ whole.entries[n].signature = SignedBy(WriterKey, SubSeq(Whole(h), 1, n))
          /\ Sound(whole.header, whole.entries, n)
          /\ whole.entries[n].form = "object"
    BY <1>1, GenuineLogs
  <1> HIDE DEF kept, whole, half
  <1>8. \A n \in 1..k :
          /\ half.entries[n].record = whole.entries[n].record
          /\ half.entries[n].entry_hash = whole.entries[n].entry_hash
          /\ half.entries[n].signature = whole.entries[n].signature
          /\ half.entries[n].public_key = whole.entries[n].public_key
    BY <1>1, <1>4
  <1>9. \A n \in 1..k : Sound(half.header, half.entries, n)
    <2> SUFFICES ASSUME NEW n \in 1..k
                 PROVE  Sound(half.header, half.entries, n)
      OBVIOUS
    <2>1. LinkBefore(half.entries, n) = LinkBefore(whole.entries, n)
      <3>1. CASE n = 1
        BY <3>1 DEF LinkBefore
      <3>2. CASE n # 1
        <4>1. n - 1 \in 1..k
          BY <1>1, <3>2
        <4> QED
          BY <1>8, <3>2, <4>1 DEF LinkBefore
      <3> QED
        BY <3>1, <3>2
    <2>2. Sound(whole.header, whole.entries, n)
      BY <1>7
    <2> QED
      BY <1>3, <1>4, <1>8, <2>1, <2>2, SoundIs
  <1>10. half # whole /\ kept # whole /\ kept # half
    <2>1. half # whole
      BY <1>1, <1>4, <1>7
    <2>2. kept # whole /\ kept # half
      BY <1>1, <1>2, <1>3, <1>4
    <2> QED
      BY <2>1, <2>2
  <1>11. it \in {kept, half, whole}
    BY DEF Stages, kept, half, whole
  <1>12. CASE it = kept
    BY <1>1, <1>2, <1>6, <1>10, <1>12 DEF kept, half, whole
  <1>13. CASE it = whole
    BY <1>1, <1>2, <1>3, <1>5, <1>7, <1>10, <1>13 DEF kept, half, whole
  <1>14. CASE it = half
    <2>1. \A n \in 1..Len(h) : half.entries[n].form = "object" /\ n # k
      BY <1>1, <1>4, <1>5, <1>6
    <2> QED
      BY <1>1, <1>2, <1>3, <1>4, <1>5, <1>7, <1>8, <1>9, <1>10, <1>14, <2>1 DEF kept, half, whole
  <1> QED
    BY <1>11, <1>12, <1>13, <1>14

-----------------------------------------------------------------------------
(***************************************************************************)
(* The steps a command still has to make.                                  *)
(***************************************************************************)
Steps == {"detect", "load", "verify", "explain", "edit", "check", "reference", "target", "anchor",
          "anchor-detect", "anchor-verify", "anchor-load", "report"}

Then(step, rest) == <<step>> \o rest

ReportSteps   == Then("report", <<>>)
LoadSteps     == Then("anchor-load", ReportSteps)
RedetectSteps == Then("anchor-detect", LoadSteps)
JudgeSteps    == Then("anchor-verify", RedetectSteps)
DetectSteps   == Then("anchor-detect", JudgeSteps)
AnchorSteps   == Then("anchor", DetectSteps)
CheckSteps    == Then("check", <<>>)
TargetSteps   == Then("target", <<>>)

Ending(inv) ==
    IF inv.command = "verify" /\ inv.anchor # None THEN AnchorSteps ELSE ReportSteps

AfterVerify(inv) ==
    CASE inv.command = "verify-all" -> <<>>
      [] inv.command = "tamper"     -> Then("edit", CheckSteps)
      [] inv.command = "inspect"    -> ReportSteps
      [] inv.command = "export" \/ (inv.command = "verify" /\ inv.explain) ->
           Then("explain", Ending(inv))
      [] inv.command = "verify" /\ ~inv.explain -> Ending(inv)

VerifySteps(inv) == Then("verify", AfterVerify(inv))

AfterDetect(inv) ==
    IF inv.command \in {"inspect", "export", "tamper"} THEN Then("load", VerifySteps(inv))
    ELSE VerifySteps(inv)

\* A step and what follows it.
LEMMA ThenIs ==
  ASSUME NEW step \in Steps, NEW rest \in Seq(Steps)
  PROVE  /\ Then(step, rest) \in Seq(Steps) /\ Then(step, rest) # <<>>
         /\ Head(Then(step, rest)) = step /\ Tail(Then(step, rest)) = rest
  <1> DEFINE s == Then(step, rest)
  <1>1. /\ s \in Seq(Steps) /\ Len(s) = Len(rest) + 1 /\ s[1] = step
        /\ \A i \in 1..Len(rest) : s[i + 1] = rest[i]
    BY DEF Then
  <1> HIDE DEF s
  <1>2. s # <<>> /\ Head(s) = step
    BY <1>1
  <1>3. /\ Tail(s) \in Seq(Steps) /\ Len(Tail(s)) = Len(rest)
        /\ \A i \in 1..Len(rest) : Tail(s)[i] = rest[i]
    BY <1>1, <1>2, HeadTailProperties
  <1>4. Tail(s) = rest
    BY <1>3, SeqEqual
  <1> QED
    BY <1>1, <1>2, <1>4 DEF s

\* The names of the steps.
LEMMA StepNames ==
  /\ "detect" \in Steps /\ "load" \in Steps /\ "verify" \in Steps /\ "explain" \in Steps
  /\ "edit" \in Steps /\ "check" \in Steps /\ "reference" \in Steps /\ "target" \in Steps
  /\ "anchor" \in Steps /\ "anchor-detect" \in Steps /\ "anchor-verify" \in Steps
  /\ "anchor-load" \in Steps /\ "report" \in Steps
  BY DEF Steps

\* The lists of steps are lists of steps.
LEMMA StepsTyped ==
  /\ <<>> \in Seq(Steps)
  /\ ReportSteps \in Seq(Steps) /\ LoadSteps \in Seq(Steps)
  /\ RedetectSteps \in Seq(Steps) /\ JudgeSteps \in Seq(Steps)
  /\ DetectSteps \in Seq(Steps) /\ AnchorSteps \in Seq(Steps)
  /\ CheckSteps \in Seq(Steps) /\ TargetSteps \in Seq(Steps)
  <1>1. <<>> \in Seq(Steps)
    OBVIOUS
  <1>2. ReportSteps \in Seq(Steps) /\ CheckSteps \in Seq(Steps) /\ TargetSteps \in Seq(Steps)
    BY <1>1, StepNames, ThenIs DEF ReportSteps, CheckSteps, TargetSteps
  <1>3. LoadSteps \in Seq(Steps)
    BY <1>2, StepNames, ThenIs DEF LoadSteps
  <1>4. RedetectSteps \in Seq(Steps)
    BY <1>3, StepNames, ThenIs DEF RedetectSteps
  <1>5. JudgeSteps \in Seq(Steps)
    BY <1>4, StepNames, ThenIs DEF JudgeSteps
  <1>6. DetectSteps \in Seq(Steps)
    BY <1>5, StepNames, ThenIs DEF DetectSteps
  <1>7. AnchorSteps \in Seq(Steps)
    BY <1>6, StepNames, ThenIs DEF AnchorSteps
  <1> QED
    BY <1>1, <1>2, <1>3, <1>4, <1>5, <1>6, <1>7

LEMMA MoreStepsTyped ==
  ASSUME NEW inv \in Invocation, inv.command # "diff"
  PROVE  /\ Ending(inv) \in Seq(Steps) /\ AfterVerify(inv) \in Seq(Steps)
         /\ VerifySteps(inv) \in Seq(Steps) /\ AfterDetect(inv) \in Seq(Steps)
         /\ Then("load", VerifySteps(inv)) \in Seq(Steps)
         /\ Then("explain", Ending(inv)) \in Seq(Steps)
         /\ Then("edit", CheckSteps) \in Seq(Steps)
  <1>1. Ending(inv) \in Seq(Steps)
    BY StepsTyped DEF Ending
  <1>2. Then("explain", Ending(inv)) \in Seq(Steps) /\ Then("edit", CheckSteps) \in Seq(Steps)
    BY <1>1, StepsTyped, StepNames, ThenIs
  <1>3. AfterVerify(inv) \in Seq(Steps)
    <2>1. /\ inv.command \in {"verify", "verify-all", "inspect", "export", "tamper"}
          /\ inv.explain \in BOOLEAN
      BY DEF Invocation
    <2> QED
      BY <1>1, <1>2, <2>1, StepsTyped DEF AfterVerify
  <1>4. VerifySteps(inv) \in Seq(Steps)
    BY <1>3, StepNames, ThenIs DEF VerifySteps
  <1>5. Then("load", VerifySteps(inv)) \in Seq(Steps)
    BY <1>4, StepNames, ThenIs
  <1> QED
    BY <1>1, <1>2, <1>3, <1>4, <1>5 DEF AfterDetect

\* A literal list is its first step, then the others.
LEMMA PairIs ==
  ASSUME NEW a, NEW b
  PROVE  <<a, b>> = Then(a, <<b>>) /\ <<a>> = Then(a, <<>>)
  <1>1. <<a, b>> = Then(a, <<b>>)
    <2> DEFINE S == {a, b}
    <2>1. a \in S /\ b \in S
      OBVIOUS
    <2> HIDE DEF S
    <2>2. /\ <<a>> \o <<b>> \in Seq(S) /\ Len(<<a>> \o <<b>>) = 2
          /\ (<<a>> \o <<b>>)[1] = a /\ (<<a>> \o <<b>>)[2] = b
      BY <2>1
    <2> DEFINE x == <<a>> \o <<b>>
               y == <<a, b>>
    <2>3. y \in Seq(S) /\ Len(y) = 2 /\ y[1] = a /\ y[2] = b
      BY <2>1
    <2>4. x \in Seq(S) /\ Len(x) = 2 /\ x[1] = a /\ x[2] = b
      BY <2>2
    <2> HIDE DEF x, y
    <2>5. y = x
      BY <2>3, <2>4, SeqEqual
    <2> QED
      BY <2>5 DEF x, y, Then
  <1>2. <<a>> = Then(a, <<>>)
    BY DEF Then
  <1> QED
    BY <1>1, <1>2

LEMMA TripleIs ==
  ASSUME NEW a, NEW b, NEW c
  PROVE  <<a, b, c>> = Then(a, <<b, c>>)
  BY DEF Then

LEMMA QuadrupleIs ==
  ASSUME NEW a, NEW b, NEW c, NEW d
  PROVE  <<a, b, c, d>> = Then(a, <<b, c, d>>)
  BY DEF Then

LEMMA QuintupleIs ==
  ASSUME NEW a, NEW b, NEW c, NEW d, NEW e
  PROVE  <<a, b, c, d, e>> = Then(a, <<b, c, d, e>>)
  BY DEF Then

LEMMA SextupleIs ==
  ASSUME NEW a, NEW b, NEW c, NEW d, NEW e, NEW f
  PROVE  /\ <<a, b, c, d, e, f>> = Then(a, <<b, c, d, e, f>>)
         /\ <<a, b, c, d, e>> \o <<f>> = <<a, b, c, d, e, f>>
  <1>1. <<a, b, c, d, e, f>> = Then(a, <<b, c, d, e, f>>)
    BY DEF Then
  <1>2. <<a, b, c, d, e>> \o <<f>> = <<a, b, c, d, e, f>>
    <2> DEFINE S == {a, b, c, d, e, f}
    <2>1. a \in S /\ b \in S /\ c \in S /\ d \in S /\ e \in S /\ f \in S
      OBVIOUS
    <2> HIDE DEF S
    <2> DEFINE x == <<a, b, c, d, e>> \o <<f>>
               y == <<a, b, c, d, e, f>>
    <2>2. /\ y \in Seq(S) /\ Len(y) = 6
          /\ y[1] = a /\ y[2] = b /\ y[3] = c /\ y[4] = d /\ y[5] = e /\ y[6] = f
      BY <2>1
    <2>3. /\ x \in Seq(S) /\ Len(x) = 6
          /\ x[1] = a /\ x[2] = b /\ x[3] = c /\ x[4] = d /\ x[5] = e /\ x[6] = f
      BY <2>1
    <2> HIDE DEF x, y
    <2>4. \A i \in 1..Len(x) : i = 1 \/ i = 2 \/ i = 3 \/ i = 4 \/ i = 5 \/ i = 6
      BY <2>3
    <2>5. x = y
      BY <2>2, <2>3, <2>4, SeqEqual
    <2> QED
      BY <2>5 DEF x, y
  <1> QED
    BY <1>1, <1>2

\* The lists of steps of cli.py, one step at a time.
LEMMA ListsAre ==
  /\ <<"report">> = ReportSteps
  /\ <<"reference", "target">> = Then("reference", TargetSteps)
  /\ <<"detect", "verify">> = Then("detect", Then("verify", <<>>))
  /\ <<"detect", "load", "verify", "report">> =
        Then("detect", Then("load", Then("verify", ReportSteps)))
  /\ <<"detect", "load", "verify", "explain", "report">> =
        Then("detect", Then("load", Then("verify", Then("explain", ReportSteps))))
  /\ <<"detect", "load", "verify", "edit", "check">> =
        Then("detect", Then("load", Then("verify", Then("edit", CheckSteps))))
  /\ <<"anchor", "anchor-detect", "anchor-verify", "anchor-detect", "anchor-load">> \o ReportSteps
       = AnchorSteps
  <1>1. <<"report">> = ReportSteps
    BY PairIs, Zenon DEF ReportSteps
  <1>2. <<"reference", "target">> = Then("reference", TargetSteps)
    BY PairIs, Zenon DEF TargetSteps
  <1>3. <<"detect", "verify">> = Then("detect", Then("verify", <<>>))
    BY PairIs, Zenon
  <1>4. <<"detect", "load", "verify", "report">> =
          Then("detect", Then("load", Then("verify", ReportSteps)))
    <2>1. <<"detect", "load", "verify", "report">> =
            Then("detect", <<"load", "verify", "report">>)
      BY QuadrupleIs, Zenon
    <2>2. <<"load", "verify", "report">> =
            Then("load", <<"verify", "report">>)
      BY TripleIs, Zenon
    <2>3. <<"verify", "report">> =
            Then("verify", <<"report">>)
      BY PairIs, Zenon
    <2> QED
      BY <2>1, <2>2, <2>3, <1>1, Zenon
  <1>5. <<"detect", "load", "verify", "explain", "report">> =
          Then("detect", Then("load", Then("verify", Then("explain", ReportSteps))))
    <2>1. <<"detect", "load", "verify", "explain", "report">> =
            Then("detect", <<"load", "verify", "explain", "report">>)
      BY QuintupleIs, Zenon
    <2>2. <<"load", "verify", "explain", "report">> =
            Then("load", <<"verify", "explain", "report">>)
      BY QuadrupleIs, Zenon
    <2>3. <<"verify", "explain", "report">> =
            Then("verify", <<"explain", "report">>)
      BY TripleIs, Zenon
    <2>4. <<"explain", "report">> =
            Then("explain", <<"report">>)
      BY PairIs, Zenon
    <2> QED
      BY <2>1, <2>2, <2>3, <2>4, <1>1, Zenon
  <1>6. <<"detect", "load", "verify", "edit", "check">> =
          Then("detect", Then("load", Then("verify", Then("edit", CheckSteps))))
    <2>1. <<"detect", "load", "verify", "edit", "check">> =
            Then("detect", <<"load", "verify", "edit", "check">>)
      BY QuintupleIs, Zenon
    <2>2. <<"load", "verify", "edit", "check">> =
            Then("load", <<"verify", "edit", "check">>)
      BY QuadrupleIs, Zenon
    <2>3. <<"verify", "edit", "check">> =
            Then("verify", <<"edit", "check">>)
      BY TripleIs, Zenon
    <2>4. <<"edit", "check">> =
            Then("edit", <<"check">>)
      BY PairIs, Zenon
    <2>5. <<"check">> = CheckSteps
      BY PairIs, Zenon DEF CheckSteps
    <2> QED
      BY <2>1, <2>2, <2>3, <2>4, <2>5, Zenon
  <1>7. <<"anchor", "anchor-detect", "anchor-verify", "anchor-detect", "anchor-load">> \o ReportSteps
          = AnchorSteps
    <2>1. <<"anchor", "anchor-detect", "anchor-verify", "anchor-detect", "anchor-load", "report">> =
            Then("anchor", <<"anchor-detect", "anchor-verify", "anchor-detect", "anchor-load", "report">>)
      BY SextupleIs, Zenon
    <2>2. <<"anchor-detect", "anchor-verify", "anchor-detect", "anchor-load", "report">> =
            Then("anchor-detect", <<"anchor-verify", "anchor-detect", "anchor-load", "report">>)
      BY QuintupleIs, Zenon
    <2>3. <<"anchor-verify", "anchor-detect", "anchor-load", "report">> =
            Then("anchor-verify", <<"anchor-detect", "anchor-load", "report">>)
      BY QuadrupleIs, Zenon
    <2>4. <<"anchor-detect", "anchor-load", "report">> =
            Then("anchor-detect", <<"anchor-load", "report">>)
      BY TripleIs, Zenon
    <2>5. <<"anchor-load", "report">> =
            Then("anchor-load", <<"report">>)
      BY PairIs, Zenon
    <2>6. <<"anchor", "anchor-detect", "anchor-verify", "anchor-detect", "anchor-load">> \o <<"report">> =
            <<"anchor", "anchor-detect", "anchor-verify", "anchor-detect", "anchor-load", "report">>
      BY SextupleIs, Zenon
    <2> QED
      BY <2>1, <2>2, <2>3, <2>4, <2>5, <2>6, <1>1, Zenon DEF AnchorSteps, DetectSteps, JudgeSteps, RedetectSteps, LoadSteps
  <1> QED
    BY <1>1, <1>2, <1>3, <1>4, <1>5, <1>6, <1>7, Zenon

\* Two steps, and a list of more.
LEMMA TwoThen ==
  ASSUME NEW rest \in Seq(Steps)
  PROVE  /\ <<"detect", "verify">> \o rest = Then("detect", Then("verify", rest))
         /\ <<"explain">> \o rest = Then("explain", rest)
         /\ <<>> \o rest = rest
  <1>1. <<"detect", "verify">> \o rest = Then("detect", Then("verify", rest))
    BY DEF Then
  <1>2. <<>> \o rest = rest
    OBVIOUS
  <1> QED
    BY <1>1, <1>2, Zenon DEF Then

LEMMA StepsAssociate ==
  \A s, t, u \in Seq(Steps) : (s \o t) \o u = s \o (t \o u)
  <1> TAKE s, t, u \in Seq(Steps)
  <1> QED
    BY ConcatAssociative

\* Every command but diff begins with detect.
LEMMA PlanIs ==
  ASSUME NEW inv \in Invocation
  PROVE  Plan(inv) = IF inv.command = "diff" THEN Then("reference", TargetSteps)
                     ELSE Then("detect", AfterDetect(inv))
  <1>1. /\ inv.command \in {"verify", "verify-all", "inspect", "export", "tamper", "diff"}
        /\ inv.explain \in BOOLEAN
    BY DEF Invocation
  <1>3. CASE inv.command = "diff"
    BY <1>3, ListsAre DEF Plan
  <1>4. CASE inv.command = "verify-all"
    <2>1. AfterDetect(inv) = Then("verify", <<>>)
      BY <1>4 DEF AfterDetect, VerifySteps, AfterVerify
    <2>2. Plan(inv) = <<"detect", "verify">>
      BY <1>4 DEF Plan
    <2> QED
      BY <1>4, <2>1, <2>2, ListsAre
  <1>5. CASE inv.command = "inspect"
    <2>1. AfterDetect(inv) = Then("load", Then("verify", ReportSteps))
      BY <1>5 DEF AfterDetect, VerifySteps, AfterVerify
    <2>2. Plan(inv) = <<"detect", "load", "verify", "report">>
      BY <1>5 DEF Plan, Inspected
    <2> QED
      BY <1>5, <2>1, <2>2, ListsAre
  <1>6. CASE inv.command = "export"
    <2>1. AfterDetect(inv) = Then("load", Then("verify", Then("explain", ReportSteps)))
      BY <1>6 DEF AfterDetect, VerifySteps, AfterVerify, Ending
    <2>2. Plan(inv) = <<"detect", "load", "verify", "explain", "report">>
      BY <1>6 DEF Plan
    <2> QED
      BY <1>6, <2>1, <2>2, ListsAre
  <1>7. CASE inv.command = "tamper"
    <2>1. AfterDetect(inv) = Then("load", Then("verify", Then("edit", CheckSteps)))
      BY <1>7 DEF AfterDetect, VerifySteps, AfterVerify
    <2>2. Plan(inv) = <<"detect", "load", "verify", "edit", "check">>
      BY <1>7 DEF Plan
    <2> QED
      BY <1>7, <2>1, <2>2, ListsAre
  <1>8. CASE inv.command = "verify"
    <2> DEFINE explained == IF inv.explain THEN <<"explain">> ELSE <<>>
               five == <<"anchor", "anchor-detect", "anchor-verify", "anchor-detect", "anchor-load">>
               anchored == IF inv.anchor = None THEN <<>> ELSE five
    <2>1. Plan(inv) = <<"detect", "verify">> \o explained \o anchored \o <<"report">>
      BY <1>8 DEF Plan
    <2>2. five \o ReportSteps = AnchorSteps
      BY ListsAre
    <2>3. five \in Seq(Steps)
      BY DEF Steps
    <2> HIDE DEF five
    <2>4. anchored \in Seq(Steps) /\ anchored \o ReportSteps = Ending(inv)
      <3>1. CASE inv.anchor = None
        BY <1>8, <3>1, StepsTyped, TwoThen DEF Ending
      <3>2. CASE inv.anchor # None
        BY <1>8, <2>2, <2>3, <3>2 DEF Ending
      <3> QED
        BY <3>1, <3>2
    <2> HIDE DEF anchored
    <2>5. explained \in Seq(Steps) /\ explained \o Ending(inv) = AfterVerify(inv)
      <3>1. Ending(inv) \in Seq(Steps)
        BY <1>8, MoreStepsTyped
      <3>2. CASE inv.explain
        <4>1. <<"explain">> \in Seq(Steps)
          BY DEF Steps
        <4> QED
          BY <1>8, <3>1, <3>2, <4>1, TwoThen DEF AfterVerify
      <3>3. CASE ~inv.explain
        BY <1>8, <3>1, <3>3, StepsTyped, TwoThen DEF AfterVerify
      <3> QED
        BY <3>2, <3>3
    <2> HIDE DEF explained
    <2>6. <<"detect", "verify">> \in Seq(Steps)
      BY DEF Steps
    <2>7. AfterVerify(inv) \in Seq(Steps) /\ Ending(inv) \in Seq(Steps) /\ ReportSteps \in Seq(Steps)
      BY <1>8, StepsTyped, MoreStepsTyped
    <2>8. Plan(inv) = <<"detect", "verify">> \o AfterVerify(inv)
      <3> DEFINE two == <<"detect", "verify">>
      <3>1. two \in Seq(Steps) /\ Plan(inv) = ((two \o explained) \o anchored) \o ReportSteps
        BY <2>1, <2>6, ListsAre
      <3> HIDE DEF two
      <3>2. /\ two \in Seq(Steps) /\ explained \in Seq(Steps) /\ anchored \in Seq(Steps)
            /\ ReportSteps \in Seq(Steps)
        BY <2>4, <2>5, <2>7, <3>1
      <3> DEFINE ab == two \o explained
      <3>3. ab \in Seq(Steps) /\ Ending(inv) \in Seq(Steps)
        BY <2>7, <3>2
      <3>4. ab \o Ending(inv) = two \o (explained \o Ending(inv))
        BY <3>2, <3>3, StepsAssociate, Zenon
      <3> HIDE DEF ab
      <3>5. (ab \o anchored) \o ReportSteps = ab \o (anchored \o ReportSteps)
        <4>1. ab \in Seq(Steps) /\ anchored \in Seq(Steps) /\ ReportSteps \in Seq(Steps)
          BY <3>2, <3>3
        <4> HIDE DEF ab, Steps
        <4> QED
          BY <4>1, StepsAssociate, Zenon
      <3> QED
        BY <2>4, <2>5, <3>1, <3>4, <3>5, Zenon DEF two, ab
    <2>9. Plan(inv) = Then("detect", Then("verify", AfterVerify(inv)))
      BY <2>7, <2>8, TwoThen
    <2> QED
      BY <1>8, <2>9 DEF AfterDetect, VerifySteps
  <1> QED
    BY <1>1, <1>3, <1>4, <1>5, <1>6, <1>7, <1>8

-----------------------------------------------------------------------------
(***************************************************************************)
(* Where a command is, and what it knows there.                            *)
(***************************************************************************)
CallFields == {"verdict", "judged", "loaded", "checked", "anchor", "explained", "copy", "made",
               "rows", "report", "crashed"}

Unset(fields) == \A f \in fields : call[f] = None

Reading == Command \in {"inspect", "export", "tamper"}

Opening ==
    /\ Command # "diff" /\ todo = Then("detect", AfterDetect(args))
    /\ Unset(CallFields \ {"rows", "crashed"})

Loading ==
    /\ Reading /\ todo = Then("load", VerifySteps(args))
    /\ Unset(CallFields \ {"rows", "crashed"})

Verifying ==
    /\ Command # "diff" /\ todo = VerifySteps(args)
    /\ Unset(CallFields \ {"rows", "crashed", "loaded"})
    /\ call.loaded # None <=> Reading

Explaining ==
    /\ Command \in {"verify", "export"} /\ todo = Then("explain", Ending(args))
    /\ call.verdict # None /\ Unset({"checked", "anchor", "explained", "report"})
    /\ call.loaded # None <=> Reading

Anchoring ==
    /\ Command = "verify" /\ args.anchor # None /\ todo \in {AnchorSteps, DetectSteps, JudgeSteps}
    /\ todo # AnchorSteps => args.anchor = "published"
    /\ call.verdict # None /\ Unset({"loaded", "checked", "anchor", "report"})

Comparing ==
    /\ Command = "verify" /\ args.anchor = "published" /\ todo \in {RedetectSteps, LoadSteps}
    /\ call.verdict # None /\ call.checked # None /\ Unset({"loaded", "anchor", "report"})

Reporting ==
    /\ Command \in {"verify", "inspect", "export"} /\ todo = ReportSteps
    /\ call.verdict # None /\ Unset({"report"})
    /\ Command = "verify" => (call.anchor = None <=> args.anchor = None)
    /\ Reading => call.loaded # None

Editing ==
    /\ Command = "tamper" /\ todo = Then("edit", CheckSteps)
    /\ call.verdict # None /\ call.loaded # None /\ Unset({"explained", "copy", "made", "report"})

Checking ==
    /\ Command = "tamper" /\ todo = CheckSteps
    /\ call.loaded # None /\ call.copy # None /\ Unset({"explained", "report"})

Referring ==
    /\ Command = "diff" /\ todo = Then("reference", TargetSteps)
    /\ Unset(CallFields \ {"rows", "crashed"})

Targeting ==
    /\ Command = "diff" /\ todo = TargetSteps
    /\ call.loaded = disk["reference"] /\ Unset(CallFields \ {"rows", "crashed", "loaded"})

Position ==
    \/ Opening
    \/ Loading
    \/ Verifying
    \/ Explaining
    \/ Anchoring
    \/ Comparing
    \/ Reporting
    \/ Editing
    \/ Checking
    \/ Referring
    \/ Targeting

Control ==
    /\ args \in Invocation \cup {None}
    /\ DOMAIN call = CallFields
    /\ files \in Seq({"log", "reference"})
    /\ code \in {None, 0, 1, 2}
    /\ args = None => todo = <<>> /\ code = None /\ files = <<>> /\ call = Nothing
    /\ args # None /\ Command # "verify-all" => files = <<"log">>
    /\ args # None /\ code = None => files # <<>> /\ Position
    /\ code # None => todo = <<>>

\* Each list of steps, by its first step.
LEMMA FixedHeads ==
  /\ Head(ReportSteps) = "report" /\ Tail(ReportSteps) = <<>> /\ ReportSteps # <<>>
  /\ Head(LoadSteps) = "anchor-load" /\ Tail(LoadSteps) = ReportSteps /\ LoadSteps # <<>>
  /\ Head(RedetectSteps) = "anchor-detect" /\ Tail(RedetectSteps) = LoadSteps
  /\ RedetectSteps # <<>>
  /\ Head(JudgeSteps) = "anchor-verify" /\ Tail(JudgeSteps) = RedetectSteps /\ JudgeSteps # <<>>
  /\ Head(DetectSteps) = "anchor-detect" /\ Tail(DetectSteps) = JudgeSteps /\ DetectSteps # <<>>
  /\ Head(AnchorSteps) = "anchor" /\ Tail(AnchorSteps) = DetectSteps /\ AnchorSteps # <<>>
  /\ Head(CheckSteps) = "check" /\ Tail(CheckSteps) = <<>> /\ CheckSteps # <<>>
  /\ Head(TargetSteps) = "target" /\ Tail(TargetSteps) = <<>> /\ TargetSteps # <<>>
  /\ Head(Then("edit", CheckSteps)) = "edit" /\ Tail(Then("edit", CheckSteps)) = CheckSteps
  /\ Then("edit", CheckSteps) # <<>>
  /\ Head(Then("reference", TargetSteps)) = "reference"
  /\ Tail(Then("reference", TargetSteps)) = TargetSteps /\ Then("reference", TargetSteps) # <<>>
  <1>1. Head(ReportSteps) = "report" /\ Tail(ReportSteps) = <<>> /\ ReportSteps # <<>>
    BY StepsTyped, StepNames, ThenIs DEF ReportSteps
  <1>2. Head(LoadSteps) = "anchor-load" /\ Tail(LoadSteps) = ReportSteps /\ LoadSteps # <<>>
    BY StepsTyped, StepNames, ThenIs DEF LoadSteps
  <1>3. /\ Head(RedetectSteps) = "anchor-detect" /\ Tail(RedetectSteps) = LoadSteps
        /\ RedetectSteps # <<>>
    BY StepsTyped, StepNames, ThenIs DEF RedetectSteps
  <1>4. Head(JudgeSteps) = "anchor-verify" /\ Tail(JudgeSteps) = RedetectSteps /\ JudgeSteps # <<>>
    BY StepsTyped, StepNames, ThenIs DEF JudgeSteps
  <1>5. Head(DetectSteps) = "anchor-detect" /\ Tail(DetectSteps) = JudgeSteps /\ DetectSteps # <<>>
    BY StepsTyped, StepNames, ThenIs DEF DetectSteps
  <1>6. Head(AnchorSteps) = "anchor" /\ Tail(AnchorSteps) = DetectSteps /\ AnchorSteps # <<>>
    BY StepsTyped, StepNames, ThenIs DEF AnchorSteps
  <1>7. Head(CheckSteps) = "check" /\ Tail(CheckSteps) = <<>> /\ CheckSteps # <<>>
    BY StepsTyped, StepNames, ThenIs DEF CheckSteps
  <1>8. Head(TargetSteps) = "target" /\ Tail(TargetSteps) = <<>> /\ TargetSteps # <<>>
    BY StepsTyped, StepNames, ThenIs DEF TargetSteps
  <1>9. /\ Head(Then("edit", CheckSteps)) = "edit" /\ Tail(Then("edit", CheckSteps)) = CheckSteps
        /\ Then("edit", CheckSteps) # <<>>
    BY StepsTyped, StepNames, ThenIs
  <1>10. /\ Head(Then("reference", TargetSteps)) = "reference"
         /\ Tail(Then("reference", TargetSteps)) = TargetSteps /\ Then("reference", TargetSteps) # <<>>
    BY StepsTyped, StepNames, ThenIs
  <1> QED
    BY <1>1, <1>2, <1>3, <1>4, <1>5, <1>6, <1>7, <1>8, <1>9, <1>10

LEMMA PlanHeads ==
  ASSUME NEW inv \in Invocation, inv.command # "diff"
  PROVE  /\ Head(Then("detect", AfterDetect(inv))) = "detect"
         /\ Tail(Then("detect", AfterDetect(inv))) = AfterDetect(inv)
         /\ Then("detect", AfterDetect(inv)) # <<>>
         /\ Head(Then("load", VerifySteps(inv))) = "load"
         /\ Tail(Then("load", VerifySteps(inv))) = VerifySteps(inv)
         /\ Then("load", VerifySteps(inv)) # <<>>
         /\ Head(VerifySteps(inv)) = "verify" /\ Tail(VerifySteps(inv)) = AfterVerify(inv)
         /\ VerifySteps(inv) # <<>>
         /\ Head(Then("explain", Ending(inv))) = "explain"
         /\ Tail(Then("explain", Ending(inv))) = Ending(inv)
         /\ Then("explain", Ending(inv)) # <<>>
  <1>1. /\ Head(Then("detect", AfterDetect(inv))) = "detect"
        /\ Tail(Then("detect", AfterDetect(inv))) = AfterDetect(inv)
        /\ Then("detect", AfterDetect(inv)) # <<>>
    BY MoreStepsTyped, StepNames, ThenIs
  <1>2. /\ Head(Then("load", VerifySteps(inv))) = "load"
        /\ Tail(Then("load", VerifySteps(inv))) = VerifySteps(inv)
        /\ Then("load", VerifySteps(inv)) # <<>>
    BY MoreStepsTyped, StepNames, ThenIs
  <1>3. /\ Head(VerifySteps(inv)) = "verify" /\ Tail(VerifySteps(inv)) = AfterVerify(inv)
        /\ VerifySteps(inv) # <<>>
    BY MoreStepsTyped, StepNames, ThenIs DEF VerifySteps
  <1>4. /\ Head(Then("explain", Ending(inv))) = "explain"
        /\ Tail(Then("explain", Ending(inv))) = Ending(inv)
        /\ Then("explain", Ending(inv)) # <<>>
    BY MoreStepsTyped, StepNames, ThenIs
  <1> QED
    BY <1>1, <1>2, <1>3, <1>4

\* The step that is next says where the command is.
LEMMA WhereIs ==
  ASSUME Control, todo # <<>>
  PROVE  /\ args \in Invocation /\ args # None /\ code = None /\ Position /\ files # <<>>
         /\ Head(todo) = "detect" => Opening /\ Tail(todo) = AfterDetect(args)
         /\ Head(todo) = "load" => Loading /\ Tail(todo) = VerifySteps(args)
         /\ Head(todo) = "verify" => Verifying /\ Tail(todo) = AfterVerify(args)
         /\ Head(todo) = "explain" => Explaining /\ Tail(todo) = Ending(args)
         /\ Head(todo) = "anchor" => Anchoring /\ todo = AnchorSteps /\ Tail(todo) = DetectSteps
         /\ Head(todo) = "anchor-detect" =>
              \/ Anchoring /\ todo = DetectSteps /\ Tail(todo) = JudgeSteps
              \/ Comparing /\ todo = RedetectSteps /\ Tail(todo) = LoadSteps
         /\ Head(todo) = "anchor-verify" =>
              Anchoring /\ todo = JudgeSteps /\ Tail(todo) = RedetectSteps
         /\ Head(todo) = "anchor-load" =>
              Comparing /\ todo = LoadSteps /\ Tail(todo) = ReportSteps
         /\ Head(todo) = "report" => Reporting
         /\ Head(todo) = "edit" => Editing /\ Tail(todo) = CheckSteps
         /\ Head(todo) = "check" => Checking
         /\ Head(todo) = "reference" => Referring /\ Tail(todo) = TargetSteps
         /\ Head(todo) = "target" => Targeting
  <1>1. args # None /\ code = None
    BY DEF Control
  <1>2. args \in Invocation /\ Position /\ files # <<>>
    BY <1>1 DEF Control
  <1>3. CASE Opening
    BY <1>1, <1>2, <1>3, PlanHeads DEF Opening, Command
  <1>4. CASE Loading
    BY <1>1, <1>2, <1>4, PlanHeads DEF Loading, Reading, Command
  <1>5. CASE Verifying
    BY <1>1, <1>2, <1>5, PlanHeads DEF Verifying, Command
  <1>6. CASE Explaining
    BY <1>1, <1>2, <1>6, PlanHeads DEF Explaining, Command
  <1>7. CASE Anchoring
    BY <1>1, <1>2, <1>7, FixedHeads DEF Anchoring
  <1>8. CASE Comparing
    BY <1>1, <1>2, <1>8, FixedHeads DEF Comparing
  <1>9. CASE Reporting
    BY <1>1, <1>2, <1>9, FixedHeads DEF Reporting
  <1>10. CASE Editing
    BY <1>1, <1>2, <1>10, FixedHeads DEF Editing
  <1>11. CASE Checking
    BY <1>1, <1>2, <1>11, FixedHeads DEF Checking
  <1>12. CASE Referring
    BY <1>1, <1>2, <1>12, FixedHeads DEF Referring
  <1>13. CASE Targeting
    BY <1>1, <1>2, <1>13, FixedHeads DEF Targeting
  <1> QED
    BY <1>2, <1>3, <1>4, <1>5, <1>6, <1>7, <1>8, <1>9, <1>10, <1>11, <1>12, <1>13 DEF Position

\* A command that exits has nothing left to do.
LEMMA ExitKeeps ==
  ASSUME Control, todo # <<>>, args' = args, NEW status \in {0, 1, 2}, NEW found,
         DOMAIN found = CallFields, Exit(status, found)
  PROVE  Control'
  <1>1. args \in Invocation /\ args # None
    BY WhereIs
  <1>2. status # None
    BY NoneAssumption
  <1>3. todo' = <<>> /\ code' = status /\ call' = found /\ files' = files
    BY DEF Exit
  <1> QED
    BY <1>1, <1>2, <1>3 DEF Control, Command

LEMMA CrashKeeps ==
  ASSUME Control, todo # <<>>, args' = args, Crash
  PROVE  Control'
  <1> DEFINE found == [call EXCEPT !.crashed = TRUE]
  <1>1. DOMAIN found = CallFields
    BY DEF Control
  <1>2. Exit(1, found)
    BY DEF Crash
  <1> HIDE DEF found
  <1> QED
    BY <1>1, <1>2, ExitKeeps

\* One that goes on is somewhere else.
LEMMA GoKeeps ==
  ASSUME Control, todo # <<>>, args' = args, files' = files, code' = code,
         DOMAIN call' = CallFields, Position'
  PROVE  Control'
  <1>1. args \in Invocation /\ args # None /\ code = None /\ files # <<>>
    BY WhereIs
  <1> QED
    BY <1>1 DEF Control, Command

\* A row of the sweep ends it, or the next file is opened.
LEMMA RowKeeps ==
  ASSUME Control, todo # <<>>, args' = args, Command = "verify-all",
         Unset(CallFields \ {"rows", "crashed"}), NEW ok, NEW reason, Row(ok, reason)
  PROVE  Control'
  <1> DEFINE found == [call EXCEPT !.rows = Append(call.rows,
                                       [file |-> Head(files), ok |-> ok, reason |-> reason])]
  <1>1. args \in Invocation /\ args # None /\ code = None /\ files # <<>>
    BY WhereIs
  <1>2. /\ DOMAIN found = CallFields
        /\ \A f \in CallFields \ {"rows", "crashed"} : found[f] = None
    BY DEF Control, Unset
  <1>3. files' = Tail(files) /\ call' = found
    BY DEF Row
  <1> HIDE DEF found
  <1>4. files' \in Seq({"log", "reference"})
    BY <1>1, <1>3 DEF Control
  <1>5. CASE files' # <<>>
    <2>1. todo' = Plan(args) /\ code' = code
      BY <1>3, <1>5 DEF Row
    <2>2. todo' = Then("detect", AfterDetect(args))
      BY <1>1, <2>1, PlanIs DEF Command
    <2>3. Opening'
      BY <1>2, <1>3, <2>2 DEF Opening, Unset, Command
    <2> QED
      BY <1>1, <1>2, <1>3, <1>4, <1>5, <2>1, <2>3 DEF Control, Position, Command
  <1>6. CASE files' = <<>>
    <2>1. todo' = <<>> /\ code' \in {0, 1}
      BY <1>3, <1>6 DEF Row
    <2>2. code' # None
      BY <2>1, NoneAssumption
    <2> QED
      BY <1>1, <1>2, <1>3, <1>4, <2>1, <2>2 DEF Control, Command
  <1> QED
    BY <1>5, <1>6

\* What detect_version may answer.
LEMMA DetectAnswers ==
  ASSUME NEW it \in LogFile \cup {None}, NEW v \in DetectVersion(it, VERSION_V0)
  PROVE  v \in {VERSION_V0, "UnknownVersionError", "UnicodeDecodeError"}
  <1>1. CASE it = None
    BY <1>1 DEF DetectVersion
  <1>2. CASE it # None
    <2>1. it.medium \in Media /\ it.header.form \in LineForms \cup {"absent"}
      BY <1>2 DEF LogFile, Header
    <2> HIDE DEF VERSION_V0
    <2> QED
      BY <1>2, <2>1 DEF DetectVersion, Media, LineForms
  <1> QED
    BY <1>1, <1>2

LEMMA DetectKeeps ==
  ASSUME Control, Detect, disk[Head(files)] \in LogFile \cup {None}
  PROVE  Control'
  <1>1. todo # <<>> /\ Head(todo) = "detect" /\ args' = args
    BY DEF Detect, At
  <1>2. /\ args \in Invocation /\ code = None /\ Opening /\ Tail(todo) = AfterDetect(args)
    BY <1>1, WhereIs
  <1>3. \/ Proceed(call)
        \/ \E v : Command = "verify-all" /\ Row(FALSE, v)
        \/ Exit(Refusal, call)
        \/ Crash
    <2>1. PICK v \in DetectVersion(disk[Head(files)], VERSION_V0) :
                   CASE v = VERSION_V0 -> Proceed(call)
                     [] v = "UnknownVersionError" ->
                          IF Command = "verify-all" THEN Row(FALSE, v) ELSE Exit(Refusal, call)
                     [] v = "UnicodeDecodeError" -> Crash
      BY DEF Detect
    <2>2. v \in {VERSION_V0, "UnknownVersionError", "UnicodeDecodeError"}
      BY DetectAnswers
    <2> QED
      BY <2>1, <2>2
  <1>4. CASE Proceed(call)
    <2>1. todo' = AfterDetect(args) /\ call' = call /\ files' = files /\ code' = code
      BY <1>2, <1>4 DEF Proceed, Go
    <2>2. Loading' \/ Verifying'
      BY <1>1, <1>2, <2>1 DEF AfterDetect, Opening, Loading, Verifying, Unset, Reading, Command,
                              CallFields
    <2>3. Position' /\ DOMAIN call' = CallFields
      BY <2>1, <2>2 DEF Position, Control
    <2> QED
      BY <1>1, <2>1, <2>3, GoKeeps
  <1>5. ASSUME NEW v, Command = "verify-all", Row(FALSE, v) PROVE Control'
    BY <1>1, <1>2, <1>5, RowKeeps DEF Opening
  <1>6. CASE Exit(Refusal, call)
    BY <1>1, <1>6, ExitKeeps DEF Refusal, Control
  <1>7. CASE Crash
    BY <1>1, <1>7, CrashKeeps
  <1> QED
    BY <1>3, <1>4, <1>5, <1>6, <1>7

LEMMA LoadKeeps ==
  ASSUME Control, Load, None \notin LogFile, log \in LogFile \cup {None}
  PROVE  Control'
  <1>1. todo # <<>> /\ Head(todo) = "load" /\ args' = args
    BY DEF Load, At
  <1>2. /\ args \in Invocation /\ code = None /\ Loading /\ Tail(todo) = VerifySteps(args)
    BY <1>1, WhereIs
  <1> DEFINE found == [call EXCEPT !.loaded = log]
  <1>3. \/ log # None /\ Proceed(found)
        \/ Exit(Refusal, call)
        \/ Crash
    BY DEF Load, Loads
  <1>4. CASE log # None /\ Proceed(found)
    <2>1. todo' = VerifySteps(args) /\ call' = found /\ files' = files /\ code' = code
      BY <1>2, <1>4 DEF Proceed, Go
    <2>2. /\ DOMAIN found = CallFields /\ found.loaded = log
          /\ \A f \in CallFields \ {"loaded"} : found[f] = call[f]
      BY DEF Control, CallFields
    <2> HIDE DEF found
    <2>3. Verifying'
      BY <1>1, <1>2, <1>4, <2>1, <2>2 DEF Loading, Verifying, Unset, Reading, Command, CallFields
    <2>4. Position' /\ DOMAIN call' = CallFields
      BY <2>1, <2>2, <2>3 DEF Position
    <2> QED
      BY <1>1, <2>1, <2>4, GoKeeps
  <1>5. CASE Exit(Refusal, call)
    BY <1>1, <1>5, ExitKeeps DEF Refusal, Control
  <1>6. CASE Crash
    BY <1>1, <1>6, CrashKeeps
  <1> QED
    BY <1>3, <1>4, <1>5, <1>6

\* A command that has verified goes on to the next step.
LEMMA AfterVerifyIs ==
  ASSUME args \in Invocation, args' = args, Command \in {"verify", "inspect", "export", "tamper"},
         todo' = AfterVerify(args), call'.verdict # None,
         \A f \in {"checked", "anchor", "explained", "copy", "made", "report"} : call'[f] = None,
         call'.loaded # None <=> Reading
  PROVE  Position'
  <1>1. args.explain \in BOOLEAN
    BY DEF Invocation
  <1>2. CASE Command = "tamper"
    <2>1. todo' = Then("edit", CheckSteps)
      BY <1>2 DEF AfterVerify, Command
    <2>2. Editing'
      BY <1>2, <2>1 DEF Editing, Unset, Reading, Command
    <2> QED
      BY <2>2 DEF Position
  <1>3. CASE Command = "inspect"
    <2>1. todo' = ReportSteps
      BY <1>3 DEF AfterVerify, Command
    <2>2. Reporting'
      BY <1>3, <2>1 DEF Reporting, Unset, Reading, Command
    <2> QED
      BY <2>2 DEF Position
  <1>4. CASE Command = "export" \/ (Command = "verify" /\ args.explain)
    <2>1. todo' = Then("explain", Ending(args))
      BY <1>4 DEF AfterVerify, Command
    <2>2. Explaining'
      BY <1>4, <2>1 DEF Explaining, Unset, Reading, Command
    <2> QED
      BY <2>2 DEF Position
  <1>5. CASE Command = "verify" /\ ~args.explain
    <2>1. todo' = Ending(args)
      BY <1>5 DEF AfterVerify, Command
    <2>2. Anchoring' \/ Reporting'
      BY <1>5, <2>1 DEF Ending, Anchoring, Reporting, Unset, Reading, Command
    <2> QED
      BY <2>2 DEF Position
  <1> QED
    BY <1>1, <1>2, <1>3, <1>4, <1>5

LEMMA VerifyKeeps ==
  ASSUME Control, Verify,
         \A r \in Outcomes(disk[Head(files)], Pins) : r # None
  PROVE  Control'
  <1>1. todo # <<>> /\ Head(todo) = "verify" /\ args' = args
    BY DEF Verify, At
  <1>2. /\ args \in Invocation /\ code = None /\ Verifying /\ Tail(todo) = AfterVerify(args)
    BY <1>1, WhereIs
  <1> DEFINE it == disk[Head(files)]
             found(r) == [call EXCEPT !.verdict = r, !.judged = it]
  <1>3. PICK r \in Outcomes(it, Pins) :
          \/ Crash
          \/ \E ok, reason : Command = "verify-all" /\ Row(ok, reason)
          \/ Command = "tamper" /\ Exit(2, found(r))
          \/ r # Raised /\ Command # "verify-all" /\ Proceed(found(r))
    <2>1. PICK r \in Outcomes(it, Pins) :
            LET truncated == args.require_ended /\ ~r.ended
            IN  CASE r = Raised -> Crash
                  [] r # Raised /\ Command = "verify-all" ->
                       Row(r.ok /\ ~truncated,
                           IF r.ok /\ truncated THEN "not-ended" ELSE r.reason)
                  [] r # Raised /\ Command = "tamper" /\ ~r.ok -> Exit(2, found(r))
                  [] OTHER -> Proceed(found(r))
      BY DEF Verify
    <2> QED
      BY <2>1
  <1>4. r # None
    OBVIOUS
  <1>5. /\ DOMAIN found(r) = CallFields /\ found(r).verdict = r
        /\ \A f \in CallFields \ {"verdict", "judged"} : found(r)[f] = call[f]
    BY DEF Control, CallFields
  <1> HIDE DEF found
  <1>6. ASSUME NEW ok, NEW reason, Command = "verify-all", Row(ok, reason) PROVE Control'
    <2>1. Unset(CallFields \ {"rows", "crashed"})
      BY <1>2, <1>6 DEF Verifying, Unset, Reading, CallFields
    <2> QED
      BY <1>1, <1>6, <2>1, RowKeeps
  <1>7. CASE Exit(2, found(r))
    BY <1>1, <1>5, <1>7, ExitKeeps
  <1>8. CASE Crash
    BY <1>1, <1>8, CrashKeeps
  <1>9. CASE Command # "verify-all" /\ Proceed(found(r))
    <2>1. todo' = AfterVerify(args) /\ call' = found(r) /\ files' = files /\ code' = code
      BY <1>2, <1>9 DEF Proceed, Go
    <2>2. Command \in {"verify", "inspect", "export", "tamper"}
      BY <1>2, <1>9 DEF Verifying, Command, Invocation
    <2>3. /\ call'.verdict # None
          /\ call'.loaded # None <=> Reading
          /\ \A f \in {"checked", "anchor", "explained", "copy", "made", "report"} : call'[f] = None
      BY <1>2, <1>4, <1>5, <2>1 DEF Verifying, Unset, CallFields
    <2>4. Position'
      BY <1>1, <1>2, <2>1, <2>2, <2>3, AfterVerifyIs
    <2>5. DOMAIN call' = CallFields
      BY <1>5, <2>1
    <2> QED
      BY <1>1, <2>1, <2>4, <2>5, GoKeeps
  <1> QED
    BY <1>3, <1>6, <1>7, <1>8, <1>9

-----------------------------------------------------------------------------
(***************************************************************************)
(* What the files and a command's findings are.                            *)
(***************************************************************************)
History == Bodies(disk["reference"].entries)

RefOK == History \in Histories /\ disk["reference"] = Genuine(History)

Data ==
    /\ {call.judged, call.loaded, call.copy} \subseteq LogFile \cup {None}
    /\ {call.verdict, call.checked} \subseteq VerifyResult \cup {None}
    /\ call.anchor \in AnchorAnswer \cup {None}

\* An answer of verify_log.
LEMMA OutcomeIs ==
  ASSUME NEW it \in LogFile \cup {None}, NEW pins, NEW r \in Outcomes(it, pins)
  PROVE  r # None /\ (r # Raised => r \in VerifyResult)
  BY OutcomesTyped, AbsenceAssumption

\* What the trusted copy is.
LEMMA ReferenceIs ==
  ASSUME RefOK
  PROVE  LET ref == disk["reference"]
         IN  /\ History \in Histories /\ ref = Genuine(History)
             /\ ref \in LogFile /\ ref # None /\ ref.medium = "text"
             /\ ref.header.form = "object" /\ ref.header.spki_der = WriterKey
             /\ ref.header.key_id = WriterLabel
             /\ ref.header.spki_sha256 = spki_fingerprint(WriterKey)
             /\ ref.entries \in Seq(Envelope) /\ ref.entries # <<>>
             /\ Len(ref.entries) \in Nat /\ Len(ref.entries) > 0
             /\ Len(ref.entries) = Len(History)
  <1> DEFINE ref == disk["reference"]
  <1>1. History \in Histories /\ ref = Genuine(History)
    BY DEF RefOK
  <1>2. /\ ref \in LogFile /\ ref.medium = "text"
        /\ ref.header = [form |-> "object", session_id |-> History[1].session_id,
                         key_id |-> WriterLabel, spki_der |-> WriterKey,
                         spki_sha256 |-> spki_fingerprint(WriterKey)]
        /\ ref.entries \in Seq(Envelope) /\ Len(ref.entries) = Len(History)
    BY <1>1, GenuineLogs
  <1>3. Len(History) \in Nat /\ Len(History) > 0
    BY <1>1, HistoryTyped
  <1> HIDE DEF ref
  <1>4. ref # None
    BY <1>2, AbsenceAssumption
  <1>5. ref.entries # <<>>
    BY <1>2, <1>3
  <1> QED
    BY <1>1, <1>2, <1>3, <1>4, <1>5 DEF ref

\* The published anchor is the trusted copy's.
LEMMA PublishedIs ==
  ASSUME RefOK, args.anchor = "published"
  PROVE  LET ref == disk["reference"]
             n == Len(History)
         IN  /\ Published \in Token
             /\ Published.spki_sha256 = spki_fingerprint(WriterKey)
             /\ Published.count = n /\ Published.head_entry_hash = ref.entries[n].entry_hash
  <1> DEFINE ref == disk["reference"]
             t == TokenOf(ref)
             n == Len(History)
  <1>1. /\ ref \in LogFile /\ ref.entries \in Seq(Envelope) /\ Len(ref.entries) = n
        /\ n \in Nat /\ n > 0 /\ ref.header.spki_sha256 = spki_fingerprint(WriterKey)
    BY ReferenceIs
  <1> HIDE DEF n
  <1>2. ref.entries[n] \in Envelope /\ Last(ref.entries) = ref.entries[n]
    BY <1>1 DEF Last
  <1>3. /\ ref.entries[n].entry_hash \in Hash /\ ref.header.session_id \in Sessions
        /\ ref.header.key_id \in Labels
    BY <1>1, <1>2 DEF Envelope, LogFile, Header
  <1>4. spki_fingerprint(WriterKey) \in Fingerprint
    BY WriterAssumption DEF spki_fingerprint, Fingerprint, Ders, SigningKeys
  <1>5. t = [type |-> ANCHOR_TYPE, version |-> VERSION_V0, session_id |-> ref.header.session_id,
             key_id |-> ref.header.key_id, spki_sha256 |-> ref.header.spki_sha256,
             count |-> n, head_entry_hash |-> ref.entries[n].entry_hash]
    BY <1>1, <1>2 DEF TokenOf
  <1>6. VERSION_V0 \in Versions
    BY DEF Versions
  <1> HIDE DEF ref, t
  <1>7. /\ t \in Token /\ t.type = ANCHOR_TYPE
        /\ t.spki_sha256 = spki_fingerprint(WriterKey)
        /\ t.count = n /\ t.head_entry_hash = ref.entries[n].entry_hash
    <2> HIDE DEF VERSION_V0, ANCHOR_TYPE
    <2> QED
      BY <1>1, <1>3, <1>4, <1>5, <1>6, Zenon DEF Token
  <1>8. Published = [t EXCEPT !.type = @]
    BY DEF Published, t, ref
  <1>9. Published = t
    BY <1>7, <1>8 DEF Token
  <1> QED
    BY <1>7, <1>9 DEF ref, n

LEMMA NotAnAnchor ==
  AnchorResult(FALSE, "not an anchor", 0, 0) \in AnchorAnswer
  <1>1. "not an anchor" \in AnchorReasons \cup {None}
    BY DEF AnchorReasons
  <1> DEFINE reason == "not an anchor"
  <1>2. reason \in AnchorReasons \cup {None}
    BY <1>1
  <1> HIDE DEF reason
  <1>3. AnchorResult(FALSE, reason, 0, 0) \in AnchorAnswer
    BY <1>2 DEF AnchorResult, AnchorAnswer
  <1> QED
    BY <1>3 DEF reason

-----------------------------------------------------------------------------
LEMMA ExplainKeeps ==
  ASSUME Control, Explain
  PROVE  Control'
  <1>1. todo # <<>> /\ Head(todo) = "explain" /\ args' = args
    BY DEF Explain, At
  <1>2. /\ args \in Invocation /\ code = None /\ Explaining /\ Tail(todo) = Ending(args)
    BY <1>1, WhereIs
  <1>3. \/ Crash
        \/ \E x : Proceed([call EXCEPT !.explained = x])
        \/ Proceed(call)
    BY DEF Explain
  <1>4. ASSUME NEW found, Proceed(found), DOMAIN found = CallFields,
               \A f \in CallFields \ {"explained"} : found[f] = call[f]
        PROVE  Control'
    <2>1. todo' = Ending(args) /\ call' = found /\ files' = files /\ code' = code
      BY <1>2, <1>4 DEF Proceed, Go
    <2>2. Anchoring' \/ Reporting'
      BY <1>1, <1>2, <1>4, <2>1 DEF Explaining, Ending, Anchoring, Reporting, Unset, Reading,
                                    Command, CallFields
    <2>3. Position' /\ DOMAIN call' = CallFields
      BY <1>4, <2>1, <2>2 DEF Position
    <2> QED
      BY <1>1, <2>1, <2>3, GoKeeps
  <1>5. ASSUME NEW x, Proceed([call EXCEPT !.explained = x]) PROVE Control'
    <2> DEFINE found == [call EXCEPT !.explained = x]
    <2>1. DOMAIN found = CallFields /\ \A f \in CallFields \ {"explained"} : found[f] = call[f]
      BY DEF Control, CallFields
    <2>2. Proceed(found)
      BY <1>5
    <2> HIDE DEF found
    <2> QED
      BY <1>4, <2>1, <2>2
  <1>6. CASE Proceed(call)
    BY <1>4, <1>6 DEF Control
  <1>7. CASE Crash
    BY <1>1, <1>7, CrashKeeps
  <1> QED
    BY <1>3, <1>5, <1>6, <1>7

LEMMA ReadAnchorKeeps ==
  ASSUME Control, ReadAnchor
  PROVE  Control'
  <1>1. todo # <<>> /\ Head(todo) = "anchor" /\ args' = args
    BY DEF ReadAnchor, At
  <1>2. /\ args \in Invocation /\ code = None /\ Anchoring /\ todo = AnchorSteps
        /\ Tail(todo) = DetectSteps
    BY <1>1, WhereIs
  <1>3. args.anchor \in {"published", "other-type", "unreadable"}
    BY <1>2 DEF Anchoring, Invocation
  <1> DEFINE a == AnchorResult(FALSE, "not an anchor", 0, 0)
             found == [call EXCEPT !.anchor = a]
  <1>4. \/ Crash
        \/ args.anchor = "other-type" /\ Go(<<"report">>, found)
        \/ args.anchor = "published" /\ Proceed(call)
    <2> HIDE DEF a, found
    <2>1. CASE args.anchor = "unreadable"
      BY <2>1 DEF ReadAnchor
    <2>2. CASE args.anchor = "published"
      BY <2>2 DEF ReadAnchor
    <2>3. CASE args.anchor = "other-type"
      BY <2>3, Zenon DEF ReadAnchor, a, found
    <2> QED
      BY <1>3, <2>1, <2>2, <2>3
  <1>5. a # None
    BY NotAnAnchor, AnswerAssumption, Zenon
  <1> HIDE DEF a
  <1>6. DOMAIN found = CallFields /\ found.anchor = a /\ \A f \in CallFields \ {"anchor"} : found[f] = call[f]
    BY DEF Control, CallFields
  <1> HIDE DEF found
  <1>7. CASE args.anchor = "other-type" /\ Go(<<"report">>, found)
    <2>1. todo' = ReportSteps /\ call' = found /\ files' = files /\ code' = code
      BY <1>7, ListsAre DEF Go
    <2>2. Reporting'
      BY <1>1, <1>2, <1>5, <1>6, <2>1 DEF Anchoring, Reporting, Unset, Reading, Command, CallFields
    <2>3. Position' /\ DOMAIN call' = CallFields
      BY <1>6, <2>1, <2>2 DEF Position
    <2> QED
      BY <1>1, <2>1, <2>3, GoKeeps
  <1>8. CASE args.anchor = "published" /\ Proceed(call)
    <2>1. todo' = DetectSteps /\ call' = call /\ files' = files /\ code' = code
      BY <1>2, <1>8 DEF Proceed, Go
    <2>2. Anchoring'
      BY <1>1, <1>2, <1>8, <2>1 DEF Anchoring, Unset, Command
    <2>3. Position' /\ DOMAIN call' = CallFields
      BY <2>1, <2>2 DEF Position, Control
    <2> QED
      BY <1>1, <2>1, <2>3, GoKeeps
  <1>9. CASE Crash
    BY <1>1, <1>9, CrashKeeps
  <1> QED
    BY <1>4, <1>7, <1>8, <1>9

LEMMA AnchorDetectKeeps ==
  ASSUME Control, AnchorDetect
  PROVE  Control'
  <1>1. todo # <<>> /\ Head(todo) = "anchor-detect" /\ args' = args
    BY DEF AnchorDetect, At
  <1>2. /\ args \in Invocation /\ code = None
        /\ \/ Anchoring /\ todo = DetectSteps /\ Tail(todo) = JudgeSteps
           \/ Comparing /\ todo = RedetectSteps /\ Tail(todo) = LoadSteps
    BY <1>1, WhereIs
  <1>3. Crash \/ Proceed(call)
    BY DEF AnchorDetect
  <1>4. CASE Proceed(call)
    <2>1. todo' = Tail(todo) /\ call' = call /\ files' = files /\ code' = code
      BY <1>4 DEF Proceed, Go
    <2>2. DetectSteps # AnchorSteps
      BY FixedHeads
    <2>3. Anchoring' \/ Comparing'
      BY <1>1, <1>2, <2>1, <2>2 DEF Anchoring, Comparing, Unset, Command
    <2>4. Position' /\ DOMAIN call' = CallFields
      BY <2>1, <2>3 DEF Position, Control
    <2> QED
      BY <1>1, <2>1, <2>4, GoKeeps
  <1>5. CASE Crash
    BY <1>1, <1>5, CrashKeeps
  <1> QED
    BY <1>3, <1>4, <1>5

LEMMA AnchorVerifyKeeps ==
  ASSUME Control, AnchorVerify, log \in LogFile \cup {None}
  PROVE  Control'
  <1>1. todo # <<>> /\ Head(todo) = "anchor-verify" /\ args' = args
    BY DEF AnchorVerify, At
  <1>2. /\ args \in Invocation /\ code = None /\ Anchoring /\ todo = JudgeSteps
        /\ Tail(todo) = RedetectSteps
    BY <1>1, WhereIs
  <1>3. PICK r \in Outcomes(log, Unpinned) : Crash \/ Proceed([call EXCEPT !.checked = r])
    BY DEF AnchorVerify
  <1> DEFINE found == [call EXCEPT !.checked = r]
  <1>4. r # None
    BY OutcomeIs
  <1>5. /\ DOMAIN found = CallFields /\ found.checked = r
        /\ \A f \in CallFields \ {"checked"} : found[f] = call[f]
    BY DEF Control, CallFields
  <1>6. CASE Proceed(found)
    <2> HIDE DEF found
    <2>1. todo' = RedetectSteps /\ call' = found /\ files' = files /\ code' = code
      BY <1>2, <1>6 DEF Proceed, Go
    <2>2. JudgeSteps # AnchorSteps
      BY FixedHeads
    <2>3. Comparing'
      BY <1>1, <1>2, <1>4, <1>5, <2>1, <2>2 DEF Anchoring, Comparing, Unset, Command, CallFields
    <2>4. Position' /\ DOMAIN call' = CallFields
      BY <1>5, <2>1, <2>3 DEF Position
    <2> QED
      BY <1>1, <2>1, <2>4, GoKeeps
  <1>7. CASE Crash
    BY <1>1, <1>7, CrashKeeps
  <1> QED
    BY <1>3, <1>6, <1>7

\* What check_anchor compares, and its answer.
LEMMA AnchorLoadIs ==
  ASSUME Control, AnchorLoad, RefOK, Data, log \in LogFile \cup {None}
  PROVE  /\ todo # <<>> /\ args' = args
         /\ Crash \/ (LET found == [call EXCEPT !.loaded = log,
                                                !.anchor = Compared(call.checked, log, Published)]
                      IN  /\ Go(ReportSteps, found) /\ Loads(log) /\ log \in LogFile /\ Comparing
                          /\ call.checked \in VerifyResult /\ Published \in Token
                          /\ found.anchor \in AnchorAnswer /\ found.anchor # None
                          /\ found.loaded = log
                          /\ DOMAIN found = CallFields
                          /\ \A f \in CallFields \ {"loaded", "anchor"} : found[f] = call[f])
  <1>1. todo # <<>> /\ Head(todo) = "anchor-load" /\ args' = args
    BY DEF AnchorLoad, At
  <1>2. /\ args \in Invocation /\ code = None /\ Comparing /\ todo = LoadSteps
        /\ Tail(todo) = ReportSteps
    BY <1>1, WhereIs
  <1> DEFINE a == Compared(call.checked, log, Published)
             found == [call EXCEPT !.loaded = log, !.anchor = a]
  <1>3. Crash \/ (Loads(log) /\ Proceed(found))
    BY DEF AnchorLoad
  <1>4. CASE Loads(log) /\ Proceed(found)
    <2>1. log \in LogFile
      BY <1>4 DEF Loads
    <2>2. call.checked \in VerifyResult
      BY <1>2 DEF Comparing, Data
    <2>3. Published \in Token
      BY <1>2, PublishedIs DEF Comparing
    <2>4. a \in AnchorAnswer /\ a # None
      BY <2>1, <2>2, <2>3, ComparedTyped, AnswerAssumption
    <2> HIDE DEF a
    <2>5. /\ found.anchor = a /\ found.loaded = log /\ DOMAIN found = CallFields
          /\ \A f \in CallFields \ {"loaded", "anchor"} : found[f] = call[f]
      BY DEF Control, CallFields
    <2> HIDE DEF found
    <2>6. Go(ReportSteps, found)
      BY <1>2, <1>4 DEF Proceed
    <2> QED
      BY <1>1, <1>2, <1>4, <2>1, <2>2, <2>3, <2>4, <2>5, <2>6 DEF a, found
  <1> QED
    BY <1>1, <1>3, <1>4

LEMMA AnchorLoadKeeps ==
  ASSUME Control, AnchorLoad, RefOK, Data, log \in LogFile \cup {None}
  PROVE  Control'
  <1>1. todo # <<>> /\ args' = args
    BY AnchorLoadIs
  <1>2. CASE Crash
    BY <1>1, <1>2, CrashKeeps
  <1>3. CASE ~Crash
    <2> DEFINE found == [call EXCEPT !.loaded = log, !.anchor = Compared(call.checked, log, Published)]
    <2>1. /\ Go(ReportSteps, found) /\ Comparing /\ found.anchor # None
          /\ DOMAIN found = CallFields
          /\ \A f \in CallFields \ {"loaded", "anchor"} : found[f] = call[f]
      BY <1>3, AnchorLoadIs
    <2> HIDE DEF found
    <2>2. todo' = ReportSteps /\ call' = found /\ files' = files /\ code' = code
      BY <2>1 DEF Go
    <2>3. args.anchor # None
      <3>1. args \in Invocation
        BY <1>1, WhereIs
      <3> QED
        BY <2>1, InvocationAssumption DEF Comparing
    <2>4. Reporting'
      BY <1>1, <2>1, <2>2, <2>3 DEF Comparing, Reporting, Unset, Reading, Command, CallFields
    <2>5. Position' /\ DOMAIN call' = CallFields
      BY <2>1, <2>2, <2>4 DEF Position
    <2> QED
      BY <1>1, <2>2, <2>5, GoKeeps
  <1> QED
    BY <1>2, <1>3

\* What the last step of verify, inspect and export prints.
PrintedNow ==
    LET r == call.verdict
    IN  CASE Command = "verify"  -> VerifyReport(r, call.anchor)
          [] Command = "inspect" -> [code |-> 0, ok |-> r.ok, reason |-> r.reason]
          [] Command = "export"  ->
               [code |-> IF r.ok THEN 0 ELSE 1, ok |-> r.ok, reason |-> r.reason]

ShownNow == [ok |-> PrintedNow.ok, reason |-> PrintedNow.reason, pinned |-> args.pin # None]

FoundNow == [call EXCEPT !.report = ShownNow]

LEMMA ReportIs ==
  ASSUME Control, Report
  PROVE  /\ todo # <<>> /\ args' = args /\ Reporting
         /\ PrintedNow.code \in {0, 1} /\ Exit(PrintedNow.code, FoundNow)
         /\ DOMAIN FoundNow = CallFields /\ FoundNow.report = ShownNow
         /\ \A f \in CallFields \ {"report"} : FoundNow[f] = call[f]
  <1>1. todo # <<>> /\ Head(todo) = "report" /\ args' = args
    BY DEF Report, At
  <1>2. args \in Invocation /\ code = None /\ Reporting
    BY <1>1, WhereIs
  <1>3. Exit(PrintedNow.code, FoundNow)
    BY DEF Report, FoundNow, ShownNow, PrintedNow
  <1>4. PrintedNow.code \in {0, 1}
    <2>1. CASE Command = "verify"
      <3>1. PrintedNow = VerifyReport(call.verdict, call.anchor)
        BY <2>1 DEF PrintedNow
      <3>2. VerifyReport(call.verdict, call.anchor).code \in {0, 1}
        BY DEF VerifyReport
      <3> QED
        BY <3>1, <3>2
    <2>2. CASE Command = "inspect"
      BY <2>2 DEF PrintedNow
    <2>3. CASE Command = "export"
      BY <2>3 DEF PrintedNow
    <2> QED
      BY <1>2, <2>1, <2>2, <2>3 DEF Reporting
  <1>5. /\ DOMAIN FoundNow = CallFields /\ FoundNow.report = ShownNow
        /\ \A f \in CallFields \ {"report"} : FoundNow[f] = call[f]
    BY DEF Control, CallFields, FoundNow
  <1> QED
    BY <1>1, <1>2, <1>3, <1>4, <1>5

LEMMA ReportKeeps ==
  ASSUME Control, Report
  PROVE  Control'
  BY ReportIs, ExitKeeps

LEMMA ReadReferenceKeeps ==
  ASSUME Control, ReadReference
  PROVE  Control'
  <1>1. todo # <<>> /\ Head(todo) = "reference" /\ args' = args /\ disk' = disk
    BY DEF ReadReference, At, worldVars
  <1>2. args \in Invocation /\ code = None /\ Referring /\ Tail(todo) = TargetSteps
    BY <1>1, WhereIs
  <1> DEFINE ref == disk["reference"]
             found == [call EXCEPT !.loaded = ref]
  <1>3. Proceed(found)
    BY DEF ReadReference
  <1> HIDE DEF ref
  <1>4. /\ DOMAIN found = CallFields /\ found.loaded = ref
        /\ \A f \in CallFields \ {"loaded"} : found[f] = call[f]
    BY DEF Control, CallFields
  <1> HIDE DEF found
  <1>5. todo' = TargetSteps /\ call' = found /\ files' = files /\ code' = code
    BY <1>2, <1>3 DEF Proceed, Go
  <1>6. Targeting'
    BY <1>1, <1>2, <1>4, <1>5 DEF Referring, Targeting, Unset, Command, CallFields, ref
  <1>7. Position' /\ DOMAIN call' = CallFields
    BY <1>4, <1>5, <1>6 DEF Position
  <1> QED
    BY <1>1, <1>5, <1>7, GoKeeps

LEMMA ReadTargetKeeps ==
  ASSUME Control, ReadTarget
  PROVE  Control'
  <1>1. todo # <<>> /\ Head(todo) = "target" /\ args' = args
    BY DEF ReadTarget, At
  <1> DEFINE d == diff_chains(call.loaded, log)
             found == [call EXCEPT !.report = d, !.judged = log]
  <1>2. \/ Exit(IF d.identical THEN 0 ELSE 1, found)
        \/ Crash
        \/ \E status \in {0, 1} : Exit(status, call)
    BY DEF ReadTarget
  <1> HIDE DEF d
  <1>3. DOMAIN found = CallFields
    BY DEF Control, CallFields
  <1> HIDE DEF found
  <1>4. CASE Exit(IF d.identical THEN 0 ELSE 1, found)
    <2>1. (IF d.identical THEN 0 ELSE 1) \in {0, 1, 2}
      OBVIOUS
    <2> QED
      BY <1>1, <1>3, <1>4, <2>1, ExitKeeps
  <1>5. CASE Crash
    BY <1>1, <1>5, CrashKeeps
  <1>6. ASSUME NEW status \in {0, 1}, Exit(status, call) PROVE Control'
    BY <1>1, <1>6, ExitKeeps DEF Control
  <1> QED
    BY <1>2, <1>4, <1>5, <1>6

LEMMA CheckKeeps ==
  ASSUME Control, Check
  PROVE  Control'
  <1>1. todo # <<>> /\ Head(todo) = "check" /\ args' = args
    BY DEF Check, At
  <1>2. \/ Crash
        \/ Exit(1, call)
        \/ \E r, x : Exit(0, [call EXCEPT !.verdict = r, !.explained = x])
    BY DEF Check
  <1>3. ASSUME NEW r, NEW x, Exit(0, [call EXCEPT !.verdict = r, !.explained = x]) PROVE Control'
    <2>1. DOMAIN [call EXCEPT !.verdict = r, !.explained = x] = CallFields
      BY DEF Control, CallFields
    <2> QED
      BY <1>1, <1>3, <2>1, ExitKeeps
  <1>4. CASE Exit(1, call)
    BY <1>1, <1>4, ExitKeeps DEF Control
  <1>5. CASE Crash
    BY <1>1, <1>5, CrashKeeps
  <1> QED
    BY <1>2, <1>3, <1>4, <1>5

-----------------------------------------------------------------------------
\* A log with the record of one entry replaced.
WithRecord(it, n, rec) == [it EXCEPT !.entries[n].record = rec]

LEMMA WithRecordIs ==
  ASSUME NEW it \in LogFile, NEW n \in DOMAIN it.entries, NEW rec \in Record
  PROVE  LET new == WithRecord(it, n, rec)
         IN  /\ new \in LogFile /\ new.medium = it.medium /\ new.header = it.header
             /\ new.entries \in Seq(Envelope) /\ Len(new.entries) = Len(it.entries)
             /\ DOMAIN new.entries = DOMAIN it.entries
             /\ new.entries[n].record = rec /\ new.entries[n].form = it.entries[n].form
             /\ new.entries[n].entry_hash = it.entries[n].entry_hash
             /\ new.entries[n].signature = it.entries[n].signature
             /\ new.entries[n].public_key = it.entries[n].public_key
             /\ \A m \in DOMAIN it.entries : m # n => new.entries[m] = it.entries[m]
  <1> DEFINE e == [it.entries[n] EXCEPT !.record = rec]
             entries == [it.entries EXCEPT ![n] = e]
             new == WithRecord(it, n, rec)
  <1>1. it.entries \in Seq(Envelope) /\ it.medium \in Media /\ it.header \in Header
    BY DEF LogFile
  <1>2. it.entries[n] \in Envelope
    BY <1>1
  <1>3. /\ e \in Envelope /\ e.record = rec /\ e.form = it.entries[n].form
        /\ e.entry_hash = it.entries[n].entry_hash
        /\ e.signature = it.entries[n].signature /\ e.public_key = it.entries[n].public_key
    BY <1>2 DEF Envelope
  <1>4. new = [it EXCEPT !.entries = entries]
    BY DEF WithRecord
  <1> HIDE DEF e
  <1>5. /\ entries \in Seq(Envelope) /\ Len(entries) = Len(it.entries)
        /\ DOMAIN entries = DOMAIN it.entries /\ entries[n] = e
        /\ \A m \in DOMAIN it.entries : m # n => entries[m] = it.entries[m]
    BY <1>1, <1>3
  <1> HIDE DEF entries, new
  <1>6. new \in LogFile /\ new.medium = it.medium /\ new.header = it.header /\ new.entries = entries
    BY <1>1, <1>4, <1>5 DEF LogFile
  <1> QED
    BY <1>3, <1>5, <1>6 DEF new, e

\* The values tamper writes are values of the field, and new.
LEMMA NewValuesTyped ==
  ASSUME NEW f \in {"tool_name", "event_type", "actor"}, NEW observed, NEW v \in NewValues(f, observed)
  PROVE  v \in ValuesOf(f) /\ v # observed /\ f \in FieldsEdited
  <1>0. f \in FieldsEdited
    BY DEF FieldsEdited, LowEntropyFields
  <1>1. CASE f = "tool_name"
    <2> DEFINE Said(field) == {p[field] : p \in Payloads}
    <2>1. KNOWN_TOOL_NAMES \subseteq Said("tool_name")
      BY PayloadAssumption
    <2>2. ValuesOf(f) = Said("tool_name")
      BY <1>1 DEF ValuesOf, PayloadFields
    <2>3. v \in KNOWN_TOOL_NAMES \ {observed}
      BY <1>1 DEF NewValues
    <2> HIDE DEF Said
    <2>4. v \in Said("tool_name") /\ v # observed
      BY <2>1, <2>3
    <2>5. v \in ValuesOf(f)
      BY <2>2, <2>4
    <2> QED
      BY <1>0, <2>4, <2>5
  <1>2. CASE f = "event_type"
    <2>1. ValuesOf(f) = EVENT_TYPES
      BY <1>2 DEF ValuesOf, PayloadFields
    <2>2. v \in {"post_tool_use", "pre_tool_use"} /\ v # observed
      BY <1>2 DEF NewValues
    <2> QED
      BY <1>0, <2>1, <2>2 DEF EVENT_TYPES
  <1>3. CASE f = "actor"
    <2> DEFINE Said(field) == {p[field] : p \in Payloads}
    <2>1. ValuesOf(f) = Said("actor")
      BY <1>3 DEF ValuesOf, PayloadFields
    <2>2. v \in {"user", "system"} /\ v # observed
      BY <1>3 DEF NewValues
    <2>3. v \in ACTORS
      BY <2>2, PayloadAssumption
    <2>4. /\ Payloads = [tool_name: Said("tool_name"), actor: ACTORS, rest: Said("rest")]
          /\ None \in Said("tool_name")
      BY PayloadAssumption
    <2>5. PICK p \in Payloads : TRUE
      BY <2>4
    <2>6. p.tool_name \in Said("tool_name") /\ p.rest \in Said("rest")
      BY <2>5
    <2> DEFINE q == [tool_name |-> p.tool_name, actor |-> v, rest |-> p.rest]
    <2> HIDE DEF Said
    <2>7. q \in Payloads /\ q["actor"] = v
      BY <2>3, <2>4, <2>6
    <2> HIDE DEF q
    <2>8. v \in Said("actor")
      BY <2>7 DEF Said
    <2> QED
      BY <1>0, <2>1, <2>2, <2>8
  <1> QED
    BY <1>1, <1>2, <1>3

\* What the step "edit" of tamper does.
LEMMA EditIs ==
  ASSUME Control, Edit, log \in LogFile \cup {None}
  PROVE  /\ todo # <<>> /\ args' = args
         /\ \/ Crash
            \/ /\ Editing /\ Tail(todo) = CheckSteps /\ log \in LogFile
               /\ LET n == Chosen(call.loaded.entries)
                      e == log.entries[n]
                  IN  /\ n \in DOMAIN log.entries /\ log.medium = "text"
                      /\ \/ e.form = "malformed" /\ Proceed([call EXCEPT !.copy = log])
                         \/ /\ e.form = "object" /\ e.record \in Record
                            /\ e.record.payload \notin Unencodable
                            /\ \E v \in ValuesOf(args.field) :
                                  LET was  == Get(e.record, args.field)
                                      copy == WithRecord(log, n, Put(e.record, args.field, v))
                                  IN  /\ v # was /\ args.field \in FieldsEdited \ {"signer_key_id", "rest"}
                                      /\ Put(e.record, args.field, v) \in Record
                                      /\ copy \in LogFile
                                      /\ Proceed([call EXCEPT !.copy = copy,
                                                       !.made = FieldChange(args.field, was, v)])
  <1>1. todo # <<>> /\ Head(todo) = "edit" /\ args' = args
    BY DEF Edit, At
  <1>2. args \in Invocation /\ Editing /\ Tail(todo) = CheckSteps
    BY <1>1, WhereIs
  <1>3. args.field \in {"tool_name", "event_type", "actor"}
    BY <1>2 DEF Invocation
  <1> DEFINE n == Chosen(call.loaded.entries)
             e == log.entries[n]
             was == Get(e.record, args.field)
  <1> SUFFICES ASSUME ~Crash
               PROVE  /\ log \in LogFile /\ n \in DOMAIN log.entries /\ log.medium = "text"
                      /\ \/ e.form = "malformed" /\ Proceed([call EXCEPT !.copy = log])
                         \/ /\ e.form = "object" /\ e.record \in Record
                            /\ e.record.payload \notin Unencodable
                            /\ \E v \in ValuesOf(args.field) :
                                  LET copy == WithRecord(log, n, Put(e.record, args.field, v))
                                  IN  /\ v # was /\ args.field \in FieldsEdited \ {"signer_key_id", "rest"}
                                      /\ Put(e.record, args.field, v) \in Record
                                      /\ copy \in LogFile
                                      /\ Proceed([call EXCEPT !.copy = copy,
                                                       !.made = FieldChange(args.field, was, v)])
    BY <1>1, <1>2
  <1>4. /\ Editable(log, n)
        /\ \/ e.form = "malformed" /\ Proceed([call EXCEPT !.copy = log])
           \/ /\ e.form = "object" /\ e.record.payload \notin Unencodable
              /\ \E v \in NewValues(args.field, was) :
                    Proceed([call EXCEPT
                        !.copy = [log EXCEPT !.entries[n].record = Put(@, args.field, v)],
                        !.made = FieldChange(args.field, was, v)])
    BY DEF Edit
  <1>5. log \in LogFile /\ n \in DOMAIN log.entries /\ log.medium = "text"
    BY <1>4 DEF Editable
  <1>6. e \in Envelope
    BY <1>5 DEF LogFile
  <1>7. e.record \in Record
    BY <1>6 DEF Envelope
  <1>8. ASSUME NEW v \in NewValues(args.field, was),
               Proceed([call EXCEPT
                        !.copy = [log EXCEPT !.entries[n].record = Put(@, args.field, v)],
                        !.made = FieldChange(args.field, was, v)])
        PROVE  LET copy == WithRecord(log, n, Put(e.record, args.field, v))
               IN  /\ v \in ValuesOf(args.field) /\ v # was
                   /\ args.field \in FieldsEdited \ {"signer_key_id", "rest"}
                   /\ Put(e.record, args.field, v) \in Record /\ copy \in LogFile
                   /\ Proceed([call EXCEPT !.copy = copy, !.made = FieldChange(args.field, was, v)])
    <2>1. v \in ValuesOf(args.field) /\ v # was /\ args.field \in FieldsEdited
      BY <1>3, NewValuesTyped
    <2>2. Put(e.record, args.field, v) \in Record
      BY <1>7, <2>1, PutTyped
    <2>3. WithRecord(log, n, Put(e.record, args.field, v)) \in LogFile
      BY <1>5, <2>2, WithRecordIs
    <2>4. WithRecord(log, n, Put(e.record, args.field, v))
            = [log EXCEPT !.entries[n].record = Put(@, args.field, v)]
      BY DEF WithRecord
    <2> QED
      BY <1>3, <1>8, <2>1, <2>2, <2>3, <2>4
  <1> HIDE DEF n, e, was
  <1> QED
    BY <1>4, <1>5, <1>7, <1>8

LEMMA EditKeeps ==
  ASSUME Control, Edit, log \in LogFile \cup {None}
  PROVE  Control'
  <1>1. todo # <<>> /\ args' = args
    BY EditIs
  <1>2. CASE Crash
    BY <1>1, <1>2, CrashKeeps
  <1>3. ASSUME NEW copy \in LogFile, NEW made, Editing, Tail(todo) = CheckSteps,
               Proceed([call EXCEPT !.copy = copy, !.made = made])
        PROVE  Control'
    <2> DEFINE found == [call EXCEPT !.copy = copy, !.made = made]
    <2>1. /\ DOMAIN found = CallFields /\ found.copy = copy
          /\ \A f \in CallFields \ {"copy", "made"} : found[f] = call[f]
      BY DEF Control, CallFields
    <2>2. Proceed(found)
      BY <1>3
    <2> HIDE DEF found
    <2>3. todo' = CheckSteps /\ call' = found /\ files' = files /\ code' = code
      BY <1>3, <2>2 DEF Proceed, Go
    <2>4. Checking'
      BY <1>1, <1>3, <2>1, <2>3, AbsenceAssumption DEF Editing, Checking, Unset, Command, CallFields
    <2>5. Position' /\ DOMAIN call' = CallFields
      BY <2>1, <2>3, <2>4 DEF Position
    <2> QED
      BY <1>1, <2>3, <2>5, GoKeeps
  <1>4. ASSUME Editing, Tail(todo) = CheckSteps, log \in LogFile, Proceed([call EXCEPT !.copy = log])
        PROVE  Control'
    <2>1. [call EXCEPT !.copy = log] = [call EXCEPT !.copy = log, !.made = call.made]
      BY DEF Control, CallFields
    <2> QED
      BY <1>3, <1>4, <2>1
  <1> QED
    BY <1>2, <1>3, <1>4, EditIs

-----------------------------------------------------------------------------
(***************************************************************************)
(* The log's fate.                                                         *)
(***************************************************************************)
SameBut(base, it, made) ==
    \A n \in 1..Len(base) :
        /\ base[n].form = it[n].form /\ base[n].entry_hash = it[n].entry_hash
        /\ base[n].signature = it[n].signature /\ base[n].public_key = it[n].public_key
        /\ \A f \in RecordFields :
              Get(base[n].record, f) # Get(it[n].record, f) => \E e \in made : e.at = n /\ e.field = f

EditOf(base, it, e) ==
    /\ e.at \in 1..Len(base) /\ e.field \in FieldsEdited
    /\ e.original = Get(base[e.at].record, e.field)
    /\ e.observed = Get(it[e.at].record, e.field)
    /\ e.original # e.observed

EditedBy(base, it, made) ==
    /\ it # None /\ it.medium = "text" /\ it.header = base.header
    /\ Len(it.entries) = Len(base.entries)
    /\ SameBut(base.entries, it.entries, made)
    /\ \A e \in made : EditOf(base.entries, it.entries, e)

WorldTyped ==
    /\ disk \in [{"log", "reference"} -> LogFile \cup {None}]
    /\ changes \in 0..MaxChanges
    /\ \A e \in edits : e.at \in Nat /\ e.field \in FieldsEdited
    /\ wild \in BOOLEAN
    /\ during \in {"still", "appended", "changed"}
    /\ RefOK
    /\ ~wild => \E base \in Stages(History) :
                   EditedBy(base, log, edits) /\ (base = HalfWritten(History) => edits = {})

commandVars == <<args, todo, files, call, code>>

\* What a change of the log leaves as it was.
LEMMA FateIs ==
  ASSUME WorldTyped, NEW fate \in {"appended", "changed"}, NEW newLog \in LogFile \cup {None},
         Befalls(fate, newLog)
  PROVE  /\ disk' \in [{"log", "reference"} -> LogFile \cup {None}]
         /\ changes' \in 0..MaxChanges /\ during' \in {"still", "appended", "changed"}
         /\ log' = newLog /\ disk'["reference"] = disk["reference"] /\ RefOK'
         /\ during' = Worse(during, fate)
         /\ UNCHANGED commandVars
  <1>1. /\ changes < MaxChanges /\ disk' = [disk EXCEPT !["log"] = newLog]
        /\ changes' = changes + 1 /\ during' = Worse(during, fate)
        /\ UNCHANGED <<args, todo, files, call, code>>
    BY DEF Befalls
  <1>2. /\ disk' \in [{"log", "reference"} -> LogFile \cup {None}]
        /\ disk'["log"] = newLog /\ disk'["reference"] = disk["reference"]
    BY <1>1 DEF WorldTyped
  <1>3. changes' \in 0..MaxChanges
    BY <1>1, WriterAssumption DEF WorldTyped
  <1>4. during' \in {"still", "appended", "changed"}
    BY <1>1, WorseIs DEF WorldTyped
  <1>5. RefOK'
    BY <1>2 DEF WorldTyped, RefOK, History
  <1> QED
    BY <1>1, <1>2, <1>3, <1>4, <1>5 DEF log, commandVars

\* A log with an entry replaced by another envelope, and one with a line more.
LEMMA EntriesTyped ==
  ASSUME NEW it \in LogFile
  PROVE  /\ it.medium \in Media /\ it.header \in Header /\ it.entries \in Seq(Envelope)
         /\ \A n \in DOMAIN it.entries, form \in LineForms :
               [it EXCEPT !.entries[n].form = form] \in LogFile
         /\ \A n \in DOMAIN it.entries, hash \in Hash :
               [it EXCEPT !.entries[n].entry_hash = hash] \in LogFile
         /\ \A entries \in Seq(Envelope) : [it EXCEPT !.entries = entries] \in LogFile
         /\ \A form \in LineForms : [it EXCEPT !.header.form = form] \in LogFile
         /\ [it EXCEPT !.medium = "undecodable"] \in LogFile
  <1>1. it.medium \in Media /\ it.header \in Header /\ it.entries \in Seq(Envelope)
    BY DEF LogFile
  <1>2. \A entries \in Seq(Envelope) : [it EXCEPT !.entries = entries] \in LogFile
    BY DEF LogFile
  <1>3. ASSUME NEW n \in DOMAIN it.entries, NEW form \in LineForms
        PROVE  [it EXCEPT !.entries[n].form = form] \in LogFile
    <2>1. it.entries[n] \in Envelope
      BY <1>1, <1>3
    <2>2. [it.entries[n] EXCEPT !.form = form] \in Envelope
      BY <1>3, <2>1 DEF Envelope
    <2>3. [it.entries EXCEPT ![n] = [it.entries[n] EXCEPT !.form = form]] \in Seq(Envelope)
      BY <1>1, <2>2
    <2> QED
      BY <1>2, <2>3
  <1>4. ASSUME NEW n \in DOMAIN it.entries, NEW hash \in Hash
        PROVE  [it EXCEPT !.entries[n].entry_hash = hash] \in LogFile
    <2>1. it.entries[n] \in Envelope
      BY <1>1, <1>4
    <2>2. [it.entries[n] EXCEPT !.entry_hash = hash] \in Envelope
      BY <1>4, <2>1 DEF Envelope
    <2>3. [it.entries EXCEPT ![n] = [it.entries[n] EXCEPT !.entry_hash = hash]] \in Seq(Envelope)
      BY <1>1, <2>2
    <2> QED
      BY <1>2, <2>3
  <1>5. ASSUME NEW form \in LineForms PROVE [it EXCEPT !.header.form = form] \in LogFile
    <2>1. [it.header EXCEPT !.form = form] \in Header
      BY <1>1, <1>5 DEF Header
    <2> QED
      BY <2>1 DEF LogFile
  <1>6. [it EXCEPT !.medium = "undecodable"] \in LogFile
    BY DEF LogFile, Media
  <1> QED
    BY <1>1, <1>2, <1>3, <1>4, <1>5, <1>6

\* An edit of a field.
LEMMA EditFieldIs ==
  ASSUME WorldTyped, NEW n \in Nat, NEW field \in FieldsEdited, NEW value \in EditValues(field),
         EditField(n, field, value)
  PROVE  LET rec == log.entries[n].record
             new == WithRecord(log, n, Put(rec, field, value))
             made == [at |-> n, field |-> field, original |-> Get(rec, field), observed |-> value]
         IN  /\ log \in LogFile /\ Plain /\ n \in DOMAIN log.entries
             /\ rec \in Record /\ value \in ValuesOf(field) /\ Put(rec, field, value) \in Record
             /\ new \in LogFile /\ Befalls("changed", new) /\ wild' = wild
             /\ edits' = edits \cup {made}
             /\ ~\E e \in edits : e.at = n /\ e.field = field
  <1> DEFINE rec == log.entries[n].record
             new == WithRecord(log, n, Put(rec, field, value))
             made == [at |-> n, field |-> field, original |-> Get(rec, field), observed |-> value]
  <1>1. /\ Plain /\ n \in DOMAIN log.entries /\ Befalls("changed", new) /\ wild' = wild
        /\ edits' = edits \cup {made}
        /\ ~\E e \in edits : e.at = n /\ e.field = field
    BY DEF EditField, WithRecord
  <1>2. log \in LogFile
    BY <1>1 DEF WorldTyped, log, Plain
  <1>3. rec \in Record
    <2>0. log.entries \in Seq(Envelope)
      BY <1>2 DEF LogFile
    <2>1. log.entries[n] \in Envelope
      BY <1>1, <2>0
    <2> QED
      BY <2>1 DEF Envelope
  <1>4. value \in ValuesOf(field)
    <2>1. EditValues(field) = ValuesOf(field)
      BY DEF EditValues, ValuesOf
    <2> QED
      BY <2>1
  <1>5. Put(rec, field, value) \in Record
    BY <1>3, <1>4, PutTyped
  <1>6. new \in LogFile
    BY <1>1, <1>2, <1>5, WithRecordIs
  <1> QED
    BY <1>1, <1>2, <1>3, <1>4, <1>5, <1>6

\* What spoils a log leaves a log, or none.
LEMMA SpoilIs ==
  ASSUME WorldTyped, (\E n \in Touched : SpoilEntry(n)) \/ SpoilFile
  PROVE  \E new \in LogFile \cup {None} : Befalls("changed", new) /\ wild' = TRUE /\ edits' = edits
  <1>1. log \in LogFile
    BY DEF WorldTyped, log, SpoilEntry, SpoilFile, Plain
  <1>2. log.medium \in Media /\ log.header \in Header /\ log.entries \in Seq(Envelope)
    BY <1>1, EntriesTyped
  <1>3. ASSUME NEW n \in Touched, SpoilEntry(n)
        PROVE  \E new \in LogFile \cup {None} : Befalls("changed", new) /\ wild' = TRUE /\ edits' = edits
    <2>1. n \in DOMAIN log.entries /\ n \in Nat
      BY <1>3, WriterAssumption DEF SpoilEntry
    <2>2. log.entries[n] \in Envelope
      BY <1>2, <2>1
    <2>3. entry_hash(log.entries[n].record) \in Hash
      <3>1. log.entries[n].record \in Record
        BY <2>2 DEF Envelope
      <3> QED
        BY <3>1, BodyTyped DEF entry_hash, Hash, Record
    <2>4. ASSUME NEW form \in LineForms, Spoil([log EXCEPT !.entries[n].form = form])
          PROVE  \E new \in LogFile \cup {None} : Befalls("changed", new) /\ wild' = TRUE /\ edits' = edits
      BY <1>1, <2>1, <2>4, EntriesTyped DEF Spoil
    <2>5. CASE Spoil([log EXCEPT !.entries[n].entry_hash = entry_hash(log.entries[n].record)])
      BY <1>1, <2>1, <2>3, <2>5, EntriesTyped DEF Spoil
    <2>6. CASE Spoil([log EXCEPT !.entries = SubSeq(@, 1, n - 1)])
      <3>1. SubSeq(log.entries, 1, n - 1) \in Seq(Envelope)
        BY <1>2, <2>1
      <3> QED
        BY <1>1, <2>6, <3>1, EntriesTyped DEF Spoil
    <2> QED
      BY <1>3, <2>4, <2>5, <2>6 DEF SpoilEntry
  <1>4. ASSUME SpoilFile
        PROVE  \E new \in LogFile \cup {None} : Befalls("changed", new) /\ wild' = TRUE /\ edits' = edits
    <2>1. ASSUME NEW form \in LineForms, Spoil([log EXCEPT !.header.form = form])
          PROVE  \E new \in LogFile \cup {None} : Befalls("changed", new) /\ wild' = TRUE /\ edits' = edits
      BY <1>1, <2>1, EntriesTyped DEF Spoil
    <2>2. CASE Spoil([log EXCEPT !.header.form = "absent", !.entries = <<>>])
      <3> DEFINE hdr == [log.header EXCEPT !.form = "absent"]
                 new == [log EXCEPT !.header = hdr, !.entries = <<>>]
      <3>1. hdr \in Header
        BY <1>2 DEF Header
      <3>2. new = [log EXCEPT !.header.form = "absent", !.entries = <<>>]
        BY <1>1 DEF LogFile
      <3> HIDE DEF hdr
      <3>3. new \in LogFile
        <4> DEFINE none == <<>>
        <4>1. none \in Seq(Envelope)
          OBVIOUS
        <4> HIDE DEF none
        <4>2. [log EXCEPT !.header = hdr, !.entries = none] \in LogFile
          BY <1>1, <3>1, <4>1 DEF LogFile
        <4> QED
          BY <4>2 DEF none
      <3> HIDE DEF new
      <3> QED
        BY <2>2, <3>2, <3>3 DEF Spoil
    <2>3. CASE Spoil([log EXCEPT !.medium = "undecodable"])
      BY <1>1, <2>3, EntriesTyped DEF Spoil
    <2>4. CASE Spoil(ChainFile(log.header.session_id, Bodies(log.entries), OtherKey, WriterLabel,
                               spki_fingerprint(OtherKey)))
      <3>1. log.header.session_id \in Sessions
        BY <1>2 DEF Header
      <3>2. Bodies(log.entries) \in Seq(Body)
        BY <1>2, BodiesTyped
      <3>3. OtherKey \in Keys /\ WriterLabel \in Labels /\ spki_fingerprint(OtherKey) \in Fingerprint
        BY WriterAssumption DEF spki_fingerprint, Fingerprint, Ders, SigningKeys
      <3>4. ChainFile(log.header.session_id, Bodies(log.entries), OtherKey, WriterLabel,
                      spki_fingerprint(OtherKey)) \in LogFile
        BY <3>1, <3>2, <3>3, ChainFileTyped, KeysSign
      <3> QED
        BY <2>4, <3>4 DEF Spoil
    <2>5. CASE Spoil(None)
      BY <2>5 DEF Spoil
    <2> QED
      BY <1>4, <2>1, <2>2, <2>3, <2>4, <2>5 DEF SpoilFile
  <1> QED
    BY <1>3, <1>4

\* A log that was not edited is one of the stages.
LEMMA UneditedIs ==
  ASSUME NEW h \in Histories, NEW base \in Stages(h), NEW it \in LogFile, EditedBy(base, it, {})
  PROVE  it = base
  <1>1. /\ base \in LogFile /\ base.medium = "text" /\ base.entries \in Seq(Envelope)
        /\ it.entries \in Seq(Envelope)
    BY StageIs DEF LogFile
  <1>2. /\ it.medium = "text" /\ it.header = base.header /\ Len(it.entries) = Len(base.entries)
        /\ SameBut(base.entries, it.entries, {})
    BY DEF EditedBy
  <1>3. ASSUME NEW n \in 1..Len(base.entries)
        PROVE  it.entries[n] = base.entries[n]
    <2> DEFINE a == base.entries[n]
               b == it.entries[n]
    <2>1. a \in Envelope /\ b \in Envelope
      BY <1>1, <1>2
    <2>2. /\ a.form = b.form /\ a.entry_hash = b.entry_hash /\ a.signature = b.signature
          /\ a.public_key = b.public_key
          /\ \A f \in RecordFields : Get(a.record, f) = Get(b.record, f)
      BY <1>2 DEF SameBut
    <2> HIDE DEF a, b
    <2>3. a.record \in Record /\ b.record \in Record
      BY <2>1 DEF Envelope
    <2>4. a.record = b.record
      BY <2>2, <2>3, SameFields
    <2>5. a = b
      BY <2>1, <2>2, <2>4 DEF Envelope
    <2> QED
      BY <2>5 DEF a, b
  <1>4. it.entries = base.entries
    <2> DEFINE x == it.entries
               y == base.entries
    <2>1. x \in Seq(Envelope) /\ y \in Seq(Envelope) /\ Len(x) = Len(y)
      BY <1>1, <1>2
    <2>2. \A n \in 1..Len(x) : x[n] = y[n]
      BY <1>2, <1>3
    <2> HIDE DEF x, y
    <2>3. x = y
      BY <2>1, <2>2, SeqEqual
    <2> QED
      BY <2>3 DEF x, y
  <1> QED
    BY <1>1, <1>2, <1>4 DEF LogFile

\* A stage is itself, unedited.
LEMMA StageUnedited ==
  ASSUME NEW h \in Histories, NEW base \in Stages(h)
  PROVE  EditedBy(base, base, {})
  BY StageIs, AbsenceAssumption DEF EditedBy, SameBut

\* A log that is torn is half written, and what is not torn is not.
LEMMA TornIs ==
  ASSUME NEW h \in Histories, NEW base \in Stages(h), NEW it \in LogFile, NEW made,
         EditedBy(base, it, made)
  PROVE  /\ it.entries \in Seq(Envelope) /\ it.entries # <<>> /\ Len(it.entries) \in Nat
         /\ Len(it.entries) > 0 /\ Last(it.entries) = it.entries[Len(it.entries)]
         /\ it.header.form = "object" /\ it.medium = "text"
         /\ base = HalfWritten(h) <=> Last(it.entries).form = "malformed"
         /\ \A n \in DOMAIN it.entries :
              base # HalfWritten(h) \/ n <= Len(h) => it.entries[n].form = "object"
  <1>1. /\ it.entries \in Seq(Envelope) /\ Len(it.entries) = Len(base.entries)
        /\ \A n \in 1..Len(base.entries) : it.entries[n].form = base.entries[n].form
        /\ it.header = base.header /\ it.medium = "text"
    BY DEF EditedBy, SameBut, LogFile
  <1>2. /\ base.header.form = "object"
        /\ Len(base.entries) = IF base = Genuine(h) THEN Len(h) ELSE Len(h) + 1
        /\ \A n \in 1..Len(base.entries) :
              IF base = HalfWritten(h) /\ n = Len(h) + 1
              THEN base.entries[n].form = "malformed" ELSE base.entries[n].form = "object"
    BY StageIs
  <1>3. Len(h) \in Nat /\ Len(h) > 0
    BY HistoryTyped
  <1>4. it.entries # <<>> /\ Len(it.entries) \in Nat /\ Len(it.entries) > 0
    BY <1>1, <1>2, <1>3
  <1>5. Last(it.entries) = it.entries[Len(it.entries)]
    BY <1>4 DEF Last
  <1>6. base = HalfWritten(h) => base # Genuine(h)
    <2>1. HalfWritten(h).entries[Len(h) + 1].form = "malformed" /\ Len(HalfWritten(h).entries) = Len(h) + 1
      BY HalfWrittenIs
    <2>2. Len(Genuine(h).entries) = Len(h)
      BY GenuineLogs
    <2> QED
      BY <1>3, <2>1, <2>2
  <1>7. base = HalfWritten(h) <=> Last(it.entries).form = "malformed"
    BY <1>1, <1>2, <1>3, <1>4, <1>5, <1>6
  <1>8. \A n \in DOMAIN it.entries : base # HalfWritten(h) \/ n <= Len(h) => it.entries[n].form = "object"
    BY <1>1, <1>2, <1>3, <1>4
  <1> QED
    BY <1>1, <1>2, <1>4, <1>5, <1>7, <1>8

\* The next line is begun: the log is as it was, and then half written.
LEMMA StartAppendIs ==
  ASSUME WorldTyped, StartAppend
  PROVE  /\ log = Genuine(History) /\ Befalls("appended", HalfWritten(History))
         /\ edits' = edits /\ wild' = wild /\ edits = {} /\ ~wild
  <1> DEFINE h == History
             bodies == Bodies(log.entries)
             own == spki_fingerprint(WriterKey)
  <1>1. /\ h \in Histories /\ log \in LogFile /\ edits = {} /\ ~wild /\ ~Torn
        /\ ~Ended(bodies) /\ edits' = edits /\ wild' = wild
    BY DEF WorldTyped, log, StartAppend, Plain, RefOK
  <1>2. PICK base \in Stages(h) : EditedBy(base, log, edits)
    BY <1>1 DEF WorldTyped
  <1>3. log = base
    BY <1>1, <1>2, UneditedIs
  <1>4. base # HalfWritten(h)
    <2>1. log # None /\ (base = HalfWritten(h) <=> Last(log.entries).form = "malformed")
          /\ log.entries # <<>>
      BY <1>1, <1>2, TornIs DEF EditedBy
    <2>2. Last(log.entries).form # "malformed"
      BY <1>1, <2>1 DEF Torn
    <2> QED
      BY <2>1, <2>2
  <1>5. base # Genuine(Whole(h))
    <2>1. SUFFICES ASSUME base = Genuine(Whole(h)) PROVE FALSE
      OBVIOUS
    <2>2. bodies = Whole(h)
      BY <1>1, <1>3, <2>1, StageIs
    <2>3. Last(Whole(h)) = Closing(h) /\ Whole(h) # <<>>
      BY <1>1, WholeTyped, HistoryTyped DEF Last
    <2> QED
      BY <1>1, <2>2, <2>3, WholeTyped DEF Ended
  <1>6. log = Genuine(h) /\ bodies = h
    BY <1>1, <1>3, <1>4, <1>5, StageIs DEF Stages
  <1>7. LET next == [Last(h) EXCEPT !.sequence = Len(h), !.event_type = "session_end"]
            line == EnvelopeOf(Append(h, next), Len(h) + 1, WriterKey, WriterLabel, own)
        IN  Befalls("appended",
                    [log EXCEPT !.entries = Append(@, [line EXCEPT !.form = "malformed"])])
    BY <1>6 DEF StartAppend
  <1> HIDE DEF h
  <1>8. HalfWritten(h) = [log EXCEPT !.entries = Append(@,
             [EnvelopeOf(Whole(h), Len(h) + 1, WriterKey, WriterLabel, own) EXCEPT !.form = "malformed"])]
    <2> DEFINE k == Len(h) + 1
               line == [EnvelopeOf(Whole(h), k, WriterKey, WriterLabel, own) EXCEPT !.form = "malformed"]
               new == [log EXCEPT !.entries = Append(@, line)]
               half == HalfWritten(h)
    <2>1. /\ log \in LogFile /\ log.entries \in Seq(Envelope) /\ Len(log.entries) = Len(h)
          /\ log.medium = "text" /\ log.header = Genuine(h).header
          /\ \A n \in 1..Len(h) : log.entries[n] = Genuine(h).entries[n]
      BY <1>1, <1>6, StageIs DEF Stages, h
    <2>2. /\ half \in LogFile /\ half.medium = "text" /\ half.header = Genuine(h).header
          /\ half.entries \in Seq(Envelope) /\ Len(half.entries) = k
          /\ \A n \in 1..Len(h) : half.entries[n] = Genuine(h).entries[n]
      <3>1. half \in Stages(h)
        BY DEF Stages
      <3>2. Len(half.entries) = k
        BY <1>1, HalfWrittenIs DEF h
      <3> QED
        BY <1>1, <3>1, <3>2, StageIs DEF h
    <2>3. half.entries[k] = line
      <3>1. half.entries[k] = [Genuine(Whole(h)).entries[k] EXCEPT !.form = "malformed"]
        BY <1>1, HalfWrittenIs DEF h
      <3>2. Genuine(Whole(h)).entries[k] = EnvelopeOf(Whole(h), k, WriterKey, WriterLabel, own)
        <4>1. k \in 1..Len(Whole(h))
          BY <1>1, WholeTyped, HistoryTyped DEF h
        <4> QED
          BY <1>1, <4>1, GenuineLogs DEF h
      <3> QED
        BY <3>1, <3>2
    <2>4. Len(h) \in Nat
      BY <1>1, HistoryTyped DEF h
    <2>5. line \in Envelope
      BY <2>2, <2>3, <2>4
    <2> DEFINE entries == Append(log.entries, line)
    <2> HIDE DEF line, half
    <2>6. entries = half.entries
      <3>1. /\ entries \in Seq(Envelope) /\ Len(entries) = k /\ entries[k] = line
            /\ \A n \in 1..Len(h) : entries[n] = log.entries[n]
        BY <2>1, <2>4, <2>5
      <3>2. \A n \in 1..k : n \in 1..Len(h) \/ n = k
        BY <2>4
      <3> DEFINE x == entries
                 y == half.entries
      <3>3. y \in Seq(Envelope) /\ Len(y) = k /\ \A n \in 1..k : x[n] = y[n]
        BY <2>1, <2>2, <2>3, <3>1, <3>2
      <3> HIDE DEF entries, y
      <3>4. x = y
        BY <3>1, <3>3, SeqEqual
      <3> QED
        BY <3>4 DEF y
    <2> HIDE DEF entries
    <2>7. new = [log EXCEPT !.entries = entries]
      BY DEF entries
    <2>8. half = [log EXCEPT !.entries = half.entries]
      BY <2>1, <2>2 DEF LogFile
    <2> QED
      BY <2>6, <2>7, <2>8 DEF half, line
  <1>9. Whole(h) = Append(h, [Last(h) EXCEPT !.sequence = Len(h), !.event_type = "session_end"])
    BY DEF Whole, Closing
  <1> QED
    BY <1>1, <1>6, <1>7, <1>8, <1>9 DEF h

\* The next line is whole: the log is its history, and the end of it.
LEMMA FinishAppendIs ==
  ASSUME WorldTyped, FinishAppend
  PROVE  /\ log = HalfWritten(History) /\ log' = Genuine(Whole(History))
         /\ disk' \in [{"log", "reference"} -> LogFile \cup {None}]
         /\ disk'["reference"] = disk["reference"] /\ RefOK'
         /\ edits = {} /\ ~wild /\ edits' = edits /\ wild' = wild /\ changes' = changes
         /\ during' = Worse(during, "appended") /\ UNCHANGED commandVars
  <1> DEFINE h == History
             k == Len(h) + 1
             half == HalfWritten(h)
             whole == Genuine(Whole(h))
  <1>1. /\ h \in Histories /\ log \in LogFile /\ ~wild /\ Torn
        /\ edits' = edits /\ wild' = wild /\ changes' = changes
        /\ during' = Worse(during, "appended") /\ UNCHANGED commandVars
        /\ disk' = [disk EXCEPT !["log"].entries[Len(log.entries)].form = "object"]
        /\ disk \in [{"log", "reference"} -> LogFile \cup {None}]
    BY DEF WorldTyped, log, FinishAppend, Torn, RefOK, commandVars
  <1>2. PICK base \in Stages(h) : EditedBy(base, log, edits) /\ (base = HalfWritten(h) => edits = {})
    BY <1>1 DEF WorldTyped
  <1>3. base = half
    <2>1. base = HalfWritten(h) <=> Last(log.entries).form = "malformed"
      BY <1>1, <1>2, TornIs
    <2> QED
      BY <1>1, <2>1 DEF Torn
  <1>4. edits = {} /\ log = half
    BY <1>1, <1>2, <1>3, UneditedIs
  <1>5. /\ half.entries = [whole.entries EXCEPT ![k] = [@ EXCEPT !.form = "malformed"]]
        /\ half \in LogFile /\ half.medium = "text" /\ half.header = whole.header
        /\ Len(half.entries) = k
    BY <1>1, HalfWrittenIs
  <1>6. Len(h) \in Nat /\ k \in 1..Len(Whole(h)) /\ Len(Whole(h)) = k
    BY <1>1, WholeTyped, HistoryTyped
  <1>7. /\ whole \in LogFile /\ whole.medium = "text" /\ whole.entries \in Seq(Envelope)
        /\ Len(whole.entries) = k /\ whole.entries[k].form = "object"
    BY <1>1, <1>6, GenuineLogs
  <1>8. [half EXCEPT !.entries[Len(half.entries)].form = "object"] = whole
    <2> DEFINE a == half.entries
               b == whole.entries
               c == [a EXCEPT ![k] = [a[k] EXCEPT !.form = "object"]]
    <2>1. c = b
      <3>1. b \in Seq(Envelope) /\ Len(b) = k /\ b[k].form = "object"
            /\ a = [b EXCEPT ![k] = [b[k] EXCEPT !.form = "malformed"]]
            /\ a \in Seq(Envelope) /\ Len(a) = k
        BY <1>5, <1>7 DEF LogFile
      <3>2. b[k] \in Envelope /\ k \in DOMAIN b
        BY <1>6, <3>1
      <3> HIDE DEF b, a, h
      <3>3. [[b[k] EXCEPT !.form = "malformed"] EXCEPT !.form = "object"] = b[k]
        BY <3>1, <3>2 DEF Envelope
      <3>4. a[k] = [b[k] EXCEPT !.form = "malformed"] /\ DOMAIN a = DOMAIN b
        BY <3>1, <3>2
      <3>5. c = [a EXCEPT ![k] = b[k]]
        BY <3>3, <3>4
      <3> DEFINE d == [a EXCEPT ![k] = b[k]]
      <3>6. d \in Seq(Envelope) /\ Len(d) = Len(b) /\ \A n \in 1..Len(b) : d[n] = b[n]
        BY <3>1, <3>2
      <3>7. d = b
        <4> HIDE DEF d
        <4> QED
          BY <3>1, <3>6, SeqEqual
      <3> QED
        BY <3>5, <3>7
    <2>2. [half EXCEPT !.entries[k].form = "object"] = [half EXCEPT !.entries = c]
      OBVIOUS
    <2> HIDE DEF c, half, whole, a, b
    <2>3. whole = [half EXCEPT !.entries = whole.entries]
      BY <1>5, <1>7 DEF LogFile
    <2> QED
      BY <1>5, <2>1, <2>2, <2>3 DEF b
  <1>9. disk' = [disk EXCEPT !["log"] = [log EXCEPT !.entries[Len(log.entries)].form = "object"]]
    BY <1>1 DEF log
  <1>10. disk' = [disk EXCEPT !["log"] = whole]
    BY <1>4, <1>8, <1>9
  <1> HIDE DEF whole, half
  <1>11. /\ disk' \in [{"log", "reference"} -> LogFile \cup {None}]
         /\ disk'["log"] = whole /\ disk'["reference"] = disk["reference"]
    BY <1>1, <1>7, <1>10
  <1>12. RefOK'
    BY <1>11 DEF WorldTyped, RefOK, History
  <1> QED
    BY <1>1, <1>4, <1>11, <1>12 DEF log, whole, half

\* A record that is put where it already is changes nothing.
LEMMA WithOwnRecord ==
  ASSUME NEW it \in LogFile, NEW n \in DOMAIN it.entries
  PROVE  WithRecord(it, n, it.entries[n].record) = it
  <1> DEFINE s == it.entries
             e == s[n]
             d == [s EXCEPT ![n] = [e EXCEPT !.record = e.record]]
  <1>1. s \in Seq(Envelope) /\ e \in Envelope /\ n \in DOMAIN s
    BY DEF LogFile
  <1>2. [e EXCEPT !.record = e.record] = e
    BY <1>1 DEF Envelope
  <1> HIDE DEF e
  <1>3. d = [s EXCEPT ![n] = e]
    BY <1>2
  <1>4. d = s
    <2> HIDE DEF s
    <2>1. d \in Seq(Envelope) /\ Len(d) = Len(s) /\ \A m \in 1..Len(s) : d[m] = s[m]
      BY <1>1, <1>3 DEF e
    <2> HIDE DEF d
    <2> QED
      BY <1>1, <2>1, SeqEqual
  <1>5. WithRecord(it, n, it.entries[n].record) = [it EXCEPT !.entries = d]
    BY DEF WithRecord, e
  <1>6. [it EXCEPT !.entries = it.entries] = it
    BY DEF LogFile
  <1> HIDE DEF d
  <1> QED
    BY <1>4, <1>5, <1>6

\* An edit adds one to what was edited.
LEMMA EditFieldKeeps ==
  ASSUME WorldTyped, NEW n \in Nat, NEW field \in FieldsEdited, NEW value \in EditValues(field),
         EditField(n, field, value)
  PROVE  WorldTyped'
  <1> DEFINE rec == log.entries[n].record
             put == Put(rec, field, value)
             new == WithRecord(log, n, put)
             made == [at |-> n, field |-> field, original |-> Get(rec, field), observed |-> value]
             h == History
  <1>1. /\ log \in LogFile /\ Plain /\ n \in DOMAIN log.entries
        /\ rec \in Record /\ value \in ValuesOf(field) /\ put \in Record
        /\ new \in LogFile /\ Befalls("changed", new) /\ wild' = wild
        /\ edits' = edits \cup {made}
        /\ ~\E e \in edits : e.at = n /\ e.field = field
    BY EditFieldIs
  <1>2. /\ disk' \in [{"log", "reference"} -> LogFile \cup {None}]
        /\ changes' \in 0..MaxChanges /\ during' \in {"still", "appended", "changed"}
        /\ log' = new /\ disk'["reference"] = disk["reference"] /\ RefOK'
    BY <1>1, FateIs
  <1>3. made.at = n /\ made.field = field /\ made.original = Get(rec, field) /\ made.observed = value
    OBVIOUS
  <1> HIDE DEF made
  <1>4. \A e \in edits' : e.at \in Nat /\ e.field \in FieldsEdited
    BY <1>1, <1>3 DEF WorldTyped
  <1>5. ASSUME ~wild
        PROVE  \E base \in Stages(h) :
                  EditedBy(base, new, edits \cup {made}) /\ (base = HalfWritten(h) => edits \cup {made} = {})
    <2>1. PICK base \in Stages(h) : EditedBy(base, log, edits)
      BY <1>5 DEF WorldTyped
    <2>2. h \in Histories
      BY DEF WorldTyped, RefOK
    <2>3. /\ log.entries \in Seq(Envelope) /\ log # None /\ log.medium = "text"
          /\ log.header = base.header /\ Len(log.entries) = Len(base.entries)
          /\ SameBut(base.entries, log.entries, edits)
          /\ \A e \in edits : EditOf(base.entries, log.entries, e)
      BY <1>1, <2>1 DEF EditedBy, LogFile
    <2>4. base # HalfWritten(h)
      <3>1. log.entries # <<>> /\ (base = HalfWritten(h) <=> Last(log.entries).form = "malformed")
        BY <1>1, <2>1, <2>2, TornIs
      <3>2. ~Torn
        BY <1>1 DEF Plain
      <3> QED
        BY <2>3, <3>1, <3>2 DEF Torn
    <2>5. /\ new # None /\ new.medium = "text" /\ new.header = base.header
          /\ new.entries \in Seq(Envelope) /\ Len(new.entries) = Len(base.entries)
          /\ new.entries[n].record = put /\ new.entries[n].form = log.entries[n].form
          /\ new.entries[n].entry_hash = log.entries[n].entry_hash
          /\ new.entries[n].signature = log.entries[n].signature
          /\ new.entries[n].public_key = log.entries[n].public_key
          /\ \A m \in DOMAIN log.entries : m # n => new.entries[m] = log.entries[m]
      <3>1. new # None
        BY <1>1, AbsenceAssumption
      <3> HIDE DEF put, rec
      <3>0. log \in LogFile /\ n \in DOMAIN log.entries /\ put \in Record
        BY <1>1
      <3>2. /\ new.medium = log.medium /\ new.header = log.header
            /\ new.entries \in Seq(Envelope) /\ Len(new.entries) = Len(log.entries)
            /\ new.entries[n].record = put /\ new.entries[n].form = log.entries[n].form
            /\ new.entries[n].entry_hash = log.entries[n].entry_hash
            /\ new.entries[n].signature = log.entries[n].signature
            /\ new.entries[n].public_key = log.entries[n].public_key
            /\ \A m \in DOMAIN log.entries : m # n => new.entries[m] = log.entries[m]
        BY <3>0, WithRecordIs
      <3> HIDE DEF new
      <3> QED
        BY <2>3, <3>1, <3>2
    <2>6. /\ DOMAIN log.entries = 1..Len(base.entries) /\ n \in 1..Len(base.entries)
          /\ field \in RecordFields
      BY <1>1, <2>3, FieldKinds
    <2>7. Get(put, field) = value /\ \A g \in RecordFields \ {field} : Get(put, g) = Get(rec, g)
      BY <1>1, PutTyped
    <2>8. Get(rec, field) # value
      <3>1. SUFFICES ASSUME Get(rec, field) = value PROVE FALSE
        OBVIOUS
      <3>2. \A g \in RecordFields : Get(put, g) = Get(rec, g)
        BY <2>7, <3>1
      <3>3. put = rec
        BY <1>1, <3>2, SameFields
      <3>4. new = log
        BY <1>1, <2>3, <3>3, WithOwnRecord
      <3> QED
        BY <1>1, <3>4 DEF Befalls
    <2> DEFINE more == edits \cup {made}
               ref == base.entries
               old == log.entries
               now == new.entries
    <2>9. /\ \A m \in 1..Len(ref) : m # n => now[m] = old[m]
          /\ now[n].record = put /\ old[n].record = rec /\ now[n].form = old[n].form
          /\ now[n].entry_hash = old[n].entry_hash /\ now[n].signature = old[n].signature
          /\ now[n].public_key = old[n].public_key
      BY <2>5, <2>6
    <2>10. /\ \A e \in edits : e \in more
           /\ made \in more /\ \A e \in more : e \in edits \/ e = made
      OBVIOUS
    <2> HIDE DEF put, new, more, now, old, ref, rec
    <2>11. SameBut(ref, now, more)
      <3>1. ASSUME NEW m \in 1..Len(ref)
            PROVE  /\ ref[m].form = now[m].form /\ ref[m].entry_hash = now[m].entry_hash
                   /\ ref[m].signature = now[m].signature /\ ref[m].public_key = now[m].public_key
                   /\ \A f \in RecordFields :
                        Get(ref[m].record, f) # Get(now[m].record, f) => \E e \in more : e.at = m /\ e.field = f
        <4>1. /\ ref[m].form = old[m].form /\ ref[m].entry_hash = old[m].entry_hash
              /\ ref[m].signature = old[m].signature /\ ref[m].public_key = old[m].public_key
              /\ \A f \in RecordFields :
                    Get(ref[m].record, f) # Get(old[m].record, f) => \E e \in edits : e.at = m /\ e.field = f
          BY <2>3 DEF SameBut, old, ref
        <4>2. CASE m # n
          BY <2>9, <2>10, <4>1, <4>2
        <4>3. CASE m = n
          <5>1. ASSUME NEW f \in RecordFields, Get(ref[m].record, f) # Get(now[m].record, f)
                PROVE  \E e \in more : e.at = m /\ e.field = f
            <6>1. CASE f = field
              BY <1>3, <2>10, <4>3, <6>1
            <6>2. CASE f # field
              BY <2>7, <2>9, <2>10, <4>1, <4>3, <5>1, <6>2
            <6> QED
              BY <6>1, <6>2
          <5> QED
            BY <2>9, <4>1, <4>3, <5>1
        <4> QED
          BY <4>2, <4>3
      <3> QED
        BY <3>1 DEF SameBut
    <2>12. ASSUME NEW e \in more PROVE EditOf(ref, now, e)
      <3>1. CASE e \in edits
        <4>1. /\ e.at \in 1..Len(ref) /\ e.field \in FieldsEdited
              /\ e.original = Get(ref[e.at].record, e.field)
              /\ e.observed = Get(old[e.at].record, e.field)
              /\ e.original # e.observed
          BY <2>3, <3>1 DEF EditOf, ref, old
        <4>2. Get(old[e.at].record, e.field) = Get(now[e.at].record, e.field)
          <5>1. CASE e.at # n
            BY <2>9, <4>1, <5>1
          <5>2. CASE e.at = n
            BY <1>1, <2>7, <2>9, <3>1, <4>1, <5>2, FieldKinds
          <5> QED
            BY <5>1, <5>2
        <4> QED
          BY <4>1, <4>2 DEF EditOf
      <3>2. CASE e = made
        <4>1. Get(ref[n].record, field) = Get(old[n].record, field)
          BY <1>1, <2>3, <2>6 DEF SameBut, old, ref
        <4> QED
          BY <1>3, <2>6, <2>7, <2>8, <2>9, <3>2, <4>1 DEF EditOf, ref
      <3> QED
        BY <2>10, <3>1, <3>2
    <2>13. EditedBy(base, new, more)
      BY <2>5, <2>11, <2>12 DEF EditedBy, ref, now
    <2> QED
      BY <2>4, <2>13 DEF more, new, put, rec
  <1>6. ~wild' => \E base \in Stages(h') :
                  EditedBy(base, log', edits') /\ (base = HalfWritten(h') => edits' = {})
    <2>1. h' = h
      BY <1>2 DEF History
    <2> HIDE DEF h, new, put, rec
    <2> SUFFICES ASSUME ~wild
                 PROVE  \E base \in Stages(h') :
                           EditedBy(base, log', edits') /\ (base = HalfWritten(h') => edits' = {})
      BY <1>1
    <2>2. PICK base \in Stages(h) :
             EditedBy(base, new, edits \cup {made}) /\ (base = HalfWritten(h) => edits \cup {made} = {})
      BY <1>5
    <2>3. EditedBy(base, log', edits') /\ (base = HalfWritten(h) => edits' = {})
      BY <1>1, <1>2, <2>2
    <2>4. base \in Stages(h')
      BY <2>1, <2>2
    <2>5. base = HalfWritten(h') => edits' = {}
      BY <2>1, <2>3
    <2> QED
      BY <2>3, <2>4, <2>5
  <1>7. wild' \in BOOLEAN
    BY <1>1 DEF WorldTyped
  <1> QED
    BY <1>2, <1>4, <1>6, <1>7 DEF WorldTyped

\* What befalls the log is told of in during.
WorldDoes ==
    \/ during' = "changed"
    \/ /\ during' = Worse(during, "appended")
       /\ edits = {} /\ ~wild /\ edits' = {} /\ ~wild'
       /\ \/ log = Genuine(History) /\ log' = HalfWritten(History)
          \/ log = HalfWritten(History) /\ log' = Genuine(Whole(History))

LEMMA StagesStay ==
  ASSUME disk'["reference"] = disk["reference"]
  PROVE  History' = History /\ Stages(History') = Stages(History)
         /\ HalfWritten(History') = HalfWritten(History) /\ Genuine(History') = Genuine(History)
  <1>1. History' = History
    BY DEF History
  <1> QED
    BY <1>1

LEMMA WorldKeeps ==
  ASSUME WorldTyped, World
  PROVE  /\ WorldTyped' /\ WorldDoes /\ disk'["reference"] = disk["reference"]
         /\ UNCHANGED commandVars
  <1> DEFINE Kept == /\ WorldTyped' /\ WorldDoes /\ disk'["reference"] = disk["reference"]
                     /\ UNCHANGED commandVars
  <1>0. Worse(during, "changed") = "changed"
    BY DEF Worse
  <1>1. ASSUME NEW n \in Touched, NEW field \in FieldsEdited, NEW value \in EditValues(field),
               EditField(n, field, value)
        PROVE  Kept
    <2>1. n \in Nat
      BY WriterAssumption
    <2>2. WorldTyped'
      BY <1>1, <2>1, EditFieldKeeps
    <2>3. \E new \in LogFile \cup {None} : Befalls("changed", new)
      BY <1>1, <2>1, EditFieldIs
    <2>4. during' = "changed" /\ disk'["reference"] = disk["reference"] /\ UNCHANGED commandVars
      BY <1>0, <2>3, FateIs
    <2> QED
      BY <2>2, <2>4 DEF WorldDoes
  <1>2. CASE (\E n \in Touched : SpoilEntry(n)) \/ SpoilFile
    <2>1. PICK new \in LogFile \cup {None} :
             Befalls("changed", new) /\ wild' = TRUE /\ edits' = edits
      BY <1>2, SpoilIs
    <2>2. /\ disk' \in [{"log", "reference"} -> LogFile \cup {None}]
          /\ changes' \in 0..MaxChanges /\ during' \in {"still", "appended", "changed"}
          /\ disk'["reference"] = disk["reference"] /\ RefOK'
          /\ during' = "changed" /\ UNCHANGED commandVars
      BY <1>0, <2>1, FateIs
    <2>3. WorldTyped'
      BY <2>1, <2>2 DEF WorldTyped
    <2> QED
      BY <2>2, <2>3 DEF WorldDoes
  <1>3. CASE StartAppend
    <2>1. /\ log = Genuine(History) /\ Befalls("appended", HalfWritten(History))
          /\ edits' = edits /\ wild' = wild /\ edits = {} /\ ~wild
      BY <1>3, StartAppendIs
    <2>2. History \in Histories
      BY DEF WorldTyped, RefOK
    <2>3. HalfWritten(History) \in LogFile /\ HalfWritten(History) \in Stages(History)
      BY <2>2, HalfWrittenIs DEF Stages
    <2>4. /\ disk' \in [{"log", "reference"} -> LogFile \cup {None}]
          /\ changes' \in 0..MaxChanges /\ during' \in {"still", "appended", "changed"}
          /\ disk'["reference"] = disk["reference"] /\ RefOK'
          /\ log' = HalfWritten(History)
          /\ during' = Worse(during, "appended") /\ UNCHANGED commandVars
      BY <2>1, <2>3, FateIs
    <2>5. EditedBy(HalfWritten(History), log', edits')
      BY <2>1, <2>2, <2>3, <2>4, StageUnedited
    <2>6. \E base \in Stages(History') : EditedBy(base, log', edits') /\ (base = HalfWritten(History') => edits' = {})
      <3>1. HalfWritten(History) \in Stages(History')
        BY <2>3, <2>4, StagesStay
      <3> QED
        BY <2>1, <2>5, <3>1
    <2>7. WorldTyped'
      BY <2>1, <2>4, <2>6 DEF WorldTyped
    <2> QED
      BY <2>1, <2>4, <2>7 DEF WorldDoes
  <1>4. CASE FinishAppend
    <2>1. /\ log = HalfWritten(History) /\ log' = Genuine(Whole(History))
          /\ disk' \in [{"log", "reference"} -> LogFile \cup {None}]
          /\ disk'["reference"] = disk["reference"] /\ RefOK'
          /\ edits = {} /\ ~wild /\ edits' = edits /\ wild' = wild /\ changes' = changes
          /\ during' = Worse(during, "appended") /\ UNCHANGED commandVars
      BY <1>4, FinishAppendIs
    <2>2. History \in Histories
      BY DEF WorldTyped, RefOK
    <2>3. Genuine(Whole(History)) \in Stages(History)
      BY DEF Stages
    <2>4. EditedBy(Genuine(Whole(History)), log', edits')
      BY <2>1, <2>2, <2>3, StageUnedited
    <2>5. \E base \in Stages(History') : EditedBy(base, log', edits') /\ (base = HalfWritten(History') => edits' = {})
      <3>1. Genuine(Whole(History)) \in Stages(History')
        BY <2>1, <2>3, StagesStay
      <3> QED
        BY <2>1, <2>4, <3>1
    <2>6. during' \in {"still", "appended", "changed"} /\ changes' \in 0..MaxChanges
      BY <2>1, WorseIs DEF WorldTyped
    <2>7. WorldTyped'
      BY <2>1, <2>5, <2>6 DEF WorldTyped
    <2> QED
      BY <2>1, <2>7 DEF WorldDoes
  <1> QED
    BY <1>1, <1>2, <1>3, <1>4 DEF World, FieldsEdited

\* A step of the command leaves the world as it is.
LEMMA CommandAt ==
  ASSUME CommandStep
  PROVE  todo # <<>> /\ UNCHANGED <<worldVars, during, args>>
  BY DEF CommandStep, At, Detect, Load, Verify, Explain, ReadAnchor, AnchorDetect, AnchorVerify,
         AnchorLoad, Report, Edit, Check, ReadReference, ReadTarget

LEMMA WorldStays ==
  ASSUME WorldTyped, UNCHANGED <<worldVars, during>>
  PROVE  WorldTyped'
  <1>1. /\ disk' = disk /\ changes' = changes /\ edits' = edits /\ wild' = wild /\ during' = during
    BY DEF worldVars
  <1>2. log' = log /\ History' = History
    BY <1>1 DEF log, History
  <1>3. RefOK'
    BY <1>1, <1>2 DEF RefOK, WorldTyped
  <1>4. ~wild' => \E base \in Stages(History') :
                     EditedBy(base, log', edits') /\ (base = HalfWritten(History') => edits' = {})
    BY <1>1, <1>2 DEF WorldTyped
  <1> QED
    BY <1>1, <1>3, <1>4 DEF WorldTyped

\* Where a command is does not hang on the log.
LEMMA ControlStays ==
  ASSUME Control, disk'["reference"] = disk["reference"], UNCHANGED commandVars
  PROVE  Control'
  <1>1. args' = args /\ todo' = todo /\ files' = files /\ call' = call /\ code' = code
    BY DEF commandVars
  <1>2. Position' <=> Position
    BY <1>1 DEF Position, Opening, Loading, Verifying, Explaining, Anchoring, Comparing, Reporting,
                Editing, Checking, Referring, Targeting, Unset, Reading, Command
  <1>3. Command' = Command
    BY <1>1 DEF Command
  <1> QED
    BY <1>1, <1>2, <1>3 DEF Control

LEMMA DataStays ==
  ASSUME Data, call' = call
  PROVE  Data'
  BY DEF Data

LEMMA NothingIs ==
  /\ DOMAIN Nothing = CallFields
  /\ \A f \in CallFields \ {"rows", "crashed"} : Nothing[f] = None
  /\ Nothing.rows = <<>> /\ Nothing.crashed = FALSE
  BY DEF Nothing, CallFields

LEMMA InitKeeps ==
  ASSUME Init
  PROVE  WorldTyped /\ Control /\ Data
  <1>1. PICK h \in Histories : disk = [f \in {"log", "reference"} |-> Genuine(h)]
    BY DEF Init, Genuine
  <1>2. /\ changes = 0 /\ edits = {} /\ wild = FALSE /\ during = "still"
        /\ args = None /\ todo = <<>> /\ files = <<>> /\ call = Nothing /\ code = None
    BY DEF Init
  <1>3. Genuine(h) \in LogFile /\ Bodies(Genuine(h).entries) = h
    BY GenuineLogs
  <1>4. log = Genuine(h) /\ disk["reference"] = Genuine(h) /\ History = h
    BY <1>1, <1>3 DEF log, History
  <1>5. RefOK
    BY <1>4 DEF RefOK
  <1>6. EditedBy(Genuine(h), log, {}) /\ Genuine(h) \in Stages(h)
    <2>1. Genuine(h) \in Stages(h)
      BY DEF Stages
    <2> QED
      BY <1>4, <2>1, StageUnedited
  <1>7. disk \in [{"log", "reference"} -> LogFile \cup {None}] /\ changes \in 0..MaxChanges
    BY <1>1, <1>2, <1>3, WriterAssumption
  <1>8. WorldTyped
    BY <1>2, <1>4, <1>5, <1>6, <1>7 DEF WorldTyped
  <1>9. Data
    BY <1>2, NothingIs DEF Data, CallFields
  <1>10. Control
    <2>1. files \in Seq({"log", "reference"})
      BY <1>2
    <2> QED
      BY <1>2, <2>1, NothingIs DEF Control
  <1> QED
    BY <1>8, <1>9, <1>10

\* What a sweep lists.
LEMMA ListingIs ==
  ASSUME RefOK, NEW inv \in Invocation
  PROVE  /\ Listing(inv) \in Seq({"log", "reference"})
         /\ inv.command # "verify-all" => Listing(inv) = <<"log">>
         /\ inv.command # "verify-all" \/ inv.dir = "logs" => Listing(inv) # <<>>
         /\ inv.command = "verify-all" /\ inv.dir # "logs" => Listing(inv) = <<>>
         /\ inv.command = "verify-all" /\ inv.dir = "logs" =>
              Listing(inv) = IF log = None THEN <<"reference">> ELSE <<"log", "reference">>
  <1>1. disk["reference"] # None
    BY ReferenceIs
  <1>2. ASSUME inv.command = "verify-all", inv.dir = "logs"
        PROVE  Listing(inv) = IF log = None THEN <<"reference">> ELSE <<"log", "reference">>
    <2>1. Listing(inv) = (IF log = None THEN <<>> ELSE <<"log">>) \o <<"reference">>
      BY <1>1, <1>2 DEF Listing, log
    <2>2. <<>> \o <<"reference">> = <<"reference">>
      OBVIOUS
    <2>3. <<"log">> \o <<"reference">> = <<"log", "reference">>
      <3> DEFINE x == <<"log">> \o <<"reference">>
                 y == <<"log", "reference">>
      <3>1. x \in Seq({"log", "reference"}) /\ y \in Seq({"log", "reference"}) /\ Len(x) = 2 /\ Len(y) = 2
        OBVIOUS
      <3>2. x[1] = "log" /\ x[2] = "reference" /\ y[1] = "log" /\ y[2] = "reference"
        OBVIOUS
      <3>3. \A n \in 1..2 : n = 1 \/ n = 2
        OBVIOUS
      <3> HIDE DEF x, y
      <3>4. x = y
        BY <3>1, <3>2, <3>3, SeqEqual
      <3> QED
        BY <3>4 DEF x, y
    <2> QED
      BY <2>1, <2>2, <2>3
  <1>3. inv.command # "verify-all" => Listing(inv) = <<"log">>
    BY DEF Listing
  <1>4. inv.command = "verify-all" /\ inv.dir # "logs" => Listing(inv) = <<>>
    BY DEF Listing
  <1>5. /\ <<"log">> \in Seq({"log", "reference"}) /\ <<"reference">> \in Seq({"log", "reference"})
        /\ <<"log", "reference">> \in Seq({"log", "reference"}) /\ <<>> \in Seq({"log", "reference"})
        /\ <<"log">> # <<>> /\ <<"reference">> # <<>> /\ <<"log", "reference">> # <<>>
    OBVIOUS
  <1> QED
    BY <1>2, <1>3, <1>4, <1>5

LEMMA BeginKeeps ==
  ASSUME Control, WorldTyped, NEW inv \in Invocations, Begin(inv)
  PROVE  /\ Control' /\ Data' /\ WorldTyped' /\ UNCHANGED worldVars
         /\ args = None /\ args' = inv /\ inv \in Invocation /\ inv # None
         /\ call' = Nothing /\ during' = "still" /\ files' = Listing(inv) /\ code' \in {None, 1, 2}
         /\ (code' = None => todo' = Plan(inv)) /\ (code' # None => todo' = <<>>)
         /\ code' # 2 /\ inv.command = "verify-all" => (code' = 1 <=> inv.dir = "empty") /\ inv.dir # "missing"
         /\ code' # 2 /\ inv.command \in {"verify", "verify-all"} => inv.pin # None \/ inv.trust_log_header
         /\ code' = 1 => inv.command = "verify-all"
  <1>1. /\ args = None /\ args' = inv /\ during' = "still" /\ files' = Listing(inv) /\ call' = Nothing
        /\ UNCHANGED worldVars
    BY DEF Begin
  <1>2. inv \in Invocation /\ inv # None
    BY InvocationAssumption
  <1>3. code = None
    BY <1>1 DEF Control
  <1>5. \/ code' = 2 /\ todo' = <<>>
        \/ code' = 1 /\ todo' = <<>> /\ ~Untrusted(inv) /\ inv.command = "verify-all" /\ inv.dir = "empty"
        \/ /\ code' = None /\ todo' = Plan(inv) /\ ~Untrusted(inv)
           /\ inv.command = "verify-all" => inv.dir = "logs"
    <2>1. ASSUME ~(Untrusted(inv) \/ (inv.command = "verify-all" /\ inv.dir = "missing")),
                 ~Untrusted(inv) /\ inv.command = "verify-all" /\ inv.dir = "empty"
          PROVE  code' = 1 /\ todo' = <<>>
      BY <2>1 DEF Begin
    <2>2. ASSUME ~(Untrusted(inv) \/ (inv.command = "verify-all" /\ inv.dir = "missing")),
                 ~(~Untrusted(inv) /\ inv.command = "verify-all" /\ inv.dir = "empty")
          PROVE  /\ code' = None /\ todo' = Plan(inv) /\ ~Untrusted(inv)
                 /\ inv.command = "verify-all" => inv.dir = "logs"
      <3>1. todo' = Plan(inv) /\ code' = code
        BY <2>2 DEF Begin
      <3>2. inv.dir \in {"logs", "empty", "missing"}
        BY <1>2 DEF Invocation
      <3> QED
        BY <1>3, <2>2, <3>1, <3>2
    <2>3. CASE Untrusted(inv) \/ (inv.command = "verify-all" /\ inv.dir = "missing")
      BY <2>3 DEF Begin
    <2> QED
      BY <2>1, <2>2, <2>3
  <1>6. RefOK
    BY DEF WorldTyped
  <1>7. WorldTyped'
    <2>1. /\ disk' = disk /\ changes' = changes /\ edits' = edits /\ wild' = wild /\ log' = log
          /\ History' = History
      BY <1>1 DEF worldVars, log, History
    <2>2. RefOK'
      BY <1>6, <2>1 DEF RefOK
    <2>3. ~wild' => \E base \in Stages(History') :
                     EditedBy(base, log', edits') /\ (base = HalfWritten(History') => edits' = {})
      BY <2>1 DEF WorldTyped
    <2> QED
      BY <1>1, <2>1, <2>2, <2>3 DEF WorldTyped
  <1>8. Data'
    BY <1>1, NothingIs DEF Data, CallFields
  <1>9. Control'
    <2>1. files' \in Seq({"log", "reference"}) /\ (inv.command # "verify-all" => files' = <<"log">>)
      BY <1>1, <1>2, <1>6, ListingIs
    <2>2. ASSUME code' = None
          PROVE  files' # <<>> /\ Position'
      <3>1. todo' = Plan(inv) /\ (inv.command = "verify-all" => inv.dir = "logs")
        BY <1>5, <2>2, NoneAssumption
      <3>2. files' # <<>>
        BY <1>1, <1>2, <1>6, <3>1, ListingIs
      <3>3. Command' = inv.command
        BY <1>1 DEF Command
      <3>4. \A f \in CallFields \ {"rows", "crashed"} : call'[f] = None
        BY <1>1, NothingIs
      <3>7. Unset(CallFields \ {"rows", "crashed"})'
        BY <3>4 DEF Unset
      <3>5. CASE inv.command = "diff"
        <4>1. todo' = Then("reference", TargetSteps)
          BY <1>2, <3>1, <3>5, PlanIs
        <4>2. Referring'
          BY <3>3, <3>5, <3>7, <4>1 DEF Referring
        <4> QED
          BY <3>2, <4>2 DEF Position
      <3>6. CASE inv.command # "diff"
        <4>1. todo' = Then("detect", AfterDetect(args'))
          BY <1>1, <1>2, <3>1, <3>6, PlanIs
        <4>2. Opening'
          BY <3>3, <3>6, <3>7, <4>1 DEF Opening
        <4> QED
          BY <3>2, <4>2 DEF Position
      <3> QED
        BY <3>2, <3>5, <3>6
    <2>3. code' \in {None, 0, 1, 2} /\ (code' # None => todo' = <<>>)
      BY <1>5
    <2>4. DOMAIN call' = CallFields
      BY <1>1, NothingIs
    <2>5. Command' = inv.command
      BY <1>1 DEF Command
    <2> QED
      BY <1>1, <1>2, <2>1, <2>2, <2>3, <2>4, <2>5 DEF Control
  <1>10. code' \in {None, 1, 2} /\ (code' = None => todo' = Plan(inv)) /\ (code' # None => todo' = <<>>)
    BY <1>5, NoneAssumption
  <1>11. code' # 2 /\ inv.command = "verify-all" => (code' = 1 <=> inv.dir = "empty") /\ inv.dir # "missing"
    BY <1>5, NoneAssumption
  <1>12. code' # 2 /\ inv.command \in {"verify", "verify-all"} => inv.pin # None \/ inv.trust_log_header
    BY <1>5 DEF Untrusted
  <1> QED
    BY <1>1, <1>2, <1>5, <1>7, <1>8, <1>9, <1>10, <1>11, <1>12, NoneAssumption

-----------------------------------------------------------------------------
\* What each step of a command does to what it has found out.
Only(fields) == \A f \in CallFields \ fields : call'[f] = call[f]

Crashed ==
    call'.crashed = TRUE /\ code' = 1 /\ todo' = <<>> /\ files' = files /\ Only({"crashed"})

Goes == code' = code /\ files' = files

LEMMA CrashSays ==
  ASSUME Control, Crash
  PROVE  Crashed
  <1> DEFINE found == [call EXCEPT !.crashed = TRUE]
  <1>1. todo' = <<>> /\ code' = 1 /\ call' = found /\ files' = files
    BY DEF Crash, Exit
  <1>2. found.crashed = TRUE /\ \A f \in CallFields \ {"crashed"} : found[f] = call[f]
    BY DEF Control, CallFields
  <1> HIDE DEF found
  <1> QED
    BY <1>1, <1>2 DEF Crashed, Only

LEMMA RowSays ==
  ASSUME Control, NEW ok, NEW reason, Row(ok, reason)
  PROVE  /\ Only({"rows"}) /\ files' = Tail(files)
         /\ call'.rows = Append(call.rows, [file |-> Head(files), ok |-> ok, reason |-> reason])
         /\ Tail(files) # <<>> => code' = code
         /\ Tail(files) = <<>> => code' = IF \A r \in ToSet(call'.rows) : r.ok THEN 0 ELSE 1
  <1> DEFINE rows  == Append(call.rows, [file |-> Head(files), ok |-> ok, reason |-> reason])
             found == [call EXCEPT !.rows = rows]
  <1>1. /\ files' = Tail(files) /\ call' = found
        /\ Tail(files) # <<>> => code' = code
        /\ Tail(files) = <<>> => code' = IF \A r \in ToSet(rows) : r.ok THEN 0 ELSE 1
    BY DEF Row
  <1> HIDE DEF rows
  <1>2. found.rows = rows /\ \A f \in CallFields \ {"rows"} : found[f] = call[f]
    BY DEF Control, CallFields
  <1> HIDE DEF found
  <1> QED
    BY <1>1, <1>2 DEF Only, rows

LEMMA DetectSays ==
  ASSUME Control, Detect, disk[Head(files)] \in LogFile \cup {None}
  PROVE  \/ call' = call /\ Goes
         \/ /\ Command = "verify-all" /\ Row(FALSE, "UnknownVersionError")
            /\ "UnknownVersionError" \in DetectVersion(disk[Head(files)], VERSION_V0)
         \/ call' = call /\ files' = files /\ code' = Refusal /\ Command # "verify-all"
         \/ Crashed
  <1>1. PICK v \in DetectVersion(disk[Head(files)], VERSION_V0) :
                   CASE v = VERSION_V0 -> Proceed(call)
                     [] v = "UnknownVersionError" ->
                          IF Command = "verify-all" THEN Row(FALSE, v) ELSE Exit(Refusal, call)
                     [] v = "UnicodeDecodeError" -> Crash
    BY DEF Detect
  <1>2. v \in {VERSION_V0, "UnknownVersionError", "UnicodeDecodeError"}
    BY DetectAnswers
  <1>3. \/ Proceed(call)
        \/ /\ Command = "verify-all" /\ Row(FALSE, "UnknownVersionError")
           /\ "UnknownVersionError" \in DetectVersion(disk[Head(files)], VERSION_V0)
        \/ Command # "verify-all" /\ Exit(Refusal, call)
        \/ Crash
    BY <1>1, <1>2
  <1>4. Crash => Crashed
    BY CrashSays
  <1> QED
    BY <1>3, <1>4 DEF Proceed, Go, Exit, Goes

LEMMA LoadSays ==
  ASSUME Control, Load
  PROVE  \/ /\ Loads(log) /\ call'.loaded = log /\ Only({"loaded"}) /\ Goes
            /\ Command = "tamper" => log.entries # <<>>
         \/ call' = call /\ files' = files /\ code' = Refusal
         \/ Crashed
  <1> DEFINE found == [call EXCEPT !.loaded = log]
  <1>1. \/ Loads(log) /\ Proceed(found) /\ (Command = "tamper" => log.entries # <<>>)
        \/ Exit(Refusal, call)
        \/ Crash
    BY DEF Load
  <1>2. found.loaded = log /\ \A f \in CallFields \ {"loaded"} : found[f] = call[f]
    BY DEF Control, CallFields
  <1> HIDE DEF found
  <1>3. Crash => Crashed
    BY CrashSays
  <1> QED
    BY <1>1, <1>2, <1>3 DEF Proceed, Go, Exit, Goes, Only

LEMMA VerifySays ==
  ASSUME Control, Verify
  PROVE  \/ \E r \in Outcomes(disk[Head(files)], Pins) :
               /\ r # Raised
               /\ \/ /\ Command = "verify-all"
                     /\ \E reason \in {r.reason, "not-ended"} :
                           Row(r.ok /\ ~(args.require_ended /\ ~r.ended), reason)
                  \/ /\ Command # "verify-all" /\ files' = files
                     /\ call'.verdict = r /\ call'.judged = disk[Head(files)]
                     /\ Only({"verdict", "judged"})
                     /\ IF Command = "tamper" /\ ~r.ok THEN code' = 2 ELSE code' = code
         \/ Crashed
  <1> DEFINE it == disk[Head(files)]
             Found(r) == [call EXCEPT !.verdict = r, !.judged = it]
  <1>1. PICK r \in Outcomes(it, Pins) :
           CASE r = Raised -> Crash
             [] r # Raised /\ Command = "verify-all" ->
                  Row(r.ok /\ ~(args.require_ended /\ ~r.ended),
                      IF r.ok /\ (args.require_ended /\ ~r.ended) THEN "not-ended" ELSE r.reason)
             [] r # Raised /\ Command = "tamper" /\ ~r.ok -> Exit(2, Found(r))
             [] OTHER -> Proceed(Found(r))
    BY DEF Verify
  <1>2. CASE r = Raised
    BY <1>1, <1>2, CrashSays
  <1>3. CASE r # Raised /\ Command = "verify-all"
    BY <1>1, <1>3
  <1>4. CASE r # Raised /\ Command # "verify-all"
    <2>1. IF Command = "tamper" /\ ~r.ok THEN Exit(2, Found(r)) ELSE Proceed(Found(r))
      BY <1>1, <1>4
    <2>2. /\ Found(r).verdict = r /\ Found(r).judged = it
          /\ \A f \in CallFields \ {"verdict", "judged"} : Found(r)[f] = call[f]
      <3> HIDE DEF it
      <3> QED
        BY DEF Control, CallFields
    <2> DEFINE found == Found(r)
    <2>3. /\ found.verdict = r /\ found.judged = it
          /\ \A f \in CallFields \ {"verdict", "judged"} : found[f] = call[f]
          /\ IF Command = "tamper" /\ ~r.ok THEN Exit(2, found) ELSE Proceed(found)
      BY <2>1, <2>2
    <2> HIDE DEF found, it, Found
    <2>4. /\ call' = found /\ files' = files
          /\ IF Command = "tamper" /\ ~r.ok THEN code' = 2 ELSE code' = code
      BY <2>3 DEF Exit, Proceed, Go
    <2>5. /\ call'.verdict = r /\ call'.judged = it /\ Only({"verdict", "judged"})
      BY <2>3, <2>4 DEF Only
    <2> QED
      BY <1>1, <1>4, <2>4, <2>5 DEF it
  <1> QED
    BY <1>2, <1>3, <1>4

\* What an anchor of another type is answered with.
Denied == AnchorResult(FALSE, "not an anchor", 0, 0)

LEMMA ExplainSays ==
  ASSUME Control, Explain
  PROVE  \/ call' = call /\ Goes
         \/ /\ ToExplain /\ Only({"explained"}) /\ Goes
            /\ LET key_id == IF Command = "export" THEN call.loaded.header.key_id
                             ELSE call.verdict.key_id
               IN  \E x \in Explanations(log, call.verdict.broken_index + 1, key_id) :
                      x # Raised /\ call'.explained = x
         \/ Crashed
  <1> DEFINE key_id == IF Command = "export" THEN call.loaded.header.key_id ELSE call.verdict.key_id
             Xs == Explanations(log, call.verdict.broken_index + 1, key_id)
  <1>1. \/ Crash
        \/ Proceed(call)
        \/ ToExplain /\ \E x \in Xs : x # Raised /\ Proceed([call EXCEPT !.explained = x])
    BY DEF Explain
  <1> HIDE DEF Xs
  <1>2. ASSUME ToExplain, NEW x \in Xs, x # Raised, Proceed([call EXCEPT !.explained = x])
        PROVE  /\ ToExplain /\ Only({"explained"}) /\ Goes
               /\ \E y \in Xs : y # Raised /\ call'.explained = y
    <2> DEFINE found == [call EXCEPT !.explained = x]
    <2>1. found.explained = x /\ \A f \in CallFields \ {"explained"} : found[f] = call[f]
      BY DEF Control, CallFields
    <2>2. Proceed(found)
      BY <1>2
    <2> HIDE DEF found
    <2> QED
      BY <1>2, <2>1, <2>2 DEF Proceed, Go, Goes, Only
  <1>3. Crash => Crashed
    BY CrashSays
  <1>4. Proceed(call) => call' = call /\ Goes
    BY DEF Proceed, Go, Goes
  <1> QED
    BY <1>1, <1>2, <1>3, <1>4 DEF Xs

LEMMA ReadAnchorSays ==
  ASSUME Control, ReadAnchor
  PROVE  \/ call' = call /\ Goes /\ args.anchor = "published"
         \/ args.anchor = "other-type" /\ call'.anchor = Denied /\ Only({"anchor"}) /\ Goes
         \/ Crashed
  <1>1. todo # <<>> /\ Head(todo) = "anchor"
    BY DEF ReadAnchor, At
  <1>2. args \in Invocation /\ Anchoring
    BY <1>1, WhereIs
  <1>3. args.anchor \in {"published", "other-type", "unreadable"}
    BY <1>2 DEF Anchoring, Invocation
  <1> DEFINE found == [call EXCEPT !.anchor = Denied]
  <1>4. \/ Crash
        \/ args.anchor = "other-type" /\ Go(<<"report">>, found)
        \/ args.anchor = "published" /\ Proceed(call)
    <2> HIDE DEF found
    <2>1. CASE args.anchor = "unreadable"
      BY <2>1 DEF ReadAnchor
    <2>2. CASE args.anchor = "published"
      BY <2>2 DEF ReadAnchor
    <2>3. CASE args.anchor = "other-type"
      BY <2>3, Zenon DEF ReadAnchor, Denied, found
    <2> QED
      BY <1>3, <2>1, <2>2, <2>3
  <1>5. found.anchor = Denied /\ \A f \in CallFields \ {"anchor"} : found[f] = call[f]
    BY DEF Control, CallFields
  <1> HIDE DEF found
  <1>6. Crash => Crashed
    BY CrashSays
  <1> QED
    BY <1>4, <1>5, <1>6 DEF Proceed, Go, Goes, Only

LEMMA AnchorDetectSays ==
  ASSUME Control, AnchorDetect
  PROVE  (call' = call /\ Goes) \/ Crashed
  <1>1. Proceed(call) \/ Crash
    BY DEF AnchorDetect
  <1> QED
    BY <1>1, CrashSays DEF Proceed, Go, Goes

LEMMA AnchorVerifySays ==
  ASSUME Control, AnchorVerify
  PROVE  \/ /\ Only({"checked"}) /\ Goes
            /\ \E r \in Outcomes(log, Unpinned) : r # Raised /\ call'.checked = r
         \/ Crashed
  <1>1. PICK r \in Outcomes(log, Unpinned) :
           IF r = Raised THEN Crash ELSE Proceed([call EXCEPT !.checked = r])
    BY DEF AnchorVerify
  <1>2. CASE r = Raised
    BY <1>1, <1>2, CrashSays
  <1>3. CASE r # Raised
    <2> DEFINE found == [call EXCEPT !.checked = r]
    <2>1. found.checked = r /\ \A f \in CallFields \ {"checked"} : found[f] = call[f]
      BY DEF Control, CallFields
    <2>2. Proceed(found)
      BY <1>1, <1>3
    <2> HIDE DEF found
    <2> QED
      BY <1>3, <2>1, <2>2 DEF Proceed, Go, Goes, Only
  <1> QED
    BY <1>2, <1>3

LEMMA AnchorLoadSays ==
  ASSUME Control, AnchorLoad, RefOK, Data, log \in LogFile \cup {None}
  PROVE  \/ /\ Loads(log) /\ log \in LogFile /\ Comparing /\ call.checked \in VerifyResult
            /\ Published \in Token /\ Only({"loaded", "anchor"}) /\ Goes
            /\ call'.loaded = log /\ call'.anchor = Compared(call.checked, log, Published)
            /\ call'.anchor \in AnchorAnswer
         \/ Crashed
  <1> DEFINE a == Compared(call.checked, log, Published)
             found == [call EXCEPT !.loaded = log, !.anchor = a]
  <1>1. \/ Crash
        \/ /\ Go(ReportSteps, found) /\ Loads(log) /\ log \in LogFile /\ Comparing
           /\ call.checked \in VerifyResult /\ Published \in Token
           /\ found.anchor \in AnchorAnswer /\ found.loaded = log
           /\ \A f \in CallFields \ {"loaded", "anchor"} : found[f] = call[f]
    BY AnchorLoadIs
  <1> HIDE DEF a
  <1>2. found.anchor = a
    BY DEF Control, CallFields
  <1>3. Crash => Crashed
    BY CrashSays
  <1> HIDE DEF found
  <1> QED
    BY <1>1, <1>2, <1>3 DEF Go, Goes, Only, a

LEMMA ReportSays ==
  ASSUME Control, Report
  PROVE  /\ Reporting /\ call'.report = ShownNow /\ Only({"report"})
         /\ code' = PrintedNow.code /\ code' \in {0, 1} /\ files' = files
  <1>1. /\ Reporting
        /\ PrintedNow.code \in {0, 1} /\ Exit(PrintedNow.code, FoundNow)
        /\ FoundNow.report = ShownNow
        /\ \A f \in CallFields \ {"report"} : FoundNow[f] = call[f]
    BY ReportIs
  <1> QED
    BY <1>1 DEF Exit, Only

LEMMA EditSays ==
  ASSUME Control, Edit, log \in LogFile \cup {None}
  PROVE  \/ /\ Editing /\ log \in LogFile /\ Goes
            /\ LET n == Chosen(call.loaded.entries)
                   e == log.entries[n]
               IN  /\ n \in DOMAIN log.entries /\ log.medium = "text"
                   /\ \/ e.form = "malformed" /\ call'.copy = log /\ Only({"copy"})
                      \/ /\ e.form = "object" /\ e.record \in Record
                         /\ e.record.payload \notin Unencodable
                         /\ \E v \in ValuesOf(args.field) :
                               LET was  == Get(e.record, args.field)
                                   copy == WithRecord(log, n, Put(e.record, args.field, v))
                               IN  /\ v # was /\ args.field \in FieldsEdited \ {"signer_key_id", "rest"}
                                   /\ Put(e.record, args.field, v) \in Record
                                   /\ copy \in LogFile
                                   /\ call'.copy = copy
                                   /\ call'.made = FieldChange(args.field, was, v)
                                   /\ Only({"copy", "made"})
         \/ Crashed
  <1> DEFINE n == Chosen(call.loaded.entries)
             e == log.entries[n]
             was == Get(e.record, args.field)
             Copy(v) == WithRecord(log, n, Put(e.record, args.field, v))
             Made(v) == FieldChange(args.field, was, v)
  <1>1. \/ Crash
        \/ /\ Editing /\ log \in LogFile
           /\ n \in DOMAIN log.entries /\ log.medium = "text"
           /\ \/ e.form = "malformed" /\ Proceed([call EXCEPT !.copy = log])
              \/ /\ e.form = "object" /\ e.record \in Record
                 /\ e.record.payload \notin Unencodable
                 /\ \E v \in ValuesOf(args.field) :
                       /\ v # was /\ args.field \in FieldsEdited \ {"signer_key_id", "rest"}
                       /\ Put(e.record, args.field, v) \in Record
                       /\ Copy(v) \in LogFile
                       /\ Proceed([call EXCEPT !.copy = Copy(v), !.made = Made(v)])
    BY EditIs
  <1>2. Crash => Crashed
    BY CrashSays
  <1>3. ASSUME NEW c, NEW m, Proceed([call EXCEPT !.copy = c, !.made = m])
        PROVE  call'.copy = c /\ call'.made = m /\ Only({"copy", "made"}) /\ Goes
    <2> DEFINE found == [call EXCEPT !.copy = c, !.made = m]
    <2>1. /\ found.copy = c /\ found.made = m
          /\ \A f \in CallFields \ {"copy", "made"} : found[f] = call[f]
      BY DEF Control, CallFields
    <2>2. Proceed(found)
      BY <1>3
    <2> HIDE DEF found
    <2> QED
      BY <2>1, <2>2 DEF Proceed, Go, Goes, Only
  <1>4. ASSUME Proceed([call EXCEPT !.copy = log])
        PROVE  call'.copy = log /\ Only({"copy"}) /\ Goes
    <2> DEFINE found == [call EXCEPT !.copy = log]
    <2>1. found.copy = log /\ \A f \in CallFields \ {"copy"} : found[f] = call[f]
      BY DEF Control, CallFields
    <2>2. Proceed(found)
      BY <1>4
    <2> HIDE DEF found
    <2> QED
      BY <2>1, <2>2 DEF Proceed, Go, Goes, Only
  <1> HIDE DEF Copy, Made, e, n, was
  <1>5. \/ Crashed
        \/ /\ Editing /\ log \in LogFile /\ Goes
           /\ n \in DOMAIN log.entries /\ log.medium = "text"
           /\ \/ e.form = "malformed" /\ call'.copy = log /\ Only({"copy"})
              \/ /\ e.form = "object" /\ e.record \in Record
                 /\ e.record.payload \notin Unencodable
                 /\ \E v \in ValuesOf(args.field) :
                       /\ v # was /\ args.field \in FieldsEdited \ {"signer_key_id", "rest"}
                       /\ Put(e.record, args.field, v) \in Record
                       /\ Copy(v) \in LogFile
                       /\ call'.copy = Copy(v) /\ call'.made = Made(v) /\ Only({"copy", "made"})
    BY <1>1, <1>2, <1>3, <1>4
  <1> QED
    BY <1>5 DEF Copy, Made, e, n, was

LEMMA CheckSays ==
  ASSUME Control, Check
  PROVE  \/ /\ files' = files
            /\ \E r \in Outcomes(call.copy, Unpinned) :
                  /\ r # Raised
                  /\ \/ r.ok /\ call' = call /\ code' = 1
                     \/ /\ ~r.ok /\ code' = 0 /\ call'.verdict = r /\ Only({"verdict", "explained"})
                        /\ \E x \in Explanations(call.copy, Chosen(call.loaded.entries),
                                                 call.loaded.header.key_id) :
                              x # Raised /\ call'.explained = x
         \/ Crashed
  <1> DEFINE Xs == Explanations(call.copy, Chosen(call.loaded.entries), call.loaded.header.key_id)
             Rs == Outcomes(call.copy, Unpinned)
  <1>1. PICK r \in Rs :
           CASE r = Raised -> Crash
             [] r # Raised /\ r.ok -> Exit(1, call)
             [] OTHER -> \E x \in Xs : IF x = Raised THEN Crash
                                       ELSE Exit(0, [call EXCEPT !.verdict = r, !.explained = x])
    BY DEF Check
  <1> HIDE DEF Xs
  <1>2. CASE r = Raised
    BY <1>1, <1>2, CrashSays
  <1>3. CASE r # Raised /\ r.ok
    BY <1>1, <1>3 DEF Exit
  <1>4. CASE r # Raised /\ ~r.ok
    <2>1. PICK x \in Xs : IF x = Raised THEN Crash
                          ELSE Exit(0, [call EXCEPT !.verdict = r, !.explained = x])
      BY <1>1, <1>4
    <2>2. CASE x = Raised
      BY <2>1, <2>2, CrashSays
    <2>3. CASE x # Raised
      <3> DEFINE found == [call EXCEPT !.verdict = r, !.explained = x]
      <3>1. /\ found.verdict = r /\ found.explained = x
            /\ \A f \in CallFields \ {"verdict", "explained"} : found[f] = call[f]
        BY DEF Control, CallFields
      <3>2. Exit(0, found)
        BY <2>1, <2>3
      <3> HIDE DEF found
      <3>3. /\ code' = 0 /\ files' = files /\ call'.verdict = r /\ call'.explained = x
            /\ Only({"verdict", "explained"})
        BY <3>1, <3>2 DEF Exit, Only
      <3> QED
        BY <1>1, <1>4, <2>3, <3>3 DEF Xs
    <2> QED
      BY <2>2, <2>3
  <1> QED
    BY <1>2, <1>3, <1>4

LEMMA ReadReferenceSays ==
  ASSUME Control, ReadReference
  PROVE  call'.loaded = disk["reference"] /\ Only({"loaded"}) /\ Goes /\ Referring
  <1> DEFINE ref == disk["reference"]
             found == [call EXCEPT !.loaded = ref]
  <1>1. Proceed(found) /\ Referring
    <2>1. todo # <<>> /\ Head(todo) = "reference"
      BY DEF ReadReference, At
    <2> QED
      BY <2>1, WhereIs DEF ReadReference
  <1> HIDE DEF ref
  <1>2. found.loaded = ref /\ \A f \in CallFields \ {"loaded"} : found[f] = call[f]
    BY DEF Control, CallFields
  <1> HIDE DEF found
  <1> QED
    BY <1>1, <1>2 DEF Proceed, Go, Goes, Only, ref

LEMMA ReadTargetSays ==
  ASSUME Control, ReadTarget
  PROVE  /\ Targeting
         /\ \/ /\ Loads(log) /\ files' = files /\ Only({"report", "judged"})
               /\ call'.report = diff_chains(call.loaded, log) /\ call'.judged = log
               /\ code' = IF diff_chains(call.loaded, log).identical THEN 0 ELSE 1
            \/ call' = call /\ files' = files /\ code' \in {0, 1}
            \/ Crashed
  <1> DEFINE d == diff_chains(call.loaded, log)
             found == [call EXCEPT !.report = d, !.judged = log]
  <1>1. Targeting
    <2>1. todo # <<>> /\ Head(todo) = "target"
      BY DEF ReadTarget, At
    <2> QED
      BY <2>1, WhereIs
  <1>2. \/ Loads(log) /\ Exit(IF d.identical THEN 0 ELSE 1, found)
        \/ \E status \in {0, 1} : Exit(status, call)
        \/ Crash
    BY DEF ReadTarget
  <1> HIDE DEF d
  <1>3. /\ found.report = d /\ found.judged = log
        /\ \A f \in CallFields \ {"report", "judged"} : found[f] = call[f]
    BY DEF Control, CallFields
  <1> HIDE DEF found
  <1>4. Crash => Crashed
    BY CrashSays
  <1> QED
    BY <1>1, <1>2, <1>3, <1>4 DEF Exit, Only, d

\* The files that are read, and the types of what is kept of them.
LEMMA FileTyped ==
  ASSUME WorldTyped, Control, todo # <<>>
  PROVE  /\ Head(files) \in {"log", "reference"} /\ disk[Head(files)] \in LogFile \cup {None}
         /\ log \in LogFile \cup {None}
         /\ Command # "verify-all" => disk[Head(files)] = log
  <1>1. files # <<>> /\ args # None
    BY WhereIs
  <1>2. Head(files) \in {"log", "reference"}
    BY <1>1 DEF Control
  <1>3. Command # "verify-all" => files = <<"log">>
    BY <1>1 DEF Control
  <1>4. files = <<"log">> => Head(files) = "log"
    OBVIOUS
  <1> QED
    BY <1>2, <1>3, <1>4 DEF WorldTyped, log

DataFields == {"judged", "loaded", "copy", "verdict", "checked", "anchor"}

LEMMA StepKeeps ==
  ASSUME WorldTyped, Control, Data, CommandStep
  PROVE  Control' /\ Data'
  <1>0. /\ todo # <<>> /\ disk[Head(files)] \in LogFile \cup {None} /\ log \in LogFile \cup {None}
        /\ RefOK
    BY CommandAt, FileTyped DEF WorldTyped
  <1>1. ASSUME NEW fields, Only(fields), \A f \in DataFields \cap fields :
                  /\ f \in {"judged", "loaded", "copy"} => call'[f] \in LogFile \cup {None}
                  /\ f \in {"verdict", "checked"} => call'[f] \in VerifyResult \cup {None}
                  /\ f = "anchor" => call'[f] \in AnchorAnswer \cup {None}
        PROVE  Data'
    <2>1. \A f \in DataFields : call'[f] = call[f] \/ f \in DataFields \cap fields
      BY <1>1 DEF Only, DataFields, CallFields
    <2>2. /\ \A f \in {"judged", "loaded", "copy"} : call'[f] \in LogFile \cup {None}
          /\ \A f \in {"verdict", "checked"} : call'[f] \in VerifyResult \cup {None}
          /\ call'.anchor \in AnchorAnswer \cup {None}
      BY <1>1, <2>1 DEF Data, DataFields
    <2> QED
      BY <2>2 DEF Data
  <1>2. Crashed => Data'
    BY <1>1 DEF Crashed, DataFields
  <1>3. call' = call => Data'
    BY DataStays
  <1>4. \A ok, reason : Row(ok, reason) => Data'
    BY <1>1, RowSays DEF DataFields
  <1>5. CASE Detect
    BY <1>0, <1>2, <1>3, <1>4, <1>5, DetectSays, DetectKeeps
  <1>6. CASE Load
    <2>1. Control'
      BY <1>0, <1>6, LoadKeeps, AbsenceAssumption
    <2>2. call'.loaded = log /\ Only({"loaded"}) => Data'
      BY <1>0, <1>1 DEF DataFields
    <2> QED
      BY <1>2, <1>3, <1>6, <2>1, <2>2, LoadSays
  <1>7. CASE Verify
    <2>1. Control'
      BY <1>0, <1>7, VerifyKeeps, OutcomeIs
    <2>2. ASSUME NEW r \in Outcomes(disk[Head(files)], Pins), r # Raised,
                 call'.verdict = r, call'.judged = disk[Head(files)], Only({"verdict", "judged"})
          PROVE  Data'
      <3>1. r \in VerifyResult
        BY <1>0, <2>2, OutcomeIs
      <3> QED
        BY <1>0, <1>1, <2>2, <3>1 DEF DataFields
    <2> QED
      BY <1>2, <1>4, <1>7, <2>1, <2>2, VerifySays
  <1>8. CASE Explain
    <2>1. Only({"explained"}) => Data'
      BY <1>1 DEF DataFields
    <2> QED
      BY <1>2, <1>3, <1>8, <2>1, ExplainSays, ExplainKeeps
  <1>9. CASE ReadAnchor
    <2>1. Denied \in AnchorAnswer
      BY NotAnAnchor DEF Denied
    <2>2. call'.anchor = Denied /\ Only({"anchor"}) => Data'
      BY <1>1, <2>1 DEF DataFields
    <2> QED
      BY <1>2, <1>3, <1>9, <2>2, ReadAnchorSays, ReadAnchorKeeps
  <1>10. CASE AnchorDetect
    BY <1>2, <1>3, <1>10, AnchorDetectSays, AnchorDetectKeeps
  <1>11. CASE AnchorVerify
    <2>1. ASSUME NEW r \in Outcomes(log, Unpinned), r # Raised, call'.checked = r, Only({"checked"})
          PROVE  Data'
      <3>1. r \in VerifyResult
        BY <1>0, <2>1, OutcomeIs
      <3> QED
        BY <1>1, <2>1, <3>1 DEF DataFields
    <2> QED
      BY <1>0, <1>2, <1>11, <2>1, AnchorVerifySays, AnchorVerifyKeeps
  <1>12. CASE AnchorLoad
    <2>1. ASSUME log \in LogFile, call'.loaded = log, call'.anchor \in AnchorAnswer,
                 Only({"loaded", "anchor"})
          PROVE  Data'
      BY <1>1, <2>1 DEF DataFields
    <2> QED
      BY <1>0, <1>2, <1>12, <2>1, AnchorLoadSays, AnchorLoadKeeps
  <1>13. CASE Report
    <2>1. Only({"report"}) => Data'
      BY <1>1 DEF DataFields
    <2> QED
      BY <1>13, <2>1, ReportSays, ReportKeeps
  <1>14. CASE Edit
    <2>1. ASSUME NEW c \in LogFile, call'.copy = c, Only({"copy"}) \/ Only({"copy", "made"})
          PROVE  Data'
      BY <1>1, <2>1 DEF DataFields
    <2>2. (\E c \in LogFile : call'.copy = c /\ (Only({"copy"}) \/ Only({"copy", "made"}))) \/ Crashed
      BY <1>0, <1>14, EditSays
    <2> QED
      BY <1>0, <1>2, <1>14, <2>1, <2>2, EditKeeps
  <1>15. CASE Check
    <2>1. ASSUME NEW r \in Outcomes(call.copy, Unpinned), r # Raised, call'.verdict = r,
                 Only({"verdict", "explained"})
          PROVE  Data'
      <3>1. call.copy \in LogFile \cup {None}
        BY DEF Data
      <3>2. r \in VerifyResult
        BY <2>1, <3>1, OutcomeIs
      <3> QED
        BY <1>1, <2>1, <3>2 DEF DataFields
    <2> QED
      BY <1>2, <1>3, <1>15, <2>1, CheckSays, CheckKeeps
  <1>16. CASE ReadReference
    <2>1. disk["reference"] \in LogFile
      BY <1>0, ReferenceIs
    <2>2. call'.loaded = disk["reference"] /\ Only({"loaded"}) => Data'
      BY <1>1, <2>1 DEF DataFields
    <2> QED
      BY <1>16, <2>2, ReadReferenceSays, ReadReferenceKeeps
  <1>17. CASE ReadTarget
    <2>1. call'.judged = log /\ Only({"report", "judged"}) => Data'
      BY <1>0, <1>1 DEF DataFields
    <2> QED
      BY <1>2, <1>3, <1>17, <2>1, ReadTargetSays, ReadTargetKeeps
  <1> QED
    BY <1>5, <1>6, <1>7, <1>8, <1>9, <1>10, <1>11, <1>12, <1>13, <1>14, <1>15, <1>16, <1>17
    DEF CommandStep

Base == WorldTyped /\ Control /\ Data

LEMMA BaseInit == Init => Base
  BY InitKeeps DEF Base

LEMMA BaseNext ==
  ASSUME Base, [Next]_vars
  PROVE  Base'
  <1>1. WorldTyped /\ Control /\ Data
    BY DEF Base
  <1>2. CASE code = None /\ World
    <2>1. WorldTyped' /\ disk'["reference"] = disk["reference"] /\ UNCHANGED commandVars
      BY <1>1, <1>2, WorldKeeps
    <2>2. Control' /\ Data'
      BY <1>1, <2>1, ControlStays, DataStays DEF commandVars
    <2> QED
      BY <2>1, <2>2 DEF Base
  <1>3. ASSUME NEW inv \in Invocations, Begin(inv) PROVE Base'
    BY <1>1, <1>3, BeginKeeps DEF Base
  <1>4. CASE CommandStep
    <2>1. WorldTyped'
      BY <1>1, <1>4, CommandAt, WorldStays
    <2> QED
      BY <1>1, <1>4, <2>1, StepKeeps DEF Base
  <1>5. CASE UNCHANGED vars
    <2>1. UNCHANGED worldVars /\ during' = during /\ UNCHANGED commandVars
      BY <1>5 DEF vars, commandVars
    <2>2. WorldTyped'
      BY <1>1, <2>1, WorldStays
    <2>3. Control' /\ Data'
      BY <1>1, <2>1, ControlStays, DataStays DEF commandVars, worldVars
    <2> QED
      BY <2>2, <2>3 DEF Base
  <1> QED
    BY <1>2, <1>3, <1>4, <1>5 DEF Next, Exited

LEMMA BaseHolds == Spec => []Base
  <1>1. Base /\ [Next]_vars => Base'
    BY BaseNext
  <1> QED
    BY <1>1, BaseInit, PTL DEF Spec

\* TypeOK, and the one thing of it that is no type: a command that has begun
\* and has no exit code has a step to make, and one that has one has none.
LEMMA BaseTypes == Base => TypeOK
  <1> SUFFICES ASSUME Base PROVE TypeOK
    OBVIOUS
  <1>1. WorldTyped /\ Control /\ Data
    BY DEF Base
  <1>2. \A e \in edits : e.at \in Nat /\ e.field \in RecordFields
    BY <1>1, FieldKinds DEF WorldTyped
  <1>3. ToSet(files) \subseteq DOMAIN disk
    <2>1. files \in Seq({"log", "reference"}) /\ DOMAIN disk = {"log", "reference"}
      BY <1>1 DEF Control, WorldTyped
    <2> QED
      BY <2>1 DEF ToSet
  <1>4. (todo = <<>>) <=> (args = None \/ code # None)
    <2>1. args = None \/ code # None => todo = <<>>
      BY <1>1 DEF Control
    <2>2. ASSUME args # None, code = None PROVE todo # <<>>
      <3>1. Position /\ args \in Invocation
        BY <1>1, <2>2 DEF Control
      <3>2. Command # "diff" =>
               /\ Then("detect", AfterDetect(args)) # <<>> /\ Then("load", VerifySteps(args)) # <<>>
               /\ VerifySteps(args) # <<>> /\ Then("explain", Ending(args)) # <<>>
        BY <3>1, PlanHeads DEF Command
      <3> QED
        BY <3>1, <3>2, FixedHeads
        DEF Position, Opening, Loading, Verifying, Explaining, Anchoring, Comparing, Reporting,
            Editing, Checking, Referring, Targeting, Reading
    <2> QED
      BY <2>1, <2>2
  <1>5. args \in Invocation \cup {None} /\ code \in {None, 0, 1, 2}
    BY <1>1 DEF Control
  <1> QED
    BY <1>1, <1>2, <1>3, <1>4, <1>5 DEF TypeOK, WorldTyped, Data

\* The commands and the log they read keep their types, and a command that
\* has begun and not yet exited always has a step of its plan before it.
THEOREM TypeCorrect == Spec => []TypeOK
  BY BaseHolds, BaseTypes, PTL

-----------------------------------------------------------------------------
\* What fails has a reason, and what passes has none.
Reasons == LogReasons \cup HeaderReasons \cup EntryReasons

LEMMA ReasonNames ==
  /\ "cannot read log" \in Reasons /\ "empty log" \in Reasons /\ "bad chain header" \in Reasons
  /\ "malformed entry" \in Reasons
  BY Zenon DEF Reasons, LogReasons

LEMMA AnswerIs ==
  ASSUME NEW it \in LogFile \cup {None}, NEW pins, NEW r \in Outcomes(it, pins), r # Raised
  PROVE  \/ \E count, index, key_id : \E reason \in Reasons : r = Fail(count, index, reason, key_id)
         \/ it # None /\ r = Valid(Len(it.entries), it.header.key_id, EndsSession(it.entries))
  <1>1. CASE it = None
    <2>1. r = Fail(0, None, "cannot read log", None)
      BY <1>1 DEF Outcomes
    <2> QED
      BY <2>1, ReasonNames, Zenon
  <1>2. CASE it # None
    <2> DEFINE hdr == it.header
               entries == it.entries
    <2>1. /\ it.medium \in {"text", "undecodable"}
          /\ hdr.form \in {"object", "malformed", "nonobject", "absent"}
      BY <1>2 DEF LogFile, Media, Header, LineForms
    <2>2. it.medium = "text"
      BY <1>2, <2>1 DEF Outcomes
    <2>3. CASE hdr.form # "object"
      <3>1. r \in {Fail(0, None, "empty log", None), Fail(0, None, "bad chain header", None)}
        BY <1>2, <2>1, <2>2, <2>3 DEF Outcomes
      <3> QED
        BY <3>1, ReasonNames, Zenon
    <2>4. CASE hdr.form = "object" /\ Unparsed(entries) # {}
      <3> DEFINE n == Least(Unparsed(entries))
      <3>1. r = Fail(n - 1, n - 1, "malformed entry", hdr.key_id)
        BY <1>2, <2>2, <2>4 DEF Outcomes
      <3> HIDE DEF n
      <3> QED
        BY <3>1, ReasonNames, Zenon
    <2>5. CASE hdr.form = "object" /\ Unparsed(entries) = {}
      <3>1. r \in ParsedOutcomes(hdr, entries, pins)
        BY <1>2, <2>2, <2>5 DEF Outcomes
      <3>2. CASE HeaderViolations(hdr, entries, pins) # {}
        <4>1. PICK reason \in HeaderViolations(hdr, entries, pins) : r = Fail(0, None, reason, hdr.key_id)
          BY <3>1, <3>2 DEF ParsedOutcomes
        <4>2. reason \in Reasons
          BY ViolationsNamed DEF Reasons
        <4> QED
          BY <4>1, <4>2
      <3>3. CASE HeaderViolations(hdr, entries, pins) = {} /\ Unsound(hdr, entries) # {}
        <4> DEFINE n == Least(Unsound(hdr, entries))
        <4>1. PICK reason \in Violations(hdr, entries, n) : r = Fail(n - 1, n - 1, reason, hdr.key_id)
          BY <3>1, <3>3 DEF ParsedOutcomes
        <4>2. reason \in Reasons
          BY ViolationsNamed DEF Reasons
        <4> QED
          BY <4>1, <4>2
      <3>4. CASE HeaderViolations(hdr, entries, pins) = {} /\ Unsound(hdr, entries) = {}
        BY <1>2, <3>1, <3>4 DEF ParsedOutcomes
      <3> QED
        BY <3>2, <3>3, <3>4
    <2> QED
      BY <2>3, <2>4, <2>5
  <1> QED
    BY <1>1, <1>2

LEMMA AnswerTells ==
  ASSUME NEW it \in LogFile \cup {None}, NEW pins, NEW r \in Outcomes(it, pins), r # Raised
  PROVE  /\ r.ok <=> r.reason = None
         /\ r.ok => it # None /\ r.ended = EndsSession(it.entries)
  <1>1. None \notin Reasons
    BY InvocationAssumption DEF Reasons
  <1>2. ASSUME NEW count, NEW index, NEW key_id, NEW reason \in Reasons, r = Fail(count, index, reason, key_id)
        PROVE  ~r.ok /\ r.reason # None
    BY <1>1, <1>2 DEF Fail
  <1>3. ASSUME it # None, r = Valid(Len(it.entries), it.header.key_id, EndsSession(it.entries))
        PROVE  r.ok /\ r.reason = None /\ r.ended = EndsSession(it.entries)
    BY <1>3 DEF Valid
  <1> QED
    BY <1>2, <1>3, AnswerIs

LEMMA DeniedTells == ~Denied.ok /\ Denied.reason # None
  <1> DEFINE reason == "not an anchor"
  <1>1. reason \in AnchorReasons
    BY Zenon DEF AnchorReasons
  <1>2. None \notin AnchorReasons
    BY InvocationAssumption
  <1>3. Denied = AnchorResult(FALSE, reason, 0, 0)
    BY DEF Denied
  <1> HIDE DEF reason
  <1> QED
    BY <1>1, <1>2, <1>3 DEF AnchorResult

\* No command has a report before it has an exit code.
LEMMA NoReportYet ==
  ASSUME Control, todo # <<>>
  PROVE  call.report = None
  <1>1. Position
    BY WhereIs
  <1> QED
    BY <1>1 DEF Position, Opening, Loading, Verifying, Explaining, Anchoring, Comparing, Reporting,
                Editing, Checking, Referring, Targeting, Unset, CallFields

LEMMA NoneYet ==
  ASSUME Control, todo # <<>>
  PROVE  code = None /\ args # None /\ args \in Invocation
  BY WhereIs

Tells(a) == a # None => (a.ok <=> a.reason = None)

Agrees ==
    /\ Tells(call.verdict) /\ Tells(call.anchor)
    /\ args # None /\ Command = "verify" /\ call.report # None =>
          /\ code # None
          /\ call.report.ok <=> code = 0
          /\ call.report.ok <=> call.report.reason = None

\* A step that leaves verdict, anchor and report alone leaves Agrees alone.
LEMMA AgreesStays ==
  ASSUME Agrees, call'.verdict = call.verdict, call'.anchor = call.anchor,
         call'.report = call.report, args' = args, code' = code \/ call.report = None
  PROVE  Agrees'
  BY DEF Agrees, Tells, Command

LEMMA AgreesReported ==
  ASSUME Base, Agrees, Report
  PROVE  Agrees'
  <1>1. Control /\ Data
    BY DEF Base
  <1>2. /\ Reporting /\ call'.report = ShownNow /\ Only({"report"})
        /\ code' = PrintedNow.code /\ code' \in {0, 1}
    BY <1>1, ReportSays
  <1>3. args' = args
    BY DEF Report, At
  <1>4. Tells(call.verdict)' /\ Tells(call.anchor)'
    BY <1>2 DEF Agrees, Tells, Only, CallFields
  <1>5. ASSUME Command = "verify"
        PROVE  ShownNow.ok <=> PrintedNow.code = 0
    <2>1. PrintedNow = VerifyReport(call.verdict, call.anchor)
      BY <1>5 DEF PrintedNow
    <2>2. ASSUME NEW r, NEW a
          PROVE  VerifyReport(r, a).ok <=> VerifyReport(r, a).code = 0
      <3> DEFINE good == /\ r.ok /\ ~(args.require_ended /\ r.ok /\ ~r.ended)
                         /\ ~(a # None /\ ~a.ok) /\ ~(a # None /\ a.ok /\ ~Witnessed)
      <3>1. VerifyReport(r, a).ok = good /\ VerifyReport(r, a).code = IF good THEN 0 ELSE 1
        BY DEF VerifyReport
      <3> HIDE DEF good
      <3>2. good \in BOOLEAN
        BY DEF good
      <3> QED
        BY <3>1, <3>2
    <2> QED
      BY <2>1, <2>2 DEF ShownNow
  <1>6. ASSUME Command = "verify"
        PROVE  ShownNow.ok <=> ShownNow.reason = None
    <2> DEFINE r == call.verdict
               a == call.anchor
    <2>1. PrintedNow = VerifyReport(r, a)
      BY <1>5, <1>6 DEF PrintedNow
    <2>2. r # None /\ (r.ok <=> r.reason = None) /\ (a # None => (a.ok <=> a.reason = None))
      BY <1>2 DEF Agrees, Tells, Reporting
    <2>3. None # "not-ended" /\ None # "witness"
      BY InvocationAssumption
    <2> HIDE DEF r, a
    <2>4. VerifyReport(r, a).ok <=> VerifyReport(r, a).reason = None
      BY <2>2, <2>3 DEF VerifyReport
    <2> QED
      BY <2>1, <2>4 DEF ShownNow
  <1>7. code' # None
    BY <1>2, NoneAssumption
  <1> QED
    BY <1>2, <1>3, <1>4, <1>5, <1>6, <1>7 DEF Agrees, Command

LEMMA AgreesStep ==
  ASSUME Base, Agrees, CommandStep
  PROVE  Agrees'
  <1>1. /\ WorldTyped /\ Control /\ Data /\ todo # <<>> /\ args' = args
        /\ disk[Head(files)] \in LogFile \cup {None} /\ log \in LogFile \cup {None} /\ RefOK
        /\ call.report = None
    BY CommandAt, FileTyped, NoReportYet DEF Base, WorldTyped
  <1>2. ASSUME NEW fields, Only(fields), {"verdict", "anchor", "report"} \cap fields = {}
        PROVE  Agrees'
    BY <1>1, <1>2, AgreesStays DEF Only, CallFields
  <1>3. Crashed => Agrees'
    BY <1>2 DEF Crashed
  <1>4. call' = call => Agrees'
    BY <1>1, AgreesStays
  <1>5. \A ok, reason : Row(ok, reason) => Agrees'
    BY <1>1, <1>2, RowSays
  <1>6. ASSUME NEW r, Tells(r), call'.verdict = r, call'.anchor = call.anchor,
               call'.report = call.report
        PROVE  Agrees'
    BY <1>1, <1>6 DEF Agrees, Tells, Command
  <1>7. ASSUME NEW a, Tells(a), call'.anchor = a, call'.verdict = call.verdict,
               call'.report = call.report
        PROVE  Agrees'
    BY <1>1, <1>7 DEF Agrees, Tells, Command
  <1>8. CASE Detect
    BY <1>1, <1>3, <1>4, <1>5, <1>8, DetectSays
  <1>9. CASE Load
    BY <1>1, <1>2, <1>3, <1>4, <1>9, LoadSays
  <1>10. CASE Verify
    <2>1. ASSUME NEW r \in Outcomes(disk[Head(files)], Pins), r # Raised,
                 call'.verdict = r, Only({"verdict", "judged"})
          PROVE  Agrees'
      <3>1. Tells(r)
        BY <1>1, <2>1, AnswerTells DEF Tells
      <3> QED
        BY <1>6, <2>1, <3>1 DEF Only, CallFields
    <2> QED
      BY <1>1, <1>3, <1>5, <1>10, <2>1, VerifySays
  <1>11. CASE Explain
    BY <1>1, <1>2, <1>3, <1>4, <1>11, ExplainSays
  <1>12. CASE ReadAnchor
    <2>1. call'.anchor = Denied /\ Only({"anchor"}) => Agrees'
      BY <1>7, DeniedTells DEF Tells, Only, CallFields
    <2> QED
      BY <1>1, <1>3, <1>4, <1>12, <2>1, ReadAnchorSays
  <1>13. CASE AnchorDetect
    BY <1>1, <1>3, <1>4, <1>13, AnchorDetectSays
  <1>14. CASE AnchorVerify
    BY <1>1, <1>2, <1>3, <1>14, AnchorVerifySays
  <1>15. CASE AnchorLoad
    <2>1. ASSUME log \in LogFile, call.checked \in VerifyResult, Published \in Token,
                 call'.anchor = Compared(call.checked, log, Published), Only({"loaded", "anchor"})
          PROVE  Agrees'
      <3>1. None \notin AnchorReasons
        BY InvocationAssumption
      <3>2. Tells(Compared(call.checked, log, Published))
        BY <2>1, <3>1, ComparedTyped DEF Tells
      <3> QED
        BY <1>7, <2>1, <3>2 DEF Only, CallFields
    <2> QED
      BY <1>1, <1>3, <1>15, <2>1, AnchorLoadSays
  <1>16. CASE Report
    BY <1>16, AgreesReported
  <1>17. CASE Edit
    BY <1>1, <1>2, <1>3, <1>17, EditSays
  <1>18. CASE Check
    <2>1. ASSUME NEW r \in Outcomes(call.copy, Unpinned), r # Raised,
                 call'.verdict = r, Only({"verdict", "explained"})
          PROVE  Agrees'
      <3>1. call.copy \in LogFile \cup {None}
        BY <1>1 DEF Data
      <3>2. Tells(r)
        BY <2>1, <3>1, AnswerTells DEF Tells
      <3> QED
        BY <1>6, <2>1, <3>2 DEF Only, CallFields
    <2> QED
      BY <1>1, <1>3, <1>4, <1>18, <2>1, CheckSays
  <1>19. CASE ReadReference
    BY <1>1, <1>2, <1>19, ReadReferenceSays
  <1>20. CASE ReadTarget
    <2>1. ASSUME Targeting, Only({"report", "judged"})
          PROVE  Agrees'
      <3>1. Command # "verify"
        BY <2>1 DEF Targeting
      <3> QED
        BY <1>1, <2>1, <3>1 DEF Only, CallFields, Agrees, Tells, Command
    <2> QED
      BY <1>1, <1>3, <1>4, <1>20, <2>1, ReadTargetSays
  <1> QED
    BY <1>8, <1>9, <1>10, <1>11, <1>12, <1>13, <1>14, <1>15, <1>16, <1>17, <1>18, <1>19, <1>20
    DEF CommandStep

\* What is no step of a command leaves what it has found out, or begins it.
LEMMA NextIs ==
  ASSUME Base, [Next]_vars
  PROVE  \/ World /\ code = None /\ UNCHANGED commandVars /\ disk'["reference"] = disk["reference"]
            /\ WorldDoes
         \/ \E inv \in Invocations : Begin(inv)
         \/ CommandStep
         \/ UNCHANGED vars
  <1>1. World => UNCHANGED commandVars /\ disk'["reference"] = disk["reference"] /\ WorldDoes
    BY WorldKeeps DEF Base
  <1> QED
    BY <1>1 DEF Next, Exited

LEMMA AgreesNext ==
  ASSUME Base, Agrees, [Next]_vars
  PROVE  Agrees'
  <1>1. CASE UNCHANGED commandVars
    BY <1>1 DEF Agrees, Tells, Command, commandVars
  <1>2. ASSUME NEW inv \in Invocations, Begin(inv) PROVE Agrees'
    <2>1. call' = Nothing
      BY <1>2 DEF Begin
    <2> QED
      BY <2>1, NothingIs DEF Agrees, Tells, CallFields
  <1>3. CASE UNCHANGED vars
    BY <1>1, <1>3 DEF vars, commandVars
  <1> QED
    BY <1>1, <1>2, <1>3, AgreesStep, NextIs

\* "0 ok / 1 fail": the verdict that verify prints and its exit code agree,
\* and a printed verdict says why exactly when it is not ok, whichever of the
\* four checks failed and in whatever order they filled in the reason.
THEOREM ReportsAgree == Spec => []ReportAgrees
  <1>1. Init => Agrees
    BY NothingIs DEF Init, Agrees, Tells, CallFields
  <1>2. Base /\ Agrees /\ [Next]_vars => Agrees'
    BY AgreesNext
  <1>3. Agrees => ReportAgrees
    BY DEF Agrees, ReportAgrees, Ran
  <1> QED
    BY <1>1, <1>2, <1>3, BaseHolds, PTL DEF Spec

-----------------------------------------------------------------------------
\* A log that nothing is wrong with has one answer.
LEMMA SoundOutcome ==
  ASSUME NEW it \in LogFile, NEW pins, it.medium = "text", it.header.form = "object",
         \A n \in 1..Len(it.entries) : it.entries[n].form = "object",
         HeaderViolations(it.header, it.entries, pins) = {},
         \A n \in 1..Len(it.entries) : Sound(it.header, it.entries, n)
  PROVE  Outcomes(it, pins) = {Valid(Len(it.entries), it.header.key_id, EndsSession(it.entries))}
  <1>1. it.entries \in Seq(Envelope) /\ it # None
    BY AbsenceAssumption DEF LogFile
  <1>2. Unparsed(it.entries) = {} /\ Unsound(it.header, it.entries) = {}
    BY <1>1 DEF Unparsed, Unsound
  <1>3. Outcomes(it, pins) = ParsedOutcomes(it.header, it.entries, pins)
    BY <1>1, <1>2 DEF Outcomes
  <1>4. ParsedOutcomes(it.header, it.entries, pins) =
          {Valid(Len(it.entries), it.header.key_id, EndsSession(it.entries))}
    BY <1>2 DEF ParsedOutcomes
  <1> QED
    BY <1>3, <1>4

\* A log is not both accepted and refused.
LEMMA OneAnswer ==
  ASSUME NEW it \in LogFile \cup {None}, NEW pins, NEW r \in Outcomes(it, pins), r # Raised, r.ok
  PROVE  Outcomes(it, pins) = {r}
  <1>1. /\ it # None /\ it.medium = "text" /\ it.header.form = "object"
        /\ \A n \in 1..Len(it.entries) : it.entries[n].form = "object"
        /\ HeaderViolations(it.header, it.entries, pins) = {}
        /\ \A n \in 1..Len(it.entries) : Sound(it.header, it.entries, n)
    BY OutcomesTyped
  <1>2. Outcomes(it, pins) = {Valid(Len(it.entries), it.header.key_id, EndsSession(it.entries))}
    BY <1>1, SoundOutcome
  <1> QED
    BY <1>2

\* A log whose version cannot be made out does not verify.
LEMMA UnknownFails ==
  ASSUME NEW it \in LogFile \cup {None}, "UnknownVersionError" \in DetectVersion(it, VERSION_V0)
  PROVE  ~Verifies(it)
  <1>1. SUFFICES ASSUME NEW r \in Outcomes(it, Pins), r # Raised, r.ok PROVE FALSE
    BY DEF Verifies
  <1>2. it # None /\ it.medium = "text" /\ it.header.form = "object"
    BY <1>1, OutcomesTyped
  <1>3. DetectVersion(it, VERSION_V0) = {VERSION_V0}
    <2> HIDE DEF VERSION_V0
    <2> QED
      BY <1>2 DEF DetectVersion
  <1> QED
    BY <1>3 DEF VERSION_V0

LEMMA VerdictCounts ==
  ASSUME NEW it \in LogFile \cup {None}, NEW r \in Outcomes(it, Pins), r # Raised
  PROVE  (r.ok /\ ~(args.require_ended /\ ~r.ended)) <=> Verifies(it)
  <1>1. (r.ok /\ ~(args.require_ended /\ ~r.ended)) => Verifies(it)
    BY DEF Verifies
  <1>2. ASSUME Verifies(it) PROVE r.ok /\ ~(args.require_ended /\ ~r.ended)
    <2>1. PICK s \in Outcomes(it, Pins) : s # Raised /\ s.ok /\ (args.require_ended => s.ended)
      BY <1>2 DEF Verifies
    <2>2. Outcomes(it, Pins) = {s}
      BY <2>1, OneAnswer
    <2> QED
      BY <2>1, <2>2
  <1> QED
    BY <1>1, <1>2

RowSet ==
    [file: {"log", "reference"}, ok: BOOLEAN,
     reason: Reasons \cup {None, "not-ended", "UnknownVersionError"}]

Sweeping == args # None /\ Command = "verify-all" /\ during = "still" /\ ~call.crashed /\ code # 2

\* The rows there are and the files there are left make up the listing, and a
\* row is ok exactly when its file, which rests, verifies.
Swept ==
    Sweeping =>
        LET list == Listing(args)
            k    == Len(call.rows)
        IN  /\ call.rows \in Seq(RowSet)
            /\ Len(list) = k + Len(files)
            /\ \A m \in 1..k : /\ call.rows[m].file = list[m]
                               /\ call.rows[m].ok <=> Verifies(disk[list[m]])
            /\ \A m \in 1..Len(files) : files[m] = list[k + m]
            /\ code # None => /\ files = <<>>
                              /\ code = 0 <=> k # 0 /\ \A m \in 1..k : call.rows[m].ok

LEMMA SweepStays ==
  ASSUME disk' = disk, args' = args
  PROVE  /\ Listing(args)' = Listing(args)
         /\ \A f \in {"log", "reference"} : Verifies(disk[f])' <=> Verifies(disk[f])
  BY DEF Listing, Verifies, Pins, Command

LEMMA SweptStays ==
  ASSUME Swept, disk' = disk, args' = args, during' = during, code' = code, files' = files,
         call'.rows = call.rows, call'.crashed = call.crashed, RefOK, Control
  PROVE  Swept'
  <1> SUFFICES ASSUME Sweeping' PROVE Swept'
    BY DEF Swept
  <1>1. Sweeping
    BY DEF Sweeping, Command
  <1> DEFINE list == Listing(args)
             k    == Len(call.rows)
  <1>2. /\ call.rows \in Seq(RowSet)
        /\ Len(list) = k + Len(files)
        /\ \A m \in 1..k : /\ call.rows[m].file = list[m]
                           /\ call.rows[m].ok <=> Verifies(disk[list[m]])
        /\ \A m \in 1..Len(files) : files[m] = list[k + m]
        /\ code # None => /\ files = <<>>
                          /\ code = 0 <=> k # 0 /\ \A m \in 1..k : call.rows[m].ok
    BY <1>1 DEF Swept
  <1>3. ASSUME NEW m \in 1..k PROVE list[m] \in {"log", "reference"}
    <2> DEFINE row == call.rows[m]
    <2>1. row \in RowSet
      BY <1>2
    <2>2. row.file = list[m]
      BY <1>2
    <2> HIDE DEF row, list, k
    <2> QED
      BY <2>1, <2>2 DEF RowSet
  <1>4. list' = list /\ \A m \in 1..k : Verifies(disk[list[m]])' <=> Verifies(disk[list[m]])
    <2>1. \A f \in {"log", "reference"} : Verifies(disk[f])' <=> Verifies(disk[f])
      BY SweepStays
    <2>2. list' = list
      BY SweepStays
    <2> HIDE DEF list, k
    <2> QED
      BY <1>3, <2>1, <2>2
  <1>5. k' = k
    OBVIOUS
  <1> HIDE DEF list, k
  <1>6. /\ call'.rows \in Seq(RowSet)
        /\ Len(list') = k' + Len(files')
        /\ \A m \in 1..k' : /\ call'.rows[m].file = list'[m]
                            /\ call'.rows[m].ok <=> Verifies(disk[list[m]])'
        /\ \A m \in 1..Len(files') : files'[m] = list'[k' + m]
        /\ code' # None => /\ files' = <<>>
                           /\ code' = 0 <=> k' # 0 /\ \A m \in 1..k' : call'.rows[m].ok
    BY <1>2, <1>4, <1>5
  <1> QED
    BY <1>6 DEF Swept, list, k


LEMMA ReasonTyped ==
  ASSUME NEW it \in LogFile \cup {None}, NEW pins, NEW r \in Outcomes(it, pins), r # Raised
  PROVE  r.reason \in Reasons \cup {None}
  <1>1. ASSUME NEW count, NEW index, NEW key_id, NEW reason \in Reasons, r = Fail(count, index, reason, key_id)
        PROVE  r.reason \in Reasons
    BY <1>1 DEF Fail
  <1>2. ASSUME it # None, r = Valid(Len(it.entries), it.header.key_id, EndsSession(it.entries))
        PROVE  r.reason = None
    BY <1>2 DEF Valid
  <1> QED
    BY <1>1, <1>2, AnswerIs

\* A row more, for the first of the files that are left.
LEMMA SweptRow ==
  ASSUME Swept, Base, todo # <<>>, disk' = disk, args' = args, during' = during,
         NEW ok \in BOOLEAN, NEW reason \in Reasons \cup {None, "not-ended", "UnknownVersionError"},
         Row(ok, reason), ok <=> Verifies(disk[Head(files)])
  PROVE  Swept'
  <1> SUFFICES ASSUME Sweeping' PROVE Swept'
    BY DEF Swept
  <1> DEFINE list == Listing(args)
             k    == Len(call.rows)
             row  == [file |-> Head(files), ok |-> ok, reason |-> reason]
             rows == Append(call.rows, row)
  <1>1. /\ Control /\ code = None /\ files # <<>> /\ files \in Seq({"log", "reference"})
        /\ Head(files) \in {"log", "reference"}
    BY NoneYet, WhereIs, FileTyped DEF Base, Control
  <1>2. /\ Only({"rows"}) /\ files' = Tail(files) /\ call'.rows = rows
        /\ Tail(files) # <<>> => code' = code
        /\ Tail(files) = <<>> => code' = IF \A r \in ToSet(call'.rows) : r.ok THEN 0 ELSE 1
    BY <1>1, RowSays
  <1>3. call'.crashed = call.crashed
    BY <1>2 DEF Only, CallFields
  <1>4. Sweeping
    BY <1>1, <1>3, NoneAssumption DEF Sweeping, Command
  <1>5. /\ call.rows \in Seq(RowSet)
        /\ Len(list) = k + Len(files)
        /\ \A m \in 1..k : /\ call.rows[m].file = list[m]
                           /\ call.rows[m].ok <=> Verifies(disk[list[m]])
        /\ \A m \in 1..Len(files) : files[m] = list[k + m]
    BY <1>4 DEF Swept
  <1>6. row \in RowSet
    BY <1>1 DEF RowSet
  <1>7. ASSUME NEW m \in 1..k PROVE list[m] \in {"log", "reference"}
    <2> DEFINE old == call.rows[m]
    <2>1. old \in RowSet
      BY <1>5
    <2>2. old.file = list[m]
      BY <1>5
    <2> HIDE DEF old, list, k
    <2> QED
      BY <2>1, <2>2 DEF RowSet
  <1>8. /\ Len(files) \in Nat /\ Len(files) > 0 /\ files[1] = Head(files)
        /\ Len(files') = Len(files) - 1 /\ \A m \in 1..Len(files) - 1 : files'[m] = files[m + 1]
        /\ k \in Nat
    BY <1>1, <1>2, <1>5
  <1>9. list[k + 1] = Head(files)
    BY <1>5, <1>8
  <1>10. /\ row.file = Head(files) /\ row.ok = ok
    OBVIOUS
  <1>11. list' = list /\ \A f \in {"log", "reference"} : Verifies(disk[f])' <=> Verifies(disk[f])
    BY SweepStays
  <1> HIDE DEF row, list
  <1>12. /\ rows \in Seq(RowSet) /\ Len(rows) = k + 1 /\ rows[k + 1] = row
         /\ \A m \in 1..k : rows[m] = call.rows[m]
    BY <1>5, <1>6
  <1> HIDE DEF rows, k
  <1>13. Len(list) = (k + 1) + Len(files')
    BY <1>5, <1>8
  <1>14. ASSUME NEW m \in 1..(k + 1)
         PROVE  rows[m].file = list[m] /\ (rows[m].ok <=> Verifies(disk[list[m]])')
    <2>1. CASE m \in 1..k
      BY <1>5, <1>7, <1>11, <1>12, <2>1
    <2>2. CASE m = k + 1
      BY <1>1, <1>9, <1>10, <1>11, <1>12, <2>2
    <2> QED
      BY <1>8, <2>1, <2>2
  <1>15. ASSUME NEW m \in 1..Len(files') PROVE files'[m] = list[(k + 1) + m]
    <2>1. m + 1 \in 1..Len(files) /\ files'[m] = files[m + 1]
      BY <1>8
    <2>2. files[m + 1] = list[k + (m + 1)]
      BY <1>5, <2>1
    <2>3. k + (m + 1) = (k + 1) + m
      BY <1>8
    <2> QED
      BY <2>1, <2>2, <2>3
  <1>16. code' # None => /\ files' = <<>>
                         /\ code' = 0 <=> k + 1 # 0 /\ \A m \in 1..(k + 1) : rows[m].ok
    <2>1. SUFFICES ASSUME code' # None PROVE files' = <<>> /\ (code' = 0 <=> k + 1 # 0 /\ \A m \in 1..(k + 1) : rows[m].ok)
      OBVIOUS
    <2>2. files' = <<>> /\ code' = IF \A r \in ToSet(rows) : r.ok THEN 0 ELSE 1
      BY <1>1, <1>2, <2>1
    <2>3. ToSet(rows) = {rows[m] : m \in 1..(k + 1)}
      BY <1>12 DEF ToSet
    <2>4. (\A r \in ToSet(rows) : r.ok) <=> \A m \in 1..(k + 1) : rows[m].ok
      BY <2>3
    <2>5. k + 1 # 0
      BY <1>8
    <2> QED
      BY <2>2, <2>4, <2>5
  <1>17. list' = Listing(args)' /\ call'.rows = rows /\ Len(call'.rows) = k + 1
    BY <1>2, <1>11, <1>12 DEF list
  <1>18. /\ call'.rows \in Seq(RowSet)
         /\ Len(list') = Len(call'.rows) + Len(files')
         /\ \A m \in 1..Len(call'.rows) : /\ call'.rows[m].file = list'[m]
                                          /\ call'.rows[m].ok <=> Verifies(disk[list[m]])'
         /\ \A m \in 1..Len(files') : files'[m] = list'[Len(call'.rows) + m]
         /\ code' # None =>
              /\ files' = <<>>
              /\ code' = 0 <=> Len(call'.rows) # 0 /\ \A m \in 1..Len(call'.rows) : call'.rows[m].ok
    BY <1>11, <1>12, <1>13, <1>14, <1>15, <1>16, <1>17
  <1> QED
    BY <1>18 DEF Swept, list

LEMMA SweptStep ==
  ASSUME Base, Swept, CommandStep
  PROVE  Swept'
  <1>1. /\ WorldTyped /\ Control /\ Data /\ todo # <<>> /\ args' = args /\ disk' = disk
        /\ during' = during /\ RefOK /\ code = None
        /\ disk[Head(files)] \in LogFile \cup {None}
    BY CommandAt, FileTyped, NoneYet DEF Base, WorldTyped, worldVars
  <1>2. CASE Crashed
    BY <1>2 DEF Crashed, Swept, Sweeping
  <1>3. CASE Command # "verify-all"
    BY <1>1, <1>3 DEF Swept, Sweeping, Command
  <1>4. CASE Command = "verify-all" /\ Detect
    <2>1. CASE call' = call /\ Goes
      BY <1>1, <2>1, SweptStays DEF Goes
    <2>2. CASE /\ Row(FALSE, "UnknownVersionError")
               /\ "UnknownVersionError" \in DetectVersion(disk[Head(files)], VERSION_V0)
      BY <1>1, <2>2, SweptRow, UnknownFails
    <2> QED
      BY <1>1, <1>2, <1>4, <2>1, <2>2, DetectSays
  <1>5. CASE Command = "verify-all" /\ Verify
    <2>1. ASSUME NEW r \in Outcomes(disk[Head(files)], Pins), r # Raised,
                 NEW reason \in {r.reason, "not-ended"},
                 Row(r.ok /\ ~(args.require_ended /\ ~r.ended), reason)
          PROVE  Swept'
      <3> DEFINE ok == r.ok /\ ~(args.require_ended /\ ~r.ended)
      <3>1. ok <=> Verifies(disk[Head(files)])
        BY <1>1, <2>1, VerdictCounts
      <3>2. r.reason \in Reasons \cup {None}
        BY <1>1, <2>1, ReasonTyped
      <3>3. ok \in BOOLEAN
        OBVIOUS
      <3> HIDE DEF ok
      <3>4. Row(ok, reason)
        BY <2>1 DEF ok
      <3> QED
        BY <1>1, <2>1, <3>1, <3>2, <3>3, <3>4, SweptRow
    <2> QED
      BY <1>1, <1>2, <1>5, <2>1, VerifySays
  <1>6. Command = "verify-all" => Detect \/ Verify
    <2>1. Command = "verify-all" => Head(todo) \in {"detect", "verify"}
      <3>1. Command = "verify-all" => Opening \/ Verifying
        BY <1>1, WhereIs DEF Position, Loading, Reading, Explaining, Anchoring, Comparing,
          Reporting, Editing, Checking, Referring, Targeting
      <3>2. Command # "diff" => Head(Then("detect", AfterDetect(args))) = "detect"
                               /\ Head(VerifySteps(args)) = "verify"
        BY <1>1, WhereIs, PlanHeads DEF Command
      <3> QED
        BY <3>1, <3>2 DEF Opening, Verifying
    <2> QED
      BY <2>1 DEF CommandStep, Detect, Load, Verify, Explain, ReadAnchor, AnchorDetect,
        AnchorVerify, AnchorLoad, Report, Edit, Check, ReadReference, ReadTarget, At
  <1> QED
    BY <1>3, <1>4, <1>5, <1>6

LEMMA SweptNext ==
  ASSUME Base, Swept, [Next]_vars
  PROVE  Swept'
  <1>1. CASE /\ World /\ code = None /\ UNCHANGED commandVars
             /\ disk'["reference"] = disk["reference"] /\ WorldDoes
    <2>1. during' # "still"
      <3>1. during' = "changed" \/ during' = Worse(during, "appended")
        BY <1>1 DEF WorldDoes
      <3>2. during \in {"still", "appended", "changed"}
        BY DEF Base, WorldTyped
      <3> QED
        BY <3>1, <3>2 DEF Worse
    <2> QED
      BY <2>1 DEF Swept, Sweeping
  <1>2. ASSUME NEW inv \in Invocations, Begin(inv) PROVE Swept'
    <2> SUFFICES ASSUME Sweeping' PROVE Swept'
      BY DEF Swept
    <2> DEFINE list == Listing(args)
    <2>1. /\ disk' = disk /\ args' = inv /\ inv \in Invocation /\ call' = Nothing
          /\ files' = Listing(inv) /\ code' \in {None, 1, 2} /\ RefOK
          /\ code' # 2 /\ inv.command = "verify-all" => (code' = 1 <=> inv.dir = "empty")
      BY <1>2, BeginKeeps DEF Base, WorldTyped, worldVars
    <2>2. code' # 2 /\ inv.command = "verify-all"
      BY <2>1 DEF Sweeping, Command
    <2>3. list' = Listing(inv) /\ call'.rows = <<>> /\ files' = list'
      BY <2>1, NothingIs DEF Listing
    <2>4. list' \in Seq({"log", "reference"}) /\ (code' # None => list' = <<>>)
      BY <2>1, <2>2, <2>3, ListingIs, NoneAssumption
    <2> HIDE DEF list
    <2>5. code' # 0 \/ code' = None
      BY <2>1
    <2>6. /\ call'.rows \in Seq(RowSet) /\ Len(call'.rows) = 0
          /\ Len(list') = 0 + Len(files')
          /\ \A m \in 1..Len(files') : files'[m] = list'[0 + m]
      BY <2>3, <2>4
    <2>7. code' # None => code' # 0
      BY <2>1
    <2> QED
      BY <2>3, <2>4, <2>6, <2>7 DEF Swept, list
  <1>3. CASE UNCHANGED vars
    BY <1>3, SweptStays DEF vars, worldVars, Base, WorldTyped
  <1> QED
    BY <1>1, <1>2, <1>3, SweptStep, NextIs

\* "Exit 1 if any fail": a sweep that comes to its end over files that rest has
\* a row for each file it listed, and exits 0 exactly when there is one and
\* every one verifies under the pins, and has ended if that was asked, although
\* each file is read twice and what cannot be made out has a row of its own.
THEOREM SweepsAreExact == Spec => []SweepIsExact
  <1>1. Init => Swept
    BY DEF Init, Swept, Sweeping
  <1>2. Base /\ Swept /\ [Next]_vars => Swept'
    BY SweptNext
  <1>3. ASSUME Base, Swept PROVE SweepIsExact
    <2> SUFFICES ASSUME args # None, Ran("verify-all"), code # 2, during = "still"
                 PROVE  /\ [m \in DOMAIN call.rows |-> call.rows[m].file] = Listing(args)
                        /\ code = 0 <=> /\ Listing(args) # <<>>
                                        /\ \A f \in ToSet(Listing(args)) : Verifies(disk[f])
      BY DEF SweepIsExact
    <2> DEFINE list  == Listing(args)
               k     == Len(call.rows)
               named == [m \in DOMAIN call.rows |-> call.rows[m].file]
    <2>1. Sweeping /\ code # None
      BY DEF Sweeping, Ran
    <2>2. /\ call.rows \in Seq(RowSet)
          /\ Len(list) = k + Len(files)
          /\ \A m \in 1..k : /\ call.rows[m].file = list[m]
                             /\ call.rows[m].ok <=> Verifies(disk[list[m]])
          /\ files = <<>>
          /\ code = 0 <=> k # 0 /\ \A m \in 1..k : call.rows[m].ok
      BY <1>3, <2>1 DEF Swept
    <2>3. args \in Invocation /\ RefOK
      BY <1>3 DEF Base, Control, WorldTyped
    <2>4. list \in Seq({"log", "reference"})
      BY <2>3, ListingIs
    <2> HIDE DEF list
    <2>5. DOMAIN call.rows = 1..k /\ k \in Nat /\ Len(list) = k
      BY <2>2
    <2>6. \A m \in 1..k : named[m] = list[m]
      BY <2>2, <2>5
    <2>7. DOMAIN named = 1..k /\ DOMAIN list = 1..k
      BY <2>4, <2>5
    <2>8. named = list
      <3>1. named = [m \in 1..k |-> list[m]]
        BY <2>5, <2>6
      <3>2. list = [m \in 1..k |-> list[m]]
        BY <2>4, <2>7
      <3> QED
        BY <3>1, <3>2
    <2>9. ToSet(list) = {list[m] : m \in 1..k}
      BY <2>7 DEF ToSet
    <2>10. (\A f \in ToSet(list) : Verifies(disk[f])) <=> \A m \in 1..k : call.rows[m].ok
      BY <2>2, <2>9
    <2>11. list # <<>> <=> k # 0
      BY <2>4, <2>5
    <2> QED
      BY <2>2, <2>8, <2>10, <2>11 DEF list
  <1> QED
    BY <1>1, <1>2, <1>3, BaseHolds, PTL DEF Spec


-----------------------------------------------------------------------------
(***************************************************************************)
(* What a command knows: how its answers follow from its reads.            *)
(***************************************************************************)
Printing == args # None /\ Command \in {"verify", "inspect", "export"}

Judging ==
    /\ args # None /\ call.verdict # None
    /\ Command \in {"verify", "inspect", "export"} \/ (Command = "tamper" /\ todo # <<>>)

LoadedLoads ==
    call.loaded # None =>
        /\ Loads(call.loaded)
        /\ args # None /\ Command = "tamper" => call.loaded.entries # <<>>

VerdictKnown ==
    Judging => /\ call.verdict # Raised /\ call.verdict \in Outcomes(call.judged, Pins)
               /\ Command = "tamper" => call.verdict.ok

ReportKnown ==
    Printing /\ call.report # None =>
        /\ call.verdict # None /\ call.report = ShownNow /\ code = PrintedNow.code
        /\ Reading => call.loaded # None
        /\ Command = "verify" => (call.anchor = None <=> args.anchor = None)

ZeroKnown ==
    args # None /\ Command = "verify" /\ code = 0 =>
        /\ call.verdict # None /\ PrintedNow.code = 0
        /\ call.anchor = None <=> args.anchor = None

AnchorKnown ==
    args # None /\ call.anchor # None /\ call.anchor.ok =>
        /\ args.anchor = "published" /\ call.checked \in VerifyResult
        /\ call.loaded \in LogFile
        /\ call.anchor = Compared(call.checked, call.loaded, TokenOf(disk["reference"]))

Trusted ==
    args # None /\ Command \in {"verify", "verify-all"} /\ code # 2 =>
        args.pin # None \/ args.trust_log_header

Known ==
    LoadedLoads /\ VerdictKnown /\ ReportKnown /\ ZeroKnown /\ AnchorKnown /\ Trusted

KnownFields == {"loaded", "judged", "verdict", "anchor", "checked", "report"}

LEMMA PrintedStays ==
  ASSUME args' = args, call'.verdict = call.verdict, call'.anchor = call.anchor
  PROVE  PrintedNow' = PrintedNow /\ ShownNow' = ShownNow
  <1>1. PrintedNow' = PrintedNow
    BY DEF PrintedNow, VerifyReport, Witnessed, Command
  <1> QED
    BY <1>1 DEF ShownNow

\* A step that leaves what is known of the log leaves it known.
LEMMA KnownStays ==
  ASSUME Known, args' = args, disk'["reference"] = disk["reference"], todo # <<>> \/ todo' = todo,
         \A f \in KnownFields : call'[f] = call[f],
         \/ code' = code
         \/ call.report = None /\ code = None /\ (code' = 0 => Command # "verify")
  PROVE  Known'
  <1>1. /\ call'.loaded = call.loaded /\ call'.judged = call.judged /\ call'.verdict = call.verdict
        /\ call'.anchor = call.anchor /\ call'.checked = call.checked /\ call'.report = call.report
    BY DEF KnownFields
  <1>2. LoadedLoads'
    BY <1>1 DEF Known, LoadedLoads, Command
  <1>3. VerdictKnown'
    <2>1. Judging' => Judging
      BY <1>1 DEF Judging, Command
    <2>2. Pins' = Pins /\ Command' = Command
      BY DEF Pins, Command
    <2> QED
      BY <1>1, <2>1, <2>2 DEF Known, VerdictKnown
  <1>4. ReportKnown'
    <2>1. PrintedNow' = PrintedNow /\ ShownNow' = ShownNow
      BY <1>1, PrintedStays
    <2> QED
      BY <1>1, <2>1 DEF Known, ReportKnown, Printing, Reading, Command
  <1>5. ZeroKnown'
    <2>1. PrintedNow' = PrintedNow
      BY <1>1, PrintedStays
    <2> QED
      BY <1>1, <2>1 DEF Known, ZeroKnown, Command
  <1>6. AnchorKnown'
    BY <1>1 DEF Known, AnchorKnown, TokenOf
  <1>7. Trusted'
    BY NoneAssumption DEF Known, Trusted, Command
  <1> QED
    BY <1>2, <1>3, <1>4, <1>5, <1>6, <1>7 DEF Known


LEMMA PublishedIsToken ==
  ASSUME args.anchor = "published"
  PROVE  Published = TokenOf(disk["reference"])
  BY DEF Published, TokenOf

LEMMA ReferenceLoads ==
  ASSUME RefOK
  PROVE  Loads(disk["reference"])
  <1>1. History \in Histories /\ disk["reference"] = Genuine(History)
    BY DEF RefOK
  <1> DEFINE it == Genuine(History)
  <1>2. /\ it \in LogFile /\ it.medium = "text" /\ it.header.form = "object"
        /\ it.entries \in Seq(Envelope) /\ Len(it.entries) = Len(History)
        /\ \A n \in 1..Len(History) : it.entries[n].form = "object"
    <2>1. /\ it.entries \in Seq(Envelope) /\ Len(it.entries) = Len(History)
          /\ \A n \in 1..Len(History) : it.entries[n].form = "object"
      BY <1>1, GenuineLogs
    <2>2. it \in LogFile /\ it.medium = "text" /\ it.header.form = "object"
      BY <1>1, ReferenceIs
    <2> QED
      BY <2>1, <2>2
  <1> HIDE DEF it
  <1>3. Unparsed(it.entries) = {} /\ it # None
    BY <1>2, AbsenceAssumption DEF Unparsed
  <1> QED
    BY <1>1, <1>2, <1>3 DEF Loads, it

\* The parts of what is known, one at a time.
LEMMA VerdictStays ==
  ASSUME VerdictKnown, args' = args, todo # <<>>, call'.verdict = call.verdict,
         call'.judged = call.judged
  PROVE  VerdictKnown'
  <1>1. (Judging' => Judging) /\ Pins' = Pins /\ Command' = Command
    BY DEF Judging, Command, Pins
  <1> QED
    BY <1>1 DEF VerdictKnown

LEMMA LoadedStays ==
  ASSUME LoadedLoads, args' = args, call'.loaded = call.loaded
  PROVE  LoadedLoads'
  BY DEF LoadedLoads, Command

LEMMA AnchorStays ==
  ASSUME AnchorKnown, args' = args, disk' = disk, call'.anchor = call.anchor,
         call.anchor = None \/ (call'.checked = call.checked /\ call'.loaded = call.loaded)
  PROVE  AnchorKnown'
  BY DEF AnchorKnown, TokenOf

LEMMA UnreportedStays ==
  ASSUME Trusted, args' = args, code = None, call'.report = None, code' # 0 \/ Command # "verify"
  PROVE  ReportKnown' /\ ZeroKnown' /\ Trusted'
  BY NoneAssumption DEF Trusted, ReportKnown, ZeroKnown, Command

LEMMA KnownStep ==
  ASSUME Base, Known, CommandStep
  PROVE  Known'
  <1>1. /\ WorldTyped /\ Control /\ Data /\ todo # <<>> /\ args' = args /\ disk' = disk
        /\ disk[Head(files)] \in LogFile \cup {None} /\ log \in LogFile \cup {None} /\ RefOK
        /\ call.report = None /\ code = None /\ code # 0 /\ args # None /\ args \in Invocation
        /\ Control' /\ (code' # None => todo' = <<>>)
    <2>1. WorldTyped /\ Control /\ Data /\ todo # <<>> /\ args' = args /\ disk' = disk /\ RefOK
      BY CommandAt DEF Base, WorldTyped, worldVars
    <2>2. /\ disk[Head(files)] \in LogFile \cup {None} /\ log \in LogFile \cup {None}
          /\ call.report = None /\ code = None /\ args # None /\ args \in Invocation
      BY <2>1, FileTyped, NoReportYet, NoneYet
    <2>3. Control'
      BY <2>1, StepKeeps
    <2>4. code' # None => todo' = <<>>
      BY <2>3 DEF Control
    <2> QED
      BY <2>1, <2>2, <2>3, <2>4, NoneAssumption
  <1>2. /\ LoadedLoads /\ VerdictKnown /\ ReportKnown /\ ZeroKnown /\ AnchorKnown /\ Trusted
    BY DEF Known
  <1>3. ASSUME NEW fields, Only(fields), fields \cap KnownFields = {},
               code' = code \/ (code' = 0 => Command # "verify")
        PROVE  Known'
    <2>1. \A f \in KnownFields : call'[f] = call[f]
      BY <1>3 DEF Only, KnownFields, CallFields
    <2> QED
      BY <1>1, <1>3, <2>1, KnownStays
  <1>4. Crashed => Known'
    BY <1>3 DEF Crashed, KnownFields
  <1>5. ASSUME call' = call, code' = code \/ (code' = 0 => Command # "verify") PROVE Known'
    BY <1>1, <1>5, KnownStays
  <1>6. ASSUME Command = "verify-all", NEW ok, NEW reason, Row(ok, reason) PROVE Known'
    <2>1. Only({"rows"})
      BY <1>1, <1>6, RowSays
    <2> QED
      BY <1>3, <1>6, <2>1 DEF KnownFields
  <1>7. CASE Detect
    <2>1. Refusal # 0
      BY DEF Refusal
    <2> QED
      BY <1>1, <1>4, <1>5, <1>6, <1>7, <2>1, DetectSays DEF Goes
  <1>8. CASE Load
    <2>1. Loading
      BY <1>1, <1>8, WhereIs DEF Load, At
    <2>2. call.verdict = None /\ call.anchor = None
      BY <2>1 DEF Loading, Unset, CallFields
    <2>3. ASSUME Loads(log), call'.loaded = log, Only({"loaded"}), Goes,
                 Command = "tamper" => log.entries # <<>>
          PROVE  Known'
      <3>1. call'.verdict = None /\ call'.anchor = None /\ call'.report = None /\ code' = code
            /\ Command' = Command
        BY <1>1, <2>2, <2>3 DEF Only, CallFields, Goes, Command
      <3>2. LoadedLoads'
        BY <2>3, <3>1 DEF LoadedLoads
      <3>3. VerdictKnown' /\ AnchorKnown'
        BY <3>1 DEF VerdictKnown, Judging, AnchorKnown
      <3> QED
        BY <1>1, <1>2, <3>1, <3>2, <3>3, UnreportedStays DEF Known
    <2>4. Refusal # 0
      BY DEF Refusal
    <2> QED
      BY <1>1, <1>4, <1>5, <1>8, <2>3, <2>4, LoadSays
  <1>9. CASE Verify
    <2>1. Verifying
      BY <1>1, <1>9, WhereIs DEF Verify, At
    <2>2. call.anchor = None
      BY <2>1 DEF Verifying, Unset, CallFields
    <2>3. ASSUME Command # "verify-all", NEW r \in Outcomes(disk[Head(files)], Pins), r # Raised,
                 call'.verdict = r, call'.judged = disk[Head(files)], Only({"verdict", "judged"}),
                 IF Command = "tamper" /\ ~r.ok THEN code' = 2 ELSE code' = code
          PROVE  Known'
      <3>1. call'.loaded = call.loaded /\ call'.anchor = call.anchor /\ call'.report = None
        BY <1>1, <2>3 DEF Only, CallFields
      <3>2. VerdictKnown'
        <4>1. Pins' = Pins /\ Command' = Command
          BY <1>1 DEF Pins, Command
        <4>2. ASSUME Judging', Command = "tamper" PROVE r.ok
          <5>1. todo' # <<>>
            BY <4>1, <4>2 DEF Judging
          <5>2. code' # 2
            BY <1>1, <5>1, NoneAssumption
          <5> QED
            BY <2>3, <4>2, <5>2
        <4> QED
          BY <2>3, <4>1, <4>2 DEF VerdictKnown
      <3>3. code' # 0
        BY <1>1, <2>3
      <3> QED
        BY <1>1, <1>2, <2>2, <3>1, <3>2, <3>3, UnreportedStays, LoadedStays, AnchorStays DEF Known
    <2> QED
      BY <1>1, <1>4, <1>6, <1>9, <2>3, VerifySays
  <1>10. CASE Explain
    BY <1>1, <1>3, <1>4, <1>5, <1>10, ExplainSays DEF Goes, KnownFields
  <1>11. CASE ReadAnchor
    <2>1. ASSUME call'.anchor = Denied, Only({"anchor"}), Goes PROVE Known'
      <3>1. /\ call'.loaded = call.loaded /\ call'.verdict = call.verdict
            /\ call'.judged = call.judged /\ call'.report = None /\ code' = code
        BY <1>1, <2>1 DEF Only, CallFields, Goes
      <3>2. AnchorKnown'
        BY <2>1, DeniedTells DEF AnchorKnown
      <3> QED
        BY <1>1, <1>2, <3>1, <3>2, UnreportedStays, LoadedStays, VerdictStays DEF Known
    <2> QED
      BY <1>1, <1>4, <1>5, <1>11, <2>1, ReadAnchorSays DEF Goes
  <1>12. CASE AnchorDetect
    BY <1>1, <1>4, <1>5, <1>12, AnchorDetectSays DEF Goes
  <1>13. CASE AnchorVerify
    <2>1. call.anchor = None
      BY <1>1, <1>13, WhereIs DEF AnchorVerify, At, Anchoring, Unset
    <2>2. ASSUME Only({"checked"}), Goes PROVE Known'
      <3>1. /\ call'.loaded = call.loaded /\ call'.verdict = call.verdict
            /\ call'.judged = call.judged /\ call'.report = None /\ code' = code
            /\ call'.anchor = call.anchor
        BY <1>1, <2>2 DEF Only, CallFields, Goes
      <3> QED
        BY <1>1, <1>2, <2>1, <3>1, UnreportedStays, LoadedStays, VerdictStays, AnchorStays DEF Known
    <2> QED
      BY <1>1, <1>4, <1>13, <2>2, AnchorVerifySays
  <1>14. CASE AnchorLoad
    <2>1. ASSUME Loads(log), log \in LogFile, Comparing, call.checked \in VerifyResult,
                 Only({"loaded", "anchor"}), Goes, call'.loaded = log,
                 call'.anchor = Compared(call.checked, log, Published)
          PROVE  Known'
      <3>1. /\ call'.verdict = call.verdict /\ call'.judged = call.judged /\ call'.report = None
            /\ code' = code /\ call'.checked = call.checked /\ Command' = Command
        BY <1>1, <2>1 DEF Only, CallFields, Goes, Command
      <3>2. Command = "verify" /\ args.anchor = "published"
        BY <2>1 DEF Comparing
      <3>3. LoadedLoads'
        BY <2>1, <3>1, <3>2 DEF LoadedLoads
      <3>4. Published = TokenOf(disk["reference"])
        BY <3>2, PublishedIsToken
      <3>5. TokenOf(disk["reference"])' = TokenOf(disk["reference"])
        BY <1>1 DEF TokenOf
      <3>6. AnchorKnown'
        BY <1>1, <2>1, <3>1, <3>2, <3>4, <3>5 DEF AnchorKnown
      <3> QED
        BY <1>1, <1>2, <3>1, <3>3, <3>6, UnreportedStays, VerdictStays DEF Known
    <2> QED
      BY <1>1, <1>4, <1>14, <2>1, AnchorLoadSays
  <1>15. CASE Report
    <2>1. /\ Reporting /\ call'.report = ShownNow /\ Only({"report"})
          /\ code' = PrintedNow.code
      BY <1>1, <1>15, ReportSays
    <2>2. /\ call'.loaded = call.loaded /\ call'.verdict = call.verdict
          /\ call'.judged = call.judged /\ call'.checked = call.checked
          /\ call'.anchor = call.anchor /\ Command' = Command
      BY <1>1, <2>1 DEF Only, CallFields, Command
    <2>3. PrintedNow' = PrintedNow /\ ShownNow' = ShownNow
      BY <1>1, <2>2, PrintedStays
    <2>4. ReportKnown'
      BY <1>1, <2>1, <2>2, <2>3 DEF ReportKnown, Printing, Reporting, Reading
    <2>5. ZeroKnown'
      BY <1>1, <2>1, <2>2, <2>3 DEF ZeroKnown, Reporting
    <2>6. Trusted'
      BY <1>1, <1>2, NoneAssumption DEF Trusted, Command
    <2> QED
      BY <1>1, <1>2, <2>2, <2>4, <2>5, <2>6, LoadedStays, VerdictStays, AnchorStays DEF Known
  <1>16. CASE Edit
    BY <1>1, <1>3, <1>4, <1>16, EditSays DEF Goes, KnownFields
  <1>17. CASE Check
    <2>1. Command = "tamper"
      BY <1>1, <1>17, WhereIs DEF Check, At, Checking
    <2>2. ASSUME code' = 0, Only({"verdict", "explained"}) PROVE Known'
      <3>1. /\ call'.loaded = call.loaded /\ call'.checked = call.checked
            /\ call'.anchor = call.anchor /\ Command' = Command /\ call'.report = None
        BY <1>1, <2>2 DEF Only, CallFields, Command
      <3>2. todo' = <<>>
        BY <1>1, <2>2, NoneAssumption
      <3>3. VerdictKnown'
        BY <2>1, <3>1, <3>2 DEF VerdictKnown, Judging
      <3> QED
        BY <1>1, <1>2, <2>1, <3>1, <3>3, UnreportedStays, LoadedStays, AnchorStays DEF Known
    <2> QED
      BY <1>1, <1>4, <1>5, <1>17, <2>1, <2>2, CheckSays
  <1>18. CASE ReadReference
    <2>1. call'.loaded = disk["reference"] /\ Only({"loaded"}) /\ Goes /\ Referring
      BY <1>1, <1>18, ReadReferenceSays
    <2>2. Command = "diff" /\ call.anchor = None
      BY <2>1 DEF Referring, Unset, CallFields
    <2>3. /\ call'.verdict = call.verdict /\ call'.judged = call.judged /\ call'.report = None
          /\ code' = code /\ call'.anchor = None /\ Command' = Command
      BY <1>1, <2>1, <2>2 DEF Only, CallFields, Goes, Command
    <2>4. Loads(disk["reference"])
      BY <1>1, ReferenceLoads
    <2>5. LoadedLoads'
      BY <2>1, <2>2, <2>3, <2>4 DEF LoadedLoads
    <2> QED
      BY <1>1, <1>2, <2>2, <2>3, <2>5, UnreportedStays, VerdictStays, AnchorStays DEF Known
  <1>19. CASE ReadTarget
    <2>1. Command = "diff"
      BY <1>1, <1>19, ReadTargetSays DEF Targeting
    <2>2. ASSUME Only({"report", "judged"}) PROVE Known'
      <3>1. /\ call'.verdict = call.verdict /\ call'.anchor = call.anchor
            /\ call'.loaded = call.loaded /\ call'.checked = call.checked /\ Command' = "diff"
        BY <1>1, <2>1, <2>2 DEF Only, CallFields, Command
      <3>2. VerdictKnown' /\ ReportKnown' /\ ZeroKnown' /\ Trusted'
        BY <3>1 DEF VerdictKnown, Judging, ReportKnown, Printing, ZeroKnown, Trusted
      <3> QED
        BY <1>1, <1>2, <3>1, <3>2, LoadedStays, AnchorStays DEF Known
    <2> QED
      BY <1>1, <1>4, <1>5, <1>19, <2>1, <2>2, ReadTargetSays
  <1> QED
    BY <1>7, <1>8, <1>9, <1>10, <1>11, <1>12, <1>13, <1>14, <1>15, <1>16, <1>17, <1>18, <1>19
    DEF CommandStep

LEMMA KnownNext ==
  ASSUME Base, Known, [Next]_vars
  PROVE  Known'
  <1>1. CASE World /\ UNCHANGED commandVars /\ disk'["reference"] = disk["reference"]
    BY <1>1, KnownStays DEF commandVars
  <1>2. ASSUME NEW inv \in Invocations, Begin(inv) PROVE Known'
    <2>1. /\ args' = inv /\ call' = Nothing /\ code' \in {None, 1, 2}
          /\ code' # 2 /\ inv.command \in {"verify", "verify-all"} =>
               inv.pin # None \/ inv.trust_log_header
      BY <1>2, BeginKeeps DEF Base
    <2>2. /\ call'.loaded = None /\ call'.verdict = None /\ call'.report = None
          /\ call'.anchor = None
      BY <2>1, NothingIs DEF CallFields
    <2>3. code' # 0
      BY <2>1, NoneAssumption
    <2>4. Trusted'
      BY <2>1 DEF Trusted, Command
    <2> QED
      BY <2>2, <2>3, <2>4 DEF Known, LoadedLoads, VerdictKnown, Judging, ReportKnown, ZeroKnown,
        AnchorKnown
  <1>3. CASE UNCHANGED vars
    BY <1>3, KnownStays DEF vars, worldVars
  <1> QED
    BY <1>1, <1>2, <1>3, KnownStep, NextIs


-----------------------------------------------------------------------------
(***************************************************************************)
(* What a command has read, and what is on disk by now.                    *)
(***************************************************************************)
Closed == Genuine(Whole(History))

SeenStill ==
    args # None /\ during = "still" =>
        /\ call.judged \in {None, log}
        /\ call.loaded \in {None, IF Command = "diff" THEN disk["reference"] ELSE log}
        /\ call.checked # None => call.checked \in Outcomes(log, Unpinned)

SeenGrowing ==
    during = "appended" =>
        /\ edits = {} /\ ~wild
        /\ call.judged \in Stages(History) \cup {None}
        /\ call.loaded \in Stages(History) \cup {None}
        /\ Closed \in {call.judged, call.loaded} => log = Closed
        /\ args # None /\ Command \in {"inspect", "export"}
           /\ call.judged # None /\ call.loaded = Closed => call.judged = Closed

Seen == SeenStill /\ SeenGrowing

LEMMA StagesDiffer ==
  ASSUME NEW h \in Histories
  PROVE  /\ Genuine(h) # HalfWritten(h) /\ Genuine(h) # Genuine(Whole(h))
         /\ HalfWritten(h) # Genuine(Whole(h))
         /\ None \notin Stages(h)
  <1>1. Len(h) \in Nat /\ Len(Whole(h)) = Len(h) + 1
    BY HistoryTyped, WholeTyped
  <1>2. Len(Genuine(h).entries) = Len(h) /\ Len(Genuine(Whole(h)).entries) = Len(h) + 1
    BY <1>1, GenuineLogs
  <1>3. /\ Len(HalfWritten(h).entries) = Len(h) + 1
        /\ HalfWritten(h).entries[Len(h) + 1].form = "malformed"
    BY HalfWrittenIs
  <1>4. Genuine(Whole(h)).entries[Len(h) + 1].form = "object"
    <2> DEFINE k == Len(h) + 1
    <2>1. k \in 1..Len(Whole(h))
      BY <1>1
    <2> HIDE DEF k
    <2>2. \A n \in 1..Len(Whole(h)) : Genuine(Whole(h)).entries[n].form = "object"
      BY GenuineLogs
    <2> QED
      BY <2>1, <2>2 DEF k
  <1>5. \A it \in Stages(h) : it \in LogFile
    BY StageIs
  <1>6. None \notin Stages(h)
    BY <1>5, AbsenceAssumption
  <1> HIDE DEF Genuine, HalfWritten, Whole, Stages
  <1> QED
    BY <1>1, <1>2, <1>3, <1>4, <1>6

LEMMA LogIsStage ==
  ASSUME WorldTyped, ~wild, edits = {}
  PROVE  log \in Stages(History) /\ log \in LogFile /\ log # None /\ History \in Histories
  <1>1. PICK base \in Stages(History) : EditedBy(base, log, {})
    BY DEF WorldTyped
  <1>2. log \in LogFile /\ History \in Histories /\ log # None
    BY <1>1 DEF WorldTyped, log, EditedBy, RefOK
  <1> QED
    BY <1>1, <1>2, UneditedIs

LEMMA SeenStays ==
  ASSUME Seen, UNCHANGED <<disk, edits, wild, during, args>>, call'.judged = call.judged,
         call'.loaded = call.loaded, call'.checked = call.checked
  PROVE  Seen'
  <1>1. log' = log /\ History' = History /\ Stages(History)' = Stages(History) /\ Closed' = Closed
    BY DEF log, History, Stages, Closed, Genuine, HalfWritten
  <1>2. SeenStill'
    BY <1>1 DEF Seen, SeenStill, Command
  <1>3. SeenGrowing'
    BY <1>1 DEF Seen, SeenGrowing, Command
  <1> QED
    BY <1>2, <1>3 DEF Seen

\* A step that reads the log, or its copy.
LEMMA SeenReads ==
  ASSUME WorldTyped, Seen, args # None, UNCHANGED <<disk, edits, wild, during, args>>,
         \/ call'.judged = call.judged
         \/ call'.judged = log /\ (Command \in {"inspect", "export"} => call.judged = None),
         \/ call'.loaded = call.loaded
         \/ call'.loaded = (IF Command = "diff" THEN disk["reference"] ELSE log) /\ call.judged = None
            /\ call'.judged = None
         \/ call'.loaded = log /\ Command = "verify" /\ call'.judged = call.judged,
         call'.checked = call.checked \/ call'.checked \in Outcomes(log, Unpinned)
  PROVE  Seen'
  <1>1. /\ log' = log /\ History' = History /\ Stages(History)' = Stages(History)
        /\ Closed' = Closed /\ Command' = Command /\ disk'["reference"] = disk["reference"]
    BY DEF log, History, Stages, Closed, Genuine, HalfWritten, Command
  <1>2. SeenStill'
    BY <1>1 DEF Seen, SeenStill
  <1>3. SeenGrowing'
    <2> SUFFICES ASSUME during' = "appended"
                 PROVE  /\ edits' = {} /\ ~wild'
                        /\ call'.judged \in Stages(History) \cup {None}
                        /\ call'.loaded \in Stages(History) \cup {None}
                        /\ Closed \in {call'.judged, call'.loaded} => log = Closed
                        /\ Command \in {"inspect", "export"} /\ call'.judged # None
                           /\ call'.loaded = Closed => call'.judged = Closed
      BY <1>1 DEF SeenGrowing
    <2>1. /\ edits = {} /\ ~wild
          /\ call.judged \in Stages(History) \cup {None}
          /\ call.loaded \in Stages(History) \cup {None}
          /\ Closed \in {call.judged, call.loaded} => log = Closed
          /\ Command \in {"inspect", "export"} /\ call.judged # None /\ call.loaded = Closed =>
               call.judged = Closed
      BY DEF Seen, SeenGrowing
    <2>2. log \in Stages(History) /\ History \in Histories
      BY <2>1, LogIsStage
    <2>3. /\ disk["reference"] = Genuine(History) /\ disk["reference"] \in Stages(History)
          /\ disk["reference"] # Closed /\ Closed # None
      BY <2>2, StagesDiffer DEF WorldTyped, RefOK, Stages, Closed
    <2> QED
      BY <2>1, <2>2, <2>3
  <1> QED
    BY <1>2, <1>3 DEF Seen


LEMMA SeenStep ==
  ASSUME Base, Seen, CommandStep
  PROVE  Seen'
  <1>1. /\ WorldTyped /\ Control /\ Data /\ todo # <<>> /\ args' = args
        /\ UNCHANGED <<disk, edits, wild, during, args>>
        /\ disk[Head(files)] \in LogFile \cup {None} /\ log \in LogFile \cup {None} /\ RefOK
        /\ args # None /\ (Command # "verify-all" => disk[Head(files)] = log)
    BY CommandAt, FileTyped, NoneYet DEF Base, WorldTyped, worldVars
  <1>2. ASSUME NEW fields, Only(fields), fields \cap {"judged", "loaded", "checked"} = {}
        PROVE  Seen'
    BY <1>1, <1>2, SeenStays DEF Only, CallFields
  <1>3. Crashed => Seen'
    BY <1>2 DEF Crashed
  <1>4. call' = call => Seen'
    BY <1>1, SeenStays
  <1>5. \A ok, reason : Row(ok, reason) => Seen'
    BY <1>1, <1>2, RowSays
  <1>6. CASE Detect
    BY <1>1, <1>3, <1>4, <1>5, <1>6, DetectSays
  <1>7. CASE Load
    <2>1. Loading
      BY <1>1, <1>7, WhereIs DEF Load, At
    <2>2. call.judged = None /\ Command # "diff"
      BY <2>1 DEF Loading, Unset, CallFields, Reading
    <2>3. call'.loaded = log /\ Only({"loaded"}) => Seen'
      BY <1>1, <2>2, SeenReads DEF Only, CallFields
    <2> QED
      BY <1>1, <1>3, <1>4, <1>7, <2>3, LoadSays
  <1>8. CASE Verify
    <2>1. Verifying
      BY <1>1, <1>8, WhereIs DEF Verify, At
    <2>2. call.judged = None
      BY <2>1 DEF Verifying, Unset, CallFields
    <2>3. Command # "verify-all" /\ call'.judged = disk[Head(files)] /\ Only({"verdict", "judged"})
            => Seen'
      BY <1>1, <2>2, SeenReads DEF Only, CallFields
    <2> QED
      BY <1>1, <1>3, <1>5, <1>8, <2>3, VerifySays
  <1>9. CASE Explain
    BY <1>1, <1>2, <1>3, <1>4, <1>9, ExplainSays
  <1>10. CASE ReadAnchor
    BY <1>1, <1>2, <1>3, <1>4, <1>10, ReadAnchorSays
  <1>11. CASE AnchorDetect
    BY <1>1, <1>3, <1>4, <1>11, AnchorDetectSays
  <1>12. CASE AnchorVerify
    <2>1. call'.checked \in Outcomes(log, Unpinned) /\ Only({"checked"}) => Seen'
      BY <1>1, SeenReads DEF Only, CallFields
    <2> QED
      BY <1>1, <1>3, <1>12, <2>1, AnchorVerifySays
  <1>13. CASE AnchorLoad
    <2>1. Comparing /\ call'.loaded = log /\ Only({"loaded", "anchor"}) => Seen'
      BY <1>1, SeenReads DEF Only, CallFields, Comparing
    <2> QED
      BY <1>1, <1>3, <1>13, <2>1, AnchorLoadSays
  <1>14. CASE Report
    BY <1>1, <1>2, <1>14, ReportSays
  <1>15. CASE Edit
    BY <1>1, <1>2, <1>3, <1>15, EditSays
  <1>16. CASE Check
    BY <1>1, <1>2, <1>3, <1>4, <1>16, CheckSays
  <1>17. CASE ReadReference
    <2>1. call'.loaded = disk["reference"] /\ Only({"loaded"}) /\ Referring
      BY <1>1, <1>17, ReadReferenceSays
    <2>2. call.judged = None /\ Command = "diff" /\ call'.judged = call.judged
          /\ call'.checked = call.checked
      BY <2>1 DEF Referring, Unset, Only, CallFields
    <2> QED
      BY <1>1, <2>1, <2>2, SeenReads
  <1>18. CASE ReadTarget
    <2>1. Targeting
      BY <1>1, <1>18, ReadTargetSays
    <2>2. Command = "diff"
      BY <2>1 DEF Targeting
    <2>3. call'.judged = log /\ Only({"report", "judged"}) => Seen'
      BY <1>1, <2>2, SeenReads DEF Only, CallFields
    <2> QED
      BY <1>1, <1>3, <1>4, <1>18, <2>3, ReadTargetSays
  <1> QED
    BY <1>6, <1>7, <1>8, <1>9, <1>10, <1>11, <1>12, <1>13, <1>14, <1>15, <1>16, <1>17, <1>18
    DEF CommandStep

LEMMA SeenNext ==
  ASSUME Base, Seen, [Next]_vars
  PROVE  Seen'
  <1>1. CASE /\ UNCHANGED commandVars /\ disk'["reference"] = disk["reference"] /\ WorldDoes
    <2>1. ASSUME during' = "changed" PROVE Seen'
      BY <2>1 DEF Seen, SeenStill, SeenGrowing
    <2>2. ASSUME during' = Worse(during, "appended"), edits = {}, ~wild, edits' = {}, ~wild',
                 \/ log = Genuine(History) /\ log' = HalfWritten(History)
                 \/ log = HalfWritten(History) /\ log' = Genuine(Whole(History))
          PROVE  Seen'
      <3>1. during' # "still"
        BY <2>2 DEF Worse
      <3>2. SUFFICES ASSUME during' = "appended" PROVE SeenGrowing'
        BY <3>1 DEF Seen, SeenStill, SeenGrowing
      <3>3. during \in {"still", "appended"}
        BY <2>2, <3>2 DEF Base, WorldTyped, Worse
      <3>4. /\ History \in Histories /\ disk["reference"] = Genuine(History)
        BY DEF Base, WorldTyped, RefOK
      <3>5. /\ Closed \notin {None, log, disk["reference"]}
            /\ {log, disk["reference"]} \subseteq Stages(History)
        BY <2>2, <3>4, StagesDiffer DEF Closed, Stages
      <3>6. /\ call.judged \in Stages(History) \cup {None}
            /\ call.loaded \in Stages(History) \cup {None}
            /\ Closed \notin {call.judged, call.loaded}
        <4>1. CASE args = None
          <5>1. call.judged = None /\ call.loaded = None
            BY <4>1, NothingIs DEF Base, Control, CallFields
          <5> QED
            BY <3>5, <5>1
        <4>2. CASE args # None /\ during = "still"
          BY <3>5, <4>2 DEF Seen, SeenStill
        <4>3. CASE during = "appended"
          BY <3>5, <4>3 DEF Seen, SeenGrowing
        <4> QED
          BY <3>3, <4>1, <4>2, <4>3
      <3>7. Stages(History)' = Stages(History) /\ Closed' = Closed /\ call' = call
        BY <1>1 DEF History, Stages, Closed, Genuine, HalfWritten, commandVars
      <3> QED
        BY <2>2, <3>6, <3>7 DEF SeenGrowing
    <2> QED
      BY <1>1, <2>1, <2>2 DEF WorldDoes
  <1>2. ASSUME NEW inv \in Invocations, Begin(inv) PROVE Seen'
    <2>1. call' = Nothing /\ during' = "still"
      BY <1>2, BeginKeeps DEF Base
    <2>2. call'.judged = None /\ call'.loaded = None /\ call'.checked = None
      BY <2>1, NothingIs DEF CallFields
    <2> QED
      BY <2>1, <2>2 DEF Seen, SeenStill, SeenGrowing
  <1>3. CASE UNCHANGED vars
    BY <1>3, SeenStays DEF vars, worldVars
  <1> QED
    BY <1>1, <1>2, <1>3, SeenStep, NextIs


-----------------------------------------------------------------------------
\* All entries of a log that verifies are signed with the key of its header,
\* whose fingerprint the pin is.
LEMMA ValidIs ==
  ASSUME NEW it \in LogFile \cup {None}, NEW pins, NEW r \in Outcomes(it, pins), r # Raised, r.ok
  PROVE  /\ it \in LogFile /\ it # None /\ it.header \in Header /\ it.entries \in Seq(Envelope)
         /\ it.medium = "text" /\ it.header.form = "object" /\ it.entries # <<>>
         /\ Len(it.entries) \in Nat /\ Len(it.entries) > 0 /\ Loads(it)
         /\ spki_fingerprint(it.header.spki_der) = it.header.spki_sha256
         /\ pins.trusted_spki_sha256 \in {None, it.header.spki_sha256}
         /\ r.ended = EndsSession(it.entries)
         /\ \A n \in 1..Len(it.entries) :
               /\ it.entries[n].form = "object" /\ it.entries[n] \in Envelope
               /\ it.entries[n].record \in Record
               /\ Sound(it.header, it.entries, n)
               /\ it.entries[n].entry_hash = entry_hash(it.entries[n].record)
               /\ it.entries[n].signature.key = it.header.spki_der
               /\ it.entries[n].signature.over = signed_digest(SubSeq(Bodies(it.entries), 1, n))
               /\ it.entries[n].entry_hash = SubSeq(Bodies(it.entries), 1, n)
  <1>1. /\ it # None /\ it.medium = "text" /\ it.header.form = "object"
        /\ \A n \in 1..Len(it.entries) : it.entries[n].form = "object"
        /\ HeaderViolations(it.header, it.entries, pins) = {}
        /\ \A n \in 1..Len(it.entries) : Sound(it.header, it.entries, n)
    BY OutcomesTyped
  <1>2. it \in LogFile /\ it.header \in Header /\ it.entries \in Seq(Envelope)
    BY <1>1, EntriesTyped
  <1>3. /\ spki_fingerprint(it.header.spki_der) = it.header.spki_sha256
        /\ pins.trusted_spki_sha256 \in {None, it.header.spki_sha256}
        /\ it.entries # <<>>
    <2> DEFINE hdr     == it.header
               entries == it.entries
    <2>1. HeaderViolations(hdr, entries, pins) = {}
      BY <1>1
    <2> HIDE DEF hdr, entries
    <2>2. "spki_sha256 mismatch" \notin HeaderViolations(hdr, entries, pins)
          /\ "not the trusted anchor" \notin HeaderViolations(hdr, entries, pins)
          /\ "no entries" \notin HeaderViolations(hdr, entries, pins)
      BY <2>1, Zenon
    <2>3. /\ spki_fingerprint(hdr.spki_der) = hdr.spki_sha256
          /\ pins.trusted_spki_sha256 \in {None, hdr.spki_sha256}
          /\ entries # <<>>
      BY <2>2, HeaderViolationsAre, Zenon
    <2> QED
      BY <2>3 DEF hdr, entries
  <1>4. Len(it.entries) \in Nat /\ Len(it.entries) > 0
    BY <1>2, <1>3
  <1>5. \A n \in 1..Len(it.entries) :
            entry_hash(it.entries[n].record) = SubSeq(Bodies(it.entries), 1, n)
    BY <1>1, <1>2, <1>3, SoundChain DEF Sound, Unviolated
  <1>6. ASSUME NEW n \in 1..Len(it.entries)
        PROVE  /\ it.entries[n] \in Envelope /\ it.entries[n].record \in Record
               /\ it.entries[n].entry_hash = entry_hash(it.entries[n].record)
               /\ it.entries[n].signature.key = it.header.spki_der
               /\ it.entries[n].signature.over = signed_digest(entry_hash(it.entries[n].record))
    <2>1. Sound(it.header, it.entries, n)
      BY <1>1
    <2>2. it.entries[n] \in Envelope /\ it.entries[n].record \in Record
      <3> DEFINE e == it.entries[n]
      <3>1. e \in Envelope
        BY <1>2
      <3> HIDE DEF e
      <3>2. e.record \in Record
        BY <3>1 DEF Envelope
      <3> QED
        BY <3>1, <3>2 DEF e
    <2> QED
      BY <2>1, <2>2, SoundIs
  <1>7. r.ended = EndsSession(it.entries)
    BY AnswerTells
  <1>8. Loads(it)
    BY <1>1, <1>2 DEF Loads, Unparsed
  <1> QED
    BY <1>1, <1>2, <1>3, <1>4, <1>5, <1>6, <1>7, <1>8

\* Prefixes, element by element.
LEMMA PrefixIs ==
  ASSUME NEW S, NEW s \in Seq(S), NEW t \in Seq(S)
  PROVE  /\ IsPrefix(s, t) <=> Len(s) <= Len(t) /\ \A n \in 1..Len(s) : s[n] = t[n]
         /\ IsPrefix(s, s)
  <1>1. SubSeq(s, 1, Len(s)) = s
    BY SubSeqFull
  <1>2. ASSUME Len(s) <= Len(t)
        PROVE  s = SubSeq(t, 1, Len(s)) <=> \A n \in 1..Len(s) : s[n] = t[n]
    <2>1. SubSeq(t, 1, Len(s)) \in Seq(S) /\ Len(SubSeq(t, 1, Len(s))) = Len(s)
          /\ \A n \in 1..Len(s) : SubSeq(t, 1, Len(s))[n] = t[n]
      BY <1>2
    <2> QED
      BY <2>1, SeqEqual
  <1> QED
    BY <1>1, <1>2 DEF IsPrefix

\* The first entries of every stage of the log are those of the first stage.
LEMMA StagesGrow ==
  ASSUME NEW h \in Histories, NEW it \in Stages(h)
  PROVE  IsPrefix(Genuine(h).entries, it.entries)
  <1>1. /\ it.entries \in Seq(Envelope) /\ Len(h) \in Nat /\ Len(it.entries) >= Len(h)
        /\ \A n \in 1..Len(h) : it.entries[n] = Genuine(h).entries[n]
    BY StageIs, HistoryTyped
  <1>2. Genuine(h).entries \in Seq(Envelope) /\ Len(Genuine(h).entries) = Len(h)
    BY GenuineLogs
  <1> DEFINE a == Genuine(h).entries
             b == it.entries
  <1> HIDE DEF a, b
  <1>3. a \in Seq(Envelope) /\ b \in Seq(Envelope) /\ Len(a) = Len(h) /\ Len(b) >= Len(h)
        /\ \A n \in 1..Len(h) : b[n] = a[n]
    BY <1>1, <1>2 DEF a, b
  <1>4. IsPrefix(a, b)
    BY <1>1, <1>3, PrefixIs
  <1> QED
    BY <1>4 DEF a, b


-----------------------------------------------------------------------------
(***************************************************************************)
(* What the writer signed is the history, and one event more.              *)
(***************************************************************************)
SignedWithin(h, it) ==
    \A n \in 1..Len(it.entries) :
        it.entries[n].signature.key = WriterKey =>
            \E k \in 1..(Len(h) + 1) :
                it.entries[n].signature.over = signed_digest(SubSeq(Whole(h), 1, k))

LogSigned   == log # None => SignedWithin(History, log)
JudgedSigned == call.judged # None => SignedWithin(History, call.judged)

LEMMA StageSigned ==
  ASSUME NEW h \in Histories, NEW it \in Stages(h)
  PROVE  SignedWithin(h, it)
  <1> SUFFICES ASSUME NEW n \in 1..Len(it.entries)
               PROVE  \E k \in 1..(Len(h) + 1) :
                         it.entries[n].signature.over = signed_digest(SubSeq(Whole(h), 1, k))
    BY DEF SignedWithin
  <1>1. /\ it.entries[n].signature = SignedBy(WriterKey, SubSeq(Whole(h), 1, n))
        /\ Len(it.entries) \in {Len(h), Len(h) + 1} /\ Len(h) \in Nat
    BY StageIs, HistoryTyped
  <1>2. n \in 1..(Len(h) + 1)
    BY <1>1
  <1>3. it.entries[n].signature.over = signed_digest(SubSeq(Whole(h), 1, n))
    BY <1>1 DEF SignedBy
  <1> QED
    BY <1>2, <1>3

LEMMA SignedSame ==
  ASSUME NEW h, NEW it, SignedWithin(h, it), NEW new, Len(it.entries) \in Nat,
         Len(new.entries) \in Nat, Len(new.entries) <= Len(it.entries),
         \A n \in 1..Len(new.entries) : new.entries[n].signature = it.entries[n].signature
  PROVE  SignedWithin(h, new)
  <1>1. \A n \in 1..Len(new.entries) : n \in 1..Len(it.entries)
    OBVIOUS
  <1> QED
    BY <1>1 DEF SignedWithin

LEMMA BefallsIs ==
  ASSUME WorldTyped, NEW fate, NEW new, Befalls(fate, new)
  PROVE  log' = new
  <1>1. disk' = [disk EXCEPT !["log"] = new] /\ "log" \in DOMAIN disk
    BY DEF Befalls, WorldTyped
  <1> QED
    BY <1>1 DEF log

LEMMA SpoilSigned ==
  ASSUME WorldTyped, LogSigned, (\E n \in Touched : SpoilEntry(n)) \/ SpoilFile
  PROVE  log' # None => SignedWithin(History, log')
  <1>1. log \in LogFile /\ log # None
    BY DEF WorldTyped, log, SpoilEntry, SpoilFile, Plain
  <1>2. log.medium \in Media /\ log.header \in Header /\ log.entries \in Seq(Envelope)
        /\ DOMAIN log = {"medium", "header", "entries"} /\ Len(log.entries) \in Nat
    BY <1>1, EntriesTyped DEF LogFile
  <1>3. SignedWithin(History, log)
    BY <1>1 DEF LogSigned
  <1>4. ASSUME NEW new, Spoil(new), Len(new.entries) \in Nat, Len(new.entries) <= Len(log.entries),
               \A n \in 1..Len(new.entries) : new.entries[n].signature = log.entries[n].signature
        PROVE  SignedWithin(History, log')
    <2>1. log' = new
      BY <1>4, BefallsIs DEF Spoil
    <2> QED
      BY <1>2, <1>3, <1>4, <2>1, SignedSame
  <1>5. ASSUME NEW n \in Touched, SpoilEntry(n)
        PROVE  SignedWithin(History, log')
    <2>1. n \in DOMAIN log.entries /\ n \in Nat
      BY <1>5, WriterAssumption DEF SpoilEntry
    <2>2. ASSUME NEW e, e.signature = log.entries[n].signature,
                 NEW new, new.entries = [log.entries EXCEPT ![n] = e], Spoil(new)
          PROVE  SignedWithin(History, log')
      <3>1. /\ Len(new.entries) = Len(log.entries)
            /\ \A m \in 1..Len(new.entries) : new.entries[m].signature = log.entries[m].signature
        BY <1>2, <2>1, <2>2
      <3> QED
        BY <1>2, <1>4, <2>2, <3>1
    <2>3. ASSUME NEW form \in LineForms, Spoil([log EXCEPT !.entries[n].form = form])
          PROVE  SignedWithin(History, log')
      <3> DEFINE e == [log.entries[n] EXCEPT !.form = form]
                 new == [log EXCEPT !.entries[n].form = form]
      <3>1. log.entries[n] \in Envelope
        BY <1>2, <2>1
      <3>2. e.signature = log.entries[n].signature
        BY <3>1 DEF Envelope
      <3>3. new.entries = [log.entries EXCEPT ![n] = e]
        BY <1>2
      <3> HIDE DEF e, new
      <3>4. Spoil(new)
        BY <2>3 DEF new
      <3> QED
        BY <2>2, <3>2, <3>3, <3>4
    <2>4. CASE Spoil([log EXCEPT !.entries[n].entry_hash = entry_hash(log.entries[n].record)])
      <3> DEFINE hash == entry_hash(log.entries[n].record)
                 e == [log.entries[n] EXCEPT !.entry_hash = hash]
                 new == [log EXCEPT !.entries[n].entry_hash = hash]
      <3> HIDE DEF hash
      <3>1. log.entries[n] \in Envelope
        BY <1>2, <2>1
      <3>2. e.signature = log.entries[n].signature
        BY <3>1 DEF Envelope
      <3>3. new.entries = [log.entries EXCEPT ![n] = e]
        BY <1>2
      <3> HIDE DEF e, new
      <3>4. Spoil(new)
        BY <2>4 DEF new, hash
      <3> QED
        BY <2>2, <3>2, <3>3, <3>4
    <2>5. CASE Spoil([log EXCEPT !.entries = SubSeq(@, 1, n - 1)])
      <3> DEFINE start == SubSeq(log.entries, 1, n - 1)
                 new == [log EXCEPT !.entries = start]
      <3>1. /\ start \in Seq(Envelope) /\ Len(start) = n - 1 /\ Len(start) <= Len(log.entries)
            /\ \A m \in 1..Len(start) : start[m] = log.entries[m]
        BY <1>2, <2>1
      <3> HIDE DEF start
      <3>2. new.entries = start
        BY <1>2
      <3> HIDE DEF new
      <3>3. Spoil(new)
        BY <2>5 DEF new, start
      <3> QED
        BY <1>4, <2>1, <3>1, <3>2, <3>3
    <2> QED
      BY <1>5, <2>3, <2>4, <2>5 DEF SpoilEntry
  <1>6. ASSUME SpoilFile, log' # None
        PROVE  SignedWithin(History, log')
    <2>1. ASSUME NEW new, Spoil(new), new.entries = log.entries
          PROVE  SignedWithin(History, log')
      BY <1>2, <1>4, <2>1
    <2>2. ASSUME NEW form \in LineForms, Spoil([log EXCEPT !.header.form = form])
          PROVE  SignedWithin(History, log')
      <3> DEFINE new == [log EXCEPT !.header.form = form]
      <3>1. new.entries = log.entries
        BY <1>2
      <3> HIDE DEF new
      <3> QED
        BY <2>1, <2>2, <3>1 DEF new
    <2>3. CASE Spoil([log EXCEPT !.header.form = "absent", !.entries = <<>>])
      <3> DEFINE none == <<>>
                 new == [log EXCEPT !.header.form = "absent", !.entries = none]
      <3> HIDE DEF none
      <3>1. new.entries = none
        BY <1>2
      <3> HIDE DEF new
      <3>2. Spoil(new) /\ Len(none) = 0
        BY <2>3 DEF new, none
      <3> QED
        BY <1>2, <1>4, <3>1, <3>2
    <2>4. CASE Spoil([log EXCEPT !.medium = "undecodable"])
      <3> DEFINE new == [log EXCEPT !.medium = "undecodable"]
      <3>1. new.entries = log.entries
        BY <1>2
      <3> HIDE DEF new
      <3> QED
        BY <2>1, <2>4, <3>1 DEF new
    <2>5. CASE Spoil(ChainFile(log.header.session_id, Bodies(log.entries), OtherKey, WriterLabel,
                               spki_fingerprint(OtherKey)))
      <3> DEFINE bodies == Bodies(log.entries)
                 new == ChainFile(log.header.session_id, bodies, OtherKey, WriterLabel,
                                  spki_fingerprint(OtherKey))
      <3>1. log' = new
        BY <2>5, BefallsIs DEF Spoil
      <3>2. Len(bodies) \in Nat
        BY <1>2, BodiesTyped
      <3> HIDE DEF bodies
      <3>3. /\ Len(new.entries) = Len(bodies)
            /\ \A n \in 1..Len(bodies) : new.entries[n].signature.key = OtherKey
        BY <3>2 DEF ChainFile, EnvelopeOf, SignedBy
      <3> HIDE DEF new
      <3> QED
        BY <3>1, <3>3, WriterAssumption DEF SignedWithin
    <2>6. CASE Spoil(None)
      BY <1>6, <2>6, BefallsIs DEF Spoil
    <2> QED
      BY <1>6, <2>2, <2>3, <2>4, <2>5, <2>6 DEF SpoilFile
  <1> QED
    BY <1>5, <1>6

LEMMA WorldSigned ==
  ASSUME WorldTyped, LogSigned, World
  PROVE  log' # None => SignedWithin(History, log')
  <1>1. History \in Histories
    BY DEF WorldTyped, RefOK
  <1>2. ASSUME NEW n \in Touched, NEW field \in FieldsEdited, NEW value \in EditValues(field),
               EditField(n, field, value)
        PROVE  SignedWithin(History, log')
    <2>1. n \in Nat
      BY WriterAssumption
    <2> DEFINE rec == Put(log.entries[n].record, field, value)
               new == WithRecord(log, n, rec)
    <2>2. /\ log \in LogFile /\ log # None /\ n \in DOMAIN log.entries /\ rec \in Record
          /\ Befalls("changed", new)
      BY <1>2, <2>1, EditFieldIs DEF Plain
    <2> HIDE DEF rec
    <2>3. /\ new.entries \in Seq(Envelope) /\ Len(new.entries) = Len(log.entries)
          /\ DOMAIN new.entries = DOMAIN log.entries
          /\ new.entries[n].signature = log.entries[n].signature
          /\ \A m \in DOMAIN log.entries : m # n => new.entries[m] = log.entries[m]
      BY <2>2, WithRecordIs
    <2>4. log.entries \in Seq(Envelope)
      BY <2>2, EntriesTyped
    <2>5. log' = new
      BY <2>2, BefallsIs
    <2> HIDE DEF new
    <2>6. \A m \in 1..Len(new.entries) : new.entries[m].signature = log.entries[m].signature
      BY <2>3, <2>4
    <2> QED
      BY <2>2, <2>3, <2>4, <2>5, <2>6, SignedSame DEF LogSigned
  <1>3. CASE StartAppend
    <2>1. log' = HalfWritten(History)
      BY <1>3, StartAppendIs, BefallsIs
    <2> QED
      BY <1>1, <2>1, StageSigned DEF Stages
  <1>4. CASE FinishAppend
    <2>1. log' = Genuine(Whole(History))
      BY <1>4, FinishAppendIs
    <2> QED
      BY <1>1, <2>1, StageSigned DEF Stages
  <1> QED
    BY <1>2, <1>3, <1>4, SpoilSigned DEF World, FieldsEdited

Signed == LogSigned /\ JudgedSigned

LEMMA SignedNext ==
  ASSUME Base, Signed, [Next]_vars
  PROVE  Signed'
  <1>1. WorldTyped /\ Control
    BY DEF Base
  <1>2. ASSUME disk'["reference"] = disk["reference"] PROVE History' = History
    BY <1>2 DEF History
  <1>3. ASSUME disk' = disk, call'.judged \in {call.judged, log, None} PROVE Signed'
    <2>1. log' = log /\ History' = History
      BY <1>3 DEF log, History
    <2> QED
      BY <1>3, <2>1 DEF Signed, LogSigned, JudgedSigned
  <1>4. CASE World /\ UNCHANGED commandVars /\ disk'["reference"] = disk["reference"]
    BY <1>1, <1>2, <1>4, WorldSigned DEF Signed, LogSigned, JudgedSigned, commandVars
  <1>5. ASSUME NEW inv \in Invocations, Begin(inv) PROVE Signed'
    <2>1. call' = Nothing /\ disk' = disk
      BY <1>1, <1>5, BeginKeeps DEF worldVars
    <2> QED
      BY <1>3, <2>1, NothingIs DEF CallFields
  <1>6. CASE CommandStep
    <2>1. disk' = disk /\ todo # <<>> /\ (Command # "verify-all" => disk[Head(files)] = log)
          /\ disk[Head(files)] \in LogFile \cup {None} /\ log \in LogFile \cup {None} /\ RefOK /\ Data
      BY <1>1, <1>6, CommandAt, FileTyped DEF worldVars, WorldTyped, Base
    <2>2. ASSUME NEW fields, Only(fields), "judged" \notin fields PROVE Signed'
      BY <1>3, <2>1, <2>2 DEF Only, CallFields
    <2>3. Crashed => Signed'
      BY <2>2 DEF Crashed
    <2>4. call' = call => Signed'
      BY <1>3, <2>1
    <2>5. \A ok, reason : Row(ok, reason) => Signed'
      BY <1>1, <2>2, RowSays
    <2>6. CASE Verify
      <3>1. Command # "verify-all" /\ call'.judged = disk[Head(files)] => Signed'
        BY <1>3, <2>1
      <3> QED
        BY <1>1, <2>3, <2>5, <2>6, <3>1, VerifySays
    <2>7. CASE ReadTarget
      <3>1. call'.judged = log => Signed'
        BY <1>3, <2>1
      <3> QED
        BY <1>1, <2>3, <2>4, <2>7, <3>1, ReadTargetSays
    <2>8. CASE Detect
      BY <1>1, <2>1, <2>3, <2>4, <2>5, <2>8, DetectSays
    <2>9. CASE Load
      BY <1>1, <2>1, <2>2, <2>3, <2>4, <2>9, LoadSays
    <2>10. CASE Explain
      BY <1>1, <2>1, <2>2, <2>3, <2>4, <2>10, ExplainSays
    <2>11. CASE ReadAnchor
      BY <1>1, <2>1, <2>2, <2>3, <2>4, <2>11, ReadAnchorSays
    <2>12. CASE AnchorDetect
      BY <1>1, <2>1, <2>3, <2>4, <2>12, AnchorDetectSays
    <2>13. CASE AnchorVerify
      BY <1>1, <2>1, <2>2, <2>3, <2>13, AnchorVerifySays
    <2>14. CASE AnchorLoad
      BY <1>1, <2>1, <2>2, <2>3, <2>14, AnchorLoadSays
    <2>15. CASE Report
      BY <1>1, <2>2, <2>15, ReportSays
    <2>16. CASE Edit
      BY <1>1, <2>1, <2>2, <2>3, <2>16, EditSays
    <2>17. CASE Check
      BY <1>1, <2>2, <2>3, <2>4, <2>17, CheckSays
    <2>18. CASE ReadReference
      BY <1>1, <2>2, <2>18, ReadReferenceSays
    <2> QED
      BY <1>6, <2>6, <2>7, <2>8, <2>9, <2>10, <2>11, <2>12, <2>13, <2>14, <2>15, <2>16, <2>17, <2>18
      DEF CommandStep
  <1>7. CASE UNCHANGED vars
    BY <1>3, <1>7 DEF vars, worldVars
  <1> QED
    BY <1>4, <1>5, <1>6, <1>7, NextIs


-----------------------------------------------------------------------------
(***************************************************************************)
(* What a command answers for, of a log that at most grows.                *)
(***************************************************************************)
Told == Base /\ Known /\ Seen /\ Signed

LEMMA ToldHolds == Spec => []Told
  <1>1. ASSUME Init PROVE Known /\ Seen /\ Signed
    <2>1. /\ call = Nothing /\ args = None /\ code = None /\ during = "still" /\ edits = {} /\ ~wild
          /\ WorldTyped
      BY <1>1, BaseInit DEF Init, Base
    <2>2. /\ call.loaded = None /\ call.verdict = None /\ call.report = None /\ call.anchor = None
          /\ call.judged = None
      BY <2>1, NothingIs DEF CallFields
    <2>3. Known
      BY <2>1, <2>2 DEF Known, LoadedLoads, VerdictKnown, Judging, ReportKnown, Printing, ZeroKnown,
        AnchorKnown, Trusted
    <2>4. Seen
      BY <2>1 DEF Seen, SeenStill, SeenGrowing
    <2>5. Signed
      BY <2>1, <2>2, LogIsStage, StageSigned DEF Signed, LogSigned, JudgedSigned
    <2> QED
      BY <2>3, <2>4, <2>5
  <1>2. ASSUME Base, Known /\ Seen /\ Signed, [Next]_vars PROVE (Known /\ Seen /\ Signed)'
    BY <1>2, KnownNext, SeenNext, SignedNext
  <1>3. Init => Known /\ Seen /\ Signed
    BY <1>1
  <1>4. Base /\ (Known /\ Seen /\ Signed) /\ [Next]_vars => (Known /\ Seen /\ Signed)'
    BY <1>2
  <1>5. Base /\ (Known /\ Seen /\ Signed) <=> Told
    BY DEF Told
  <1> QED
    BY <1>3, <1>4, <1>5, BaseHolds, PTL DEF Spec

LEMMA HalfFails ==
  ASSUME NEW h \in Histories
  PROVE  ~Loads(HalfWritten(h))
  <1> DEFINE it == HalfWritten(h)
             k  == Len(h) + 1
  <1>1. /\ it.entries \in Seq(Envelope) /\ Len(it.entries) = k /\ it.entries[k].form = "malformed"
    BY HalfWrittenIs
  <1>2. k \in Nat /\ k > 0
    BY HistoryTyped
  <1> HIDE DEF it, k
  <1>3. k \in Unparsed(it.entries)
    BY <1>1, <1>2 DEF Unparsed
  <1> QED
    BY <1>3 DEF Loads, it

\* A log that verifies under a pin is signed under the pinned key.
LEMMA PinnedSigned ==
  ASSUME NEW it \in LogFile \cup {None}, NEW pins, NEW r \in Outcomes(it, pins), r # Raised, r.ok,
         pins.trusted_spki_sha256 # None
  PROVE  SignedUnder(it.entries, pins.trusted_spki_sha256)
  <1>1. /\ it.entries \in Seq(Envelope)
        /\ spki_fingerprint(it.header.spki_der) = pins.trusted_spki_sha256
        /\ \A n \in 1..Len(it.entries) : it.entries[n].signature.key = it.header.spki_der
    BY ValidIs
  <1>2. DOMAIN it.entries = 1..Len(it.entries)
    BY <1>1
  <1> QED
    BY <1>1, <1>2 DEF SignedUnder

\* What verified when it was judged, and has at most grown since, is on disk.
LEMMA JudgedOnDisk ==
  ASSUME Told, args # None, Steady, call.judged # None, Loads(call.judged)
  PROVE  /\ IsPrefix(call.judged.entries, log.entries)
         /\ during = "still" => call.judged = log
         /\ during = "appended" => call.judged \in {Genuine(History), Closed}
         /\ call.judged \in LogFile
  <1>1. /\ WorldTyped /\ Seen /\ Data /\ History \in Histories
    BY DEF Told, Base, WorldTyped, RefOK
  <1>2. call.judged \in LogFile /\ call.judged.entries \in Seq(Envelope)
    BY <1>1, EntriesTyped DEF Data
  <1>3. during \in {"still", "appended"}
    BY <1>1 DEF Steady, WorldTyped
  <1>4. CASE during = "still"
    <2>1. call.judged = log
      BY <1>1, <1>4 DEF Seen, SeenStill
    <2> QED
      BY <1>2, <1>4, <2>1, PrefixIs
  <1>5. CASE during = "appended"
    <2>1. /\ edits = {} /\ ~wild /\ call.judged \in Stages(History)
          /\ call.judged = Closed => log = Closed
      BY <1>1, <1>5 DEF Seen, SeenGrowing
    <2>2. log \in Stages(History)
      BY <1>1, <2>1, LogIsStage
    <2>3. call.judged \in {Genuine(History), Closed}
      BY <1>1, <2>1, HalfFails DEF Stages, Closed
    <2>4. call.judged = Genuine(History) => IsPrefix(call.judged.entries, log.entries)
      BY <1>1, <2>2, StagesGrow
    <2>5. call.judged = Closed => IsPrefix(call.judged.entries, log.entries)
      BY <1>2, <2>1, PrefixIs
    <2> QED
      BY <1>2, <1>5, <2>3, <2>4, <2>5
  <1> QED
    BY <1>3, <1>4, <1>5

\* When inspect or export says VALID (pinned) of a log that at most grows, the
\* entries it prints, which are those of another read, are of the log that
\* verified, and signed under the pinned key.
THEOREM ShownVerified == Spec => []ShownIsVerified
  <1>1. ASSUME Told PROVE ShownIsVerified
    <2> SUFFICES ASSUME args # None, Command \in {"inspect", "export"}, code # None, Steady,
                        call.report # None, call.report.ok, call.report.pinned
                 PROVE  /\ IsPrefix(call.loaded.entries, call.judged.entries)
                        /\ SignedUnder(call.loaded.entries, args.pin)
      BY DEF ShownIsVerified, Ran
    <2> DEFINE r == call.verdict
               judged == call.judged
               loaded == call.loaded
    <2>1. /\ WorldTyped /\ Seen /\ Data /\ History \in Histories
          /\ VerdictKnown /\ ReportKnown /\ LoadedLoads
      BY <1>1 DEF Told, Base, Known, WorldTyped, RefOK
    <2>2. /\ r # None /\ call.report = ShownNow /\ loaded # None
      BY <2>1 DEF ReportKnown, Printing, Reading
    <2>3. r.ok /\ args.pin # None
      <3>1. PrintedNow.ok = r.ok
        <4>1. CASE Command = "inspect"
          BY <4>1 DEF PrintedNow
        <4>2. CASE Command = "export"
          BY <4>2 DEF PrintedNow
        <4> QED
          BY <4>1, <4>2
      <3>2. ShownNow.ok = PrintedNow.ok
        BY DEF ShownNow
      <3>3. ShownNow.pinned <=> args.pin # None
        BY DEF ShownNow
      <3> QED
        BY <2>2, <3>1, <3>2, <3>3
    <2>4. /\ r # Raised /\ r \in Outcomes(judged, Pins) /\ judged \in LogFile \cup {None}
          /\ loaded \in LogFile /\ Loads(loaded)
      BY <2>1, <2>2 DEF VerdictKnown, Judging, LoadedLoads, Data
    <2>5. Pins.trusted_spki_sha256 = args.pin
      BY DEF Pins
    <2>6. judged # None /\ Loads(judged) /\ judged.entries \in Seq(Envelope)
          /\ loaded.entries \in Seq(Envelope)
      BY <2>3, <2>4, ValidIs, EntriesTyped
    <2>7. SignedUnder(judged.entries, args.pin)
      BY <2>3, <2>4, <2>5, PinnedSigned
    <2>8. IsPrefix(loaded.entries, judged.entries)
      <3>1. during \in {"still", "appended"}
        BY <2>1 DEF Steady, WorldTyped
      <3>2. CASE during = "still"
        <4>1. judged = log /\ loaded = log
          BY <2>1, <2>2, <2>6, <3>2 DEF Seen, SeenStill
        <4> QED
          BY <2>6, <4>1, PrefixIs
      <3>3. CASE during = "appended"
        <4>1. /\ judged \in Stages(History) /\ loaded \in Stages(History)
              /\ loaded = Closed => judged = Closed
          BY <2>1, <2>2, <2>6, <3>3 DEF Seen, SeenGrowing
        <4>2. loaded \in {Genuine(History), Closed}
          BY <2>1, <2>4, <4>1, HalfFails DEF Stages, Closed
        <4>3. loaded = Genuine(History) => IsPrefix(loaded.entries, judged.entries)
          BY <2>1, <4>1, StagesGrow
        <4>4. loaded = Closed => IsPrefix(loaded.entries, judged.entries)
          BY <2>6, <4>1, PrefixIs
        <4> QED
          BY <4>2, <4>3, <4>4
      <3> QED
        BY <3>1, <3>2, <3>3
    <2>9. SignedUnder(loaded.entries, args.pin)
      <3> DEFINE a == loaded.entries
                 b == judged.entries
      <3>1. a \in Seq(Envelope) /\ b \in Seq(Envelope) /\ IsPrefix(a, b) /\ SignedUnder(b, args.pin)
        BY <2>6, <2>7, <2>8
      <3> HIDE DEF a, b
      <3>2. \A n \in DOMAIN a : n \in DOMAIN b /\ a[n] = b[n]
        BY <3>1, PrefixIs
      <3>3. SignedUnder(a, args.pin)
        BY <3>1, <3>2 DEF SignedUnder
      <3> QED
        BY <3>3 DEF a
    <2> QED
      BY <2>8, <2>9
  <1> QED
    BY <1>1, ToldHolds, PTL


LEMMA RaisedIsNoResult == Raised \notin VerifyResult
  <1>1. DOMAIN Raised = {"exception"}
    BY DEF Raised
  <1>2. \A r \in VerifyResult : "ok" \in DOMAIN r
    BY DEF VerifyResult
  <1> QED
    BY <1>1, <1>2

\* The exit code of verify, and what it is computed from.
LEMMA ZeroIs ==
  ASSUME NEW r, NEW a, VerifyReport(r, a).code = 0
  PROVE  /\ r.ok
         /\ args.require_ended => r.ended
         /\ a # None => a.ok /\ Witnessed
  <1>1. /\ r.ok
        /\ ~(args.require_ended /\ r.ok /\ ~r.ended)
        /\ ~(a # None /\ ~a.ok)
        /\ ~(a # None /\ a.ok /\ ~Witnessed)
    BY DEF VerifyReport
  <1> QED
    BY <1>1

\* Two starts of the writer's history: one is a start of the other.
LEMMA StartsCompare ==
  ASSUME NEW h \in Histories, NEW b \in Seq(Body), NEW k \in 1..(Len(h) + 1),
         b = SubSeq(Whole(h), 1, k)
  PROVE  IsPrefix(b, h) \/ IsPrefix(h, b)
  <1>1. /\ h \in Seq(Body) /\ Len(h) \in Nat /\ Whole(h) \in Seq(Body)
        /\ Len(Whole(h)) = Len(h) + 1 /\ \A n \in 1..Len(h) : Whole(h)[n] = h[n]
    BY HistoryTyped, WholeTyped
  <1> DEFINE w == Whole(h)
  <1> HIDE DEF w
  <1>2. Len(b) = k /\ \A n \in 1..k : b[n] = w[n]
    BY <1>1 DEF w
  <1>3. CASE k <= Len(h)
    <2>1. Len(b) <= Len(h) /\ \A n \in 1..Len(b) : b[n] = h[n]
      BY <1>1, <1>2, <1>3 DEF w
    <2> QED
      BY <1>1, <2>1, PrefixIs
  <1>4. CASE k > Len(h)
    <2>1. Len(h) <= Len(b) /\ \A n \in 1..Len(h) : h[n] = b[n]
      BY <1>1, <1>2, <1>4 DEF w
    <2> QED
      BY <1>1, <2>1, PrefixIs
  <1> QED
    BY <1>1, <1>3, <1>4

\* The writer's history is a start of what every stage of its log says.
LEMMA StageBodies ==
  ASSUME NEW h \in Histories, NEW it \in Stages(h)
  PROVE  IsPrefix(h, Bodies(it.entries))
  <1>1. /\ it.entries \in Seq(Envelope) /\ Len(h) \in Nat /\ Len(it.entries) >= Len(h)
        /\ \A n \in 1..Len(h) : it.entries[n] = Genuine(h).entries[n]
        /\ h \in Seq(Body)
    BY StageIs, HistoryTyped
  <1>2. /\ Genuine(h).entries \in Seq(Envelope) /\ Len(Genuine(h).entries) = Len(h)
        /\ Bodies(Genuine(h).entries) = h
    BY GenuineLogs
  <1> DEFINE a == Genuine(h).entries
             b == it.entries
  <1> HIDE DEF a, b
  <1>3. /\ a \in Seq(Envelope) /\ b \in Seq(Envelope) /\ Len(a) = Len(h) /\ Len(b) >= Len(h)
        /\ Bodies(a) = h /\ \A n \in 1..Len(h) : b[n] = a[n]
    BY <1>1, <1>2 DEF a, b
  <1>4. /\ \A n \in 1..Len(a) : Bodies(a)[n] = BodyOf(a[n].record)
        /\ Bodies(b) \in Seq(Body) /\ Len(Bodies(b)) = Len(b)
        /\ \A n \in 1..Len(b) : Bodies(b)[n] = BodyOf(b[n].record)
    BY <1>3, BodiesTyped
  <1>5. ASSUME NEW n \in 1..Len(h) PROVE h[n] = Bodies(b)[n]
    <2>1. n \in 1..Len(a) /\ n \in 1..Len(b) /\ b[n] = a[n]
      BY <1>1, <1>3
    <2> QED
      BY <1>3, <1>4, <2>1
  <1>6. IsPrefix(h, Bodies(b))
    BY <1>1, <1>3, <1>4, <1>5, PrefixIs
  <1> QED
    BY <1>6 DEF b

\* A log that verifies under the writer's key says what the writer wrote.
LEMMA OwnLogSays ==
  ASSUME NEW h \in Histories, NEW it \in LogFile, SignedWithin(h, it),
         NEW pins, NEW r \in Outcomes(it, pins), r # Raised, r.ok,
         pins.trusted_spki_sha256 = spki_fingerprint(WriterKey)
  PROVE  IsPrefix(Bodies(it.entries), h) \/ IsPrefix(h, Bodies(it.entries))
  <1> DEFINE b == Bodies(it.entries)
             n == Len(it.entries)
  <1>1. /\ it.entries \in Seq(Envelope) /\ n \in Nat /\ n > 0
        /\ spki_fingerprint(it.header.spki_der) = it.header.spki_sha256
        /\ pins.trusted_spki_sha256 \in {None, it.header.spki_sha256}
        /\ \A m \in 1..n :
              /\ it.entries[m].signature.key = it.header.spki_der
              /\ it.entries[m].signature.over = signed_digest(SubSeq(b, 1, m))
    BY ValidIs
  <1>2. it.header.spki_der = WriterKey
    <2>1. spki_fingerprint(WriterKey) # None
      BY HistoryTyped, FingerprintAssumption
    <2>2. spki_fingerprint(WriterKey) = spki_fingerprint(it.header.spki_der)
      BY <1>1, <2>1
    <2> QED
      BY <2>2 DEF spki_fingerprint
  <1>3. n \in 1..n
    BY <1>1
  <1>4. PICK k \in 1..(Len(h) + 1) :
           it.entries[n].signature.over = signed_digest(SubSeq(Whole(h), 1, k))
    BY <1>1, <1>2, <1>3 DEF SignedWithin
  <1>5. SubSeq(b, 1, n) = SubSeq(Whole(h), 1, k)
    <2> DEFINE one == SubSeq(b, 1, n)
               two == SubSeq(Whole(h), 1, k)
    <2>1. signed_digest(one) = signed_digest(two)
      BY <1>1, <1>3, <1>4
    <2> HIDE DEF one, two
    <2>2. signed_digest(one).entry_hash = one /\ signed_digest(two).entry_hash = two
      BY DEF signed_digest
    <2> QED
      BY <2>1, <2>2 DEF one, two
  <1>6. b \in Seq(Body) /\ Len(b) = n
    BY <1>1, BodiesTyped
  <1> HIDE DEF b, n
  <1>7. SubSeq(b, 1, n) = b
    BY <1>6, SubSeqFull
  <1> QED
    BY <1>5, <1>6, <1>7, StartsCompare DEF b


\* A log that verifies and matches the anchor of the trusted copy says all the
\* copy says.
LEMMA AnchoredSays ==
  ASSUME RefOK, NEW it \in LogFile, NEW res \in Outcomes(it, Unpinned), res \in VerifyResult,
         args.anchor = "published", Compared(res, it, Published).ok
  PROVE  IsPrefix(History, Bodies(it.entries))
  <1> DEFINE h == History
             b == Bodies(it.entries)
             k == Len(h)
  <1>1. /\ h \in Histories /\ h \in Seq(Body) /\ k \in Nat /\ k > 0
        /\ Published \in Token /\ Published.count = k
        /\ Published.head_entry_hash = Genuine(h).entries[k].entry_hash
    BY PublishedIs, HistoryTyped DEF RefOK
  <1>2. Genuine(h).entries[k].entry_hash = SubSeq(h, 1, k)
    <2>1. k \in 1..Len(h)
      BY <1>1
    <2>2. \A n \in 1..Len(h) : Genuine(h).entries[n].entry_hash = SubSeq(h, 1, n)
      BY <1>1, GenuineLogs
    <2> HIDE DEF k
    <2> QED
      BY <2>1, <2>2
  <1>3. SubSeq(h, 1, k) = h
    BY <1>1, SubSeqFull
  <1>4. res.ok /\ k \in 1..Len(it.entries) /\ it.entries[k].entry_hash = h
    BY <1>1, <1>2, <1>3, ComparedPasses
  <1>5. it.entries[k].entry_hash = SubSeq(b, 1, k) /\ it.entries \in Seq(Envelope)
    BY <1>4, RaisedIsNoResult, ValidIs
  <1>6. b \in Seq(Body) /\ Len(b) = Len(it.entries)
    BY <1>5, BodiesTyped
  <1>7. h = SubSeq(b, 1, k) /\ k <= Len(b)
    BY <1>4, <1>5, <1>6
  <1> HIDE DEF b, h, k
  <1>8. k = Len(h) /\ h \in Seq(Body) /\ \A n \in 1..k : h[n] = b[n]
    BY <1>1, <1>6, <1>7 DEF k
  <1>9. IsPrefix(h, b)
    BY <1>1, <1>6, <1>7, <1>8, PrefixIs
  <1> QED
    BY <1>9 DEF h, b

\* "Exits NONZERO on tamper or untrusted key": when verify exits 0 over a log
\* that at most grows meanwhile, the log is on disk as it was judged; it is
\* signed under the pinned key, unless the caller waived the pin; under the
\* writer's key it says what the trusted copy says; and what was asked of its
\* end, of the anchor and of the witnesses is so, although each was looked up
\* in a read of its own.
THEOREM ZeroAnswersAll == Spec => []ZeroMeansAsked
  <1>1. ASSUME Told PROVE ZeroMeansAsked
    <2> DEFINE judged == call.judged.entries
               copy   == Bodies(disk["reference"].entries)
               r      == call.verdict
               a      == call.anchor
    <2> SUFFICES ASSUME args # None, Command = "verify", code = 0, Steady
                 PROVE  /\ IsPrefix(judged, log.entries)
                        /\ IF args.pin = None THEN args.trust_log_header
                           ELSE SignedUnder(judged, args.pin)
                        /\ args.pin = spki_fingerprint(WriterKey) =>
                              IsPrefix(Bodies(judged), copy) \/ IsPrefix(copy, Bodies(judged))
                        /\ args.require_ended => Ended(Bodies(judged))
                        /\ args.anchor # None => IsPrefix(copy, Bodies(log.entries)) /\ Witnessed
      BY DEF ZeroMeansAsked, Ran
    <2>1. /\ WorldTyped /\ RefOK /\ Seen /\ Data /\ History \in Histories /\ copy = History
          /\ VerdictKnown /\ ZeroKnown /\ AnchorKnown /\ Trusted /\ JudgedSigned
      BY <1>1 DEF Told, Base, Known, Signed, WorldTyped, RefOK, History
    <2>2. /\ r # None /\ PrintedNow.code = 0 /\ (a = None <=> args.anchor = None)
      BY <2>1 DEF ZeroKnown
    <2>3. /\ r.ok /\ (args.require_ended => r.ended) /\ (a # None => a.ok /\ Witnessed)
      <3>1. VerifyReport(r, a).code = 0
        BY <2>2 DEF PrintedNow
      <3> HIDE DEF r, a
      <3> QED
        BY <3>1, ZeroIs
    <2>4. r # Raised /\ r \in Outcomes(call.judged, Pins) /\ call.judged \in LogFile \cup {None}
      BY <2>1, <2>2 DEF VerdictKnown, Judging, Data
    <2>5. Pins.trusted_spki_sha256 = args.pin
      BY DEF Pins
    <2>6. /\ call.judged # None /\ call.judged \in LogFile /\ Loads(call.judged)
          /\ judged \in Seq(Envelope) /\ judged # <<>> /\ Len(judged) \in Nat /\ Len(judged) > 0
          /\ r.ended = EndsSession(judged)
      BY <2>3, <2>4, ValidIs
    <2>7. IsPrefix(judged, log.entries)
      BY <1>1, <2>6, JudgedOnDisk
    <2>8. IF args.pin = None THEN args.trust_log_header ELSE SignedUnder(judged, args.pin)
      <3>1. args.pin = None => args.trust_log_header
        BY <2>1 DEF Trusted
      <3>2. args.pin # None => SignedUnder(judged, args.pin)
        BY <2>3, <2>4, <2>5, PinnedSigned
      <3> QED
        BY <3>1, <3>2
    <2>9. args.pin = spki_fingerprint(WriterKey) =>
            IsPrefix(Bodies(judged), copy) \/ IsPrefix(copy, Bodies(judged))
      BY <2>1, <2>3, <2>4, <2>5, <2>6, OwnLogSays DEF JudgedSigned
    <2>10. args.require_ended => Ended(Bodies(judged))
      <3> DEFINE b == Bodies(judged)
                 n == Len(judged)
      <3>1. /\ b \in Seq(Body) /\ Len(b) = n /\ n \in Nat /\ n > 0
            /\ b[n] = BodyOf(judged[n].record)
        BY <2>6, BodiesTyped
      <3>2. args.require_ended => judged[n].record.event_type = "session_end"
        BY <2>3, <2>6 DEF EndsSession
      <3>3. args.require_ended => b[n].event_type = "session_end"
        BY <3>1, <3>2, BodyFields
      <3> HIDE DEF b, n
      <3>4. b # <<>> /\ Last(b) = b[n]
        BY <3>1 DEF Last
      <3> QED
        BY <3>3, <3>4 DEF Ended, b
    <2>11. ASSUME args.anchor # None PROVE IsPrefix(copy, Bodies(log.entries)) /\ Witnessed
      <3>1. /\ args.anchor = "published" /\ call.checked \in VerifyResult /\ call.loaded \in LogFile
            /\ a = Compared(call.checked, call.loaded, TokenOf(disk["reference"])) /\ a.ok
            /\ Witnessed
        BY <2>1, <2>2, <2>3, <2>11 DEF AnchorKnown
      <3>2. Compared(call.checked, call.loaded, Published).ok
        BY <3>1, PublishedIsToken
      <3>3. during \in {"still", "appended"}
        BY <2>1 DEF Steady, WorldTyped
      <3>4. CASE during = "still"
        <4>1. /\ call.loaded \in {None, log} /\ (call.checked # None => call.checked \in Outcomes(log, Unpinned))
          BY <2>1, <3>4 DEF Seen, SeenStill
        <4>2. call.loaded # None /\ call.checked # None
          BY <3>1, AbsenceAssumption
        <4>3. call.loaded = log /\ call.checked \in Outcomes(call.loaded, Unpinned)
          BY <4>1, <4>2
        <4> QED
          BY <2>1, <3>1, <3>2, <4>3, AnchoredSays
      <3>5. CASE during = "appended"
        <4>1. log \in Stages(History)
          BY <2>1, <3>5, LogIsStage DEF Seen, SeenGrowing
        <4> QED
          BY <2>1, <3>1, <4>1, StageBodies
      <3> QED
        BY <3>3, <3>4, <3>5
    <2> QED
      BY <2>7, <2>8, <2>9, <2>10, <2>11
  <1> QED
    BY <1>1, ToldHolds, PTL


-----------------------------------------------------------------------------
(***************************************************************************)
(* What diff says of two logs.                                             *)
(***************************************************************************)
LEMMA BeyondIs ==
  ASSUME NEW a \in LogFile, NEW b \in LogFile
  PROVE  /\ Shorter(a, b) = Shorter(b, a) /\ Shorter(a, b) \in Nat
         /\ Shorter(a, b) <= Len(a.entries) /\ Shorter(a, b) <= Len(b.entries)
         /\ Shorter(a, b) \in {Len(a.entries), Len(b.entries)}
         /\ Len(Beyond(a, b)) = Len(a.entries) - Shorter(a, b)
         /\ Beyond(a, b) = <<>> <=> Len(a.entries) = Shorter(a, b)
  <1> DEFINE k == Shorter(a, b)
             m == Len(a.entries) - k
             s == Beyond(a, b)
  <1>1. Len(a.entries) \in Nat /\ Len(b.entries) \in Nat
    BY DEF LogFile
  <1>2. /\ k = Shorter(b, a) /\ k \in Nat /\ k <= Len(a.entries) /\ k <= Len(b.entries)
        /\ k \in {Len(a.entries), Len(b.entries)} /\ m \in Nat
    BY <1>1 DEF Shorter
  <1>3. s = [n \in 1..m |-> a.entries[k + n].record.sequence]
    BY DEF Beyond
  <1> HIDE DEF k, s
  <1>4. Len(s) = m /\ DOMAIN s = 1..m
    BY <1>2, <1>3
  <1>5. CASE m = 0
    <2>1. s = <<>>
      BY <1>3, <1>5
    <2> QED
      BY <1>1, <1>2, <1>4, <1>5, <2>1 DEF k, s
  <1>6. CASE m # 0
    <2>1. s # <<>>
      BY <1>2, <1>4, <1>6
    <2> QED
      BY <1>1, <1>2, <1>4, <1>6, <2>1 DEF k, s
  <1> QED
    BY <1>5, <1>6

\* Logs between which it finds no difference hold the same records.
LEMMA IdenticalAre ==
  ASSUME NEW a \in LogFile, NEW b \in LogFile, diff_chains(a, b).identical
  PROVE  Bodies(b.entries) = Bodies(a.entries)
  <1>1. entry_changes(a, b) = {} /\ Beyond(b, a) = <<>> /\ Beyond(a, b) = <<>>
    BY DEF diff_chains
  <1>2. /\ Len(a.entries) = Len(b.entries) /\ Shorter(a, b) = Len(a.entries)
        /\ a.entries \in Seq(Envelope) /\ b.entries \in Seq(Envelope) /\ Len(a.entries) \in Nat
    BY <1>1, BeyondIs DEF LogFile
  <1>3. ASSUME NEW n \in 1..Len(a.entries)
        PROVE  a.entries[n].record = b.entries[n].record
    <2>1. EntryDeltas(a, b, n) = {}
      BY <1>1, <1>2 DEF entry_changes
    <2>2. \A f \in RecordFields : Get(a.entries[n].record, f) = Get(b.entries[n].record, f)
      BY <2>1 DEF EntryDeltas
    <2>3. a.entries[n] \in Envelope /\ b.entries[n] \in Envelope
      BY <1>2
    <2>4. a.entries[n].record \in Record /\ b.entries[n].record \in Record
      BY <2>3 DEF Envelope
    <2> QED
      BY <2>2, <2>4, SameFields
  <1> QED
    BY <1>2, <1>3 DEF Bodies

\* A log and what became of it by edits, and perhaps an append: it says what was
\* edited, where, and what stood there.
LEMMA EditsAreTheDiff ==
  ASSUME NEW h \in Histories, NEW base \in Stages(h), NEW it \in LogFile, NEW made,
         EditedBy(base, it, made)
  PROVE  LET ref == Genuine(h)
             d == diff_chains(ref, it)
         IN  /\ d.header_changes = {} /\ d.removed = <<>>
             /\ d.entry_changes = {FieldDelta(e.at - 1, e.field, e.original, e.observed) :
                                      e \in {x \in made : x.at <= Len(ref.entries)}}
             /\ Len(d.added) = Len(it.entries) - Len(ref.entries)
  <1> DEFINE ref == Genuine(h)
             k == Len(h)
             common == {x \in made : x.at <= Len(ref.entries)}
             delta(e) == FieldDelta(e.at - 1, e.field, e.original, e.observed)
  <1>1. /\ ref \in LogFile /\ Len(ref.entries) = k /\ k \in Nat
        /\ \A n \in 1..k : base.entries[n] = ref.entries[n]
        /\ it.header = ref.header /\ k <= Len(it.entries) /\ k <= Len(base.entries)
        /\ Len(base.entries) \in Nat
    <2>1. k \in Nat
      BY HistoryTyped
    <2>2. ref \in LogFile /\ Len(ref.entries) = k
      BY GenuineLogs
    <2>3. /\ base.header = ref.header /\ \A n \in 1..k : base.entries[n] = ref.entries[n]
          /\ Len(base.entries) = IF base = ref THEN k ELSE k + 1
      BY StageIs
    <2>4. it.header = base.header /\ Len(it.entries) = Len(base.entries)
      BY DEF EditedBy
    <2> HIDE DEF ref, k
    <2> QED
      BY <2>1, <2>2, <2>3, <2>4
  <1>2. ASSUME NEW n \in 1..k PROVE ref.entries[n].record.sequence = n - 1
    <2>1. ref.entries[n] = EnvelopeOf(h, n, WriterKey, WriterLabel, spki_fingerprint(WriterKey))
      BY GenuineLogs
    <2>2. h[n].sequence = n - 1
      BY HistoryTyped DEF InOrder
    <2> QED
      BY <2>1, <2>2 DEF EnvelopeOf, RecordOf
  <1>3. /\ SameBut(base.entries, it.entries, made)
        /\ \A e \in made : EditOf(base.entries, it.entries, e)
    BY DEF EditedBy
  <1> HIDE DEF ref, k
  <1>4. /\ Shorter(ref, it) = k /\ Len(Beyond(it, ref)) = Len(it.entries) - k
        /\ Beyond(ref, it) = <<>>
    <2>1. Shorter(ref, it) = k /\ Shorter(it, ref) = k
      BY <1>1, BeyondIs DEF Shorter
    <2> QED
      BY <1>1, <2>1, BeyondIs
  <1>5. header_changes(ref, it) = {}
    BY <1>1 DEF header_changes
  <1>6. entry_changes(ref, it) \subseteq {delta(e) : e \in common}
    <2> SUFFICES ASSUME NEW n \in 1..k, NEW c \in EntryDeltas(ref, it, n)
                 PROVE  c \in {delta(e) : e \in common}
      BY <1>4 DEF entry_changes
    <2> DEFINE old == ref.entries[n].record
               new == it.entries[n].record
    <2>1. PICK f \in RecordFields : /\ Get(old, f) # Get(new, f)
                                    /\ c = FieldDelta(old.sequence, f, Get(old, f), Get(new, f))
      BY DEF EntryDeltas
    <2>2. base.entries[n] = ref.entries[n] /\ n \in 1..Len(base.entries)
      BY <1>1
    <2>3. PICK e \in made : e.at = n /\ e.field = f
      BY <1>3, <2>1, <2>2 DEF SameBut
    <2>4. e.original = Get(old, f) /\ e.observed = Get(new, f)
      BY <1>3, <2>2, <2>3 DEF EditOf
    <2>5. e \in common
      BY <1>1, <2>3
    <2>6. c = delta(e)
      BY <1>2, <2>1, <2>3, <2>4
    <2> QED
      BY <2>5, <2>6
  <1>7. {delta(e) : e \in common} \subseteq entry_changes(ref, it)
    <2> SUFFICES ASSUME NEW e \in common
                 PROVE  delta(e) \in entry_changes(ref, it)
      OBVIOUS
    <2> DEFINE n == e.at
               old == ref.entries[n].record
               new == it.entries[n].record
    <2>1. EditOf(base.entries, it.entries, e) /\ e.at <= k
      BY <1>1, <1>3
    <2>2. n \in 1..k
      BY <1>1, <2>1 DEF EditOf
    <2>3. base.entries[n] = ref.entries[n] /\ old.sequence = n - 1
      BY <1>1, <1>2, <2>2
    <2>4. /\ e.field \in RecordFields /\ e.original = Get(old, e.field)
          /\ e.observed = Get(new, e.field) /\ e.original # e.observed
      BY <2>1, <2>3, FieldKinds DEF EditOf
    <2>5. delta(e) \in EntryDeltas(ref, it, n)
      BY <2>3, <2>4 DEF EntryDeltas
    <2> QED
      BY <1>4, <2>2, <2>5 DEF entry_changes
  <1>8. entry_changes(ref, it) = {delta(e) : e \in common}
    BY <1>6, <1>7
  <1> HIDE DEF common, delta
  <1>9. LET d == diff_chains(ref, it)
        IN  /\ d.header_changes = header_changes(ref, it) /\ d.removed = Beyond(ref, it)
            /\ d.entry_changes = entry_changes(ref, it) /\ d.added = Beyond(it, ref)
    BY DEF diff_chains
  <1> QED
    BY <1>1, <1>4, <1>5, <1>8, <1>9 DEF ref, common, delta

-----------------------------------------------------------------------------
(***************************************************************************)
(* What diff compared, once it has.                                        *)
(***************************************************************************)
Differed ==
    args # None /\ Command = "diff" /\ call.report # None =>
        /\ code # None /\ call.loaded = disk["reference"]
        /\ call.judged \in LogFile /\ Loads(call.judged)
        /\ call.report = diff_chains(call.loaded, call.judged)
        /\ code = 0 => call.report.identical

\* The steps of diff.
LEMMA DiffSteps ==
  ASSUME Control, CommandStep, Command = "diff"
  PROVE  ReadReference \/ ReadTarget
  <1>1. todo # <<>>
    BY CommandAt
  <1>2. Referring \/ Targeting
    BY <1>1, WhereIs DEF Position, Opening, Loading, Verifying, Explaining, Anchoring, Comparing,
      Reporting, Editing, Checking, Reading
  <1>3. Head(todo) \in {"reference", "target"}
    BY <1>2, FixedHeads DEF Referring, Targeting
  <1> QED
    BY <1>3 DEF CommandStep, At, Detect, Load, Verify, Explain, ReadAnchor, AnchorDetect,
      AnchorVerify, AnchorLoad, Report, Edit, Check

LEMMA DifferedNext ==
  ASSUME Base, Differed, [Next]_vars
  PROVE  Differed'
  <1>1. CASE UNCHANGED commandVars /\ disk'["reference"] = disk["reference"]
    BY <1>1 DEF Differed, Command, commandVars
  <1>2. ASSUME NEW inv \in Invocations, Begin(inv) PROVE Differed'
    <2>1. call' = Nothing
      BY <1>2 DEF Begin
    <2> QED
      BY <2>1, NothingIs DEF Differed, CallFields
  <1>3. CASE CommandStep
    <2>1. /\ Control /\ todo # <<>> /\ args' = args /\ disk' = disk
          /\ log \in LogFile \cup {None} /\ call.report = None
      BY <1>3, CommandAt, FileTyped, NoReportYet DEF Base, worldVars
    <2> SUFFICES ASSUME args # None, Command = "diff", call'.report # None
                 PROVE  Differed'
      BY <2>1 DEF Differed, Command
    <2>2. \A fields : Only(fields) /\ "report" \notin fields => call'.report = None
      BY <2>1 DEF Only, CallFields
    <2>3. ~ReadReference
      BY <2>1, <2>2, ReadReferenceSays
    <2>4. /\ ReadTarget
      BY <1>3, <2>1, <2>3, DiffSteps
    <2>5. ~Crashed /\ call' # call
      BY <2>1, <2>2 DEF Crashed
    <2>6. /\ Loads(log) /\ Only({"report", "judged"}) /\ Targeting
          /\ call'.report = diff_chains(call.loaded, log) /\ call'.judged = log
          /\ code' = IF diff_chains(call.loaded, log).identical THEN 0 ELSE 1
      BY <2>1, <2>4, <2>5, ReadTargetSays
    <2>7. call'.loaded = call.loaded /\ call.loaded = disk["reference"]
      BY <2>6 DEF Only, CallFields, Targeting
    <2>8. log \in LogFile
      BY <2>1, <2>6 DEF Loads
    <2> QED
      BY <2>1, <2>6, <2>7, <2>8, NoneAssumption DEF Differed
  <1>4. CASE UNCHANGED vars
    BY <1>1, <1>4 DEF vars, commandVars, worldVars
  <1> QED
    BY <1>1, <1>2, <1>3, <1>4, NextIs

\* "The EXACT diff for EVERY field": a diff that exits 0 compared logs that hold
\* the same records, and of a log that was edited, whichever of its fields and
\* however often, and perhaps appended to, it says exactly what was edited,
\* where and from what, and how much was appended.
THEOREM DiffsAreExact == Spec => []DiffIsExact
  <1>1. Init => Differed
    BY NothingIs DEF Init, Differed, CallFields
  <1>2. Base /\ Differed /\ [Next]_vars => Differed'
    BY DifferedNext
  <1>3. ASSUME Told, Differed PROVE DiffIsExact
    <2> SUFFICES ASSUME args # None, Ran("diff"), call.report # None
                 PROVE  DiffIsExact
      BY DEF DiffIsExact
    <2> DEFINE ref == disk["reference"]
               d == call.report
               common == {e \in edits : e.at <= Len(call.loaded.entries)}
    <2>1. /\ call.loaded = ref /\ call.judged \in LogFile
          /\ d = diff_chains(call.loaded, call.judged) /\ (code = 0 => d.identical)
      BY <1>3 DEF Differed, Ran
    <2>2. ref \in LogFile /\ History \in Histories /\ ref = Genuine(History)
      BY <1>3, ReferenceIs DEF Told, Base, WorldTyped
    <2>3. code = 0 => Bodies(call.judged.entries) = Bodies(call.loaded.entries)
      BY <2>1, <2>2, IdenticalAre
    <2>4. ASSUME during = "still", ~wild
          PROVE  /\ d.header_changes = {} /\ d.removed = <<>>
                 /\ d.entry_changes =
                       {FieldDelta(e.at - 1, e.field, e.original, e.observed) : e \in common}
                 /\ Len(d.added) = Len(call.judged.entries) - Len(call.loaded.entries)
      <3>1. call.judged = log
        BY <1>3, <2>1, <2>4, AbsenceAssumption DEF Told, Seen, SeenStill
      <3>2. PICK base \in Stages(History) : EditedBy(base, log, edits)
        BY <1>3, <2>4 DEF Told, Base, WorldTyped
      <3>3. LET x == diff_chains(Genuine(History), log)
            IN  /\ x.header_changes = {} /\ x.removed = <<>>
                /\ x.entry_changes =
                      {FieldDelta(e.at - 1, e.field, e.original, e.observed) :
                         e \in {e \in edits : e.at <= Len(Genuine(History).entries)}}
                /\ Len(x.added) = Len(log.entries) - Len(Genuine(History).entries)
        <4>1. log \in LogFile
          BY <2>1, <3>1
        <4> QED
          BY <2>2, <3>2, <4>1, EditsAreTheDiff
      <3>4. d = diff_chains(Genuine(History), log) /\ call.loaded = Genuine(History)
        BY <2>1, <2>2, <3>1
      <3> QED
        BY <3>1, <3>3, <3>4
    <2> QED
      BY <2>3, <2>4 DEF DiffIsExact
  <1>4. Told /\ Differed => DiffIsExact
    BY <1>3
  <1> QED
    BY <1>1, <1>2, <1>4, BaseHolds, ToldHolds, PTL DEF Spec

-----------------------------------------------------------------------------
(***************************************************************************)
(* What localize_entry finds.                                              *)
(***************************************************************************)
LEMMA CandidateTyped ==
  ASSUME NEW rec \in Record, NEW f \in LowEntropyFields, NEW observed,
         NEW key \in Labels \cup {None}, NEW w \in Candidates(f, observed, key)
  PROVE  w \in ValuesOf(f) /\ w # observed
  <1>1. rec.payload \in Payloads
    BY DEF Record
  <1>2. CASE f = "event_type"
    BY <1>2 DEF Candidates, ValuesOf, PayloadFields
  <1>3. CASE f = "actor"
    <2>1. w \in ACTORS /\ w # observed
      BY <1>3 DEF Candidates
    <2> DEFINE Said(field) == {q[field] : q \in Payloads}
               p == [rec.payload EXCEPT !.actor = w]
    <2>2. Payloads = [tool_name: Said("tool_name"), actor: ACTORS, rest: Said("rest")]
      BY PayloadAssumption
    <2> HIDE DEF Said
    <2>3. p \in Payloads /\ p["actor"] = w
      BY <1>1, <2>1, <2>2
    <2> HIDE DEF p
    <2> QED
      BY <1>3, <2>1, <2>3 DEF ValuesOf, PayloadFields
  <1>4. CASE f = "tool_name"
    <2>1. w \in KNOWN_TOOL_NAMES \cup {None} /\ w # observed
      BY <1>4 DEF Candidates
    <2>2. KNOWN_TOOL_NAMES \cup {None} \subseteq {q["tool_name"] : q \in Payloads}
      BY PayloadAssumption
    <2> QED
      BY <1>4, <2>1, <2>2 DEF ValuesOf, PayloadFields
  <1>5. CASE f = "signer_key_id"
    BY <1>5 DEF Candidates, ValuesOf, PayloadFields
  <1> QED
    BY <1>2, <1>3, <1>4, <1>5 DEF LowEntropyFields

\* What is tried are the originals that can be recovered.
LEMMA CandidatesAre ==
  ASSUME NEW f \in FieldsEdited, NEW o \in ValuesOf(f), NEW observed, o # observed,
         NEW key \in Labels \cup {None}
  PROVE  f \in LowEntropyFields /\ o \in Candidates(f, observed, key)
         <=> Recoverable(FieldChange(f, o, observed), key)
  <1> DEFINE c == FieldChange(f, o, observed)
  <1>1. c.field = f /\ c.original = o
    BY DEF FieldChange
  <1> HIDE DEF c
  <1>2. CASE f = "event_type"
    BY <1>1, <1>2 DEF Candidates, ValuesOf, PayloadFields, LowEntropyFields, Recoverable, c
  <1>3. CASE f = "actor"
    <2>1. o \in ACTORS
      BY <1>3, PayloadIs DEF ValuesOf, PayloadFields
    <2>2. Recoverable(c, key)
      BY <1>1, <1>3 DEF Recoverable
    <2>3. o \in Candidates(f, observed, key)
      BY <1>3, <2>1 DEF Candidates
    <2> QED
      BY <1>3, <2>2, <2>3 DEF LowEntropyFields, c
  <1>4. CASE f = "tool_name"
    <2>1. Recoverable(c, key) <=> o \in KNOWN_TOOL_NAMES \cup {None}
      BY <1>1, <1>4 DEF Recoverable
    <2>2. o \in Candidates(f, observed, key) <=> o \in KNOWN_TOOL_NAMES \cup {None}
      BY <1>4 DEF Candidates
    <2> QED
      BY <1>4, <2>1, <2>2 DEF LowEntropyFields, c
  <1>5. CASE f = "signer_key_id"
    <2>1. Recoverable(c, key) <=> o = key
      BY <1>1, <1>5 DEF Recoverable
    <2>2. o # None
      BY <1>5, NoneAssumption DEF ValuesOf, PayloadFields
    <2>3. o \in Candidates(f, observed, key) <=> o = key
      BY <1>5, <2>2 DEF Candidates
    <2> QED
      BY <1>5, <2>1, <2>3 DEF LowEntropyFields, c
  <1>6. CASE f = "rest"
    BY <1>1, <1>6 DEF LowEntropyFields, Recoverable, c
  <1> QED
    BY <1>2, <1>3, <1>4, <1>5, <1>6 DEF FieldsEdited, LowEntropyFields

\* A value is found for a field exactly when it is what the field said and
\* nothing else has changed.
LEMMA MatchIs ==
  ASSUME NEW old \in Record, NEW new \in Record, NEW key \in Labels \cup {None},
         NEW f \in LowEntropyFields, NEW w \in Candidates(f, Get(new, f), key)
  PROVE  entry_hash(Put(new, f, w)) = entry_hash(old) <=>
           w = Get(old, f) /\ \A g \in RecordFields \ {f} : Get(new, g) = Get(old, g)
  <1> DEFINE put == Put(new, f, w)
  <1>1. w \in ValuesOf(f) /\ f \in FieldsEdited
    BY CandidateTyped DEF FieldsEdited
  <1>2. put \in Record /\ Get(put, f) = w /\ \A g \in RecordFields \ {f} : Get(put, g) = Get(new, g)
    BY <1>1, PutTyped
  <1> HIDE DEF put
  <1>3. ASSUME entry_hash(put) = entry_hash(old)
        PROVE  w = Get(old, f) /\ \A g \in RecordFields \ {f} : Get(new, g) = Get(old, g)
    <2>1. put = old
      BY <1>2, <1>3, HashIsRecord
    <2> QED
      BY <1>2, <2>1
  <1>4. ASSUME w = Get(old, f), \A g \in RecordFields \ {f} : Get(new, g) = Get(old, g)
        PROVE  entry_hash(put) = entry_hash(old)
    <2>1. \A g \in RecordFields : Get(put, g) = Get(old, g)
      BY <1>2, <1>4
    <2>2. put = old
      BY <1>2, <2>1, SameFields
    <2> QED
      BY <2>2
  <1> QED
    BY <1>3, <1>4 DEF put

\* What is found was the original.
LEMMA FoundWas ==
  ASSUME NEW old \in Record, NEW new \in Record, NEW key \in Labels \cup {None},
         NEW c \in localize_entry(new, entry_hash(old), key).changes
  PROVE  \E f \in LowEntropyFields :
            /\ c = FieldChange(f, Get(old, f), Get(new, f)) /\ Get(old, f) # Get(new, f)
            /\ Get(old, f) \in Candidates(f, Get(new, f), key)
            /\ \A g \in RecordFields \ {f} : Get(new, g) = Get(old, g)
  <1>1. c \in Matches(new, entry_hash(old), key)
    BY DEF localize_entry, LocalizeResult
  <1>2. PICK f \in LowEntropyFields :
           \E w \in {x \in Candidates(f, Get(new, f), key) :
                        entry_hash(Put(new, f, x)) = entry_hash(old)} :
              c = FieldChange(f, w, Get(new, f))
    BY <1>1 DEF Matches
  <1>3. PICK w \in Candidates(f, Get(new, f), key) :
           entry_hash(Put(new, f, w)) = entry_hash(old) /\ c = FieldChange(f, w, Get(new, f))
    BY <1>2
  <1>4. w = Get(old, f) /\ \A g \in RecordFields \ {f} : Get(new, g) = Get(old, g)
    BY <1>3, MatchIs
  <1>5. w # Get(new, f)
    BY <1>3, CandidateTyped
  <1> QED
    BY <1>3, <1>4, <1>5

\* One field was edited: it is found if it can be, and nothing else is.
LEMMA OneEditIsFound ==
  ASSUME NEW old \in Record, NEW new \in Record, NEW key \in Labels \cup {None},
         NEW f \in FieldsEdited, Get(old, f) # Get(new, f),
         \A g \in RecordFields \ {f} : Get(new, g) = Get(old, g)
  PROVE  LET c == FieldChange(f, Get(old, f), Get(new, f))
         IN  localize_entry(new, entry_hash(old), key).changes =
                IF Recoverable(c, key) THEN {c} ELSE {}
  <1> DEFINE c == FieldChange(f, Get(old, f), Get(new, f))
             x == localize_entry(new, entry_hash(old), key)
             found == Matches(new, entry_hash(old), key)
  <1>1. new # old
    OBVIOUS
  <1>2. entry_hash(new) # entry_hash(old)
    BY <1>1, HashIsRecord
  <1>3. x.changes = found
    <2>1. CASE found # {}
      BY <1>2, <2>1 DEF localize_entry, LocalizeResult
    <2>2. CASE found = {}
      BY <1>2, <2>2 DEF localize_entry, LocalizeResult
    <2> QED
      BY <2>1, <2>2
  <1>4. Get(old, f) \in ValuesOf(f) /\ f \in RecordFields
    BY GetTyped, FieldKinds
  <1>5. f \in LowEntropyFields /\ Get(old, f) \in Candidates(f, Get(new, f), key) <=> Recoverable(c, key)
    BY <1>4, CandidatesAre
  <1>6. ASSUME NEW d \in x.changes PROVE d = c /\ Recoverable(c, key)
    <2>1. PICK g \in LowEntropyFields :
            /\ d = FieldChange(g, Get(old, g), Get(new, g)) /\ Get(old, g) # Get(new, g)
            /\ Get(old, g) \in Candidates(g, Get(new, g), key)
            /\ \A r \in RecordFields \ {g} : Get(new, r) = Get(old, r)
      BY <1>6, FoundWas
    <2>2. g = f
      BY <1>4, <2>1
    <2> QED
      BY <1>5, <2>1, <2>2
  <1>7. ASSUME Recoverable(c, key) PROVE c \in x.changes
    <2>1. f \in LowEntropyFields /\ Get(old, f) \in Candidates(f, Get(new, f), key)
      BY <1>5, <1>7
    <2>2. entry_hash(Put(new, f, Get(old, f))) = entry_hash(old)
      BY <2>1, MatchIs
    <2>3. c \in found
      BY <2>1, <2>2 DEF Matches
    <2> QED
      BY <1>3, <2>3
  <1> HIDE DEF c, x
  <1> QED
    BY <1>6, <1>7 DEF c, x

-----------------------------------------------------------------------------
(***************************************************************************)
(* The copy that tamper edits: its chosen entry is one whose record had    *)
(* the stored hash, and of which the one field was given another value.    *)
(***************************************************************************)
OneEdit(old, new, f) ==
    /\ old \in Record /\ new \in Record /\ f \in FieldsEdited
    /\ Get(old, f) # Get(new, f) /\ \A g \in RecordFields \ {f} : Get(new, g) = Get(old, g)

Copied ==
    LET n == Chosen(call.loaded.entries)
        e == call.copy.entries[n]
    IN  /\ call.copy \in LogFile /\ n \in DOMAIN call.copy.entries
        /\ call.copy.medium = "text" /\ e.form = "object"
        /\ call.loaded.header.key_id \in Labels
        /\ \E old \in Record :
              /\ e.entry_hash = entry_hash(old) /\ OneEdit(old, e.record, args.field)
              /\ call.made = FieldChange(args.field, Get(old, args.field), Get(e.record, args.field))

Caught ==
    /\ code = 0
    /\ call.explained.changes =
          IF Recoverable(call.made, call.loaded.header.key_id) THEN {call.made} ELSE {}

Tampered ==
    args # None /\ Command = "tamper" =>
        /\ call.copy = None => call.made = None /\ (code = 1 => call.crashed)
        /\ call.copy # None /\ Steady =>
              Copied /\ (code # None /\ ~call.crashed => Caught)

\* The steps of tamper.
LEMMA TamperSteps ==
  ASSUME Control, CommandStep, Command = "tamper"
  PROVE  \/ Detect /\ Opening
         \/ Load /\ Loading
         \/ Verify /\ Verifying
         \/ Edit /\ Editing
         \/ Check /\ Checking
  <1>1. todo # <<>>
    BY CommandAt
  <1>2. CASE Detect
    BY <1>1, <1>2, WhereIs DEF Detect, At
  <1>3. CASE Load
    BY <1>1, <1>3, WhereIs DEF Load, At
  <1>4. CASE Verify
    BY <1>1, <1>4, WhereIs DEF Verify, At
  <1>5. CASE Explain
    BY <1>1, <1>5, WhereIs DEF Explain, At, Explaining
  <1>6. CASE ReadAnchor
    BY <1>1, <1>6, WhereIs DEF ReadAnchor, At, Anchoring
  <1>7. CASE AnchorDetect
    BY <1>1, <1>7, WhereIs DEF AnchorDetect, At, Anchoring, Comparing
  <1>8. CASE AnchorVerify
    BY <1>1, <1>8, WhereIs DEF AnchorVerify, At, Anchoring
  <1>9. CASE AnchorLoad
    BY <1>1, <1>9, WhereIs DEF AnchorLoad, At, Comparing
  <1>10. CASE Report
    BY <1>1, <1>10, WhereIs DEF Report, At, Reporting
  <1>11. CASE Edit
    BY <1>1, <1>11, WhereIs DEF Edit, At
  <1>12. CASE Check
    BY <1>1, <1>12, WhereIs DEF Check, At
  <1>13. CASE ReadReference
    BY <1>1, <1>13, WhereIs DEF ReadReference, At, Referring
  <1>14. CASE ReadTarget
    BY <1>1, <1>14, WhereIs DEF ReadTarget, At, Targeting
  <1> QED
    BY <1>2, <1>3, <1>4, <1>5, <1>6, <1>7, <1>8, <1>9, <1>10, <1>11, <1>12, <1>13, <1>14
    DEF CommandStep

\* The entry that is chosen is one of the log's.
LEMMA ChosenIs ==
  ASSUME NEW entries \in Seq(Envelope), entries # <<>>
  PROVE  Chosen(entries) \in 1..Len(entries)
  <1> DEFINE T == ToolEvents(entries)
  <1>1. Len(entries) \in Nat /\ Len(entries) > 0 /\ DOMAIN entries = 1..Len(entries)
    BY EmptySeq
  <1>2. CASE T = {}
    BY <1>1, <1>2 DEF Chosen
  <1>3. CASE T # {}
    <2>1. T \subseteq 1..Len(entries)
      BY <1>1 DEF ToolEvents
    <2> HIDE DEF T
    <2>2. T \in SUBSET Nat
      BY <1>1, <2>1
    <2>3. \E k \in T : \A m \in T : k <= m
      BY <1>3, <2>2, LeastNatural
    <2>4. Least(T) \in T
      BY <2>3 DEF Least
    <2>5. Chosen(entries) = Least(T)
      BY <1>3 DEF Chosen, T
    <2> QED
      BY <2>1, <2>4, <2>5
  <1> QED
    BY <1>2, <1>3

\* The entry that tamper edits has the hash that is stored: the log, as it is by
\* now, is the one that verified, or a log of the same history.
LEMMA EditedEntryIs ==
  ASSUME Told, Editing, todo # <<>>, Steady, log \in LogFile,
         Chosen(call.loaded.entries) \in DOMAIN log.entries
  PROVE  LET e == log.entries[Chosen(call.loaded.entries)]
         IN  /\ e.form = "object" /\ e.record \in Record /\ e.entry_hash = entry_hash(e.record)
             /\ call.loaded.header.key_id \in Labels
  <1> DEFINE n == Chosen(call.loaded.entries)
  <1>1. /\ WorldTyped /\ Control /\ Data /\ Known /\ Seen /\ History \in Histories
        /\ args # None /\ Command = "tamper" /\ call.verdict # None /\ call.loaded # None
    BY NoneYet DEF Told, Base, WorldTyped, RefOK, Editing
  <1>2. /\ call.loaded \in LogFile /\ Loads(call.loaded) /\ call.loaded.entries # <<>>
        /\ call.judged \in LogFile \cup {None}
    BY <1>1 DEF Data, Known, LoadedLoads
  <1>3. call.loaded.header.key_id \in Labels /\ call.loaded.entries \in Seq(Envelope)
    BY <1>2 DEF LogFile, Header
  <1>4. during \in {"still", "appended"}
    BY <1>1 DEF Steady, WorldTyped
  <1>5. log.entries \in Seq(Envelope) /\ DOMAIN log.entries = 1..Len(log.entries)
    BY DEF LogFile
  <1> HIDE DEF n
  <1>6. CASE during = "still"
    <2>1. /\ call.verdict # Raised /\ call.verdict \in Outcomes(call.judged, Pins)
          /\ call.verdict.ok
      BY <1>1 DEF Known, VerdictKnown, Judging
    <2>2. call.judged # None /\ \A m \in 1..Len(call.judged.entries) :
              /\ call.judged.entries[m].form = "object" /\ call.judged.entries[m].record \in Record
              /\ call.judged.entries[m].entry_hash = entry_hash(call.judged.entries[m].record)
      BY <1>2, <2>1, ValidIs
    <2>3. call.judged = log
      BY <1>1, <1>6, <2>2 DEF Seen, SeenStill
    <2> QED
      BY <1>3, <1>5, <2>2, <2>3 DEF n
  <1>7. CASE during = "appended"
    <2>1. /\ edits = {} /\ ~wild /\ call.loaded \in Stages(History)
          /\ call.loaded = Closed => log = Closed
      BY <1>1, <1>7 DEF Seen, SeenGrowing
    <2>2. log \in Stages(History)
      BY <1>1, <2>1, LogIsStage
    <2>3. call.loaded \in {Genuine(History), Closed}
      BY <1>1, <1>2, <2>1, HalfFails DEF Stages, Closed
    <2>4. \A m \in 1..Len(log.entries) :
             /\ log.entries[m].record \in Record
             /\ log.entries[m].entry_hash = entry_hash(log.entries[m].record)
             /\ IF log = HalfWritten(History) /\ m = Len(History) + 1
                THEN log.entries[m].form = "malformed" ELSE log.entries[m].form = "object"
      BY <1>1, <2>2, StageIs
    <2>5. log # HalfWritten(History) \/ n # Len(History) + 1
      <3>1. CASE call.loaded = Closed
        BY <1>1, <2>1, <3>1, StagesDiffer DEF Closed
      <3>2. CASE call.loaded = Genuine(History)
        <4>1. Len(call.loaded.entries) = Len(History) /\ Len(History) \in Nat
          BY <1>1, <3>2, GenuineLogs, HistoryTyped
        <4>2. n \in 1..Len(History)
          BY <1>2, <1>3, <4>1, ChosenIs DEF n
        <4> QED
          BY <4>1, <4>2
      <3> QED
        BY <2>3, <3>1, <3>2
    <2>6. n \in 1..Len(log.entries)
      BY <1>5 DEF n
    <2> QED
      BY <1>3, <2>4, <2>5, <2>6 DEF n
  <1> QED
    BY <1>4, <1>6, <1>7

\* Writing another value into a field is one edit.
LEMMA PutIsOneEdit ==
  ASSUME NEW rec \in Record, NEW f \in FieldsEdited, NEW v \in ValuesOf(f), v # Get(rec, f)
  PROVE  OneEdit(rec, Put(rec, f, v), f)
  BY PutTyped DEF OneEdit

LEMMA CopiedByEdit ==
  ASSUME Told, Edit, Steady, log \in LogFile \cup {None}, ~Crashed
  PROVE  /\ call'.copy \in LogFile /\ Goes /\ call'.loaded = call.loaded /\ args' = args
         /\ Copied'
  <1> DEFINE n == Chosen(call.loaded.entries)
             e == log.entries[n]
             f == args.field
  <1>1. Control /\ todo # <<>> /\ args' = args
    BY DEF Told, Base, Edit, At
  <1>2. /\ Editing /\ log \in LogFile /\ Goes /\ n \in DOMAIN log.entries /\ log.medium = "text"
        /\ \/ e.form = "malformed" /\ call'.copy = log /\ Only({"copy"})
           \/ /\ e.form = "object" /\ e.record \in Record
              /\ \E v \in ValuesOf(f) :
                    /\ v # Get(e.record, f) /\ f \in FieldsEdited \ {"signer_key_id", "rest"}
                    /\ Put(e.record, f, v) \in Record
                    /\ WithRecord(log, n, Put(e.record, f, v)) \in LogFile
                    /\ call'.copy = WithRecord(log, n, Put(e.record, f, v))
                    /\ call'.made = FieldChange(f, Get(e.record, f), v)
                    /\ Only({"copy", "made"})
    BY <1>1, EditSays
  <1>3. /\ e.form = "object" /\ e.record \in Record /\ e.entry_hash = entry_hash(e.record)
        /\ call.loaded.header.key_id \in Labels
    BY <1>1, <1>2, EditedEntryIs
  <1>4. PICK v \in ValuesOf(f) :
           /\ v # Get(e.record, f) /\ f \in FieldsEdited
           /\ Put(e.record, f, v) \in Record
           /\ call'.copy = WithRecord(log, n, Put(e.record, f, v))
           /\ call'.made = FieldChange(f, Get(e.record, f), v)
           /\ Only({"copy", "made"})
    <2>1. e.form # "malformed"
      BY <1>3
    <2> HIDE DEF e, n, f
    <2> QED
      BY <1>2, <2>1
  <1> DEFINE new == Put(e.record, f, v)
             copy == WithRecord(log, n, new)
  <1>5. OneEdit(e.record, new, f) /\ Get(new, f) = v
    BY <1>3, <1>4, PutIsOneEdit, PutTyped
  <1>6. /\ copy \in LogFile /\ copy.medium = "text" /\ DOMAIN copy.entries = DOMAIN log.entries
        /\ copy.entries[n].record = new /\ copy.entries[n].form = "object"
        /\ copy.entries[n].entry_hash = entry_hash(e.record)
    <2>1. log \in LogFile /\ n \in DOMAIN log.entries /\ new \in Record /\ log.medium = "text"
      BY <1>2, <1>4
    <2> HIDE DEF new, n
    <2>2. /\ copy \in LogFile /\ copy.medium = log.medium /\ DOMAIN copy.entries = DOMAIN log.entries
          /\ copy.entries[n].record = new /\ copy.entries[n].form = log.entries[n].form
          /\ copy.entries[n].entry_hash = log.entries[n].entry_hash
      BY <2>1, WithRecordIs
    <2> HIDE DEF copy
    <2> QED
      BY <1>3, <2>1, <2>2
  <1>7. /\ call'.loaded = call.loaded /\ call'.copy = copy
        /\ call'.made = FieldChange(f, Get(e.record, f), Get(new, f))
    BY <1>4, <1>5 DEF Only, CallFields
  <1> HIDE DEF copy, new, e
  <1>8. Copied'
    BY <1>1, <1>2, <1>3, <1>5, <1>6, <1>7 DEF Copied
  <1> QED
    BY <1>1, <1>2, <1>6, <1>7, <1>8

\* A log with such an entry fails, and the edit is found if it can be.
LEMMA CopyFails ==
  ASSUME Copied, NEW r \in Outcomes(call.copy, Unpinned), r # Raised
  PROVE  ~r.ok
  <1> DEFINE n == Chosen(call.loaded.entries)
             e == call.copy.entries[n]
  <1>1. call.copy \in LogFile /\ n \in DOMAIN call.copy.entries
    BY DEF Copied
  <1>2. PICK old \in Record : e.entry_hash = entry_hash(old) /\ OneEdit(old, e.record, args.field)
    BY DEF Copied
  <1>3. DOMAIN call.copy.entries = 1..Len(call.copy.entries)
    BY <1>1 DEF LogFile
  <1> HIDE DEF n
  <1> SUFFICES ASSUME r.ok PROVE FALSE
    OBVIOUS
  <1>4. \A m \in 1..Len(call.copy.entries) :
           call.copy.entries[m].entry_hash = entry_hash(call.copy.entries[m].record)
    BY <1>1, ValidIs
  <1>5. entry_hash(old) = entry_hash(e.record)
    BY <1>1, <1>2, <1>3, <1>4
  <1> HIDE DEF e
  <1>6. old = e.record
    BY <1>2, <1>5, HashIsRecord DEF OneEdit
  <1> QED
    BY <1>2, <1>6 DEF OneEdit

LEMMA CopyExplained ==
  ASSUME Copied, NEW x \in Explanations(call.copy, Chosen(call.loaded.entries),
                                        call.loaded.header.key_id), x # Raised
  PROVE  x.changes = IF Recoverable(call.made, call.loaded.header.key_id) THEN {call.made} ELSE {}
  <1> DEFINE n == Chosen(call.loaded.entries)
             e == call.copy.entries[n]
             key == call.loaded.header.key_id
             f == args.field
  <1>1. /\ call.copy \in LogFile /\ n \in DOMAIN call.copy.entries /\ call.copy.medium = "text"
        /\ e.form = "object" /\ key \in Labels
    BY DEF Copied
  <1>2. PICK old \in Record :
           /\ e.entry_hash = entry_hash(old) /\ OneEdit(old, e.record, f)
           /\ call.made = FieldChange(f, Get(old, f), Get(e.record, f))
    BY DEF Copied
  <1>3. x = localize_entry(e.record, e.entry_hash, key)
    <2>1. call.copy # None
      BY <1>1, AbsenceAssumption
    <2>2. Explanations(call.copy, n, key) =
            IF e.record.payload \in Unencodable THEN {Raised}
            ELSE {localize_entry(e.record, e.entry_hash, key)}
      BY <1>1, <2>1 DEF Explanations
    <2>3. x \in Explanations(call.copy, n, key) /\ x # Raised
      OBVIOUS
    <2> HIDE DEF e, n, key
    <2> QED
      BY <2>2, <2>3
  <1> HIDE DEF e, key, f
  <1>4. x = localize_entry(e.record, entry_hash(old), key)
    BY <1>2, <1>3
  <1>5. x.changes = IF Recoverable(call.made, key) THEN {call.made} ELSE {}
    <2> DEFINE c == FieldChange(f, Get(old, f), Get(e.record, f))
    <2>1. localize_entry(e.record, entry_hash(old), key).changes =
             IF Recoverable(c, key) THEN {c} ELSE {}
      BY <1>1, <1>2, OneEditIsFound DEF OneEdit
    <2>2. call.made = c
      BY <1>2
    <2> HIDE DEF c
    <2> QED
      BY <1>4, <2>1, <2>2
  <1> QED
    BY <1>5 DEF key

LEMMA TamperedStep ==
  ASSUME Told, Tampered, CommandStep
  PROVE  Tampered'
  <1>1. /\ Control /\ todo # <<>> /\ args' = args /\ during' = during /\ code = None
        /\ disk[Head(files)] \in LogFile \cup {None} /\ log \in LogFile \cup {None}
        /\ args # None
    BY CommandAt, FileTyped, NoneYet DEF Told, Base, WorldTyped
  <1> SUFFICES ASSUME Command = "tamper"
               PROVE  /\ call'.copy = None => call'.made = None /\ (code' = 1 => call'.crashed)
                      /\ call'.copy # None /\ Steady =>
                            Copied' /\ (code' # None /\ ~call'.crashed => Caught')
    BY <1>1 DEF Tampered, Command, Steady
  <1>2. ASSUME Only({"verdict", "judged", "loaded", "crashed"}), call.copy = None, call.made = None,
               code' # 1 \/ call'.crashed
        PROVE  call'.copy = None /\ call'.made = None /\ (code' = 1 => call'.crashed)
    BY <1>2 DEF Only, CallFields
  <1>3. CASE (Detect /\ Opening) \/ (Load /\ Loading) \/ (Verify /\ Verifying)
    <2>1. call.copy = None /\ call.made = None
      BY <1>3 DEF Opening, Loading, Verifying, Unset, CallFields
    <2>2. code # 1 /\ Refusal = 2
      BY <1>1, NoneAssumption DEF Refusal
    <2>3. Crashed => Only({"verdict", "judged", "loaded", "crashed"}) /\ call'.crashed
      BY DEF Crashed, Only
    <2>4. call' = call => Only({"verdict", "judged", "loaded", "crashed"})
      BY DEF Only
    <2>5. CASE Detect
      BY <1>1, <1>2, <2>1, <2>2, <2>3, <2>4, <2>5, DetectSays DEF Goes
    <2>6. CASE Load
      <3>1. Only({"loaded"}) => Only({"verdict", "judged", "loaded", "crashed"})
        BY DEF Only
      <3> QED
        BY <1>1, <1>2, <2>1, <2>2, <2>3, <2>4, <2>6, <3>1, LoadSays DEF Goes
    <2>7. CASE Verify
      <3>1. Only({"verdict", "judged"}) => Only({"verdict", "judged", "loaded", "crashed"})
        BY DEF Only
      <3>2. Crashed \/ (Only({"verdict", "judged"}) /\ code' \in {2, code})
        BY <1>1, <2>7, VerifySays
      <3> QED
        BY <1>2, <2>1, <2>2, <2>3, <3>1, <3>2
    <2> QED
      BY <1>3, <2>5, <2>6, <2>7
  <1>4. CASE Edit /\ Editing
    <2>1. call.copy = None /\ call.made = None
      BY <1>4 DEF Editing, Unset
    <2>2. CASE Crashed
      BY <1>2, <2>1, <2>2 DEF Crashed, Only
    <2>3. CASE ~Crashed /\ Steady
      <3>1. call'.copy \in LogFile /\ Goes /\ Copied'
        BY <1>1, <1>4, <2>3, CopiedByEdit
      <3>2. call'.copy # None /\ code' = None
        BY <1>1, <3>1, AbsenceAssumption DEF Goes
      <3> QED
        BY <3>1, <3>2
    <2>4. CASE ~Crashed /\ ~Steady
      <3>1. call'.copy \in LogFile
        BY <1>1, <1>4, <2>4, EditSays
      <3> QED
        BY <2>4, <3>1, AbsenceAssumption
    <2> QED
      BY <2>2, <2>3, <2>4
  <1>5. CASE Check /\ Checking
    <2>1. call.copy # None
      BY <1>5 DEF Checking
    <2>2. /\ call'.copy = call.copy /\ call'.loaded = call.loaded /\ call'.made = call.made
      BY <1>1, <1>5, CheckSays DEF Crashed, Only, CallFields
    <2>3. Copied => Copied'
      BY <1>1, <2>2 DEF Copied
    <2> SUFFICES ASSUME Steady PROVE Copied' /\ (code' # None /\ ~call'.crashed => Caught')
      BY <2>1, <2>2
    <2>4. Copied
      BY <1>1, <2>1 DEF Tampered
    <2>5. ASSUME ~call'.crashed PROVE Caught'
      <3>1. ~Crashed
        BY <2>5 DEF Crashed
      <3>2. PICK r \in Outcomes(call.copy, Unpinned) :
               /\ r # Raised
               /\ \/ r.ok /\ call' = call /\ code' = 1
                  \/ /\ ~r.ok /\ code' = 0 /\ call'.verdict = r /\ Only({"verdict", "explained"})
                     /\ \E x \in Explanations(call.copy, Chosen(call.loaded.entries),
                                              call.loaded.header.key_id) :
                           x # Raised /\ call'.explained = x
        BY <1>1, <1>5, <3>1, CheckSays
      <3>3. ~r.ok
        BY <2>4, <3>2, CopyFails
      <3>4. code' = 0 /\ \E x \in Explanations(call.copy, Chosen(call.loaded.entries),
                                               call.loaded.header.key_id) :
                           x # Raised /\ call'.explained = x
        BY <3>2, <3>3
      <3>5. call'.explained.changes =
              IF Recoverable(call.made, call.loaded.header.key_id) THEN {call.made} ELSE {}
        BY <2>4, <3>4, CopyExplained
      <3> QED
        BY <2>2, <3>4, <3>5 DEF Caught
    <2> QED
      BY <2>3, <2>4, <2>5
  <1> QED
    BY <1>1, <1>3, <1>4, <1>5, TamperSteps

LEMMA TamperedNext ==
  ASSUME Told, Tampered, [Next]_vars
  PROVE  Tampered'
  <1>1. ASSUME UNCHANGED commandVars, during' = "changed" \/ during # "changed" PROVE Tampered'
    <2>1. Copied' = Copied /\ Caught' = Caught
      BY <1>1 DEF Copied, Caught, commandVars
    <2> QED
      BY <1>1, <2>1 DEF Tampered, Command, Steady, commandVars
  <1>2. WorldDoes => during' = "changed" \/ during # "changed"
    BY DEF WorldDoes, Worse
  <1>3. ASSUME NEW inv \in Invocations, Begin(inv) PROVE Tampered'
    <2>1. /\ call' = Nothing /\ args' = inv /\ (code' = 1 => inv.command = "verify-all")
      BY <1>3, BeginKeeps DEF Told, Base
    <2>2. call'.copy = None /\ call'.made = None
      BY <2>1, NothingIs DEF CallFields
    <2> QED
      BY <2>1, <2>2 DEF Tampered, Command
  <1>4. CASE UNCHANGED vars
    BY <1>1, <1>4 DEF vars, worldVars, commandVars
  <1> QED
    BY <1>1, <1>2, <1>3, <1>4, TamperedStep, NextIs DEF Told

\* "No edit to a committed record can go unnoticed": the copy in which tamper has
\* edited a field of a log that verified, and has at most grown, never passes, and
\* what the field said is recovered exactly when it is one of the values tried.
THEOREM TampersAreCaught == Spec => []TamperIsCaught
  <1>1. Init => Tampered
    BY DEF Init, Tampered
  <1>2. Told /\ Tampered /\ [Next]_vars => Tampered'
    BY TamperedNext
  <1>3. Tampered => TamperIsCaught
    <2> SUFFICES ASSUME Tampered, args # None, Ran("tamper"), Steady
                 PROVE  TamperIsCaught
      BY DEF TamperIsCaught
    <2>1. Command = "tamper" /\ code # None /\ ~call.crashed
      BY DEF Ran
    <2>2. call.copy # None => Caught
      BY <2>1 DEF Tampered
    <2>3. call.copy = None => code # 1 /\ call.made = None
      BY <2>1 DEF Tampered
    <2> QED
      BY <2>2, <2>3 DEF Caught, TamperIsCaught
  <1> QED
    BY <1>1, <1>2, <1>3, ToldHolds, PTL DEF Spec


-----------------------------------------------------------------------------
(***************************************************************************)
(* What verify --explain and export say of a log that was edited.          *)
(***************************************************************************)
\* An entry stores the hash of the record it had, whatever was made of it.
LEMMA EntryWas ==
  ASSUME NEW h \in Histories, NEW base \in Stages(h), base # HalfWritten(h), NEW it \in LogFile,
         NEW made, EditedBy(base, it, made), NEW n \in 1..Len(it.entries)
  PROVE  /\ n \in 1..Len(base.entries)
         /\ base.entries[n].record \in Record /\ it.entries[n].record \in Record
         /\ it.entries[n].form = "object"
         /\ it.entries[n].entry_hash = entry_hash(base.entries[n].record)
         /\ it.entries[n].signature = base.entries[n].signature
         /\ it.entries[n].public_key = base.entries[n].public_key
         /\ Sound(base.header, base.entries, n) /\ it.header = base.header
  <1>1. /\ it.entries \in Seq(Envelope) /\ it.header = base.header
        /\ Len(it.entries) = Len(base.entries) /\ SameBut(base.entries, it.entries, made)
    BY DEF EditedBy, LogFile
  <1>2. n \in 1..Len(base.entries)
    BY <1>1
  <1>3. /\ base.entries[n].record \in Record
        /\ base.entries[n].entry_hash = entry_hash(base.entries[n].record)
        /\ Sound(base.header, base.entries, n) /\ base.entries[n].form = "object"
    BY <1>2, StageIs
  <1>4. /\ base.entries[n].form = it.entries[n].form
        /\ base.entries[n].entry_hash = it.entries[n].entry_hash
        /\ base.entries[n].signature = it.entries[n].signature
        /\ base.entries[n].public_key = it.entries[n].public_key
    BY <1>1, <1>2 DEF SameBut
  <1>5. it.entries[n] \in Envelope
    BY <1>1
  <1>6. it.entries[n].record \in Record
    BY <1>5 DEF Envelope
  <1> QED
    BY <1>1, <1>2, <1>3, <1>4, <1>6

\* An entry that was not edited has its record.
LEMMA EntryIs ==
  ASSUME NEW h \in Histories, NEW base \in Stages(h), base # HalfWritten(h), NEW it \in LogFile,
         NEW made, EditedBy(base, it, made), NEW n \in 1..Len(it.entries), \A e \in made : e.at # n
  PROVE  it.entries[n].record = base.entries[n].record
  <1>1. /\ n \in 1..Len(base.entries)
        /\ base.entries[n].record \in Record /\ it.entries[n].record \in Record
    BY EntryWas
  <1>2. \A f \in RecordFields : Get(base.entries[n].record, f) = Get(it.entries[n].record, f)
    BY <1>1 DEF EditedBy, SameBut
  <1> QED
    BY <1>1, <1>2, SameFields

\* Before the first edit every entry is sound; an edited one is not.
LEMMA SoundBefore ==
  ASSUME NEW h \in Histories, NEW base \in Stages(h), base # HalfWritten(h), NEW it \in LogFile,
         NEW made, EditedBy(base, it, made), NEW n \in 1..Len(it.entries), \A e \in made : e.at > n
  PROVE  Sound(it.header, it.entries, n)
  <1>1. Len(it.entries) \in Nat
    BY DEF LogFile
  <1>2. it.entries[n].record = base.entries[n].record
    <2>1. \A e \in made : e.at # n
      <3> SUFFICES ASSUME NEW e \in made PROVE e.at # n
        OBVIOUS
      <3>1. e.at > n /\ n \in Int
        BY <1>1
      <3> QED
        BY <3>1
    <2> QED
      BY <2>1, EntryIs
  <1>3. LinkBefore(it.entries, n) = LinkBefore(base.entries, n)
    <2>1. CASE n = 1
      BY <2>1 DEF LinkBefore
    <2>2. CASE n # 1
      <3> DEFINE m == n - 1
      <3>1. m \in 1..Len(it.entries)
        BY <1>1, <2>2
      <3>2. \A e \in made : e.at # m
        <4> SUFFICES ASSUME NEW e \in made PROVE e.at # m
          OBVIOUS
        <4>1. e.at > n /\ n \in Int
          BY <1>1
        <4> QED
          BY <4>1
      <3> HIDE DEF m
      <3>3. it.entries[m].record = base.entries[m].record
        BY <3>1, <3>2, EntryIs
      <3> QED
        BY <2>2, <3>3 DEF LinkBefore, m
    <2> QED
      BY <2>1, <2>2
  <1>4. /\ it.entries[n].entry_hash = entry_hash(base.entries[n].record)
        /\ it.entries[n].signature = base.entries[n].signature
        /\ it.entries[n].public_key = base.entries[n].public_key
        /\ Sound(base.header, base.entries, n) /\ it.header = base.header
    BY EntryWas
  <1> QED
    BY <1>2, <1>3, <1>4, SoundIs

LEMMA EditedIsUnsound ==
  ASSUME NEW h \in Histories, NEW base \in Stages(h), base # HalfWritten(h), NEW it \in LogFile,
         NEW made, EditedBy(base, it, made), NEW e \in made
  PROVE  e.at \in 1..Len(it.entries) /\ ~Sound(it.header, it.entries, e.at)
  <1>1. EditOf(base.entries, it.entries, e) /\ Len(it.entries) = Len(base.entries)
    BY DEF EditedBy
  <1>2. e.at \in 1..Len(it.entries)
    BY <1>1 DEF EditOf
  <1>3. /\ base.entries[e.at].record \in Record /\ it.entries[e.at].record \in Record
        /\ it.entries[e.at].entry_hash = entry_hash(base.entries[e.at].record)
    BY <1>2, EntryWas
  <1>4. base.entries[e.at].record # it.entries[e.at].record
    BY <1>1 DEF EditOf
  <1>5. it.entries[e.at].entry_hash # entry_hash(it.entries[e.at].record)
    BY <1>3, <1>4, HashIsRecord
  <1> QED
    BY <1>2, <1>5, SoundIs

\* A failure may give no index.
LEMMA NoIndex ==
  ASSUME NEW reason, NEW key_id
  PROVE  Fail(0, None, reason, key_id).broken_index = None
  BY DEF Fail

\* The index that a verdict on such a log gives is that of its first unsound entry.
LEMMA BrokenIs ==
  ASSUME NEW h \in Histories, NEW base \in Stages(h), base # HalfWritten(h), NEW it \in LogFile,
         NEW made, EditedBy(base, it, made), NEW pins, NEW r \in Outcomes(it, pins), r # Raised,
         ~r.ok, r.broken_index # None
  PROVE  /\ r.broken_index + 1 \in 1..Len(it.entries) /\ r.key_id = it.header.key_id
         /\ ~Sound(it.header, it.entries, r.broken_index + 1)
         /\ \A m \in 1..Len(it.entries) :
               ~Sound(it.header, it.entries, m) => r.broken_index + 1 <= m
  <1> DEFINE hdr == it.header
             entries == it.entries
             bad == Unsound(hdr, entries)
             n == Least(bad)
  <1>1. /\ it # None /\ it.medium = "text" /\ hdr.form = "object" /\ entries \in Seq(Envelope)
        /\ \A m \in DOMAIN entries : entries[m].form = "object"
    BY TornIs DEF EditedBy
  <1>2. Unparsed(entries) = {} /\ bad \in SUBSET Nat /\ DOMAIN entries = 1..Len(entries)
    BY <1>1 DEF Unparsed, Unsound
  <1>3. r \in ParsedOutcomes(hdr, entries, pins)
    <2> HIDE DEF bad
    <2> QED
      BY <1>1, <1>2 DEF Outcomes
  <1>4. HeaderViolations(hdr, entries, pins) = {}
    <2> SUFFICES ASSUME HeaderViolations(hdr, entries, pins) # {} PROVE FALSE
      OBVIOUS
    <2>1. r \in {Fail(0, None, q, hdr.key_id) : q \in HeaderViolations(hdr, entries, pins)}
      BY <1>3 DEF ParsedOutcomes
    <2>2. r.broken_index = None
      BY <2>1 DEF Fail
    <2> QED
      BY <2>2
  <1>5. bad # {}
    <2> SUFFICES ASSUME bad = {} PROVE FALSE
      OBVIOUS
    <2>1. r = Valid(Len(entries), hdr.key_id, EndsSession(entries))
      BY <1>3, <1>4 DEF ParsedOutcomes
    <2> QED
      BY <2>1 DEF Valid
  <1>6. r \in {Fail(n - 1, n - 1, q, hdr.key_id) : q \in Violations(hdr, entries, n)}
    BY <1>3, <1>4, <1>5 DEF ParsedOutcomes
  <1>7. n \in bad /\ \A m \in bad : n <= m
    <2> HIDE DEF bad
    <2>1. \E k \in bad : \A m \in bad : k <= m
      BY <1>2, <1>5, LeastNatural
    <2> QED
      BY <2>1 DEF Least
  <1>8. n \in 1..Len(entries) /\ n \in Nat
    BY <1>2, <1>7 DEF Unsound
  <1>9. r.broken_index = n - 1 /\ r.key_id = hdr.key_id
    <2> HIDE DEF n
    <2> QED
      BY <1>6 DEF Fail
  <1>10. r.broken_index + 1 = n
    <2> HIDE DEF n
    <2> QED
      BY <1>8, <1>9
  <1>11. ~Sound(hdr, entries, n) /\ \A m \in 1..Len(entries) : ~Sound(hdr, entries, m) => n <= m
    <2> HIDE DEF n
    <2> QED
      BY <1>2, <1>7 DEF Unsound
  <1> HIDE DEF n
  <1> QED
    BY <1>8, <1>9, <1>10, <1>11

\* What is said of that entry is what was edited in it; a single edit is found, if
\* it can be, where it is.
LEMMA SaidIsEdited ==
  ASSUME NEW h \in Histories, NEW base \in Stages(h), base # HalfWritten(h), NEW it \in LogFile,
         NEW made, EditedBy(base, it, made), NEW pins, NEW r \in Outcomes(it, pins), r # Raised,
         ~r.ok, r.broken_index # None, NEW n, n = r.broken_index + 1,
         NEW x \in Explanations(it, n, r.key_id), x # Raised
  PROVE  /\ x.changes \subseteq {ChangeOf(e) : e \in {d \in made : d.at = n}}
         /\ \A e \in made :
               made = {e} /\ Recoverable(ChangeOf(e), r.key_id) =>
                  n = e.at /\ x.changes = {ChangeOf(e)}
  <1> DEFINE old == base.entries[n].record
             new == it.entries[n].record
             key == r.key_id
  <1>1. /\ n \in 1..Len(it.entries) /\ key = it.header.key_id
        /\ ~Sound(it.header, it.entries, n)
        /\ \A m \in 1..Len(it.entries) : ~Sound(it.header, it.entries, m) => n <= m
    BY BrokenIs
  <1>2. /\ n \in 1..Len(base.entries) /\ old \in Record /\ new \in Record
        /\ it.entries[n].form = "object" /\ it.entries[n].entry_hash = entry_hash(old)
    BY <1>1, EntryWas
  <1>3. key \in Labels \cup {None} /\ Len(it.entries) \in Nat /\ DOMAIN it.entries = 1..Len(it.entries)
    BY <1>1 DEF LogFile, Header
  <1>4. /\ SameBut(base.entries, it.entries, made)
        /\ \A e \in made : EditOf(base.entries, it.entries, e)
        /\ it # None /\ it.medium = "text"
    BY DEF EditedBy
  <1> HIDE DEF old, new, key
  <1>5. x = localize_entry(new, entry_hash(old), key)
    <2>1. Explanations(it, n, key) =
            IF new.payload \in Unencodable THEN {Raised}
            ELSE {localize_entry(new, it.entries[n].entry_hash, key)}
      BY <1>1, <1>2, <1>3, <1>4 DEF Explanations, new
    <2>2. x \in Explanations(it, n, key) /\ x # Raised
      BY DEF key
    <2> QED
      BY <1>2, <2>1, <2>2
  <1>6. \A f \in RecordFields : Get(old, f) # Get(new, f) => \E e \in made : e.at = n /\ e.field = f
    BY <1>2, <1>4 DEF SameBut, old, new
  <1>7. \A e \in made : e.at = n =>
           /\ e.field \in FieldsEdited /\ Get(old, e.field) # Get(new, e.field)
           /\ ChangeOf(e) = FieldChange(e.field, Get(old, e.field), Get(new, e.field))
    BY <1>4 DEF EditOf, ChangeOf, old, new
  <1>8. ASSUME NEW c \in x.changes
        PROVE  c \in {ChangeOf(e) : e \in {d \in made : d.at = n}}
    <2>1. PICK f \in LowEntropyFields :
            c = FieldChange(f, Get(old, f), Get(new, f)) /\ Get(old, f) # Get(new, f)
      BY <1>2, <1>3, <1>5, <1>8, FoundWas
    <2>2. f \in RecordFields
      BY FieldKinds DEF FieldsEdited
    <2>3. PICK e \in made : e.at = n /\ e.field = f
      BY <1>6, <2>1, <2>2
    <2>4. c = ChangeOf(e)
      BY <1>7, <2>1, <2>3
    <2> QED
      BY <2>3, <2>4
  <1>9. ASSUME NEW e \in made, made = {e}, Recoverable(ChangeOf(e), key)
        PROVE  n = e.at /\ x.changes = {ChangeOf(e)}
    <2>1. e.at \in 1..Len(it.entries) /\ n <= e.at
      BY <1>1, EditedIsUnsound
    <2>2. n = e.at
      <3> SUFFICES ASSUME n # e.at PROVE FALSE
        OBVIOUS
      <3>1. e.at > n
        BY <1>1, <1>3, <2>1
      <3>2. \A d \in made : d.at > n
        BY <1>9, <3>1
      <3> QED
        BY <1>1, <3>2, SoundBefore
    <2> DEFINE f == e.field
    <2>3. /\ f \in FieldsEdited /\ Get(old, f) # Get(new, f)
          /\ ChangeOf(e) = FieldChange(f, Get(old, f), Get(new, f))
      BY <1>7, <2>2
    <2>4. \A g \in RecordFields \ {f} : Get(new, g) = Get(old, g)
      BY <1>6, <1>9
    <2> HIDE DEF f
    <2>5. LET c == FieldChange(f, Get(old, f), Get(new, f))
          IN  localize_entry(new, entry_hash(old), key).changes = IF Recoverable(c, key) THEN {c} ELSE {}
      BY <1>2, <1>3, <2>3, <2>4, OneEditIsFound
    <2> QED
      BY <1>5, <1>9, <2>2, <2>3, <2>5
  <1> QED
    BY <1>8, <1>9 DEF key

-----------------------------------------------------------------------------
(***************************************************************************)
(* What was explained, and of which log.                                   *)
(***************************************************************************)
KeyIdUsed == IF Command = "export" THEN call.loaded.header.key_id ELSE call.verdict.key_id

Explained ==
    args # None /\ Command \in {"verify", "export"} /\ call.explained # None /\ during = "still" =>
        /\ call.verdict # None /\ ToExplain
        /\ Command = "export" => call.loaded # None
        /\ call.explained \in Explanations(log, call.verdict.broken_index + 1, KeyIdUsed)
        /\ call.explained # Raised

\* What can be said of a log depends on the log alone.
LEMMA ExplanationsStay ==
  ASSUME log' = log
  PROVE  \A n, k : Explanations(log, n, k)' = Explanations(log, n, k)
  BY DEF Explanations

LEMMA ExplainedStays ==
  ASSUME Explained, UNCHANGED <<disk, during, args>>, call'.explained = call.explained,
         call'.verdict = call.verdict, Command = "export" => call'.loaded = call.loaded
  PROVE  Explained'
  <1>1. log' = log /\ Command' = Command /\ ToExplain' = ToExplain
    BY DEF log, Command, ToExplain
  <1>2. Command \in {"verify", "export"} => KeyIdUsed' = KeyIdUsed
    BY <1>1 DEF KeyIdUsed
  <1>3. \A n, k : Explanations(log, n, k)' = Explanations(log, n, k)
    BY <1>1, ExplanationsStay
  <1> QED
    BY <1>1, <1>2, <1>3 DEF Explained

LEMMA ExplainedStep ==
  ASSUME Base, Explained, CommandStep
  PROVE  Explained'
  <1>1. /\ Control /\ todo # <<>> /\ UNCHANGED <<disk, during, args>> /\ RefOK /\ Data
        /\ log \in LogFile \cup {None} /\ disk[Head(files)] \in LogFile \cup {None}
    BY CommandAt, FileTyped DEF Base, WorldTyped, worldVars
  <1>2. call'.explained = None => Explained'
    BY DEF Explained
  <1>3. ASSUME NEW fields, Only(fields), fields \cap {"explained", "verdict", "loaded"} = {}
        PROVE  Explained'
    BY <1>1, <1>3, ExplainedStays DEF Only, CallFields
  <1>4. Crashed => Explained'
    BY <1>3 DEF Crashed
  <1>5. call' = call => Explained'
    BY <1>1, ExplainedStays
  <1>6. \A ok, reason : Row(ok, reason) => Explained'
    BY <1>1, <1>3, RowSays
  <1>7. CASE Detect
    BY <1>1, <1>4, <1>5, <1>6, <1>7, DetectSays
  <1>8. CASE Load
    <2>1. call.explained = None
      BY <1>1, <1>8, WhereIs DEF Load, At, Loading, Unset, CallFields
    <2>2. Only({"loaded"}) => Explained'
      BY <1>2, <2>1 DEF Only, CallFields
    <2> QED
      BY <1>1, <1>4, <1>5, <1>8, <2>2, LoadSays
  <1>9. CASE Verify
    <2>1. call.explained = None
      BY <1>1, <1>9, WhereIs DEF Verify, At, Verifying, Unset, CallFields
    <2>2. Only({"verdict", "judged"}) => Explained'
      BY <1>2, <2>1 DEF Only, CallFields
    <2> QED
      BY <1>1, <1>4, <1>6, <1>9, <2>2, VerifySays
  <1>10. CASE Explain
    <2>1. Explaining
      BY <1>1, <1>10, WhereIs DEF Explain, At
    <2> SUFFICES ASSUME ToExplain, Only({"explained"}),
                        \E x \in Explanations(log, call.verdict.broken_index + 1, KeyIdUsed) :
                           x # Raised /\ call'.explained = x
                 PROVE  Explained'
      BY <1>1, <1>4, <1>5, <1>10, ExplainSays DEF KeyIdUsed
    <2>2. call'.verdict = call.verdict /\ call'.loaded = call.loaded
      BY DEF Only, CallFields
    <2>3. log' = log /\ Command' = Command
      BY <1>1 DEF log, Command
    <2>4. ToExplain' = ToExplain /\ KeyIdUsed' = KeyIdUsed
      BY <2>2, <2>3 DEF ToExplain, KeyIdUsed
    <2>5. \A n, k : Explanations(log, n, k)' = Explanations(log, n, k)
      BY <2>3, ExplanationsStay
    <2>6. call.verdict # None /\ (Command = "export" => call.loaded # None)
      BY <2>1 DEF Explaining, Reading
    <2> QED
      BY <2>2, <2>3, <2>4, <2>5, <2>6 DEF Explained
  <1>11. CASE ReadAnchor
    BY <1>1, <1>3, <1>4, <1>5, <1>11, ReadAnchorSays
  <1>12. CASE AnchorDetect
    BY <1>1, <1>4, <1>5, <1>12, AnchorDetectSays
  <1>13. CASE AnchorVerify
    BY <1>1, <1>3, <1>4, <1>13, AnchorVerifySays
  <1>14. CASE AnchorLoad
    <2>1. Comparing /\ Only({"loaded", "anchor"}) => Explained'
      BY <1>1, ExplainedStays DEF Comparing, Only, CallFields
    <2> QED
      BY <1>1, <1>4, <1>14, <2>1, AnchorLoadSays
  <1>15. CASE Report
    BY <1>1, <1>3, <1>15, ReportSays
  <1>16. CASE Edit \/ Check
    <2>1. Command = "tamper"
      BY <1>1, <1>16, WhereIs DEF Edit, Check, At, Editing, Checking
    <2> QED
      BY <1>1, <2>1 DEF Explained, Command
  <1>17. CASE ReadReference \/ ReadTarget
    <2>1. Command = "diff"
      BY <1>1, <1>17, WhereIs DEF ReadReference, ReadTarget, At, Referring, Targeting
    <2> QED
      BY <1>1, <2>1 DEF Explained, Command
  <1> QED
    BY <1>7, <1>8, <1>9, <1>10, <1>11, <1>12, <1>13, <1>14, <1>15, <1>16, <1>17 DEF CommandStep

LEMMA ExplainedNext ==
  ASSUME Base, Explained, [Next]_vars
  PROVE  Explained'
  <1>1. WorldDoes => during' # "still"
    BY DEF WorldDoes, Worse
  <1>2. WorldDoes => Explained'
    BY <1>1 DEF Explained
  <1>3. ASSUME NEW inv \in Invocations, Begin(inv) PROVE Explained'
    <2>1. call' = Nothing
      BY <1>3 DEF Begin
    <2> QED
      BY <2>1, NothingIs DEF Explained, CallFields
  <1>4. CASE UNCHANGED vars
    BY <1>4, ExplainedStays DEF vars, worldVars
  <1> QED
    BY <1>2, <1>3, <1>4, ExplainedStep, NextIs

\* "We report unrecoverable rather than guess": what verify --explain and export
\* say that a field of the entry that broke said before, it said; and if a single
\* field was edited, and what it said is one of the values tried, then the entry
\* that broke is that one and this is what is found.
THEOREM ExplainedIsWhatWas == Spec => []ExplainedIsEdit
  <1>1. Init => Explained
    BY NothingIs DEF Init, Explained, CallFields
  <1>2. Base /\ Explained /\ [Next]_vars => Explained'
    BY ExplainedNext
  <1>3. ASSUME Told, Explained PROVE ExplainedIsEdit
    <2> DEFINE n == call.verdict.broken_index + 1
               r == call.verdict
    <2> SUFFICES ASSUME call.explained # None, Command \in {"verify", "export"}, during = "still",
                        ~wild, ~Torn
                 PROVE  /\ call.explained.changes \subseteq
                              {ChangeOf(e) : e \in {d \in edits : d.at = n}}
                        /\ \A e \in edits :
                              edits = {e} /\ Recoverable(ChangeOf(e), r.key_id) =>
                                 n = e.at /\ call.explained.changes = {ChangeOf(e)}
      BY DEF ExplainedIsEdit
    <2>1. /\ WorldTyped /\ Control /\ Data /\ Known /\ Seen /\ History \in Histories
      BY <1>3 DEF Told, Base, WorldTyped, RefOK
    <2>2. args # None
      <3> SUFFICES ASSUME args = None PROVE FALSE
        OBVIOUS
      <3>1. call.explained = None
        BY <2>1, NothingIs DEF Control, CallFields
      <3> QED
        BY <3>1
    <2>3. /\ r # None /\ ToExplain /\ (Command = "export" => call.loaded # None)
          /\ call.explained \in Explanations(log, n, KeyIdUsed) /\ call.explained # Raised
      BY <1>3, <2>2 DEF Explained
    <2>4. PICK base \in Stages(History) : EditedBy(base, log, edits)
      BY <2>1 DEF WorldTyped
    <2>5. log \in LogFile /\ log # None
      BY <2>1, <2>4 DEF WorldTyped, log, EditedBy
    <2>6. base # HalfWritten(History)
      <3>1. /\ log.entries # <<>>
            /\ base = HalfWritten(History) <=> Last(log.entries).form = "malformed"
        BY <2>1, <2>4, <2>5, TornIs
      <3> QED
        BY <2>5, <3>1 DEF Torn
    <2>7. r # Raised /\ r \in Outcomes(call.judged, Pins) /\ ~r.ok /\ r.broken_index # None
      BY <2>1, <2>2, <2>3 DEF Known, VerdictKnown, Judging, ToExplain
    <2>8. call.judged = log
      <3>1. call.judged # None
        <4> SUFFICES ASSUME call.judged = None PROVE FALSE
          OBVIOUS
        <4>1. r = Fail(0, None, "cannot read log", None)
          BY <2>7 DEF Outcomes
        <4>2. r.broken_index = None
          BY <4>1, NoIndex
        <4> QED
          BY <2>7, <4>2
      <3> QED
        BY <2>1, <2>2, <3>1 DEF Seen, SeenStill
    <2>9. r \in Outcomes(log, Pins)
      BY <2>7, <2>8
    <2>10. r.key_id = log.header.key_id
      BY <2>1, <2>4, <2>5, <2>6, <2>7, <2>9, BrokenIs
    <2>11. Command = "export" => call.loaded = log
      BY <2>1, <2>2, <2>3 DEF Seen, SeenStill
    <2>12. KeyIdUsed = r.key_id
      BY <2>10, <2>11 DEF KeyIdUsed
    <2>13. call.explained \in Explanations(log, n, r.key_id)
      BY <2>3, <2>12
    <2> DEFINE x == call.explained
    <2>14. x \in Explanations(log, n, r.key_id) /\ x # Raised
      BY <2>3, <2>13
    <2>15. n = r.broken_index + 1
      OBVIOUS
    <2> HIDE DEF n, r, x
    <2> QED
      BY <2>1, <2>4, <2>5, <2>6, <2>7, <2>9, <2>14, <2>15, SaidIsEdited DEF x, r
  <1>4. Told /\ Explained => ExplainedIsEdit
    BY <1>3
  <1> QED
    BY <1>1, <1>2, <1>4, BaseHolds, ToldHolds, PTL DEF Spec

=============================================================================
