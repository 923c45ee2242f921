--------------------------- MODULE AnchoringProofs ---------------------------
(***************************************************************************)
(* Theorems about Anchoring: what an anchor commits its log to, whatever   *)
(* befalls the file between and during the calls.                          *)
(***************************************************************************)
EXTENDS Anchoring, ChainFacts

-----------------------------------------------------------------------------
(***************************************************************************)
(* Entries that are, but for a line half written, those the key of a       *)
(* fingerprint writes for the events they carry; and exactly those.        *)
(***************************************************************************)
WrittenAt(entries, n, fp) == EnvelopeOf(Bodies(entries), n, fp.sha256, WriterLabel, fp)

UpToForm(entries, fp) ==
    \A n \in 1..Len(entries) :
        [entries[n] EXCEPT !.form = "object"] = WrittenAt(entries, n, fp)

Exactly(entries, fp) == \A n \in 1..Len(entries) : entries[n] = WrittenAt(entries, n, fp)

(***************************************************************************)
(* A log that someone with an EC key has written, whatever it holds.       *)
(***************************************************************************)
Owned(log) ==
    /\ log \in LogFile
    /\ log.header.spki_der \in Keys
    /\ log.header.key_id = WriterLabel
    /\ log.header.spki_sha256 = spki_fingerprint(log.header.spki_der)

DiskOK == file # None => Owned(file)

(***************************************************************************)
(* What was verified is still there, unless the file was changed since.    *)
(***************************************************************************)
DuringOK ==
    pc \in {"redetect", "load"} /\ verdict.ok /\ during # "changed" =>
        file # None /\ UpToForm(file.entries, file.header.spki_sha256)

PublishedOK ==
    token # None /\ made # "changed" =>
        /\ token.count = Len(anchored)
        /\ token.head_entry_hash = Bodies(anchored)
        /\ Exactly(anchored, token.spki_sha256)

PassedOK ==
    Passed =>
        /\ chain \in LogFile
        /\ chain.header.spki_sha256 = given.spki_sha256
        /\ given.count \in 1..Len(chain.entries)
        /\ chain.entries[given.count].entry_hash = given.head_entry_hash
        /\ during # "changed" => Exactly(chain.entries, given.spki_sha256)

CallOK ==
    /\ call = "check" => token # None
    /\ call = "make" /\ pc \in {"redetect", "load"} => verdict.ok
    /\ answer # None => call = "check"

(***************************************************************************)
(* The inductive invariant.  HistoryPinned compares two calls that may lie *)
(* far apart: what each of them read is a chain its signer wrote           *)
(* (PublishedOK, PassedOK), because what was read after the verification   *)
(* is what was verified, grown at most (DuringOK).                         *)
(***************************************************************************)
IInv ==
    /\ TypeOK
    /\ DiskOK
    /\ DuringOK
    /\ PublishedOK
    /\ PassedOK
    /\ CallOK

-----------------------------------------------------------------------------
(***************************************************************************)
(* The disk.                                                               *)
(***************************************************************************)
\* A file put in place of another keeps the invariant, when an append keeps
\* what was written.
LEMMA FileKeeps ==
  ASSUME IInv, NEW newFile \in LogFile \cup {None}, newFile # None => Owned(newFile),
         NEW fate \in {"appended", "changed"},
         fate = "appended" =>
            (file # None /\ UpToForm(file.entries, file.header.spki_sha256)
             => newFile # None /\ UpToForm(newFile.entries, newFile.header.spki_sha256)),
         file' = newFile, version' \in Versions, changes' \in 0..MaxChanges,
         since' = Worse(since, fate), during' = Worse(during, fate),
         UNCHANGED <<tokenVars, callVars>>
  PROVE  IInv'
  <1>1. /\ since' \in {"still", "appended", "changed"}
        /\ during' \in {"still", "appended", "changed"}
        /\ during' # "changed" => during # "changed" /\ fate # "changed"
    BY WorseIs DEF IInv, TypeOK
  <1>2. TypeOK'
    BY <1>1 DEF IInv, TypeOK, tokenVars, callVars
  <1>3. DiskOK'
    BY DEF DiskOK, Owned
  <1>4. DuringOK'
    BY <1>1 DEF IInv, DuringOK, callVars, UpToForm, WrittenAt
  <1>5. PublishedOK'
    BY DEF IInv, PublishedOK, tokenVars, Exactly, WrittenAt
  <1>6. PassedOK'
    BY <1>1 DEF IInv, PassedOK, Passed, callVars, Exactly, WrittenAt
  <1>7. CallOK'
    BY DEF IInv, CallOK, tokenVars, callVars
  <1> QED
    BY <1>2, <1>3, <1>4, <1>5, <1>6, <1>7 DEF IInv

\* A change of the file, whatever it is, is known to have changed it.
LEMMA ChangeKeeps ==
  ASSUME IInv, NEW newFile \in LogFile \cup {None}, newFile # None => Owned(newFile),
         NEW newVersion \in Versions, Befalls("changed", newFile, newVersion)
  PROVE  IInv'
  <1>1. /\ changes < MaxChanges /\ changes' = changes + 1 /\ file' = newFile
        /\ version' = newVersion
        /\ since' = Worse(since, "changed") /\ during' = Worse(during, "changed")
        /\ UNCHANGED <<tokenVars, callVars>>
    BY DEF Befalls
  <1>2. changes' \in 0..MaxChanges
    BY <1>1, BoundsAssumption DEF IInv, TypeOK
  <1> QED
    BY <1>1, <1>2, FileKeeps

\* What the writer writes for a history is a log of its own.
LEMMA WrittenOwned ==
  ASSUME NEW s \in Sessions, NEW bodies \in Seq(Body), NEW key \in Keys
  PROVE  Owned(Written(s, bodies, key))
  <1>1. spki_fingerprint(key) \in Fingerprint
    BY DEF spki_fingerprint, Fingerprint, Ders, SigningKeys
  <1>2. Written(s, bodies, key) \in LogFile
    BY <1>1, ChainFileTyped, WriterAssumption, KeysSign DEF Written
  <1>3. Written(s, bodies, key).header =
          [form |-> "object", session_id |-> s, key_id |-> WriterLabel,
           spki_der |-> key, spki_sha256 |-> spki_fingerprint(key)]
    BY DEF Written, ChainFile
  <1> QED
    BY <1>2, <1>3 DEF Owned

\* A log of other entries under the same header is one of the same owner.
LEMMA OtherEntriesOwned ==
  ASSUME NEW log, Owned(log), NEW entries \in Seq(Envelope)
  PROVE  Owned([log EXCEPT !.entries = entries])
  BY DEF Owned, LogFile

\* The file of the disk is its owner's, with entries that carry bodies.
LEMMA FileFields ==
  ASSUME IInv, file # None
  PROVE  /\ Owned(file) /\ file \in LogFile
         /\ file.entries \in Seq(Envelope) /\ Len(file.entries) \in Nat
         /\ DOMAIN file.entries = 1..Len(file.entries)
         /\ Bodies(file.entries) \in Seq(Body)
         /\ Len(Bodies(file.entries)) = Len(file.entries)
         /\ \A n \in 1..Len(file.entries) : Bodies(file.entries)[n] = BodyOf(file.entries[n].record)
         /\ file.header \in Header /\ file.header.session_id \in Sessions
  <1>1. Owned(file) /\ file \in LogFile
    BY DEF IInv, DiskOK, Owned
  <1>2. file.entries \in Seq(Envelope) /\ file.header \in Header
    BY <1>1 DEF LogFile
  <1>3. file.header.session_id \in Sessions
    BY <1>2 DEF Header
  <1> QED
    BY <1>1, <1>2, <1>3, BodiesTyped

(***************************************************************************)
(* One log is another with lines appended, whole or half written.          *)
(***************************************************************************)
Ordered(log) == InOrder(log.header.session_id, WriterLabel, Bodies(log.entries))

ObjectOrTorn(entries) == \A n \in 1..Len(entries) : entries[n].form # "nonobject"

Extends(log, longer) ==
    /\ Owned(longer)
    /\ longer.medium = log.medium /\ longer.header = log.header
    /\ Len(longer.entries) >= Len(log.entries)
    /\ \A n \in 1..Len(log.entries) : longer.entries[n].entry_hash = log.entries[n].entry_hash
    /\ UpToForm(log.entries, log.header.spki_sha256)
       => UpToForm(longer.entries, log.header.spki_sha256)
    /\ ObjectOrTorn(log.entries) => ObjectOrTorn(longer.entries)
    /\ Ordered(log) => Ordered(longer)

Appending ==
    /\ file # None /\ Extends(file, file')
    /\ version' = version /\ changes' \in 0..MaxChanges
    /\ since' = Worse(since, "appended") /\ during' = Worse(during, "appended")
    /\ UNCHANGED <<tokenVars, callVars>>

\* A line half written is, but for its form, the next line of the chain.
LEMMA StartAppendExtends ==
  ASSUME IInv, NEW p \in Payloads, StartAppend(p)
  PROVE  Appending
  <1> DEFINE hdr == file.header
             old == file.entries
             N == Len(old)
             fp == hdr.spki_sha256
             event == Event(hdr.session_id, N, p)
             bodies == Append(Bodies(old), event)
             line == EnvelopeOf(bodies, N + 1, hdr.spki_der, hdr.key_id, fp)
             torn == [line EXCEPT !.form = "malformed"]
             new == Append(old, torn)
             newFile == [file EXCEPT !.entries = new]
  <1>1. file # None
    BY DEF StartAppend, Whole
  <1>2. /\ Owned(file) /\ file \in LogFile /\ old \in Seq(Envelope) /\ N \in Nat
        /\ Bodies(old) \in Seq(Body) /\ Len(Bodies(old)) = N
        /\ \A n \in 1..N : Bodies(old)[n] = BodyOf(old[n].record)
        /\ hdr \in Header /\ hdr.session_id \in Sessions
    BY <1>1, FileFields
  <1>3. /\ hdr.spki_der \in Keys /\ hdr.key_id = WriterLabel
        /\ fp = spki_fingerprint(hdr.spki_der) /\ fp \in Fingerprint /\ fp.sha256 = hdr.spki_der
    BY <1>2 DEF Owned, spki_fingerprint, Fingerprint, Ders, SigningKeys
  <1>4. event \in Body
    BY <1>2, WriterAssumption DEF Event, Body, EVENT_TYPES
  <1> HIDE DEF event
  <1>5. /\ bodies \in Seq(Body) /\ Len(bodies) = N + 1 /\ bodies[N + 1] = event
        /\ \A n \in 1..N : bodies[n] = Bodies(old)[n]
    BY <1>2, <1>4, AppendProperties
  <1> HIDE DEF bodies
  <1>6. line \in Envelope /\ line.record = RecordOf(event, SubSeq(bodies, 1, N)) /\ line.form = "object"
    <2>1. N + 1 \in 1..Len(bodies) /\ (N + 1) - 1 = N
      BY <1>2, <1>5
    <2>2. line \in Envelope
      BY <1>3, <1>5, <2>1, EnvelopeTyped, WriterAssumption, KeysSign
    <2> QED
      BY <1>5, <2>1, <2>2 DEF EnvelopeOf
  <1> HIDE DEF line
  <1>7. /\ torn \in Envelope /\ torn.record = line.record
        /\ [torn EXCEPT !.form = "object"] = line
    BY <1>6 DEF Envelope, LineForms
  <1> HIDE DEF torn
  <1>8. /\ new \in Seq(Envelope) /\ Len(new) = N + 1 /\ new[N + 1] = torn
        /\ \A n \in 1..N : new[n] = old[n]
    BY <1>2, <1>7, AppendProperties
  <1> HIDE DEF new
  <1>9. Bodies(new) = bodies
    <2>1. /\ Bodies(new) \in Seq(Body) /\ Len(Bodies(new)) = N + 1
          /\ \A n \in 1..(N + 1) : Bodies(new)[n] = BodyOf(new[n].record)
      BY <1>8, BodiesTyped
    <2>2. ASSUME NEW n \in 1..(N + 1)
          PROVE  Bodies(new)[n] = bodies[n]
      <3>1. CASE n = N + 1
        <4>1. BodyOf(torn.record) = event
          BY <1>4, <1>6, <1>7, BodyOfRecordOf
        <4> QED
          BY <1>2, <1>5, <1>8, <2>1, <3>1, <4>1
      <3>2. CASE n \in 1..N
        BY <1>2, <1>5, <1>8, <2>1, <3>2
      <3> QED
        BY <1>2, <3>1, <3>2
    <2> QED
      BY <1>5, <2>1, <2>2, SeqEqual
  <1>10. /\ newFile \in LogFile /\ Owned(newFile)
         /\ newFile.entries = new /\ newFile.header = hdr /\ newFile.medium = file.medium
    <2>1. Owned(newFile)
      BY <1>2, <1>8, OtherEntriesOwned
    <2>2. newFile.entries = new /\ newFile.header = hdr /\ newFile.medium = file.medium
      BY <1>2 DEF LogFile
    <2> QED
      BY <2>1, <2>2 DEF Owned
  <1>11. ASSUME UpToForm(old, fp)
         PROVE  UpToForm(new, fp)
    <2> SUFFICES ASSUME NEW n \in 1..(N + 1)
                 PROVE  [new[n] EXCEPT !.form = "object"] = WrittenAt(new, n, fp)
      BY <1>8 DEF UpToForm
    <2>1. WrittenAt(new, n, fp) = EnvelopeOf(bodies, n, hdr.spki_der, WriterLabel, fp)
      BY <1>3, <1>9 DEF WrittenAt
    <2>2. CASE n = N + 1
      BY <1>3, <1>7, <1>8, <2>1, <2>2 DEF line
    <2>3. CASE n \in 1..N
      <3>1. [old[n] EXCEPT !.form = "object"] =
              EnvelopeOf(Bodies(old), n, hdr.spki_der, WriterLabel, fp)
        BY <1>3, <1>11, <2>3 DEF UpToForm, WrittenAt
      <3>2. n \in 1..Len(Bodies(old)) /\ n \in 1..Len(bodies)
        BY <1>2, <1>5, <2>3
      <3>3. \A m \in 1..n : Bodies(old)[m] = bodies[m]
        BY <1>2, <1>5, <2>3
      <3>4. EnvelopeOf(Bodies(old), n, hdr.spki_der, WriterLabel, fp)
            = EnvelopeOf(bodies, n, hdr.spki_der, WriterLabel, fp)
        BY <1>2, <1>5, <3>2, <3>3, SameStart
      <3> QED
        BY <1>8, <2>1, <2>3, <3>1, <3>4
    <2> QED
      BY <1>2, <2>2, <2>3
  <1>12. /\ changes < MaxChanges /\ changes' = changes + 1 /\ file' = newFile
         /\ version' = version /\ since' = Worse(since, "appended")
         /\ during' = Worse(during, "appended") /\ UNCHANGED <<tokenVars, callVars>>
    <2>1. Len(bodies) = N + 1
      BY <1>5
    <2> QED
      BY <2>1 DEF StartAppend, Befalls, newFile, new, torn, line, bodies, event
  <1>13. changes' \in 0..MaxChanges
    BY <1>12, BoundsAssumption DEF IInv, TypeOK
  <1> HIDE DEF newFile
  <1>14. ASSUME Ordered(file)
         PROVE  Ordered(newFile)
    <2> SUFFICES ASSUME NEW n \in 1..(N + 1)
                 PROVE  /\ bodies[n].session_id = hdr.session_id
                        /\ bodies[n].signer_key_id = WriterLabel
                        /\ bodies[n].sequence = n - 1
      BY <1>5, <1>9, <1>10 DEF Ordered, InOrder
    <2>1. CASE n = N + 1
      BY <1>2, <1>5, <2>1 DEF event, Event
    <2>2. CASE n \in 1..N
      <3>1. /\ Bodies(old)[n].session_id = hdr.session_id
            /\ Bodies(old)[n].signer_key_id = WriterLabel
            /\ Bodies(old)[n].sequence = n - 1
        BY <1>2, <1>14, <2>2 DEF Ordered, InOrder
      <3> QED
        BY <1>5, <2>2, <3>1
    <2> QED
      BY <1>2, <2>1, <2>2
  <1>15. ObjectOrTorn(old) => ObjectOrTorn(new)
    <2>1. torn.form # "nonobject"
      BY <1>6 DEF torn, Envelope
    <2> QED
      BY <1>2, <1>8, <2>1 DEF ObjectOrTorn
  <1>16. /\ Len(new) >= N
         /\ \A n \in 1..N : new[n].entry_hash = old[n].entry_hash
    BY <1>2, <1>8
  <1>17. Extends(file, newFile)
    BY <1>10, <1>11, <1>14, <1>15, <1>16 DEF Extends
  <1> QED
    BY <1>1, <1>12, <1>13, <1>17 DEF Appending

\* The line finished is the line it was, but for its form.
LEMMA FinishAppendExtends ==
  ASSUME IInv, FinishAppend
  PROVE  Appending
  <1> DEFINE old == file.entries
             N == Len(old)
             fp == file.header.spki_sha256
             whole == [old[N] EXCEPT !.form = "object"]
             new == [old EXCEPT ![N] = whole]
             newFile == [file EXCEPT !.entries = new]
  <1>1. file # None /\ old # <<>>
    BY DEF FinishAppend, Torn
  <1>2. /\ Owned(file) /\ file \in LogFile /\ old \in Seq(Envelope) /\ N \in Nat
        /\ Bodies(old) \in Seq(Body) /\ Len(Bodies(old)) = N
        /\ \A n \in 1..N : Bodies(old)[n] = BodyOf(old[n].record)
    BY <1>1, FileFields
  <1>3. N \in 1..N /\ old[N] \in Envelope
    BY <1>1, <1>2
  <1>4. whole \in Envelope /\ whole.record = old[N].record
    BY <1>3 DEF Envelope, LineForms
  <1>5. [whole EXCEPT !.form = "object"] = whole
    BY <1>3 DEF Envelope, LineForms
  <1>6. file' = newFile
    BY <1>2 DEF FinishAppend, LogFile
  <1> HIDE DEF whole
  <1>7. /\ new \in Seq(Envelope) /\ Len(new) = N /\ new[N] = whole
        /\ \A n \in 1..N : n # N => new[n] = old[n]
    BY <1>2, <1>3, <1>4
  <1> HIDE DEF new
  <1>8. Bodies(new) = Bodies(old)
    <2>1. /\ Bodies(new) \in Seq(Body) /\ Len(Bodies(new)) = N
          /\ \A n \in 1..N : Bodies(new)[n] = BodyOf(new[n].record)
      BY <1>7, BodiesTyped
    <2>2. \A n \in 1..N : Bodies(new)[n] = Bodies(old)[n]
      BY <1>2, <1>4, <1>7, <2>1
    <2> QED
      BY <1>2, <2>1, <2>2, SeqEqual
  <1>9. /\ newFile \in LogFile /\ Owned(newFile)
        /\ newFile.entries = new /\ newFile.header = file.header /\ newFile.medium = file.medium
    <2>1. Owned(newFile)
      BY <1>2, <1>7, OtherEntriesOwned
    <2>2. newFile.entries = new /\ newFile.header = file.header /\ newFile.medium = file.medium
      BY <1>2 DEF LogFile
    <2> QED
      BY <2>1, <2>2 DEF Owned
  <1>10. ASSUME UpToForm(old, fp)
         PROVE  UpToForm(new, fp)
    <2> SUFFICES ASSUME NEW n \in 1..N
                 PROVE  [new[n] EXCEPT !.form = "object"] = WrittenAt(new, n, fp)
      BY <1>7 DEF UpToForm
    <2>1. [old[n] EXCEPT !.form = "object"] = WrittenAt(new, n, fp)
      BY <1>8, <1>10 DEF UpToForm, WrittenAt
    <2>2. CASE n = N
      BY <1>5, <1>7, <2>1, <2>2 DEF whole
    <2>3. CASE n # N
      BY <1>7, <2>1, <2>3
    <2> QED
      BY <2>2, <2>3
  <1>11. /\ version' = version /\ changes' = changes
         /\ since' = Worse(since, "appended")
         /\ during' = Worse(during, "appended") /\ UNCHANGED <<tokenVars, callVars>>
    BY DEF FinishAppend
  <1>12. changes' \in 0..MaxChanges
    BY <1>11 DEF IInv, TypeOK
  <1> HIDE DEF newFile
  <1>13. Ordered(file) => Ordered(newFile)
    BY <1>8, <1>9 DEF Ordered
  <1>14. ObjectOrTorn(old) => ObjectOrTorn(new)
    <2>1. whole.form # "nonobject"
      BY <1>3 DEF whole, Envelope
    <2> QED
      BY <1>2, <1>7, <2>1 DEF ObjectOrTorn
  <1>15. /\ Len(new) >= N
         /\ \A n \in 1..N : new[n].entry_hash = old[n].entry_hash
    <2>1. whole.entry_hash = old[N].entry_hash
      BY <1>3 DEF whole, Envelope
    <2> QED
      BY <1>2, <1>7, <2>1
  <1>16. Extends(file, newFile)
    BY <1>9, <1>10, <1>13, <1>14, <1>15 DEF Extends
  <1> QED
    BY <1>1, <1>6, <1>11, <1>12, <1>16 DEF Appending

\* So the file the writer appends to keeps the invariant.
LEMMA AppendingKeeps ==
  ASSUME IInv, Appending
  PROVE  IInv'
  <1>1. /\ Owned(file') /\ file' \in LogFile /\ file' # None
        /\ file'.header = file.header
        /\ UpToForm(file.entries, file.header.spki_sha256)
           => UpToForm(file'.entries, file'.header.spki_sha256)
    BY AbsenceAssumption DEF Appending, Extends, Owned
  <1>2. version' \in Versions
    BY DEF Appending, IInv, TypeOK
  <1> QED
    BY <1>1, <1>2, FileKeeps DEF Appending

\* What else befalls the file puts a log of its own in its place, or none.
LEMMA ChangesKeep ==
  ASSUME IInv,
         \/ \E n \in 1..MaxLen, p \in Payloads : RewriteHistory(n, p)
         \/ \E key \in Keys : Rekey(key)
         \/ \E s \in Sessions : Resession(s)
         \/ \E n \in 1..MaxLen : Cut(n) \/ Restamp(n)
         \/ Empty \/ Unlink \/ Upgrade
  PROVE  IInv'
  <1> DEFINE old == file.entries
             hdr == file.header
  <1>0. file # None
    BY DEF RewriteHistory, Rekey, Resession, Cut, Restamp, Empty, Unlink, Upgrade, Whole
  <1>1. /\ Owned(file) /\ file \in LogFile /\ old \in Seq(Envelope) /\ Len(old) \in Nat
        /\ DOMAIN old = 1..Len(old)
        /\ Bodies(old) \in Seq(Body) /\ Len(Bodies(old)) = Len(old)
        /\ hdr.session_id \in Sessions /\ version \in Versions
    BY <1>0, FileFields DEF IInv, TypeOK
  <1>2. hdr.spki_der \in Keys
    BY <1>1 DEF Owned
  <1>3. ASSUME NEW n \in 1..MaxLen, NEW p \in Payloads, RewriteHistory(n, p)
        PROVE  IInv'
    <2> DEFINE bodies == [Bodies(old) EXCEPT ![n].payload = p]
    <2>1. Befalls("changed", Written(hdr.session_id, bodies, hdr.spki_der), version)
          /\ n \in 1..Len(old)
      BY <1>1, <1>3 DEF RewriteHistory
    <2>2. [Bodies(old)[n] EXCEPT !.payload = p] \in Body
      <3>1. Bodies(old)[n] \in Body
        BY <1>1, <2>1
      <3> QED
        BY <3>1 DEF Body
    <2>3. bodies = [Bodies(old) EXCEPT ![n] = [Bodies(old)[n] EXCEPT !.payload = p]]
      OBVIOUS
    <2>4. bodies \in Seq(Body)
      BY <1>1, <2>1, <2>2, <2>3, ExceptSeq
    <2> HIDE DEF bodies
    <2>5. Owned(Written(hdr.session_id, bodies, hdr.spki_der))
      BY <1>1, <1>2, <2>4, WrittenOwned
    <2> QED
      BY <1>1, <2>1, <2>5, ChangeKeeps DEF Owned
  <1>4. ASSUME NEW key \in Keys, Rekey(key)
        PROVE  IInv'
    <2>1. Befalls("changed", Written(hdr.session_id, Bodies(old), key), version)
      BY <1>4 DEF Rekey
    <2>2. Owned(Written(hdr.session_id, Bodies(old), key))
      BY <1>1, WrittenOwned
    <2> QED
      BY <1>1, <2>1, <2>2, ChangeKeeps DEF Owned
  <1>5. ASSUME NEW s \in Sessions, Resession(s)
        PROVE  IInv'
    <2> DEFINE bodies == [n \in DOMAIN old |-> [Bodies(old)[n] EXCEPT !.session_id = s]]
    <2>1. Befalls("changed", Written(s, bodies, hdr.spki_der), version)
      BY <1>5 DEF Resession
    <2>2. \A n \in 1..Len(old) : [Bodies(old)[n] EXCEPT !.session_id = s] \in Body
      <3>1. \A n \in 1..Len(old) : Bodies(old)[n] \in Body
        BY <1>1
      <3> QED
        BY <3>1 DEF Body
    <2>3. bodies \in Seq(Body)
      BY <1>1, <2>2
    <2> HIDE DEF bodies
    <2>4. Owned(Written(s, bodies, hdr.spki_der))
      BY <1>2, <2>3, WrittenOwned
    <2> QED
      BY <1>1, <2>1, <2>4, ChangeKeeps DEF Owned
  <1>6. ASSUME NEW n \in 1..MaxLen, Cut(n)
        PROVE  IInv'
    <2> DEFINE kept == SubSeq(old, 1, n - 1)
               newFile == [file EXCEPT !.entries = kept]
    <2>1. Befalls("changed", newFile, version) /\ n \in 1..Len(old)
      BY <1>1, <1>6 DEF Cut
    <2>2. kept \in Seq(Envelope)
      BY <1>1, <2>1, SubSeqProperties
    <2> HIDE DEF kept
    <2>3. Owned(newFile)
      BY <1>1, <2>2, OtherEntriesOwned
    <2> HIDE DEF newFile
    <2> QED
      BY <1>1, <2>1, <2>3, ChangeKeeps DEF Owned
  <1>7. ASSUME NEW n \in 1..MaxLen, Restamp(n)
        PROVE  IInv'
    <2>1. PICK h \in {NoHash} \cup (IF token = None THEN {} ELSE {token.head_entry_hash}) :
                 Befalls("changed", [file EXCEPT !.entries[n].entry_hash = h], version)
      BY <1>7 DEF Restamp
    <2>2. n \in 1..Len(old)
      BY <1>1, <1>7 DEF Restamp
    <2>3. h \in Hash
      <3>1. token # None => token.head_entry_hash \in Hash
        BY DEF IInv, TypeOK, Token
      <3> QED
        BY <2>1, <3>1, NoHashTyped
    <2> DEFINE e == [old[n] EXCEPT !.entry_hash = h]
               new == [old EXCEPT ![n] = e]
               newFile == [file EXCEPT !.entries = new]
    <2>4. old[n] \in Envelope
      BY <1>1, <2>2
    <2>5. e \in Envelope
      BY <2>3, <2>4 DEF Envelope
    <2>6. Befalls("changed", newFile, version)
      BY <1>1, <2>1 DEF LogFile
    <2> HIDE DEF e
    <2>7. new \in Seq(Envelope)
      BY <1>1, <2>2, <2>5, ExceptSeq
    <2> HIDE DEF new
    <2>8. Owned(newFile)
      BY <1>1, <2>7, OtherEntriesOwned
    <2> HIDE DEF newFile
    <2> QED
      BY <1>1, <2>6, <2>8, ChangeKeeps DEF Owned
  <1>8. CASE Empty
    <2> DEFINE newFile == [file EXCEPT !.header.form = "absent", !.entries = <<>>]
    <2>1. Befalls("changed", newFile, version)
      BY <1>8 DEF Empty
    <2> DEFINE absent == [hdr EXCEPT !.form = "absent"]
    <2>2. Owned(newFile)
      <3>1. hdr \in Header /\ hdr.spki_der \in Keys /\ hdr.key_id = WriterLabel
            /\ hdr.spki_sha256 = spki_fingerprint(hdr.spki_der)
        BY <1>1 DEF Owned, LogFile
      <3>2. /\ absent \in Header /\ absent.spki_der = hdr.spki_der
            /\ absent.key_id = hdr.key_id /\ absent.spki_sha256 = hdr.spki_sha256
        BY <3>1 DEF Header, LineForms
      <3> DEFINE lost == [file EXCEPT !.header = absent]
      <3>3. newFile = [lost EXCEPT !.entries = <<>>]
        BY <1>1 DEF LogFile
      <3> HIDE DEF absent, newFile
      <3>4. lost \in LogFile /\ lost.header = absent
        BY <1>1, <3>2 DEF LogFile
      <3> HIDE DEF lost
      <3>5. newFile \in LogFile /\ newFile.header = absent
        <4>1. <<>> \in Seq(Envelope)
          OBVIOUS
        <4> QED
          BY <3>3, <3>4, <4>1 DEF LogFile
      <3> QED
        BY <3>1, <3>2, <3>5 DEF Owned
    <2> HIDE DEF newFile
    <2> QED
      BY <1>1, <2>1, <2>2, ChangeKeeps DEF Owned
  <1>9. CASE Unlink
    BY <1>1, <1>9, ChangeKeeps DEF Unlink
  <1>10. CASE Upgrade
    BY <1>1, <1>10, ChangeKeeps DEF Upgrade, Versions
  <1> QED
    BY <1>3, <1>4, <1>5, <1>6, <1>7, <1>8, <1>9, <1>10

-----------------------------------------------------------------------------
(***************************************************************************)
(* The calls.                                                              *)
(***************************************************************************)
\* The anchors a check is given are made from the published one.
LEMMA AnchorsTyped ==
  ASSUME IInv, NEW anchor \in Anchors
  PROVE  anchor \in Token /\ token # None
  <1>1. token # None
    BY DEF Anchors
  <1>2. token \in Token
    BY <1>1 DEF IInv, TypeOK
  <1>3. MaxLen \in Nat
    BY BoundsAssumption
  <1>4. CASE anchor = token
    BY <1>1, <1>2, <1>4
  <1>5. ASSUME NEW n \in 0..MaxLen, anchor = [token EXCEPT !.count = n]
        PROVE  anchor \in Token
    <2>1. n \in Nat
      BY <1>3
    <2> QED
      BY <1>2, <1>5, <2>1 DEF Token
  <1>6. ASSUME NEW v \in {None, "later"}, anchor = [token EXCEPT !.version = v]
        PROVE  anchor \in Token
    BY <1>2, <1>6 DEF Token, Versions
  <1>7. CASE anchor = [token EXCEPT !.type = "something else"]
    BY <1>1, <1>2, <1>7 DEF Token
  <1> QED
    BY <1>1, <1>4, <1>5, <1>6, <1>7 DEF Anchors

\* Before a call has verified anything it has nothing to keep.
LEMMA FreshKeeps ==
  ASSUME IInv, UNCHANGED diskVars, UNCHANGED tokenVars, UNCHANGED since,
         call' \in {"make", "check"}, pc' \in {"idle", "detect"},
         given' \in Token \cup {None}, verdict' = None, chain' = None, during' = "still",
         call' = "check" => given' # None /\ token # None,
         \/ outcome' = "none" /\ answer' = None
         \/ outcome' = "answered" /\ answer' \in AnchorAnswer /\ ~answer'.ok /\ call' = "check"
  PROVE  IInv'
  <1>1. TypeOK'
    BY AnswerAssumption DEF IInv, TypeOK, diskVars, tokenVars
  <1>2. DiskOK' /\ DuringOK' /\ PassedOK' /\ CallOK'
    BY DEF IInv, DiskOK, Owned, diskVars, DuringOK, PassedOK, Passed, CallOK, tokenVars
  <1>3. PublishedOK'
    BY DEF IInv, PublishedOK, tokenVars, Exactly, WrittenAt
  <1> QED
    BY <1>1, <1>2, <1>3 DEF IInv

\* Starting to make an anchor keeps the invariant.
LEMMA BeginMakeKeeps ==
  ASSUME IInv, BeginMake
  PROVE  IInv'
  BY FreshKeeps DEF BeginMake, Begin

\* So does starting a check, whatever anchor it is given.
LEMMA BeginCheckKeeps ==
  ASSUME IInv, NEW anchor \in Anchors, BeginCheck(anchor)
  PROVE  IInv'
  <1>1. anchor \in Token /\ token # None /\ anchor # None
    BY AnchorsTyped, AnswerAssumption
  <1>2. /\ AnchorResult(FALSE, "not an anchor", 0, 0) \in AnchorAnswer
        /\ ~AnchorResult(FALSE, "not an anchor", 0, 0).ok
    BY DEF AnchorResult, AnchorAnswer, AnchorReasons
  <1>3. /\ call' = "check" /\ given' = anchor /\ verdict' = None /\ chain' = None
        /\ during' = "still" /\ UNCHANGED <<diskVars, tokenVars, since>>
    BY DEF BeginCheck, Begin
  <1>4. CASE anchor.type = ANCHOR_TYPE
    BY <1>1, <1>3, <1>4, FreshKeeps DEF BeginCheck
  <1>5. CASE anchor.type # ANCHOR_TYPE
    BY <1>1, <1>2, <1>3, <1>5, FreshKeeps DEF BeginCheck, End
  <1> QED
    BY <1>4, <1>5

\* A call that ends without an answer, or reads on, keeps the invariant.
LEMMA GoesOnKeeps ==
  ASSUME IInv, UNCHANGED <<chain, tokenVars>>, Quiet, verdict' \in VerifyResult \cup {None},
         \/ /\ pc' \in {"verify", "redetect", "load"} /\ UNCHANGED <<outcome, answer>>
            /\ pc' \in {"redetect", "load"} =>
                  /\ verdict' # None
                  /\ call = "make" => verdict'.ok
                  /\ verdict'.ok /\ during # "changed" =>
                        file # None /\ UpToForm(file.entries, file.header.spki_sha256)
         \/ pc' = "idle" /\ outcome' \in {"raised", "refused"} /\ answer' = None
  PROVE  IInv'
  <1>1. TypeOK'
    BY DEF IInv, TypeOK, Quiet, diskVars, tokenVars
  <1>2. DiskOK'
    BY DEF IInv, DiskOK, Owned, Quiet, diskVars
  <1>3. DuringOK'
    BY DEF DuringOK, Quiet, diskVars, UpToForm, WrittenAt
  <1>4. PublishedOK'
    BY DEF IInv, PublishedOK, tokenVars, Exactly, WrittenAt
  <1>5. PassedOK'
    BY DEF IInv, PassedOK, Passed, Quiet, Exactly, WrittenAt
  <1>6. CallOK'
    BY DEF IInv, CallOK, Quiet, tokenVars
  <1> QED
    BY <1>1, <1>2, <1>3, <1>4, <1>5, <1>6 DEF IInv

\* Detecting the version reads the file and keeps nothing of it.
LEMMA DetectKeeps ==
  ASSUME IInv, Detect("detect", "verify") \/ Detect("redetect", "load")
  PROVE  IInv'
  <1>1. UNCHANGED <<verdict, chain, tokenVars>> /\ Quiet /\ verdict' \in VerifyResult \cup {None}
    BY DEF Detect, IInv, TypeOK
  <1>2. CASE End("raised", None)
    BY <1>1, <1>2, GoesOnKeeps DEF End
  <1>3. CASE pc = "detect" /\ Advance("verify")
    BY <1>1, <1>3, GoesOnKeeps DEF Advance
  <1>4. CASE pc = "redetect" /\ Advance("load")
    <2>1. /\ verdict # None
          /\ call = "make" => verdict.ok
          /\ verdict.ok /\ during # "changed" =>
                file # None /\ UpToForm(file.entries, file.header.spki_sha256)
      BY <1>4 DEF IInv, TypeOK, CallOK, DuringOK
    <2> QED
      BY <1>1, <1>4, <2>1, GoesOnKeeps DEF Advance
  <1> QED
    BY <1>2, <1>3, <1>4 DEF Detect

\* What is accepted is the chain its owner wrote.
LEMMA AcceptedIsWritten ==
  ASSUME IInv, NEW r \in Outcomes(file, Unpinned), r # Raised
  PROVE  /\ r \in VerifyResult
         /\ r.ok => file # None /\ UpToForm(file.entries, file.header.spki_sha256)
  <1> DEFINE hdr == file.header
             entries == file.entries
  <1>1. file \in LogFile \cup {None}
    BY DEF IInv, TypeOK
  <1>2. /\ r \in VerifyResult
        /\ r.ok => /\ file # None
                   /\ \A n \in 1..Len(entries) : entries[n].form = "object"
                   /\ \A n \in 1..Len(entries) : Sound(hdr, entries, n)
    BY <1>1, OutcomesTyped
  <1>3. ASSUME r.ok
        PROVE  UpToForm(entries, hdr.spki_sha256)
    <2>1. Owned(file) /\ entries \in Seq(Envelope)
      BY <1>2, <1>3, FileFields
    <2>2. /\ spki_fingerprint(hdr.spki_der) = hdr.spki_sha256 /\ hdr.key_id = WriterLabel
          /\ hdr.spki_sha256.sha256 = hdr.spki_der
      BY <2>1 DEF Owned, spki_fingerprint
    <2> HIDE DEF hdr, entries
    <2>3. \A n \in 1..Len(entries) :
             entries[n] = EnvelopeOf(Bodies(entries), n, hdr.spki_der, hdr.key_id,
                                     spki_fingerprint(hdr.spki_der))
      BY <1>2, <1>3, <2>1, <2>2, SoundChain DEF Sound, Unviolated
    <2>4. ASSUME NEW n \in 1..Len(entries)
          PROVE  [entries[n] EXCEPT !.form = "object"] = WrittenAt(entries, n, hdr.spki_sha256)
      <3>1. entries[n] \in Envelope /\ entries[n].form = "object"
        BY <1>2, <1>3, <2>1
      <3>2. [entries[n] EXCEPT !.form = "object"] = entries[n]
        BY <3>1 DEF Envelope
      <3> QED
        BY <2>2, <2>3, <3>2 DEF WrittenAt
    <2> QED
      BY <2>4 DEF UpToForm
  <1> QED
    BY <1>2, <1>3

\* Verifying keeps what it accepts.
LEMMA VerifyKeeps ==
  ASSUME IInv, Verify
  PROVE  IInv'
  <1>1. PICK r \in Outcomes(file, Unpinned) :
              \/ r = Raised /\ End("raised", None) /\ UNCHANGED verdict
              \/ /\ r # Raised
                 /\ verdict' = r
                 /\ IF call = "make" /\ ~r.ok THEN End("refused", None) ELSE Advance("redetect")
    BY DEF Verify
  <1>2. UNCHANGED <<chain, tokenVars>> /\ Quiet
    BY DEF Verify
  <1>3. CASE r = Raised /\ End("raised", None) /\ UNCHANGED verdict
    <2>1. verdict' \in VerifyResult \cup {None}
      BY <1>3 DEF IInv, TypeOK
    <2> QED
      BY <1>2, <1>3, <2>1, GoesOnKeeps DEF End
  <1>4. CASE /\ r # Raised /\ verdict' = r
             /\ IF call = "make" /\ ~r.ok THEN End("refused", None) ELSE Advance("redetect")
    <2>1. /\ r \in VerifyResult /\ r # None
          /\ r.ok => file # None /\ UpToForm(file.entries, file.header.spki_sha256)
      BY <1>4, AcceptedIsWritten, AbsenceAssumption
    <2>2. CASE call = "make" /\ ~r.ok
      BY <1>2, <1>4, <2>1, <2>2, GoesOnKeeps DEF End
    <2>3. CASE ~(call = "make" /\ ~r.ok)
      BY <1>2, <1>4, <2>1, <2>3, GoesOnKeeps DEF Advance
    <2> QED
      BY <2>2, <2>3
  <1> QED
    BY <1>1, <1>3, <1>4

\* A log that cannot be loaded ends the call.
LEMMA CannotLoadKeeps ==
  ASSUME IInv, CannotLoad
  PROVE  IInv'
  <1>1. /\ UNCHANGED <<verdict, chain, tokenVars>> /\ Quiet /\ End("raised", None)
        /\ verdict' \in VerifyResult \cup {None}
    BY DEF CannotLoad, IInv, TypeOK
  <1> QED
    BY <1>1, GoesOnKeeps DEF End

\* What is loaded is a log whose lines are what they should be.
LEMMA LoadedIsExact ==
  ASSUME IInv, Loads(file)
  PROVE  /\ file # None
         /\ UpToForm(file.entries, file.header.spki_sha256)
            => Exactly(file.entries, file.header.spki_sha256)
  <1> DEFINE entries == file.entries
             fp == file.header.spki_sha256
  <1>1. file # None
    BY DEF Loads
  <1>2. entries \in Seq(Envelope) /\ DOMAIN entries = 1..Len(entries)
    BY <1>1, FileFields
  <1>3. ASSUME UpToForm(entries, fp), NEW n \in 1..Len(entries)
        PROVE  entries[n] = WrittenAt(entries, n, fp)
    <2>1. entries[n] \in Envelope /\ entries[n].form = "object"
      BY <1>2 DEF Loads, Unparsed
    <2>2. [entries[n] EXCEPT !.form = "object"] = entries[n]
      BY <2>1 DEF Envelope
    <2> QED
      BY <1>3, <2>2 DEF UpToForm
  <1> QED
    BY <1>1, <1>3 DEF Exactly

\* Making the anchor publishes the head of what was loaded.
LEMMA FinishMakeKeeps ==
  ASSUME IInv, FinishMake
  PROVE  IInv'
  <1> DEFINE entries == file.entries
             N == Len(entries)
             fp == file.header.spki_sha256
  <1>1. /\ pc = "load" /\ call = "make" /\ Loads(file) /\ chain' = file
        /\ UNCHANGED <<diskVars, during, call, given, verdict>>
    BY DEF FinishMake
  <1>2. file # None /\ (UpToForm(entries, fp) => Exactly(entries, fp))
    BY <1>1, LoadedIsExact
  <1>3. /\ Owned(file) /\ file \in LogFile /\ entries \in Seq(Envelope) /\ N \in Nat
        /\ Bodies(entries) \in Seq(Body) /\ Len(Bodies(entries)) = N
        /\ file.header \in Header
    <2>1. file # None
      BY <1>2
    <2> QED
      BY <2>1, FileFields
  <1>4. verdict.ok /\ (during # "changed" => Exactly(entries, fp))
    BY <1>1, <1>2 DEF IInv, CallOK, DuringOK
  <1>5. pc' = "idle" /\ answer' = None /\ outcome' \in {"refused", "anchored"}
    BY DEF FinishMake, End
  <1>6. DiskOK' /\ DuringOK' /\ PassedOK' /\ CallOK'
    BY <1>1, <1>5 DEF IInv, DiskOK, Owned, diskVars, DuringOK, PassedOK, Passed, CallOK
  <1>7. CASE UNCHANGED <<tokenVars, since>>
    <2>1. TypeOK'
      BY <1>1, <1>3, <1>5, <1>7 DEF IInv, TypeOK, diskVars, tokenVars
    <2>2. PublishedOK'
      BY <1>7 DEF IInv, PublishedOK, tokenVars, Exactly, WrittenAt
    <2> QED
      BY <1>6, <2>1, <2>2 DEF IInv
  <1>8. CASE /\ entries # <<>> /\ token' = TokenOf(file) /\ anchored' = entries
             /\ made' = during /\ since' = "still"
    <2>1. N \in 1..N /\ Last(entries) = entries[N] /\ entries[N] \in Envelope
      BY <1>3, <1>8 DEF Last
    <2>2. TokenOf(file) \in Token
      <3>1. fp \in Fingerprint
        BY <1>3 DEF Owned, spki_fingerprint, Fingerprint, Ders, SigningKeys
      <3>2. file.header.session_id \in Sessions /\ file.header.key_id \in Labels
        BY <1>3 DEF Header
      <3>3. Last(entries).entry_hash \in Hash
        BY <2>1 DEF Envelope
      <3> QED
        BY <1>3, <3>1, <3>2, <3>3 DEF TokenOf, Token, Versions
    <2>3. /\ token'.count = N /\ token'.head_entry_hash = entries[N].entry_hash
          /\ token'.spki_sha256 = fp
      BY <1>8, <2>1 DEF TokenOf
    <2>4. TypeOK'
      <3>1. made' \in {"still", "appended", "changed"}
        BY <1>8 DEF IInv, TypeOK
      <3> QED
        BY <1>1, <1>3, <1>5, <1>8, <2>2, <3>1 DEF IInv, TypeOK, diskVars
    <2>5. PublishedOK'
      <3>1. ASSUME made' # "changed"
            PROVE  /\ Exactly(entries, fp)
                   /\ entries[N].entry_hash = Bodies(entries)
        <4>1. Exactly(entries, fp)
          BY <1>4, <1>8, <3>1
        <4>2. entries[N] = WrittenAt(entries, N, fp)
          BY <2>1, <4>1 DEF Exactly
        <4>3. entries[N].entry_hash = SubSeq(Bodies(entries), 1, N)
          BY <4>2 DEF WrittenAt, EnvelopeOf
        <4>4. SubSeq(Bodies(entries), 1, N) = Bodies(entries)
          BY <1>3, SubSeqFull
        <4> QED
          BY <4>1, <4>3, <4>4
      <3> HIDE DEF entries, N, fp
      <3> QED
        BY <1>8, <2>3, <3>1 DEF PublishedOK, Exactly, WrittenAt, N
    <2> QED
      BY <1>6, <2>4, <2>5 DEF IInv
  <1> QED
    BY <1>7, <1>8 DEF FinishMake

\* A check that passes has read a chain that reaches to the anchored head.
LEMMA FinishCheckKeeps ==
  ASSUME IInv, FinishCheck
  PROVE  IInv'
  <1> DEFINE fp == file.header.spki_sha256
  <1>1. /\ pc = "load" /\ call = "check" /\ Loads(file) /\ chain' = file
        /\ pc' = "idle" /\ outcome' = "answered" /\ answer' = Compared(verdict, file, given)
        /\ UNCHANGED <<verdict, tokenVars>> /\ Quiet
    BY DEF FinishCheck, End
  <1>2. file # None /\ (UpToForm(file.entries, fp) => Exactly(file.entries, fp))
    BY <1>1, LoadedIsExact
  <1>3. file \in LogFile /\ verdict \in VerifyResult /\ given \in Token
    BY <1>1, <1>2 DEF IInv, TypeOK
  <1>4. answer' \in AnchorAnswer /\ answer' # None
    BY <1>1, <1>3, ComparedTyped, AnswerAssumption
  <1>5. TypeOK'
    BY <1>1, <1>3, <1>4 DEF IInv, TypeOK, Quiet, diskVars, tokenVars
  <1>6. DiskOK' /\ DuringOK' /\ CallOK'
    BY <1>1 DEF IInv, DiskOK, Owned, DuringOK, CallOK, Quiet, diskVars, tokenVars
  <1>7. PublishedOK'
    BY <1>1 DEF IInv, PublishedOK, tokenVars, Exactly, WrittenAt
  <1>8. PassedOK'
    <2> SUFFICES ASSUME Compared(verdict, file, given).ok
                 PROVE  /\ file.header.spki_sha256 = given.spki_sha256
                        /\ given.count \in 1..Len(file.entries)
                        /\ file.entries[given.count].entry_hash = given.head_entry_hash
                        /\ during # "changed" => Exactly(file.entries, given.spki_sha256)
      BY <1>1, <1>3 DEF PassedOK, Passed, Quiet, Exactly, WrittenAt
    <2>1. /\ verdict.ok /\ fp = given.spki_sha256
          /\ given.count \in 1..Len(file.entries)
          /\ file.entries[given.count].entry_hash = given.head_entry_hash
      BY <1>3, ComparedPasses
    <2>2. during # "changed" => Exactly(file.entries, fp)
      BY <1>1, <1>2, <2>1 DEF IInv, DuringOK
    <2> QED
      BY <2>1, <2>2
  <1> QED
    BY <1>5, <1>6, <1>7, <1>8 DEF IInv

-----------------------------------------------------------------------------
\* The inductive invariant holds at the start.
LEMMA InitOK == Init => IInv
  <1> SUFFICES ASSUME Init
               PROVE  IInv
    OBVIOUS
  <1>1. PICK s \in Sessions : \E p \in Payloads : file = Written(s, <<Event(s, 0, p)>>, WriterKey)
    BY DEF Init
  <1>2. PICK p \in Payloads : file = Written(s, <<Event(s, 0, p)>>, WriterKey)
    BY <1>1
  <1>3. Owned(file)
    <2>1. Event(s, 0, p) \in Body
      BY WriterAssumption DEF Event, Body, EVENT_TYPES
    <2>2. <<Event(s, 0, p)>> \in Seq(Body)
      BY <2>1
    <2> QED
      BY <1>2, <2>2, WrittenOwned, WriterAssumption
  <1>4. TypeOK
    <2>1. <<>> \in Seq(Envelope) /\ 0 \in 0..MaxChanges
      BY BoundsAssumption
    <2> QED
      BY <1>3, <2>1 DEF Init, TypeOK, Owned, Versions
  <1> QED
    BY <1>3, <1>4 DEF Init, IInv, DiskOK, DuringOK, PublishedOK, PassedOK, Passed, CallOK

(***************************************************************************)
(* No step of the disk or of a call breaks IInv.                           *)
(***************************************************************************)
LEMMA NextKeeps == IInv /\ [Next]_vars => IInv'
  <1> SUFFICES ASSUME IInv, [Next]_vars
               PROVE  IInv'
    OBVIOUS
  <1>1. CASE \E p \in Payloads : StartAppend(p)
    BY <1>1, StartAppendExtends, AppendingKeeps
  <1>2. CASE FinishAppend
    BY <1>2, FinishAppendExtends, AppendingKeeps
  <1>3. CASE \/ \E n \in 1..MaxLen, p \in Payloads : RewriteHistory(n, p)
             \/ \E key \in Keys : Rekey(key)
             \/ \E s \in Sessions : Resession(s)
             \/ \E n \in 1..MaxLen : Cut(n) \/ Restamp(n)
             \/ Empty \/ Unlink \/ Upgrade
    BY <1>3, ChangesKeep
  <1>4. CASE BeginMake
    BY <1>4, BeginMakeKeeps
  <1>5. CASE \E anchor \in Anchors : BeginCheck(anchor)
    BY <1>5, BeginCheckKeeps
  <1>6. CASE Detect("detect", "verify") \/ Detect("redetect", "load")
    BY <1>6, DetectKeeps
  <1>7. CASE Verify
    BY <1>7, VerifyKeeps
  <1>8. CASE CannotLoad
    BY <1>8, CannotLoadKeeps
  <1>9. CASE FinishMake
    BY <1>9, FinishMakeKeeps
  <1>10. CASE FinishCheck
    BY <1>10, FinishCheckKeeps
  <1>11. CASE UNCHANGED vars
    BY <1>11 DEF vars, diskVars, tokenVars, callVars, IInv, TypeOK, DiskOK, Owned, DuringOK,
       UpToForm, PublishedOK, Exactly, PassedOK, Passed, CallOK, WrittenAt
  <1>12. CASE Disk
    BY <1>1, <1>2, <1>3, <1>12 DEF Disk
  <1> QED
    BY <1>4, <1>5, <1>6, <1>7, <1>8, <1>9, <1>10, <1>11, <1>12 DEF Next, CallStep

(***************************************************************************)
(* The inductive invariant holds of every run of make_anchor and           *)
(* check_anchor.                                                           *)
(***************************************************************************)
THEOREM Invariance == Spec => []IInv
  BY InitOK, NextKeeps, PTL DEF Spec

(***************************************************************************)
(* Every variable keeps its type; a call that compares has a verdict, and  *)
(* an answer is there exactly when a check ended with one (anchor.py).     *)
(***************************************************************************)
THEOREM TypeCorrect == Spec => []TypeOK
  <1>1. IInv => TypeOK
    BY DEF IInv
  <1> QED
    BY <1>1, Invariance, PTL

(***************************************************************************)
(* make_anchor: the head an anchor names is the hash of the chain of the   *)
(* entries it counts, unless the file was replaced, not merely appended    *)
(* to, between the verification and the load of the same call.             *)
(***************************************************************************)
THEOREM AnchorIsTheHead == Spec => []AnchorIsHead
  <1>1. ASSUME IInv, token # None, made # "changed"
        PROVE  /\ token.count = Len(anchored)
               /\ token.head_entry_hash = Bodies(anchored)
               /\ \A n \in DOMAIN anchored : anchored[n].entry_hash = SubSeq(Bodies(anchored), 1, n)
    <2>1. /\ token.count = Len(anchored) /\ token.head_entry_hash = Bodies(anchored)
          /\ Exactly(anchored, token.spki_sha256)
      BY <1>1 DEF IInv, PublishedOK
    <2>2. DOMAIN anchored = 1..Len(anchored)
      BY <1>1 DEF IInv, TypeOK
    <2>3. ASSUME NEW n \in 1..Len(anchored)
          PROVE  anchored[n].entry_hash = SubSeq(Bodies(anchored), 1, n)
      <3>1. anchored[n] = WrittenAt(anchored, n, token.spki_sha256)
        BY <2>1 DEF Exactly
      <3> QED
        BY <3>1 DEF WrittenAt, EnvelopeOf
    <2> QED
      BY <2>1, <2>2, <2>3
  <1>2. IInv => AnchorIsHead
    BY <1>1 DEF AnchorIsHead
  <1> QED
    BY <1>2, Invariance, PTL

\* A written line carries the hash of the chain up to it.
LEMMA HashWritten ==
  ASSUME NEW entries, NEW n, NEW fp
  PROVE  WrittenAt(entries, n, fp).entry_hash = SubSeq(Bodies(entries), 1, n)
  BY DEF WrittenAt, EnvelopeOf

\* What a check passed is a chain whose anchored part hashes to the head.
LEMMA PassedPrefix ==
  ASSUME IInv, Passed, during # "changed"
  PROVE  /\ chain.entries \in Seq(Envelope) /\ Len(chain.entries) \in Nat
         /\ given.count \in 1..Len(chain.entries)
         /\ Bodies(chain.entries) \in Seq(Body) /\ Len(Bodies(chain.entries)) = Len(chain.entries)
         /\ SubSeq(Bodies(chain.entries), 1, given.count) = given.head_entry_hash
         /\ Exactly(chain.entries, given.spki_sha256)
  <1> DEFINE entries == chain.entries
             n == given.count
  <1>1. /\ chain \in LogFile /\ n \in 1..Len(entries)
        /\ entries[n].entry_hash = given.head_entry_hash
        /\ Exactly(entries, given.spki_sha256)
    BY DEF IInv, PassedOK
  <1>2. entries \in Seq(Envelope)
    BY <1>1 DEF LogFile
  <1>3. entries[n].entry_hash = SubSeq(Bodies(entries), 1, n)
    <2>1. entries[n] = WrittenAt(entries, n, given.spki_sha256)
      BY <1>1 DEF Exactly
    <2> QED
      BY <2>1, HashWritten
  <1>4. Bodies(entries) \in Seq(Body) /\ Len(Bodies(entries)) = Len(entries)
    BY <1>2, BodiesTyped
  <1> HIDE DEF entries
  <1>5. Len(entries) \in Nat
    BY <1>2
  <1> QED
    BY <1>1, <1>2, <1>3, <1>4, <1>5 DEF entries

(***************************************************************************)
(* check_anchor, whatever anchor it is given: the first `count` entries of *)
(* what it passes, at least one, hash to the head the anchor names.        *)
(***************************************************************************)
THEOREM CommittedToPrefix == Spec => []CommitsToPrefix
  <1>1. ASSUME IInv, Passed, during # "changed"
        PROVE  /\ given.count \in 1..Len(chain.entries)
               /\ Bodies(SubSeq(chain.entries, 1, given.count)) = given.head_entry_hash
    <2> DEFINE entries == chain.entries
               n == given.count
               prefix == SubSeq(entries, 1, n)
    <2>1. /\ entries \in Seq(Envelope) /\ Len(entries) \in Nat /\ n \in 1..Len(entries)
          /\ Bodies(entries) \in Seq(Body) /\ Len(Bodies(entries)) = Len(entries)
          /\ SubSeq(Bodies(entries), 1, n) = given.head_entry_hash
      BY <1>1, PassedPrefix
    <2> HIDE DEF entries, n
    <2>2. /\ prefix \in Seq(Envelope) /\ Len(prefix) = n /\ n \in Nat
          /\ \A m \in 1..n : prefix[m] = entries[m]
      BY <2>1, SubSeqProperties
    <2>3. /\ SubSeq(Bodies(entries), 1, n) \in Seq(Body)
          /\ Len(SubSeq(Bodies(entries), 1, n)) = n
          /\ \A m \in 1..n : SubSeq(Bodies(entries), 1, n)[m] = Bodies(entries)[m]
      <3>1. n \in 0..Len(Bodies(entries))
        BY <2>1
      <3> QED
        BY <2>1, <3>1, StartTyped DEF Hash
    <2> HIDE DEF prefix
    <2>4. /\ Bodies(prefix) \in Seq(Body) /\ Len(Bodies(prefix)) = n
          /\ \A m \in 1..n : Bodies(prefix)[m] = BodyOf(prefix[m].record)
      BY <2>2, BodiesTyped
    <2>5. \A m \in 1..Len(entries) : Bodies(entries)[m] = BodyOf(entries[m].record)
      BY <2>1, BodiesTyped
    <2>6. \A m \in 1..n : Bodies(prefix)[m] = SubSeq(Bodies(entries), 1, n)[m]
      <3> SUFFICES ASSUME NEW m \in 1..n
                   PROVE  Bodies(prefix)[m] = SubSeq(Bodies(entries), 1, n)[m]
        OBVIOUS
      <3>1. m \in 1..Len(entries)
        BY <2>1, <2>2
      <3>2. prefix[m] = entries[m]
        BY <2>2
      <3>3. Bodies(prefix)[m] = BodyOf(prefix[m].record)
        BY <2>4
      <3>4. Bodies(entries)[m] = BodyOf(entries[m].record)
        BY <2>5, <3>1
      <3>5. SubSeq(Bodies(entries), 1, n)[m] = Bodies(entries)[m]
        BY <2>3
      <3> QED
        BY <3>2, <3>3, <3>4, <3>5
    <2>7. Bodies(prefix) = SubSeq(Bodies(entries), 1, n)
      BY <2>3, <2>4, <2>6, SeqEqual
    <2> QED
      BY <2>1, <2>7 DEF prefix, entries, n
  <1>2. IInv => CommitsToPrefix
    BY <1>1 DEF CommitsToPrefix
  <1> QED
    BY <1>2, Invariance, PTL

(***************************************************************************)
(* Nobody, the key's holder included, can present another history for the  *)
(* entries that were anchored: what check_anchor passes starts with them,  *)
(* envelope for envelope, however long ago the anchor was made.            *)
(***************************************************************************)
THEOREM HistoryIsPinned == Spec => []HistoryPinned
  <1>1. ASSUME IInv, Passed, given = token, made # "changed", during # "changed"
        PROVE  SubSeq(chain.entries, 1, token.count) = anchored
    <2> DEFINE entries == chain.entries
               n == token.count
               fp == token.spki_sha256
               prefix == SubSeq(entries, 1, n)
    <2>1. token # None
      BY <1>1 DEF IInv, CallOK, Passed
    <2>2. /\ n = Len(anchored) /\ token.head_entry_hash = Bodies(anchored)
          /\ Exactly(anchored, fp) /\ anchored \in Seq(Envelope)
      BY <1>1, <2>1 DEF IInv, PublishedOK, TypeOK
    <2>3. /\ entries \in Seq(Envelope) /\ Len(entries) \in Nat /\ n \in 1..Len(entries)
          /\ Bodies(entries) \in Seq(Body) /\ Len(Bodies(entries)) = Len(entries)
          /\ SubSeq(Bodies(entries), 1, n) = Bodies(anchored)
          /\ Exactly(entries, fp)
      BY <1>1, <2>2, PassedPrefix
    <2> HIDE DEF entries, n, fp
    <2>4. Bodies(anchored) \in Seq(Body) /\ Len(Bodies(anchored)) = n
      BY <2>2, BodiesTyped
    <2>5. \A m \in 1..n : Bodies(anchored)[m] = Bodies(entries)[m]
      <3>1. n \in 0..Len(Bodies(entries))
        BY <2>3
      <3>2. \A m \in 1..n : SubSeq(Bodies(entries), 1, n)[m] = Bodies(entries)[m]
        BY <2>3, <3>1, StartTyped
      <3> QED
        BY <2>3, <3>2
    <2>6. ASSUME NEW m \in 1..n
          PROVE  entries[m] = anchored[m]
      <3>1. m \in 1..Len(Bodies(entries)) /\ m \in 1..Len(Bodies(anchored))
        BY <2>3, <2>4
      <3>2. \A k \in 1..m : Bodies(anchored)[k] = Bodies(entries)[k]
        BY <2>3, <2>5
      <3>3. WrittenAt(entries, m, fp) = WrittenAt(anchored, m, fp)
        BY <2>3, <2>4, <3>1, <3>2, SameStart DEF WrittenAt
      <3>4. entries[m] = WrittenAt(entries, m, fp)
        BY <2>3 DEF Exactly
      <3>5. anchored[m] = WrittenAt(anchored, m, fp)
        BY <2>2 DEF Exactly
      <3> QED
        BY <3>3, <3>4, <3>5
    <2>7. /\ prefix \in Seq(Envelope) /\ Len(prefix) = n
          /\ \A m \in 1..n : prefix[m] = entries[m]
      BY <2>3, SubSeqProperties
    <2> HIDE DEF prefix
    <2>8. prefix = anchored
      BY <2>2, <2>6, <2>7, SeqEqual
    <2> QED
      BY <2>8 DEF prefix, entries, n
  <1>2. IInv => HistoryPinned
    BY <1>1 DEF HistoryPinned
  <1> QED
    BY <1>2, Invariance, PTL

-----------------------------------------------------------------------------
(***************************************************************************)
(* No false alarm about an anchored log: what its writer appends does not  *)
(* break the anchor, however the appends fall between the four reads of a  *)
(* check.                                                                  *)
(***************************************************************************)
(***************************************************************************)
(* A file that has at most grown since it was anchored: a chain that is in *)
(* order and reaches to the anchored head.                                 *)
(***************************************************************************)
Holding(log, anchor) ==
    /\ Owned(log)
    /\ log.medium = "text" /\ log.header.form = "object"
    /\ log.header.session_id = anchor.session_id
    /\ log.header.spki_sha256 = anchor.spki_sha256
    /\ UpToForm(log.entries, log.header.spki_sha256)
    /\ ObjectOrTorn(log.entries)
    /\ Ordered(log)
    /\ anchor.count \in 1..Len(log.entries)
    /\ log.entries[anchor.count].entry_hash = anchor.head_entry_hash

Grown ==
    token # None /\ made # "changed" /\ since # "changed" =>
        file # None /\ Holding(file, token)

(***************************************************************************)
(* What was verified is in order still, unless the file was changed since. *)
(***************************************************************************)
DuringOrdered ==
    pc \in {"redetect", "load"} /\ verdict.ok /\ during # "changed" => Ordered(file)

(***************************************************************************)
(* A check of the published anchor has a verdict it can go on with, or     *)
(* met the line half written.                                              *)
(***************************************************************************)
VerdictOK ==
    /\ pc \in {"redetect", "load"} /\ given = token
    /\ call = "check" /\ made # "changed" /\ since # "changed"
    => verdict.ok \/ verdict.reason = "malformed entry"

Published == token # None => token.type = ANCHOR_TYPE /\ token.version = VERSION_V0

Running == pc # "idle" => answer = None

(***************************************************************************)
(* What IInv needs beside it for GrowthPasses to be inductive.             *)
(***************************************************************************)
GInv ==
    /\ Grown
    /\ DuringOrdered
    /\ VerdictOK
    /\ Published
    /\ Running
    /\ GrowthPasses

-----------------------------------------------------------------------------
(***************************************************************************)
(* What verify_log answers about such a file.                              *)
(***************************************************************************)
\* The entries of a chain as written, in order, fail no check.
LEMMA WrittenFailsNothing ==
  ASSUME NEW log, Owned(log), Ordered(log), Exactly(log.entries, log.header.spki_sha256),
         NEW n \in 1..Len(log.entries)
  PROVE  /\ Violations(log.header, log.entries, n) = {}
         /\ log.entries[n].record.session_id = log.header.session_id
  <1> DEFINE entries == log.entries
             hdr == log.header
             fp == hdr.spki_sha256
             bodies == Bodies(entries)
             N == Len(entries)
  <1>1. entries \in Seq(Envelope) /\ N \in Nat
    BY DEF Owned, LogFile
  <1>2. /\ bodies \in Seq(Body) /\ Len(bodies) = N
        /\ \A m \in 1..N : bodies[m] = BodyOf(entries[m].record)
    BY <1>1, BodiesTyped
  <1>3. fp.sha256 = hdr.spki_der /\ hdr.key_id = WriterLabel
    BY DEF Owned, spki_fingerprint
  <1>4. ASSUME NEW m \in 1..N
        PROVE  /\ entries[m] = EnvelopeOf(bodies, m, hdr.spki_der, WriterLabel, fp)
               /\ bodies[m] \in Body
               /\ entry_hash(entries[m].record) = SubSeq(bodies, 1, m)
    <2>1. entries[m] = EnvelopeOf(bodies, m, hdr.spki_der, WriterLabel, fp)
      BY <1>3 DEF Exactly, WrittenAt
    <2> HIDE DEF entries, bodies, hdr, fp
    <2>2. bodies[m] \in Body
      BY <1>2
    <2>3. entries[m].record = RecordOf(bodies[m], SubSeq(bodies, 1, m - 1))
      BY <2>1 DEF EnvelopeOf
    <2>4. BodyOf(entries[m].record) = bodies[m]
      BY <1>2
    <2>5. entries[m].record.prev_entry_hash = SubSeq(bodies, 1, m - 1)
      BY <2>3 DEF RecordOf
    <2>6. SubSeq(bodies, 1, m) = Append(SubSeq(bodies, 1, m - 1), bodies[m])
      BY <1>2, SubSeqGrows
    <2> QED
      BY <2>1, <2>2, <2>4, <2>5, <2>6 DEF entry_hash
  <1>5. /\ bodies[n].session_id = hdr.session_id
        /\ bodies[n].signer_key_id = WriterLabel
        /\ bodies[n].sequence = n - 1
    BY <1>2 DEF Ordered, InOrder
  <1> HIDE DEF entries, bodies, hdr, fp
  <1>6. n \in 1..N
    BY DEF N, entries
  <1> HIDE DEF N
  <1>7. /\ entries[n].record.session_id = hdr.session_id
        /\ entries[n].record.signer_key_id = WriterLabel
        /\ entries[n].record.sequence = n - 1
    BY <1>2, <1>5, <1>6, BodyFields
  <1>8. /\ entries[n].record.prev_entry_hash = SubSeq(bodies, 1, n - 1)
        /\ entries[n].entry_hash = SubSeq(bodies, 1, n)
        /\ entries[n].public_key.spki_sha256 = fp
        /\ entries[n].public_key.key_id = WriterLabel
        /\ entries[n].signature.key = hdr.spki_der
        /\ entries[n].signature.over = signed_digest(SubSeq(bodies, 1, n))
    <2>1. entries[n] = EnvelopeOf(bodies, n, hdr.spki_der, WriterLabel, fp)
      BY <1>4, <1>6
    <2>2. /\ entries[n].record = RecordOf(bodies[n], SubSeq(bodies, 1, n - 1))
          /\ entries[n].entry_hash = SubSeq(bodies, 1, n)
          /\ entries[n].public_key = PublicKeyOf(WriterLabel, fp)
          /\ entries[n].signature = SignedBy(hdr.spki_der, SubSeq(bodies, 1, n))
      BY <2>1 DEF EnvelopeOf
    <2> QED
      BY <2>2 DEF RecordOf, PublicKeyOf, SignedBy
  <1>9. entry_hash(entries[n].record) = SubSeq(bodies, 1, n)
    BY <1>4, <1>6
  <1>10. LinkBefore(entries, n) = SubSeq(bodies, 1, n - 1)
    <2>1. CASE n = 1
      <3>1. SubSeq(bodies, 1, 0) = <<>>
        BY <1>2, SubSeqEmpty
      <3> QED
        BY <2>1, <3>1 DEF LinkBefore, NoHash
    <2>2. CASE n # 1
      <3>1. n - 1 \in 1..N
        BY <1>1, <1>6, <2>2 DEF N
      <3>2. entry_hash(entries[n - 1].record) = SubSeq(bodies, 1, n - 1)
        BY <1>4, <3>1
      <3> QED
        BY <2>2, <3>2 DEF LinkBefore
    <2> QED
      BY <2>1, <2>2
  <1>11. \A r : r \notin Violations(hdr, entries, n)
    <2>1. SignatureVerifies(hdr.spki_der, entries[n].signature,
                            signed_digest(entry_hash(entries[n].record)))
      BY <1>8, <1>9 DEF SignatureVerifies
    <2>2. hdr.spki_sha256 = fp
      BY DEF fp
    <2> QED
      BY <1>3, <1>7, <1>8, <1>9, <1>10, <2>1, <2>2, ViolationsAre
  <1> QED
    BY <1>7, <1>11 DEF hdr, entries

\* A file that holds the anchored head verifies, or is read with a line half
\* written.
LEMMA HoldingVerifies ==
  ASSUME NEW log, log # None, NEW anchor, Holding(log, anchor),
         NEW r \in Outcomes(log, Unpinned), r # Raised
  PROVE  r.ok \/ r.reason = "malformed entry"
  <1> DEFINE entries == log.entries
             hdr == log.header
             bad == Unparsed(entries)
  <1>1. entries \in Seq(Envelope) /\ Len(entries) \in Nat /\ DOMAIN entries = 1..Len(entries)
    BY DEF Holding, Owned, LogFile
  <1>2. log.medium = "text" /\ hdr.form = "object"
    BY DEF Holding
  <1>3. CASE bad # {}
    <2>1. bad \in SUBSET Nat
      BY <1>1 DEF Unparsed
    <2> HIDE DEF bad
    <2>2. PICK k \in bad : \A m \in bad : k <= m
      BY <1>3, <2>1, LeastNatural
    <2>3. Least(bad) = k
      BY <2>1, <2>2, LeastIs
    <2>4. entries[k].form = "malformed"
      <3>1. k \in 1..Len(entries) /\ entries[k].form # "object"
        BY <1>1, <2>2 DEF bad, Unparsed
      <3>2. entries[k] \in Envelope
        BY <1>1, <3>1
      <3>3. entries[k].form \in LineForms
        BY <3>2 DEF Envelope
      <3> QED
        BY <3>1, <3>3 DEF Holding, ObjectOrTorn, LineForms
    <2>5. r = Fail(k - 1, k - 1, "malformed entry", hdr.key_id)
      BY <1>2, <1>3, <2>3, <2>4 DEF Outcomes, bad
    <2> QED
      BY <2>5 DEF Fail
  <1>4. CASE bad = {}
    <2>1. r \in ParsedOutcomes(hdr, entries, Unpinned)
      BY <1>2, <1>4 DEF Outcomes
    <2>2. \A n \in 1..Len(entries) : entries[n].form = "object"
      BY <1>1, <1>4 DEF Unparsed
    <2>3. Exactly(entries, hdr.spki_sha256)
      <3> SUFFICES ASSUME NEW n \in 1..Len(entries)
                   PROVE  entries[n] = WrittenAt(entries, n, hdr.spki_sha256)
        BY DEF Exactly
      <3>1. [entries[n] EXCEPT !.form = "object"] = WrittenAt(entries, n, hdr.spki_sha256)
        BY DEF Holding, UpToForm
      <3>2. entries[n] \in Envelope /\ entries[n].form = "object"
        BY <1>1, <2>2
      <3>3. [entries[n] EXCEPT !.form = "object"] = entries[n]
        BY <3>2 DEF Envelope
      <3> QED
        BY <3>1, <3>3
    <2>4. \A n \in 1..Len(entries) : Violations(hdr, entries, n) = {}
      BY <2>3, WrittenFailsNothing DEF Holding
    <2>5. HeaderViolations(hdr, entries, Unpinned) = {}
      <3>1. /\ hdr.spki_der \in Keys /\ spki_fingerprint(hdr.spki_der) = hdr.spki_sha256
            /\ entries # <<>>
        BY <1>1 DEF Holding, Owned
      <3>2. hdr.spki_der \notin BadDers /\ hdr.spki_der \notin RsaKeys
        BY <3>1, DersAssumption
      <3> HIDE DEF hdr, entries
      <3>3. \A x : x \notin HeaderViolations(hdr, entries, Unpinned)
        BY <3>1, <3>2, HeaderViolationsAre DEF Unpinned
      <3> QED
        BY <3>3
    <2> HIDE DEF hdr, entries
    <2>6. CASE Unsound(hdr, entries) # {}
      <3> DEFINE wrong == Unsound(hdr, entries)
      <3>1. wrong \in SUBSET Nat /\ wrong \subseteq 1..Len(entries)
        BY <1>1 DEF Unsound
      <3> HIDE DEF wrong
      <3>2. PICK k \in wrong : \A m \in wrong : k <= m
        BY <2>6, <3>1, LeastNatural DEF wrong
      <3>3. Least(wrong) = k /\ Violations(hdr, entries, k) = {}
        BY <2>4, <3>1, <3>2, LeastIs
      <3>4. ParsedOutcomes(hdr, entries, Unpinned) \subseteq {Raised}
        BY <2>5, <2>6, <3>3 DEF ParsedOutcomes, wrong
      <3> QED
        BY <2>1, <3>4
    <2>7. CASE Unsound(hdr, entries) = {}
      <3>1. r = Valid(Len(entries), hdr.key_id, EndsSession(entries))
        BY <2>1, <2>5, <2>7 DEF ParsedOutcomes
      <3> QED
        BY <3>1 DEF Valid
    <2> QED
      BY <2>6, <2>7
  <1> QED
    BY <1>3, <1>4

\* A log that is accepted is in order.
LEMMA AcceptedIsOrdered ==
  ASSUME IInv, NEW r \in Outcomes(file, Unpinned), r # Raised, r.ok
  PROVE  Ordered(file)
  <1> DEFINE hdr == file.header
             entries == file.entries
  <1>1. file \in LogFile \cup {None}
    BY DEF IInv, TypeOK
  <1>2. file # None /\ \A n \in 1..Len(entries) : Sound(hdr, entries, n)
    BY <1>1, OutcomesTyped
  <1>3. /\ Owned(file) /\ Len(entries) \in Nat
        /\ Bodies(entries) \in Seq(Body) /\ Len(Bodies(entries)) = Len(entries)
        /\ \A n \in 1..Len(entries) : Bodies(entries)[n] = BodyOf(entries[n].record)
    BY <1>2, FileFields
  <1>4. hdr.key_id = WriterLabel
    BY <1>3 DEF Owned
  <1> HIDE DEF hdr, entries
  <1>5. ASSUME NEW n \in 1..Len(entries)
        PROVE  /\ Bodies(entries)[n].session_id = hdr.session_id
               /\ Bodies(entries)[n].signer_key_id = WriterLabel
               /\ Bodies(entries)[n].sequence = n - 1
    <2>1. /\ entries[n].record.sequence = n - 1
          /\ entries[n].record.signer_key_id = hdr.key_id
          /\ entries[n].record.session_id = hdr.session_id
      BY <1>2, SoundIs
    <2> QED
      BY <1>3, <1>4, <2>1, BodyFields
  <1> QED
    BY <1>3, <1>5 DEF Ordered, InOrder, hdr, entries

-----------------------------------------------------------------------------
(***************************************************************************)
(* What the comparison answers about such a file.                          *)
(***************************************************************************)
\* A log that holds the anchored head, and is valid, passes.
LEMMA HoldingPasses ==
  ASSUME NEW res, res.ok, NEW log \in LogFile, NEW anchor \in Token,
         Holding(log, anchor), anchor.version = VERSION_V0
  PROVE  Compared(res, log, anchor).ok
  <1>1. /\ anchor.count \in Nat /\ log.entries \in Seq(Envelope) /\ Len(log.entries) \in Nat
        /\ anchor.count \in 1..Len(log.entries)
    BY AnchorFields DEF Holding
  <1>2. log.entries # <<>> /\ anchor.count # 0
    BY <1>1
  <1>3. Passes("not internally valid", res, log, anchor)
    BY DEF Passes
  <1>4. Passes("version", res, log, anchor)
    BY DEF Passes
  <1>5. Passes("session_id", res, log, anchor)
    BY DEF Passes, Holding
  <1>6. Passes("spki_sha256", res, log, anchor)
    BY DEF Passes, Holding
  <1>7. Passes("no entries", res, log, anchor)
    BY <1>1 DEF Passes
  <1>8. Passes("truncated", res, log, anchor)
    BY <1>1 DEF Passes, Reaches
  <1>9. Passes("diverges", res, log, anchor)
    <2>1. HashAt(log.entries, anchor.count) = anchor.head_entry_hash
      BY <1>2 DEF HashAt, Holding
    <2> QED
      BY <2>1 DEF Passes
  <1>10. \A m \in DOMAIN CheckOrder : Passes(CheckOrder[m], res, log, anchor)
    <2> SUFFICES ASSUME NEW m \in 1..7
                 PROVE  Passes(CheckOrder[m], res, log, anchor)
      BY CheckOrderIs
    <2>1. m \in {1, 2, 3, 4, 5, 6, 7}
      OBVIOUS
    <2> QED
      BY <1>3, <1>4, <1>5, <1>6, <1>7, <1>8, <1>9, <2>1, CheckOrderIs
  <1> QED
    BY <1>10 DEF Compared, AnchorResult

\* A log that is not valid is refused as that.
LEMMA InvalidIsRefused ==
  ASSUME NEW res, ~res.ok, NEW log, NEW anchor
  PROVE  Compared(res, log, anchor).reason = "not internally valid"
  <1> DEFINE Holds(m) == Passes(CheckOrder[m], res, log, anchor)
             first == CHOOSE m \in DOMAIN CheckOrder : (\A l \in 1..(m - 1) : Holds(l)) /\ ~Holds(m)
  <1>1. 1 \in DOMAIN CheckOrder /\ DOMAIN CheckOrder = 1..7
    <2>1. DOMAIN CheckOrder = 1..7
      BY CheckOrderIs
    <2>2. 1 \in 1..7
      OBVIOUS
    <2> QED
      BY <2>1, <2>2, Zenon
  <1>2. ~Holds(1)
    BY CheckOrderIs DEF Passes
  <1>3. first = 1
    <2> HIDE DEF Holds
    <2>1. \A m \in 1..7 : (\A l \in 1..(m - 1) : Holds(l)) /\ ~Holds(m) => m = 1
      BY <1>2
    <2>2. (\A l \in 1..(1 - 1) : Holds(l)) /\ ~Holds(1)
      BY <1>2
    <2> QED
      BY <1>1, <2>1, <2>2
  <1>4. Compared(res, log, anchor) =
          AnchorResult(FALSE, CheckOrder[first], anchor.count, Len(log.entries))
    BY <1>1, <1>2 DEF Compared
  <1>5. CheckOrder[first] = "not internally valid"
    <2> HIDE DEF first
    <2>1. CheckOrder[1] = "not internally valid"
      BY CheckOrderIs
    <2> QED
      BY <1>3, <2>1, Zenon
  <1>6. AnchorResult(FALSE, CheckOrder[first], anchor.count, Len(log.entries)).reason
        = CheckOrder[first]
    BY DEF AnchorResult
  <1> HIDE DEF first
  <1> QED
    BY <1>4, <1>5, <1>6

-----------------------------------------------------------------------------
(***************************************************************************)
(* No step breaks GInv.                                                    *)
(***************************************************************************)
\* The writer's appends leave the anchored head where it is.
LEMMA AppendingGrows ==
  ASSUME IInv, GInv, Appending
  PROVE  GInv'
  <1>1. /\ file # None /\ Extends(file, file') /\ UNCHANGED <<tokenVars, callVars>>
        /\ since' # "changed" => since # "changed"
        /\ during' # "changed" => during # "changed"
    BY DEF Appending, Worse
  <1>2. file' # None
    BY <1>1, AbsenceAssumption DEF Extends, Owned
  <1>3. Len(file.entries) \in Nat /\ Len(file'.entries) \in Nat
    <2>1. file' \in LogFile
      BY <1>1 DEF Extends, Owned
    <2> QED
      BY <1>1, <2>1, FileFields DEF LogFile
  <1>4. Grown'
    <2> SUFFICES ASSUME token # None, made # "changed", since' # "changed"
                 PROVE  Holding(file', token)
      BY <1>1, <1>2 DEF Grown, Holding, tokenVars, Owned, UpToForm, WrittenAt, ObjectOrTorn, Ordered
    <2>1. Holding(file, token)
      BY <1>1 DEF GInv, Grown
    <2>2. /\ token.count \in 1..Len(file'.entries)
          /\ file'.entries[token.count].entry_hash = token.head_entry_hash
      BY <1>1, <1>3, <2>1 DEF Extends, Holding
    <2> QED
      BY <1>1, <2>1, <2>2 DEF Extends, Holding
  <1>5. DuringOrdered'
    BY <1>1 DEF GInv, DuringOrdered, callVars, Extends, Ordered
  <1>6. VerdictOK' /\ Published' /\ Running' /\ GrowthPasses'
    BY <1>1 DEF GInv, VerdictOK, Published, Running, GrowthPasses, callVars, tokenVars
  <1> QED
    BY <1>4, <1>5, <1>6 DEF GInv

\* A change says so, and there is nothing to keep.
LEMMA ChangeEnds ==
  ASSUME GInv, NEW newFile, NEW newVersion, Befalls("changed", newFile, newVersion)
  PROVE  GInv'
  <1>1. since' = "changed" /\ during' = "changed" /\ UNCHANGED <<tokenVars, callVars>>
    BY DEF Befalls, Worse
  <1> QED
    BY <1>1 DEF GInv, Grown, DuringOrdered, VerdictOK, Published, Running, GrowthPasses,
       callVars, tokenVars

\* All that befalls a file but the writer's appends is such a change.
LEMMA ChangesEnd ==
  ASSUME GInv,
         \/ \E n \in 1..MaxLen, p \in Payloads : RewriteHistory(n, p)
         \/ \E key \in Keys : Rekey(key)
         \/ \E s \in Sessions : Resession(s)
         \/ \E n \in 1..MaxLen : Cut(n) \/ Restamp(n)
         \/ Empty \/ Unlink \/ Upgrade
  PROVE  GInv'
  <1>1. ASSUME NEW n \in 1..MaxLen, NEW p \in Payloads, RewriteHistory(n, p)
        PROVE  GInv'
    BY <1>1, ChangeEnds DEF RewriteHistory
  <1>2. ASSUME NEW key \in Keys, Rekey(key)
        PROVE  GInv'
    BY <1>2, ChangeEnds DEF Rekey
  <1>3. ASSUME NEW s \in Sessions, Resession(s)
        PROVE  GInv'
    BY <1>3, ChangeEnds DEF Resession
  <1>4. ASSUME NEW n \in 1..MaxLen, Cut(n) \/ Restamp(n)
        PROVE  GInv'
    BY <1>4, ChangeEnds DEF Cut, Restamp
  <1>5. CASE Empty \/ Unlink \/ Upgrade
    BY <1>5, ChangeEnds DEF Empty, Unlink, Upgrade
  <1> QED
    BY <1>1, <1>2, <1>3, <1>4, <1>5

\* What a step needs to keep of a file, an anchor and a past that stay.
LEMMA StillHolds ==
  ASSUME GInv, UNCHANGED <<diskVars, tokenVars, since>>
  PROVE  Grown' /\ Published'
  BY DEF GInv, Grown, Published, diskVars, tokenVars, Holding, Owned, UpToForm, WrittenAt,
     ObjectOrTorn, Ordered

\* A call begins with nothing verified and, but for what is no anchor, no answer.
LEMMA BeginningsKeep ==
  ASSUME GInv, BeginMake \/ \E anchor \in Anchors : BeginCheck(anchor)
  PROVE  GInv'
  <1>1. /\ UNCHANGED <<diskVars, tokenVars, since>> /\ pc' \in {"detect", "idle"}
        /\ pc' # "idle" => answer' = None
    BY DEF BeginMake, BeginCheck, Begin, End
  <1>2. Grown' /\ Published'
    BY <1>1, StillHolds
  <1>3. DuringOrdered' /\ VerdictOK' /\ Running'
    BY <1>1 DEF DuringOrdered, VerdictOK, Running
  <1>4. GrowthPasses'
    <2>1. CASE answer' = None
      BY <2>1 DEF GrowthPasses
    <2>2. ASSUME NEW anchor \in Anchors, anchor.type # ANCHOR_TYPE, given' = anchor
          PROVE  GrowthPasses'
      <3>1. token # None
        BY DEF Anchors
      <3> QED
        BY <1>1, <2>2, <3>1 DEF GInv, Published, GrowthPasses, tokenVars
    <2> QED
      BY <2>1, <2>2 DEF BeginMake, BeginCheck, Begin, End
  <1> QED
    BY <1>2, <1>3, <1>4 DEF GInv

\* A call that reads on, or ends without an answer.
LEMMA ReadingKeeps ==
  ASSUME GInv, UNCHANGED <<chain, tokenVars>>, Quiet,
         \/ pc' = "idle" /\ answer' = None
         \/ /\ pc # "idle" /\ pc' \in {"verify", "redetect", "load"} /\ UNCHANGED answer
            /\ pc' \in {"redetect", "load"} =>
                  /\ verdict'.ok /\ during # "changed" => Ordered(file)
                  /\ given = token /\ call = "check" /\ made # "changed" /\ since # "changed"
                     => verdict'.ok \/ verdict'.reason = "malformed entry"
  PROVE  GInv'
  <1>1. Grown' /\ Published'
    BY StillHolds DEF Quiet
  <1>2. answer' = None
    BY DEF GInv, Running
  <1>3. Running' /\ GrowthPasses'
    BY <1>2 DEF Running, GrowthPasses
  <1>4. DuringOrdered'
    BY DEF DuringOrdered, Quiet, diskVars, Ordered
  <1>5. VerdictOK'
    BY DEF VerdictOK, Quiet, tokenVars
  <1> QED
    BY <1>1, <1>3, <1>4, <1>5 DEF GInv

\* Detecting the version keeps the verdict.
LEMMA DetectGrows ==
  ASSUME GInv, Detect("detect", "verify") \/ Detect("redetect", "load")
  PROVE  GInv'
  <1>1. UNCHANGED <<verdict, chain, tokenVars>> /\ Quiet
    BY DEF Detect
  <1>2. CASE End("raised", None)
    BY <1>1, <1>2, ReadingKeeps DEF End
  <1>3. CASE pc = "detect" /\ Advance("verify")
    BY <1>1, <1>3, ReadingKeeps DEF Advance
  <1>4. CASE pc = "redetect" /\ Advance("load")
    <2>1. /\ verdict.ok /\ during # "changed" => Ordered(file)
          /\ given = token /\ call = "check" /\ made # "changed" /\ since # "changed"
             => verdict.ok \/ verdict.reason = "malformed entry"
      BY <1>4 DEF GInv, DuringOrdered, VerdictOK
    <2> QED
      BY <1>1, <1>4, <2>1, ReadingKeeps DEF Advance
  <1> QED
    BY <1>2, <1>3, <1>4 DEF Detect

\* Verifying a file that at most grew accepts it, or meets the torn line.
LEMMA VerifyGrows ==
  ASSUME IInv, GInv, Verify
  PROVE  GInv'
  <1>1. PICK r \in Outcomes(file, Unpinned) :
              \/ r = Raised /\ End("raised", None) /\ UNCHANGED verdict
              \/ /\ r # Raised
                 /\ verdict' = r
                 /\ IF call = "make" /\ ~r.ok THEN End("refused", None) ELSE Advance("redetect")
    BY DEF Verify
  <1>2. pc = "verify" /\ UNCHANGED <<chain, tokenVars>> /\ Quiet
    BY DEF Verify
  <1>3. CASE End("raised", None) \/ End("refused", None)
    BY <1>2, <1>3, ReadingKeeps DEF End
  <1>4. CASE r # Raised /\ verdict' = r /\ Advance("redetect")
    <2>1. r.ok => Ordered(file)
      BY <1>4, AcceptedIsOrdered
    <2>2. ASSUME given = token, call = "check", made # "changed", since # "changed"
          PROVE  r.ok \/ r.reason = "malformed entry"
      <3>1. token # None
        BY <2>2 DEF IInv, CallOK
      <3>2. file # None /\ Holding(file, token)
        BY <2>2, <3>1 DEF GInv, Grown
      <3> QED
        BY <1>4, <3>2, HoldingVerifies
    <2> QED
      BY <1>2, <1>4, <2>1, <2>2, ReadingKeeps DEF Advance
  <1> QED
    BY <1>1, <1>3, <1>4

\* The file an anchor is made of holds its head.
LEMMA FinishMakeGrows ==
  ASSUME IInv, GInv, FinishMake
  PROVE  GInv'
  <1> DEFINE entries == file.entries
             N == Len(entries)
             fp == file.header.spki_sha256
  <1>1. /\ pc = "load" /\ call = "make" /\ Loads(file)
        /\ UNCHANGED <<diskVars, during, call, given, verdict>>
        /\ pc' = "idle" /\ answer' = None
    BY DEF FinishMake, End
  <1>2. DuringOrdered' /\ VerdictOK' /\ Running' /\ GrowthPasses'
    BY <1>1 DEF DuringOrdered, VerdictOK, Running, GrowthPasses
  <1>3. CASE UNCHANGED <<tokenVars, since>>
    <2>1. Grown' /\ Published'
      BY <1>1, <1>3, StillHolds
    <2> QED
      BY <1>2, <2>1 DEF GInv
  <1>4. CASE entries # <<>> /\ token' = TokenOf(file) /\ made' = during
    <2>1. /\ file # None /\ verdict.ok
          /\ during # "changed" => UpToForm(entries, fp) /\ Ordered(file)
      BY <1>1 DEF IInv, CallOK, DuringOK, GInv, DuringOrdered, Loads
    <2>2. /\ Owned(file) /\ entries \in Seq(Envelope) /\ N \in Nat
          /\ DOMAIN entries = 1..N
      BY <2>1, FileFields
    <2>3. N \in 1..N /\ Last(entries) = entries[N]
      BY <1>4, <2>2 DEF Last
    <2>4. /\ token'.type = ANCHOR_TYPE /\ token'.version = VERSION_V0
          /\ token'.session_id = file.header.session_id /\ token'.spki_sha256 = fp
          /\ token'.count = N /\ token'.head_entry_hash = entries[N].entry_hash
      BY <1>4, <2>3 DEF TokenOf
    <2>5. ObjectOrTorn(entries)
      <3>1. \A n \in 1..N : entries[n].form = "object"
        BY <1>1, <2>2 DEF Loads, Unparsed
      <3> QED
        BY <3>1 DEF ObjectOrTorn
    <2>6. ASSUME made' # "changed"
          PROVE  Holding(file, token')
      <3>1. during # "changed"
        BY <1>4, <2>6
      <3> QED
        BY <1>1, <2>1, <2>2, <2>3, <2>4, <2>5, <3>1 DEF Holding, Loads
    <2>7. Grown'
      BY <1>1, <2>1, <2>6 DEF Grown, diskVars, Holding, Owned, UpToForm, WrittenAt, ObjectOrTorn,
         Ordered
    <2>8. Published'
      BY <2>4 DEF Published
    <2> QED
      BY <1>2, <2>7, <2>8 DEF GInv
  <1> QED
    BY <1>3, <1>4 DEF FinishMake

\* A check of a file that at most grew passes it, or says why not.
LEMMA FinishCheckGrows ==
  ASSUME IInv, GInv, FinishCheck
  PROVE  GInv'
  <1>1. /\ pc = "load" /\ call = "check" /\ Loads(file) /\ pc' = "idle"
        /\ answer' = Compared(verdict, file, given)
        /\ UNCHANGED <<verdict, tokenVars>> /\ Quiet
    BY DEF FinishCheck, End
  <1>2. Grown' /\ Published'
    BY <1>1, StillHolds DEF Quiet
  <1>3. DuringOrdered' /\ VerdictOK' /\ Running'
    BY <1>1 DEF DuringOrdered, VerdictOK, Running
  <1>4. ASSUME given = token, made # "changed", since # "changed"
        PROVE  LET result == Compared(verdict, file, given)
               IN  \/ result.ok
                   \/ result.reason = "not internally valid" /\ verdict.reason = "malformed entry"
    <2>1. token # None
      BY <1>1 DEF IInv, CallOK
    <2>2. /\ file \in LogFile /\ given \in Token /\ Holding(file, given)
          /\ given.version = VERSION_V0
      BY <1>4, <2>1 DEF IInv, TypeOK, GInv, Grown, Published
    <2>3. CASE verdict.ok
      BY <2>2, <2>3, HoldingPasses
    <2>4. CASE ~verdict.ok
      <3>1. verdict.reason = "malformed entry"
        BY <1>1, <1>4, <2>4 DEF GInv, VerdictOK
      <3> QED
        BY <2>4, <3>1, InvalidIsRefused
    <2> QED
      BY <2>3, <2>4
  <1>5. GrowthPasses'
    BY <1>1, <1>4 DEF GrowthPasses, Quiet, tokenVars
  <1> QED
    BY <1>2, <1>3, <1>5 DEF GInv

\* No step breaks it.
LEMMA NextGrows == IInv /\ GInv /\ [Next]_vars => GInv'
  <1> SUFFICES ASSUME IInv, GInv, [Next]_vars
               PROVE  GInv'
    OBVIOUS
  <1>1. CASE \E p \in Payloads : StartAppend(p)
    BY <1>1, StartAppendExtends, AppendingGrows
  <1>2. CASE FinishAppend
    BY <1>2, FinishAppendExtends, AppendingGrows
  <1>3. CASE \/ \E n \in 1..MaxLen, p \in Payloads : RewriteHistory(n, p)
             \/ \E key \in Keys : Rekey(key)
             \/ \E s \in Sessions : Resession(s)
             \/ \E n \in 1..MaxLen : Cut(n) \/ Restamp(n)
             \/ Empty \/ Unlink \/ Upgrade
    BY <1>3, ChangesEnd
  <1>4. CASE Disk
    BY <1>1, <1>2, <1>3, <1>4 DEF Disk
  <1>5. CASE BeginMake \/ \E anchor \in Anchors : BeginCheck(anchor)
    BY <1>5, BeginningsKeep
  <1>6. CASE Detect("detect", "verify") \/ Detect("redetect", "load")
    BY <1>6, DetectGrows
  <1>7. CASE Verify
    BY <1>7, VerifyGrows
  <1>8. CASE CannotLoad
    BY <1>8, ReadingKeeps DEF CannotLoad, End
  <1>9. CASE FinishMake
    BY <1>9, FinishMakeGrows
  <1>10. CASE FinishCheck
    BY <1>10, FinishCheckGrows
  <1>11. CASE UNCHANGED vars
    <2>1. UNCHANGED <<diskVars, tokenVars, callVars, since, during>>
      BY <1>11 DEF vars
    <2>2. Grown' /\ Published'
      BY <2>1, StillHolds
    <2> QED
      BY <2>1, <2>2 DEF GInv, DuringOrdered, VerdictOK, Running, GrowthPasses, diskVars, tokenVars,
         callVars, Ordered
  <1> QED
    BY <1>4, <1>5, <1>6, <1>7, <1>8, <1>9, <1>10, <1>11 DEF Next, CallStep

(***************************************************************************)
(* check_anchor, "later appends are fine": while the writer only appends,  *)
(* a check of the published anchor that ends with an answer passes, unless *)
(* the read it verified ended in a line half written.                      *)
(***************************************************************************)
THEOREM GrowthIsHarmless == Spec => []GrowthPasses
  <1>1. Init => GInv
    BY DEF Init, GInv, Grown, DuringOrdered, VerdictOK, Published, Running, GrowthPasses
  <1>2. IInv /\ IInv' /\ GInv /\ [Next]_vars => GInv'
    BY NextGrows
  <1>3. GInv => GrowthPasses
    BY DEF GInv
  <1> QED
    BY <1>1, <1>2, <1>3, Invariance, PTL DEF Spec

=============================================================================
