---------------------------- MODULE VerdictProofs ----------------------------
(***************************************************************************)
(* VerifyLog implements ChainVerdict: the loops of verify_log and          *)
(* verify_chain, with their order of checks, decide what one look at the   *)
(* log decides.                                                            *)
(***************************************************************************)
EXTENDS VerifyLogProofs, TsVerify

(***************************************************************************)
(* What the loops know that the decision is made of: nothing is read       *)
(* before the log is; when the entries are checked the header has passed,  *)
(* the entries so far are sound, and the next one's link is at hand.       *)
(***************************************************************************)
Deciding ==
    /\ pc = "read" => lines = None
    /\ pc = "entries" =>
          /\ HeaderViolations(Hdr, lines.entries, trust) = {}
          /\ \A n \in 1..i : Sound(Hdr, lines.entries, n)
          /\ prev_eh = LinkBefore(lines.entries, i + 1)

\* The verdicts of ChainVerdict are those of Verdicts.
LEMMA SameVerdicts ==
  /\ Verdict!LogFile = LogFile /\ Verdict!Trust = Trust
  /\ \A theLog \in LogFile \cup {None} : \A pins :
        Verdict!Outcomes(theLog, pins) = Outcomes(theLog, pins)
  <1>1. Verdict!LogFile = LogFile /\ Verdict!Trust = Trust
    BY DEF Verdict!LogFile, LogFile, Verdict!Trust, Trust, Verdict!Media, Media,
       Verdict!Header, Header, Verdict!Envelope, Envelope, Verdict!LineForms, LineForms,
       Verdict!Ders, Ders, Verdict!SigningKeys, SigningKeys, Verdict!Fingerprint, Fingerprint, Verdict!Record, Record,
       Verdict!Hash, Hash, Verdict!Body, Body, Verdict!Signature, Signature,
       Verdict!Digest, Digest, Verdict!DomainTags, DomainTags, Verdict!DOMAIN_TAG, DOMAIN_TAG,
       Verdict!PublicKeyRef, PublicKeyRef, Verdict!EVENT_TYPES, EVENT_TYPES
  <1>2. \A rec, pub, sig, hash :
           /\ Verdict!entry_hash(rec) = entry_hash(rec)
           /\ Verdict!SignatureVerifies(pub, sig, Verdict!signed_digest(hash))
              = SignatureVerifies(pub, sig, signed_digest(hash))
    BY DEF Verdict!entry_hash, entry_hash, Verdict!BodyOf, BodyOf, Verdict!SignatureVerifies,
       SignatureVerifies, Verdict!signed_digest, signed_digest, Verdict!DOMAIN_TAG, DOMAIN_TAG
  <1>3. \A entries, n : Verdict!LinkBefore(entries, n) = LinkBefore(entries, n)
    BY <1>2 DEF Verdict!LinkBefore, LinkBefore, Verdict!NoHash, NoHash
  <1>4. \A hdr, entries, n : Verdict!Violations(hdr, entries, n) = Violations(hdr, entries, n)
    BY DEF Verdict!Violations, Violations, Verdict!LinkBefore, LinkBefore, Verdict!NoHash, NoHash,
       Verdict!entry_hash, entry_hash, Verdict!BodyOf, BodyOf, Verdict!SignatureVerifies,
       SignatureVerifies, Verdict!signed_digest, signed_digest, Verdict!DOMAIN_TAG, DOMAIN_TAG
  <1>5. \A hdr, entries, pins :
           Verdict!HeaderViolations(hdr, entries, pins) = HeaderViolations(hdr, entries, pins)
    BY DEF Verdict!HeaderViolations, HeaderViolations, Verdict!spki_fingerprint, spki_fingerprint
  <1>6. /\ \A S : Verdict!Least(S) = Least(S)
        /\ \A entries : Verdict!Unparsed(entries) = Unparsed(entries)
        /\ \A entries : Verdict!EndsSession(entries) = EndsSession(entries)
        /\ \A entries, n : Verdict!Unhashable(entries, n) = Unhashable(entries, n)
        /\ Verdict!Raised = Raised
    BY DEF Verdict!Least, Least, Verdict!Unparsed, Unparsed, Verdict!EndsSession, EndsSession,
       Verdict!Unhashable, Unhashable, Verdict!Raised, Raised
  <1>7. \A hdr, entries, n : Verdict!Sound(hdr, entries, n) = Sound(hdr, entries, n)
    BY <1>4, <1>6 DEF Verdict!Sound, Sound
  <1>8. \A hdr, entries : Verdict!Unsound(hdr, entries) = Unsound(hdr, entries)
    BY <1>7 DEF Verdict!Unsound, Unsound
  <1>9. \A c, x, r, k, l :
           Verdict!Fail(c, x, r, k) = Fail(c, x, r, k) /\ Verdict!Valid(c, k, l) = Valid(c, k, l)
    BY DEF Verdict!Fail, Fail, Verdict!Valid, Valid
  <1>10. ASSUME NEW hdr, NEW entries, NEW pins
         PROVE  Verdict!ParsedOutcomes(hdr, entries, pins) = ParsedOutcomes(hdr, entries, pins)
    <2> DEFINE V == HeaderViolations(hdr, entries, pins)
               U == Unsound(hdr, entries)
               n == Least(U)
    <2>1. CASE V # {}
      <3>1. {Verdict!Fail(0, None, r, hdr.key_id) : r \in V}
            = {Fail(0, None, r, hdr.key_id) : r \in V}
        BY <1>9
      <3> QED
        BY <1>5, <1>6, <2>1, <3>1 DEF Verdict!ParsedOutcomes, ParsedOutcomes
    <2>2. CASE V = {} /\ U # {}
      <3>1. {Verdict!Fail(n - 1, n - 1, r, hdr.key_id) : r \in Violations(hdr, entries, n)}
            = {Fail(n - 1, n - 1, r, hdr.key_id) : r \in Violations(hdr, entries, n)}
        BY <1>9
      <3> QED
        BY <1>4, <1>5, <1>6, <1>8, <2>2, <3>1 DEF Verdict!ParsedOutcomes, ParsedOutcomes
    <2>3. CASE V = {} /\ U = {}
      BY <1>5, <1>6, <1>8, <1>9, <2>3 DEF Verdict!ParsedOutcomes, ParsedOutcomes
    <2> QED
      BY <2>1, <2>2, <2>3
  <1>11. ASSUME NEW theLog \in LogFile \cup {None}, NEW pins
         PROVE  Verdict!Outcomes(theLog, pins) = Outcomes(theLog, pins)
    <2>1. CASE theLog = None
      BY <1>9, <2>1 DEF Verdict!Outcomes, Outcomes
    <2>2. CASE theLog # None /\ theLog.medium = "undecodable"
      BY <1>6, <2>2 DEF Verdict!Outcomes, Outcomes
    <2>3. ASSUME theLog # None, theLog.medium = "text"
          PROVE  Verdict!Outcomes(theLog, pins) = Outcomes(theLog, pins)
      <3> DEFINE form == theLog.header.form
      <3>1. form \in {"object", "malformed", "nonobject", "absent"}
        BY <2>3 DEF LogFile, Header, LineForms
      <3>2. CASE form = "absent" \/ form = "malformed"
        BY <1>9, <2>3, <3>2 DEF Verdict!Outcomes, Outcomes
      <3>3. CASE form = "nonobject"
        BY <1>6, <2>3, <3>3 DEF Verdict!Outcomes, Outcomes
      <3>4. ASSUME form = "object"
            PROVE  Verdict!Outcomes(theLog, pins) = Outcomes(theLog, pins)
        <4> DEFINE entries == theLog.entries
                   n == Least(Unparsed(entries))
        <4>1. CASE Unparsed(entries) = {}
          <5>1. Verdict!Outcomes(theLog, pins) = Verdict!ParsedOutcomes(theLog.header, entries, pins)
            BY <1>6, <2>3, <3>4, <4>1 DEF Verdict!Outcomes
          <5>2. Outcomes(theLog, pins) = ParsedOutcomes(theLog.header, entries, pins)
            BY <2>3, <3>4, <4>1 DEF Outcomes
          <5> QED
            BY <1>10, <5>1, <5>2
        <4>2. CASE Unparsed(entries) # {} /\ entries[n].form = "malformed"
          <5> DEFINE key_id == theLog.header.key_id
          <5>1. Verdict!Outcomes(theLog, pins) =
                  {Verdict!Fail(n - 1, n - 1, "malformed entry", key_id)}
            BY <1>6, <2>3, <3>4, <4>2 DEF Verdict!Outcomes
          <5>2. Outcomes(theLog, pins) = {Fail(n - 1, n - 1, "malformed entry", key_id)}
            BY <2>3, <3>4, <4>2 DEF Outcomes
          <5> QED
            BY <1>9, <5>1, <5>2
        <4>3. CASE Unparsed(entries) # {} /\ entries[n].form # "malformed"
          BY <1>6, <2>3, <3>4, <4>3 DEF Verdict!Outcomes, Outcomes
        <4> QED
          BY <4>1, <4>2, <4>3
      <3> QED
        BY <3>1, <3>2, <3>3, <3>4
    <2>4. theLog # None => theLog.medium \in {"text", "undecodable"}
      BY DEF LogFile, Media
    <2> QED
      BY <2>1, <2>2, <2>3, <2>4
  <1> QED
    BY <1>1, <1>11

-----------------------------------------------------------------------------
(***************************************************************************)
(* The checks in their order and the checks as a set.                      *)
(***************************************************************************)
\* A header check that fails is a violation of the header.
LEMMA FailedHeaderCheck ==
  ASSUME NEW hdr, NEW entries, NEW pins, NEW c \in HeaderReasons,
         ~HeaderChecks(hdr, entries, pins)[c]
  PROVE  c \in HeaderViolations(hdr, entries, pins)
  <1>1. CASE c = "not the trusted anchor"
    BY <1>1, HeaderViolationsAre DEF HeaderChecks, HeaderReasons
  <1>2. CASE c = "not the trusted key_id"
    BY <1>2, HeaderViolationsAre DEF HeaderChecks, HeaderReasons
  <1>3. CASE c = "key unreadable"
    BY <1>3, HeaderViolationsAre DEF HeaderChecks, HeaderReasons
  <1>4. CASE c = "not an EC key"
    BY <1>4, HeaderViolationsAre DEF HeaderChecks, HeaderReasons
  <1>5. CASE c = "spki_sha256 mismatch"
    BY <1>5, HeaderViolationsAre DEF HeaderChecks, HeaderReasons
  <1>6. CASE c = "no entries"
    BY <1>6, HeaderViolationsAre DEF HeaderChecks, HeaderReasons
  <1> QED
    BY <1>1, <1>2, <1>3, <1>4, <1>5, <1>6 DEF HeaderReasons

\* When none fails the header has no violation.
LEMMA HeldHeaderChecks ==
  ASSUME NEW hdr, NEW entries, NEW pins,
         AllHold(HeaderOrder, HeaderChecks(hdr, entries, pins))
  PROVE  HeaderViolations(hdr, entries, pins) = {}
  BY HeaderPasses, HeaderViolationsAre

\* An entry check that fails is a violation of the entry, or the entry has no
\* canonical bytes.
LEMMA FailedEntryCheck ==
  ASSUME NEW hdr, NEW entries, NEW n, NEW c \in EntryReasons \cup {"canonical"},
         ~EntryChecks(hdr, entries[n], n - 1, LinkBefore(entries, n))[c]
  PROVE  IF c = "canonical" THEN Unhashable(entries, n)
         ELSE c \in Violations(hdr, entries, n)
  <1>1. CASE c = "sequence"
    BY <1>1, ViolationsAre DEF EntryChecks, EntryReasons
  <1>2. CASE c = "prev_entry_hash"
    BY <1>2, ViolationsAre DEF EntryChecks, EntryReasons
  <1>3. CASE c = "canonical"
    BY <1>3 DEF EntryChecks, EntryReasons, Unhashable
  <1>4. CASE c = "entry_hash"
    BY <1>4, ViolationsAre DEF EntryChecks, EntryReasons
  <1>5. CASE c = "public_key fingerprint"
    BY <1>5, ViolationsAre DEF EntryChecks, EntryReasons
  <1>6. CASE c = "key_id"
    BY <1>6, ViolationsAre DEF EntryChecks, EntryReasons
  <1>7. CASE c = "session_id"
    BY <1>7, ViolationsAre DEF EntryChecks, EntryReasons
  <1>8. CASE c = "signature"
    BY <1>8, ViolationsAre DEF EntryChecks, EntryReasons
  <1> QED
    BY <1>1, <1>2, <1>3, <1>4, <1>5, <1>6, <1>7, <1>8 DEF EntryReasons

\* When none fails the entry is sound.
LEMMA HeldEntryChecks ==
  ASSUME NEW hdr, NEW entries, NEW n,
         AllHold(EntryOrder, EntryChecks(hdr, entries[n], n - 1, LinkBefore(entries, n)))
  PROVE  Sound(hdr, entries, n)
  <1> DEFINE e == entries[n]
  <1>1. /\ e.record.sequence = n - 1
        /\ e.record.prev_entry_hash = LinkBefore(entries, n)
        /\ entry_hash(e.record) = e.entry_hash
        /\ e.public_key.spki_sha256 = hdr.spki_sha256
        /\ e.public_key.key_id = hdr.key_id /\ e.record.signer_key_id = hdr.key_id
        /\ e.record.session_id = hdr.session_id
        /\ e.signature.key = hdr.spki_der
        /\ e.signature.over = signed_digest(entry_hash(e.record))
        /\ e.record.payload \notin Unencodable
    BY EntryPasses
  <1> QED
    BY <1>1, SoundIs

\* What the code answers for the first line that does not parse.
LEMMA FirstUnparsed ==
  ASSUME NEW log \in LogFile, NEW pins, NEW n \in 1..Len(log.entries),
         log.medium = "text", log.header.form = "object",
         log.entries[n].form # "object",
         \A m \in 1..(n - 1) : log.entries[m].form = "object"
  PROVE  Outcomes(log, pins) = IF log.entries[n].form = "malformed"
                               THEN {Fail(n - 1, n - 1, "malformed entry", log.header.key_id)}
                               ELSE {Raised}
  <1> DEFINE entries == log.entries
             bad == Unparsed(entries)
  <1>1. DOMAIN entries = 1..Len(entries) /\ Len(entries) \in Nat
    BY DEF LogFile
  <1>2. bad \in SUBSET Nat /\ n \in bad /\ \A m \in bad : n <= m
    BY <1>1 DEF Unparsed
  <1> HIDE DEF bad
  <1>3. Least(bad) = n /\ bad # {}
    BY <1>2, LeastIs
  <1>4. log # None
    BY AbsenceAssumption
  <1> QED
    BY <1>3, <1>4 DEF Outcomes, bad

\* What it answers when every line parses.
LEMMA AllParsed ==
  ASSUME NEW log \in LogFile, NEW pins,
         log.medium = "text", log.header.form = "object",
         \A m \in 1..Len(log.entries) : log.entries[m].form = "object"
  PROVE  Outcomes(log, pins) = ParsedOutcomes(log.header, log.entries, pins)
  <1>1. DOMAIN log.entries = 1..Len(log.entries)
    BY DEF LogFile
  <1>2. Unparsed(log.entries) = {}
    BY <1>1 DEF Unparsed
  <1>3. log # None
    BY AbsenceAssumption
  <1> QED
    BY <1>2, <1>3 DEF Outcomes

\* What it answers for the first entry that is not sound.
LEMMA FirstUnsound ==
  ASSUME NEW entries \in Seq(Envelope), NEW hdr, NEW pins, NEW n \in 1..Len(entries),
         HeaderViolations(hdr, entries, pins) = {}, ~Sound(hdr, entries, n),
         \A m \in 1..(n - 1) : Sound(hdr, entries, m)
  PROVE  ParsedOutcomes(hdr, entries, pins) =
           {Fail(n - 1, n - 1, r, hdr.key_id) : r \in Violations(hdr, entries, n)}
           \cup (IF Unhashable(entries, n) THEN {Raised} ELSE {})
  <1> DEFINE bad == Unsound(hdr, entries)
  <1>1. bad \in SUBSET Nat /\ n \in bad /\ \A m \in bad : n <= m
    BY DEF Unsound
  <1> HIDE DEF bad
  <1>2. Least(bad) = n /\ bad # {}
    BY <1>1, LeastIs
  <1> QED
    BY <1>2 DEF ParsedOutcomes, bad

-----------------------------------------------------------------------------
(***************************************************************************)
(* The steps of a run, seen as steps of ChainVerdict.                      *)
(***************************************************************************)
Answer == IF pc = "raised" THEN Raised ELSE result

\* While the lines are worked on there is a text and no answer yet.
LEMMA ReadingWorks ==
  ASSUME IInv, Reading
  PROVE  /\ lines \in LogFile /\ lines.medium = "text" /\ Answer = None
         /\ lines.header.key_id \in Labels
         /\ lines.entries \in Seq(Envelope) /\ Len(lines.entries) \in Nat
  <1>1. lines \in LogFile /\ lines.medium = "text" /\ Answer = None
    BY DEF IInv, Reading, Answer, ReadOK, VerifyTypeOK
  <1> QED
    BY <1>1 DEF LogFile, Header

\* A permitted verdict returned, or a permitted exception raised, is the decision.
LEMMA AnswerDecides ==
  ASSUME IInv, Reading,
         \/ \E verdict \in Outcomes(lines, trust) : verdict # None /\ Return(verdict)
         \/ Raised \in Outcomes(lines, trust) /\ Raise
  PROVE  Verdict!Next
  <1>1. /\ Answer' \in Outcomes(lines, trust) /\ Answer' # None
        /\ pc' # "read" /\ UNCHANGED <<lines, trust>>
    <2>1. CASE \E verdict \in Outcomes(lines, trust) : verdict # None /\ Return(verdict)
      BY <2>1 DEF Return, Answer
    <2>2. CASE Raised \in Outcomes(lines, trust) /\ Raise
      BY <2>2, AbsenceAssumption DEF Raise, Answer
    <2> QED
      BY <2>1, <2>2
  <1>2. pc # "read" /\ Answer = None
    BY ReadingWorks DEF Reading
  <1>3. Outcomes(lines, trust) = Verdict!Outcomes(lines, trust)
    BY SameVerdicts, ReadingWorks
  <1> QED
    BY <1>1, <1>2, <1>3 DEF Verdict!Next, Verdict!Decide, Answer

\* A failure for one of the reasons the outcomes name is such a verdict.
LEMMA FailDecides ==
  ASSUME IInv, Reading, NEW count \in Nat, NEW index \in Nat \cup {None},
         NEW reason \in LogReasons \cup HeaderReasons \cup EntryReasons,
         NEW key_id \in Labels \cup {None},
         Fail(count, index, reason, key_id) \in Outcomes(lines, trust),
         Return(Fail(count, index, reason, key_id))
  PROVE  Verdict!Next
  BY FailTyped, AbsenceAssumption, AnswerDecides

\* A step that goes on with the lines decides nothing.
LEMMA GoingOnStutters ==
  ASSUME Reading, Reading', UNCHANGED <<trust, lines, result>>
  PROVE  UNCHANGED Verdict!vars
  BY DEF Reading, Verdict!vars

\* Reading the log is the look, and settles the runs with nothing to read.
LEMMA ReadLogLooks ==
  ASSUME IInv, IInv', Deciding, ReadLog
  PROVE  Verdict!Next
  <1>1. pc = "read" /\ result = None /\ lines = None
    BY DEF ReadLog, IInv, VerifyTypeOK, Deciding
  <1>2. pc' # "read" /\ trust' = trust
    BY DEF ReadLog, Return
  <1>3. /\ lines' \in LogFile \cup {None}
        /\ Answer' = None \/ Answer' \in Outcomes(lines', trust)
    <2>1. CASE Return(Fail(0, None, "cannot read log", None))
      BY <1>1, <2>1 DEF Return, Answer, Outcomes
    <2>2. CASE /\ file # None /\ file.medium = "undecodable" /\ pc' = "raised"
               /\ lines' = AsRead(file)
      <3>1. lines' # None => lines' \in LogFile
        BY DEF IInv, ReadOK
      <3>2. lines'.medium = "undecodable"
        BY <2>2 DEF AsRead
      <3>3. lines' # None
        <4>1. file \in GenuineFiles
          BY <2>2 DEF IInv, WorldOK
        <4> QED
          BY <2>2, <4>1, AsReadTyped, AbsenceAssumption DEF GenuineFiles
      <3> QED
        BY <2>2, <3>1, <3>2, <3>3 DEF Answer, Outcomes
    <2>3. CASE pc' = "header" /\ UNCHANGED result
      <3>1. lines' \in LogFile
        BY <2>3 DEF IInv, ReadOK, Reading
      <3> QED
        BY <1>1, <2>3, <3>1 DEF Answer
    <2> QED
      BY <2>1, <2>2, <2>3 DEF ReadLog
  <1>4. Outcomes(lines', trust) = Verdict!Outcomes(lines', trust)
    BY <1>3, SameVerdicts
  <1> QED
    BY <1>1, <1>2, <1>3, <1>4, SameVerdicts DEF Verdict!Next, Verdict!Look, Answer

\* Parsing the header line refuses what no verdict accepts.
LEMMA ParseHeaderDecides ==
  ASSUME IInv, ParseHeader
  PROVE  [Verdict!Next]_(Verdict!vars)
  <1>1. Reading /\ lines \in LogFile /\ lines # None /\ lines.medium = "text"
    BY ReadingWorks, AbsenceAssumption DEF Reading, ParseHeader
  <1>2. CASE lines.header.form = "absent" /\ Return(Fail(0, None, "empty log", None))
    <2>1. Outcomes(lines, trust) = {Fail(0, None, "empty log", None)}
      BY <1>1, <1>2 DEF Outcomes
    <2> QED
      BY <1>1, <1>2, <2>1, FailDecides DEF LogReasons
  <1>3. CASE lines.header.form = "malformed" /\ Return(Fail(0, None, "bad chain header", None))
    <2>1. Outcomes(lines, trust) = {Fail(0, None, "bad chain header", None)}
      BY <1>1, <1>3 DEF Outcomes
    <2> QED
      BY <1>1, <1>3, <2>1, FailDecides DEF LogReasons
  <1>4. CASE lines.header.form = "nonobject" /\ Raise
    <2>1. Outcomes(lines, trust) = {Raised}
      BY <1>1, <1>4 DEF Outcomes
    <2> QED
      BY <1>1, <1>4, <2>1, AnswerDecides
  <1>5. CASE Goto("parse")
    BY <1>1, <1>5, GoingOnStutters DEF Goto, Reading
  <1> QED
    BY <1>2, <1>3, <1>4, <1>5 DEF ParseHeader

\* A turn of the parse loop refuses the first line that does not parse.
LEMMA ParseEntryDecides ==
  ASSUME IInv, ParseEntry
  PROVE  [Verdict!Next]_(Verdict!vars)
  <1> DEFINE line == lines.entries[i + 1]
  <1>1. /\ Reading /\ lines \in LogFile /\ lines.medium = "text" /\ lines.header.key_id \in Labels
        /\ lines.header.form = "object" /\ i \in Nat /\ Len(lines.entries) \in Nat
        /\ \A m \in 1..i : lines.entries[m].form = "object"
    BY ReadingWorks DEF Reading, ParseEntry, IInv, VerifyTypeOK, ReadOK, Hdr
  <1>2. i + 1 \in 1..Len(lines.entries) /\ (i + 1) - 1 = i
    <2>1. i < Len(lines.entries)
      BY DEF ParseEntry
    <2> QED
      BY <1>1, <2>1
  <1>3. CASE line.form = "malformed" /\ Return(Fail(i, i, "malformed entry", lines.header.key_id))
    <2>1. Outcomes(lines, trust) = {Fail(i, i, "malformed entry", lines.header.key_id)}
      BY <1>1, <1>2, <1>3, FirstUnparsed
    <2> QED
      BY <1>1, <1>3, <2>1, FailDecides DEF LogReasons
  <1>4. CASE line.form = "nonobject" /\ Raise
    <2>1. Outcomes(lines, trust) = {Raised}
      BY <1>1, <1>2, <1>4, FirstUnparsed
    <2> QED
      BY <1>1, <1>4, <2>1, AnswerDecides
  <1>5. CASE i' = i + 1 /\ UNCHANGED <<pc, trust, lines, prev_eh, result>>
    BY <1>1, <1>5, GoingOnStutters DEF Reading
  <1> QED
    BY <1>3, <1>4, <1>5 DEF ParseEntry

\* So do the checks before the loop, whichever fails first.
LEMMA CheckHeaderDecides ==
  ASSUME IInv, CheckHeader
  PROVE  [Verdict!Next]_(Verdict!vars)
  <1> DEFINE hdr == lines.header
             entries == lines.entries
             holds == HeaderChecks(hdr, entries, trust)
             refused == HeaderViolations(hdr, entries, trust)
  <1>1. /\ pc = "chain" /\ Reading /\ lines \in LogFile /\ lines.medium = "text"
        /\ hdr.form = "object" /\ hdr.key_id \in Labels
        /\ \A m \in 1..Len(entries) : entries[m].form = "object"
    BY ReadingWorks DEF Reading, CheckHeader, IInv, ReadOK, Hdr
  <1>2. Outcomes(lines, trust) = ParsedOutcomes(hdr, entries, trust)
    BY <1>1, AllParsed
  <1>3. ASSUME NEW k \in DOMAIN HeaderOrder, FirstFailure(HeaderOrder, holds, k),
               IF HeaderOrder[k] = "not the trusted anchor" /\ hdr.spki_sha256 = None
               THEN Raise ELSE Return(Fail(0, None, HeaderOrder[k], hdr.key_id))
        PROVE  Verdict!Next
    <2>1. HeaderOrder[k] \in HeaderReasons
      <3>1. k \in 1..6
        BY HeaderOrderIs
      <3>2. k = 1 \/ k = 2 \/ k = 3 \/ k = 4 \/ k = 5 \/ k = 6
        BY <3>1
      <3> QED
        BY <3>2, HeaderOrderIs DEF HeaderReasons
    <2>2. ~holds[HeaderOrder[k]]
      BY <1>3 DEF FirstFailure
    <2>3. HeaderOrder[k] \in refused
      BY <2>1, <2>2, FailedHeaderCheck
    <2>4. ParsedOutcomes(hdr, entries, trust) =
            {Fail(0, None, r, hdr.key_id) : r \in refused}
            \cup (IF hdr.spki_sha256 = None /\ trust.trusted_spki_sha256 # None
                  THEN {Raised} ELSE {})
      BY <2>3 DEF ParsedOutcomes
    <2>5. CASE HeaderOrder[k] = "not the trusted anchor" /\ hdr.spki_sha256 = None
      <3>1. trust.trusted_spki_sha256 # None
        BY <2>2, <2>5 DEF HeaderChecks, HeaderReasons
      <3>2. Raised \in Outcomes(lines, trust)
        BY <1>2, <2>4, <2>5, <3>1
      <3> QED
        BY <1>1, <1>3, <2>5, <3>2, AnswerDecides
    <2>6. CASE ~(HeaderOrder[k] = "not the trusted anchor" /\ hdr.spki_sha256 = None)
      <3>1. Fail(0, None, HeaderOrder[k], hdr.key_id) \in Outcomes(lines, trust)
        BY <1>2, <2>3, <2>4
      <3> QED
        BY <1>1, <1>3, <2>1, <2>6, <3>1, FailDecides
    <2> QED
      BY <2>5, <2>6
  <1>4. CASE Goto("entries")
    BY <1>1, <1>4, GoingOnStutters DEF Goto, Reading
  <1> QED
    BY <1>3, <1>4 DEF CheckHeader

\* And a turn of the entry loop, the entries before it being sound.
LEMMA CheckEntryDecides ==
  ASSUME IInv, Deciding, CheckEntry
  PROVE  [Verdict!Next]_(Verdict!vars)
  <1> DEFINE hdr == lines.header
             entries == lines.entries
             holds == EntryChecks(hdr, entries[i + 1], i, prev_eh)
  <1>1. /\ pc = "entries" /\ Reading /\ lines \in LogFile /\ lines.medium = "text"
        /\ hdr.form = "object" /\ hdr.key_id \in Labels
        /\ entries \in Seq(Envelope) /\ Len(entries) \in Nat /\ i \in Nat /\ i < Len(entries)
        /\ \A m \in 1..Len(entries) : entries[m].form = "object"
    BY ReadingWorks DEF Reading, CheckEntry, IInv, VerifyTypeOK, ReadOK, Hdr
  <1>2. i + 1 \in 1..Len(entries) /\ (i + 1) - 1 = i
    BY <1>1
  <1>3. Outcomes(lines, trust) = ParsedOutcomes(hdr, entries, trust)
    BY <1>1, AllParsed
  <1>4. /\ HeaderViolations(hdr, entries, trust) = {}
        /\ \A m \in 1..i : Sound(hdr, entries, m)
        /\ prev_eh = LinkBefore(entries, i + 1)
    BY <1>1 DEF Deciding, Hdr
  <1>5. ASSUME NEW k \in DOMAIN EntryOrder, FirstFailure(EntryOrder, holds, k),
               IF EntryOrder[k] = "canonical" THEN Raise
               ELSE Return(Fail(i, i, EntryOrder[k], hdr.key_id))
        PROVE  Verdict!Next
    <2>1. EntryOrder[k] \in EntryReasons \cup {"canonical"}
      <3>1. k \in 1..8
        BY EntryOrderIs
      <3>2. k = 1 \/ k = 2 \/ k = 3 \/ k = 4 \/ k = 5 \/ k = 6 \/ k = 7 \/ k = 8
        BY <3>1
      <3> QED
        BY <3>2, EntryOrderIs DEF EntryReasons
    <2>2. ~holds[EntryOrder[k]]
      BY <1>5 DEF FirstFailure
    <2>3. IF EntryOrder[k] = "canonical" THEN Unhashable(entries, i + 1)
          ELSE EntryOrder[k] \in Violations(hdr, entries, i + 1)
      <3>1. ~EntryChecks(hdr, entries[i + 1], (i + 1) - 1,
                         LinkBefore(entries, i + 1))[EntryOrder[k]]
        BY <1>2, <1>4, <2>2
      <3> HIDE DEF hdr, entries
      <3> QED
        BY <2>1, <3>1, FailedEntryCheck
    <2>4. ~Sound(hdr, entries, i + 1)
      BY <2>3 DEF Sound
    <2>5. ParsedOutcomes(hdr, entries, trust) =
            {Fail(i, i, r, hdr.key_id) : r \in Violations(hdr, entries, i + 1)}
            \cup (IF Unhashable(entries, i + 1) THEN {Raised} ELSE {})
      <3>1. \A m \in 1..((i + 1) - 1) : Sound(hdr, entries, m)
        BY <1>2, <1>4
      <3> HIDE DEF hdr, entries
      <3>2. ParsedOutcomes(hdr, entries, trust) =
              {Fail((i + 1) - 1, (i + 1) - 1, r, hdr.key_id) :
                  r \in Violations(hdr, entries, i + 1)}
              \cup (IF Unhashable(entries, i + 1) THEN {Raised} ELSE {})
        BY <1>1, <1>2, <1>4, <2>4, <3>1, FirstUnsound
      <3> QED
        BY <1>2, <3>2
    <2>6. CASE EntryOrder[k] = "canonical"
      <3>1. Raised \in Outcomes(lines, trust)
        BY <1>3, <2>3, <2>5, <2>6
      <3> QED
        BY <1>1, <1>5, <2>6, <3>1, AnswerDecides
    <2>7. CASE EntryOrder[k] # "canonical"
      <3>1. Fail(i, i, EntryOrder[k], hdr.key_id) \in Outcomes(lines, trust)
        BY <1>3, <2>3, <2>5, <2>7
      <3> QED
        BY <1>1, <1>5, <2>1, <2>7, <3>1, FailDecides
    <2> QED
      BY <2>6, <2>7
  <1>6. CASE UNCHANGED <<pc, trust, lines, result>>
    BY <1>1, <1>6, GoingOnStutters DEF Reading
  <1> QED
    BY <1>5, <1>6 DEF CheckEntry

\* The end of the loop accepts a log whose entries are all sound.
LEMMA AcceptDecides ==
  ASSUME IInv, Deciding, Accept
  PROVE  Verdict!Next
  <1> DEFINE hdr == lines.header
             entries == lines.entries
             verdict == Valid(Len(entries), hdr.key_id, EndsSession(entries))
  <1>1. /\ pc = "entries" /\ Reading /\ lines \in LogFile /\ lines.medium = "text"
        /\ hdr.form = "object" /\ hdr.key_id \in Labels
        /\ entries \in Seq(Envelope) /\ Len(entries) \in Nat /\ i = Len(entries)
        /\ \A m \in 1..Len(entries) : entries[m].form = "object"
    BY ReadingWorks DEF Reading, Accept, IInv, ReadOK, Hdr
  <1>2. Outcomes(lines, trust) = ParsedOutcomes(hdr, entries, trust)
    BY <1>1, AllParsed
  <1>3. HeaderViolations(hdr, entries, trust) = {} /\ Unsound(hdr, entries) = {}
    <2>1. DOMAIN entries = 1..Len(entries)
      BY <1>1
    <2> QED
      BY <1>1, <2>1 DEF Deciding, Hdr, Unsound
  <1>4. Outcomes(lines, trust) = {verdict}
    BY <1>2, <1>3 DEF ParsedOutcomes
  <1>5. Return(verdict)
    BY DEF Accept, EndsSession, Last
  <1>6. verdict # None
    <2>1. verdict \in VerifyResult
      <3>1. EndsSession(entries) \in BOOLEAN
        BY DEF EndsSession
      <3> QED
        BY <1>1, <3>1 DEF Valid, VerifyResult
    <2> QED
      BY <2>1, AbsenceAssumption
  <1> QED
    BY <1>1, <1>4, <1>5, <1>6, AnswerDecides

-----------------------------------------------------------------------------
\* What the loops know is kept by every step.
LEMMA DecidingKeeps ==
  ASSUME IInv, Deciding, [Next]_vars
  PROVE  Deciding'
  <1>1. CASE World \/ UNCHANGED vars
    BY <1>1 DEF World, verifyVars, vars, Deciding, Hdr
  <1>2. CASE ReadLog \/ ParseHeader \/ ParseEntry \/ ParseDone \/ Accept
    BY <1>2 DEF ReadLog, ParseHeader, ParseEntry, ParseDone, Accept, Return, Raise, Goto, Deciding
  <1>3. CASE CheckHeader
    <2>1. pc = "chain"
      BY <1>3 DEF CheckHeader
    <2>2. CASE pc' \in {"done", "raised"}
      BY <2>2 DEF Deciding
    <2>3. CASE /\ AllHold(HeaderOrder, HeaderChecks(lines.header, lines.entries, trust))
               /\ Goto("entries")
      <3>1. pc' = "entries" /\ i' = 0 /\ UNCHANGED <<trust, lines, prev_eh>>
        BY <2>3 DEF Goto
      <3>2. HeaderViolations(lines.header, lines.entries, trust) = {}
        BY <2>3, HeldHeaderChecks
      <3>3. prev_eh = LinkBefore(lines.entries, 0 + 1)
        BY <2>1 DEF IInv, VerifyTypeOK, LinkBefore
      <3> QED
        BY <3>1, <3>2, <3>3 DEF Deciding, Hdr
    <2> QED
      BY <1>3, <2>2, <2>3 DEF CheckHeader, Return, Raise
  <1>4. CASE CheckEntry
    <2>1. pc = "entries" /\ i \in Nat
      BY <1>4 DEF CheckEntry, IInv, VerifyTypeOK
    <2>2. CASE pc' \in {"done", "raised"}
      BY <2>2 DEF Deciding
    <2>3. CASE /\ AllHold(EntryOrder, EntryChecks(lines.header, lines.entries[i + 1], i, prev_eh))
               /\ i' = i + 1
               /\ prev_eh' = entry_hash(lines.entries[i + 1].record)
               /\ UNCHANGED <<pc, trust, lines, result>>
      <3>1. prev_eh = LinkBefore(lines.entries, i + 1) /\ (i + 1) - 1 = i
        BY <2>1 DEF Deciding
      <3>2. Sound(lines.header, lines.entries, i + 1)
        BY <2>3, <3>1, HeldEntryChecks
      <3>3. \A n \in 1..(i + 1) : Sound(lines.header, lines.entries, n)
        BY <2>1, <3>2 DEF Deciding, Hdr
      <3>4. LinkBefore(lines.entries, (i + 1) + 1) = entry_hash(lines.entries[i + 1].record)
        BY <2>1 DEF LinkBefore
      <3> QED
        BY <2>1, <2>3, <3>3, <3>4 DEF Deciding, Hdr
    <2> QED
      BY <1>4, <2>2, <2>3 DEF CheckEntry, Return, Raise
  <1> QED
    BY <1>1, <1>2, <1>3, <1>4 DEF Next, VerifyStep

\* Every step of the run is a step of ChainVerdict, or no step of it.
LEMMA StepDecides ==
  ASSUME IInv, IInv', Deciding, [Next]_vars
  PROVE  [Verdict!Next]_(Verdict!vars)
  <1>1. CASE World \/ UNCHANGED vars
    BY <1>1 DEF World, verifyVars, vars, Verdict!vars
  <1>2. CASE ParseDone
    BY <1>2, GoingOnStutters DEF ParseDone, Goto, Reading
  <1> QED
    BY <1>1, <1>2, ReadLogLooks, ParseHeaderDecides, ParseEntryDecides, CheckHeaderDecides,
       CheckEntryDecides, AcceptDecides DEF Next, VerifyStep

\* A run starts where ChainVerdict does.
LEMMA StartsUndecided == VerifyInit => Verdict!Init /\ Deciding
  <1> SUFFICES ASSUME VerifyInit
               PROVE  Verdict!Init /\ Deciding
    OBVIOUS
  <1>1. trust \in Verdict!Trust
    BY SameVerdicts, PinsAssumption DEF VerifyInit
  <1> QED
    BY <1>1 DEF VerifyInit, Verdict!Init, Deciding

(***************************************************************************)
(* verify_log implements ChainVerdict for every world: with whatever log   *)
(* it has read, the loops and their order of checks come to a verdict the  *)
(* declarative reading permits, once, and never revise it.                 *)
(***************************************************************************)
THEOREM Refinement == Spec => ImplementsVerdict
  <1>1. IInv /\ IInv' /\ Deciding /\ [Next]_vars => Deciding' /\ [Verdict!Next]_(Verdict!vars)
    BY DecidingKeeps, StepDecides
  <1> QED
    BY <1>1, StartsUndecided, Invariance, PTL DEF Spec, ImplementsVerdict, Verdict!Spec

-----------------------------------------------------------------------------
(***************************************************************************)
(* No false alarm.  What is answered is permitted, and for a log of the    *)
(* signer's only one answer is.                                            *)
(***************************************************************************)
Answered == Finished => Answer \in Outcomes(lines, trust)

\* The signer commits no event without canonical bytes.
Encodable ==
    \A s \in Sessions : \A n \in DOMAIN committed[s] : committed[s][n].payload \notin Unencodable

\* A run that ends, ends with a permitted answer, which stays.
LEMMA AnsweredKeeps ==
  ASSUME IInv, IInv', Answered, Deciding, [Next]_vars
  PROVE  Answered'
  <1>1. [Verdict!Next]_(Verdict!vars)
    BY StepDecides
  <1>2. lines \in LogFile \cup {None} /\ lines' \in LogFile \cup {None}
    BY DEF IInv, ReadOK
  <1>3. Finished => Answer # None
    BY AbsenceAssumption DEF Finished, Answer, IInv, VerifyTypeOK
  <1>4. Finished' => Answer' # None
    BY AbsenceAssumption DEF Finished, Answer, IInv, VerifyTypeOK
  <1>5. /\ Verdict!Outcomes(lines, trust) = Outcomes(lines, trust)
        /\ Verdict!Outcomes(lines', trust') = Outcomes(lines', trust')
    BY <1>2, SameVerdicts
  <1>6. CASE Verdict!Look
    BY <1>4, <1>5, <1>6 DEF Verdict!Look, Answered, Answer
  <1>7. CASE Verdict!Decide
    BY <1>4, <1>5, <1>7 DEF Verdict!Decide, Answered, Answer
  <1>8. CASE UNCHANGED Verdict!vars
    <2>1. Finished' => Finished
      <3>1. ~Finished => Answer = None
        BY DEF Finished, Answer, IInv, VerifyTypeOK
      <3> QED
        BY <1>4, <1>8, <3>1 DEF Verdict!vars, Answer
    <2> QED
      BY <1>8, <2>1 DEF Verdict!vars, Answered, Answer
  <1> QED
    BY <1>1, <1>6, <1>7, <1>8 DEF Verdict!Next

\* A commit adds an event that has canonical bytes.
LEMMA EncodableKeeps ==
  ASSUME IInv, Encodable, [Next]_vars
  PROVE  Encodable'
  <1>1. CASE UNCHANGED committed
    BY <1>1 DEF Encodable
  <1>2. ASSUME NEW s \in Sessions, NEW t, NEW p \in Payloads \ Unencodable, Commit(s, t, p)
        PROVE  Encodable'
    <2> DEFINE event == [session_id |-> s, sequence |-> Len(committed[s]), event_type |-> t,
                         signer_key_id |-> SignerLabel, payload |-> p]
    <2>1. committed \in [Sessions -> Seq(Body)] /\ committed[s] \in Seq(Body)
      BY DEF IInv, WorldOK
    <2>2. committed' = [committed EXCEPT ![s] = Append(@, event)] /\ event.payload = p
      BY <1>2 DEF Commit
    <2> HIDE DEF event
    <2>3. ASSUME NEW r \in Sessions, NEW n \in DOMAIN committed'[r]
          PROVE  committed'[r][n].payload \notin Unencodable
      <3>1. CASE r # s
        BY <2>1, <2>2, <2>3, <3>1 DEF Encodable
      <3>2. CASE r = s
        <4>1. committed'[s] = Append(committed[s], event)
          BY <2>1, <2>2
        <4>2. n \in 1..(Len(committed[s]) + 1)
          BY <2>1, <2>3, <3>2, <4>1
        <4>3. CASE n = Len(committed[s]) + 1
          BY <1>2, <2>1, <2>2, <3>2, <4>1, <4>3
        <4>4. CASE n \in 1..Len(committed[s])
          <5>1. committed'[s][n] = committed[s][n]
            BY <2>1, <4>1, <4>4
          <5> QED
            BY <2>1, <3>2, <4>4, <5>1 DEF Encodable
        <4> QED
          BY <2>1, <4>2, <4>3, <4>4
      <3> QED
        BY <3>1, <3>2
    <2> QED
      BY <2>3 DEF Encodable
  <1>3. CASE World
    <2>1. CASE DamageStep
      <3>1. UNCHANGED committed
        BY <2>1 DEF DamageStep, EditRecord, RestampHash, EditPublicKey, ForeignSignature,
           DropEntry, Truncate, DamageLine, SwapSignatures, SwapEntries, ReplayEntry, SpliceEntry,
           Rewrite, MixHistories, EditHeader, LoseHeader, Blank, LoseFile, GarbleFile,
           DamageEntry, DamageEntries, Damage
      <3> QED
        BY <1>1, <3>1
    <2>2. CASE \E s \in Sessions : Present(s)
      BY <1>1, <2>2 DEF Present
    <2> QED
      BY <1>2, <1>3, <2>1, <2>2 DEF World
  <1>4. CASE VerifyStep \/ UNCHANGED vars
    BY <1>1, <1>4 DEF VerifyStep, ReadLog, ParseHeader, ParseEntry, ParseDone, CheckHeader,
       CheckEntry, Accept, logVars, vars
  <1> QED
    BY <1>3, <1>4 DEF Next

\* A log of the signer's, under the signer's pins, has one outcome.
LEMMA GenuineOutcome ==
  ASSUME IInv, Encodable, lines # None, GenuineLog(lines), SignersPins
  PROVE  Outcomes(lines, trust) =
           {Valid(Len(lines.entries), lines.header.key_id, EndsSession(lines.entries))}
  <1>0. PICK s \in Sessions : \E n \in 1..Len(committed[s]) :
               lines = GenuineFile(s, SubSeq(committed[s], 1, n))
    BY DEF GenuineLog
  <1>1. PICK n \in 1..Len(committed[s]) : lines = GenuineFile(s, SubSeq(committed[s], 1, n))
    BY <1>0
  <1> DEFINE whole == committed[s]
             bodies == SubSeq(whole, 1, n)
             fp == spki_fingerprint(SignerKey)
             hdr == lines.header
             entries == lines.entries
  <1>2. whole \in Seq(Body) /\ n \in 0..Len(whole) /\ n # 0 /\ n \in Nat
    BY DEF IInv, WorldOK
  <1>3. /\ bodies \in Seq(Body) /\ Len(bodies) = n
        /\ \A m \in 1..n : bodies[m] = whole[m]
    BY <1>2, StartTyped DEF Hash
  <1>4. /\ InOrder(s, SignerLabel, bodies)
        /\ \A m \in 1..Len(bodies) : bodies[m].payload \notin Unencodable
    <2>1. InOrder(s, SignerLabel, whole) /\ \A m \in 1..Len(whole) : whole[m].payload \notin Unencodable
      BY <1>2 DEF IInv, WorldOK, CommittedOK, Encodable
    <2> HIDE DEF bodies, whole
    <2>2. \A m \in 1..n : m \in 1..Len(whole)
      BY <1>2
    <2>3. DOMAIN bodies = 1..n /\ DOMAIN whole = 1..Len(whole)
      BY <1>2, <1>3
    <2> QED
      BY <1>3, <2>1, <2>2, <2>3 DEF InOrder
  <1> HIDE DEF whole, bodies, fp
  <1>5. lines = ChainFile(s, bodies, SignerKey, SignerLabel, fp)
    BY <1>1 DEF GenuineFile, bodies, whole, fp
  <1>6. \A m \in 1..Len(bodies) : Sound(hdr, entries, m)
    BY <1>3, <1>4, <1>5, WrittenIsSound
  <1>7. /\ lines.medium = "text" /\ hdr.form = "object"
        /\ hdr.key_id = SignerLabel /\ hdr.spki_der = SignerKey /\ hdr.spki_sha256 = fp
        /\ entries = [m \in 1..Len(bodies) |-> EnvelopeOf(bodies, m, SignerKey, SignerLabel, fp)]
    BY <1>5 DEF ChainFile
  <1>8. lines \in LogFile /\ entries \in Seq(Envelope)
    BY DEF IInv, ReadOK, LogFile
  <1>9. Len(entries) = n /\ DOMAIN entries = 1..n
    BY <1>2, <1>3, <1>7, <1>8
  <1> HIDE DEF hdr, entries
  <1>10. \A m \in 1..Len(entries) : entries[m].form = "object"
    BY <1>3, <1>7, <1>9 DEF EnvelopeOf
  <1>11. HeaderViolations(hdr, entries, trust) = {}
    <2>1. /\ trust.trusted_spki_sha256 \in {None, hdr.spki_sha256}
          /\ trust.trusted_key_id \in {None, hdr.key_id}
      BY <1>7 DEF SignersPins, fp
    <2>2. hdr.spki_der \notin BadDers /\ hdr.spki_der \notin RsaKeys
      BY <1>7, SignerAssumption, DersAssumption
    <2>3. spki_fingerprint(hdr.spki_der) = hdr.spki_sha256
      BY <1>7 DEF fp
    <2>4. entries # <<>>
      BY <1>2, <1>9
    <2> QED
      BY <2>1, <2>2, <2>3, <2>4, HeaderViolationsAre
  <1>12. Unsound(hdr, entries) = {}
    BY <1>3, <1>6, <1>9 DEF Unsound, hdr, entries
  <1>13. Outcomes(lines, trust) = ParsedOutcomes(hdr, entries, trust)
    BY <1>7, <1>8, <1>10, AllParsed DEF hdr, entries
  <1> QED
    BY <1>11, <1>12, <1>13 DEF ParsedOutcomes, hdr, entries

(***************************************************************************)
(* No false alarm: a log the signer wrote, read as it was written, is      *)
(* accepted with its length under every pin that is the signer's, at       *)
(* whatever point of the session it was copied (verify_chain, all checks). *)
(***************************************************************************)
THEOREM GenuineIsAccepted == Spec => []GenuineAccepted
  <1>1. VerifyInit => Answered /\ Encodable
    <2>1. \A n : n \notin DOMAIN <<>>
      OBVIOUS
    <2> QED
      BY <2>1 DEF VerifyInit, Init, Answered, Finished, Encodable
  <1>2. /\ IInv /\ IInv' /\ Deciding /\ Answered /\ Encodable /\ [Next]_vars
        => Deciding' /\ Answered' /\ Encodable'
    BY DecidingKeeps, AnsweredKeeps, EncodableKeeps
  <1>3. IInv /\ Answered /\ Encodable => GenuineAccepted
    <2> SUFFICES ASSUME IInv, Answered, Encodable, Finished, lines # None,
                        GenuineLog(lines), SignersPins
                 PROVE  Accepted /\ result.count = Len(lines.entries)
      BY DEF GenuineAccepted
    <2> DEFINE verdict == Valid(Len(lines.entries), lines.header.key_id,
                                EndsSession(lines.entries))
    <2>1. Answer = verdict
      BY GenuineOutcome DEF Answered
    <2>2. verdict.ok = TRUE /\ verdict.count = Len(lines.entries) /\ verdict # Raised
      <3>1. verdict.ok = TRUE /\ verdict.count = Len(lines.entries)
        BY DEF Valid
      <3>2. "ok" \in DOMAIN verdict /\ "ok" \notin DOMAIN Raised
        BY DEF Valid, Raised
      <3> QED
        BY <3>1, <3>2
    <2> HIDE DEF verdict
    <2>3. pc # "raised"
      BY <2>1, <2>2 DEF Answer
    <2>4. result = verdict /\ result # None
      BY <2>1, <2>3 DEF Answer, IInv, VerifyTypeOK, Finished
    <2> QED
      BY <2>2, <2>4 DEF Accepted
  <1> QED
    BY <1>1, <1>2, <1>3, StartsUndecided, Invariance, PTL DEF Spec

-----------------------------------------------------------------------------
(***************************************************************************)
(* The port.  Of a failed verification Outcomes says which reasons may be  *)
(* given; to compare two programs, which one is must be known: the first   *)
(* failing check, in the order of the code.                                *)
(***************************************************************************)
EntryFails(hdr, entries, n, k) ==
    FirstFailure(EntryOrder, EntryChecks(hdr, entries[n], n - 1, LinkBefore(entries, n)), k)

HeaderFails(hdr, entries, pins, k) ==
    FirstFailure(HeaderOrder, HeaderChecks(hdr, entries, pins), k)

ByHeader(hdr, entries, pins, verdict) ==
    \E k \in DOMAIN HeaderOrder :
        HeaderFails(hdr, entries, pins, k) /\ verdict = Fail(0, None, HeaderOrder[k], hdr.key_id)

ByEntry(hdr, entries, pins, verdict) ==
    /\ HeaderViolations(hdr, entries, pins) = {}
    /\ \E n \in 1..Len(entries), k \in DOMAIN EntryOrder :
          /\ \A m \in 1..(n - 1) : Sound(hdr, entries, m)
          /\ EntryFails(hdr, entries, n, k) /\ EntryOrder[k] # "canonical"
          /\ verdict = Fail(n - 1, n - 1, EntryOrder[k], hdr.key_id)

ByNothing(hdr, entries, pins, verdict) ==
    /\ HeaderViolations(hdr, entries, pins) = {}
    /\ \A n \in 1..Len(entries) : Sound(hdr, entries, n)
    /\ verdict = Valid(Len(entries), hdr.key_id, EndsSession(entries))

Reported(hdr, entries, pins, verdict) ==
    \/ ByHeader(hdr, entries, pins, verdict)
    \/ ByEntry(hdr, entries, pins, verdict)
    \/ ByNothing(hdr, entries, pins, verdict)

FirstReported ==
    pc = "done" /\ lines # None /\ lines.header.form = "object" /\ Unparsed(lines.entries) = {} =>
        Reported(lines.header, lines.entries, trust, result)

LEMMA FirstReportedKeeps ==
  ASSUME IInv, IInv', Deciding, FirstReported, [Next]_vars
  PROVE  FirstReported'
  <1> DEFINE hdr == lines.header
             entries == lines.entries
  <1>1. CASE World \/ UNCHANGED vars
    BY <1>1 DEF World, verifyVars, vars, FirstReported
  <1>2. CASE ReadLog
    <2>1. lines = None
      BY <1>2 DEF ReadLog, Deciding
    <2> QED
      BY <1>2, <2>1 DEF ReadLog, Return, FirstReported
  <1>3. CASE ParseHeader
    BY <1>3 DEF ParseHeader, Return, Raise, Goto, FirstReported
  <1>4. CASE ParseEntry
    <2>1. i + 1 \in 1..Len(entries) /\ DOMAIN entries = 1..Len(entries)
      <3>1. Reading
        BY <1>4 DEF ParseEntry, Reading
      <3>2. entries \in Seq(Envelope) /\ Len(entries) \in Nat
        BY <3>1, ReadingWorks
      <3>3. i \in Nat /\ i < Len(entries)
        BY <1>4 DEF ParseEntry, IInv, VerifyTypeOK
      <3> HIDE DEF entries
      <3> QED
        BY <3>2, <3>3
    <2>2. CASE /\ entries[i + 1].form = "malformed"
               /\ Return(Fail(i, i, "malformed entry", lines.header.key_id))
      <3>1. i + 1 \in Unparsed(entries)
        BY <2>1, <2>2 DEF Unparsed
      <3> QED
        BY <2>2, <3>1 DEF Return, FirstReported
    <2> QED
      BY <1>4, <2>2 DEF ParseEntry, Raise, FirstReported
  <1>5. CASE ParseDone
    BY <1>5 DEF ParseDone, Goto, FirstReported
  <1>6. CASE CheckHeader
    <2>1. ASSUME NEW k \in DOMAIN HeaderOrder, HeaderFails(hdr, entries, trust, k),
                 Return(Fail(0, None, HeaderOrder[k], hdr.key_id))
          PROVE  FirstReported'
      <3>1. ByHeader(hdr, entries, trust, result')
        BY <2>1 DEF Return, ByHeader
      <3> QED
        BY <2>1, <3>1 DEF Return, FirstReported, Reported
    <2>2. CASE Raise \/ Goto("entries")
      BY <2>2 DEF Raise, Goto, FirstReported
    <2> QED
      BY <1>6, <2>1, <2>2 DEF CheckHeader, HeaderFails
  <1>7. CASE CheckEntry
    <2>1. /\ i \in Nat /\ i + 1 \in 1..Len(entries) /\ (i + 1) - 1 = i
          /\ HeaderViolations(hdr, entries, trust) = {}
          /\ \A n \in 1..i : Sound(hdr, entries, n)
          /\ prev_eh = LinkBefore(entries, i + 1)
      <3>1. Reading /\ pc = "entries"
        BY <1>7 DEF CheckEntry, Reading
      <3>2. entries \in Seq(Envelope) /\ Len(entries) \in Nat
        BY <3>1, ReadingWorks
      <3> QED
        BY <1>7, <3>1, <3>2 DEF CheckEntry, IInv, VerifyTypeOK, Deciding, Hdr
    <2>2. ASSUME NEW k \in DOMAIN EntryOrder, EntryFails(hdr, entries, i + 1, k),
                 EntryOrder[k] # "canonical", Return(Fail(i, i, EntryOrder[k], hdr.key_id))
          PROVE  FirstReported'
      <3>1. ByEntry(hdr, entries, trust, result')
        BY <2>1, <2>2 DEF Return, ByEntry
      <3> QED
        BY <2>2, <3>1 DEF Return, FirstReported, Reported
    <2>3. CASE Raise \/ (i' = i + 1 /\ UNCHANGED <<pc, trust, lines, result>>)
      <3>1. pc = "entries"
        BY <1>7 DEF CheckEntry
      <3> QED
        BY <2>3, <3>1 DEF Raise, FirstReported
    <2>4. EntryChecks(hdr, entries[i + 1], i, prev_eh)
          = EntryChecks(hdr, entries[i + 1], (i + 1) - 1, LinkBefore(entries, i + 1))
      BY <2>1
    <2> QED
      BY <1>7, <2>2, <2>3, <2>4 DEF CheckEntry, EntryFails
  <1>8. CASE Accept
    <2>1. /\ i = Len(entries) /\ pc = "entries"
          /\ Return(Valid(Len(entries), hdr.key_id, EndsSession(entries)))
      BY <1>8 DEF Accept, EndsSession, Last
    <2>2. ByNothing(hdr, entries, trust, result')
      BY <2>1 DEF Return, ByNothing, Deciding, Hdr
    <2> QED
      BY <2>1, <2>2 DEF Return, FirstReported, Reported
  <1> QED
    BY <1>1, <1>2, <1>3, <1>4, <1>5, <1>6, <1>7, <1>8 DEF Next, VerifyStep

-----------------------------------------------------------------------------
\* Of several failing checks one is the first, and only one.
LEMMA FirstIsUnique ==
  ASSUME NEW order, NEW N \in Nat, DOMAIN order = 1..N, NEW holds, NEW k, NEW j,
         FirstFailure(order, holds, k), FirstFailure(order, holds, j)
  PROVE  k = j
  <1>1. k \in 1..N /\ j \in 1..N /\ ~holds[order[k]] /\ ~holds[order[j]]
    BY DEF FirstFailure
  <1>2. ~(j < k)
    <2>1. j < k => j \in 1..(k - 1)
      BY <1>1
    <2> QED
      BY <1>1, <2>1 DEF FirstFailure
  <1>3. ~(k < j)
    <2>1. k < j => k \in 1..(j - 1)
      BY <1>1
    <2> QED
      BY <1>1, <2>1 DEF FirstFailure
  <1> QED
    BY <1>1, <1>2, <1>3

LEMMA FirstExists ==
  ASSUME NEW order, NEW N \in Nat, DOMAIN order = 1..N, NEW holds, ~AllHold(order, holds)
  PROVE  \E k \in DOMAIN order : FirstFailure(order, holds, k)
  <1> DEFINE T == {k \in 1..N : ~holds[order[k]]}
  <1>1. T \in SUBSET Nat /\ T # {}
    BY DEF AllHold
  <1>2. PICK k \in T : \A m \in T : k <= m
    <2> HIDE DEF T
    <2> QED
      BY <1>1, LeastNatural
  <1>3. \A m \in 1..(k - 1) : m \in 1..N /\ m \notin T
    BY <1>2
  <1>4. FirstFailure(order, holds, k)
    BY <1>2, <1>3 DEF FirstFailure
  <1> QED
    BY <1>2, <1>4

\* The seven checks of the port's loop, by position.
LEMMA TsOrderIs ==
         /\ DOMAIN TsOrder = 1..7
         /\ TsOrder[1] = "sequence"
         /\ TsOrder[2] = "prev_entry_hash"
         /\ TsOrder[3] = "entry_hash"
         /\ TsOrder[4] = "fingerprint"
         /\ TsOrder[5] = "key_id"
         /\ TsOrder[6] = "session_id"
         /\ TsOrder[7] = "signature"
  <1>1. TsOrder[1] = "sequence"
    BY DEF TsOrder
  <1>2. TsOrder[2] = "prev_entry_hash"
    BY DEF TsOrder
  <1>3. TsOrder[3] = "entry_hash"
    BY DEF TsOrder
  <1>4. TsOrder[4] = "fingerprint"
    BY DEF TsOrder
  <1>5. TsOrder[5] = "key_id"
    BY DEF TsOrder
  <1>6. TsOrder[6] = "session_id"
    BY DEF TsOrder
  <1>7. TsOrder[7] = "signature"
    BY DEF TsOrder
  <1>8. DOMAIN TsOrder = 1..7
    BY DEF TsOrder
  <1> QED
    BY <1>1, <1>2, <1>3, <1>4, <1>5, <1>6, <1>7, <1>8

\* The check of the port at a position is the reference's at its place, and is
\* reported under the same name.
Place(j) == IF j <= 2 THEN j ELSE j + 1

LEMMA SameCheck ==
  ASSUME NEW hdr, NEW entries, NEW n, NEW j \in 1..7
  PROVE  /\ Place(j) \in 1..8 /\ Place(j) # 3
         /\ TsReason(TsOrder[j]) = EntryOrder[Place(j)]
         /\ TsHolds(hdr, hdr.spki_der, entries, n)[TsOrder[j]] <=>
              EntryChecks(hdr, entries[n], n - 1, LinkBefore(entries, n))[EntryOrder[Place(j)]]
  <1> DEFINE ts == TsHolds(hdr, hdr.spki_der, entries, n)
             py == EntryChecks(hdr, entries[n], n - 1, LinkBefore(entries, n))
  <1>1. j = 1 \/ j = 2 \/ j = 3 \/ j = 4 \/ j = 5 \/ j = 6 \/ j = 7
    OBVIOUS
  <1>2. CASE j = 1
    <2>1. Place(j) = 1
      BY <1>2 DEF Place
    <2>2. ts["sequence"] <=> py["sequence"]
      BY DEF TsHolds, EntryChecks, EntryReasons
    <2>3. TsOrder[j] = "sequence" /\ EntryOrder[Place(j)] = "sequence"
      BY <1>2, <2>1, TsOrderIs, EntryOrderIs
    <2> QED
      BY <2>1, <2>2, <2>3 DEF TsReason
  <1>3. CASE j = 2
    <2>1. Place(j) = 2
      BY <1>3 DEF Place
    <2>2. ts["prev_entry_hash"] <=> py["prev_entry_hash"]
      BY DEF TsHolds, EntryChecks, EntryReasons
    <2>3. TsOrder[j] = "prev_entry_hash" /\ EntryOrder[Place(j)] = "prev_entry_hash"
      BY <1>3, <2>1, TsOrderIs, EntryOrderIs
    <2> QED
      BY <2>1, <2>2, <2>3 DEF TsReason
  <1>4. CASE j = 3
    <2>1. Place(j) = 4
      BY <1>4 DEF Place
    <2>2. ts["entry_hash"] <=> py["entry_hash"]
      BY DEF TsHolds, EntryChecks, EntryReasons
    <2>3. TsOrder[j] = "entry_hash" /\ EntryOrder[Place(j)] = "entry_hash"
      BY <1>4, <2>1, TsOrderIs, EntryOrderIs
    <2> QED
      BY <2>1, <2>2, <2>3 DEF TsReason
  <1>5. CASE j = 4
    <2>1. Place(j) = 5
      BY <1>5 DEF Place
    <2>2. ts["fingerprint"] <=> py["public_key fingerprint"]
      BY DEF TsHolds, EntryChecks, EntryReasons
    <2>3. TsOrder[j] = "fingerprint" /\ EntryOrder[Place(j)] = "public_key fingerprint"
      BY <1>5, <2>1, TsOrderIs, EntryOrderIs
    <2>4. TsReason("fingerprint") = "public_key fingerprint"
      BY DEF TsReason
    <2>5. ts[TsOrder[j]] <=> py[EntryOrder[Place(j)]]
      <3> HIDE DEF ts, py
      <3> QED
        BY <2>2, <2>3
    <2>6. Place(j) \in 1..8 /\ Place(j) # 3
      BY <2>1
    <2> QED
      BY <2>3, <2>4, <2>5, <2>6, Zenon
  <1>6. CASE j = 5
    <2>1. Place(j) = 6
      BY <1>6 DEF Place
    <2>2. ts["key_id"] <=> py["key_id"]
      BY DEF TsHolds, EntryChecks, EntryReasons
    <2>3. TsOrder[j] = "key_id" /\ EntryOrder[Place(j)] = "key_id"
      BY <1>6, <2>1, TsOrderIs, EntryOrderIs
    <2> QED
      BY <2>1, <2>2, <2>3 DEF TsReason
  <1>7. CASE j = 6
    <2>1. Place(j) = 7
      BY <1>7 DEF Place
    <2>2. ts["session_id"] <=> py["session_id"]
      BY DEF TsHolds, EntryChecks, EntryReasons
    <2>3. TsOrder[j] = "session_id" /\ EntryOrder[Place(j)] = "session_id"
      BY <1>7, <2>1, TsOrderIs, EntryOrderIs
    <2> QED
      BY <2>1, <2>2, <2>3 DEF TsReason
  <1>8. CASE j = 7
    <2>1. Place(j) = 8
      BY <1>8 DEF Place
    <2>2. ts["signature"] <=> py["signature"]
      BY DEF TsHolds, EntryChecks, EntryReasons
    <2>3. TsOrder[j] = "signature" /\ EntryOrder[Place(j)] = "signature"
      BY <1>8, <2>1, TsOrderIs, EntryOrderIs
    <2> QED
      BY <2>1, <2>2, <2>3 DEF TsReason
  <1> QED
    BY <1>1, <1>2, <1>3, <1>4, <1>5, <1>6, <1>7, <1>8

\* An entry at which the reference stops is one the port stops at, for the
\* same reason, and one it passes, the port passes.
LEMMA SameFailure ==
  ASSUME NEW hdr, NEW entries, NEW n, entries[n].form = "object",
         NEW k, EntryFails(hdr, entries, n, k), EntryOrder[k] # "canonical"
  PROVE  EntryFailures(hdr, hdr.spki_der, entries, n)
         = {Fail(n - 1, n - 1, EntryOrder[k], hdr.key_id)}
  <1> DEFINE ts == TsHolds(hdr, hdr.spki_der, entries, n)
             py == EntryChecks(hdr, entries[n], n - 1, LinkBefore(entries, n))
             j == IF k <= 2 THEN k ELSE k - 1
  <1>1. /\ k \in 1..8 /\ k # 3 /\ ~py[EntryOrder[k]]
        /\ \A m \in 1..(k - 1) : py[EntryOrder[m]]
    BY EntryOrderIs DEF EntryFails, FirstFailure
  <1>2. j \in 1..7 /\ Place(j) = k
    BY <1>1 DEF Place
  <1>3. \A m \in 1..7 : m < j => Place(m) \in 1..(k - 1)
    BY <1>1 DEF Place
  <1> HIDE DEF ts, py, j
  <1>4. \A m \in 1..7 : /\ TsReason(TsOrder[m]) = EntryOrder[Place(m)]
                        /\ ts[TsOrder[m]] <=> py[EntryOrder[Place(m)]]
    BY SameCheck DEF ts, py
  <1>5. FirstFailure(TsOrder, ts, j)
    <2>1. \A m \in 1..(j - 1) : m \in 1..7 /\ m < j
      BY <1>2
    <2> QED
      BY <1>1, <1>2, <1>3, <1>4, <2>1, TsOrderIs DEF FirstFailure
  <1>6. \A m : FirstFailure(TsOrder, ts, m) => m = j
    BY <1>5, TsOrderIs, FirstIsUnique
  <1>7. {m \in DOMAIN TsOrder : FirstFailure(TsOrder, ts, m)} = {j}
    BY <1>2, <1>5, <1>6, TsOrderIs
  <1>8. EntryFailures(hdr, hdr.spki_der, entries, n)
        = {Fail(n - 1, n - 1, TsReason(TsOrder[m]), hdr.key_id) :
              m \in {l \in DOMAIN TsOrder : FirstFailure(TsOrder, ts, l)}}
    BY DEF EntryFailures, ts
  <1>9. TsReason(TsOrder[j]) = EntryOrder[k]
    BY <1>2, <1>4
  <1> QED
    BY <1>7, <1>8, <1>9

LEMMA SamePass ==
  ASSUME NEW hdr, NEW entries, NEW n, entries[n].form = "object", Sound(hdr, entries, n)
  PROVE  EntryFailures(hdr, hdr.spki_der, entries, n) = {}
  <1> DEFINE ts == TsHolds(hdr, hdr.spki_der, entries, n)
  <1>1. /\ ts["sequence"] /\ ts["prev_entry_hash"] /\ ts["entry_hash"] /\ ts["fingerprint"]
        /\ ts["key_id"] /\ ts["session_id"] /\ ts["signature"]
    BY SoundIs DEF TsHolds, SignatureVerifies
  <1> HIDE DEF ts
  <1>2. \A k \in 1..7 : ts[TsOrder[k]]
    <2> TAKE k \in 1..7
    <2>1. k = 1 \/ k = 2 \/ k = 3 \/ k = 4 \/ k = 5 \/ k = 6 \/ k = 7
      OBVIOUS
    <2> QED
      BY <1>1, <2>1, TsOrderIs
  <1>3. {m \in DOMAIN TsOrder : FirstFailure(TsOrder, ts, m)} = {}
    BY <1>2, TsOrderIs DEF FirstFailure
  <1>4. EntryFailures(hdr, hdr.spki_der, entries, n)
        = {Fail(n - 1, n - 1, TsReason(TsOrder[m]), hdr.key_id) :
              m \in {l \in DOMAIN TsOrder : FirstFailure(TsOrder, ts, l)}}
    BY DEF EntryFailures, ts
  <1> QED
    BY <1>3, <1>4

\* What the port answers for an entry is a failure or an exception.
LEMMA FailuresRefuse ==
  ASSUME NEW hdr, NEW pub, NEW entries, NEW n, NEW port \in EntryFailures(hdr, pub, entries, n)
  PROVE  port = Raised \/ ~port.ok
  <1>1. \A c, r : ~Fail(c, c, r, hdr.key_id).ok
    BY DEF Fail
  <1>2. port = Raised \/ \E r : port = Fail(n - 1, n - 1, r, hdr.key_id)
    BY DEF EntryFailures, Misshapen
  <1> QED
    BY <1>1, <1>2

\* What the port answers, once the header has passed.
LEMMA PortOfEntries ==
  ASSUME NEW hdr, NEW pub, NEW entries \in Seq(Envelope), NEW pins,
         NEW n \in 1..Len(entries), EntryFailures(hdr, pub, entries, n) # {}
  PROVE  \E m \in 1..Len(entries) :
           /\ m <= n
           /\ EntryFailures(hdr, pub, entries, m) # {}
           /\ \A l \in 1..(m - 1) : EntryFailures(hdr, pub, entries, l) = {}
           /\ Least({l \in DOMAIN entries : EntryFailures(hdr, pub, entries, l) # {}}) = m
           /\ {l \in DOMAIN entries : EntryFailures(hdr, pub, entries, l) # {}} # {}
  <1> DEFINE failing == {l \in DOMAIN entries : EntryFailures(hdr, pub, entries, l) # {}}
  <1>1. DOMAIN entries = 1..Len(entries) /\ Len(entries) \in Nat
    OBVIOUS
  <1>2. failing \in SUBSET Nat /\ n \in failing
    BY <1>1
  <1>3. PICK m \in failing : \A l \in failing : m <= l
    <2> HIDE DEF failing
    <2> QED
      BY <1>2, LeastNatural
  <1>4. Least(failing) = m
    <2> HIDE DEF failing
    <2> QED
      BY <1>2, <1>3, LeastIs
  <1>5. \A l \in 1..(m - 1) : l \notin failing /\ l \in DOMAIN entries
    BY <1>1, <1>3
  <1> QED
    BY <1>1, <1>2, <1>3, <1>4, <1>5

\* The checks before the loop, one by one.
LEMMA HeaderChecksAre ==
  ASSUME NEW hdr, NEW entries, NEW pins
  PROVE  /\ HeaderChecks(hdr, entries, pins)["not the trusted anchor"]
              <=> pins.trusted_spki_sha256 \in {None, hdr.spki_sha256}
         /\ HeaderChecks(hdr, entries, pins)["not the trusted key_id"]
              <=> pins.trusted_key_id \in {None, hdr.key_id}
         /\ HeaderChecks(hdr, entries, pins)["key unreadable"] <=> hdr.spki_der \notin BadDers
         /\ HeaderChecks(hdr, entries, pins)["not an EC key"] <=> hdr.spki_der \notin RsaKeys
         /\ HeaderChecks(hdr, entries, pins)["spki_sha256 mismatch"]
              <=> spki_fingerprint(hdr.spki_der) = hdr.spki_sha256
         /\ HeaderChecks(hdr, entries, pins)["no entries"] <=> entries # <<>>
  BY DEF HeaderChecks, HeaderReasons

\* The same for the port: it asks of the key only whether it loads.
LEMMA TsHeaderIs ==
  ASSUME NEW hdr, NEW pub, NEW entries, NEW pins
  PROVE  /\ TsHeaderHolds(hdr, pub, entries, pins)["not the trusted anchor"]
              <=> pins.trusted_spki_sha256 \in {None, hdr.spki_sha256}
         /\ TsHeaderHolds(hdr, pub, entries, pins)["not the trusted key_id"]
              <=> pins.trusted_key_id \in {None, hdr.key_id}
         /\ TsHeaderHolds(hdr, pub, entries, pins)["key unreadable"] <=> pub # None
         /\ TsHeaderHolds(hdr, pub, entries, pins)["spki_sha256 mismatch"]
              <=> spki_fingerprint(hdr.spki_der) = hdr.spki_sha256
         /\ TsHeaderHolds(hdr, pub, entries, pins)["no entries"] <=> entries # <<>>
  <1> DEFINE py == HeaderChecks(hdr, entries, pins)
             ts == TsHeaderHolds(hdr, pub, entries, pins)
  <1>1. ts = [py EXCEPT !["key unreadable"] = (pub # None)]
    BY DEF TsHeaderHolds
  <1>2. DOMAIN py = HeaderReasons
    BY DEF HeaderChecks
  <1>3. /\ ts["not the trusted anchor"] = py["not the trusted anchor"]
        /\ ts["not the trusted key_id"] = py["not the trusted key_id"]
        /\ ts["spki_sha256 mismatch"] = py["spki_sha256 mismatch"]
        /\ ts["no entries"] = py["no entries"]
    <2> HIDE DEF py, ts
    <2> QED
      BY <1>1, <1>2 DEF HeaderReasons
  <1>4. ts["key unreadable"] = (pub # None)
    <2> HIDE DEF py, ts
    <2> QED
      BY <1>1, <1>2 DEF HeaderReasons
  <1> HIDE DEF py, ts
  <1>5. /\ py["not the trusted anchor"] <=> pins.trusted_spki_sha256 \in {None, hdr.spki_sha256}
        /\ py["not the trusted key_id"] <=> pins.trusted_key_id \in {None, hdr.key_id}
        /\ py["spki_sha256 mismatch"] <=> spki_fingerprint(hdr.spki_der) = hdr.spki_sha256
        /\ py["no entries"] <=> entries # <<>>
    BY HeaderChecksAre DEF py
  <1>6. /\ ts["not the trusted anchor"] <=> pins.trusted_spki_sha256 \in {None, hdr.spki_sha256}
        /\ ts["not the trusted key_id"] <=> pins.trusted_key_id \in {None, hdr.key_id}
        /\ ts["spki_sha256 mismatch"] <=> spki_fingerprint(hdr.spki_der) = hdr.spki_sha256
        /\ ts["no entries"] <=> entries # <<>>
    BY <1>3, <1>5
  <1>7. ts["key unreadable"] <=> pub # None
    BY <1>4
  <1> QED
    BY <1>6, <1>7 DEF ts

\* The five checks of the port's header, by position.
LEMMA TsHeaderOrderIs ==
         /\ DOMAIN TsHeaderOrder = 1..5
         /\ TsHeaderOrder[1] = "not the trusted anchor"
         /\ TsHeaderOrder[2] = "not the trusted key_id"
         /\ TsHeaderOrder[3] = "key unreadable"
         /\ TsHeaderOrder[4] = "spki_sha256 mismatch"
         /\ TsHeaderOrder[5] = "no entries"
  <1>1. TsHeaderOrder[1] = "not the trusted anchor"
    BY DEF TsHeaderOrder
  <1>2. TsHeaderOrder[2] = "not the trusted key_id"
    BY DEF TsHeaderOrder
  <1>3. TsHeaderOrder[3] = "key unreadable"
    BY DEF TsHeaderOrder
  <1>4. TsHeaderOrder[4] = "spki_sha256 mismatch"
    BY DEF TsHeaderOrder
  <1>5. TsHeaderOrder[5] = "no entries"
    BY DEF TsHeaderOrder
  <1>6. DOMAIN TsHeaderOrder = 1..5
    BY DEF TsHeaderOrder
  <1> QED
    BY <1>1, <1>2, <1>3, <1>4, <1>5, <1>6

\* All of them hold exactly if each does.
LEMMA TsHeaderPasses ==
  ASSUME NEW hdr, NEW pub, NEW entries, NEW pins
  PROVE  AllHold(TsHeaderOrder, TsHeaderHolds(hdr, pub, entries, pins)) <=>
           /\ pins.trusted_spki_sha256 \in {None, hdr.spki_sha256}
           /\ pins.trusted_key_id \in {None, hdr.key_id}
           /\ pub # None
           /\ spki_fingerprint(hdr.spki_der) = hdr.spki_sha256
           /\ entries # <<>>
  <1> DEFINE ts == TsHeaderHolds(hdr, pub, entries, pins)
             a == pins.trusted_spki_sha256 \in {None, hdr.spki_sha256}
             b == pins.trusted_key_id \in {None, hdr.key_id}
             c == pub # None
             d == spki_fingerprint(hdr.spki_der) = hdr.spki_sha256
             e == entries # <<>>
  <1>1. /\ ts["not the trusted anchor"] <=> a
        /\ ts["not the trusted key_id"] <=> b
        /\ ts["key unreadable"] <=> c
        /\ ts["spki_sha256 mismatch"] <=> d
        /\ ts["no entries"] <=> e
    BY TsHeaderIs
  <1> HIDE DEF ts, a, b, c, d, e
  <1>2. AllHold(TsHeaderOrder, ts) <=> \A k \in 1..5 : ts[TsHeaderOrder[k]]
    BY TsHeaderOrderIs DEF AllHold
  <1>3. (\A k \in 1..5 : ts[TsHeaderOrder[k]]) <=>
          /\ ts[TsHeaderOrder[1]] /\ ts[TsHeaderOrder[2]] /\ ts[TsHeaderOrder[3]]
          /\ ts[TsHeaderOrder[4]] /\ ts[TsHeaderOrder[5]]
    <2>1. \A k \in 1..5 : k = 1 \/ k = 2 \/ k = 3 \/ k = 4 \/ k = 5
      OBVIOUS
    <2>2. 1 \in 1..5 /\ 2 \in 1..5 /\ 3 \in 1..5 /\ 4 \in 1..5 /\ 5 \in 1..5
      OBVIOUS
    <2> QED
      BY <2>1, <2>2, Zenon
  <1>4. AllHold(TsHeaderOrder, ts) <=> a /\ b /\ c /\ d /\ e
    BY <1>1, <1>2, <1>3, TsHeaderOrderIs, Zenon
  <1> QED
    BY <1>4 DEF ts, a, b, c, d, e

\* Before the loop the port refuses what the reference refuses, for the same
\* reason, if the key is an EC key.
TsPlace(k) == IF k <= 3 THEN k ELSE k - 1

LEMMA SameRefusal ==
  ASSUME NEW hdr, NEW entries, NEW pins, NEW k, HeaderFails(hdr, entries, pins, k),
         hdr.spki_der \in Keys
  PROVE  verifyChain(hdr, hdr.spki_der, entries, pins)
         = {Fail(0, None, HeaderOrder[k], hdr.key_id)}
  <1> DEFINE py == HeaderChecks(hdr, entries, pins)
             ts == TsHeaderHolds(hdr, hdr.spki_der, entries, pins)
             j  == TsPlace(k)
  <1>1. /\ k \in 1..6 /\ ~py[HeaderOrder[k]]
        /\ \A m \in 1..(k - 1) : py[HeaderOrder[m]]
    BY HeaderOrderIs DEF HeaderFails, FirstFailure
  <1>2. /\ hdr.spki_der # None /\ hdr.spki_der \notin BadDers /\ hdr.spki_der \notin RsaKeys
    BY DersAssumption, NoneAssumption
  <1>3. py["key unreadable"] /\ py["not an EC key"] /\ ts["key unreadable"]
    BY <1>2, HeaderChecksAre, TsHeaderIs
  <1>4. /\ ts["not the trusted anchor"] <=> py["not the trusted anchor"]
        /\ ts["not the trusted key_id"] <=> py["not the trusted key_id"]
        /\ ts["spki_sha256 mismatch"] <=> py["spki_sha256 mismatch"]
        /\ ts["no entries"] <=> py["no entries"]
    BY HeaderChecksAre, TsHeaderIs
  <1> HIDE DEF py, ts
  <1>5. k = 1 \/ k = 2 \/ k = 5 \/ k = 6
    <2>1. k # 3 /\ k # 4
      BY <1>1, <1>3, HeaderOrderIs
    <2> QED
      BY <1>1, <2>1
  <1>6. j \in 1..5 /\ TsHeaderOrder[j] = HeaderOrder[k] /\ ~ts[TsHeaderOrder[j]]
    <2>1. CASE k = 1
      <3>1. j = 1
        BY <2>1 DEF TsPlace
      <3>2. HeaderOrder[k] = "not the trusted anchor" /\ TsHeaderOrder[j] = "not the trusted anchor"
        BY <2>1, <3>1, HeaderOrderIs, TsHeaderOrderIs
      <3>3. ~ts["not the trusted anchor"]
        BY <1>1, <1>4, <3>2
      <3>4. ~ts[TsHeaderOrder[j]]
        BY <3>2, <3>3
      <3>5. j \in 1..5
        BY <3>1
      <3> QED
        BY <3>2, <3>4, <3>5, Zenon
    <2>2. CASE k = 2
      <3>1. j = 2
        BY <2>2 DEF TsPlace
      <3>2. HeaderOrder[k] = "not the trusted key_id" /\ TsHeaderOrder[j] = "not the trusted key_id"
        BY <2>2, <3>1, HeaderOrderIs, TsHeaderOrderIs
      <3>3. ~ts["not the trusted key_id"]
        BY <1>1, <1>4, <3>2
      <3>4. ~ts[TsHeaderOrder[j]]
        BY <3>2, <3>3
      <3>5. j \in 1..5
        BY <3>1
      <3> QED
        BY <3>2, <3>4, <3>5, Zenon
    <2>3. CASE k = 5
      <3>1. j = 4
        BY <2>3 DEF TsPlace
      <3>2. HeaderOrder[k] = "spki_sha256 mismatch" /\ TsHeaderOrder[j] = "spki_sha256 mismatch"
        BY <2>3, <3>1, HeaderOrderIs, TsHeaderOrderIs
      <3>3. ~ts["spki_sha256 mismatch"]
        BY <1>1, <1>4, <3>2
      <3>4. ~ts[TsHeaderOrder[j]]
        BY <3>2, <3>3
      <3>5. j \in 1..5
        BY <3>1
      <3> QED
        BY <3>2, <3>4, <3>5, Zenon
    <2>4. CASE k = 6
      <3>1. j = 5
        BY <2>4 DEF TsPlace
      <3>2. HeaderOrder[k] = "no entries" /\ TsHeaderOrder[j] = "no entries"
        BY <2>4, <3>1, HeaderOrderIs, TsHeaderOrderIs
      <3>3. ~ts["no entries"]
        BY <1>1, <1>4, <3>2
      <3>4. ~ts[TsHeaderOrder[j]]
        BY <3>2, <3>3
      <3>5. j \in 1..5
        BY <3>1
      <3> QED
        BY <3>2, <3>4, <3>5, Zenon
    <2> QED
      BY <1>5, <2>1, <2>2, <2>3, <2>4
  <1>7. \A m \in 1..(j - 1) : ts[TsHeaderOrder[m]]
    <2> SUFFICES ASSUME NEW m \in 1..(j - 1)
                 PROVE  ts[TsHeaderOrder[m]]
      OBVIOUS
    <2>1. m = 1 \/ m = 2 \/ m = 3 \/ m = 4
      BY <1>6
    <2>2. CASE m = 1
      <3>1. 1 \in 1..(k - 1)
        BY <1>5, <2>2 DEF TsPlace
      <3> QED
        BY <1>1, <1>4, <2>2, <3>1, HeaderOrderIs, TsHeaderOrderIs
    <2>3. CASE m = 2
      <3>1. 2 \in 1..(k - 1)
        BY <1>5, <2>3 DEF TsPlace
      <3> QED
        BY <1>1, <1>4, <2>3, <3>1, HeaderOrderIs, TsHeaderOrderIs
    <2>4. CASE m = 3
      BY <1>3, <2>4, TsHeaderOrderIs
    <2>5. CASE m = 4
      <3>1. 5 \in 1..(k - 1)
        BY <1>5, <2>5 DEF TsPlace
      <3> QED
        BY <1>1, <1>4, <2>5, <3>1, HeaderOrderIs, TsHeaderOrderIs
    <2> QED
      BY <2>1, <2>2, <2>3, <2>4, <2>5
  <1> HIDE DEF j
  <1>8. FirstFailure(TsHeaderOrder, ts, j)
    BY <1>6, <1>7, TsHeaderOrderIs DEF FirstFailure
  <1>9. \A m : FirstFailure(TsHeaderOrder, ts, m) => m = j
    BY <1>8, TsHeaderOrderIs, FirstIsUnique
  <1>10. {m \in DOMAIN TsHeaderOrder : FirstFailure(TsHeaderOrder, ts, m)} = {j}
    BY <1>6, <1>8, <1>9, TsHeaderOrderIs
  <1>11. ~AllHold(TsHeaderOrder, ts)
    BY <1>6, TsHeaderOrderIs DEF AllHold
  <1>12. verifyChain(hdr, hdr.spki_der, entries, pins)
         = {Fail(0, None, TsHeaderOrder[m], hdr.key_id) :
               m \in {l \in DOMAIN TsHeaderOrder : FirstFailure(TsHeaderOrder, ts, l)}}
    BY <1>11 DEF verifyChain, ts
  <1> QED
    BY <1>6, <1>10, <1>12

\* Once the header has passed, the port's answer is that of its loop.
LEMMA PortOfLoop ==
  ASSUME NEW hdr, NEW entries, NEW pins, HeaderViolations(hdr, entries, pins) = {},
         hdr.spki_der \in Keys
  PROVE  LET failing == {n \in DOMAIN entries : EntryFailures(hdr, hdr.spki_der, entries, n) # {}}
         IN  verifyChain(hdr, hdr.spki_der, entries, pins) =
               IF failing # {} THEN EntryFailures(hdr, hdr.spki_der, entries, Least(failing))
               ELSE {Valid(Len(entries), hdr.key_id, EndsSession(entries))}
  <1>1. /\ pins.trusted_spki_sha256 \in {None, hdr.spki_sha256}
        /\ pins.trusted_key_id \in {None, hdr.key_id}
        /\ spki_fingerprint(hdr.spki_der) = hdr.spki_sha256
        /\ entries # <<>>
    BY HeaderViolationsAre
  <1>2. hdr.spki_der # None /\ hdr.spki_der \notin RsaKeys
    BY DersAssumption, NoneAssumption
  <1>3. AllHold(TsHeaderOrder, TsHeaderHolds(hdr, hdr.spki_der, entries, pins))
    BY <1>1, <1>2, TsHeaderPasses
  <1>4. {x \in {Raised} : Throws(hdr, hdr.spki_der, entries)} = {}
    BY <1>2 DEF Throws
  <1> QED
    BY <1>3, <1>4 DEF verifyChain

\* For a log all of whose lines are envelopes the port answers as reported.
LEMMA PortAnswersSame ==
  ASSUME NEW hdr, NEW entries \in Seq(Envelope), NEW pins, Unparsed(entries) = {},
         hdr.spki_der \in Keys,
         NEW verdict, Reported(hdr, entries, pins, verdict)
  PROVE  verifyChain(hdr, hdr.spki_der, entries, pins) = {verdict}
  <1> DEFINE failing == {n \in DOMAIN entries : EntryFailures(hdr, hdr.spki_der, entries, n) # {}}
  <1>0. /\ DOMAIN entries = 1..Len(entries) /\ Len(entries) \in Nat
    OBVIOUS
  <1>1. \A n \in 1..Len(entries) : entries[n].form = "object"
    BY <1>0 DEF Unparsed
  <1>2. CASE ByHeader(hdr, entries, pins, verdict)
    <2>1. PICK k \in DOMAIN HeaderOrder :
            HeaderFails(hdr, entries, pins, k) /\ verdict = Fail(0, None, HeaderOrder[k], hdr.key_id)
      BY <1>2 DEF ByHeader
    <2> QED
      BY <2>1, SameRefusal
  <1>3. CASE ByEntry(hdr, entries, pins, verdict)
    <2>1. PICK n \in 1..Len(entries), k \in DOMAIN EntryOrder :
             /\ \A m \in 1..(n - 1) : Sound(hdr, entries, m)
             /\ EntryFails(hdr, entries, n, k) /\ EntryOrder[k] # "canonical"
             /\ verdict = Fail(n - 1, n - 1, EntryOrder[k], hdr.key_id)
      BY <1>3 DEF ByEntry
    <2>2. EntryFailures(hdr, hdr.spki_der, entries, n) = {verdict}
      BY <1>1, <2>1, SameFailure
    <2>3. PICK m \in 1..Len(entries) :
             /\ m <= n /\ EntryFailures(hdr, hdr.spki_der, entries, m) # {}
             /\ Least(failing) = m /\ failing # {}
      BY <2>2, PortOfEntries
    <2>4. m = n
      <3> SUFFICES ASSUME m # n
                   PROVE  FALSE
        OBVIOUS
      <3>1. m \in 1..(n - 1)
        BY <2>3
      <3>2. EntryFailures(hdr, hdr.spki_der, entries, m) = {}
        BY <1>1, <2>1, <3>1, SamePass
      <3> QED
        BY <2>3, <3>2
    <2>5. verifyChain(hdr, hdr.spki_der, entries, pins)
          = EntryFailures(hdr, hdr.spki_der, entries, Least(failing))
      BY <1>3, <2>3, PortOfLoop DEF ByEntry
    <2> QED
      BY <2>2, <2>3, <2>4, <2>5
  <1>4. CASE ByNothing(hdr, entries, pins, verdict)
    <2>1. failing = {}
      BY <1>0, <1>1, <1>4, SamePass DEF ByNothing
    <2> QED
      BY <1>4, <2>1, PortOfLoop DEF ByNothing
  <1> QED
    BY <1>2, <1>3, <1>4 DEF Reported

\* An answer of the port that accepts: the header and every entry have passed.
LEMMA PortAccepts ==
  ASSUME NEW hdr, NEW pub, NEW entries \in Seq(Envelope), NEW pins,
         NEW port \in verifyChain(hdr, pub, entries, pins), port # Raised, port.ok
  PROVE  /\ AllHold(TsHeaderOrder, TsHeaderHolds(hdr, pub, entries, pins))
         /\ \A n \in 1..Len(entries) : EntryFailures(hdr, pub, entries, n) = {}
         /\ port = Valid(Len(entries), hdr.key_id, EndsSession(entries))
  <1> DEFINE holds == TsHeaderHolds(hdr, pub, entries, pins)
             failing == {n \in DOMAIN entries : EntryFailures(hdr, pub, entries, n) # {}}
  <1>1. \A r : ~Fail(0, None, r, hdr.key_id).ok
    BY DEF Fail
  <1>2. AllHold(TsHeaderOrder, holds)
    <2> SUFFICES ASSUME ~AllHold(TsHeaderOrder, holds)
                 PROVE  FALSE
      OBVIOUS
    <2>1. \E r : port = Fail(0, None, r, hdr.key_id)
      BY DEF verifyChain
    <2> QED
      BY <1>1, <2>1
  <1>3. port \in IF failing # {} THEN EntryFailures(hdr, pub, entries, Least(failing))
                 ELSE {Valid(Len(entries), hdr.key_id, EndsSession(entries))}
    BY <1>2 DEF verifyChain
  <1>4. failing = {}
    <2> SUFFICES ASSUME failing # {}
                 PROVE  FALSE
      OBVIOUS
    <2>1. port \in EntryFailures(hdr, pub, entries, Least(failing))
      BY <1>3
    <2> QED
      BY <2>1, FailuresRefuse
  <1>5. \A n \in 1..Len(entries) : n \in DOMAIN entries
    OBVIOUS
  <1> QED
    BY <1>2, <1>3, <1>4, <1>5

\* An answer of verifyLog that accepts is one of verifyChain.
LEMMA AcceptsByChain ==
  ASSUME NEW log, log # None, NEW pins, NEW port \in verifyLog(log, pins), port # Raised, port.ok
  PROVE  /\ log.header.form = "object"
         /\ \E pub \in LoadsAs(log.header.spki_der) :
               port \in verifyChain(log.header, pub, log.entries, pins)
  <1>1. \A c, x, r, k : ~Fail(c, x, r, k).ok
    BY DEF Fail
  <1>2. \/ \E c, x, r, k : port = Fail(c, x, r, k)
        \/ /\ log.header.form = "object"
           /\ port \in UNION {verifyChain(log.header, pub, log.entries, pins) :
                                 pub \in LoadsAs(log.header.spki_der)}
    BY DEF verifyLog, TsHeaderRefused
  <1> QED
    BY <1>1, <1>2

\* A line that is no envelope makes the port refuse, as it makes the reference.
LEMMA NoEnvelopeRefused ==
  ASSUME NEW log \in LogFile, NEW pins, Unparsed(log.entries) # {},
         NEW port \in verifyLog(log, pins)
  PROVE  port = Raised \/ ~port.ok
  <1> SUFFICES ASSUME port # Raised, port.ok
               PROVE  FALSE
    OBVIOUS
  <1>1. log # None
    BY AbsenceAssumption
  <1>2. PICK pub : port \in verifyChain(log.header, pub, log.entries, pins)
    BY <1>1, AcceptsByChain
  <1>3. log.entries \in Seq(Envelope)
    BY DEF LogFile
  <1>4. \A n \in 1..Len(log.entries) : EntryFailures(log.header, pub, log.entries, n) = {}
    BY <1>2, <1>3, PortAccepts
  <1>5. PICK n \in 1..Len(log.entries) : log.entries[n].form # "object"
    BY <1>3 DEF Unparsed
  <1>6. EntryFailures(log.header, pub, log.entries, n) # {}
    BY <1>5 DEF EntryFailures, Misshapen
  <1> QED
    BY <1>4, <1>6

\* And the reference accepts none of the logs with such a line.
LEMMA NoEnvelopeAccepted ==
  ASSUME NEW log \in LogFile, NEW pins, log.header.form = "object", Unparsed(log.entries) # {},
         NEW verdict \in Outcomes(log, pins), verdict # Raised
  PROVE  ~verdict.ok
  <1> DEFINE n == Least(Unparsed(log.entries))
  <1>1. log # None /\ log.medium \in {"text", "undecodable"}
    BY AbsenceAssumption DEF LogFile, Media
  <1>2. log.medium = "text"
    BY <1>1 DEF Outcomes
  <1>3. Outcomes(log, pins) = IF log.entries[n].form = "malformed"
                              THEN {Fail(n - 1, n - 1, "malformed entry", log.header.key_id)}
                              ELSE {Raised}
    BY <1>1, <1>2 DEF Outcomes
  <1>4. verdict = Fail(n - 1, n - 1, "malformed entry", log.header.key_id)
    BY <1>3
  <1> QED
    BY <1>4 DEF Fail

-----------------------------------------------------------------------------
\* What was read is what is on disk, with the lines as Python cuts them.
SeesFile == pc # "read" => lines = (IF file = None THEN None ELSE AsRead(file))

LEMMA SeesFileKeeps ==
  ASSUME IInv, Deciding, SeesFile, [Next]_vars
  PROVE  SeesFile'
  <1>1. CASE UNCHANGED vars
    BY <1>1 DEF vars, SeesFile
  <1>2. CASE World
    <2>1. UNCHANGED <<pc, lines>>
      BY <1>2 DEF World, verifyVars
    <2>2. pc = "read" \/ UNCHANGED file
      BY <1>2 DEF World, Commit
    <2> QED
      BY <2>1, <2>2 DEF SeesFile
  <1>3. CASE ReadLog
    <2>1. pc = "read" /\ lines = None
      BY <1>3 DEF ReadLog, Deciding
    <2> QED
      BY <1>3, <2>1 DEF ReadLog, Return, logVars, SeesFile
  <1>4. CASE ParseHeader \/ ParseEntry \/ ParseDone \/ CheckHeader \/ CheckEntry \/ Accept
    <2>1. pc # "read" /\ UNCHANGED <<file, lines>>
      BY <1>4 DEF ParseHeader, ParseEntry, ParseDone, CheckHeader, CheckEntry, Accept, Return,
         Raise, Goto, logVars
    <2> QED
      BY <2>1 DEF SeesFile
  <1> QED
    BY <1>1, <1>2, <1>3, <1>4 DEF Next, VerifyStep

\* A log both were written for is read by both as it is on disk.
LEMMA ConformantAsRead ==
  ASSUME NEW log \in LogFile, Conformant(log)
  PROVE  AsRead(log) = log
  <1>1. /\ log.entries = [n \in 1..Len(log.entries) |-> log.entries[n]]
        /\ log = [medium |-> log.medium, header |-> log.header, entries |-> log.entries]
        /\ DOMAIN log.entries = 1..Len(log.entries)
        /\ \A n \in 1..Len(log.entries) : log.entries[n] \in Envelope
    BY DEF LogFile
  <1>2. ASSUME NEW n \in 1..Len(log.entries)
        PROVE  [log.entries[n] EXCEPT !.form = FormAsRead(log.entries[n])] = log.entries[n]
    <2>1. FormAsRead(log.entries[n]) = log.entries[n].form
      BY <1>1 DEF Conformant, FormAsRead
    <2> QED
      BY <1>1, <2>1 DEF Envelope
  <1>3. [n \in 1..Len(log.entries) |->
            [log.entries[n] EXCEPT !.form = FormAsRead(log.entries[n])]] = log.entries
    BY <1>1, <1>2
  <1>4. AsRead(log) = [log EXCEPT !.entries = log.entries]
    BY <1>3 DEF AsRead
  <1> QED
    BY <1>1, <1>4

\* Without a header the two refuse alike.
LEMMA HeaderlessAgree ==
  ASSUME NEW log \in LogFile, NEW pins, log.header.form # "object",
         NEW verdict \in Outcomes(log, pins), verdict # Raised,
         NEW port \in verifyLog(log, pins)
  PROVE  ~verdict.ok /\ ~port.ok /\ (Unparsed(log.entries) = {} => port = verdict)
  <1> DEFINE form == log.header.form
  <1>1. log # None /\ log.medium \in {"text", "undecodable"}
        /\ form \in {"malformed", "nonobject", "absent"}
    BY AbsenceAssumption DEF LogFile, Media, Header, LineForms
  <1>2. log.medium = "text"
    BY <1>1 DEF Outcomes
  <1>3. \/ form = "absent" /\ verdict = Fail(0, None, "empty log", None)
        \/ form = "malformed" /\ verdict = Fail(0, None, "bad chain header", None)
    BY <1>1, <1>2 DEF Outcomes
  <1>4. verifyLog(log, pins) =
          TsHeaderRefused(form)
          \cup {Fail(n - 1, n - 1, "malformed entry", None) : n \in NotJson(log.entries)}
    BY <1>1 DEF verifyLog
  <1>5. TsHeaderRefused(form) = {verdict}
    BY <1>3 DEF TsHeaderRefused
  <1>6. \A c, x, r : ~Fail(c, x, r, None).ok
    BY DEF Fail
  <1>7. Unparsed(log.entries) = {} => NotJson(log.entries) = {}
    BY DEF Unparsed, NotJson
  <1> HIDE DEF form
  <1> QED
    BY <1>3, <1>4, <1>5, <1>6, <1>7

\* The port and the reference agree on a conformant log the reference has an
\* answer for.
LEMMA Agreement ==
  ASSUME IInv, Answered, FirstReported, SeesFile
  PROVE  PortsAgree
  <1> SUFFICES ASSUME result # None, file # None => Conformant(file),
                      NEW port \in verifyLog(file, trust)
               PROVE  /\ Accepted <=> port # Raised /\ port.ok
                      /\ file = None \/ Unparsed(file.entries) = {} => port = result
    BY DEF PortsAgree
  <1>1. /\ pc = "done" /\ result \in VerifyResult /\ result \in Outcomes(lines, trust)
    <2>1. pc = "done" /\ result \in VerifyResult
      BY DEF IInv, VerifyTypeOK
    <2>2. result \in Outcomes(lines, trust)
      BY <2>1 DEF Answered, Finished, Answer
    <2> QED
      BY <2>1, <2>2
  <1>2. Accepted <=> result.ok
    BY DEF Accepted
  <1>3. result # Raised
    <2>1. "ok" \in DOMAIN result /\ "ok" \notin DOMAIN Raised
      BY <1>1 DEF VerifyResult, Raised
    <2> QED
      BY <2>1
  <1>4. CASE file = None
    <2>1. lines = None
      BY <1>1, <1>4 DEF SeesFile
    <2>2. result = Fail(0, None, "cannot read log", None)
      BY <1>1, <2>1 DEF Outcomes
    <2>3. port = result
      BY <1>4, <2>2 DEF verifyLog
    <2> QED
      BY <1>2, <1>3, <2>3
  <1>5. CASE file # None
    <2>1. file \in LogFile /\ file.entries \in Seq(Envelope)
      BY <1>5 DEF IInv, WorldOK, GenuineFiles, LogFile
    <2>2. lines = file
      BY <1>1, <1>5, <2>1, ConformantAsRead DEF SeesFile
    <2>3. CASE file.header.form # "object"
      <3>1. ~result.ok /\ ~port.ok /\ (Unparsed(file.entries) = {} => port = result)
        BY <1>1, <1>3, <2>1, <2>2, <2>3, HeaderlessAgree
      <3> QED
        BY <1>2, <1>5, <3>1
    <2>4. CASE file.header.form = "object" /\ Unparsed(file.entries) # {}
      <3>1. ~result.ok
        BY <1>1, <1>3, <2>1, <2>2, <2>4, NoEnvelopeAccepted
      <3>2. port = Raised \/ ~port.ok
        BY <2>1, <2>4, NoEnvelopeRefused
      <3> QED
        BY <1>2, <1>5, <2>4, <3>1, <3>2
    <2>5. CASE file.header.form = "object" /\ Unparsed(file.entries) = {}
      <3> DEFINE hdr == file.header
                 entries == file.entries
      <3>1. hdr.spki_der \in Keys
        BY <1>5 DEF Conformant
      <3>2. LoadsAs(hdr.spki_der) = {hdr.spki_der}
        BY <3>1, DersAssumption DEF LoadsAs
      <3>3. NotJson(entries) = {}
        BY <2>5 DEF NotJson, Unparsed
      <3>4. port \in verifyChain(hdr, hdr.spki_der, entries, trust)
        BY <1>5, <2>5, <3>2, <3>3 DEF verifyLog, TsHeaderRefused
      <3>5. Reported(hdr, entries, trust, result)
        BY <1>1, <1>5, <2>2, <2>5 DEF FirstReported
      <3>6. verifyChain(hdr, hdr.spki_der, entries, trust) = {result}
        <4> HIDE DEF hdr, entries
        <4>1. entries \in Seq(Envelope) /\ Unparsed(entries) = {}
          BY <2>1, <2>5 DEF entries
        <4> QED
          BY <3>1, <3>5, <4>1, PortAnswersSame
      <3>7. port = result
        BY <3>4, <3>6
      <3> QED
        BY <1>2, <1>3, <3>7
    <2> QED
      BY <2>3, <2>4, <2>5
  <1> QED
    BY <1>4, <1>5

(***************************************************************************)
(* "Same accepts, same rejects", of the logs it is true of: for every      *)
(* world and every pair of pins, the port answers for a log under an EC    *)
(* key, with the values of the contract and its texts read alike, what the *)
(* reference answers: it stops where that stops, for the reason it gives   *)
(* (ts/src/verify.ts, verifyLog and verifyChain; verify.py, verify_chain). *)
(* Of other logs it is not true (PortRejects).                             *)
(***************************************************************************)
THEOREM PortsAreOne == Spec => []PortsAgree
  <1>1. VerifyInit => Answered /\ FirstReported /\ SeesFile
    BY DEF VerifyInit, Answered, Finished, FirstReported, SeesFile
  <1>2. /\ IInv /\ IInv' /\ Deciding /\ Answered /\ FirstReported /\ SeesFile /\ [Next]_vars
        => Deciding' /\ Answered' /\ FirstReported' /\ SeesFile'
    BY DecidingKeeps, AnsweredKeeps, FirstReportedKeeps, SeesFileKeeps
  <1>3. IInv /\ Answered /\ FirstReported /\ SeesFile => PortsAgree
    BY Agreement
  <1> QED
    BY <1>1, <1>2, <1>3, StartsUndecided, Invariance, PTL DEF Spec

-----------------------------------------------------------------------------
(***************************************************************************)
(* The port on its own.  However it reads a log, no signature under the    *)
(* signer's key is there that the signer has not made.                     *)
(***************************************************************************)
LEMMA LineReadingsTyped ==
  ASSUME NEW e \in GenuineEnvelope, NEW read \in LineReadings(e)
  PROVE  read \in GenuineEnvelope
  <1>1. e \in Envelope /\ e.signature \in Signature /\ e.form \in LineForms /\ Genuine(e)
    BY DEF GenuineEnvelope, Envelope
  <1>2. PICK form \in FormReadings(e.form), sig \in SignatureReadings(e) :
           read = LineAs(e, form, sig)
    BY DEF LineReadings
  <1>3. form \in LineForms
    BY <1>1, <1>2 DEF FormReadings, LineForms
  <1>4. /\ sig \in Signature
        /\ sig.key = SignerKey /\ sig.over.tag = DOMAIN_TAG => Vouched(sig.over.entry_hash)
    <2>1. CASE sig = e.signature
      BY <1>1, <2>1 DEF Genuine
    <2>2. CASE sig = [e.signature EXCEPT !.key = None]
      <3>1. sig.key = None /\ sig \in Signature
        BY <1>1, <2>2 DEF Signature
      <3>2. SignerKey # None
        BY SignerAssumption, NoneAssumption
      <3> QED
        BY <3>1, <3>2
    <2>3. CASE sig \in SignaturesMade(e)
      <3>1. /\ sig \in [key: SigningKeys, over: {signed_digest(entry_hash(e.record))}]
            /\ Genuine([e EXCEPT !.signature = sig])
        BY <2>3 DEF SignaturesMade
      <3>2. entry_hash(e.record) \in Hash
        BY <1>1, EntryHashTyped DEF Envelope
      <3>3. signed_digest(entry_hash(e.record)) \in Digest
        BY <3>2 DEF signed_digest, Digest, DomainTags
      <3>4. sig \in Signature
        BY <3>1, <3>3 DEF Signature
      <3>5. [e EXCEPT !.signature = sig].signature = sig
        BY <1>1 DEF Envelope
      <3> QED
        BY <3>1, <3>4, <3>5 DEF Genuine
    <2> QED
      BY <1>2, <2>1, <2>2, <2>3 DEF SignatureReadings
  <1>5. read \in Envelope /\ read.signature = sig
    BY <1>1, <1>2, <1>3, <1>4 DEF LineAs, Envelope
  <1> QED
    BY <1>4, <1>5 DEF GenuineEnvelope, Genuine

LEMMA ReadingsTyped ==
  ASSUME NEW log \in GenuineFiles, NEW asRead \in TsReadings(log)
  PROVE  asRead \in LogFile /\ asRead.entries \in Seq(GenuineEnvelope)
  <1>1. /\ log.entries \in Seq(GenuineEnvelope) /\ log.header \in Header
    BY DEF GenuineFiles, LogFile
  <1>2. PICK hdr \in HeaderReadings(log.header), es \in EntriesReadings(log.entries) :
           asRead = [medium |-> "text", header |-> hdr, entries |-> es]
    BY DEF TsReadings
  <1>3. hdr \in Header
    <2>1. PICK form \in FormReadings(log.header.form), der \in KeyReadings(log.header.spki_der) :
             hdr = HeaderAs(log.header, form, der)
      BY <1>2 DEF HeaderReadings
    <2>2. form \in LineForms \cup {"absent"} /\ der \in Ders
      BY <1>1, <2>1 DEF FormReadings, KeyReadings, Header, LineForms, Ders
    <2> QED
      BY <1>1, <2>1, <2>2 DEF HeaderAs, Header
  <1>4. /\ DOMAIN log.entries = 1..Len(log.entries) /\ Len(log.entries) \in Nat
        /\ \A n \in 1..Len(log.entries) : log.entries[n] \in GenuineEnvelope
    BY <1>1
  <1>5. /\ DOMAIN es = 1..Len(log.entries)
        /\ es = [n \in DOMAIN es |-> es[n]]
        /\ \A n \in DOMAIN log.entries : es[n] \in LineReadings(log.entries[n])
    BY <1>2, <1>4 DEF EntriesReadings
  <1>6. \A n \in 1..Len(log.entries) : es[n] \in GenuineEnvelope
    BY <1>4, <1>5, LineReadingsTyped
  <1>7. es \in Seq(GenuineEnvelope)
    BY <1>4, <1>5, <1>6, SeqDef
  <1>8. es \in Seq(Envelope)
    BY <1>7 DEF GenuineEnvelope
  <1> QED
    BY <1>2, <1>3, <1>7, <1>8 DEF LogFile, Media

\* The entry that passes the port's loop under the header's key violates nothing.
LEMMA PortPassed ==
  ASSUME NEW hdr, NEW entries, NEW n,
         EntryFailures(hdr, hdr.spki_der, entries, n) = {}
  PROVE  entries[n].form = "object" /\ Unviolated(hdr, entries, n)
  <1> DEFINE ts == TsHolds(hdr, hdr.spki_der, entries, n)
  <1>1. entries[n].form = "object"
    BY DEF EntryFailures, Misshapen
  <1>2. EntryFailures(hdr, hdr.spki_der, entries, n)
        = {Fail(n - 1, n - 1, TsReason(TsOrder[m]), hdr.key_id) :
              m \in {l \in DOMAIN TsOrder : FirstFailure(TsOrder, ts, l)}}
    BY <1>1 DEF EntryFailures
  <1>3. ~\E k \in DOMAIN TsOrder : FirstFailure(TsOrder, ts, k)
    BY <1>2
  <1> HIDE DEF ts
  <1>4. AllHold(TsOrder, ts)
    BY <1>3, TsOrderIs, FirstExists
  <1>5. 1 \in 1..7 /\ 2 \in 1..7 /\ 3 \in 1..7 /\ 4 \in 1..7 /\ 5 \in 1..7 /\ 6 \in 1..7
        /\ 7 \in 1..7
    OBVIOUS
  <1>6. \A k \in 1..7 : ts[TsOrder[k]]
    BY <1>4, TsOrderIs DEF AllHold
  <1>7. /\ ts["sequence"] /\ ts["prev_entry_hash"] /\ ts["entry_hash"] /\ ts["fingerprint"]
        /\ ts["key_id"] /\ ts["session_id"] /\ ts["signature"]
    BY <1>5, <1>6, TsOrderIs
  <1>8. /\ entries[n].record.sequence = n - 1
        /\ entries[n].record.prev_entry_hash = LinkBefore(entries, n)
        /\ entries[n].entry_hash = entry_hash(entries[n].record)
        /\ entries[n].public_key.spki_sha256 = hdr.spki_sha256
        /\ entries[n].public_key.key_id = hdr.key_id
        /\ entries[n].record.signer_key_id = hdr.key_id
        /\ entries[n].record.session_id = hdr.session_id
        /\ entries[n].signature.key = hdr.spki_der
        /\ entries[n].signature.over = signed_digest(entry_hash(entries[n].record))
    BY <1>7 DEF ts, TsHolds, SignatureVerifies
  <1> QED
    BY <1>1, <1>8, NothingViolated

\* What it accepts under the signer's pinned fingerprint ends with a signature
\* of the signer's, which covers the whole history.
LEMMA PortPrefix ==
  ASSUME WorldOK, Pinned, NEW log, NEW port \in verifyLog(log, trust),
         log # None, log.entries \in Seq(GenuineEnvelope), port # Raised, port.ok
  PROVE  LET bodies == Bodies(log.entries)
             signed == committed[log.header.session_id]
         IN  IsPrefix(bodies, signed) /\ (port.ended => bodies = signed)
  <1> DEFINE hdr == log.header
             entries == log.entries
             bodies == Bodies(entries)
             N == Len(entries)
             whole == committed[hdr.session_id]
  <1>1. PICK pub \in LoadsAs(hdr.spki_der) : port \in verifyChain(hdr, pub, entries, trust)
    BY AcceptsByChain
  <1>2. entries \in Seq(Envelope) /\ N \in Nat
    BY DEF GenuineEnvelope
  <1>3. /\ AllHold(TsHeaderOrder, TsHeaderHolds(hdr, pub, entries, trust))
        /\ \A n \in 1..N : EntryFailures(hdr, pub, entries, n) = {}
        /\ port = Valid(N, hdr.key_id, EndsSession(entries))
    <2> HIDE DEF hdr, entries
    <2> QED
      BY <1>1, <1>2, PortAccepts
  <1>4. /\ trust.trusted_spki_sha256 \in {None, hdr.spki_sha256}
        /\ spki_fingerprint(hdr.spki_der) = hdr.spki_sha256
        /\ entries # <<>>
    BY <1>3, TsHeaderPasses
  <1>5. hdr.spki_der = SignerKey /\ pub = SignerKey
    <2>1. spki_fingerprint(hdr.spki_der) = spki_fingerprint(SignerKey)
      BY <1>4, PinIsAFingerprint DEF Pinned
    <2>2. hdr.spki_der = SignerKey
      BY <2>1 DEF spki_fingerprint
    <2>3. SignerKey \notin BadDers
      BY SignerAssumption, DersAssumption
    <2> QED
      BY <1>1, <2>2, <2>3 DEF LoadsAs
  <1>6. \A n \in 1..N : entries[n].form = "object" /\ Unviolated(hdr, entries, n)
    BY <1>3, <1>5, PortPassed
  <1>7. \A n \in 1..N :
           /\ entries[n] = EnvelopeOf(bodies, n, hdr.spki_der, hdr.key_id,
                                      spki_fingerprint(hdr.spki_der))
           /\ entry_hash(entries[n].record) = SubSeq(bodies, 1, n)
    <2> HIDE DEF hdr, entries
    <2> QED
      BY <1>2, <1>4, <1>6, SoundChain
  <1>8. /\ bodies \in Seq(Body) /\ Len(bodies) = N
        /\ \A n \in 1..N : bodies[n] = BodyOf(entries[n].record)
    BY <1>2, BodiesTyped
  <1>9. N >= 1 /\ N \in 1..N /\ 1 \in 1..N
    BY <1>2, <1>4
  <1>10. entries[N].signature = SignedBy(SignerKey, SubSeq(bodies, 1, N))
    <2>1. entries[N] = EnvelopeOf(bodies, N, hdr.spki_der, hdr.key_id,
                                  spki_fingerprint(hdr.spki_der))
      BY <1>7, <1>9
    <2> HIDE DEF entries, bodies, N
    <2> QED
      BY <1>5, <2>1 DEF EnvelopeOf
  <1>11. SubSeq(bodies, 1, N) = bodies
    BY <1>8, SubSeqFull
  <1>12. Genuine(entries[N])
    <2>1. entries[N] \in GenuineEnvelope
      BY <1>9
    <2> QED
      BY <2>1 DEF GenuineEnvelope
  <1>13. PICK s \in Sessions : IsPrefix(bodies, committed[s])
    <2>1. /\ entries[N].signature.key = SignerKey
          /\ entries[N].signature.over.tag = DOMAIN_TAG
          /\ entries[N].signature.over.entry_hash = bodies
      <3>1. \A hash : /\ SignedBy(SignerKey, hash).key = SignerKey
                      /\ SignedBy(SignerKey, hash).over.tag = DOMAIN_TAG
                      /\ SignedBy(SignerKey, hash).over.entry_hash = hash
        BY DEF SignedBy, signed_digest
      <3> HIDE DEF entries, bodies, N
      <3>2. entries[N].signature = SignedBy(SignerKey, bodies)
        BY <1>10, <1>11
      <3> QED
        BY <3>1, <3>2
    <2>2. Vouched(bodies)
      BY <1>12, <2>1 DEF Genuine
    <2> QED
      BY <2>2 DEF Vouched
  <1>14. s = hdr.session_id
    <2>1. committed[s] \in Seq(Body)
      BY DEF WorldOK
    <2>2. bodies[1] = committed[s][1] /\ 1 \in 1..Len(committed[s])
      BY <1>8, <1>9, <1>13, <2>1, PrefixElements
    <2>3. committed[s][1].session_id = s
      BY <2>1, <2>2 DEF WorldOK, CommittedOK, InOrder
    <2>4. entries[1].record.session_id = hdr.session_id
      BY <1>6, <1>9, NothingViolated
    <2>5. bodies[1].session_id = entries[1].record.session_id
      BY <1>8, <1>9, BodyFields
    <2> QED
      BY <2>2, <2>3, <2>4, <2>5
  <1>15. whole \in Seq(Body) /\ IsPrefix(bodies, whole)
    BY <1>13, <1>14 DEF WorldOK
  <1>16. ASSUME port.ended
         PROVE  bodies = whole
    <2>1. entries[N].record.event_type = "session_end"
      BY <1>3, <1>16 DEF Valid, EndsSession
    <2>2. bodies[N].event_type = "session_end"
      BY <1>8, <1>9, <2>1, BodyFields
    <2>3. whole[N] = bodies[N] /\ N \in 1..Len(whole)
      BY <1>8, <1>9, <1>15, PrefixElements
    <2>4. N = Len(whole)
      BY <1>13, <1>14, <1>15, <2>2, <2>3 DEF WorldOK, CommittedOK
    <2> QED
      BY <1>8, <1>15, <2>4, PrefixElements, SeqEqual
  <1> QED
    BY <1>15, <1>16

(***************************************************************************)
(* Pinned to the signer, the port is sound on every log there is, whatever *)
(* it makes of its texts, of values out of contract and of keys of another *)
(* kind: what it accepts is a prefix of what the signer committed for that *)
(* session, and all of it when it says the session ended (verifyChain,     *)
(* opts.trustedSpkiSha256).                                                *)
(***************************************************************************)
THEOREM PortIsSound == Spec => []PortSound
  <1>1. ASSUME IInv, Pinned, file # None, NEW asRead \in TsReadings(file),
               NEW port \in verifyLog(asRead, trust), port # Raised, port.ok
        PROVE  LET bodies == Bodies(asRead.entries)
                   signed == committed[asRead.header.session_id]
               IN  IsPrefix(bodies, signed) /\ (port.ended => bodies = signed)
    <2>1. WorldOK /\ file \in GenuineFiles
      BY <1>1 DEF IInv, WorldOK
    <2>2. asRead \in LogFile /\ asRead.entries \in Seq(GenuineEnvelope)
      BY <1>1, <2>1, ReadingsTyped
    <2>3. asRead # None
      BY <2>2, AbsenceAssumption
    <2> QED
      BY <1>1, <2>1, <2>2, <2>3, PortPrefix
  <1>2. IInv => PortSound
    BY <1>1 DEF PortSound
  <1> QED
    BY <1>2, Invariance, PTL

=============================================================================
