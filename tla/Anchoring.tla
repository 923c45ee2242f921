----------------------------- MODULE Anchoring -----------------------------
(***************************************************************************)
(* make_anchor and check_anchor (anchor.py) over a log that is live: its   *)
(* writer appends to it, line by line and not atomically, and whoever      *)
(* holds the disk or the key may replace it, between two calls or between  *)
(* two of the four times one call reads the file.                          *)
(***************************************************************************)
EXTENDS AnchorCheck

CONSTANTS
    WriterKey,    \* the key the log is written under
    WriterLabel,  \* the key_id it carries
    MaxLen,       \* bound: entries of a log
    MaxChanges    \* bound: appends and changes of the file

ASSUME WriterAssumption == WriterKey \in Keys /\ WriterLabel \in Labels

ASSUME BoundsAssumption == MaxLen \in Nat \ {0} /\ MaxChanges \in Nat

VARIABLES
    file,      \* the log on disk, None while there is none
    version,   \* the contract version its header names
    changes,   \* how often it has changed
    token,     \* the anchor that was published, None before
    anchored,  \* the entries make_anchor had loaded when it made it
    made,      \* what befell the file while that call ran
    since,     \* what befell it since
    pc,        \* "idle", or the read the running call makes next
    call,      \* "make" or "check"
    given,     \* the anchor check_anchor was given
    verdict,   \* what verify_log_any answered this call
    chain,     \* what load_chain returned to it
    outcome,   \* how the last call ended
    answer,    \* the AnchorResult, when it ended with one
    during     \* what has befallen the file since this call began

diskVars == <<file, version, changes>>
tokenVars == <<token, anchored, made>>
callVars == <<pc, call, given, verdict, chain, outcome, answer>>
vars == <<diskVars, tokenVars, callVars, since, during>>

-----------------------------------------------------------------------------
(***************************************************************************)
(* The disk.                                                               *)
(***************************************************************************)
Event(s, n, p) ==
    [session_id |-> s, sequence |-> n, signer_key_id |-> WriterLabel, payload |-> p,
     event_type |-> IF n = 0 THEN "session_start" ELSE "pre_tool_use"]

Written(s, bodies, key) == ChainFile(s, bodies, key, WriterLabel, spki_fingerprint(key))

Befalls(fate, newFile, newVersion) ==
    /\ changes < MaxChanges
    /\ <<newFile, newVersion>> # <<file, version>>
    /\ file' = newFile
    /\ version' = newVersion
    /\ changes' = changes + 1
    /\ since' = Worse(since, fate)
    /\ during' = Worse(during, fate)
    /\ UNCHANGED <<tokenVars, callVars>>

Torn == file # None /\ file.entries # <<>> /\ Last(file.entries).form = "malformed"

Whole == file # None /\ file.header.form = "object" /\ ~Torn

(***************************************************************************)
(* The writer is in the middle of appending the line of its next entry,    *)
(* and then done.                                                          *)
(***************************************************************************)
StartAppend(p) ==
    /\ Whole
    /\ Len(file.entries) \in 1..(MaxLen - 1)
    /\ LET hdr    == file.header
           bodies == Append(Bodies(file.entries),
                            Event(hdr.session_id, Len(file.entries), p))
           line   == EnvelopeOf(bodies, Len(bodies), hdr.spki_der, hdr.key_id, hdr.spki_sha256)
       IN  Befalls("appended",
                   [file EXCEPT !.entries = Append(@, [line EXCEPT !.form = "malformed"])],
                   version)

FinishAppend ==
    /\ Torn
    /\ file' = [file EXCEPT !.entries[Len(file.entries)].form = "object"]
    /\ since' = Worse(since, "appended")
    /\ during' = Worse(during, "appended")
    /\ UNCHANGED <<version, changes, tokenVars, callVars>>

(***************************************************************************)
(* The key's holder writes another history, the same one under another     *)
(* key, or the same one for another session.                               *)
(***************************************************************************)
RewriteHistory(n, p) ==
    /\ Whole
    /\ n \in DOMAIN file.entries
    /\ Befalls("changed",
               Written(file.header.session_id,
                       [Bodies(file.entries) EXCEPT ![n].payload = p],
                       file.header.spki_der),
               version)

Rekey(key) ==
    Whole /\ Befalls("changed",
                     Written(file.header.session_id, Bodies(file.entries), key), version)

Resession(s) ==
    Whole /\ Befalls("changed",
                     Written(s, [n \in DOMAIN file.entries |->
                                    [Bodies(file.entries)[n] EXCEPT !.session_id = s]],
                             file.header.spki_der), version)

(***************************************************************************)
(* The file is cut at a line boundary; a stored entry_hash is overwritten, *)
(* perhaps with the one that was anchored; the file is emptied, removed,   *)
(* or replaced by a log of a later contract.                               *)
(***************************************************************************)
Cut(n) ==
    /\ Whole
    /\ n \in DOMAIN file.entries
    /\ Befalls("changed", [file EXCEPT !.entries = SubSeq(@, 1, n - 1)], version)

Restamp(n) ==
    /\ Whole
    /\ n \in DOMAIN file.entries
    /\ \E h \in {NoHash} \cup (IF token = None THEN {} ELSE {token.head_entry_hash}) :
           Befalls("changed", [file EXCEPT !.entries[n].entry_hash = h], version)

Empty ==
    Whole /\ Befalls("changed", [file EXCEPT !.header.form = "absent", !.entries = <<>>], version)

Unlink == Whole /\ Befalls("changed", None, version)

Upgrade == Whole /\ Befalls("changed", file, "later")

Disk ==
    \/ \E p \in Payloads : StartAppend(p)
    \/ FinishAppend
    \/ \E n \in 1..MaxLen, p \in Payloads : RewriteHistory(n, p)
    \/ \E key \in Keys : Rekey(key)
    \/ \E s \in Sessions : Resession(s)
    \/ \E n \in 1..MaxLen : Cut(n) \/ Restamp(n)
    \/ Empty
    \/ Unlink
    \/ Upgrade

-----------------------------------------------------------------------------
(***************************************************************************)
(* The calls.                                                              *)
(***************************************************************************)
End(how, result) ==
    /\ pc' = "idle"
    /\ outcome' = how
    /\ answer' = result

Advance(label) == pc' = label /\ UNCHANGED <<outcome, answer>>

Begin(name, anchor) ==
    /\ pc = "idle"
    /\ call' = name
    /\ given' = anchor
    /\ verdict' = None /\ chain' = None
    /\ during' = "still"
    /\ UNCHANGED <<diskVars, tokenVars, since>>

BeginMake ==
    /\ token = None
    /\ Begin("make", None)
    /\ pc' = "detect" /\ outcome' = "none" /\ answer' = None

(***************************************************************************)
(* What is not an anchor is answered before the log is read.               *)
(***************************************************************************)
BeginCheck(anchor) ==
    /\ Begin("check", anchor)
    /\ IF anchor.type = ANCHOR_TYPE
       THEN pc' = "detect" /\ outcome' = "none" /\ answer' = None
       ELSE End("answered", AnchorResult(FALSE, "not an anchor", 0, 0))

Quiet == UNCHANGED <<diskVars, since, during, call, given>>

(***************************************************************************)
(* verify_log_any and load_chain each begin by detecting the version.      *)
(***************************************************************************)
Detect(from, next) ==
    /\ pc = from
    /\ \E v \in DetectVersion(file, version) :
          IF v = VERSION_V0 THEN Advance(next) ELSE End("raised", None)
    /\ UNCHANGED <<verdict, chain, tokenVars>>
    /\ Quiet

(***************************************************************************)
(* Mutant: make_anchor goes on whatever verify_log_any answers.            *)
(***************************************************************************)
VerifyInVain ==
    /\ pc = "verify"
    /\ \E r \in Outcomes(file, Unpinned) :
          \/ r = Raised /\ End("raised", None) /\ UNCHANGED verdict
          \/ r # Raised /\ verdict' = r /\ Advance("redetect")
    /\ UNCHANGED <<chain, tokenVars>>
    /\ Quiet

Verify ==
    /\ pc = "verify"
    /\ \E r \in Outcomes(file, Unpinned) :
          \/ r = Raised /\ End("raised", None) /\ UNCHANGED verdict
          \/ /\ r # Raised
             /\ verdict' = r
             /\ IF call = "make" /\ ~r.ok THEN End("refused", None) ELSE Advance("redetect")
    /\ UNCHANGED <<chain, tokenVars>>
    /\ Quiet

CannotLoad ==
    /\ pc = "load"
    /\ ~Loads(file)
    /\ End("raised", None)
    /\ UNCHANGED <<verdict, chain, tokenVars>>
    /\ Quiet

(***************************************************************************)
(* make_anchor anchors what it has loaded, not what was verified.          *)
(***************************************************************************)
FinishMake ==
    /\ pc = "load" /\ call = "make"
    /\ Loads(file)
    /\ chain' = file
    /\ IF file.entries = <<>>
       THEN End("refused", None) /\ UNCHANGED <<tokenVars, since>>
       ELSE /\ End("anchored", None)
            /\ token' = TokenOf(file)
            /\ anchored' = file.entries
            /\ made' = during
            /\ since' = "still"
    /\ UNCHANGED <<diskVars, during, call, given, verdict>>

FinishCheck ==
    /\ pc = "load" /\ call = "check"
    /\ Loads(file)
    /\ chain' = file
    /\ End("answered", Compared(verdict, file, given))
    /\ UNCHANGED <<verdict, tokenVars>>
    /\ Quiet

-----------------------------------------------------------------------------
(***************************************************************************)
(* The anchors a check is given: the published one, and ones whose count,  *)
(* version or type is another.                                             *)
(***************************************************************************)
Anchors ==
    IF token = None THEN {}
    ELSE {token}
         \cup {[token EXCEPT !.count = n] : n \in 0..MaxLen}
         \cup {[token EXCEPT !.version = v] : v \in {None, "later"}}
         \cup {[token EXCEPT !.type = "something else"]}

Init ==
    /\ \E s \in Sessions, p \in Payloads : file = Written(s, <<Event(s, 0, p)>>, WriterKey)
    /\ version = VERSION_V0
    /\ changes = 0
    /\ token = None /\ anchored = <<>> /\ made = "still" /\ since = "still"
    /\ pc = "idle" /\ call = "make" /\ given = None
    /\ verdict = None /\ chain = None
    /\ outcome = "none" /\ answer = None
    /\ during = "still"

CallStep ==
    \/ Detect("detect", "verify")
    \/ Verify
    \/ Detect("redetect", "load")
    \/ CannotLoad
    \/ FinishMake
    \/ FinishCheck

Next ==
    \/ Disk
    \/ BeginMake
    \/ \E anchor \in Anchors : BeginCheck(anchor)
    \/ CallStep

Spec == Init /\ [][Next]_vars

-----------------------------------------------------------------------------
TypeOK ==
    /\ file \in LogFile \cup {None}
    /\ version \in Versions
    /\ changes \in 0..MaxChanges
    /\ token \in Token \cup {None}
    /\ anchored \in Seq(Envelope)
    /\ {made, since, during} \subseteq {"still", "appended", "changed"}
    /\ pc \in {"idle", "detect", "verify", "redetect", "load"}
    /\ call \in {"make", "check"}
    /\ given \in Token \cup {None}
    /\ call = "check" => given # None
    /\ verdict \in VerifyResult \cup {None}
    /\ pc \in {"redetect", "load"} => verdict # None
    /\ chain \in LogFile \cup {None}
    /\ outcome \in {"none", "raised", "refused", "anchored", "answered"}
    /\ answer \in AnchorAnswer \cup {None}
    /\ (answer # None) <=> (outcome = "answered")

Passed == answer # None /\ answer.ok

(***************************************************************************)
(* An anchor made while the file at most grew is the head of a chain that  *)
(* verifies, although the entries it counts were read after the ones that  *)
(* were verified ("refuses to anchor an inconsistent or empty chain").     *)
(***************************************************************************)
AnchorIsHead ==
    token # None /\ made # "changed" =>
        /\ token.count = Len(anchored)
        /\ token.head_entry_hash = Bodies(anchored)
        /\ \A n \in DOMAIN anchored : anchored[n].entry_hash = SubSeq(Bodies(anchored), 1, n)

(***************************************************************************)
(* "Nobody, including the key holder, can present a different history for  *)
(* those entries": while a check reads a file that at most grows, it only  *)
(* passes a log that starts with the entries that were anchored, envelope  *)
(* for envelope, whatever has become of the file since.                    *)
(***************************************************************************)
HistoryPinned ==
    Passed /\ given = token /\ made # "changed" /\ during # "changed" =>
        SubSeq(chain.entries, 1, token.count) = anchored

(***************************************************************************)
(* Whatever anchor a check is given, it passes only a log whose first      *)
(* `count` entries hash to the head the anchor names, and at least one.    *)
(***************************************************************************)
CommitsToPrefix ==
    Passed /\ during # "changed" =>
        /\ given.count \in 1..Len(chain.entries)
        /\ Bodies(SubSeq(chain.entries, 1, given.count)) = given.head_entry_hash

(***************************************************************************)
(* "Later appends are fine": a log that has at most grown since it was     *)
(* anchored passes, however the appends fall between the reads; if not, it *)
(* was verified with a line half written.                                  *)
(***************************************************************************)
GrowthPasses ==
    answer # None /\ given = token /\ made # "changed" /\ since # "changed" =>
        \/ answer.ok
        \/ answer.reason = "not internally valid" /\ verdict.reason = "malformed entry"

(***************************************************************************)
(* "Passes iff the log is internally valid": the log that is compared with *)
(* the anchor is one that verifies.                                        *)
(***************************************************************************)
PassesOnlyValid == Passed => InternallyValid(chain)

=============================================================================
