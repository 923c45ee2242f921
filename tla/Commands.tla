------------------------------ MODULE Commands ------------------------------
(***************************************************************************)
(* The commands of cli.py that read logs, as sequences of reads: verify    *)
(* with --explain, --require-ended and --anchor, verify-all over a         *)
(* directory, inspect, export, tamper and diff.  A directory holds a log   *)
(* and a trusted copy of it, "reference".  The log is edited, damaged or   *)
(* appended to before the command and between any two of its reads.        *)
(***************************************************************************)
EXTENDS AnchorCheck, ChainDiff

CONSTANTS
    WriterKey,    \* the key the log is written under
    WriterLabel,  \* the key_id it carries
    OtherKey,     \* another key
    Histories,    \* the histories the log may have
    Invocations,  \* the commands that may be given
    Touched,      \* bound: the entries that are edited or spoiled
    MaxChanges    \* bound: changes of the log

ASSUME WriterAssumption ==
    /\ {WriterKey, OtherKey} \subseteq Keys /\ WriterKey # OtherKey
    /\ WriterLabel \in Labels /\ MaxChanges \in Nat /\ Touched \subseteq Nat

(***************************************************************************)
(* A writer numbers its events, and what has no canonical bytes it cannot  *)
(* hash.                                                                   *)
(***************************************************************************)
ASSUME HistoryAssumption ==
    \A bodies \in Histories :
        /\ bodies \in Seq(Body) /\ bodies # <<>>
        /\ InOrder(bodies[1].session_id, WriterLabel, bodies)
        /\ \A n \in DOMAIN bodies : bodies[n].payload \notin Unencodable

Invocation ==
    [command: {"verify", "verify-all", "inspect", "export", "tamper", "diff"},
     pin: Fingerprint \cup {None}, key_id: Labels \cup {None}, trust_log_header: BOOLEAN,
     explain: BOOLEAN, require_ended: BOOLEAN,
     anchor: {None, "published", "other-type", "unreadable"},
     witnesses: {"none", "verified", "unverified", "invalid"},
     allow_unverified_witness: BOOLEAN, dir: {"logs", "empty", "missing"},
     field: {"tool_name", "event_type", "actor"}]

(***************************************************************************)
(* None is no command line, no kind of anchor and no reason.               *)
(***************************************************************************)
ASSUME InvocationAssumption ==
    /\ Invocations \subseteq Invocation /\ None \notin Invocation
    /\ None \notin {"published", "other-type", "unreadable", "not-ended", "witness"}
    /\ None \notin LogReasons \cup HeaderReasons \cup EntryReasons \cup AnchorReasons

VARIABLES
    disk,     \* the files of the directory
    changes,  \* how often the log has changed
    edits,    \* the fields of its records that were edited, what they said and say
    wild,     \* something else than edits and appends has happened to it
    during,   \* what has befallen it since the command began
    args,     \* the command line, None before
    todo,     \* the steps the command still has to make
    files,    \* the files it still has to look at
    call,     \* what it has found out
    code      \* the exit code, None before

worldVars == <<disk, changes, edits, wild>>
vars == <<worldVars, during, args, todo, files, call, code>>

log == disk["log"]

-----------------------------------------------------------------------------
(***************************************************************************)
(* The log's fate.                                                         *)
(***************************************************************************)
Befalls(fate, newLog) ==
    /\ changes < MaxChanges
    /\ newLog # log
    /\ disk' = [disk EXCEPT !["log"] = newLog]
    /\ changes' = changes + 1
    /\ during' = Worse(during, fate)
    /\ UNCHANGED <<args, todo, files, call, code>>

Torn == log # None /\ log.entries # <<>> /\ Last(log.entries).form = "malformed"

Plain == log # None /\ log.medium = "text" /\ log.header.form = "object" /\ ~Torn

EditValues(field) ==
    CASE field = "event_type"    -> EVENT_TYPES
      [] field = "signer_key_id" -> Labels
      [] field \in PayloadFields -> {p[field] : p \in Payloads}

EditField(n, field, value) ==
    /\ Plain /\ n \in DOMAIN log.entries
    /\ LET rec == log.entries[n].record
       IN  /\ ~\E e \in edits : e.at = n /\ e.field = field
           /\ Befalls("changed", [log EXCEPT !.entries[n].record = Put(@, field, value)])
           /\ edits' = edits \cup {[at |-> n, field |-> field, original |-> Get(rec, field),
                                    observed |-> value]}
    /\ UNCHANGED wild

Spoil(newLog) == Befalls("changed", newLog) /\ wild' = TRUE /\ UNCHANGED edits

SpoilEntry(n) ==
    /\ Plain /\ n \in DOMAIN log.entries
    /\ \/ \E form \in LineForms : Spoil([log EXCEPT !.entries[n].form = form])
       \/ Spoil([log EXCEPT !.entries[n].entry_hash = entry_hash(log.entries[n].record)])
       \/ Spoil([log EXCEPT !.entries = SubSeq(@, 1, n - 1)])

SpoilFile ==
    /\ Plain
    /\ \/ \E form \in LineForms : Spoil([log EXCEPT !.header.form = form])
       \/ Spoil([log EXCEPT !.header.form = "absent", !.entries = <<>>])
       \/ Spoil([log EXCEPT !.medium = "undecodable"])
       \/ Spoil(ChainFile(log.header.session_id, Bodies(log.entries), OtherKey, WriterLabel,
                          spki_fingerprint(OtherKey)))
       \/ Spoil(None)

(***************************************************************************)
(* The writer is in the middle of appending the line of one more event,    *)
(* and then done.                                                          *)
(***************************************************************************)
StartAppend ==
    /\ Plain /\ edits = {} /\ ~wild
    /\ ~Ended(Bodies(log.entries))
    /\ LET bodies == Bodies(log.entries)
           next   == [Last(bodies) EXCEPT !.sequence = Len(bodies), !.event_type = "session_end"]
           line   == EnvelopeOf(Append(bodies, next), Len(bodies) + 1, WriterKey, WriterLabel,
                                spki_fingerprint(WriterKey))
       IN  Befalls("appended",
                   [log EXCEPT !.entries = Append(@, [line EXCEPT !.form = "malformed"])])
    /\ UNCHANGED <<edits, wild>>

FinishAppend ==
    /\ Torn /\ ~wild
    /\ disk' = [disk EXCEPT !["log"].entries[Len(log.entries)].form = "object"]
    /\ during' = Worse(during, "appended")
    /\ UNCHANGED <<changes, edits, wild, args, todo, files, call, code>>

World ==
    \/ \E n \in Touched :
          \/ \E field \in LowEntropyFields \cup {"rest"} :
                \E value \in EditValues(field) : EditField(n, field, value)
          \/ SpoilEntry(n)
    \/ SpoilFile
    \/ StartAppend
    \/ FinishAppend

-----------------------------------------------------------------------------
(***************************************************************************)
(* Steps of a command.                                                     *)
(***************************************************************************)
At(step) == todo # <<>> /\ Head(todo) = step /\ UNCHANGED <<worldVars, during, args>>

(***************************************************************************)
(* Mutant: a command goes on after its answer.                             *)
(***************************************************************************)
ExitGoesOn(status, found) ==
    todo' = Tail(todo) /\ code' = status /\ call' = found /\ UNCHANGED files

Exit(status, found) ==
    todo' = <<>> /\ code' = status /\ call' = found /\ UNCHANGED files

Go(steps, found) ==
    todo' = steps /\ call' = found /\ UNCHANGED <<files, code>>

Proceed(found) == Go(Tail(todo), found)

(***************************************************************************)
(* An exception nobody catches: a traceback, and exit status 1.            *)
(***************************************************************************)
Crash == Exit(1, [call EXCEPT !.crashed = TRUE])

Command == args.command

Pins ==
    IF Command = "tamper" THEN Unpinned
    ELSE [trusted_spki_sha256 |-> args.pin, trusted_key_id |-> args.key_id]

(***************************************************************************)
(* Mutant: inspect loads the log it prints after it was verified.          *)
(***************************************************************************)
InspectedLoadedLast == <<"detect", "verify", "load", "report">>

Inspected == <<"detect", "load", "verify", "report">>

Plan(inv) ==
    CASE inv.command = "verify" ->
           <<"detect", "verify">>
           \o (IF inv.explain THEN <<"explain">> ELSE <<>>)
           \o (IF inv.anchor = None THEN <<>>
               ELSE <<"anchor", "anchor-detect", "anchor-verify", "anchor-detect", "anchor-load">>)
           \o <<"report">>
      [] inv.command = "verify-all" -> <<"detect", "verify">>
      [] inv.command = "inspect"    -> Inspected
      [] inv.command = "export"     -> <<"detect", "load", "verify", "explain", "report">>
      [] inv.command = "tamper"     -> <<"detect", "load", "verify", "edit", "check">>
      [] inv.command = "diff"       -> <<"reference", "target">>

(***************************************************************************)
(* Mutant: a label is taken for an anchor of trust.                        *)
(***************************************************************************)
UntrustedButLabel(inv) ==
    inv.command \in {"verify", "verify-all"} /\ inv.pin = None /\ inv.key_id = None
    /\ ~inv.trust_log_header

(***************************************************************************)
(* verify and verify-all ask for a pinned key or an explicit waiver; a     *)
(* label is neither.                                                       *)
(***************************************************************************)
Untrusted(inv) ==
    inv.command \in {"verify", "verify-all"} /\ inv.pin = None /\ ~inv.trust_log_header

Listing(inv) ==
    LET Found(f) == IF disk[f] = None THEN <<>> ELSE <<f>>
    IN  IF inv.command # "verify-all" THEN <<"log">>
        ELSE IF inv.dir = "logs" THEN Found("log") \o Found("reference")
        ELSE <<>>

Nothing == [verdict |-> None, judged |-> None, loaded |-> None, checked |-> None,
            anchor |-> None, explained |-> None, copy |-> None, made |-> None,
            rows |-> <<>>, report |-> None, crashed |-> FALSE]

Begin(inv) ==
    /\ args = None
    /\ args' = inv
    /\ during' = "still"
    /\ files' = Listing(inv)
    /\ call' = Nothing
    /\ LET Refuse(status) == code' = status /\ todo' = <<>>
       IN  CASE Untrusted(inv) \/ (inv.command = "verify-all" /\ inv.dir = "missing") -> Refuse(2)
             [] ~Untrusted(inv) /\ inv.command = "verify-all" /\ inv.dir = "empty" -> Refuse(1)
             [] OTHER -> todo' = Plan(inv) /\ UNCHANGED code
    /\ UNCHANGED worldVars

(***************************************************************************)
(* Mutant: the exit code is the last file's.                               *)
(***************************************************************************)
RowLast(ok, reason) ==
    LET rows  == Append(call.rows, [file |-> Head(files), ok |-> ok, reason |-> reason])
        found == [call EXCEPT !.rows = rows]
    IN  /\ files' = Tail(files)
        /\ call' = found
        /\ IF Tail(files) # <<>> THEN todo' = Plan(args) /\ UNCHANGED code
           ELSE todo' = <<>> /\ code' = IF ok THEN 0 ELSE 1

(***************************************************************************)
(* A row of the sweep, and on to the next file, if there is one.           *)
(***************************************************************************)
Row(ok, reason) ==
    LET rows  == Append(call.rows, [file |-> Head(files), ok |-> ok, reason |-> reason])
        found == [call EXCEPT !.rows = rows]
    IN  /\ files' = Tail(files)
        /\ call' = found
        /\ IF Tail(files) # <<>> THEN todo' = Plan(args) /\ UNCHANGED code
           ELSE todo' = <<>> /\ code' = IF \A r \in ToSet(rows) : r.ok THEN 0 ELSE 1

(***************************************************************************)
(* What a command does with a log it cannot make out.                      *)
(***************************************************************************)
Refusal == IF Command \in {"inspect", "export"} THEN 1 ELSE 2

Detect ==
    /\ At("detect")
    /\ \E v \in DetectVersion(disk[Head(files)], VERSION_V0) :
          CASE v = VERSION_V0 -> Proceed(call)
            [] v = "UnknownVersionError" ->
                 IF Command = "verify-all" THEN Row(FALSE, v) ELSE Exit(Refusal, call)
            [] v = "UnicodeDecodeError" -> Crash

(***************************************************************************)
(* load_chain's own read.  AttestationError is caught, nothing else is.    *)
(***************************************************************************)
OutOfContract(it) ==
    /\ it # None /\ it.medium = "text"
    /\ \/ it.header.form = "malformed"
       \/ /\ it.header.form = "object" /\ ~Loads(it)
          /\ it.entries[Least(Unparsed(it.entries))].form = "malformed"

Load ==
    /\ At("load")
    /\ IF Loads(log)
       THEN IF Command = "tamper" /\ log.entries = <<>> THEN Exit(Refusal, call)
            ELSE Proceed([call EXCEPT !.loaded = log])
       ELSE Crash \/ (OutOfContract(log) /\ Exit(Refusal, call))

Verify ==
    /\ At("verify")
    /\ LET it == disk[Head(files)]
       IN  \E r \in Outcomes(it, Pins) :
              LET found     == [call EXCEPT !.verdict = r, !.judged = it]
                  truncated == args.require_ended /\ ~r.ended
              IN  CASE r = Raised -> Crash
                    [] r # Raised /\ Command = "verify-all" ->
                         Row(r.ok /\ ~truncated,
                             IF r.ok /\ truncated THEN "not-ended" ELSE r.reason)
                    [] r # Raised /\ Command = "tamper" /\ ~r.ok -> Exit(2, found)
                    [] OTHER -> Proceed(found)

-----------------------------------------------------------------------------
(***************************************************************************)
(* What localize_entry makes of the line of entry n of a log.  A line that *)
(* is JSON, but no envelope of the contract, is searched like any other,   *)
(* and may turn out to have had a value of the contract where it now has   *)
(* one the contract does not know.                                         *)
(***************************************************************************)
Foreign == "a value the contract does not know"

ForeignChanges(key_id) ==
    {FieldChange("version", VERSION_V0, Foreign)}
    \cup UNION {{FieldChange(f, v, Foreign) : v \in Candidates(f, Foreign, key_id)} :
                   f \in LowEntropyFields}

Explanations(it, n, key_id) ==
    IF it = None \/ it.medium # "text" \/ n \notin DOMAIN it.entries THEN {Raised}
    ELSE LET e == it.entries[n]
         IN  CASE e.form = "nonobject" -> {Raised}
               [] e.form = "malformed" ->
                    {Raised} \cup {LocalizeResult(FALSE, {}, note) :
                                      note \in {"not edited", "could not localize"}}
                    \cup {LocalizeResult(TRUE, {c}, "recovered") : c \in ForeignChanges(key_id)}
               [] e.form = "object" ->
                    IF e.record.payload \in Unencodable THEN {Raised}
                    ELSE {localize_entry(e.record, e.entry_hash, key_id)}

(***************************************************************************)
(* The log is read again, to explain an entry that broke.  export reads it *)
(* in any case, and explains an entry whose reason speaks of an            *)
(* entry_hash: the stored one, the link to one, or perhaps one that is     *)
(* missing or malformed.                                                   *)
(***************************************************************************)
ToExplain ==
    /\ ~call.verdict.ok /\ call.verdict.broken_index # None
    /\ Command = "export" =>
          call.verdict.reason \in {"entry_hash", "prev_entry_hash", "malformed entry"}

NotToExplain ==
    ~ToExplain \/ (Command = "export" /\ call.verdict.reason = "malformed entry")

Explain ==
    /\ At("explain")
    /\ \/ /\ ToExplain
          /\ LET key_id == IF Command = "export" THEN call.loaded.header.key_id
                           ELSE call.verdict.key_id
             IN  \E x \in Explanations(log, call.verdict.broken_index + 1, key_id) :
                    IF x = Raised THEN Crash ELSE Proceed([call EXCEPT !.explained = x])
       \/ /\ NotToExplain
          /\ IF Command = "export" /\ (log = None \/ log.medium # "text") THEN Crash
             ELSE Proceed(call)

(***************************************************************************)
(* --anchor: the anchor's file, and the four reads of check_anchor, none   *)
(* of whose exceptions is caught.                                          *)
(***************************************************************************)
Published ==
    [TokenOf(disk["reference"]) EXCEPT
        !.type = IF args.anchor = "other-type" THEN "something else" ELSE @]

ReadAnchor ==
    /\ At("anchor")
    /\ CASE args.anchor = "unreadable" -> Crash
         [] args.anchor = "other-type" ->
              Go(<<"report">>, [call EXCEPT !.anchor = AnchorResult(FALSE, "not an anchor", 0, 0)])
         [] args.anchor = "published" -> Proceed(call)

AnchorDetect ==
    /\ At("anchor-detect")
    /\ \E v \in DetectVersion(log, VERSION_V0) :
          IF v = VERSION_V0 THEN Proceed(call) ELSE Crash

AnchorVerify ==
    /\ At("anchor-verify")
    /\ \E r \in Outcomes(log, Unpinned) :
          IF r = Raised THEN Crash ELSE Proceed([call EXCEPT !.checked = r])

AnchorLoad ==
    /\ At("anchor-load")
    /\ IF Loads(log)
       THEN Proceed([call EXCEPT !.loaded = log, !.anchor = Compared(call.checked, log, Published)])
       ELSE Crash

(***************************************************************************)
(* What verify_anchor_witnesses answers (TimestampToken): the anchor has   *)
(* no witnesses, all are verified, one has no pinned key, or one is        *)
(* invalid.                                                                *)
(***************************************************************************)
Witnessed ==
    \/ args.witnesses \in {"none", "verified"}
    \/ args.witnesses = "unverified" /\ args.allow_unverified_witness

-----------------------------------------------------------------------------
(***************************************************************************)
(* Mutant: a failed witness check leaves the printed ok as it was.         *)
(***************************************************************************)
VerifyReportUnseen(r, a) ==
    LET truncated == args.require_ended /\ r.ok /\ ~r.ended
        detached  == a # None /\ ~a.ok
        unseen    == a # None /\ a.ok /\ ~Witnessed
    IN  [code   |-> IF r.ok /\ ~truncated /\ ~detached /\ ~unseen THEN 0 ELSE 1,
         ok     |-> r.ok /\ ~truncated /\ ~detached,
         reason |-> CASE truncated -> "not-ended"
                      [] ~truncated /\ r.reason # None -> r.reason
                      [] ~truncated /\ r.reason = None /\ detached -> a.reason
                      [] ~truncated /\ r.reason = None /\ unseen -> "witness"
                      [] OTHER -> None]

(***************************************************************************)
(* The printed verdict starts as verify_log's, and every further check     *)
(* that fails takes its ok and, if it has none yet, fills in its reason;   *)
(* the exit code is computed apart.                                        *)
(***************************************************************************)
VerifyReport(r, a) ==
    LET truncated == args.require_ended /\ r.ok /\ ~r.ended
        detached  == a # None /\ ~a.ok
        unseen    == a # None /\ a.ok /\ ~Witnessed
    IN  [code   |-> IF r.ok /\ ~truncated /\ ~detached /\ ~unseen THEN 0 ELSE 1,
         ok     |-> r.ok /\ ~truncated /\ ~detached /\ ~unseen,
         reason |-> CASE truncated -> "not-ended"
                      [] ~truncated /\ r.reason # None -> r.reason
                      [] ~truncated /\ r.reason = None /\ detached -> a.reason
                      [] ~truncated /\ r.reason = None /\ unseen -> "witness"
                      [] OTHER -> None]

(***************************************************************************)
(* inspect exits 0 whatever the verdict; export does not.                  *)
(***************************************************************************)
Report ==
    /\ At("report")
    /\ LET r       == call.verdict
           printed == CASE Command = "verify"  -> VerifyReport(r, call.anchor)
                        [] Command = "inspect" -> [code |-> 0, ok |-> r.ok, reason |-> r.reason]
                        [] Command = "export"  ->
                             [code |-> IF r.ok THEN 0 ELSE 1, ok |-> r.ok, reason |-> r.reason]
       IN  Exit(printed.code,
                [call EXCEPT !.report = [ok |-> printed.ok, reason |-> printed.reason,
                                         pinned |-> args.pin # None]])

-----------------------------------------------------------------------------
(***************************************************************************)
(* tamper: the first tool event, else the first entry, is edited in a copy *)
(* of what is now on disk; the copy has to fail, and is explained.         *)
(***************************************************************************)
ToolEvents(entries) ==
    {n \in DOMAIN entries :
        entries[n].record.event_type \in {"pre_tool_use", "post_tool_use"}}

Chosen(entries) == IF ToolEvents(entries) = {} THEN 1 ELSE Least(ToolEvents(entries))

(***************************************************************************)
(* Mutant: an event is always made a post_tool_use.                        *)
(***************************************************************************)
NewValuesFixed(field, observed) ==
    CASE field = "tool_name"  -> KNOWN_TOOL_NAMES \ {observed}
      [] field = "event_type" -> {"post_tool_use"}
      [] field = "actor"      -> {IF observed # "user" THEN "user" ELSE "system"}

NewValues(field, observed) ==
    CASE field = "tool_name"  -> KNOWN_TOOL_NAMES \ {observed}
      [] field = "event_type" -> {IF observed # "post_tool_use" THEN "post_tool_use" ELSE "pre_tool_use"}
      [] field = "actor"      -> {IF observed # "user" THEN "user" ELSE "system"}

Editable(it, n) == it # None /\ it.medium = "text" /\ n \in DOMAIN it.entries

Edit ==
    /\ At("edit")
    /\ LET n == Chosen(call.loaded.entries)
       IN  \/ ~Editable(log, n) /\ Crash
           \/ /\ Editable(log, n)
              /\ LET e == log.entries[n]
                 IN  \/ (e.form # "object" \/ e.record.payload \in Unencodable) /\ Crash
                     \/ e.form = "malformed" /\ Proceed([call EXCEPT !.copy = log])
                     \/ /\ e.form = "object" /\ e.record.payload \notin Unencodable
                        /\ \E v \in NewValues(args.field, Get(e.record, args.field)) :
                              Proceed([call EXCEPT
                                  !.copy = [log EXCEPT !.entries[n].record = Put(@, args.field, v)],
                                  !.made = FieldChange(args.field, Get(e.record, args.field), v)])

Check ==
    /\ At("check")
    /\ \E r \in Outcomes(call.copy, Unpinned) :
          CASE r = Raised -> Crash
            [] r # Raised /\ r.ok -> Exit(1, call)
            [] OTHER ->
                 LET n == Chosen(call.loaded.entries)
                 IN  \E x \in Explanations(call.copy, n, call.loaded.header.key_id) :
                        IF x = Raised THEN Crash
                        ELSE Exit(0, [call EXCEPT !.verdict = r, !.explained = x])

(***************************************************************************)
(* diff reads the reference and then the log.  Lines that are JSON but no  *)
(* envelope are compared as far as they go.                                *)
(***************************************************************************)
ReadReference ==
    /\ At("reference")
    /\ Proceed([call EXCEPT !.loaded = disk["reference"]])

ReadTarget ==
    /\ At("target")
    /\ IF Loads(log)
       THEN LET d == diff_chains(call.loaded, log)
            IN  Exit(IF d.identical THEN 0 ELSE 1, [call EXCEPT !.report = d, !.judged = log])
       ELSE Crash \/ (OutOfContract(log) /\ \E status \in {0, 1} : Exit(status, call))

-----------------------------------------------------------------------------
CommandStep ==
    \/ Detect
    \/ Load
    \/ Verify
    \/ Explain
    \/ ReadAnchor
    \/ AnchorDetect
    \/ AnchorVerify
    \/ AnchorLoad
    \/ Report
    \/ Edit
    \/ Check
    \/ ReadReference
    \/ ReadTarget

Init ==
    /\ \E bodies \in Histories :
          disk = [f \in {"log", "reference"} |->
                     ChainFile(bodies[1].session_id, bodies, WriterKey, WriterLabel,
                               spki_fingerprint(WriterKey))]
    /\ changes = 0 /\ edits = {} /\ wild = FALSE /\ during = "still"
    /\ args = None /\ todo = <<>> /\ files = <<>> /\ call = Nothing /\ code = None

(***************************************************************************)
(* Nothing happens after the exit; anything before it that cannot go on is *)
(* a deadlock.                                                             *)
(***************************************************************************)
Exited == code # None /\ UNCHANGED vars

Next ==
    \/ code = None /\ World
    \/ \E inv \in Invocations : Begin(inv)
    \/ CommandStep
    \/ Exited

Spec == Init /\ [][Next]_vars
-----------------------------------------------------------------------------
TypeOK ==
    /\ disk \in [{"log", "reference"} -> LogFile \cup {None}]
    /\ changes \in 0..MaxChanges
    /\ \A e \in edits : e.at \in Nat /\ e.field \in RecordFields
    /\ wild \in BOOLEAN
    /\ during \in {"still", "appended", "changed"}
    /\ args \in Invocation \cup {None}
    /\ ToSet(files) \subseteq DOMAIN disk
    /\ {call.judged, call.loaded, call.copy} \subseteq LogFile \cup {None}
    /\ {call.verdict, call.checked} \subseteq VerifyResult \cup {None}
    /\ code \in {None, 0, 1, 2}
    /\ (todo = <<>>) <=> (args = None \/ code # None)

Ran(command) == code # None /\ ~call.crashed /\ Command = command

Steady == during # "changed"

SignedUnder(entries, fingerprint) ==
    \A n \in DOMAIN entries : spki_fingerprint(entries[n].signature.key) = fingerprint

(***************************************************************************)
(* "Exits NONZERO on tamper or untrusted key": when verify exits 0 over a  *)
(* log that at most grows meanwhile, the log is on disk as it was judged;  *)
(* it is signed under the pinned key, unless the caller waived the pin;    *)
(* under the writer's key it says what the trusted copy says; and what was *)
(* asked of its end, of the anchor and of the witnesses is so, although    *)
(* each was looked up in a read of its own.                                *)
(***************************************************************************)
ZeroMeansAsked ==
    args # None /\ Ran("verify") /\ code = 0 /\ Steady =>
        LET judged == call.judged.entries
            copy   == Bodies(disk["reference"].entries)
        IN  /\ IsPrefix(judged, log.entries)
            /\ IF args.pin = None THEN args.trust_log_header ELSE SignedUnder(judged, args.pin)
            /\ args.pin = spki_fingerprint(WriterKey) =>
                  IsPrefix(Bodies(judged), copy) \/ IsPrefix(copy, Bodies(judged))
            /\ args.require_ended => Ended(Bodies(judged))
            /\ args.anchor # None => IsPrefix(copy, Bodies(log.entries)) /\ Witnessed

(***************************************************************************)
(* "0 ok / 1 fail": the verdict that is printed and the exit code agree,   *)
(* and a verdict that is not ok says why, and only that one does.          *)
(***************************************************************************)
ReportAgrees ==
    args # None /\ Ran("verify") /\ call.report # None =>
        /\ call.report.ok <=> code = 0
        /\ call.report.ok <=> call.report.reason = None

(***************************************************************************)
(* inspect and export print the entries of one read and the verdict on     *)
(* another.  When they print VALID (pinned), for a log that at most grows, *)
(* the entries they print are of the log that verified.                    *)
(***************************************************************************)
ShownIsVerified ==
    args # None /\ (Ran("inspect") \/ Ran("export")) /\ Steady
    /\ call.report # None /\ call.report.ok /\ call.report.pinned =>
        /\ IsPrefix(call.loaded.entries, call.judged.entries)
        /\ SignedUnder(call.loaded.entries, args.pin)

(***************************************************************************)
(* "We report unrecoverable rather than guess": whatever --explain or      *)
(* export says a field of a line that parses said before, it said; and one *)
(* edit of a field of few values is always found, at its entry.            *)
(***************************************************************************)
ChangeOf(e) == FieldChange(e.field, e.original, e.observed)

Recoverable(change, key_id) ==
    CASE change.field = "tool_name"     -> change.original \in KNOWN_TOOL_NAMES \cup {None}
      [] change.field = "signer_key_id" -> change.original = key_id
      [] change.field = "rest"          -> FALSE
      [] OTHER                          -> TRUE

ExplainedIsEdit ==
    call.explained # None /\ Command \in {"verify", "export"} /\ during = "still" /\ ~wild
    /\ ~Torn =>
        LET n == call.verdict.broken_index + 1
        IN  /\ call.explained.changes \subseteq {ChangeOf(e) : e \in {d \in edits : d.at = n}}
            /\ \A e \in edits :
                  edits = {e} /\ Recoverable(ChangeOf(e), call.verdict.key_id) =>
                      n = e.at /\ call.explained.changes = {ChangeOf(e)}

(***************************************************************************)
(* "No edit to a committed record can go unnoticed": what tamper does to a *)
(* log that verifies, and at most grows, is always detected, and recovered *)
(* exactly when what the field said is one of the values tried.            *)
(***************************************************************************)
TamperIsCaught ==
    args # None /\ Ran("tamper") /\ Steady =>
        /\ code # 1
        /\ call.made # None =>
              call.explained.changes =
                  IF Recoverable(call.made, call.loaded.header.key_id) THEN {call.made} ELSE {}

(***************************************************************************)
(* "The EXACT diff for EVERY field": identical logs hold the same records, *)
(* and a log that was edited and appended to differs from its copy in what *)
(* was edited and appended.                                                *)
(***************************************************************************)
DiffIsExact ==
    args # None /\ Ran("diff") /\ call.report # None =>
        LET d == call.report
            common == {e \in edits : e.at <= Len(call.loaded.entries)}
        IN  /\ code = 0 => Bodies(call.judged.entries) = Bodies(call.loaded.entries)
            /\ during = "still" /\ ~wild =>
                  /\ d.header_changes = {} /\ d.removed = <<>>
                  /\ d.entry_changes =
                        {FieldDelta(e.at - 1, e.field, e.original, e.observed) : e \in common}
                  /\ Len(d.added) = Len(call.judged.entries) - Len(call.loaded.entries)

(***************************************************************************)
(* "Exit 1 if any fail": a sweep that comes to its end over files that     *)
(* rest has a row for each, and exits 0 exactly when every one verifies    *)
(* under the pins, and has ended if that was asked.                        *)
(***************************************************************************)
Verifies(it) ==
    \E r \in Outcomes(it, Pins) : r # Raised /\ r.ok /\ (args.require_ended => r.ended)

SweepIsExact ==
    args # None /\ Ran("verify-all") /\ code # 2 /\ during = "still" =>
        /\ [m \in DOMAIN call.rows |-> call.rows[m].file] = Listing(args)
        /\ code = 0 <=> Listing(args) # <<>> /\ \A f \in ToSet(Listing(args)) : Verifies(disk[f])

(***************************************************************************)
(* "One bad file must not abort the sweep over everything else": a sweep   *)
(* that has ended has a row for every file it listed, since verification   *)
(* fails closed, with a verdict and never with an exception.               *)
(***************************************************************************)
SweepGoesOn ==
    args # None /\ code # None /\ Command = "verify-all" => files = <<>> \/ code = 2

=============================================================================
