# smoke-verify: models, checks and proofs

`smoke-verify` reads logs of what an agent did and says whether they can be
trusted. A log (`smoke.attestation.v0`) is a file of JSON lines: an unsigned
header that carries the signer's public key, then one envelope per event, each
with a record, the hash of the record (which contains the hash of the one
before), and a signature over a domain-separated digest of that hash. The
program verifies only; logs are written elsewhere. This directory holds TLA+
models of it, the TLC runs over them, and proofs checked by TLAPS.

## 1. The system

| component | state | operations | who it talks to |
|---|---|---|---|
| records, canonical hash (`schema.py`) | none | validate, canonicalize, `entry_hash`, `signed_digest` | everybody |
| envelopes, header (`envelope.py`, `keys.py`) | none | `from_json_line`, `to_dict`, `spki_fingerprint` | verification, loading |
| verification (`verify.py`) | one call: lines, envelopes, `prev_eh`, index | `verify_log`, `verify_chain` | reads the file once |
| versions and loading (`chainio.py`) | none | `detect_version`, `verify_log_any`, `load_chain` | reads the file once per operation |
| anchoring (`anchor.py`) | one call: verdict, loaded chain | `make_anchor`, `check_anchor` | `chainio`, so four reads of a file that is live |
| git mirror witness (`witness.py`) | a git repository shared by all calls | `GitMirrorWitness.witness` | git, by subprocess with a timeout |
| time-stamp client (`witness.py`) | one call | `TSAClient.request_witness` | an RFC 3161 server over HTTP |
| witness checking (`witness.py`) | none | `verify_anchor_witnesses` | tokens |
| time-stamp tokens, DER (`rfc3161.py`, `asn1.py`) | none | parse, verify, encode | witness checking, client |
| localisation, diff (`localize.py`, `diff.py`) | none | `localize_entry`, `diff_chains` | a log, a reference |
| command line (`cli.py`) | exit code, printed verdict | verify, verify-all, inspect, diff, anchor, export, tamper | all of the above; each command reads the log two to six times |
| TypeScript port (`ts/src`) | none | the same verification | the same logs |

What is hard here is not concurrency inside the program, which has none, but
what happens around it: logs damaged in ways that cover each other up, files
that grow or are replaced between two reads of one call, external commands that
fail or are killed half way, and two processes on one repository. The hazards
are listed, each at its line, in `PROJECT.json`; what each component has to get
right:

- verification: an accepted log is what a key holder wrote, under a pinned
  fingerprint it is what the signer wrote, `ended` means nothing is missing, a
  genuine log is never refused, the first failure is the one reported, and
  every failure is a verdict;
- anchoring: an anchor is the head of a chain that verified, it pins the
  history before it even against the key holder, and appends do not break it;
- git mirror: the public log only grows, `ok` is evidence, what a failed call
  leaves behind harms nobody, and no call hangs;
- witness checking: an anchor counts as witnessed only by witnesses for its
  head that a pinned key signed, unless the caller said otherwise;
- command line: exit code and printed verdict agree, exit 0 means all that was
  asked, what is printed is of the log that was judged, and one bad file does
  not end a sweep;
- localisation and diff: what they say was edited was, and a single edit of a
  field that can be recovered is;
- DER: what is written is read, and what is cut off is seen;
- TypeScript port: it accepts and refuses what the reference does on a log of
  the contract, and under a pinned fingerprint it accepts nothing the signer did
  not write, whatever it makes of the log.

## 2. The modules

```
Attestation            data: records, hashes, digests, envelopes, log files, verdicts
  SignedChain          the chain a writer of logs writes
    StoredLog          the world of a log: signer, copy, damage
      VerifyLog        verify_log step by step      -- VerifyLogProofs, VerdictProofs
  Verdicts             what verify_log answers, declaratively
    ChainVerdict       as a two-step specification (refined by VerifyLog)
    Chainio            version detection, loading
  TsVerify             what the TypeScript port answers (extends VerifyLog, Verdicts) -- MCVerifyLog, VerdictProofs
  AnchorCheck          anchors and their comparison (extends SignedChain, Chainio)
    Anchoring          make_anchor, check_anchor    -- MCAnchoring, AnchoringProofs
  Localize             recovery of an edited field
    ChainDiff          a log against a trusted copy
      Commands         the commands that read logs (extends AnchorCheck too) -- MCCommands, CommandsProofs
TimestampToken         data: tokens, witnesses, the two checks
  TrustedTime          anchor, time-stamps, check -- MCTrustedTime, TrustedTimeProofs
HeadRegister           an append-only register of heads
  GitMirror            GitMirrorWitness (refines HeadRegister) -- GitMirrorProofs
Der                    DER messages written and read back -- MCDer, DerProofs
ChainFacts             lemmas about chains and verdicts, for the proof modules above
```

**Attestation.** SHA-256 over canonical bytes is a free constructor: the hash of
a record is the pair of the previous hash and of everything else the record
says. Unfolded, a hash *is* the sequence of the bodies of all records so far,
so equality of hashes is equality of histories: collision freedom is assumed,
not checked. A signature is the key that made it with the digest it was made
over; there are EC keys, which the Python verifier takes, and RSA keys, which it
refuses. A line has one of three forms, which is all the code tells apart: an
object with the right fields, a malformed one (`AttestationError`,
`ValueError`), or JSON that is not of the expected shape (other exceptions).
What the payload fields of a record hold is one value, of which some cannot be
canonicalised. Second encodings of `r` and `s` that verify equally are the same
signature here.

**SignedChain, StoredLog.** The signer is external: it commits the events of
its sessions in order and signs each. A copy of one log becomes the file the
verifier reads, and the file is then damaged: fields edited (what
`smoke-verify tamper` does), hashes restamped, entries dropped, swapped,
replayed, spliced in from another session, lines torn, the header edited or
lost, the whole chain rewritten under another key that may claim the signer's
fingerprint. The tests in `python/tests/test_verify_chains.py` make several of
these, one at a time; the model makes them in any order and combination up to
a bound. Nobody but the signer signs with its key.

**VerifyLog.** `pc` is the phase of the call ("read", "header", "parse",
"chain", "entries", then "done" or "raised"); `lines` is the text that was
read; `i` counts lines parsed and then entries checked; `prev_eh` and `result`
are the code's. One action per phase or loop turn: `ReadLog`, `ParseHeader`,
`ParseEntry`, `ParseDone`, `CheckHeader`, `CheckEntry`, `Accept`. The order of
the checks is data (`HeaderOrder`, `EntryOrder`), and the first that does not
hold is the answer. "raised" is an exception that leaves `verify_log`. The
signer goes on committing during the call. What is read are the lines of
`str.splitlines()`, which cuts a line within a string that holds another
separator (`Separating`, `AsRead`), and a record with a value `validate` refuses
(`OutOfContract`) is no record, whoever signed it.

**Verdicts, ChainVerdict.** The same answers with no loop: the set of answers a
log may get, being the least offending line or entry and one of the checks it
fails. ChainVerdict makes that a specification of one look and one decision,
which VerifyLog implements.

**TsVerify.** The port (`ts/src/verify.ts`) as an operator from the file to the
answers the port may give: it parses all lines as JSON, checks the header, and
looks at the shape of a line only when its loop gets there, so it may stop at
another entry; it looks at no value of a record, and does not ask what kind of
key it has. `TsReadings` is what it may read in the texts of a log where that is
not what Python reads: `Buffer.from(.., "hex")` stops at what is no hex, so a key
or a signature of the one may be none, or another one, for the other. What may
be read for a signature is any that has been made over the record
(`SignaturesMade`), since reading makes none. `Conformant` are the logs both
verifiers are written for. The port is compared with the Python result in every
state that has one.

**Chainio, AnchorCheck, Anchoring.** `make_anchor` and `check_anchor` each read the file four
times (version, verification, version again, load). Between any two of the
reads, or between calls, the writer appends a line, not atomically, or the
file is replaced: by another history under the same key, by the same one under
another key or session, cut, restamped, emptied, removed, or of another
version. The whole of one read is one step, which is when `read_text` returns.
Verification inside a call is `Verdicts!Outcomes`, which VerifyLog is shown to
refine. `made`, `since` and `during` record what befell the file while the
anchor was made, since then, and during the running call; they are history
variables and no action reads them except to update them.

**Localize, ChainDiff.** `localize_entry` and `diff_chains` as operators. A
payload is what a record says of a tool, of an actor, and the rest, each
independently of the others (`PayloadAssumption`); the catalogue of tools and
the actors, which include "user" and "system", are constants. A candidate is tried by
hashing the record with it, and a hash is its history (see Attestation), so the
search finds what it finds in the code.

**Commands.** A command is the list `todo` of the steps it still has to make,
each of them one read of the log or one computation with nothing read: `Detect`,
`Load`, `Verify`, `Explain`, `ReadAnchor`, `AnchorDetect`, `AnchorVerify`,
`AnchorLoad`, `Report`, `Edit`, `Check`, `ReadReference`, `ReadTarget`. `Plan`
is the order they have in each `cmd_` function; `Begin` is what comes before the
first, the trust arguments and the listing of the directory. `call` holds the
local variables a later step uses, `code` the exit status; `Crash` is an
exception nobody catches. The directory holds the log and a trusted copy of it,
and only the log is touched: fields edited (`edits` remembers which), lines or
the file spoiled, events appended, before the command and between any two of
its reads. `during` is the worst that befell the log since the command began.
Verification within a command is `Verdicts!Outcomes`; what
`verify_anchor_witnesses` answers is an argument, since TrustedTime models it.
The histories are what a writer's sessions can be, nonempty, in order, under its
label and with canonical bytes (`HistoryAssumption`); the writer's key and the
one a replaced log is under are two (`WriterAssumption`); and None is no command
line, no kind of anchor and no reason (`InvocationAssumption`).

**Der.** A sequence of integers, identifiers and octet strings is encoded; its
bytes arrive as they are, cut off, with one byte altered or with one more; they
are read back by `Open` (`read_tlv`, `expect_tag`), `ReadChild` (one turn of
`read_children`) and `Decode`. Bytes are numbers, and every check of `read_tlv`
is a conjunct of `Readable`. The loops of the encoders and of `decode_oid`,
`int.to_bytes` and `int.from_bytes` are recursive functions: what has been
written, or read, after each turn. `Digits` are the bytes of an integer or a
length, to base 256, and the marked ones of an arc, to base 128. What is read as a
number farther from 0 than `Beyond` is read as `Beyond` (`Capped`), since TLC has
integers of 32 bits. What a message may hold is what the encoders have an encoding
for (`MessagesAssumption`): integers from 0 to `Beyond`, identifiers of two arcs or
more whose first two share a byte without loss, octet strings; and each length is
one the reader takes, of at most four bytes and at most `Beyond` (`Fits`).

**GitMirror, HeadRegister.** A call appends its line to a file of the working
tree, runs `git add`, `git commit` and `git rev-parse HEAD`. Each command is
two steps where it touches shared state; each may fail, be killed at its
timeout before or after it took effect, or see its caller die (`Fault`). Git
is external: a command that changes the index holds `index.lock` and fails at
once if it is held, a killed one leaves it behind, a commit records the index
as it was and moves HEAD only if HEAD is where it was. HeadRegister is the
promise: a log of lines that only grows, without repetition, and "ok" only for
a line that is in it. A write that fails may leave a piece of its line
(`Torn`), which the next call writes on behind; "its line is in it" is then
about the text of the line, which that piece stands before. A caller that tries
again after an error is another call, whose line the register holds besides the
first.

**TimestampToken, TrustedTime.** A token is the record `parse_timestamp_token`
returns: the content (which digest, when, which nonce), the signed attributes
(what kind of content, its digest) and a signature, being the key with the
attributes it was made over. `verify_timestamp_token` and
`verify_anchor_witnesses` are operators, their checks in the code's order.
TrustedTime is one `smoke-verify anchor --tsa-url ...`: `MakeAnchor`, one `Ask`
per authority and its `Receive` or `NoToken`, `MirrorHead`, `Publish`. One
authority is honest: `Stamp` signs any head there is, at its clock, for anyone,
echoing a nonce that was sent or none. The network answers with any token it
ever signed, with one signed by another key, or not at all, which is all that
late, lost, repeated and exchanged answers come to. The published anchor is
then altered: its head, or a witness replaced or added, its token spliced from
several, signed as something else, broken, or missing. Checking changes no
state, so the properties quantify over the checks that could be made. Assumed
of the outside: nonces are never drawn twice nor guessed, nobody knows a head
before there is one, and only the authority has its key.

## 3. The runs

| run | module, cfg | bounds | shows |
|---|---|---|---|
| `verify_log` | MCVerifyLog, MCVerifyLog.cfg | 2 sessions, 3 events over all, 1 damage, 4 payloads (one not canonicalisable, one out of contract), 2 keys, an RSA key, a DER that does not load, 3 pins | TypeOK, AcceptedAsWritten, PinnedSound, EndedIsComplete, GenuineAccepted, PortsAgree, PortSound, ImplementsVerdict |
| `ports_disagree` | MCVerifyLog, MCPortsDisagree.cfg | 2 events, 1 damage, EC keys only | violated: the port accepts a log the Python verifier refuses |
| `verify_two_damages` | MCVerifyLog, MCVerifyTwoDamages.cfg | 1 session, 2 events, 2 damages | the soundness properties when one damage covers another |
| `first_offending` | MCVerifyLog, MCFirstOffending.cfg | as above | violated: a torn line hides an edit before it |
| `anchoring` | MCAnchoring, MCAnchoring.cfg | 3 entries, 3 changes, 2 sessions, 2 keys, 2 payloads | TypeOK, AnchorIsHead, HistoryPinned, CommitsToPrefix, GrowthPasses |
| `passes_only_valid` | MCAnchoring, MCPassesOnlyValid.cfg | 2 entries, 3 changes | violated: the log compared is not the one verified |
| `git_mirror` | GitMirror, MCGitMirror.cfg | 3 calls | TypeOK, OkIsEvidence, LeftoversHarmless, ImplementsRegister, WitnessReturns |
| `trusted_time` | MCTrustedTime, MCTrustedTime.cfg | 2 heads, 2 keys, 2 nonces, 2 instants, 2 stamps, 2 witnesses, 1 alteration | TypeOK, VerifiedExisted, OkIsTrustedTime, AcquiredFresh, UntouchedPasses |
| `genuine_refused` | MCVerifyLog, MCGenuineRefused.cfg | as `verify_log`, one payload with a separator | violated: a log as written is refused |
| `commands` | MCCommands, MCCommands.cfg | 2 histories of 2 and 3 entries, 2 changes, the second entry touched, 2 keys, 2 labels, 24 payloads, 3 tools (1 outside the catalogue), 64 command lines | TypeOK, ZeroMeansAsked, ReportAgrees, ShownIsVerified, ExplainedIsEdit, TamperIsCaught, DiffIsExact, SweepIsExact |
| `sweep_goes_on` | MCCommands, MCSweepGoesOn.cfg | as `commands`, 1 change | violated: one bad file ends the sweep |
| `der` | MCDer, MCDer.cfg | 34 messages of up to 265 bytes, 9 values a byte is altered to | TypeOK, RoundTrip, TruncationSeen, Tiled, IntegersShortest, Advances |

*Bounds.* Every check of an entry concerns the entry, the one before it and the
header, so three entries give a first, a middle and a last one; two damages
are an edit and its cover; two sessions and two keys are what splicing,
replaying across logs and rewriting need. An anchor over two entries of three,
with three changes, has room for a rewrite before the anchor, an append after
it and a change during the check. Three git calls let one hold the lock,
one commit meanwhile and one come after both. Two heads, instants, stamps and
nonces are an answer and the one it is mistaken for, or a token and the one
whose parts are spliced into it. Two changes of a log are an edit before a
command and a replacement during it, or an edit and its cover, or an append in
two steps; the second entry is the one `tamper` chooses, has an entry before it
and in one of the histories one after it. With every entry touched the run is
five times as large and was made by hand with the same result. The command
lines are every combination of options the code branches on, not of all options
with each other. The messages of `der` have each length byte, integer and arc
about a boundary (127, 128, 255, 256, 32767, 65536, 16384); above 2^23 - 1
(`Beyond`), the most that 256 times it leaves in 32 bits, numbers are not told
apart, and no message is nearly as long. The proofs drop these bounds: `Beyond` is
any number there, also one above the nonces of eight bytes that `rfc3161.py`
writes.

*Symmetry* is used in `trusted_time`, of heads and nonces, which are only
compared, and where only invariants are checked. It is not in the others, where
liveness and refinement are.

*Deadlock* is not checked in the VerifyLog, GitMirror and TrustedTime runs,
where every call really ends; it is in the Anchoring runs, and in the runs of
Commands and Der, whose end is an explicit stutter (`Exited`, `Answered`): a
command that cannot go on is an error there.

*Fairness.* `WF_vars(GitStep(c))` for each call: every command runs under a 30
second timeout, so a call that has begun moves on. Nothing is assumed of faults
or of calls being made. VerifyLog and Anchoring have no fairness and no
liveness: their calls are straight-line code and `for` loops over lists, which
end by their form. TrustedTime has none either: the timeout of a request is one per socket operation (`witness.py:77`),
which does not bound the request. Commands and Der have none: a command is a
list of steps that only gets shorter, and `Advances` is what ends the one loop
that depends on its input.

### What the violated properties say

1. `FirstOffendingIndex`: `verify.py:3-4` and `spec/attestation-v0.md:148-149`
   say the first failure is the one reported. `verify_log` parses every line
   before it checks any entry (`verify.py:170`), so an edited entry followed by
   a line that does not parse is reported at the later line.
2. `PassesOnlyValid`: `anchor.py:73` says a check passes iff the log is
   internally valid. The log that is verified and the log that is compared are
   two reads (`anchor.py:82-83`).
3. `SweepGoesOn`: `cli.py:165-166` says one bad file must not abort the sweep of
   `verify-all`, and `verify.py:1` and `145-147` promise to fail closed at an
   entry index. A file that is not UTF-8, a line that is JSON but not an object,
   a header whose fingerprint is null under a pin, and a record with a lone
   surrogate leave `verify_log` as exceptions (`pc = "raised"` in VerifyLog): no
   such log is accepted, but its caller gets no verdict. `verify-all` catches
   only `UnknownVersionError` (`cli.py:170`), so these end the command with a
   traceback, and the files after it are not looked at. Its exit status is 1 all
   the same.
4. `GenuineNeverRefused`: `spec/attestation-v0.md:99` says one JSONL line per
   event. The text is divided by `str.splitlines()` (`verify.py:160` and
   wherever a log is read), which also ends a line at U+2028 and others that
   JSON, and the repository's own `to_json_line`, leave unescaped within a
   string. A log with such a character in a payload is refused as malformed.
5. `PortRejects`: `ts/src/verify.ts:36-37` says both verifiers reject the same
   inputs, and `ts/test/verify.test.ts:1-2` "same accepts, same rejects" of the
   golden vectors, where it is so. The port validates no value of a record
   (`verify.ts:44`): a log rewritten by a key holder with a value out of contract
   is malformed for Python and accepted by the port. TsVerify has two more ways:
   hex of which a part is read (`verify.ts:73`, `122`) and RSA keys
   (`verify.ts:126`). `PortSound` is what stands all the same, under a pin.

## 4. The proofs

`tlapm` on ChainFacts, VerifyLogProofs, VerdictProofs, AnchoringProofs,
GitMirrorProofs, TrustedTimeProofs, CommandsProofs and DerProofs checks every
theorem; nothing is assumed beyond the ASSUMEs of the modules, which TLC evaluates in the runs. The
ASSUMEs about `None` and `Raised` say that an absent value is none of the values it
stands in for.

**ChainFacts** holds what the proofs about verification and about anchors share:
the types of what a writer writes and what a copy carries, what `verify_log` and
`check_anchor` can answer (`OutcomesTyped`, `ComparedPasses`), what each check of
`HeaderOrder` and `EntryOrder` comes to (`HeaderViolationsAre`, `ViolationsAre`,
`SoundIs`), and, for the least offending line, that a nonempty set of numbers has
a least member (`LeastNatural`). `SoundChain` is the heart of all of it: a chain
whose entries violate nothing (`Unviolated`, which a sound one does by
`NothingViolated`, and one the port accepts by its own checks) is, envelope for envelope, what the holder of the
header's key writes for the bodies it carries, by going up from one entry to the
next; `WrittenIsSound` is the converse.

**VerifyLogProofs** proves, for any numbers of sessions, events, keys and
damages: `TypeCorrect` ([]TypeOK), `AcceptedIsWritten` ([]AcceptedAsWritten),
`PinnedIsSound` ([]PinnedSound) and `EndedIsWhole` ([]EndedIsComplete). None of
these is inductive alone: acceptance is decided at the end of a loop whose
turns each look at one entry. The inductive invariant `IInv` adds what each
phase has established (the lines parsed so far are objects, the entries
checked so far pass every check and `prev_eh` is the hash of the last one),
that every signature under the signer's key, in the file and in what was read,
is one the signer made (`Genuine`), and that the signer's histories are in
order and end once (`CommittedOK`). Each action of the world keeps the second
part, one lemma per kind of damage, and each step of the verifier the first.
`PinnedIsSound` then goes: the last entry's signature is the signer's, so the
hash it is over is one the signer vouched for; by the links the hash unfolds
to the bodies of all entries; so the bodies are a prefix of what was
committed. `EndedIsWhole` adds that the signer commits nothing after
session_end.

**VerdictProofs** proves `Refinement` (Spec => ImplementsVerdict) and
`GenuineIsAccepted` ([]GenuineAccepted). On top of `IInv` it needs what the loops
know that the decision is made of (`Deciding`): nothing is read before the log
is, and when the entries are checked the header has passed, the entries so far
are sound and `prev_eh` is the hash of the last one. A failing turn then is at
the least offending line or the least unsound entry, and the turns before it
stutter. `GenuineIsAccepted` follows: a run that has ended gave an answer that
the declarative verdict permits (`Answered`), the signer commits only what has
canonical bytes (`Encodable`), so a genuine log offends at no line and is sound
throughout, and the one answer left is acceptance.

Its last part is about the port. `PortsAreOne` ([]PortsAgree) compares the order
of the reference's checks with the port's, on conformant logs: `FirstReported`
says that the reason given is the first of `EntryOrder` that fails, which follows
from the invariants above and the loop, and the port's first failing check is
the same one under its other name (`SameCheck`, `SameFailure`); a pass of the one
is a pass of the other (`SamePass`), before the loop and in it. `PortIsSound`
([]PortSound) needs no such comparison: on any reading of any file, what the
port's checks leave is a header that passed them (`PortPassed`) over a chain that
violates nothing, so `SoundChain` applies to the reading; the readings bring no
signature under the signer's key that the signer did not make, so the prefix
argument of `PinnedIsSound` does too (`PortPrefix`).

**AnchoringProofs** proves, for any bounds, keys, sessions and payloads,
`TypeCorrect`, `AnchorIsTheHead` ([]AnchorIsHead), `CommittedToPrefix`
([]CommitsToPrefix) and `HistoryIsPinned` ([]HistoryPinned). The difficulty is
that a call compares a read with the verdict on another, and that `HistoryPinned`
relates two calls that may lie any number of changes apart. `IInv` says that the
file is always one that somebody with a key wrote (`Owned`), that what was
verified is still there, up to one line half written, unless the file was
replaced during the call (`DuringOK`), and that what was anchored and what was
passed are chains written under the fingerprint the anchor names, ending in or
reaching its head (`PublishedOK`, `PassedOK`). An equal head then unfolds to equal
bodies, and with the fingerprint to equal envelopes.

Its last section proves `GrowthIsHarmless` ([]GrowthPasses), the other half: no false
alarm about a log that only grew. Its invariant `GInv` says of the file that it
still holds the anchored head (`Grown`: a chain in order, under the anchor's
session and key, with at most a torn line), and of a check of the published
anchor that its verdict is an acceptance or that torn line (`VerdictOK`).
`HoldingVerifies` is the step from the one to the other: a chain as it was written
fails no check of `Violations`, so the least offending line is a torn one or none.
`HoldingPasses` then gives the seven comparisons.

**GitMirrorProofs** proves, for any number of calls, `TypeCorrect`,
`OkEvidence` ([]OkIsEvidence), `Refinement` (Spec => ImplementsRegister) and
`Harmless` ([]LeftoversHarmless).
`IInv` says that HEAD's file is a prefix of the index's and that of the working
tree's, which repeats neither a line nor a piece of one (`Grown`); that the line of each call has come as
far as the call has (`Placed`); and that a commit under way recorded a prefix of
the index which extends HEAD if HEAD has not moved since (`Current`). The last
part is what makes a commit that succeeds extend HEAD, and so what makes the
register append-only; the refinement's step lemma cites it. `Harmless` needs one
invariant more, on top of `IInv`: a call no other ran beside is the only one
running, its line is not in HEAD before its own commit, and HEAD stays where that
commit found it (`Quiet`), so that neither "nothing to commit" nor a moved HEAD
can fail it.

**TrustedTimeProofs** proves, for any heads, keys, nonces and bounds,
`TypeCorrect`, `TrustedTimeBounds` ([]VerifiedExisted), `PassedBounds`
([]OkIsTrustedTime), `Fresh` ([]AcquiredFresh) and `HonestPasses`
([]UntouchedPasses). `IInv` says of every token
that is signed or in the anchor that, if its signature is the authority's over
attributes of a time-stamp, the digest in those attributes is of a content
whose head existed by its time (`SoundTokens`): altering a token never makes
another signature, so this survives every alteration. A check then closes the
gap: the digest has to be that of the token's own content, and the content has
to be over the anchored head. `FreshStamps` says that no token bears a nonce
that was not sent, nor one of the request under way with an earlier time. `HonestPasses` adds that
the authority's signed tokens are well formed (`OwnTokens`) and that, until the
first alteration, each witness is an error, a git one, or a token over the head
that the client acquired (`OwnWitnesses`).

**CommandsProofs** proves all that the run `commands` checks, for any
histories, command lines and numbers of changes: `TypeCorrect` ([]TypeOK),
`ReportsAgree` ([]ReportAgrees), `SweepsAreExact` ([]SweepIsExact), `ShownVerified`
([]ShownIsVerified), `ZeroAnswersAll` ([]ZeroMeansAsked), `DiffsAreExact`
([]DiffIsExact), `TampersAreCaught` ([]TamperIsCaught) and `ExplainedIsWhatWas`
([]ExplainedIsEdit). A command is a list of reads, and the world moves between
any two of them, so each of these relates what several reads saw. The invariants
on the way, each of which rests on those before it:

- `Base`: the log is, unless it was spoiled, one of the three stages a writer's
  history goes through (as it was, with the closing line half written, and whole)
  up to the fields that `edits` lists (`WorldTyped`); the steps that are left say
  where the command is, and what it has found out by then (`Control`, `Position`);
  what it has found out has its type (`Data`). `PlanIs` and `WhereIs` turn the
  lists of `Plan` into places, `DetectSays` to `ReadTargetSays` say what each step
  changes, and everything after works with these alone.
- `Agrees`: a verdict has a reason exactly if it is not ok, and so has what is
  printed. `ReportsAgree` follows.
- `Swept`: the rows so far are those of the first files of the listing, and a row
  is ok exactly if its file, which nothing befalls meanwhile, verifies and ends,
  if that is asked. That a log is not both accepted and refused (`OneAnswer`) is
  what makes this a fact about files.
- `Known`: the verdict is an answer about the log that was judged, under the pins
  given; the anchor's answer is the comparison of the log that was loaded; the
  exit code is the report's.
- `Seen`: as long as nothing befell the log since the command began, every read
  was of the log on disk, and as long as it was only appended to, every read was
  of one of the stages, the later ones no earlier than the first.
- `Signed`: a signature under the writer's key, in the log or in the one that was
  judged, is over the hash of some part of the writer's history (`SignedWithin`),
  whatever was done to the log, since nobody else signs with that key. `Told` is
  all of these but `Agrees` and `Swept`. From it `ShownVerified` and
  `ZeroAnswersAll` compare two reads: under the writer's fingerprint the last
  signature fixes the history that was judged, and of stages each is a prefix of
  the later ones, or has its unfinished line.
- `Differed`: what diff reports is `diff_chains` of the trusted copy and the log it
  judged. `EditsAreTheDiff` computes that for any set of edits.
- `Tampered`: the copy differs from a record with the stored hash in the one field
  that was given another value (`Copied`). `OneEditIsFound` then says what
  `localize_entry` finds, from the hash of a record being its own alone
  (`HashIsRecord`) and the fields being independent.
- `Explained`: what was explained is the entry at the index of the verdict, in
  the log that was judged. `BrokenIs` says that this is the first unsound entry,
  `SoundBefore` and `EditedIsUnsound` that a single edit is there, and
  `SaidIsEdited` what is said of it.

**DerProofs** proves `WrittenIsRead` (of every tag and content, what `encode_tlv`
writes `read_tlv` reads), from what the two forms of a length come to
(`EncodedLength`, `HeaderRead`), and of the specification `TypeCorrect`,
`CutIsSeen` ([]TruncationSeen) and `ReadingAdvances` (Advances). `IInv` says of a
buffer not yet opened what it is: the encoded message if it is whole, a proper
prefix of it if it is cut off. `CutIsSeen` then rests on the header of a prefix
being that of the whole (`CutIsUnreadable`), if it still has one, so that its end
is beyond what is left. `ChildrenTile` ([]Tiled) holds whatever was done to the
message: the children read so far cover the body from its start to where the
reader stands (`Covering`), each turn appends one that begins there
(`TileAppended`), and what one read spans is one tile (`ReadIsTile`).

`ReadAsWritten` ([]RoundTrip) and `FewestBytes` ([]IntegersShortest) rest on
`ReadBack`: as long as nothing was cut off or altered, the message stands at the
start of what arrived; once it is opened, the children read are the first values
of the message (`Begun`), and the reader stands where the bytes of the next one
begin. A turn of the loop keeps this because a TLV is read as it was written
wherever it stands and whatever follows it (`ReadThere`), and because each value's
bytes are found in the body at the length of those before it (`ValueThere`). What
a child decodes to is then the value (`ValueDecoded`): for an integer because the
bytes of a number are read as the number wherever 0 has been read before them
(`NumberRead`), and their first is not 0 (`FirstByte`), so that a zero stands
before them only where it is needed (`IntegerReadBack`, `IntegerShortest`); for an
identifier arc by arc, and each arc digit by digit (`ChunkRead`, `OidReadBack`).
`FourBytes` bounds the bytes of a length.

The prover has no induction over a predicate. `UpTo` is induction for the members
of a set: the least number of 0..N that is not in it would be a minimal element
of the finite sets 0..k, whose inclusion the library knows to be well-founded.
From it, `Recursion` shows that a function on 0..N defined by a descending
recursion exists when its steps are themselves given as a function. `DigitsAre`,
`NumberIs`, `JoinedIs` and `ArcsAfterIs` say for the four recursions of Der that
they have a solution and what their values are; nothing about them is assumed.

Every invariant and every action property of the runs that pass is proved, and
so are both refinements. Only model-checked are the liveness property
`WitnessReturns`, which is outside what the prover does (no liveness under
fairness, no ENABLED), and the five runs that end in a violation.

## 5. Not modelled, and the plan

- The wording of reasons, JSON and hex grammars, ECDSA itself, the layout of CMS
  messages: the models take their outcome.
- The command line: argument parsing, the renderings of `inspect` and `export`,
  `--quiet`, `--json`, `--recursive`, `tamper --entry`, and what `anchor` prints
  and exits with. They choose what is shown and change no verdict.
- DER: negative integers in the encoder and OIDs of fewer than two arcs
  (`DerError`), the encoders that only wrap `encode_tlv`, and identifiers 2.x
  with x of 40 or more, which `decode_oid` reads as others (`asn1.py:171`): no
  identifier of a time-stamp has one.
- TypeScript: records, canonical bytes and localisation repeat `schema.py` and
  `localize.py`. `PortsAgree` is about conformant logs, whose texts both read
  alike, and for which the Python verifier has an answer. Known to differ outside
  it, and covered by `PortSound` or shown by `PortRejects`: field values, which
  the port does not validate; hex with anything else in it, which the port reads
  up to there and Python refuses, or reads as a number (`0x`, underscores,
  leading zeros); bytes after the key's; RSA keys; numbers such as 1e0; a header
  without a version; files that are no UTF-8, whose bytes the port replaces; a
  record with a lone surrogate, which the port hashes and the Python verifier
  raises on; the separators of `GenuineNeverRefused`, since the port divides at line feeds only.
  A line of a file is what ends at a line feed, so two lines joined by another
  separator, which only Python takes for two, are not in the model.
- Files that are replaced between two reads of one call, except for anchors
  (`PassesOnlyValid`): `ZeroMeansAsked`, `ShownIsVerified` and `TamperIsCaught`
  are about a log that at most grows, `ExplainedIsEdit` about one that stays as
  it is, its stored hashes included. What is appended between two reads is what
  the writer writes.
- What no verifier looks at: an envelope's alg and encoding, the header's alg,
  keys an envelope has too many. `AcceptedAsWritten` says nothing of them.
- The copy `tamper` writes and reads again: the model checks the text it wrote.
- A witness that is a recorded error, a git_mirror one or of an unknown type
  never fails a check (`witness.py:167-180`), and a token without a nonce is
  taken (`witness.py:89`): `OkIsTrustedTime` and `AcquiredFresh` leave them out.
  A pinned key of a kind the library does not know (`rfc3161.py:412`) raises;
  every pinned key loads in the model.
- `__init__.py` re-exports.

What the plan has left are the parts above.
