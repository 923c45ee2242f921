----------------------------- MODULE StoredLog -----------------------------
(***************************************************************************)
(* The world the verifier reads from.  An honest signer, which lives       *)
(* outside this repository, commits the events of its sessions one by one  *)
(* and signs each; a copy of one session's log is presented as a file; and *)
(* that file is then damaged: by the edits of `smoke-verify tamper`, by    *)
(* those of the test suite, by a crash that tears its tail, by a merge of  *)
(* two logs, or by someone who writes the whole chain anew under a key of  *)
(* their own.  Nobody but the signer signs with SignerKey.                 *)
(***************************************************************************)
EXTENDS SignedChain

CONSTANTS
    SignerKey,     \* the honest signer's EC key
    SignerLabel,   \* the key_id it writes
    WriterEvents,  \* what it records after session_start
    MaxLen,        \* bound: events per session
    MaxCommits,    \* bound: events over all sessions
    MaxDamage      \* bound: damage steps

ASSUME SignerAssumption ==
    /\ SignerKey \in Keys
    /\ SignerLabel \in Labels
    /\ WriterEvents \subseteq EVENT_TYPES

ASSUME BoundsAssumption == MaxLen \in Nat /\ MaxCommits \in Nat /\ MaxDamage \in Nat

VARIABLES
    committed,  \* committed[s]: the bodies the signer has signed for session s
    file,       \* the log as it is on disk, None while there is none
    damage      \* how often it has been damaged

logVars == <<committed, file, damage>>

Commits == FoldFunction(LAMBDA bodies, n : n + Len(bodies), 0, committed)

-----------------------------------------------------------------------------
GenuineFile(session, bodies) ==
    ChainFile(session, bodies, SignerKey, SignerLabel, spki_fingerprint(SignerKey))

Init ==
    /\ committed = [s \in Sessions |-> <<>>]
    /\ file = None
    /\ damage = 0

(***************************************************************************)
(* The signer records one more event of a session: session_start first,    *)
(* nothing after session_end.                                              *)
(***************************************************************************)
Commit(s, t, p) ==
    /\ Len(committed[s]) < MaxLen
    /\ Commits < MaxCommits
    /\ ~Ended(committed[s])
    /\ (t = "session_start") <=> (committed[s] = <<>>)
    /\ committed' = [committed EXCEPT ![s] = Append(@,
           [session_id |-> s, sequence |-> Len(committed[s]), event_type |-> t,
            signer_key_id |-> SignerLabel, payload |-> p])]
    /\ UNCHANGED <<file, damage>>

(***************************************************************************)
(* A faithful copy of a session's log, as far as the session has come.     *)
(***************************************************************************)
Present(s) ==
    /\ file = None /\ damage = 0
    /\ committed[s] # <<>>
    /\ file' = GenuineFile(s, committed[s])
    /\ UNCHANGED <<committed, damage>>

-----------------------------------------------------------------------------
(***************************************************************************)
(* Damage.                                                                 *)
(***************************************************************************)
Legible == file # None /\ file.medium = "text"

Damage(newFile) ==
    /\ damage < MaxDamage
    /\ newFile # file
    /\ file' = newFile
    /\ damage' = damage + 1
    /\ UNCHANGED committed

DamageEntries(newEntries) ==
    Legible /\ Damage([file EXCEPT !.entries = newEntries])

DamageEntry(n, newEntry) ==
    DamageEntries([file.entries EXCEPT ![n] = newEntry])

Positions == IF Legible THEN DOMAIN file.entries ELSE {}

StoredHashes == {file.entries[m].entry_hash : m \in Positions}

(***************************************************************************)
(* One field of one record is edited and its line written back.            *)
(***************************************************************************)
RecordEdits(rec) ==
    {[rec EXCEPT !.payload = p] : p \in Payloads}
    \cup {[rec EXCEPT !.event_type = t] : t \in {"post_tool_use", "session_end"}}
    \cup {[rec EXCEPT !.session_id = s] : s \in Sessions}
    \cup {[rec EXCEPT !.signer_key_id = l] : l \in Labels}
    \cup {[rec EXCEPT !.sequence = q] : q \in 0..MaxLen}
    \cup {[rec EXCEPT !.prev_entry_hash = h] : h \in StoredHashes \cup {NoHash}}

EditRecord(n) ==
    \E rec \in RecordEdits(file.entries[n].record) :
        DamageEntry(n, [file.entries[n] EXCEPT !.record = rec])

(***************************************************************************)
(* The stored entry_hash is recomputed to hide an edit, or overwritten.    *)
(***************************************************************************)
RestampHash(n) ==
    \E h \in StoredHashes \cup {entry_hash(file.entries[n].record)} :
        DamageEntry(n, [file.entries[n] EXCEPT !.entry_hash = h])

EditPublicKey(n) ==
    \E l \in Labels, der \in Ders :
        DamageEntry(n, [file.entries[n] EXCEPT
                            !.public_key = PublicKeyOf(l, spki_fingerprint(der))])

SwapSignatures(m, n) ==
    /\ m < n
    /\ DamageEntries([file.entries EXCEPT ![m].signature = file.entries[n].signature,
                                          ![n].signature = file.entries[m].signature])

(***************************************************************************)
(* The signature is replaced: by nobody's, by one another key made over    *)
(* the right digest, or by one the signer made over the same 32 bytes for  *)
(* another purpose.                                                        *)
(***************************************************************************)
ForeignSignature(n) ==
    LET hash == entry_hash(file.entries[n].record)
    IN  \E sig \in [key: (SigningKeys \ {SignerKey}) \cup {None}, over: {signed_digest(hash)}]
                   \cup [key: {SignerKey}, over: [tag: {"elsewhere"}, entry_hash: {hash}]] :
            DamageEntry(n, [file.entries[n] EXCEPT !.signature = sig])

DropEntry(n) == DamageEntries(RemoveAt(file.entries, n))

SwapEntries(m, n) ==
    /\ m < n
    /\ DamageEntries([file.entries EXCEPT ![m] = file.entries[n], ![n] = file.entries[m]])

(***************************************************************************)
(* An entry is written a second time, after another one.                   *)
(***************************************************************************)
ReplayEntry(m, n) == DamageEntries(InsertAt(file.entries, n + 1, file.entries[m]))

(***************************************************************************)
(* An entry of another session is put in, the rest kept.                   *)
(***************************************************************************)
SpliceEntry(n, s) ==
    \E m \in DOMAIN committed[s] :
        DamageEntry(n, GenuineFile(s, committed[s]).entries[m])

(***************************************************************************)
(* The file ends early, at a line boundary, or inside a line; a line is    *)
(* overwritten with something that is no envelope.                         *)
(***************************************************************************)
Truncate(n) == DamageEntries(SubSeq(file.entries, 1, n - 1))

DamageLine(n) ==
    \E form \in LineForms \ {"object"} :
        DamageEntry(n, [file.entries[n] EXCEPT !.form = form])

(***************************************************************************)
(* The header is unsigned: any of its fields may be swapped, and it may be *)
(* destroyed.  When it is lost altogether the first entry's line is read   *)
(* in its place, and is no header.                                         *)
(***************************************************************************)
EditHeader ==
    /\ Legible
    /\ \E hdr \in {[file.header EXCEPT !.session_id = s] : s \in Sessions}
                  \cup {[file.header EXCEPT !.key_id = l] : l \in Labels}
                  \cup {[file.header EXCEPT !.spki_der = der] : der \in Ders}
                  \cup {[file.header EXCEPT !.spki_sha256 = f] :
                            f \in {spki_fingerprint(der) : der \in Ders} \cup {None}}
                  \cup {[file.header EXCEPT !.form = form] : form \in LineForms} :
           Damage([file EXCEPT !.header = hdr])

LoseHeader ==
    /\ Legible
    /\ file.entries # <<>>
    /\ Damage([file EXCEPT !.header.form = "malformed", !.entries = Tail(@)])

Blank ==
    /\ Legible
    /\ Damage([file EXCEPT !.header.form = "absent", !.entries = <<>>])

LoseFile == file # None /\ Damage(None)

GarbleFile == Legible /\ Damage([file EXCEPT !.medium = "undecodable"])

(***************************************************************************)
(* The events of the file with one of them altered, as signed by `label`.  *)
(***************************************************************************)
Altered(n, label, p) ==
    [m \in DOMAIN file.entries |->
        [BodyOf(file.entries[m].record) EXCEPT !.signer_key_id = label,
                                               !.payload = IF m = n THEN p ELSE @]]

(***************************************************************************)
(* The whole chain is written anew under another key, an event altered,    *)
(* every link and hash recomputed; it may claim the signer's fingerprint.  *)
(***************************************************************************)
Rewrite(n, key, label, p) ==
    /\ Legible
    /\ key # SignerKey
    /\ \E claimed \in {spki_fingerprint(key), spki_fingerprint(SignerKey)} :
           Damage(ChainFile(file.header.session_id, Altered(n, label, p), key, label, claimed))

(***************************************************************************)
(* The holder of another key mixes two histories of their own: entry n is  *)
(* the one of a history that differs at the event before it.               *)
(***************************************************************************)
MixHistories(n, p) ==
    /\ Legible
    /\ n > 1
    /\ file.header.spki_der \in SigningKeys \ {SignerKey}
    /\ DamageEntry(n, EnvelopeOf(Altered(n - 1, file.header.key_id, p), n,
                                 file.header.spki_der, file.header.key_id,
                                 spki_fingerprint(file.header.spki_der)))

DamageStep ==
    \/ \E n \in Positions :
          \/ EditRecord(n)
          \/ RestampHash(n)
          \/ EditPublicKey(n)
          \/ ForeignSignature(n)
          \/ DropEntry(n)
          \/ Truncate(n)
          \/ DamageLine(n)
          \/ \E m \in Positions :
                SwapSignatures(m, n) \/ SwapEntries(m, n) \/ ReplayEntry(m, n)
          \/ \E s \in Sessions : SpliceEntry(n, s)
          \/ \E key \in SigningKeys, label \in Labels, p \in Payloads : Rewrite(n, key, label, p)
          \/ \E p \in Payloads : MixHistories(n, p)
    \/ EditHeader
    \/ LoseHeader
    \/ Blank
    \/ LoseFile
    \/ GarbleFile

-----------------------------------------------------------------------------
(***************************************************************************)
(* What holds of every reachable world.                                    *)
(***************************************************************************)
LogTypeOK ==
    /\ committed \in [Sessions -> Seq(Body)]
    /\ file \in LogFile \cup {None}
    /\ damage \in 0..MaxDamage

(***************************************************************************)
(* The signer has vouched for a history: it is one of its sessions so far. *)
(***************************************************************************)
Vouched(hash) ==
    hash # <<>> /\ \E s \in Sessions : IsPrefix(hash, committed[s])

(***************************************************************************)
(* Every signature under SignerKey, in this contract's domain, is one the  *)
(* signer made.                                                            *)
(***************************************************************************)
Genuine(entry) ==
    entry.signature.key = SignerKey /\ entry.signature.over.tag = DOMAIN_TAG
        => Vouched(entry.signature.over.entry_hash)

(***************************************************************************)
(* The signer's own histories are in order, and end once.                  *)
(***************************************************************************)
CommittedOK ==
    \A s \in Sessions :
        /\ InOrder(s, SignerLabel, committed[s])
        /\ \A n \in DOMAIN committed[s] :
              committed[s][n].event_type = "session_end" => n = Len(committed[s])

=============================================================================
