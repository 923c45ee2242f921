--------------------------- MODULE Attestation ---------------------------
(***************************************************************************)
(* The data of a smoke.attestation.v0 log: records, their canonical hash,  *)
(* the domain-separated digest that is signed, envelopes, the chain header *)
(* and the file that holds them (schema.py, envelope.py, keys.py).         *)
(*                                                                         *)
(* SHA-256 over canonical bytes is modelled as a free constructor: the     *)
(* hash of a record IS the pair of the previous hash and of everything     *)
(* else the record says.  Unfolding it, a hash is the sequence of the      *)
(* bodies of all records up to this one, and the null prev_entry_hash of a *)
(* genesis record is the empty sequence.  Two records have the same hash   *)
(* only if they are the same record after the same history.                *)
(***************************************************************************)
EXTENDS Naturals, Sequences

CONSTANTS
    Sessions,     \* session identifiers
    Labels,       \* key_id labels: free text, nothing ties one to a key
    Keys,         \* DER SubjectPublicKeyInfo blobs that load as EC keys
    RsaKeys,      \* DER blobs that load as a public key of another kind
    BadDers,      \* hex or DER that does not load at all
    Payloads,     \* what a record carries that is only ever hashed
    Unencodable,  \* payloads canonicalize() raises on (a lone surrogate)
    None          \* Python's None, JSON's null

ASSUME UnencodableAssumption == Unencodable \subseteq Payloads

ASSUME DersAssumption ==
    /\ Keys \cap (RsaKeys \cup BadDers) = {}
    /\ RsaKeys \cap BadDers = {}

ASSUME NoneAssumption ==
    /\ None \notin Keys \cup RsaKeys \cup BadDers
    /\ None \notin Labels
    /\ None \notin Nat

EVENT_TYPES == {"pre_tool_use", "post_tool_use", "session_start", "session_end"}

(***************************************************************************)
(* The signature's domain.  "elsewhere" stands for every other use the     *)
(* key has: a signature over a 32-byte value outside this contract.        *)
(***************************************************************************)
DOMAIN_TAG == "SMOKE-AGENT-ATTESTATION-V0"
DomainTags == {DOMAIN_TAG, "elsewhere"}

SigningKeys == Keys \cup RsaKeys

Ders == SigningKeys \cup BadDers

Fingerprint == [sha256: Ders]

ASSUME FingerprintAssumption == None \notin Fingerprint

spki_fingerprint(der) == [sha256 |-> der]

(***************************************************************************)
(* Everything a record says except the link to its predecessor.            *)
(***************************************************************************)
Body == [session_id: Sessions, sequence: Nat, event_type: EVENT_TYPES,
         signer_key_id: Labels, payload: Payloads]

Hash == Seq(Body)

NoHash == <<>>

Record == [session_id: Sessions, sequence: Nat, event_type: EVENT_TYPES,
           signer_key_id: Labels, payload: Payloads, prev_entry_hash: Hash]

BodyOf(rec) ==
    [session_id |-> rec.session_id, sequence |-> rec.sequence,
     event_type |-> rec.event_type, signer_key_id |-> rec.signer_key_id,
     payload |-> rec.payload]

RecordOf(body, prev) ==
    [session_id |-> body.session_id, sequence |-> body.sequence,
     event_type |-> body.event_type, signer_key_id |-> body.signer_key_id,
     payload |-> body.payload, prev_entry_hash |-> prev]

entry_hash(rec) == Append(rec.prev_entry_hash, BodyOf(rec))

signed_digest(hash) == [tag |-> DOMAIN_TAG, entry_hash |-> hash]

Digest == [tag: DomainTags, entry_hash: Hash]

(***************************************************************************)
(* A signature is the key it was made with and the digest it was made      *)
(* over; key None is a pair r, s that is no signature of anyone.  The      *)
(* bytes of r and s are left out: another pair that verifies as well is    *)
(* the same signature here.                                                *)
(***************************************************************************)
Signature == [key: SigningKeys \cup {None}, over: Digest]

(***************************************************************************)
(* Mutant: the bare hash is verified, not the domain-separated digest.     *)
(***************************************************************************)
SignatureVerifiesBareHash(pub, signature, digest) ==
    signature.key = pub /\ signature.over = [digest EXCEPT !.tag = "elsewhere"]

SignatureVerifies(pub, signature, digest) ==
    signature.key = pub /\ signature.over = digest

PublicKeyRef == [key_id: Labels, spki_sha256: Fingerprint]

(***************************************************************************)
(* One line of the file.  from_json_line returns an envelope or a header   *)
(* for an "object", raises AttestationError or ValueError for a            *)
(* "malformed" line (bad JSON, a missing or unknown field, a field out of  *)
(* contract), and TypeError or AttributeError for a "nonobject": valid     *)
(* JSON where the code asks a number or null for a field.  What the other  *)
(* fields of such a line hold means nothing and nobody reads it.           *)
(***************************************************************************)
LineForms == {"object", "malformed", "nonobject"}

Envelope == [form: LineForms, record: Record, entry_hash: Hash,
             signature: Signature, public_key: PublicKeyRef]

Header == [form: LineForms \cup {"absent"}, session_id: Sessions, key_id: Labels,
           spki_der: Ders, spki_sha256: Fingerprint \cup {None}]

(***************************************************************************)
(* A stored log.  "undecodable" is a file that is not UTF-8; one that the  *)
(* operating system refuses is no log, None, like one that is not there;   *)
(* header form "absent" is a file of blank lines only.                     *)
(***************************************************************************)
Media == {"text", "undecodable"}

LogFile == [medium: Media, header: Header, entries: Seq(Envelope)]

(***************************************************************************)
(* The bodies a sequence of envelopes carries, oldest first.               *)
(***************************************************************************)
Bodies(entries) == [n \in 1..Len(entries) |-> BodyOf(entries[n].record)]

-----------------------------------------------------------------------------
(***************************************************************************)
(* What a verification is asked for: a pinned key fingerprint and a        *)
(* wanted key_id label, each optional.                                     *)
(***************************************************************************)
Trust == [trusted_spki_sha256: Fingerprint \cup {None},
          trusted_key_id: Labels \cup {None}]

(***************************************************************************)
(* What it answers.  `reason` names the check that failed; its wording is  *)
(* left out.  Raised stands for an exception that leaves verify_log: the   *)
(* caller gets no VerifyResult.                                            *)
(***************************************************************************)
LogReasons == {"cannot read log", "empty log", "bad chain header", "malformed entry"}

HeaderReasons == {"not the trusted anchor", "not the trusted key_id", "key unreadable",
                  "not an EC key", "spki_sha256 mismatch", "no entries"}

EntryReasons == {"sequence", "prev_entry_hash", "entry_hash", "public_key fingerprint",
                 "key_id", "session_id", "signature"}

VerifyResult ==
    [ok: BOOLEAN, count: Nat, broken_index: Nat \cup {None},
     reason: LogReasons \cup HeaderReasons \cup EntryReasons \cup {None},
     key_id: Labels \cup {None}, ended: BOOLEAN]

Fail(count, index, reason, key_id) ==
    [ok |-> FALSE, count |-> count, broken_index |-> index, reason |-> reason,
     key_id |-> key_id, ended |-> FALSE]

(***************************************************************************)
(* Mutant: an accepted log is said to have ended.                          *)
(***************************************************************************)
ValidAsEnded(count, key_id, ended) ==
    [ok |-> TRUE, count |-> count, broken_index |-> None, reason |-> None,
     key_id |-> key_id, ended |-> TRUE]

Valid(count, key_id, ended) ==
    [ok |-> TRUE, count |-> count, broken_index |-> None, reason |-> None,
     key_id |-> key_id, ended |-> ended]

Raised == [exception |-> TRUE]

(***************************************************************************)
(* None is neither a log nor an answer nor an exception.                   *)
(***************************************************************************)
ASSUME AbsenceAssumption ==
    None \notin LogFile /\ None \notin VerifyResult /\ None # Raised

=============================================================================
