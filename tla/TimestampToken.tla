--------------------------- MODULE TimestampToken ---------------------------
(***************************************************************************)
(* RFC 3161 time-stamp tokens and the witnesses that carry them            *)
(* (rfc3161.py, witness.py), as data.  The layout of the DER is left out:  *)
(* a token is what parse_timestamp_token returns.  A digest is the thing   *)
(* digested, a signature the key with the attributes it was made over.     *)
(***************************************************************************)
EXTENDS Naturals, Sequences

CONSTANTS
    Heads,     \* head_entry_hash values
    SpkiDers,  \* public keys of time-stamp authorities
    Nonces,    \* random 64-bit numbers
    None       \* Python's None

ASSUME AbsentAssumption ==
    None \notin Heads /\ None \notin SpkiDers /\ None \notin Nonces /\ None \notin Nat

Algorithms == {"SHA-256", "another"}

message_imprint_digest(head) == [sha256 |-> head]

(***************************************************************************)
(* The content of a token, and the attributes its signature covers: what   *)
(* kind of content it is over, and its digest.                             *)
(***************************************************************************)
TstInfo == [imprint_alg: Algorithms, imprint_digest: [sha256: Heads],
            gen_time: Nat, nonce: Nonces \cup {None}]

SignedAttrs == [content_type: {"TSTInfo", "another", None},
                message_digest: TstInfo \cup {None}]

(***************************************************************************)
(* A "malformed" token does not parse; one with "bad attributes" does, but *)
(* reading its signed attributes later on raises.                          *)
(***************************************************************************)
Token == [form: {"token", "bad attributes", "malformed"}, tstinfo: TstInfo,
          signed_attrs: SignedAttrs, digest_alg: Algorithms,
          signature: [key: SpkiDers \cup {None}, over: SignedAttrs]]

ASSUME TokenAssumption == None \notin Token

-----------------------------------------------------------------------------
Binds(token, imprint) ==
    /\ token.tstinfo.imprint_alg = "SHA-256"
    /\ token.tstinfo.imprint_digest = imprint

(***************************************************************************)
(* Mutant: the message digest attribute is not held against the content.   *)
(***************************************************************************)
AttributesBindNoDigest(token) ==
    /\ token.signed_attrs.content_type = "TSTInfo"
    /\ token.digest_alg = "SHA-256"

AttributesBind(token) ==
    /\ token.signed_attrs.content_type = "TSTInfo"
    /\ token.signed_attrs.message_digest = token.tstinfo
    /\ token.digest_alg = "SHA-256"

(***************************************************************************)
(* A key of the wrong kind for the token's algorithm verifies nothing.     *)
(***************************************************************************)
VerifiesUnder(spki, token) ==
    token.signature = [key |-> spki, over |-> token.signed_attrs]

(***************************************************************************)
(* verify_timestamp_token.  Without pins and unless a signature is         *)
(* required the token passes unchecked, and says so.                       *)
(***************************************************************************)
verify_timestamp_token(token, imprint, pins, require_signature) ==
    LET time == token.tstinfo.gen_time
        Fails(kind, gen_time) ==
            [valid |-> FALSE, failure_kind |-> kind, gen_time |-> gen_time,
             signature_checked |-> FALSE]
        Passes(checked) ==
            [valid |-> TRUE, failure_kind |-> None, gen_time |-> time,
             signature_checked |-> checked]
    IN  IF token.form = "malformed" THEN Fails("token_signature", None)
        ELSE IF ~Binds(token, imprint) THEN Fails("token_imprint", time)
        ELSE IF token.form = "bad attributes" THEN Fails("token_signature", None)
        ELSE IF ~AttributesBind(token) THEN Fails("token_signature", time)
        ELSE IF pins = {} /\ ~require_signature THEN Passes(FALSE)
        ELSE IF \E spki \in pins : VerifiesUnder(spki, token) THEN Passes(TRUE)
        ELSE Fails("token_signature", time)

-----------------------------------------------------------------------------
(***************************************************************************)
(* A witness of an anchor.  Token None is a missing token or one that is   *)
(* no base64.                                                              *)
(***************************************************************************)
Witness == [type: {"rfc3161", "git_mirror", "unknown"}, status: {"ok", "error"},
            token: Token \cup {None}]

CheckStatuses == {"verified", "unverified", "error-recorded", "invalid", "skipped"}

WitnessCheck == [type: {"rfc3161", "git_mirror", "unknown"}, status: CheckStatuses,
                 gen_time: Nat \cup {None}]

(***************************************************************************)
(* One turn of the loop of verify_anchor_witnesses.  Head None is an       *)
(* anchor whose head_entry_hash is no string or no 64 hex digits.          *)
(***************************************************************************)
Checked(w, head, pins) ==
    LET Reports(status, gen_time) ==
            [type |-> w.type, status |-> status, gen_time |-> gen_time]
        res == verify_timestamp_token(w.token, message_imprint_digest(head), pins, pins # {})
    IN  IF w.status = "error" THEN Reports("error-recorded", None)
        ELSE IF w.type = "git_mirror" THEN Reports("unverified", None)
        ELSE IF w.type = "unknown" THEN Reports("skipped", None)
        ELSE IF w.token = None \/ head = None THEN Reports("invalid", None)
        ELSE IF ~res.valid THEN Reports("invalid", res.gen_time)
        ELSE IF res.signature_checked THEN Reports("verified", res.gen_time)
        ELSE Reports("unverified", res.gen_time)

(***************************************************************************)
(* Mutant: an unverified token never fails the check.                      *)
(***************************************************************************)
FailsInvalid(check, allow_unverified) == check.status = "invalid"

FailsCheck(check, allow_unverified) ==
    \/ check.status = "invalid"
    \/ check.status = "unverified" /\ check.type = "rfc3161" /\ ~allow_unverified

verify_anchor_witnesses(anchor, pins, allow_unverified) ==
    LET checks == [k \in DOMAIN anchor.witnesses |->
                      Checked(anchor.witnesses[k], anchor.head_entry_hash, pins)]
    IN  [ok |-> \A k \in DOMAIN checks : ~FailsCheck(checks[k], allow_unverified),
         checks |-> checks]

=============================================================================
