---------------------------- MODULE TrustedTime ----------------------------
(***************************************************************************)
(* From a chain head to trusted time: `smoke-verify anchor --tsa-url` asks *)
(* time-stamp authorities to witness the head (cmd_anchor, TSAClient), the *)
(* anchor is published, and someone checks its witnesses later             *)
(* (verify_anchor_witnesses).  One authority is honest and signs what it   *)
(* is asked at the time of its clock.  The network may answer a request    *)
(* with anything: nothing, late, the answer to another request, or a token *)
(* signed by somebody else; and the published anchor may be altered.       *)
(***************************************************************************)
EXTENDS TimestampToken, FiniteSets, Functions

CONSTANTS
    TsaSpki,     \* the honest authority's key
    MaxTime,     \* bound: the clock
    MaxStamps,   \* bound: tokens the authority signs
    MaxWitness,  \* bound: witnesses of an anchor
    MaxAlter     \* bound: alterations of the published anchor

ASSUME TsaAssumption == TsaSpki \in SpkiDers

ASSUME TimeBounds ==
    MaxTime \in Nat /\ MaxStamps \in Nat /\ MaxWitness \in Nat /\ MaxAlter \in Nat

VARIABLES
    clock,     \* the authority's
    born,      \* born[h]: when the chain reached head h, None while it has not
    used,      \* the nonces sent out in requests so far
    stamped,   \* the tokens the authority has signed
    pc,        \* "idle", "anchor", "request", then "published"
    anchor,    \* head and witnesses, None before make_anchor
    nonce,     \* the nonce of the request under way, None without one
    asked,     \* when it was sent, None without one
    acquired,  \* tokens of the ok-witnesses returned, with the time of the request
    altered    \* how often the published anchor was altered

worldVars == <<clock, born, stamped>>
clientVars == <<used, nonce, asked, acquired>>
vars == <<worldVars, clientVars, pc, anchor, altered>>

-----------------------------------------------------------------------------
(***************************************************************************)
(* The world: time passes, the chain grows or is rewritten to a new head,  *)
(* and the authority answers requests, whoever sends them.  Nobody knows a *)
(* head before there is one.                                               *)
(***************************************************************************)
Tick ==
    /\ clock < MaxTime
    /\ clock' = clock + 1
    /\ UNCHANGED <<born, stamped, clientVars, pc, anchor, altered>>

Reach(h) ==
    /\ born[h] = None
    /\ born' = [born EXCEPT ![h] = clock]
    /\ UNCHANGED <<clock, stamped, clientVars, pc, anchor, altered>>

TokenOf(info, spki) ==
    LET attrs == [content_type |-> "TSTInfo", message_digest |-> info]
    IN  [form |-> "token", tstinfo |-> info, signed_attrs |-> attrs,
         digest_alg |-> "SHA-256", signature |-> [key |-> spki, over |-> attrs]]

InfoOf(h, t, n) ==
    [imprint_alg |-> "SHA-256", imprint_digest |-> message_imprint_digest(h),
     gen_time |-> t, nonce |-> n]

Stamp(h, n) ==
    /\ born[h] # None
    /\ n \in used \cup {None}
    /\ Cardinality(stamped) < MaxStamps
    /\ stamped' = stamped \cup {TokenOf(InfoOf(h, clock, n), TsaSpki)}
    /\ UNCHANGED <<clock, born, clientVars, pc, anchor, altered>>

-----------------------------------------------------------------------------
(***************************************************************************)
(* cmd_anchor: make_anchor, then one witness after another.                *)
(***************************************************************************)
MakeAnchor(h) ==
    /\ pc = "idle"
    /\ born[h] # None
    /\ anchor' = [head_entry_hash |-> h, witnesses |-> <<>>]
    /\ pc' = "anchor"
    /\ UNCHANGED <<worldVars, clientVars, altered>>

Add(type, status, token) ==
    anchor' = [anchor EXCEPT !.witnesses =
                  Append(@, [type |-> type, status |-> status, token |-> token])]

(***************************************************************************)
(* request_witness: the request is sent with a nonce nobody has seen.      *)
(***************************************************************************)
Ask(n) ==
    /\ pc = "anchor"
    /\ Len(anchor.witnesses) < MaxWitness
    /\ n \notin used
    /\ used' = used \cup {n}
    /\ nonce' = n
    /\ asked' = clock
    /\ pc' = "request"
    /\ UNCHANGED <<worldVars, acquired, anchor, altered>>

Answered == pc' = "anchor" /\ nonce' = None /\ asked' = None

(***************************************************************************)
(* Mutant: the failure is caught, and nothing is returned.                 *)
(***************************************************************************)
NoTokenReturnsNone ==
    /\ pc = "request"
    /\ anchor' = [anchor EXCEPT !.witnesses = Append(@, None)]
    /\ Answered
    /\ UNCHANGED <<worldVars, used, acquired, altered>>

(***************************************************************************)
(* A failure, a timeout, an answer that is no grant, has no token or does  *)
(* not parse: recorded as an error.                                        *)
(***************************************************************************)
NoToken ==
    /\ pc = "request"
    /\ Add("rfc3161", "error", None)
    /\ Answered
    /\ UNCHANGED <<worldVars, used, acquired, altered>>

(***************************************************************************)
(* Mutants: the imprint, or the nonce, of the token is not looked at.      *)
(***************************************************************************)
AnswersAnyHead(token) == token.tstinfo.nonce \in {None, nonce}

AnswersAnyRequest(token) ==
    token.tstinfo.imprint_digest = message_imprint_digest(anchor.head_entry_hash)

(***************************************************************************)
(* What the client asks of a token: nothing about who signed it.           *)
(***************************************************************************)
Answers(token) ==
    /\ token.tstinfo.imprint_digest = message_imprint_digest(anchor.head_entry_hash)
    /\ token.tstinfo.nonce \in {None, nonce}

Receive(token) ==
    /\ pc = "request"
    /\ IF Answers(token)
       THEN /\ Add("rfc3161", "ok", token)
            /\ acquired' = acquired \cup {[asked |-> asked, token |-> token]}
       ELSE Add("rfc3161", "error", None) /\ UNCHANGED acquired
    /\ Answered
    /\ UNCHANGED <<worldVars, used, altered>>

MirrorHead(status) ==
    /\ pc = "anchor"
    /\ Len(anchor.witnesses) < MaxWitness
    /\ Add("git_mirror", status, None)
    /\ pc' = "published"
    /\ UNCHANGED <<worldVars, clientVars, altered>>

Publish ==
    /\ pc = "anchor"
    /\ pc' = "published"
    /\ UNCHANGED <<worldVars, clientVars, anchor, altered>>

-----------------------------------------------------------------------------
(***************************************************************************)
(* Tokens that are not the authority's: signed by somebody else; a signed  *)
(* token with another content, the attributes left or made to fit; one the *)
(* authority's key signed as another kind of content; a broken one.  They  *)
(* bear no nonce: a check does not read it, and a client takes none as it  *)
(* takes its own.                                                          *)
(***************************************************************************)
Infos == {InfoOf(h, t, None) : h \in Heads, t \in 0..MaxTime}

Foreign == {TokenOf(info, spki) : info \in Infos, spki \in SpkiDers \ {TsaSpki}}

Mendings(token, info) ==
    {[token EXCEPT !.tstinfo = info],
     [token EXCEPT !.tstinfo = info, !.signed_attrs.message_digest = info]}

Mended == UNION {Mendings(token, info) : token \in stamped, info \in Infos}

Otherwise ==
    LET Attrs(info) == [content_type |-> "another", message_digest |-> info]
    IN  {[TokenOf(info, TsaSpki) EXCEPT !.signed_attrs = Attrs(info),
                                        !.signature.over = Attrs(info)] : info \in Infos}

Damages(token) ==
    {[token EXCEPT !.form = "bad attributes"], [token EXCEPT !.form = "malformed"],
     [token EXCEPT !.tstinfo.imprint_alg = "another"],
     [token EXCEPT !.digest_alg = "another"]}

Broken == UNION {Damages(token) : token \in stamped}

(***************************************************************************)
(* Whoever holds the published anchor changes its head, or one of its      *)
(* witnesses, or adds one.                                                 *)
(***************************************************************************)
Alter(newAnchor) ==
    /\ altered < MaxAlter
    /\ altered' = altered + 1
    /\ anchor' = newAnchor
    /\ UNCHANGED <<worldVars, clientVars, pc>>

AlteredWitnesses ==
    [type: {"rfc3161"}, status: {"ok"},
     token: stamped \cup Foreign \cup Mended \cup Otherwise \cup Broken \cup {None}]
    \cup [type: {"rfc3161"}, status: {"error"}, token: {None}]
    \cup [type: {"unknown"}, status: {"ok"}, token: {None}]

AlterAnchor ==
    /\ pc = "published"
    /\ \/ \E h \in Heads \cup {None} : Alter([anchor EXCEPT !.head_entry_hash = h])
       \/ \E w \in AlteredWitnesses :
             \/ Alter([anchor EXCEPT !.witnesses = Append(@, w)])
             \/ \E k \in DOMAIN anchor.witnesses : Alter([anchor EXCEPT !.witnesses[k] = w])

-----------------------------------------------------------------------------
Init ==
    /\ clock = 0
    /\ born = [h \in Heads |-> None]
    /\ used = {}
    /\ stamped = {}
    /\ pc = "idle"
    /\ anchor = None
    /\ nonce = None /\ asked = None
    /\ acquired = {}
    /\ altered = 0

World ==
    \/ Tick
    \/ \E h \in Heads : Reach(h)
    \/ \E h \in Heads, n \in Nonces \cup {None} : Stamp(h, n)

Next ==
    \/ World
    \/ \E h \in Heads : MakeAnchor(h)
    \/ \E n \in Nonces : Ask(n)
    \/ NoToken
    \/ \E token \in stamped \cup Foreign : Receive(token)
    \/ \E status \in {"ok", "error"} : MirrorHead(status)
    \/ Publish
    \/ AlterAnchor

Spec == Init /\ [][Next]_vars

-----------------------------------------------------------------------------
Anchor == [head_entry_hash: Heads \cup {None}, witnesses: Seq(Witness)]

TypeOK ==
    /\ clock \in 0..MaxTime
    /\ born \in [Heads -> 0..MaxTime \cup {None}]
    /\ used \subseteq Nonces
    /\ stamped \subseteq Token
    /\ pc \in {"idle", "anchor", "request", "published"}
    /\ anchor \in (IF pc = "idle" THEN {None} ELSE Anchor)
    /\ nonce \in (IF pc = "request" THEN used ELSE {None})
    /\ asked \in (IF pc = "request" THEN 0..clock ELSE {None})
    /\ acquired \subseteq [asked: 0..MaxTime, token: Token]
    /\ altered \in 0..MaxAlter

(***************************************************************************)
(* What a check of the published anchor answers.  Checking changes         *)
(* nothing, so it is not a step: the properties speak of every check       *)
(* somebody could make of the anchor as it is.                             *)
(***************************************************************************)
Answer(pins, allow_unverified) == verify_anchor_witnesses(anchor, pins, allow_unverified)

Existed(head, t) == head # None /\ born[head] # None /\ born[head] <= t

(***************************************************************************)
(* Trusted time: a witness that is reported "verified" under the           *)
(* authority's key names a time by which the chain had the anchored head,  *)
(* whatever was done to the anchor ("genTime bounds the entire chain       *)
(* prefix", witness.py).                                                   *)
(***************************************************************************)
VerifiedExisted ==
    pc = "published" =>
        \A c \in Range(Answer({TsaSpki}, FALSE).checks) :
            c.status = "verified" => Existed(anchor.head_entry_hash, c.gen_time)

(***************************************************************************)
(* A token never silently reads as trusted time: when a check under no     *)
(* other key passes, without allow_unverified, every rfc3161 witness in    *)
(* the anchor either owns up to an error or bounds the head's age.         *)
(***************************************************************************)
OkIsTrustedTime ==
    \A pins \in SUBSET {TsaSpki} :
        pc = "published" /\ Answer(pins, FALSE).ok =>
            \A w \in Range(anchor.witnesses) :
                w.type = "rfc3161" /\ w.status = "ok" =>
                    Existed(anchor.head_entry_hash, w.token.tstinfo.gen_time)

(***************************************************************************)
(* A token of the authority that answers a request with its nonce was made *)
(* after the request: no earlier answer is taken for this one.             *)
(***************************************************************************)
AcquiredFresh ==
    \A a \in acquired :
        a.token \in stamped /\ a.token.tstinfo.nonce # None =>
            a.token.tstinfo.gen_time >= a.asked

(***************************************************************************)
(* What the client acquires is good when it is checked: an anchor that     *)
(* nobody altered and whose tokens are the authority's passes under its    *)
(* key, whatever answers the network mixed up.                             *)
(***************************************************************************)
UntouchedPasses ==
    pc = "published" /\ altered = 0 /\ (\A a \in acquired : a.token \in stamped) =>
        Answer({TsaSpki}, FALSE).ok

=============================================================================
