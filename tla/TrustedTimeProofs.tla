------------------------- MODULE TrustedTimeProofs -------------------------
(***************************************************************************)
(* Theorems about TrustedTime, for any heads, keys, nonces and bounds.     *)
(***************************************************************************)
EXTENDS TrustedTime, SequenceTheorems, FiniteSetTheorems, TLAPS

-----------------------------------------------------------------------------
(***************************************************************************)
(* The tokens that are about, and what each kind keeps of the signature.   *)
(***************************************************************************)
\* The content of a token for a head.
LEMMA InfoTyped ==
  ASSUME NEW h \in Heads, NEW t \in Nat, NEW n \in Nonces \cup {None}
  PROVE  InfoOf(h, t, n) \in TstInfo
  BY DEF InfoOf, TstInfo, Algorithms, message_imprint_digest

\* A signed token is a token.
LEMMA TokenTyped ==
  ASSUME NEW info \in TstInfo, NEW spki \in SpkiDers
  PROVE  /\ TokenOf(info, spki) \in Token
         /\ TokenOf(info, spki).tstinfo = info
         /\ TokenOf(info, spki).signature.key = spki
         /\ TokenOf(info, spki).signature.over.message_digest = info
  BY DEF TokenOf, Token, SignedAttrs, Algorithms

\* The contents anybody can make up.
LEMMA InfosTyped == Infos \subseteq TstInfo
  <1>1. 0..MaxTime \subseteq Nat
    BY TimeBounds
  <1> QED
    BY <1>1, InfoTyped DEF Infos

\* Somebody else's tokens are not under the authority's key, and have no nonce.
LEMMA ForeignTokens ==
  ASSUME NEW token \in Foreign
  PROVE  token \in Token /\ token.signature.key # TsaSpki /\ token.tstinfo.nonce = None
  <1>1. PICK info \in Infos, spki \in SpkiDers \ {TsaSpki} : token = TokenOf(info, spki)
    BY DEF Foreign
  <1>2. info.nonce = None
    BY DEF Infos, InfoOf
  <1> QED
    BY <1>1, <1>2, InfosTyped, TokenTyped

\* To mend a token leaves its signature.
LEMMA MendedTokens ==
  ASSUME stamped \subseteq Token, NEW token \in Mended
  PROVE  token \in Token /\ \E old \in stamped : token.signature = old.signature
  <1>1. PICK old \in stamped, info \in Infos : token \in Mendings(old, info)
    <2>1. PICK M \in {Mendings(old, info) : old \in stamped, info \in Infos} : token \in M
      BY DEF Mended
    <2> QED
      BY <2>1
  <1>2. old \in Token /\ info \in TstInfo
    BY <1>1, InfosTyped
  <1>3. old.signed_attrs \in SignedAttrs
    BY <1>2 DEF Token
  <1>4. [old.signed_attrs EXCEPT !.message_digest = info] \in SignedAttrs
    BY <1>2, <1>3 DEF SignedAttrs
  <1>5. [old EXCEPT !.tstinfo = info] \in Token
        /\ [old EXCEPT !.tstinfo = info].signature = old.signature
    BY <1>2 DEF Token
  <1>6. /\ [old EXCEPT !.tstinfo = info, !.signed_attrs.message_digest = info] \in Token
        /\ [old EXCEPT !.tstinfo = info, !.signed_attrs.message_digest = info].signature
             = old.signature
    BY <1>2, <1>4 DEF Token
  <1> QED
    BY <1>1, <1>5, <1>6 DEF Mendings

\* What the authority's key signed as another kind of content.
LEMMA OtherwiseTokens ==
  ASSUME NEW token \in Otherwise
  PROVE  token \in Token /\ token.signature.over.content_type = "another"
  <1> DEFINE Attrs(info) == [content_type |-> "another", message_digest |-> info]
  <1>1. PICK info \in Infos :
            token = [TokenOf(info, TsaSpki) EXCEPT !.signed_attrs = Attrs(info),
                                                   !.signature.over = Attrs(info)]
    BY DEF Otherwise
  <1>2. info \in TstInfo
    BY InfosTyped
  <1>3. Attrs(info) \in SignedAttrs /\ Attrs(info).content_type = "another"
    BY <1>2 DEF SignedAttrs
  <1>4. TokenOf(info, TsaSpki) \in Token
    BY <1>2, TokenTyped, TsaAssumption
  <1> HIDE DEF Attrs
  <1> QED
    BY <1>1, <1>3, <1>4 DEF Token

\* A broken token has the signature of the token it was.
LEMMA BrokenTokens ==
  ASSUME stamped \subseteq Token, NEW token \in Broken
  PROVE  token \in Token /\ \E old \in stamped : token.signature = old.signature
  <1>1. PICK old \in stamped : token \in Damages(old)
    BY Zenon DEF Broken
  <1>2. old \in Token /\ old.tstinfo \in TstInfo
    BY <1>1 DEF Token
  <1>3. [old.tstinfo EXCEPT !.imprint_alg = "another"] \in TstInfo
    BY <1>2 DEF TstInfo, Algorithms
  <1> QED
    BY <1>1, <1>2, <1>3 DEF Damages, Token, Algorithms

\* The witnesses that alterations put into an anchor are witnesses.
LEMMA AlteredTyped ==
  ASSUME stamped \subseteq Token
  PROVE  AlteredWitnesses \subseteq Witness
  <1>1. stamped \cup Foreign \cup Mended \cup Otherwise \cup Broken \cup {None}
          \subseteq Token \cup {None}
    BY ForeignTokens, MendedTokens, OtherwiseTokens, BrokenTokens
  <1> QED
    BY <1>1 DEF AlteredWitnesses, Witness

-----------------------------------------------------------------------------
(***************************************************************************)
(* Types.                                                                  *)
(***************************************************************************)
\* An anchor with one witness more is an anchor.
LEMMA WitnessAdded ==
  ASSUME NEW a \in Anchor, NEW w \in Witness
  PROVE  LET b == [a EXCEPT !.witnesses = Append(@, w)]
         IN  /\ b \in Anchor
             /\ b.head_entry_hash = a.head_entry_hash
             /\ Range(b.witnesses) = Range(a.witnesses) \cup {w}
  <1>1. a.witnesses \in Seq(Witness)
    BY DEF Anchor
  <1>2. /\ Append(a.witnesses, w) \in Seq(Witness)
        /\ Len(a.witnesses) \in Nat /\ DOMAIN a.witnesses = 1..Len(a.witnesses)
        /\ DOMAIN Append(a.witnesses, w) = 1..(Len(a.witnesses) + 1)
        /\ \A n \in 1..Len(a.witnesses) : Append(a.witnesses, w)[n] = a.witnesses[n]
        /\ Append(a.witnesses, w)[Len(a.witnesses) + 1] = w
    BY <1>1, AppendProperties
  <1>3. Range(Append(a.witnesses, w)) = Range(a.witnesses) \cup {w}
    BY <1>2 DEF Range
  <1> QED
    BY <1>2, <1>3 DEF Anchor

\* So is one with a witness replaced.
LEMMA WitnessReplaced ==
  ASSUME NEW a \in Anchor, NEW w \in Witness, NEW k \in DOMAIN a.witnesses
  PROVE  LET b == [a EXCEPT !.witnesses[k] = w]
         IN  /\ b \in Anchor
             /\ Range(b.witnesses) \subseteq Range(a.witnesses) \cup {w}
  <1>1. a.witnesses \in Seq(Witness)
    BY DEF Anchor
  <1> DEFINE s == [a.witnesses EXCEPT ![k] = w]
  <1>2. s \in Seq(Witness)
    BY <1>1
  <1>3. Range(s) \subseteq Range(a.witnesses) \cup {w}
    BY <1>1 DEF Range
  <1>4. [a EXCEPT !.witnesses[k] = w] = [a EXCEPT !.witnesses = s]
    BY DEF Anchor
  <1> HIDE DEF s
  <1> QED
    BY <1>2, <1>3, <1>4 DEF Anchor

\* What an alteration makes of an anchor: its witnesses were there before or
\* were made up.
LEMMA AlterationTyped ==
  ASSUME TypeOK, AlterAnchor
  PROVE  /\ pc = "published" /\ pc' = pc
         /\ UNCHANGED <<worldVars, clientVars>>
         /\ altered' \in 0..MaxAlter
         /\ anchor \in Anchor /\ anchor' \in Anchor
         /\ Range(anchor'.witnesses) \subseteq Range(anchor.witnesses) \cup AlteredWitnesses
  <1>1. pc = "published" /\ anchor \in Anchor
    BY DEF AlterAnchor, TypeOK
  <1>2. AlteredWitnesses \subseteq Witness
    BY AlteredTyped DEF TypeOK
  <1>3. ASSUME NEW newAnchor, Alter(newAnchor)
        PROVE  /\ pc' = pc /\ UNCHANGED <<worldVars, clientVars>>
               /\ altered' \in 0..MaxAlter /\ anchor' = newAnchor
    BY <1>3, TimeBounds DEF Alter, TypeOK
  <1>4. CASE \E h \in Heads \cup {None} : Alter([anchor EXCEPT !.head_entry_hash = h])
    <2>1. PICK h \in Heads \cup {None} : Alter([anchor EXCEPT !.head_entry_hash = h])
      BY <1>4
    <2>2. /\ [anchor EXCEPT !.head_entry_hash = h] \in Anchor
          /\ [anchor EXCEPT !.head_entry_hash = h].witnesses = anchor.witnesses
      BY <1>1 DEF Anchor
    <2> QED
      BY <1>1, <1>3, <2>1, <2>2
  <1>5. ASSUME NEW w \in AlteredWitnesses, Alter([anchor EXCEPT !.witnesses = Append(@, w)])
        PROVE  anchor' \in Anchor
               /\ Range(anchor'.witnesses) \subseteq Range(anchor.witnesses) \cup {w}
    BY <1>1, <1>2, <1>3, <1>5, WitnessAdded
  <1>6. ASSUME NEW w \in AlteredWitnesses, NEW k \in DOMAIN anchor.witnesses,
               Alter([anchor EXCEPT !.witnesses[k] = w])
        PROVE  anchor' \in Anchor
               /\ Range(anchor'.witnesses) \subseteq Range(anchor.witnesses) \cup {w}
    <2> DEFINE b == [anchor EXCEPT !.witnesses[k] = w]
    <2>1. w \in Witness
      BY <1>2
    <2>2. b \in Anchor /\ Range(b.witnesses) \subseteq Range(anchor.witnesses) \cup {w}
      BY <1>1, <2>1, WitnessReplaced
    <2>3. anchor' = b
      BY <1>6 DEF Alter
    <2> QED
      BY <2>2, <2>3
  <1> QED
    BY <1>1, <1>3, <1>4, <1>5, <1>6 DEF AlterAnchor

\* The types are kept by every step.
LEMMA TypeStep ==
  ASSUME TypeOK, [Next]_vars
  PROVE  TypeOK'
  <1> USE DEF TypeOK, worldVars, clientVars
  <1>1. CASE Tick
    BY <1>1, TimeBounds, AbsentAssumption DEF Tick
  <1>2. ASSUME NEW h \in Heads, Reach(h)
        PROVE  TypeOK'
    BY <1>2 DEF Reach
  <1>3. ASSUME NEW h \in Heads, NEW n \in Nonces \cup {None}, Stamp(h, n)
        PROVE  TypeOK'
    <2>1. InfoOf(h, clock, n) \in TstInfo
      BY InfoTyped, TimeBounds
    <2>2. TokenOf(InfoOf(h, clock, n), TsaSpki) \in Token
      BY <2>1, TokenTyped, TsaAssumption
    <2> QED
      BY <1>3, <2>2 DEF Stamp
  <1>4. ASSUME NEW h \in Heads, MakeAnchor(h)
        PROVE  TypeOK'
    <2>1. [head_entry_hash |-> h, witnesses |-> <<>>] \in Anchor
      BY DEF Anchor
    <2> QED
      BY <1>4, <2>1 DEF MakeAnchor
  <1>5. ASSUME NEW n \in Nonces, Ask(n)
        PROVE  TypeOK'
    BY <1>5, TimeBounds DEF Ask
  <1>6. CASE NoToken
    <2>1. anchor' \in Anchor
      BY <1>6, WitnessAdded DEF NoToken, Add, Witness
    <2> QED
      BY <1>6, <2>1 DEF NoToken, Answered
  <1>7. ASSUME NEW token \in stamped \cup Foreign, Receive(token)
        PROVE  TypeOK'
    <2>1. token \in Token
      BY ForeignTokens
    <2>2. anchor' \in Anchor
      BY <1>7, <2>1, WitnessAdded DEF Receive, Add, Witness
    <2>3. acquired' \subseteq [asked: 0..MaxTime, token: Token]
      BY <1>7, <2>1, TimeBounds DEF Receive
    <2> QED
      BY <1>7, <2>2, <2>3 DEF Receive, Answered
  <1>8. ASSUME NEW status \in {"ok", "error"}, MirrorHead(status)
        PROVE  TypeOK'
    <2>1. anchor' \in Anchor
      BY <1>8, WitnessAdded DEF MirrorHead, Add, Witness
    <2> QED
      BY <1>8, <2>1 DEF MirrorHead
  <1>9. CASE Publish
    BY <1>9 DEF Publish
  <1>10. CASE AlterAnchor
    BY <1>10, AlterationTyped
  <1>11. CASE UNCHANGED vars
    BY <1>11 DEF vars
  <1> QED
    BY <1>1, <1>2, <1>3, <1>4, <1>5, <1>6, <1>7, <1>8, <1>9, <1>10, <1>11 DEF Next, World

-----------------------------------------------------------------------------
(***************************************************************************)
(* The inductive invariant.  VerifiedExisted speaks of the published       *)
(* anchor; what makes it true is in the authority's hands long before: a   *)
(* digest it signed as a time-stamp is that of a content it made itself,   *)
(* and altering a token never makes another signature (Sound).             *)
(* AcquiredFresh rests on nonces: no token has one that was not sent       *)
(* (FreshStamps).                                                          *)
(***************************************************************************)
BornBefore == \A h \in Heads : born[h] # None => born[h] <= clock

Dated(info) ==
    \E h \in Heads :
        info.imprint_digest = message_imprint_digest(h) /\ Existed(h, info.gen_time)

Sound(token) ==
    token.signature.key = TsaSpki /\ token.signature.over.content_type = "TSTInfo" =>
        Dated(token.signature.over.message_digest)

SoundTokens ==
    /\ \A token \in stamped : Sound(token)
    /\ pc # "idle" =>
          \A w \in Range(anchor.witnesses) : w.token # None => Sound(w.token)

FreshStamps ==
    \A token \in stamped :
        /\ token.signature.key = TsaSpki
        /\ token.tstinfo.nonce \in used \cup {None}
        /\ pc = "request" /\ token.tstinfo.nonce = nonce => token.tstinfo.gen_time >= asked

FreshAcquired ==
    \A a \in acquired :
        a.token.signature.key = TsaSpki /\ a.token.tstinfo.nonce # None =>
            a.token.tstinfo.gen_time >= a.asked

IInv == TypeOK /\ BornBefore /\ SoundTokens /\ FreshStamps /\ FreshAcquired

\* The inductive invariant holds at first.
LEMMA InitOK == Init => IInv
  <1> SUFFICES ASSUME Init
               PROVE  IInv
    OBVIOUS
  <1>1. TypeOK
    BY TimeBounds DEF Init, TypeOK
  <1> QED
    BY <1>1 DEF Init, IInv, BornBefore, SoundTokens, FreshStamps, FreshAcquired

\* What time the chain had a head by is never taken back, so a sound token
\* stays sound.
LEMMA SoundKept ==
  ASSUME TypeOK, [Next]_vars
  PROVE  /\ \A h \in Heads : born[h] # None => born'[h] = born[h]
         /\ \A token : Sound(token) => Sound(token)'
  <1>1. \A h \in Heads : born[h] # None => born'[h] = born[h]
    <2>1. ASSUME NEW h \in Heads, Reach(h)
          PROVE  \A g \in Heads : born[g] # None => born'[g] = born[g]
      BY <2>1 DEF Reach, TypeOK
    <2>2. CASE ~ \E h \in Heads : Reach(h)
      <3>1. born' = born
        BY <2>2, AlterationTyped DEF Next, World, vars, worldVars, Tick, Stamp, MakeAnchor, Ask,
           NoToken, Receive, MirrorHead, Publish
      <3> QED
        BY <3>1
    <2> QED
      BY <2>1, <2>2
  <1>2. ASSUME NEW token, Sound(token)
        PROVE  Sound(token)'
    BY <1>1, <1>2 DEF Sound, Dated, Existed
  <1> QED
    BY <1>1, <1>2

\* No head is older than the clock, whatever happens.
LEMMA BornBeforeStep ==
  ASSUME IInv, [Next]_vars
  PROVE  BornBefore'
  <1> USE DEF IInv
  <1>1. CASE Tick
    BY <1>1, TimeBounds, AbsentAssumption DEF Tick, BornBefore, TypeOK
  <1>2. ASSUME NEW h \in Heads, Reach(h)
        PROVE  BornBefore'
    BY <1>2, TimeBounds DEF Reach, BornBefore, TypeOK
  <1>3. CASE UNCHANGED <<clock, born>>
    BY <1>3 DEF BornBefore
  <1>4. Tick \/ (\E h \in Heads : Reach(h)) \/ UNCHANGED <<clock, born>>
    BY AlterationTyped DEF Next, World, vars, worldVars, Stamp, MakeAnchor, Ask, NoToken, Receive,
       MirrorHead, Publish
  <1> QED
    BY <1>1, <1>2, <1>3, <1>4

\* A token the authority makes is sound, at the moment it makes it.
LEMMA StampSound ==
  ASSUME IInv, NEW h \in Heads, NEW n \in Nonces \cup {None}, Stamp(h, n)
  PROVE  LET token == TokenOf(InfoOf(h, clock, n), TsaSpki)
         IN  /\ Sound(token)
             /\ token.signature.key = TsaSpki
             /\ token.tstinfo.nonce = n /\ token.tstinfo.gen_time = clock
  <1>1. InfoOf(h, clock, n) \in TstInfo
    BY InfoTyped, TimeBounds DEF IInv, TypeOK
  <1>2. /\ InfoOf(h, clock, n).imprint_digest = message_imprint_digest(h)
        /\ InfoOf(h, clock, n).gen_time = clock /\ InfoOf(h, clock, n).nonce = n
    BY DEF InfoOf
  <1>3. Existed(h, clock)
    BY AbsentAssumption DEF Stamp, IInv, BornBefore, Existed
  <1>4. Dated(InfoOf(h, clock, n))
    BY <1>2, <1>3 DEF Dated
  <1> QED
    BY <1>1, <1>2, <1>4, TokenTyped, TsaAssumption DEF Sound

\* Nothing that can be put into an anchor is unsound while what is stamped is
\* sound.
LEMMA AboutSound ==
  ASSUME TypeOK, SoundTokens
  PROVE  /\ \A token \in stamped \cup Foreign : Sound(token)
         /\ \A w \in AlteredWitnesses : w.token # None => Sound(w.token)
  <1>1. \A token \in stamped : Sound(token)
    BY DEF SoundTokens
  <1>2. \A token \in Foreign : Sound(token)
    BY ForeignTokens DEF Sound
  <1>3. ASSUME NEW token \in Mended \cup Broken
        PROVE  Sound(token)
    <2>1. PICK old \in stamped : token.signature = old.signature
      BY <1>3, MendedTokens, BrokenTokens DEF TypeOK
    <2> QED
      BY <1>1, <2>1 DEF Sound
  <1>4. \A token \in Otherwise : Sound(token)
    BY OtherwiseTokens DEF Sound
  <1>5. ASSUME NEW w \in AlteredWitnesses, w.token # None
        PROVE  w.token \in stamped \cup Foreign \cup Mended \cup Otherwise \cup Broken
    BY <1>5 DEF AlteredWitnesses
  <1> QED
    BY <1>1, <1>2, <1>3, <1>4, <1>5

\* The tokens signed and the tokens in the anchor stay sound.
LEMMA SoundTokensStep ==
  ASSUME IInv, [Next]_vars
  PROVE  SoundTokens'
  <1> DEFINE Fine(w) == w.token # None => Sound(w.token)
  <1>1. TypeOK /\ SoundTokens
    BY DEF IInv
  <1>2. \A token : Sound(token) => Sound(token)'
    BY <1>1, SoundKept
  <1>3. \A token \in stamped' : Sound(token)'
    <2>1. ASSUME NEW h \in Heads, NEW n \in Nonces \cup {None}, Stamp(h, n)
          PROVE  \A token \in stamped' : Sound(token)
      BY <1>1, <2>1, StampSound DEF Stamp, SoundTokens
    <2>2. CASE UNCHANGED stamped
      BY <1>1, <1>2, <2>2 DEF SoundTokens
    <2>3. \/ UNCHANGED stamped
          \/ \E h \in Heads, n \in Nonces \cup {None} : Stamp(h, n)
      BY <1>1, AlterationTyped DEF Next, World, vars, worldVars, Tick, Reach, MakeAnchor, Ask,
         NoToken, Receive, MirrorHead, Publish
    <2> QED
      BY <1>2, <2>1, <2>2, <2>3
  <1>4. pc' # "idle" => \A w \in Range(anchor'.witnesses) : Fine(w)
    <2>1. CASE UNCHANGED <<pc, anchor>>
      BY <1>1, <2>1 DEF SoundTokens
    <2>2. ASSUME NEW h \in Heads, MakeAnchor(h)
          PROVE  Range(anchor'.witnesses) = {}
      BY <2>2 DEF MakeAnchor, Range
    <2>3. CASE (\E n \in Nonces : Ask(n)) \/ Publish
      BY <1>1, <2>3 DEF Ask, Publish, SoundTokens
    <2>4. CASE NoToken
      <3>1. Range(anchor'.witnesses) = Range(anchor.witnesses)
                \cup {[type |-> "rfc3161", status |-> "error", token |-> None]}
        BY <1>1, <2>4, WitnessAdded DEF TypeOK, NoToken, Add, Witness
      <3> QED
        BY <1>1, <2>4, <3>1 DEF SoundTokens, NoToken
    <2>5. ASSUME NEW token \in stamped \cup Foreign, Receive(token)
          PROVE  \A w \in Range(anchor'.witnesses) : Fine(w)
      <3>1. token \in Token /\ Sound(token)
        BY <1>1, AboutSound, ForeignTokens DEF TypeOK
      <3>2. \E status \in {"ok", "error"}, t \in {token, None} :
                Range(anchor'.witnesses) = Range(anchor.witnesses)
                    \cup {[type |-> "rfc3161", status |-> status, token |-> t]}
        <4>1. CASE Answers(token)
          BY <1>1, <2>5, <3>1, <4>1, WitnessAdded DEF TypeOK, Receive, Add, Witness
        <4>2. CASE ~Answers(token)
          BY <1>1, <2>5, <4>2, WitnessAdded DEF TypeOK, Receive, Add, Witness
        <4> QED
          BY <4>1, <4>2
      <3> QED
        BY <1>1, <2>5, <3>1, <3>2 DEF SoundTokens, Receive
    <2>6. ASSUME NEW status \in {"ok", "error"}, MirrorHead(status)
          PROVE  \A w \in Range(anchor'.witnesses) : Fine(w)
      <3>1. Range(anchor'.witnesses) = Range(anchor.witnesses)
                \cup {[type |-> "git_mirror", status |-> status, token |-> None]}
        BY <1>1, <2>6, WitnessAdded DEF TypeOK, MirrorHead, Add, Witness
      <3> QED
        BY <1>1, <2>6, <3>1 DEF SoundTokens, MirrorHead
    <2>7. CASE AlterAnchor
      BY <1>1, <2>7, AlterationTyped, AboutSound DEF SoundTokens
    <2>8. CASE World
      BY <2>1, <2>8 DEF World, Tick, Reach, Stamp
    <2> HIDE DEF Fine
    <2> QED
      BY <2>1, <2>2, <2>3, <2>4, <2>5, <2>6, <2>7, <2>8 DEF Next, vars
  <1> QED
    BY <1>2, <1>3, <1>4 DEF SoundTokens

\* No nonce is answered before it is sent.
LEMMA FreshStampsStep ==
  ASSUME IInv, [Next]_vars
  PROVE  FreshStamps'
  <1>1. TypeOK /\ FreshStamps
    BY DEF IInv
  <1>2. ASSUME NEW h \in Heads, NEW n \in Nonces \cup {None}, Stamp(h, n)
        PROVE  FreshStamps'
    BY <1>1, <1>2, StampSound, TimeBounds, AbsentAssumption
       DEF Stamp, FreshStamps, TypeOK, clientVars
  <1>3. ASSUME NEW n \in Nonces, Ask(n)
        PROVE  FreshStamps'
    BY <1>1, <1>3, AbsentAssumption DEF Ask, FreshStamps, worldVars
  <1>4. CASE UNCHANGED <<stamped, used>> /\ (pc' # "request" \/ UNCHANGED <<pc, nonce, asked>>)
    BY <1>1, <1>4 DEF FreshStamps
  <1>5. \/ \E h \in Heads, n \in Nonces \cup {None} : Stamp(h, n)
        \/ \E n \in Nonces : Ask(n)
        \/ UNCHANGED <<stamped, used>> /\ (pc' # "request" \/ UNCHANGED <<pc, nonce, asked>>)
    BY <1>1, AlterationTyped DEF Next, World, vars, worldVars, clientVars, Tick, Reach, MakeAnchor,
       NoToken, Receive, Answered, MirrorHead, Publish
  <1> QED
    BY <1>2, <1>3, <1>4, <1>5

\* What is acquired is fresh when it is acquired, and is never changed.
LEMMA FreshAcquiredStep ==
  ASSUME IInv, [Next]_vars
  PROVE  FreshAcquired'
  <1>1. ASSUME NEW token \in stamped \cup Foreign, Receive(token)
        PROVE  FreshAcquired'
    <2>1. Answers(token) /\ token.signature.key = TsaSpki /\ token.tstinfo.nonce # None =>
              token.tstinfo.gen_time >= asked
      BY <1>1, ForeignTokens DEF IInv, FreshStamps, Receive, Answers
    <2>2. \/ acquired' = acquired
          \/ Answers(token) /\ acquired' = acquired \cup {[asked |-> asked, token |-> token]}
      BY <1>1 DEF Receive
    <2> QED
      BY <2>1, <2>2 DEF IInv, FreshAcquired
  <1>2. CASE UNCHANGED acquired
    BY <1>2 DEF IInv, FreshAcquired
  <1>3. UNCHANGED acquired \/ \E token \in stamped \cup Foreign : Receive(token)
    BY AlterationTyped DEF IInv, Next, World, vars, clientVars, Tick, Reach, Stamp, MakeAnchor, Ask,
       NoToken, MirrorHead, Publish
  <1> QED
    BY <1>1, <1>2, <1>3

\* The invariant is an invariant of every behaviour of the system.
THEOREM Invariance == Spec => []IInv
  <1>1. IInv /\ [Next]_vars => IInv'
    BY TypeStep, BornBeforeStep, SoundTokensStep, FreshStampsStep, FreshAcquiredStep DEF IInv
  <1> QED
    BY InitOK, <1>1, PTL DEF Spec

\* The variables keep their types (TypeOK).
THEOREM TypeCorrect == Spec => []TypeOK
  <1>1. IInv => TypeOK
    BY DEF IInv
  <1> QED
    BY Invariance, <1>1, PTL

-----------------------------------------------------------------------------
(***************************************************************************)
(* What a check concludes from a token.                                    *)
(***************************************************************************)
\* A witness reads "verified" only if its token passed every test.
LEMMA VerifiedPassed ==
  ASSUME NEW w \in Witness, NEW head \in Heads \cup {None}, NEW pins,
         Checked(w, head, pins).status = "verified"
  PROVE  /\ w.token # None /\ head # None
         /\ Binds(w.token, message_imprint_digest(head))
         /\ AttributesBind(w.token)
         /\ \E spki \in pins : VerifiesUnder(spki, w.token)
         /\ Checked(w, head, pins).gen_time = w.token.tstinfo.gen_time
  <1> DEFINE res == verify_timestamp_token(w.token, message_imprint_digest(head), pins, pins # {})
  <1>1. /\ w.token # None /\ head # None /\ res.valid /\ res.signature_checked
        /\ Checked(w, head, pins).gen_time = res.gen_time
    BY DEF Checked
  <1>2. /\ Binds(w.token, message_imprint_digest(head))
        /\ AttributesBind(w.token)
        /\ \E spki \in pins : VerifiesUnder(spki, w.token)
        /\ res.gen_time = w.token.tstinfo.gen_time
    BY <1>1 DEF verify_timestamp_token
  <1> HIDE DEF res
  <1> QED
    BY <1>1, <1>2

\* A sound token that passed under the authority's key alone bounds the age of
\* the head.
LEMMA PassedExisted ==
  ASSUME NEW head \in Heads, NEW pins \in SUBSET {TsaSpki}, NEW token \in Token, Sound(token),
         Binds(token, message_imprint_digest(head)), AttributesBind(token),
         \E spki \in pins : VerifiesUnder(spki, token)
  PROVE  Existed(head, token.tstinfo.gen_time)
  <1>1. /\ token.signature.key = TsaSpki
        /\ token.signature.over = token.signed_attrs
    BY DEF VerifiesUnder
  <1>2. Dated(token.tstinfo)
    BY <1>1 DEF Sound, AttributesBind
  <1>3. PICK h \in Heads :
            /\ token.tstinfo.imprint_digest = message_imprint_digest(h)
            /\ Existed(h, token.tstinfo.gen_time)
    BY <1>2 DEF Dated
  <1>4. h = head
    BY <1>3 DEF Binds, message_imprint_digest
  <1> QED
    BY <1>3, <1>4

\* Both together, for the witnesses of a published anchor.
LEMMA PublishedExisted ==
  ASSUME IInv, pc = "published", NEW pins \in SUBSET {TsaSpki}, NEW k \in DOMAIN anchor.witnesses,
         Checked(anchor.witnesses[k], anchor.head_entry_hash, pins).status = "verified"
  PROVE  /\ Existed(anchor.head_entry_hash, anchor.witnesses[k].token.tstinfo.gen_time)
         /\ Checked(anchor.witnesses[k], anchor.head_entry_hash, pins).gen_time
              = anchor.witnesses[k].token.tstinfo.gen_time
  <1> DEFINE w == anchor.witnesses[k]
             head == anchor.head_entry_hash
  <1>1. anchor \in Anchor
    BY DEF IInv, TypeOK
  <1>2. w \in Witness /\ w \in Range(anchor.witnesses) /\ head \in Heads \cup {None}
    BY <1>1 DEF Anchor, Range
  <1>3. Checked(w, head, pins).status = "verified"
    OBVIOUS
  <1> HIDE DEF w, head
  <1>4. /\ w.token # None /\ head # None
        /\ Binds(w.token, message_imprint_digest(head)) /\ AttributesBind(w.token)
        /\ \E spki \in pins : VerifiesUnder(spki, w.token)
        /\ Checked(w, head, pins).gen_time = w.token.tstinfo.gen_time
    BY <1>2, <1>3, VerifiedPassed
  <1>5. w.token \in Token /\ Sound(w.token)
    BY <1>2, <1>4 DEF Witness, IInv, SoundTokens
  <1>6. Existed(head, w.token.tstinfo.gen_time)
    BY <1>2, <1>4, <1>5, PassedExisted
  <1> QED
    BY <1>4, <1>6 DEF w, head

\* A witness that is reported "verified" under the authority's key bounds the
\* age of the anchored head (VerifiedExisted).
THEOREM TrustedTimeBounds == Spec => []VerifiedExisted
  <1>1. ASSUME IInv
        PROVE  VerifiedExisted
    <2> SUFFICES ASSUME pc = "published",
                        NEW c \in Range(Answer({TsaSpki}, FALSE).checks), c.status = "verified"
                 PROVE  Existed(anchor.head_entry_hash, c.gen_time)
      BY DEF VerifiedExisted
    <2>1. PICK k \in DOMAIN anchor.witnesses :
              c = Checked(anchor.witnesses[k], anchor.head_entry_hash, {TsaSpki})
      BY DEF Range, Answer, verify_anchor_witnesses
    <2> QED
      BY <1>1, <2>1, PublishedExisted
  <1> QED
    BY Invariance, <1>1, PTL

\* An anchor that passes without allow_unverified, under no other key, holds
\* no rfc3161 witness that does not bound the age of the head
\* (OkIsTrustedTime).
THEOREM PassedBounds == Spec => []OkIsTrustedTime
  <1>1. ASSUME IInv
        PROVE  OkIsTrustedTime
    <2> SUFFICES ASSUME NEW pins \in SUBSET {TsaSpki}, pc = "published", Answer(pins, FALSE).ok,
                        NEW k \in DOMAIN anchor.witnesses,
                        anchor.witnesses[k].type = "rfc3161", anchor.witnesses[k].status = "ok"
                 PROVE  Existed(anchor.head_entry_hash, anchor.witnesses[k].token.tstinfo.gen_time)
      BY DEF OkIsTrustedTime, Range
    <2> DEFINE check == Checked(anchor.witnesses[k], anchor.head_entry_hash, pins)
    <2>1. ~FailsCheck(check, FALSE)
      BY DEF Answer, verify_anchor_witnesses
    <2>2. /\ check.type = "rfc3161"
          /\ check.status \in {"verified", "unverified", "invalid"}
      BY DEF Checked
    <2> HIDE DEF check
    <2>3. check.status = "verified"
      BY <2>1, <2>2 DEF FailsCheck
    <2> QED
      BY <1>1, <2>3, PublishedExisted DEF check
  <1> QED
    BY Invariance, <1>1, PTL

\* A token of the authority that the client acquires by its nonce was made
\* after the request (AcquiredFresh).
THEOREM Fresh == Spec => []AcquiredFresh
  <1>1. IInv => AcquiredFresh
    BY DEF IInv, FreshStamps, FreshAcquired, AcquiredFresh
  <1> QED
    BY Invariance, <1>1, PTL

-----------------------------------------------------------------------------
(***************************************************************************)
(* What the authority signs and the client acquires passes.                *)
(***************************************************************************)
\* A token as the authority makes it.
OwnToken(token) ==
    \E info \in TstInfo : info.imprint_alg = "SHA-256" /\ token = TokenOf(info, TsaSpki)

\* A witness as the client records it.
OwnWitness(w) ==
    \/ w.status = "error"
    \/ w.type = "git_mirror"
    \/ /\ w.type = "rfc3161" /\ w.token # None
       /\ w.token.tstinfo.imprint_digest = message_imprint_digest(anchor.head_entry_hash)
       /\ \E a \in acquired : a.token = w.token

OwnTokens == \A token \in stamped : OwnToken(token)

OwnWitnesses ==
    pc # "idle" /\ altered = 0 =>
        /\ anchor.head_entry_hash \in Heads
        /\ \A w \in Range(anchor.witnesses) : OwnWitness(w)

\* The authority signs nothing else.
LEMMA OwnTokensStep ==
  ASSUME IInv, OwnTokens, [Next]_vars
  PROVE  OwnTokens'
  <1>1. ASSUME NEW h \in Heads, NEW n \in Nonces \cup {None}, Stamp(h, n)
        PROVE  OwnTokens'
    <2>1. InfoOf(h, clock, n) \in TstInfo /\ InfoOf(h, clock, n).imprint_alg = "SHA-256"
      BY InfoTyped, TimeBounds DEF IInv, TypeOK, InfoOf
    <2>2. OwnToken(TokenOf(InfoOf(h, clock, n), TsaSpki))
      BY <2>1 DEF OwnToken
    <2> QED
      BY <1>1, <2>2 DEF Stamp, OwnTokens, OwnToken
  <1>2. CASE UNCHANGED stamped
    BY <1>2 DEF OwnTokens, OwnToken
  <1>3. \/ UNCHANGED stamped
        \/ \E h \in Heads, n \in Nonces \cup {None} : Stamp(h, n)
    BY AlterationTyped DEF IInv, Next, World, vars, worldVars, Tick, Reach, MakeAnchor, Ask,
       NoToken, Receive, MirrorHead, Publish
  <1> QED
    BY <1>1, <1>2, <1>3

\* A witness the client records is its own, and those before it stay so.
LEMMA OwnWitnessAdded ==
  ASSUME IInv, OwnWitnesses, pc # "idle", UNCHANGED altered,
         NEW w \in Witness, anchor' = [anchor EXCEPT !.witnesses = Append(@, w)],
         acquired \subseteq acquired', altered = 0 => OwnWitness(w)'
  PROVE  OwnWitnesses'
  <1>1. /\ anchor'.head_entry_hash = anchor.head_entry_hash
        /\ Range(anchor'.witnesses) = Range(anchor.witnesses) \cup {w}
    BY WitnessAdded DEF IInv, TypeOK
  <1>2. ASSUME NEW v, OwnWitness(v)
        PROVE  OwnWitness(v)'
    BY <1>1, <1>2 DEF OwnWitness
  <1> QED
    BY <1>1, <1>2 DEF OwnWitnesses

\* Until the anchor is altered, its witnesses are what the client recorded.
LEMMA OwnWitnessesStep ==
  ASSUME IInv, OwnWitnesses, [Next]_vars
  PROVE  OwnWitnesses'
  <1>1. CASE UNCHANGED <<anchor, acquired, altered>> /\ (pc = "idle" => pc' = "idle")
    BY <1>1 DEF OwnWitnesses, OwnWitness
  <1>2. ASSUME NEW h \in Heads, MakeAnchor(h)
        PROVE  OwnWitnesses'
    BY <1>2 DEF MakeAnchor, OwnWitnesses, Range
  <1>3. CASE NoToken
    <2> DEFINE w == [type |-> "rfc3161", status |-> "error", token |-> None]
    <2>1. w \in Witness /\ OwnWitness(w)'
      BY DEF Witness, OwnWitness
    <2> QED
      BY <1>3, <2>1, OwnWitnessAdded DEF NoToken, Add
  <1>4. ASSUME NEW token \in stamped \cup Foreign, Receive(token)
        PROVE  OwnWitnesses'
    <2>1. token \in Token /\ token # None
      BY ForeignTokens, TokenAssumption DEF IInv, TypeOK
    <2>2. CASE Answers(token)
      <3> DEFINE w == [type |-> "rfc3161", status |-> "ok", token |-> token]
      <3>1. anchor' = [anchor EXCEPT !.witnesses = Append(@, w)]
            /\ acquired' = acquired \cup {[asked |-> asked, token |-> token]}
        BY <1>4, <2>2 DEF Receive, Add
      <3>2. w \in Witness
        BY <2>1 DEF Witness
      <3>3. anchor'.head_entry_hash = anchor.head_entry_hash
        BY <1>4, <3>1, <3>2, WitnessAdded DEF IInv, TypeOK, Receive
      <3>4. OwnWitness(w)'
        <4>1. \E a \in acquired' : a.token = token
          <5> DEFINE new == [asked |-> asked, token |-> token]
          <5>1. new \in acquired'
            BY <1>4, <2>2 DEF Receive
          <5>2. new.token = token
            OBVIOUS
          <5> HIDE DEF new
          <5> QED
            BY <5>1, <5>2
        <4>2. token.tstinfo.imprint_digest = message_imprint_digest(anchor'.head_entry_hash)
          BY <2>2, <3>3 DEF Answers
        <4> QED
          BY <2>1, <4>1, <4>2 DEF OwnWitness
      <3> HIDE DEF w
      <3> QED
        BY <1>4, <3>1, <3>2, <3>4, OwnWitnessAdded DEF Receive
    <2>3. CASE ~Answers(token)
      <3> DEFINE w == [type |-> "rfc3161", status |-> "error", token |-> None]
      <3>1. w \in Witness /\ OwnWitness(w)'
        BY DEF Witness, OwnWitness
      <3> QED
        BY <1>4, <2>3, <3>1, OwnWitnessAdded DEF Receive, Add
    <2> QED
      BY <2>2, <2>3
  <1>5. ASSUME NEW status \in {"ok", "error"}, MirrorHead(status)
        PROVE  OwnWitnesses'
    <2> DEFINE w == [type |-> "git_mirror", status |-> status, token |-> None]
    <2>1. w \in Witness /\ OwnWitness(w)'
      BY DEF Witness, OwnWitness
    <2> QED
      BY <1>5, <2>1, OwnWitnessAdded DEF MirrorHead, Add, clientVars
  <1>6. CASE AlterAnchor
    <2>1. \E newAnchor : Alter(newAnchor)
      BY <1>6 DEF AlterAnchor
    <2>2. altered' # 0
      BY <2>1, TimeBounds DEF Alter, IInv, TypeOK
    <2> QED
      BY <2>2 DEF OwnWitnesses
  <1>7. CASE World \/ (\E n \in Nonces : Ask(n)) \/ Publish \/ UNCHANGED vars
    BY <1>1, <1>7 DEF World, vars, clientVars, Tick, Reach, Stamp, Ask, Publish
  <1> QED
    BY <1>2, <1>3, <1>4, <1>5, <1>6, <1>7 DEF Next

\* The authority's token over the head passes under its key.
LEMMA OwnPasses ==
  ASSUME NEW w \in Witness, NEW head \in Heads,
         w.status # "error", w.type = "rfc3161", w.token # None, OwnToken(w.token),
         w.token.tstinfo.imprint_digest = message_imprint_digest(head)
  PROVE  Checked(w, head, {TsaSpki}).status = "verified"
  <1>1. /\ w.token.form = "token"
        /\ Binds(w.token, message_imprint_digest(head))
        /\ AttributesBind(w.token)
        /\ VerifiesUnder(TsaSpki, w.token)
    BY DEF OwnToken, TokenOf, Binds, AttributesBind, VerifiesUnder
  <1> DEFINE res == verify_timestamp_token(w.token, message_imprint_digest(head), {TsaSpki},
                                           {TsaSpki} # {})
  <1>2. res.valid /\ res.signature_checked
    BY <1>1 DEF verify_timestamp_token
  <1>3. head # None
    BY AbsentAssumption
  <1> HIDE DEF res
  <1> QED
    BY <1>2, <1>3 DEF Checked, res

\* An anchor nobody altered, whose tokens are the authority's, passes under
\* its key, whatever answers the network mixed up (UntouchedPasses;
\* verify_anchor_witnesses after cmd_anchor).
THEOREM HonestPasses == Spec => []UntouchedPasses
  <1>1. Init => OwnTokens /\ OwnWitnesses
    BY DEF Init, OwnTokens, OwnWitnesses
  <1>2. ASSUME IInv, OwnTokens, OwnWitnesses
        PROVE  UntouchedPasses
    <2> SUFFICES ASSUME pc = "published", altered = 0, \A a \in acquired : a.token \in stamped,
                        NEW k \in DOMAIN anchor.witnesses
                 PROVE  ~FailsCheck(Checked(anchor.witnesses[k], anchor.head_entry_hash, {TsaSpki}),
                                    FALSE)
      BY DEF UntouchedPasses, Answer, verify_anchor_witnesses
    <2> DEFINE w == anchor.witnesses[k]
               head == anchor.head_entry_hash
    <2>1. anchor \in Anchor
      BY <1>2 DEF IInv, TypeOK
    <2>2. w \in Witness /\ w \in Range(anchor.witnesses)
      BY <2>1 DEF Anchor, Range
    <2>3. head \in Heads /\ OwnWitness(w)
      BY <1>2, <2>2 DEF OwnWitnesses
    <2>4. CASE w.status = "error"
      BY <2>4 DEF Checked, FailsCheck
    <2>5. CASE w.status # "error" /\ w.type = "git_mirror"
      BY <2>5 DEF Checked, FailsCheck
    <2>6. CASE w.status # "error" /\ w.type # "git_mirror"
      <3>1. /\ w.type = "rfc3161" /\ w.token # None /\ OwnToken(w.token)
            /\ w.token.tstinfo.imprint_digest = message_imprint_digest(head)
        BY <1>2, <2>3, <2>6 DEF OwnWitness, OwnTokens
      <3> HIDE DEF w, head
      <3>2. Checked(w, head, {TsaSpki}).status = "verified"
        BY <2>2, <2>3, <2>6, <3>1, OwnPasses
      <3> QED
        BY <3>2 DEF FailsCheck, w, head
    <2> QED
      BY <2>4, <2>5, <2>6
  <1>3. IInv /\ OwnTokens /\ OwnWitnesses /\ [Next]_vars => (OwnTokens /\ OwnWitnesses)'
    BY OwnTokensStep, OwnWitnessesStep
  <1> QED
    BY Invariance, <1>1, <1>2, <1>3, PTL DEF Spec

=============================================================================
