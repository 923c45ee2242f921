--------------------------- MODULE VerifyLogProofs ---------------------------
(***************************************************************************)
(* Theorems about VerifyLog, for every set of sessions, keys, labels and   *)
(* payloads and every amount of damage.                                    *)
(***************************************************************************)
EXTENDS VerifyLog, ChainFacts

(***************************************************************************)
(* The envelopes whose signature is not a forgery of the signer's.         *)
(***************************************************************************)
GenuineEnvelope == {e \in Envelope : Genuine(e)}

GenuineFiles == {f \in LogFile : f.entries \in Seq(GenuineEnvelope)}

-----------------------------------------------------------------------------
(***************************************************************************)
(* The world: the invariant of the signer and of the damage.               *)
(***************************************************************************)
WorldOK ==
    /\ committed \in [Sessions -> Seq(Body)]
    /\ file \in GenuineFiles \cup {None}
    /\ damage \in 0..MaxDamage
    /\ CommittedOK

\* An envelope the signer writes for its own history is genuine.
LEMMA SignersEnvelope ==
  ASSUME WorldOK, NEW s \in Sessions, NEW n \in DOMAIN committed[s]
  PROVE  EnvelopeOf(committed[s], n, SignerKey, SignerLabel, spki_fingerprint(SignerKey))
             \in GenuineEnvelope
  <1> DEFINE e == EnvelopeOf(committed[s], n, SignerKey, SignerLabel,
                             spki_fingerprint(SignerKey))
  <1>1. committed[s] \in Seq(Body) /\ n \in 1..Len(committed[s])
    BY DEF WorldOK
  <1>2. spki_fingerprint(SignerKey) \in Fingerprint
    BY SignerAssumption DEF spki_fingerprint, Fingerprint, Ders, SigningKeys
  <1>3. e \in Envelope
    BY <1>1, <1>2, EnvelopeTyped, SignerAssumption, KeysSign
  <1>4. e.signature.over.entry_hash = SubSeq(committed[s], 1, n)
    BY DEF EnvelopeOf, SignedBy, signed_digest
  <1>5. SubSeq(committed[s], 1, n) # <<>> /\ IsPrefix(SubSeq(committed[s], 1, n), committed[s])
    <2>1. Len(SubSeq(committed[s], 1, n)) = n /\ n <= Len(committed[s]) /\ n # 0
      BY <1>1, StartTyped
    <2>2. SubSeq(SubSeq(committed[s], 1, n), 1, n) = SubSeq(committed[s], 1, n)
      BY <1>1, <2>1, StartTyped, SubSeqFull DEF Hash
    <2> QED
      BY <1>1, <2>1, <2>2 DEF IsPrefix
  <1>6. Genuine(e)
    BY <1>4, <1>5 DEF Genuine, Vouched
  <1> QED
    BY <1>3, <1>6 DEF GenuineEnvelope

\* An envelope written under another key carries no signature of the signer.
LEMMA OthersEnvelope ==
  ASSUME NEW bodies \in Seq(Body), NEW n \in 1..Len(bodies),
         NEW key \in SigningKeys \ {SignerKey}, NEW label \in Labels, NEW claimed \in Fingerprint
  PROVE  EnvelopeOf(bodies, n, key, label, claimed) \in GenuineEnvelope
  <1>1. EnvelopeOf(bodies, n, key, label, claimed) \in Envelope
    BY EnvelopeTyped
  <1>2. EnvelopeOf(bodies, n, key, label, claimed).signature.key = key
    BY DEF EnvelopeOf, SignedBy
  <1> QED
    BY <1>1, <1>2 DEF GenuineEnvelope, Genuine

(***************************************************************************)
(* Damage that puts a file of genuine signatures in place keeps the world. *)
(***************************************************************************)
LEMMA DamageKeeps ==
  ASSUME WorldOK, NEW newFile \in GenuineFiles \cup {None}, Damage(newFile)
  PROVE  WorldOK'
  <1>1. committed' = committed /\ file' = newFile /\ damage' = damage + 1
    BY DEF Damage
  <1>2. damage' \in 0..MaxDamage
    BY <1>1, BoundsAssumption DEF Damage, WorldOK
  <1>3. GenuineFiles' = GenuineFiles
    BY <1>1 DEF GenuineFiles, GenuineEnvelope, Genuine, Vouched
  <1>4. CommittedOK'
    BY <1>1 DEF CommittedOK, WorldOK
  <1> QED
    BY <1>1, <1>2, <1>3, <1>4 DEF WorldOK

\* The entries of a legible file of the world are genuine.
LEMMA LegibleFile ==
  ASSUME WorldOK, Legible
  PROVE  /\ file \in LogFile
         /\ file.entries \in Seq(GenuineEnvelope)
         /\ Positions = 1..Len(file.entries)
         /\ \A n \in Positions : file.entries[n] \in GenuineEnvelope
  BY DEF WorldOK, Legible, GenuineFiles, Positions

\* Putting genuine entries in place of the file's keeps the world.
LEMMA DamageEntriesKeep ==
  ASSUME WorldOK, NEW newEntries \in Seq(GenuineEnvelope), DamageEntries(newEntries)
  PROVE  WorldOK'
  <1>1. Legible /\ Damage([file EXCEPT !.entries = newEntries])
    BY DEF DamageEntries
  <1>2. file \in LogFile
    BY <1>1, LegibleFile
  <1>3. newEntries \in Seq(Envelope)
    BY DEF GenuineEnvelope
  <1>4. [file EXCEPT !.entries = newEntries] \in GenuineFiles
    BY <1>2, <1>3 DEF GenuineFiles, LogFile
  <1> QED
    BY <1>1, <1>4, DamageKeeps

\* Putting one genuine entry in place of another keeps the world.
LEMMA DamageEntryKeep ==
  ASSUME WorldOK, NEW n \in Positions, NEW e \in GenuineEnvelope, DamageEntry(n, e)
  PROVE  WorldOK'
  <1>1. Legible
    BY DEF DamageEntry, DamageEntries
  <1>2. [file.entries EXCEPT ![n] = e] \in Seq(GenuineEnvelope)
    BY <1>1, LegibleFile, ExceptSeq
  <1> QED
    BY <1>2, DamageEntriesKeep DEF DamageEntry

-----------------------------------------------------------------------------
(***************************************************************************)
(* One lemma per kind of damage to an entry.                               *)
(***************************************************************************)
LEMMA EditRecordKeeps ==
  ASSUME WorldOK, NEW n \in Positions, EditRecord(n)
  PROVE  WorldOK'
  <1>1. PICK rec \in RecordEdits(file.entries[n].record) :
               DamageEntry(n, [file.entries[n] EXCEPT !.record = rec])
    BY DEF EditRecord
  <1>2. Legible
    BY <1>1 DEF DamageEntry, DamageEntries
  <1>3. file.entries[n] \in Envelope /\ Genuine(file.entries[n])
    BY <1>2, LegibleFile DEF GenuineEnvelope
  <1>4. StoredHashes \subseteq Hash
    BY <1>2, LegibleFile DEF StoredHashes, GenuineEnvelope, Envelope
  <1>5. rec \in Record
    <2>1. file.entries[n].record \in Record
      BY <1>3 DEF Envelope
    <2> QED
      BY <1>1, <1>4, <2>1, NoHashTyped, BoundsAssumption DEF RecordEdits, Record, EVENT_TYPES
  <1>6. [file.entries[n] EXCEPT !.record = rec] \in GenuineEnvelope
    BY <1>3, <1>5 DEF GenuineEnvelope, Envelope, Genuine
  <1> QED
    BY <1>1, <1>6, DamageEntryKeep

\* Recomputing or overwriting a stored entry_hash keeps the world.
LEMMA RestampHashKeeps ==
  ASSUME WorldOK, NEW n \in Positions, RestampHash(n)
  PROVE  WorldOK'
  <1>1. PICK h \in StoredHashes \cup {entry_hash(file.entries[n].record)} :
               DamageEntry(n, [file.entries[n] EXCEPT !.entry_hash = h])
    BY DEF RestampHash
  <1>2. Legible
    BY <1>1 DEF DamageEntry, DamageEntries
  <1>3. file.entries[n] \in Envelope /\ Genuine(file.entries[n])
    BY <1>2, LegibleFile DEF GenuineEnvelope
  <1>4. StoredHashes \subseteq Hash
    BY <1>2, LegibleFile DEF StoredHashes, GenuineEnvelope, Envelope
  <1>5. h \in Hash
    BY <1>1, <1>3, <1>4, EntryHashTyped DEF Envelope
  <1>6. [file.entries[n] EXCEPT !.entry_hash = h] \in GenuineEnvelope
    BY <1>3, <1>5 DEF GenuineEnvelope, Envelope, Genuine
  <1> QED
    BY <1>1, <1>6, DamageEntryKeep

\* Editing an envelope's public_key keeps the world.
LEMMA EditPublicKeyKeeps ==
  ASSUME WorldOK, NEW n \in Positions, EditPublicKey(n)
  PROVE  WorldOK'
  <1>1. PICK l \in Labels, der \in Ders :
               DamageEntry(n, [file.entries[n] EXCEPT
                                  !.public_key = PublicKeyOf(l, spki_fingerprint(der))])
    BY DEF EditPublicKey
  <1>2. Legible
    BY <1>1 DEF DamageEntry, DamageEntries
  <1>3. file.entries[n] \in Envelope /\ Genuine(file.entries[n])
    BY <1>2, LegibleFile DEF GenuineEnvelope
  <1>4. PublicKeyOf(l, spki_fingerprint(der)) \in PublicKeyRef
    BY DEF PublicKeyOf, PublicKeyRef, spki_fingerprint, Fingerprint
  <1>5. [file.entries[n] EXCEPT !.public_key = PublicKeyOf(l, spki_fingerprint(der))]
            \in GenuineEnvelope
    BY <1>3, <1>4 DEF GenuineEnvelope, Envelope, Genuine
  <1> QED
    BY <1>1, <1>5, DamageEntryKeep

\* A signature by another key, or for another purpose, keeps the world.
LEMMA ForeignSignatureKeeps ==
  ASSUME WorldOK, NEW n \in Positions, ForeignSignature(n)
  PROVE  WorldOK'
  <1> DEFINE hash == entry_hash(file.entries[n].record)
             foreign == [key: (SigningKeys \ {SignerKey}) \cup {None}, over: {signed_digest(hash)}]
                        \cup [key: {SignerKey}, over: [tag: {"elsewhere"}, entry_hash: {hash}]]
  <1>1. PICK sig \in foreign : DamageEntry(n, [file.entries[n] EXCEPT !.signature = sig])
    BY DEF ForeignSignature
  <1>2. Legible
    BY <1>1 DEF DamageEntry, DamageEntries
  <1>3. file.entries[n] \in Envelope
    BY <1>2, LegibleFile DEF GenuineEnvelope
  <1>4. hash \in Hash
    BY <1>3, EntryHashTyped DEF Envelope
  <1>5. sig \in Signature /\ ~(sig.key = SignerKey /\ sig.over.tag = DOMAIN_TAG)
    <2>1. CASE sig \in [key: (SigningKeys \ {SignerKey}) \cup {None}, over: {signed_digest(hash)}]
      BY <1>4, <2>1, SignerAssumption, NoneAssumption
         DEF Signature, Digest, DomainTags, signed_digest
    <2>2. CASE sig \in [key: {SignerKey}, over: [tag: {"elsewhere"}, entry_hash: {hash}]]
      BY <1>4, <2>2, SignerAssumption, KeysSign DEF Signature, Digest, DomainTags, DOMAIN_TAG
    <2> QED
      BY <1>1, <2>1, <2>2
  <1>6. [file.entries[n] EXCEPT !.signature = sig] \in GenuineEnvelope
    BY <1>3, <1>5 DEF GenuineEnvelope, Envelope, Genuine
  <1> QED
    BY <1>1, <1>6, DamageEntryKeep

\* Spoiling a line keeps the world.
LEMMA DamageLineKeeps ==
  ASSUME WorldOK, NEW n \in Positions, DamageLine(n)
  PROVE  WorldOK'
  <1>1. PICK form \in LineForms : DamageEntry(n, [file.entries[n] EXCEPT !.form = form])
    BY DEF DamageLine
  <1>2. Legible
    BY <1>1 DEF DamageEntry, DamageEntries
  <1>3. file.entries[n] \in Envelope /\ Genuine(file.entries[n])
    BY <1>2, LegibleFile DEF GenuineEnvelope
  <1>4. [file.entries[n] EXCEPT !.form = form] \in GenuineEnvelope
    BY <1>3 DEF GenuineEnvelope, Envelope, Genuine
  <1> QED
    BY <1>1, <1>4, DamageEntryKeep

\* Exchanging two signatures keeps the world.
LEMMA SwapSignaturesKeeps ==
  ASSUME WorldOK, NEW m \in Positions, NEW n \in Positions, SwapSignatures(m, n)
  PROVE  WorldOK'
  <1> DEFINE old == file.entries
             first == [old[m] EXCEPT !.signature = old[n].signature]
             second == [old[n] EXCEPT !.signature = old[m].signature]
             new == [old EXCEPT ![m].signature = old[n].signature,
                                ![n].signature = old[m].signature]
  <1>1. m # n /\ DamageEntries(new) /\ Legible
    BY LegibleFile DEF SwapSignatures, DamageEntries
  <1>2. old \in Seq(GenuineEnvelope) /\ m \in 1..Len(old) /\ n \in 1..Len(old)
    BY <1>1, LegibleFile
  <1>3. first \in GenuineEnvelope /\ second \in GenuineEnvelope
    <2>1. old[m] \in GenuineEnvelope /\ old[n] \in GenuineEnvelope
      BY <1>2
    <2> QED
      BY <2>1 DEF GenuineEnvelope, Envelope, Genuine
  <1>4. new = [[old EXCEPT ![m] = first] EXCEPT ![n] = second]
    BY <1>1, <1>2
  <1>5. [old EXCEPT ![m] = first] \in Seq(GenuineEnvelope)
        /\ Len([old EXCEPT ![m] = first]) = Len(old)
    BY <1>2, <1>3, ExceptSeq
  <1>6. ASSUME NEW mid \in Seq(GenuineEnvelope), Len(mid) = Len(old)
        PROVE  [mid EXCEPT ![n] = second] \in Seq(GenuineEnvelope)
    BY <1>2, <1>3, <1>6, ExceptSeq
  <1>7. new \in Seq(GenuineEnvelope)
    BY <1>4, <1>5, <1>6
  <1> QED
    BY <1>1, <1>7, DamageEntriesKeep

(***************************************************************************)
(* Damage that moves, drops or repeats whole entries.                      *)
(***************************************************************************)
LEMMA DropEntryKeeps ==
  ASSUME WorldOK, NEW n \in Positions, DropEntry(n)
  PROVE  WorldOK'
  <1>1. Legible /\ DamageEntries(RemoveAt(file.entries, n))
    BY DEF DropEntry, DamageEntries
  <1>2. RemoveAt(file.entries, n) \in Seq(GenuineEnvelope)
    BY <1>1, LegibleFile, SubSeqProperties, ConcatProperties DEF RemoveAt
  <1> QED
    BY <1>1, <1>2, DamageEntriesKeep

\* Cutting the file at a line boundary keeps the world.
LEMMA TruncateKeeps ==
  ASSUME WorldOK, NEW n \in Positions, Truncate(n)
  PROVE  WorldOK'
  <1>1. Legible /\ DamageEntries(SubSeq(file.entries, 1, n - 1))
    BY DEF Truncate, DamageEntries
  <1>2. SubSeq(file.entries, 1, n - 1) \in Seq(GenuineEnvelope)
    BY <1>1, LegibleFile, SubSeqProperties
  <1> QED
    BY <1>1, <1>2, DamageEntriesKeep

\* A genuine entry inserted among genuine ones leaves all of them genuine.
LEMMA InsertKeeps ==
  ASSUME NEW S, NEW s \in Seq(S), NEW k \in 1..(Len(s) + 1), NEW e \in S
  PROVE  InsertAt(s, k, e) \in Seq(S)
  <1> DEFINE before == SubSeq(s, 1, k - 1)
             after  == SubSeq(s, k, Len(s))
             upTo   == before \o <<e>>
  <1>1. before \in Seq(S) /\ after \in Seq(S) /\ <<e>> \in Seq(S)
    BY SubSeqProperties
  <1>2. upTo \in Seq(S)
    BY <1>1, ConcatProperties
  <1>3. upTo \o after \in Seq(S)
    <2> HIDE DEF before, after, upTo
    <2> QED
      BY <1>1, <1>2, ConcatProperties
  <1> QED
    BY <1>3 DEF InsertAt

\* Repeating an entry keeps the world.
LEMMA ReplayEntryKeeps ==
  ASSUME WorldOK, NEW m \in Positions, NEW n \in Positions, ReplayEntry(m, n)
  PROVE  WorldOK'
  <1> DEFINE old == file.entries
  <1>1. Legible /\ DamageEntries(InsertAt(old, n + 1, old[m]))
    BY DEF ReplayEntry, DamageEntries
  <1>2. old \in Seq(GenuineEnvelope) /\ n \in 1..Len(old) /\ old[m] \in GenuineEnvelope
    BY <1>1, LegibleFile
  <1>3. n + 1 \in 1..(Len(old) + 1)
    BY <1>2
  <1>4. InsertAt(old, n + 1, old[m]) \in Seq(GenuineEnvelope)
    <2> HIDE DEF old
    <2> QED
      BY <1>2, <1>3, InsertKeeps
  <1> QED
    BY <1>1, <1>4, DamageEntriesKeep

\* Exchanging two entries keeps the world.
LEMMA SwapEntriesKeeps ==
  ASSUME WorldOK, NEW m \in Positions, NEW n \in Positions, SwapEntries(m, n)
  PROVE  WorldOK'
  <1> DEFINE old == file.entries
             new == [old EXCEPT ![m] = old[n], ![n] = old[m]]
  <1>1. m # n /\ Legible /\ DamageEntries(new)
    BY LegibleFile DEF SwapEntries, DamageEntries
  <1>2. /\ old \in Seq(GenuineEnvelope) /\ m \in 1..Len(old) /\ n \in 1..Len(old)
        /\ old[m] \in GenuineEnvelope /\ old[n] \in GenuineEnvelope
    BY <1>1, LegibleFile
  <1>3. new = [[old EXCEPT ![m] = old[n]] EXCEPT ![n] = old[m]]
    BY <1>1, <1>2
  <1>4. [old EXCEPT ![m] = old[n]] \in Seq(GenuineEnvelope)
        /\ Len([old EXCEPT ![m] = old[n]]) = Len(old)
    BY <1>2, ExceptSeq
  <1>5. ASSUME NEW mid \in Seq(GenuineEnvelope), Len(mid) = Len(old)
        PROVE  [mid EXCEPT ![n] = old[m]] \in Seq(GenuineEnvelope)
    BY <1>2, <1>5, ExceptSeq
  <1>6. new \in Seq(GenuineEnvelope)
    BY <1>3, <1>4, <1>5
  <1> QED
    BY <1>1, <1>6, DamageEntriesKeep

\* Bringing in an entry of another session keeps the world.
LEMMA SpliceEntryKeeps ==
  ASSUME WorldOK, NEW n \in Positions, NEW s \in Sessions, SpliceEntry(n, s)
  PROVE  WorldOK'
  <1>1. PICK m \in DOMAIN committed[s] :
               DamageEntry(n, GenuineFile(s, committed[s]).entries[m])
    BY DEF SpliceEntry
  <1>2. committed[s] \in Seq(Body)
    BY DEF WorldOK
  <1>3. GenuineFile(s, committed[s]).entries[m] =
            EnvelopeOf(committed[s], m, SignerKey, SignerLabel, spki_fingerprint(SignerKey))
    BY <1>2 DEF GenuineFile, ChainFile
  <1>4. GenuineFile(s, committed[s]).entries[m] \in GenuineEnvelope
    BY <1>3, SignersEnvelope
  <1> QED
    BY <1>1, <1>4, DamageEntryKeep

(***************************************************************************)
(* Damage by the holder of another key.                                    *)
(***************************************************************************)
LEMMA AlteredTyped ==
  ASSUME WorldOK, Legible, NEW n, NEW label \in Labels, NEW p \in Payloads
  PROVE  Altered(n, label, p) \in Seq(Body) /\ Len(Altered(n, label, p)) = Len(file.entries)
  <1>1. file.entries \in Seq(GenuineEnvelope)
    BY LegibleFile
  <1> DEFINE altered(m) == [BodyOf(file.entries[m].record) EXCEPT
                               !.signer_key_id = label, !.payload = IF m = n THEN p ELSE @]
  <1>2. ASSUME NEW m \in 1..Len(file.entries)
        PROVE  altered(m) \in Body
    <2>1. BodyOf(file.entries[m].record) \in Body
      BY <1>1, BodyTyped DEF GenuineEnvelope, Envelope
    <2> QED
      BY <2>1 DEF Body
  <1>3. DOMAIN file.entries = 1..Len(file.entries) /\ Len(file.entries) \in Nat
    BY <1>1
  <1>4. Altered(n, label, p) = [m \in 1..Len(file.entries) |-> altered(m)]
    BY <1>3 DEF Altered
  <1> HIDE DEF altered
  <1>5. [m \in 1..Len(file.entries) |-> altered(m)] \in Seq(Body)
    BY <1>2, <1>3
  <1> QED
    BY <1>3, <1>4, <1>5

\* A chain written anew under another key keeps the world.
LEMMA RewriteKeeps ==
  ASSUME WorldOK, NEW n \in Positions, NEW key \in SigningKeys, NEW label \in Labels,
         NEW p \in Payloads, Rewrite(n, key, label, p)
  PROVE  WorldOK'
  <1> DEFINE bodies == Altered(n, label, p)
  <1>1. PICK claimed \in {spki_fingerprint(key), spki_fingerprint(SignerKey)} :
               Damage(ChainFile(file.header.session_id, bodies, key, label, claimed))
    BY DEF Rewrite
  <1>2. Legible /\ key # SignerKey
    BY DEF Rewrite
  <1>3. bodies \in Seq(Body)
    BY <1>2, AlteredTyped
  <1>4. claimed \in Fingerprint
    BY SignerAssumption DEF spki_fingerprint, Fingerprint, Ders, SigningKeys
  <1>5. file.header.session_id \in Sessions
    BY <1>2, LegibleFile DEF LogFile, Header
  <1> HIDE DEF bodies
  <1>6. ChainFile(file.header.session_id, bodies, key, label, claimed) \in LogFile
    BY <1>3, <1>4, <1>5, ChainFileTyped
  <1>7. ChainFile(file.header.session_id, bodies, key, label, claimed).entries
            \in Seq(GenuineEnvelope)
    <2>1. \A m \in 1..Len(bodies) :
             EnvelopeOf(bodies, m, key, label, claimed) \in GenuineEnvelope
      BY <1>2, <1>3, <1>4, OthersEnvelope
    <2>2. [m \in 1..Len(bodies) |-> EnvelopeOf(bodies, m, key, label, claimed)]
              \in Seq(GenuineEnvelope)
      BY <1>3, <2>1
    <2> QED
      BY <2>2 DEF ChainFile
  <1>8. ChainFile(file.header.session_id, bodies, key, label, claimed) \in GenuineFiles
    BY <1>6, <1>7 DEF GenuineFiles
  <1> QED
    BY <1>1, <1>8, DamageKeeps

\* Mixing two histories of another key's holder keeps the world.
LEMMA MixHistoriesKeeps ==
  ASSUME WorldOK, NEW n \in Positions, NEW p \in Payloads, MixHistories(n, p)
  PROVE  WorldOK'
  <1> DEFINE bodies == Altered(n - 1, file.header.key_id, p)
             e == EnvelopeOf(bodies, n, file.header.spki_der, file.header.key_id,
                             spki_fingerprint(file.header.spki_der))
  <1>1. Legible /\ file.header.spki_der \in SigningKeys \ {SignerKey} /\ DamageEntry(n, e)
    BY DEF MixHistories
  <1>2. file.header.key_id \in Labels
    BY <1>1, LegibleFile DEF LogFile, Header
  <1>3. bodies \in Seq(Body) /\ n \in 1..Len(bodies)
    BY <1>1, <1>2, AlteredTyped, LegibleFile
  <1>4. spki_fingerprint(file.header.spki_der) \in Fingerprint
    BY <1>1 DEF spki_fingerprint, Fingerprint, Ders, SigningKeys
  <1> HIDE DEF bodies
  <1>5. e \in GenuineEnvelope
    BY <1>1, <1>2, <1>3, <1>4, OthersEnvelope
  <1> QED
    BY <1>1, <1>5, DamageEntryKeep

(***************************************************************************)
(* Damage to the header and to the file as a whole.                        *)
(***************************************************************************)
LEMMA EditHeaderKeeps ==
  ASSUME WorldOK, EditHeader
  PROVE  WorldOK'
  <1>1. PICK hdr : /\ Damage([file EXCEPT !.header = hdr])
                   /\ \/ \E s \in Sessions : hdr = [file.header EXCEPT !.session_id = s]
                      \/ \E l \in Labels : hdr = [file.header EXCEPT !.key_id = l]
                      \/ \E der \in Ders : hdr = [file.header EXCEPT !.spki_der = der]
                      \/ \E f \in Fingerprint \cup {None} :
                            hdr = [file.header EXCEPT !.spki_sha256 = f]
                      \/ \E form \in LineForms : hdr = [file.header EXCEPT !.form = form]
    BY DEF EditHeader, Fingerprint, spki_fingerprint
  <1>2. Legible
    BY DEF EditHeader
  <1>3. file \in LogFile /\ file.header \in Header /\ file.entries \in Seq(GenuineEnvelope)
    BY <1>2, LegibleFile DEF LogFile
  <1>4. hdr \in Header
    BY <1>1, <1>3 DEF Header
  <1>5. [file EXCEPT !.header = hdr] \in GenuineFiles
    BY <1>3, <1>4 DEF GenuineFiles, LogFile
  <1> QED
    BY <1>1, <1>5, DamageKeeps

\* Losing the header line, or every line, keeps the world.
LEMMA LoseHeaderKeeps ==
  ASSUME WorldOK, LoseHeader \/ Blank
  PROVE  WorldOK'
  <1>1. Legible
    BY DEF LoseHeader, Blank
  <1>2. file \in LogFile /\ file.header \in Header /\ file.entries \in Seq(GenuineEnvelope)
    BY <1>1, LegibleFile DEF LogFile
  <1>3. ASSUME NEW form \in {"malformed", "absent"}, NEW rest \in Seq(GenuineEnvelope)
        PROVE  [file EXCEPT !.header.form = form, !.entries = rest] \in GenuineFiles
    <2>1. [file.header EXCEPT !.form = form] \in Header
      BY <1>2, <1>3 DEF Header, LineForms
    <2>2. rest \in Seq(Envelope)
      BY DEF GenuineEnvelope
    <2> QED
      BY <1>2, <2>1, <2>2 DEF GenuineFiles, LogFile
  <1>4. CASE LoseHeader
    <2>1. Tail(file.entries) \in Seq(GenuineEnvelope)
      BY <1>2, <1>4 DEF LoseHeader
    <2> QED
      BY <1>3, <1>4, <2>1, DamageKeeps DEF LoseHeader
  <1>5. CASE Blank
    <2>1. <<>> \in Seq(GenuineEnvelope)
      OBVIOUS
    <2> QED
      BY <1>3, <1>5, <2>1, DamageKeeps DEF Blank
  <1> QED
    BY <1>4, <1>5

\* Losing the file, or its encoding, keeps the world.
LEMMA LoseFileKeeps ==
  ASSUME WorldOK, LoseFile \/ GarbleFile
  PROVE  WorldOK'
  <1>1. CASE LoseFile
    BY <1>1, DamageKeeps DEF LoseFile
  <1>2. CASE GarbleFile
    <2>1. file \in LogFile /\ file.entries \in Seq(GenuineEnvelope)
      BY <1>2, LegibleFile DEF GarbleFile
    <2>2. [file EXCEPT !.medium = "undecodable"] \in GenuineFiles
      BY <2>1 DEF GenuineFiles, LogFile, Media
    <2> QED
      BY <1>2, <2>2, DamageKeeps DEF GarbleFile
  <1> QED
    BY <1>1, <1>2

\* No damage breaks what holds of the world.
LEMMA DamageStepKeeps ==
  ASSUME WorldOK, DamageStep
  PROVE  WorldOK'
  <1>1. CASE \E n \in Positions : EditRecord(n) \/ RestampHash(n) \/ EditPublicKey(n)
                                  \/ ForeignSignature(n) \/ DamageLine(n)
    BY <1>1, EditRecordKeeps, RestampHashKeeps, EditPublicKeyKeeps, ForeignSignatureKeeps,
       DamageLineKeeps
  <1>2. CASE \E n \in Positions : DropEntry(n) \/ Truncate(n)
    BY <1>2, DropEntryKeeps, TruncateKeeps
  <1>3. CASE \E n \in Positions, m \in Positions :
               SwapSignatures(m, n) \/ SwapEntries(m, n) \/ ReplayEntry(m, n)
    BY <1>3, SwapSignaturesKeeps, SwapEntriesKeeps, ReplayEntryKeeps
  <1>4. CASE \E n \in Positions, s \in Sessions : SpliceEntry(n, s)
    BY <1>4, SpliceEntryKeeps
  <1>5. CASE \E n \in Positions, key \in SigningKeys, label \in Labels, p \in Payloads :
               Rewrite(n, key, label, p)
    BY <1>5, RewriteKeeps
  <1>6. CASE \E n \in Positions, p \in Payloads : MixHistories(n, p)
    BY <1>6, MixHistoriesKeeps
  <1>7. CASE EditHeader \/ LoseHeader \/ Blank \/ LoseFile \/ GarbleFile
    BY <1>7, EditHeaderKeeps, LoseHeaderKeeps, LoseFileKeeps
  <1> QED
    BY <1>1, <1>2, <1>3, <1>4, <1>5, <1>6, <1>7 DEF DamageStep

-----------------------------------------------------------------------------
(***************************************************************************)
(* What the signer does.  A history once committed only grows, so what it  *)
(* has vouched for stays vouched for.                                      *)
(***************************************************************************)
LEMMA PrefixOfAppend ==
  ASSUME NEW S, NEW h, NEW t \in Seq(S), NEW e \in S, IsPrefix(h, t), Len(h) \in Nat
  PROVE  IsPrefix(h, Append(t, e))
  <1>1. Len(h) <= Len(t) /\ SubSeq(h, 1, Len(h)) = SubSeq(t, 1, Len(h))
    BY DEF IsPrefix
  <1>2. Append(t, e) \in Seq(S) /\ Len(Append(t, e)) = Len(t) + 1
        /\ \A m \in 1..Len(t) : Append(t, e)[m] = t[m]
    BY AppendProperties
  <1>3. SubSeq(Append(t, e), 1, Len(h)) = SubSeq(t, 1, Len(h))
    BY <1>1, <1>2
  <1> QED
    BY <1>1, <1>2, <1>3 DEF IsPrefix

\* A commit appends one event to one session's history.
LEMMA CommitGrows ==
  ASSUME WorldOK, NEW s \in Sessions, NEW t \in EVENT_TYPES, NEW p \in Payloads,
         Commit(s, t, p)
  PROVE  /\ committed' \in [Sessions -> Seq(Body)]
         /\ \A h \in Hash, r \in Sessions :
               IsPrefix(h, committed[r]) => IsPrefix(h, committed'[r])
  <1> DEFINE event == [session_id |-> s, sequence |-> Len(committed[s]), event_type |-> t,
                       signer_key_id |-> SignerLabel, payload |-> p]
  <1>1. committed \in [Sessions -> Seq(Body)] /\ committed[s] \in Seq(Body)
    BY DEF WorldOK
  <1>2. event \in Body
    BY <1>1, SignerAssumption DEF Body
  <1>3. committed' = [committed EXCEPT ![s] = Append(@, event)]
    BY DEF Commit
  <1> HIDE DEF event
  <1>4. ASSUME NEW h \in Hash, NEW r \in Sessions, IsPrefix(h, committed[r])
        PROVE  IsPrefix(h, committed'[r])
    <2>1. Len(h) \in Nat
      BY DEF Hash
    <2>2. CASE r = s
      BY <1>1, <1>2, <1>3, <1>4, <2>1, <2>2, PrefixOfAppend
    <2>3. CASE r # s
      BY <1>1, <1>3, <1>4, <2>3
    <2> QED
      BY <2>2, <2>3
  <1> QED
    BY <1>1, <1>2, <1>3, <1>4, AppendProperties

\* A commit keeps the world: every vouched-for history stays one.
LEMMA CommitKeeps ==
  ASSUME WorldOK, NEW s \in Sessions, NEW t \in EVENT_TYPES, NEW p \in Payloads,
         Commit(s, t, p)
  PROVE  WorldOK' /\ GenuineEnvelope \subseteq GenuineEnvelope'
  <1> DEFINE event == [session_id |-> s, sequence |-> Len(committed[s]), event_type |-> t,
                       signer_key_id |-> SignerLabel, payload |-> p]
  <1>1. committed \in [Sessions -> Seq(Body)] /\ committed[s] \in Seq(Body)
    BY DEF WorldOK
  <1>2. event \in Body
    BY <1>1, SignerAssumption DEF Body
  <1>3. /\ committed' = [committed EXCEPT ![s] = Append(@, event)]
        /\ UNCHANGED <<file, damage>>
        /\ ~Ended(committed[s])
    BY DEF Commit
  <1>4. GenuineEnvelope \subseteq GenuineEnvelope'
    <2> SUFFICES ASSUME NEW e \in Envelope, Genuine(e)
                 PROVE  Genuine(e)'
      BY DEF GenuineEnvelope
    <2>1. e.signature.over.entry_hash \in Hash
      BY DEF Envelope, Signature, Digest
    <2> QED
      BY <2>1, CommitGrows DEF Genuine, Vouched
  <1>5. file' \in GenuineFiles' \cup {None}
    <2>1. CASE file = None
      BY <1>3, <2>1
    <2>2. CASE file # None
      <3>1. file \in LogFile /\ file.entries \in Seq(GenuineEnvelope)
        BY <2>2 DEF WorldOK, GenuineFiles
      <3>2. file.entries \in Seq(GenuineEnvelope')
        BY <1>4, <3>1
      <3> QED
        BY <1>3, <3>1, <3>2 DEF GenuineFiles
    <2> QED
      BY <2>1, <2>2
  <1>6. CommittedOK'
    <2>1. ASSUME NEW r \in Sessions, NEW n \in DOMAIN committed'[r]
          PROVE  /\ committed'[r][n].session_id = r
                 /\ committed'[r][n].signer_key_id = SignerLabel
                 /\ committed'[r][n].sequence = n - 1
                 /\ committed'[r][n].event_type = "session_end" => n = Len(committed'[r])
      <3>1. CASE r # s
        BY <1>1, <1>3, <3>1, <2>1 DEF WorldOK, CommittedOK, InOrder
      <3>2. CASE r = s
        <4>1. committed'[s] = Append(committed[s], event)
          BY <1>1, <1>3
        <4>2. /\ Len(committed'[s]) = Len(committed[s]) + 1
              /\ committed'[s] \in Seq(Body)
              /\ \A m \in 1..Len(committed[s]) : committed'[s][m] = committed[s][m]
              /\ committed'[s][Len(committed[s]) + 1] = event
          BY <1>1, <1>2, <4>1, AppendProperties
        <4>3. n \in 1..(Len(committed[s]) + 1)
          BY <4>2, <3>2
        <4>4. CASE n = Len(committed[s]) + 1
          BY <1>1, <3>2, <4>2, <4>4
        <4>5. CASE n \in 1..Len(committed[s])
          <5>1. /\ committed[s][n].session_id = s
                /\ committed[s][n].signer_key_id = SignerLabel
                /\ committed[s][n].sequence = n - 1
                /\ committed[s][n].event_type = "session_end" => n = Len(committed[s])
            BY <1>1, <4>5 DEF WorldOK, CommittedOK, InOrder
          <5>2. committed[s][n].event_type # "session_end"
            BY <1>1, <1>3, <4>5, <5>1 DEF Ended, Last
          <5> QED
            BY <3>2, <4>2, <4>5, <5>1, <5>2
        <4> QED
          BY <1>1, <4>3, <4>4, <4>5
      <3> QED
        BY <3>1, <3>2
    <2> QED
      BY <2>1 DEF CommittedOK, InOrder
  <1>7. committed' \in [Sessions -> Seq(Body)] /\ damage' \in 0..MaxDamage
    BY <1>3, CommitGrows DEF WorldOK
  <1> QED
    BY <1>4, <1>5, <1>6, <1>7 DEF WorldOK

\* A faithful copy of a session's log is a file of the world.
LEMMA PresentKeeps ==
  ASSUME WorldOK, NEW s \in Sessions, Present(s)
  PROVE  WorldOK'
  <1> DEFINE bodies == committed[s]
             fp == spki_fingerprint(SignerKey)
  <1>1. bodies \in Seq(Body) /\ fp \in Fingerprint
    BY SignerAssumption DEF WorldOK, spki_fingerprint, Fingerprint, Ders, SigningKeys
  <1>2. GenuineFile(s, bodies) \in LogFile
    BY <1>1, ChainFileTyped, SignerAssumption, KeysSign DEF GenuineFile
  <1>3. GenuineFile(s, bodies).entries \in Seq(GenuineEnvelope)
    <2>1. GenuineFile(s, bodies).entries =
            [n \in 1..Len(bodies) |-> EnvelopeOf(bodies, n, SignerKey, SignerLabel, fp)]
      BY DEF GenuineFile, ChainFile
    <2>2. \A n \in 1..Len(bodies) :
             EnvelopeOf(bodies, n, SignerKey, SignerLabel, fp) \in GenuineEnvelope
      <3>1. \A n \in DOMAIN committed[s] :
               EnvelopeOf(committed[s], n, SignerKey, SignerLabel, fp) \in GenuineEnvelope
        BY SignersEnvelope
      <3>2. DOMAIN committed[s] = 1..Len(committed[s])
        BY <1>1
      <3> QED
        BY <3>1, <3>2
    <2> HIDE DEF bodies
    <2> QED
      BY <1>1, <2>1, <2>2
  <1>4. GenuineFile(s, bodies) \in GenuineFiles
    BY <1>2, <1>3 DEF GenuineFiles
  <1>5. committed' = committed /\ damage' = damage /\ file' = GenuineFile(s, bodies)
    BY DEF Present
  <1>6. GenuineFiles' = GenuineFiles /\ CommittedOK'
    BY <1>5 DEF GenuineFiles, GenuineEnvelope, Genuine, Vouched, CommittedOK, WorldOK
  <1> QED
    BY <1>4, <1>5, <1>6 DEF WorldOK

\* No step of the world breaks what holds of it.
LEMMA WorldKeeps ==
  ASSUME WorldOK, World
  PROVE  WorldOK' /\ GenuineEnvelope \subseteq GenuineEnvelope'
  <1>1. CASE \E s \in Sessions, t \in {"session_start"} \cup WriterEvents,
               p \in Payloads \ Unencodable : Commit(s, t, p)
    BY <1>1, CommitKeeps, SignerAssumption DEF EVENT_TYPES
  <1>2. ASSUME UNCHANGED committed
        PROVE  GenuineEnvelope' = GenuineEnvelope
    BY <1>2 DEF GenuineEnvelope, Genuine, Vouched
  <1>3. CASE \E s \in Sessions : Present(s)
    BY <1>2, <1>3, PresentKeeps DEF Present
  <1>4. CASE DamageStep
    <2>1. UNCHANGED committed
      BY <1>4 DEF DamageStep, EditRecord, RestampHash, EditPublicKey, ForeignSignature,
         DropEntry, Truncate, DamageLine, SwapSignatures, SwapEntries, ReplayEntry, SpliceEntry,
         Rewrite, MixHistories, EditHeader, LoseHeader, Blank, LoseFile, GarbleFile,
         DamageEntry, DamageEntries, Damage
    <2> QED
      BY <1>2, <1>4, <2>1, DamageStepKeeps
  <1> QED
    BY <1>1, <1>3, <1>4 DEF World

-----------------------------------------------------------------------------
(***************************************************************************)
(* The verifier: what it has established at each point of its run.         *)
(***************************************************************************)
Hdr == lines.header

Checked(n) ==
    /\ lines.entries[n] = EnvelopeOf(Bodies(lines.entries), n, Hdr.spki_der, Hdr.key_id,
                                     spki_fingerprint(Hdr.spki_der))
    /\ lines.entries[n].record.session_id = Hdr.session_id
    /\ lines.entries[n].record.signer_key_id = Hdr.key_id
    /\ lines.entries[n].record.sequence = n - 1

Reading == pc \in {"header", "parse", "chain", "entries"}

ReadOK ==
    /\ lines # None => lines \in LogFile /\ lines.entries \in Seq(GenuineEnvelope)
    /\ Reading => lines # None /\ lines.medium = "text"
    /\ pc \in {"parse", "chain", "entries"} => Hdr.form = "object"
    /\ pc = "parse" => \A n \in 1..i : lines.entries[n].form = "object"
    /\ pc \in {"chain", "entries"} =>
          \A n \in 1..Len(lines.entries) : lines.entries[n].form = "object"

HeaderOK ==
    /\ trust.trusted_spki_sha256 \in {None, Hdr.spki_sha256}
    /\ spki_fingerprint(Hdr.spki_der) = Hdr.spki_sha256
    /\ lines.entries # <<>>

EntriesOK ==
    /\ \A n \in 1..i : Checked(n)
    /\ prev_eh = SubSeq(Bodies(lines.entries), 1, i)

AcceptedOK ==
    /\ lines # None /\ lines.medium = "text" /\ Hdr.form = "object"
    /\ HeaderOK
    /\ \A n \in 1..Len(lines.entries) : Checked(n)
    /\ result.ended => Last(lines.entries).record.event_type = "session_end"

VerifyTypeOK ==
    /\ pc \in {"read", "header", "parse", "chain", "entries", "done", "raised"}
    /\ trust \in Trust
    /\ i \in Nat
    /\ lines # None => i <= Len(lines.entries)
    /\ prev_eh \in Hash
    /\ result \in VerifyResult \cup {None}
    /\ (result # None) <=> (pc = "done")
    /\ pc = "read" => i = 0 /\ prev_eh = NoHash
    /\ pc \in {"header", "parse", "chain"} => prev_eh = NoHash

(***************************************************************************)
(* The inductive invariant.  AcceptedAsWritten and PinnedSound speak of    *)
(* the end of a run only; EntriesOK carries them through the loop, one     *)
(* checked entry at a time, and WorldOK says whose signatures those are.   *)
(***************************************************************************)
IInv ==
    /\ WorldOK
    /\ VerifyTypeOK
    /\ ReadOK
    /\ pc = "entries" => HeaderOK /\ EntriesOK
    /\ Accepted => AcceptedOK

\* The inductive invariant holds at the start.
LEMMA InitOK == VerifyInit => IInv
  <1> SUFFICES ASSUME VerifyInit
               PROVE  IInv
    OBVIOUS
  <1>1. committed = [s \in Sessions |-> <<>>] /\ file = None /\ damage = 0
    BY DEF VerifyInit, Init
  <1>2. CommittedOK
    <2>1. \A s \in Sessions : committed[s] = <<>>
      BY <1>1
    <2>2. \A n : n \notin DOMAIN <<>>
      OBVIOUS
    <2> QED
      BY <2>1, <2>2 DEF CommittedOK, InOrder
  <1>3. WorldOK
    BY <1>1, <1>2, BoundsAssumption DEF WorldOK
  <1>4. VerifyTypeOK
    BY NoHashTyped, PinsAssumption DEF VerifyInit, VerifyTypeOK
  <1> QED
    BY <1>3, <1>4 DEF VerifyInit, IInv, ReadOK, Reading, Accepted

\* What the signer and the damage do keeps the inductive invariant.
LEMMA WorldStep ==
  ASSUME IInv, World
  PROVE  IInv'
  <1>1. UNCHANGED verifyVars
    BY DEF World
  <1>2. WorldOK' /\ GenuineEnvelope \subseteq GenuineEnvelope'
    BY WorldKeeps DEF IInv
  <1>3. ReadOK'
    BY <1>1, <1>2 DEF IInv, ReadOK, verifyVars, Reading, Hdr
  <1>4. VerifyTypeOK'
    BY <1>1 DEF IInv, VerifyTypeOK, verifyVars
  <1>5. (pc = "entries" => HeaderOK /\ EntriesOK)'
    BY <1>1 DEF IInv, HeaderOK, EntriesOK, Checked, Hdr, verifyVars
  <1>6. (Accepted => AcceptedOK)'
    BY <1>1 DEF IInv, Accepted, AcceptedOK, HeaderOK, Checked, Hdr, verifyVars
  <1> QED
    BY <1>2, <1>3, <1>4, <1>5, <1>6 DEF IInv

\* A step that leaves the world alone leaves what holds of it alone.
LEMMA QuietWorld ==
  ASSUME WorldOK, UNCHANGED logVars
  PROVE  WorldOK' /\ GenuineEnvelope' = GenuineEnvelope
  BY DEF WorldOK, logVars, GenuineFiles, GenuineEnvelope, Genuine, Vouched, CommittedOK

(***************************************************************************)
(* A run that returns a failure, or raises, has nothing left to keep.      *)
(***************************************************************************)
LEMMA ReturnFails ==
  ASSUME IInv, UNCHANGED logVars, NEW verdict \in VerifyResult, ~verdict.ok, Return(verdict)
  PROVE  IInv'
  <1>1. /\ pc' = "done" /\ result' = verdict
        /\ UNCHANGED <<trust, lines, i, prev_eh>>
    BY DEF Return
  <1>2. WorldOK' /\ GenuineEnvelope' = GenuineEnvelope
    BY QuietWorld DEF IInv
  <1>3. ReadOK'
    BY <1>1, <1>2 DEF IInv, ReadOK, Reading
  <1>4. VerifyTypeOK'
    BY <1>1, AbsenceAssumption DEF IInv, VerifyTypeOK
  <1> QED
    BY <1>1, <1>2, <1>3, <1>4 DEF IInv, Accepted

\* Raising an exception keeps the inductive invariant.
LEMMA RaiseKeeps ==
  ASSUME IInv, UNCHANGED logVars, Raise, pc # "done"
  PROVE  IInv'
  <1>1. pc' = "raised" /\ UNCHANGED <<trust, lines, i, prev_eh, result>>
    BY DEF Raise
  <1>2. WorldOK' /\ GenuineEnvelope' = GenuineEnvelope
    BY QuietWorld DEF IInv
  <1>3. ReadOK'
    BY <1>1, <1>2 DEF IInv, ReadOK, Reading
  <1>4. VerifyTypeOK'
    BY <1>1 DEF IInv, VerifyTypeOK
  <1> QED
    BY <1>1, <1>2, <1>3, <1>4 DEF IInv, Accepted, VerifyTypeOK

-----------------------------------------------------------------------------
(***************************************************************************)
(* One lemma per step of the verifier.  Splitting a log into lines makes   *)
(* nobody's signature.                                                     *)
(***************************************************************************)
LEMMA AsReadTyped ==
  \A f \in GenuineFiles :
     AsRead(f) \in GenuineFiles /\ AsRead(f).medium = f.medium
  <1> SUFFICES ASSUME NEW f \in GenuineFiles
               PROVE  AsRead(f) \in GenuineFiles /\ AsRead(f).medium = f.medium
    OBVIOUS
  <1> DEFINE cut(e) == [e EXCEPT !.form = FormAsRead(e)]
             new    == [n \in 1..Len(f.entries) |-> cut(f.entries[n])]
  <1>1. f \in LogFile /\ f.entries \in Seq(GenuineEnvelope)
    BY DEF GenuineFiles
  <1>2. ASSUME NEW e \in GenuineEnvelope
        PROVE  cut(e) \in GenuineEnvelope
    BY <1>2 DEF GenuineEnvelope, Genuine, Envelope, FormAsRead, LineForms
  <1>3. \A n \in 1..Len(f.entries) : f.entries[n] \in GenuineEnvelope
    BY <1>1
  <1>4. new \in Seq(GenuineEnvelope)
    <2> HIDE DEF cut
    <2>1. \A n \in 1..Len(f.entries) : cut(f.entries[n]) \in GenuineEnvelope
      BY <1>2, <1>3
    <2>2. Len(f.entries) \in Nat
      BY <1>1
    <2> QED
      BY <2>1, <2>2
  <1>5. new \in Seq(Envelope)
    <2> HIDE DEF new
    <2> QED
      BY <1>4 DEF GenuineEnvelope
  <1>6. AsRead(f) = [f EXCEPT !.entries = new]
    BY DEF AsRead
  <1> HIDE DEF new
  <1> QED
    BY <1>1, <1>4, <1>5, <1>6 DEF GenuineFiles, LogFile

\* Reading the log keeps the inductive invariant.
LEMMA ReadLogKeeps ==
  ASSUME IInv, ReadLog
  PROVE  IInv'
  <1>1. pc = "read" /\ UNCHANGED logVars
    BY DEF ReadLog
  <1>2. WorldOK' /\ GenuineEnvelope' = GenuineEnvelope
    BY <1>1, QuietWorld DEF IInv
  <1>3. CASE Return(Fail(0, None, "cannot read log", None))
    BY <1>1, <1>3, FailTyped, ReturnFails DEF LogReasons
  <1>4. CASE /\ file # None /\ pc' \in {"raised", "header"} /\ lines' = AsRead(file)
             /\ pc' = "header" => file.medium = "text"
             /\ UNCHANGED <<trust, i, prev_eh, result>>
    <2>0. file \in GenuineFiles
      BY <1>4 DEF IInv, WorldOK, GenuineFiles
    <2>1. /\ lines' \in LogFile /\ lines'.entries \in Seq(GenuineEnvelope)
          /\ lines'.medium = file.medium
      BY <1>4, <2>0, AsReadTyped DEF GenuineFiles
    <2>2. ReadOK'
      BY <1>2, <1>4, <2>1, AbsenceAssumption DEF ReadOK, Reading, Hdr
    <2>3. VerifyTypeOK'
      BY <1>1, <1>4, <2>1 DEF IInv, VerifyTypeOK
    <2> QED
      BY <1>1, <1>2, <1>4, <2>2, <2>3 DEF IInv, Accepted, VerifyTypeOK
  <1> QED
    BY <1>3, <1>4 DEF ReadLog

\* Parsing the header line keeps the inductive invariant.
LEMMA ParseHeaderKeeps ==
  ASSUME IInv, ParseHeader
  PROVE  IInv'
  <1>1. pc = "header" /\ UNCHANGED logVars
    BY DEF ParseHeader
  <1>2. WorldOK' /\ GenuineEnvelope' = GenuineEnvelope
    BY <1>1, QuietWorld DEF IInv
  <1>3. CASE Return(Fail(0, None, "empty log", None))
             \/ Return(Fail(0, None, "bad chain header", None))
    BY <1>1, <1>3, FailTyped, ReturnFails DEF LogReasons
  <1>4. CASE Raise
    BY <1>1, <1>4, RaiseKeeps
  <1>5. CASE lines.header.form = "object" /\ Goto("parse")
    <2>1. pc' = "parse" /\ i' = 0 /\ UNCHANGED <<trust, lines, prev_eh, result>>
      BY <1>5 DEF Goto
    <2>2. lines # None /\ lines.entries \in Seq(GenuineEnvelope)
      BY <1>1 DEF IInv, ReadOK, Reading
    <2>3. ReadOK'
      BY <1>1, <1>2, <1>5, <2>1 DEF IInv, ReadOK, Reading, Hdr
    <2>4. VerifyTypeOK'
      BY <1>1, <2>1, <2>2 DEF IInv, VerifyTypeOK
    <2> QED
      BY <1>1, <1>2, <2>1, <2>3, <2>4 DEF IInv, Accepted, VerifyTypeOK
  <1> QED
    BY <1>3, <1>4, <1>5 DEF ParseHeader

\* A turn of the parse loop keeps the inductive invariant.
LEMMA ParseEntryKeeps ==
  ASSUME IInv, ParseEntry
  PROVE  IInv'
  <1>1. pc = "parse" /\ UNCHANGED logVars /\ i < Len(lines.entries) /\ i \in Nat
    BY DEF ParseEntry, IInv, VerifyTypeOK
  <1>2. WorldOK' /\ GenuineEnvelope' = GenuineEnvelope
    BY <1>1, QuietWorld DEF IInv
  <1>3. lines # None /\ lines \in LogFile /\ Len(lines.entries) \in Nat
    BY <1>1 DEF IInv, ReadOK, Reading, LogFile
  <1>4. CASE Return(Fail(i, i, "malformed entry", lines.header.key_id))
    <2>1. lines.header.key_id \in Labels
      BY <1>3 DEF LogFile, Header
    <2> QED
      BY <1>1, <1>4, <2>1, FailTyped, ReturnFails DEF LogReasons
  <1>5. CASE Raise
    BY <1>1, <1>5, RaiseKeeps
  <1>6. CASE /\ lines.entries[i + 1].form = "object"
             /\ i' = i + 1
             /\ UNCHANGED <<pc, trust, lines, prev_eh, result>>
    <2>1. ReadOK'
      BY <1>1, <1>2, <1>6 DEF IInv, ReadOK, Reading, Hdr
    <2>2. VerifyTypeOK'
      BY <1>1, <1>3, <1>6 DEF IInv, VerifyTypeOK
    <2> QED
      BY <1>1, <1>2, <1>6, <2>1, <2>2 DEF IInv, Accepted, VerifyTypeOK
  <1> QED
    BY <1>4, <1>5, <1>6 DEF ParseEntry

\* Leaving the parse loop, every line an object, keeps it.
LEMMA ParseDoneKeeps ==
  ASSUME IInv, ParseDone
  PROVE  IInv'
  <1>1. /\ pc = "parse" /\ UNCHANGED logVars /\ i = Len(lines.entries)
        /\ pc' = "chain" /\ i' = 0 /\ UNCHANGED <<trust, lines, prev_eh, result>>
    BY DEF ParseDone, Goto
  <1>2. WorldOK' /\ GenuineEnvelope' = GenuineEnvelope
    BY <1>1, QuietWorld DEF IInv
  <1>3. ReadOK'
    BY <1>1, <1>2 DEF IInv, ReadOK, Reading, Hdr
  <1>4. VerifyTypeOK'
    BY <1>1 DEF IInv, VerifyTypeOK
  <1> QED
    BY <1>1, <1>2, <1>3, <1>4 DEF IInv, Accepted, VerifyTypeOK

(***************************************************************************)
(* When all checks of an order hold, each does.                            *)
(***************************************************************************)
LEMMA HeaderOrderIs ==
         /\ DOMAIN HeaderOrder = 1..6
         /\ HeaderOrder[1] = "not the trusted anchor"
         /\ HeaderOrder[2] = "not the trusted key_id"
         /\ HeaderOrder[3] = "key unreadable"
         /\ HeaderOrder[4] = "not an EC key"
         /\ HeaderOrder[5] = "spki_sha256 mismatch"
         /\ HeaderOrder[6] = "no entries"
  <1>1. HeaderOrder[1] = "not the trusted anchor"
    BY DEF HeaderOrder
  <1>2. HeaderOrder[2] = "not the trusted key_id"
    BY DEF HeaderOrder
  <1>3. HeaderOrder[3] = "key unreadable"
    BY DEF HeaderOrder
  <1>4. HeaderOrder[4] = "not an EC key"
    BY DEF HeaderOrder
  <1>5. HeaderOrder[5] = "spki_sha256 mismatch"
    BY DEF HeaderOrder
  <1>6. HeaderOrder[6] = "no entries"
    BY DEF HeaderOrder
  <1>7. DOMAIN HeaderOrder = 1..6
    BY DEF HeaderOrder
  <1> QED
    BY <1>1, <1>2, <1>3, <1>4, <1>5, <1>6, <1>7

\* When no header check fails, the header is the trusted one and holds its key.
LEMMA HeaderPasses ==
  ASSUME NEW hdr, NEW entries, NEW pins,
         AllHold(HeaderOrder, HeaderChecks(hdr, entries, pins))
  PROVE  /\ pins.trusted_spki_sha256 = None \/ hdr.spki_sha256 = pins.trusted_spki_sha256
         /\ pins.trusted_key_id = None \/ hdr.key_id = pins.trusted_key_id
         /\ hdr.spki_der \notin BadDers \cup RsaKeys
         /\ spki_fingerprint(hdr.spki_der) = hdr.spki_sha256
         /\ entries # <<>>
  <1> DEFINE holds == HeaderChecks(hdr, entries, pins)
  <1> HIDE DEF holds
  <1>1. \A k \in 1..6 : holds[HeaderOrder[k]]
    BY HeaderOrderIs DEF AllHold, holds
  <1>2. holds["not the trusted anchor"]
    <2>1. holds[HeaderOrder[1]]
      BY <1>1
    <2> QED
      BY <2>1, HeaderOrderIs
  <1>3. holds["not the trusted key_id"]
    <2>1. holds[HeaderOrder[2]]
      BY <1>1
    <2> QED
      BY <2>1, HeaderOrderIs
  <1>4. holds["key unreadable"]
    <2>1. holds[HeaderOrder[3]]
      BY <1>1
    <2> QED
      BY <2>1, HeaderOrderIs
  <1>5. holds["not an EC key"]
    <2>1. holds[HeaderOrder[4]]
      BY <1>1
    <2> QED
      BY <2>1, HeaderOrderIs
  <1>6. holds["spki_sha256 mismatch"]
    <2>1. holds[HeaderOrder[5]]
      BY <1>1
    <2> QED
      BY <2>1, HeaderOrderIs
  <1>7. holds["no entries"]
    <2>1. holds[HeaderOrder[6]]
      BY <1>1
    <2> QED
      BY <2>1, HeaderOrderIs
  <1> QED
    BY <1>2, <1>3, <1>4, <1>5, <1>6, <1>7 DEF holds, HeaderChecks, HeaderReasons

\* The eight checks of the entry loop, by position.
LEMMA EntryOrderIs ==
         /\ DOMAIN EntryOrder = 1..8
         /\ EntryOrder[1] = "sequence"
         /\ EntryOrder[2] = "prev_entry_hash"
         /\ EntryOrder[3] = "canonical"
         /\ EntryOrder[4] = "entry_hash"
         /\ EntryOrder[5] = "public_key fingerprint"
         /\ EntryOrder[6] = "key_id"
         /\ EntryOrder[7] = "session_id"
         /\ EntryOrder[8] = "signature"
  <1>1. EntryOrder[1] = "sequence"
    BY DEF EntryOrder
  <1>2. EntryOrder[2] = "prev_entry_hash"
    BY DEF EntryOrder
  <1>3. EntryOrder[3] = "canonical"
    BY DEF EntryOrder
  <1>4. EntryOrder[4] = "entry_hash"
    BY DEF EntryOrder
  <1>5. EntryOrder[5] = "public_key fingerprint"
    BY DEF EntryOrder
  <1>6. EntryOrder[6] = "key_id"
    BY DEF EntryOrder
  <1>7. EntryOrder[7] = "session_id"
    BY DEF EntryOrder
  <1>8. EntryOrder[8] = "signature"
    BY DEF EntryOrder
  <1>9. DOMAIN EntryOrder = 1..8
    BY DEF EntryOrder
  <1> QED
    BY <1>1, <1>2, <1>3, <1>4, <1>5, <1>6, <1>7, <1>8, <1>9

\* When no entry check fails, each field of the entry is what it should be.
LEMMA EntryPasses ==
  ASSUME NEW hdr, NEW e, NEW n, NEW prev,
         AllHold(EntryOrder, EntryChecks(hdr, e, n, prev))
  PROVE  /\ e.record.sequence = n
         /\ e.record.prev_entry_hash = prev
         /\ entry_hash(e.record) = e.entry_hash
         /\ e.public_key.spki_sha256 = hdr.spki_sha256
         /\ e.public_key.key_id = hdr.key_id /\ e.record.signer_key_id = hdr.key_id
         /\ e.record.session_id = hdr.session_id
         /\ e.signature.key = hdr.spki_der
         /\ e.signature.over = signed_digest(entry_hash(e.record))
         /\ e.record.payload \notin Unencodable
  <1> DEFINE holds == EntryChecks(hdr, e, n, prev)
  <1> HIDE DEF holds
  <1>1. \A k \in 1..8 : holds[EntryOrder[k]]
    BY EntryOrderIs DEF AllHold, holds
  <1>2. holds["sequence"]
    <2>1. holds[EntryOrder[1]]
      BY <1>1
    <2> QED
      BY <2>1, EntryOrderIs
  <1>3. holds["prev_entry_hash"]
    <2>1. holds[EntryOrder[2]]
      BY <1>1
    <2> QED
      BY <2>1, EntryOrderIs
  <1>4. holds["canonical"]
    <2>1. holds[EntryOrder[3]]
      BY <1>1
    <2> QED
      BY <2>1, EntryOrderIs
  <1>5. holds["entry_hash"]
    <2>1. holds[EntryOrder[4]]
      BY <1>1
    <2> QED
      BY <2>1, EntryOrderIs
  <1>6. holds["public_key fingerprint"]
    <2>1. holds[EntryOrder[5]]
      BY <1>1
    <2> QED
      BY <2>1, EntryOrderIs
  <1>7. holds["key_id"]
    <2>1. holds[EntryOrder[6]]
      BY <1>1
    <2> QED
      BY <2>1, EntryOrderIs
  <1>8. holds["session_id"]
    <2>1. holds[EntryOrder[7]]
      BY <1>1
    <2> QED
      BY <2>1, EntryOrderIs
  <1>9. holds["signature"]
    <2>1. holds[EntryOrder[8]]
      BY <1>1
    <2> QED
      BY <2>1, EntryOrderIs
  <1> QED
    BY <1>2, <1>3, <1>4, <1>5, <1>6, <1>7, <1>8, <1>9 DEF holds, EntryChecks, EntryReasons, SignatureVerifies

\* The header checks keep the inductive invariant.
LEMMA CheckHeaderKeeps ==
  ASSUME IInv, CheckHeader
  PROVE  IInv'
  <1>1. pc = "chain" /\ UNCHANGED logVars
    BY DEF CheckHeader
  <1>2. WorldOK' /\ GenuineEnvelope' = GenuineEnvelope
    BY <1>1, QuietWorld DEF IInv
  <1>3. lines # None /\ lines \in LogFile /\ lines.entries \in Seq(GenuineEnvelope)
    BY <1>1 DEF IInv, ReadOK, Reading
  <1>4. CASE \E k \in DOMAIN HeaderOrder :
               Return(Fail(0, None, HeaderOrder[k], lines.header.key_id))
    <2>1. PICK k \in 1..6 : Return(Fail(0, None, HeaderOrder[k], lines.header.key_id))
      BY <1>4, HeaderOrderIs
    <2>2. HeaderOrder[k] \in HeaderReasons
      <3>1. k = 1 \/ k = 2 \/ k = 3 \/ k = 4 \/ k = 5 \/ k = 6
        OBVIOUS
      <3> QED
        BY <3>1, HeaderOrderIs DEF HeaderReasons
    <2>3. lines.header.key_id \in Labels
      BY <1>3 DEF LogFile, Header
    <2> QED
      BY <1>1, <2>1, <2>2, <2>3, FailTyped, ReturnFails
  <1>5. CASE Raise
    BY <1>1, <1>5, RaiseKeeps
  <1>6. CASE /\ AllHold(HeaderOrder, HeaderChecks(lines.header, lines.entries, trust))
             /\ Goto("entries")
    <2>1. pc' = "entries" /\ i' = 0 /\ UNCHANGED <<trust, lines, prev_eh, result>>
      BY <1>6 DEF Goto
    <2>2. HeaderOK'
      BY <1>6, <2>1, HeaderPasses DEF HeaderOK, Hdr
    <2>3. EntriesOK'
      <3>1. prev_eh = <<>>
        BY <1>1 DEF IInv, VerifyTypeOK, NoHash
      <3>2. SubSeq(Bodies(lines.entries), 1, 0) = <<>>
        BY SubSeqEmpty
      <3> QED
        BY <2>1, <3>1, <3>2 DEF EntriesOK
    <2>4. ReadOK'
      BY <1>1, <1>2, <2>1 DEF IInv, ReadOK, Reading, Hdr
    <2>5. VerifyTypeOK'
      BY <1>1, <1>3, <2>1 DEF IInv, VerifyTypeOK
    <2> QED
      BY <1>1, <1>2, <2>1, <2>2, <2>3, <2>4, <2>5 DEF IInv, Accepted, VerifyTypeOK
  <1> QED
    BY <1>4, <1>5, <1>6 DEF CheckHeader, FirstFailure

(***************************************************************************)
(* An entry that passes every check after the ones before it is the one    *)
(* the key holder writes there.                                            *)
(***************************************************************************)
LEMMA PassedIsWritten ==
  ASSUME NEW entries \in Seq(Envelope), NEW hdr, NEW n \in 1..Len(entries),
         entries[n].form = "object",
         spki_fingerprint(hdr.spki_der) = hdr.spki_sha256,
         AllHold(EntryOrder, EntryChecks(hdr, entries[n], n - 1,
                                         SubSeq(Bodies(entries), 1, n - 1)))
  PROVE  /\ entries[n] = EnvelopeOf(Bodies(entries), n, hdr.spki_der, hdr.key_id,
                                    spki_fingerprint(hdr.spki_der))
         /\ entries[n].record.session_id = hdr.session_id
         /\ entries[n].record.signer_key_id = hdr.key_id
         /\ entries[n].record.sequence = n - 1
         /\ entry_hash(entries[n].record) = SubSeq(Bodies(entries), 1, n)
  <1> DEFINE e == entries[n]
  <1>1. /\ e.record.sequence = n - 1
        /\ e.record.prev_entry_hash = SubSeq(Bodies(entries), 1, n - 1)
        /\ entry_hash(e.record) = e.entry_hash
        /\ e.public_key.spki_sha256 = hdr.spki_sha256
        /\ e.public_key.key_id = hdr.key_id /\ e.record.signer_key_id = hdr.key_id
        /\ e.record.session_id = hdr.session_id
        /\ e.signature.key = hdr.spki_der
        /\ e.signature.over = signed_digest(entry_hash(e.record))
        /\ e.record.payload \notin Unencodable
    BY EntryPasses
  <1> QED
    BY <1>1, WrittenEntry

\* A turn of the entry loop keeps the inductive invariant.
LEMMA CheckEntryKeeps ==
  ASSUME IInv, CheckEntry
  PROVE  IInv'
  <1> DEFINE e == lines.entries[i + 1]
  <1>1. pc = "entries" /\ UNCHANGED logVars /\ i < Len(lines.entries) /\ i \in Nat
    BY DEF CheckEntry, IInv, VerifyTypeOK
  <1>2. WorldOK' /\ GenuineEnvelope' = GenuineEnvelope
    BY <1>1, QuietWorld DEF IInv
  <1>3. /\ lines # None /\ lines \in LogFile /\ lines.entries \in Seq(Envelope)
        /\ Hdr.key_id \in Labels
        /\ \A n \in 1..Len(lines.entries) : lines.entries[n].form = "object"
    BY <1>1 DEF IInv, ReadOK, Reading, LogFile, Header, Hdr
  <1>4. HeaderOK /\ EntriesOK
    BY <1>1 DEF IInv
  <1>5. CASE \E k \in DOMAIN EntryOrder : /\ EntryOrder[k] # "canonical"
                                         /\ Return(Fail(i, i, EntryOrder[k], Hdr.key_id))
    <2>1. PICK k \in 1..8 : /\ EntryOrder[k] # "canonical"
                            /\ Return(Fail(i, i, EntryOrder[k], Hdr.key_id))
      BY <1>5, EntryOrderIs
    <2>2. EntryOrder[k] \in EntryReasons
      <3>1. k = 1 \/ k = 2 \/ k = 3 \/ k = 4 \/ k = 5 \/ k = 6 \/ k = 7 \/ k = 8
        OBVIOUS
      <3> QED
        BY <2>1, <3>1, EntryOrderIs DEF EntryReasons
    <2> QED
      BY <1>1, <1>3, <2>1, <2>2, FailTyped, ReturnFails
  <1>6. CASE Raise
    BY <1>1, <1>6, RaiseKeeps
  <1>7. CASE /\ AllHold(EntryOrder, EntryChecks(Hdr, e, i, prev_eh))
             /\ i' = i + 1
             /\ prev_eh' = entry_hash(e.record)
             /\ UNCHANGED <<pc, trust, lines, result>>
    <2>1. i + 1 \in 1..Len(lines.entries) /\ (i + 1) - 1 = i
      BY <1>1, <1>3
    <2>2. prev_eh = SubSeq(Bodies(lines.entries), 1, i)
      BY <1>4 DEF EntriesOK
    <2>3. spki_fingerprint(Hdr.spki_der) = Hdr.spki_sha256
      BY <1>4 DEF HeaderOK
    <2>4. /\ Checked(i + 1)
          /\ entry_hash(e.record) = SubSeq(Bodies(lines.entries), 1, i + 1)
      BY <1>3, <1>7, <2>1, <2>2, <2>3, PassedIsWritten DEF Checked
    <2>5. EntriesOK'
      <3>1. \A n \in 1..(i + 1) : Checked(n)
        BY <1>1, <1>4, <2>4 DEF EntriesOK
      <3> QED
        BY <1>7, <2>4, <3>1 DEF EntriesOK, Checked, Hdr
    <2>6. HeaderOK'
      BY <1>4, <1>7 DEF HeaderOK, Hdr
    <2>7. ReadOK'
      BY <1>1, <1>2, <1>7 DEF IInv, ReadOK, Reading, Hdr
    <2>8. VerifyTypeOK'
      <3>1. prev_eh' \in Hash
        <4>1. e \in Envelope
          BY <1>3, <2>1
        <4> QED
          BY <1>7, <4>1, EntryHashTyped DEF Envelope
      <3> QED
        BY <1>1, <1>3, <1>7, <3>1 DEF IInv, VerifyTypeOK
    <2> QED
      BY <1>1, <1>2, <1>7, <2>5, <2>6, <2>7, <2>8 DEF IInv, Accepted, VerifyTypeOK
  <1> QED
    BY <1>5, <1>6, <1>7 DEF CheckEntry, FirstFailure, Hdr

\* Accepting after the last entry keeps the inductive invariant.
LEMMA AcceptKeeps ==
  ASSUME IInv, Accept
  PROVE  IInv'
  <1> DEFINE verdict == Valid(Len(lines.entries), lines.header.key_id,
                              Last(lines.entries).record.event_type = "session_end")
  <1>1. pc = "entries" /\ UNCHANGED logVars /\ i = Len(lines.entries) /\ Return(verdict)
    BY DEF Accept
  <1>2. WorldOK' /\ GenuineEnvelope' = GenuineEnvelope
    BY <1>1, QuietWorld DEF IInv
  <1>3. /\ pc' = "done" /\ result' = verdict
        /\ UNCHANGED <<trust, lines, i, prev_eh>>
    BY <1>1 DEF Return
  <1>4. lines # None /\ lines \in LogFile /\ lines.medium = "text" /\ Hdr.form = "object"
    BY <1>1 DEF IInv, ReadOK, Reading
  <1>5. verdict \in VerifyResult
    <2>1. lines.header.key_id \in Labels /\ Len(lines.entries) \in Nat
      BY <1>4 DEF LogFile, Header
    <2> QED
      BY <2>1 DEF Valid, VerifyResult
  <1>6. verdict.ended <=> Last(lines.entries).record.event_type = "session_end"
    BY DEF Valid
  <1>7. AcceptedOK'
    <2>1. HeaderOK /\ \A n \in 1..Len(lines.entries) : Checked(n)
      BY <1>1 DEF IInv, EntriesOK
    <2> HIDE DEF verdict
    <2> QED
      BY <1>3, <1>4, <1>6, <2>1 DEF AcceptedOK, HeaderOK, Checked, Hdr
  <1>8. ReadOK'
    BY <1>2, <1>3 DEF IInv, ReadOK, Reading
  <1>9. VerifyTypeOK'
    <2> HIDE DEF verdict
    <2> QED
      BY <1>3, <1>5, AbsenceAssumption DEF IInv, VerifyTypeOK
  <1> QED
    BY <1>2, <1>3, <1>7, <1>8, <1>9 DEF IInv

-----------------------------------------------------------------------------
\* A prefix is no longer than the sequence, and agrees with it on its length.
LEMMA PrefixElements ==
  ASSUME NEW S, NEW h \in Seq(S), NEW t \in Seq(S), IsPrefix(h, t)
  PROVE  /\ Len(h) <= Len(t)
         /\ \A n \in 1..Len(h) : n \in 1..Len(t) /\ h[n] = t[n]
  <1>1. Len(h) <= Len(t) /\ SubSeq(h, 1, Len(h)) = SubSeq(t, 1, Len(h))
    BY DEF IsPrefix
  <1>2. \A n \in 1..Len(h) : SubSeq(h, 1, Len(h))[n] = h[n] /\ SubSeq(t, 1, Len(h))[n] = t[n]
    BY <1>1
  <1> QED
    BY <1>1, <1>2

(***************************************************************************)
(* A key's fingerprint is not the absence of one.                          *)
(***************************************************************************)
LEMMA PinIsAFingerprint == spki_fingerprint(SignerKey) # None
  BY FingerprintAssumption, SignerAssumption DEF spki_fingerprint, Fingerprint, Ders, SigningKeys

(***************************************************************************)
(* No step of the signer, of the damage or of the verifier breaks IInv.    *)
(***************************************************************************)
LEMMA NextKeeps == IInv /\ [Next]_vars => IInv'
  <1> SUFFICES ASSUME IInv, [Next]_vars
               PROVE  IInv'
    OBVIOUS
  <1>1. CASE World
    BY <1>1, WorldStep
  <1>2. CASE ReadLog
    BY <1>2, ReadLogKeeps
  <1>3. CASE ParseHeader
    BY <1>3, ParseHeaderKeeps
  <1>4. CASE ParseEntry
    BY <1>4, ParseEntryKeeps
  <1>5. CASE ParseDone
    BY <1>5, ParseDoneKeeps
  <1>6. CASE CheckHeader
    BY <1>6, CheckHeaderKeeps
  <1>7. CASE CheckEntry
    BY <1>7, CheckEntryKeeps
  <1>8. CASE Accept
    BY <1>8, AcceptKeeps
  <1>9. CASE UNCHANGED vars
    <2>1. WorldOK' /\ GenuineEnvelope' = GenuineEnvelope
      BY <1>9, QuietWorld DEF IInv, vars, logVars
    <2> QED
      BY <1>9, <2>1 DEF vars, IInv, VerifyTypeOK, ReadOK, Reading, HeaderOK, EntriesOK,
         AcceptedOK, Accepted, Checked, Hdr
  <1> QED
    BY <1>1, <1>2, <1>3, <1>4, <1>5, <1>6, <1>7, <1>8, <1>9 DEF Next, VerifyStep

(***************************************************************************)
(* The inductive invariant holds of every run: the world is one where      *)
(* SignerKey's signatures are the signer's, and every entry verify_chain   *)
(* has passed so far is the one the header's key holder writes there.      *)
(***************************************************************************)
THEOREM Invariance == Spec => []IInv
  BY InitOK, NextKeeps, PTL DEF Spec

(***************************************************************************)
(* Every variable of the verifier and of its world keeps its type; an      *)
(* answer is there exactly when the run is done, and no step that works on *)
(* the lines runs before they were read (verify_log, verify.py).           *)
(***************************************************************************)
THEOREM TypeCorrect == Spec => []TypeOK
  <1>1. IInv => TypeOK
    <2> SUFFICES ASSUME IInv
                 PROVE  TypeOK
      OBVIOUS
    <2>1. LogTypeOK
      BY DEF IInv, WorldOK, GenuineFiles, LogTypeOK
    <2>2. lines \in LogFile \cup {None}
      BY DEF IInv, ReadOK
    <2>3. Reading => lines # None
      BY DEF IInv, ReadOK
    <2> QED
      BY <2>1, <2>2, <2>3 DEF IInv, VerifyTypeOK, TypeOK, Reading
  <1> QED
    BY <1>1, Invariance, PTL

(***************************************************************************)
(* A log verify_chain accepts is, field by field, what the holder of its   *)
(* header's key writes for the events it carries.                          *)
(***************************************************************************)
LEMMA AcceptedFile ==
  ASSUME IInv, Accepted
  PROVE  /\ lines = ChainFile(Hdr.session_id, Bodies(lines.entries), Hdr.spki_der, Hdr.key_id,
                              spki_fingerprint(Hdr.spki_der))
         /\ InOrder(Hdr.session_id, Hdr.key_id, Bodies(lines.entries))
  <1> DEFINE bodies == Bodies(lines.entries)
             fp == spki_fingerprint(Hdr.spki_der)
  <1>1. AcceptedOK
    BY DEF IInv
  <1>2. lines \in LogFile /\ lines.entries \in Seq(Envelope) /\ Hdr \in Header
    BY <1>1 DEF IInv, ReadOK, AcceptedOK, LogFile, Hdr
  <1>3. /\ bodies \in Seq(Body) /\ Len(bodies) = Len(lines.entries)
        /\ \A n \in 1..Len(lines.entries) : bodies[n] = BodyOf(lines.entries[n].record)
    BY <1>2, BodiesTyped
  <1>4. \A n \in 1..Len(lines.entries) :
           /\ lines.entries[n] = EnvelopeOf(bodies, n, Hdr.spki_der, Hdr.key_id, fp)
           /\ bodies[n].session_id = Hdr.session_id
           /\ bodies[n].signer_key_id = Hdr.key_id
           /\ bodies[n].sequence = n - 1
    <2> SUFFICES ASSUME NEW n \in 1..Len(lines.entries)
                 PROVE  /\ lines.entries[n] = EnvelopeOf(bodies, n, Hdr.spki_der, Hdr.key_id, fp)
                        /\ bodies[n].session_id = Hdr.session_id
                        /\ bodies[n].signer_key_id = Hdr.key_id
                        /\ bodies[n].sequence = n - 1
      OBVIOUS
    <2>1. Checked(n)
      BY <1>1 DEF AcceptedOK
    <2>2. bodies[n] = BodyOf(lines.entries[n].record)
      BY <1>3
    <2> QED
      BY <2>1, <2>2, BodyFields DEF Checked
  <1>5. lines.entries =
          [n \in 1..Len(bodies) |-> EnvelopeOf(bodies, n, Hdr.spki_der, Hdr.key_id, fp)]
    <2>1. lines.entries = [n \in 1..Len(lines.entries) |-> lines.entries[n]]
      BY <1>2
    <2> QED
      BY <1>3, <1>4, <2>1
  <1>6. Hdr = [form |-> "object", session_id |-> Hdr.session_id, key_id |-> Hdr.key_id,
               spki_der |-> Hdr.spki_der, spki_sha256 |-> fp]
    BY <1>1, <1>2 DEF AcceptedOK, HeaderOK, Header
  <1>7. lines = [medium |-> "text", header |-> Hdr, entries |-> lines.entries]
    BY <1>1, <1>2 DEF AcceptedOK, LogFile, Hdr
  <1>8. lines = ChainFile(Hdr.session_id, bodies, Hdr.spki_der, Hdr.key_id, fp)
    <2> HIDE DEF bodies, fp
    <2> QED
      BY <1>5, <1>6, <1>7 DEF ChainFile
  <1>9. InOrder(Hdr.session_id, Hdr.key_id, bodies)
    BY <1>3, <1>4 DEF InOrder
  <1> QED
    BY <1>8, <1>9

(***************************************************************************)
(* One key, one label, one session, every link, stored hash and signature  *)
(* in place: the five checks of verify_chain leave no other accepted log.  *)
(***************************************************************************)
THEOREM AcceptedIsWritten == Spec => []AcceptedAsWritten
  <1>1. IInv => AcceptedAsWritten
    BY AcceptedFile DEF AcceptedAsWritten, Hdr
  <1> QED
    BY <1>1, Invariance, PTL

(***************************************************************************)
(* Under the signer's pinned fingerprint the last signature is the         *)
(* signer's, and it covers the whole history.                              *)
(***************************************************************************)
LEMMA PinnedPrefix ==
  ASSUME IInv, Accepted, Pinned
  PROVE  /\ Bodies(lines.entries) \in Seq(Body) /\ Bodies(lines.entries) # <<>>
         /\ IsPrefix(Bodies(lines.entries), committed[Hdr.session_id])
         /\ Hdr.session_id \in Sessions
  <1> DEFINE bodies == Bodies(lines.entries)
             N == Len(lines.entries)
  <1>1. AcceptedOK /\ HeaderOK
    BY DEF IInv, AcceptedOK
  <1>2. lines \in LogFile /\ lines.entries \in Seq(GenuineEnvelope) /\ Hdr \in Header
    BY <1>1 DEF IInv, ReadOK, AcceptedOK, LogFile, Hdr
  <1>3. lines.entries \in Seq(Envelope)
    BY <1>2 DEF LogFile
  <1>4. N \in Nat /\ N >= 1
    BY <1>1, <1>3 DEF HeaderOK
  <1>5. bodies \in Seq(Body) /\ Len(bodies) = N
    BY <1>3, BodiesTyped
  <1>6. Hdr.spki_der = SignerKey
    <2>1. trust.trusted_spki_sha256 = spki_fingerprint(SignerKey)
      BY DEF Pinned
    <2>2. trust.trusted_spki_sha256 # None
      <3>1. trust.trusted_spki_sha256 = Hdr.spki_sha256 \/ trust.trusted_spki_sha256 = None
        BY <1>1 DEF HeaderOK
      <3> QED
        BY <2>1, PinIsAFingerprint
    <2>3. spki_fingerprint(Hdr.spki_der) = spki_fingerprint(SignerKey)
      BY <1>1, <2>1, <2>2 DEF HeaderOK
    <2> QED
      BY <2>3 DEF spki_fingerprint
  <1>7. Genuine(lines.entries[N]) /\ Checked(N)
    <2>1. N \in 1..Len(lines.entries)
      BY <1>4
    <2>2. lines.entries[N] \in GenuineEnvelope
      BY <1>2, <2>1
    <2> QED
      BY <1>1, <2>1, <2>2 DEF AcceptedOK, GenuineEnvelope
  <1>8. lines.entries[N].signature = SignedBy(SignerKey, SubSeq(bodies, 1, N))
    BY <1>6, <1>7 DEF Checked, EnvelopeOf
  <1>9. SubSeq(bodies, 1, N) = bodies
    BY <1>5, SubSeqFull
  <1>10. Vouched(bodies)
    BY <1>7, <1>8, <1>9 DEF Genuine, SignedBy, signed_digest
  <1>11. PICK s \in Sessions : IsPrefix(bodies, committed[s])
    BY <1>10 DEF Vouched
  <1>12. s = Hdr.session_id
    <2>1. committed[s] \in Seq(Body)
      BY DEF IInv, WorldOK
    <2>2. bodies[1] = committed[s][1] /\ 1 \in 1..Len(committed[s])
      BY <1>4, <1>5, <1>11, <2>1, PrefixElements
    <2>3. committed[s][1].session_id = s
      BY <2>1, <2>2 DEF IInv, WorldOK, CommittedOK, InOrder
    <2>4. bodies[1].session_id = Hdr.session_id
      BY <1>4, <1>5, AcceptedFile DEF InOrder
    <2> QED
      BY <2>2, <2>3, <2>4
  <1> QED
    BY <1>4, <1>5, <1>11, <1>12

(***************************************************************************)
(* What a pinned verification accepts is a prefix of what the signer       *)
(* committed for that session (verify_chain's trusted_spki_sha256).        *)
(***************************************************************************)
THEOREM PinnedIsSound == Spec => []PinnedSound
  <1>1. IInv => PinnedSound
    BY PinnedPrefix DEF PinnedSound, Hdr
  <1> QED
    BY <1>1, Invariance, PTL

(***************************************************************************)
(* And when it says the log ended, it is the whole session: the ground on  *)
(* which --require-ended stands.                                           *)
(***************************************************************************)
THEOREM EndedIsWhole == Spec => []EndedIsComplete
  <1>1. ASSUME IInv, Accepted, Pinned, result.ended
        PROVE  Bodies(lines.entries) = committed[Hdr.session_id]
    <2> DEFINE bodies == Bodies(lines.entries)
               whole == committed[Hdr.session_id]
               N == Len(lines.entries)
    <2>1. /\ bodies \in Seq(Body) /\ bodies # <<>> /\ IsPrefix(bodies, whole)
          /\ Hdr.session_id \in Sessions
      BY <1>1, PinnedPrefix
    <2>2. whole \in Seq(Body)
      BY <1>1, <2>1 DEF IInv, WorldOK
    <2>3. /\ lines.entries \in Seq(Envelope) /\ Len(bodies) = N
          /\ \A n \in 1..N : bodies[n] = BodyOf(lines.entries[n].record)
      <3>1. lines.entries \in Seq(Envelope)
        BY <1>1 DEF IInv, ReadOK, AcceptedOK, LogFile
      <3> QED
        BY <3>1, BodiesTyped
    <2>4. N \in 1..N
      BY <2>1, <2>3
    <2>5. bodies[N].event_type = "session_end"
      <3>1. lines.entries[N].record.event_type = "session_end"
        BY <1>1 DEF IInv, AcceptedOK, Last
      <3> QED
        BY <2>3, <2>4, <3>1, BodyFields
    <2>6. whole[N] = bodies[N] /\ N \in 1..Len(whole)
      BY <2>1, <2>2, <2>3, <2>4, PrefixElements
    <2>7. N = Len(whole)
      BY <1>1, <2>1, <2>2, <2>5, <2>6 DEF IInv, WorldOK, CommittedOK
    <2> QED
      BY <2>1, <2>2, <2>3, <2>7, PrefixElements, SeqEqual
  <1>2. IInv => EndedIsComplete
    BY <1>1 DEF EndedIsComplete, Hdr
  <1> QED
    BY <1>2, Invariance, PTL

=============================================================================
