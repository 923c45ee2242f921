---------------------------- MODULE SignedChain ----------------------------
(***************************************************************************)
(* What a writer of logs writes: the chain of envelopes over a history of  *)
(* events, each linked to the one before it and signed with the writer's   *)
(* key, under a header that names the key.  Writers live outside this      *)
(* repository, which verifies only.                                        *)
(***************************************************************************)
EXTENDS Attestation, SequencesExt

Ended(bodies) == bodies # <<>> /\ Last(bodies).event_type = "session_end"

(***************************************************************************)
(* The log of a session, as whoever holds `key` writes it.  The            *)
(* fingerprint in the header and in the envelopes is what the writer       *)
(* claims, `claimed`; an honest one claims its own.                        *)
(***************************************************************************)
PublicKeyOf(label, claimed) == [key_id |-> label, spki_sha256 |-> claimed]

SignedBy(key, hash) == [key |-> key, over |-> signed_digest(hash)]

EnvelopeOf(bodies, n, key, label, claimed) ==
    [form       |-> "object",
     record     |-> RecordOf(bodies[n], SubSeq(bodies, 1, n - 1)),
     entry_hash |-> SubSeq(bodies, 1, n),
     signature  |-> SignedBy(key, SubSeq(bodies, 1, n)),
     public_key |-> PublicKeyOf(label, claimed)]

ChainFile(session, bodies, key, label, claimed) ==
    [medium  |-> "text",
     header  |-> [form |-> "object", session_id |-> session, key_id |-> label,
                  spki_der |-> key, spki_sha256 |-> claimed],
     entries |-> [n \in 1..Len(bodies) |-> EnvelopeOf(bodies, n, key, label, claimed)]]

(***************************************************************************)
(* Events numbered from 0 without a gap, all of one session and one label. *)
(***************************************************************************)
InOrder(session, label, bodies) ==
    \A n \in DOMAIN bodies :
        /\ bodies[n].session_id = session
        /\ bodies[n].signer_key_id = label
        /\ bodies[n].sequence = n - 1

=============================================================================
