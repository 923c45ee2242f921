------------------------------ MODULE Localize ------------------------------
(***************************************************************************)
(* What an edited record said before (localize.py): every value a field of *)
(* few possible values could have had is tried, and the one under which    *)
(* the record hashes to the stored hash is the original.                   *)
(*                                                                         *)
(* A payload is what a record says of a tool, of an actor, and the rest:   *)
(* timestamps, hashes, identifiers, free text.  The record's version is    *)
(* left out: a line whose version is not the contract's does not parse.    *)
(***************************************************************************)
EXTENDS Attestation

CONSTANTS
    KNOWN_TOOL_NAMES,  \* the catalogue of tool names
    ACTORS             \* the actors the contract knows

PayloadFields == {"tool_name", "actor", "rest"}

(***************************************************************************)
(* A payload's fields say what they say independently of each other; the   *)
(* actor is one the contract knows, the tool any or none.                  *)
(***************************************************************************)
ASSUME PayloadAssumption ==
    LET Said(field) == {p[field] : p \in Payloads}
    IN  /\ Payloads = [tool_name: Said("tool_name"), actor: ACTORS, rest: Said("rest")]
        /\ KNOWN_TOOL_NAMES \cup {None} \subseteq Said("tool_name")
        /\ {"user", "system"} \subseteq ACTORS

LowEntropyFields == {"event_type", "actor", "tool_name", "signer_key_id"}

Get(rec, field) ==
    IF field \in PayloadFields THEN rec.payload[field] ELSE rec[field]

Put(rec, field, value) ==
    IF field \in PayloadFields THEN [rec EXCEPT !.payload[field] = value]
                               ELSE [rec EXCEPT ![field] = value]

Candidates(field, observed, header_key_id) ==
    (CASE field = "event_type"    -> EVENT_TYPES
       [] field = "actor"         -> ACTORS
       [] field = "tool_name"     -> KNOWN_TOOL_NAMES \cup {None}
       [] field = "signer_key_id" -> {header_key_id} \ {None}) \ {observed}

FieldChange(field, original, observed) ==
    [field |-> field, original |-> original, observed |-> observed]

(***************************************************************************)
(* Mutant: the label is not among the fields that are tried.               *)
(***************************************************************************)
MatchesNoLabel(rec, stored_entry_hash, header_key_id) ==
    UNION {LET observed == Get(rec, f)
           IN  {FieldChange(f, v, observed) :
                   v \in {w \in Candidates(f, observed, header_key_id) :
                             entry_hash(Put(rec, f, w)) = stored_entry_hash}}
           : f \in LowEntropyFields \ {"signer_key_id"}}

Matches(rec, stored_entry_hash, header_key_id) ==
    UNION {LET observed == Get(rec, f)
           IN  {FieldChange(f, v, observed) :
                   v \in {w \in Candidates(f, observed, header_key_id) :
                             entry_hash(Put(rec, f, w)) = stored_entry_hash}}
           : f \in LowEntropyFields}

LocalizeResult(recovered, changes, note) ==
    [recovered |-> recovered, changes |-> changes, note |-> note]

localize_entry(rec, stored_entry_hash, header_key_id) ==
    LET matches == Matches(rec, stored_entry_hash, header_key_id)
    IN  CASE entry_hash(rec) = stored_entry_hash -> LocalizeResult(FALSE, {}, "not edited")
          [] entry_hash(rec) # stored_entry_hash /\ matches # {} ->
               LocalizeResult(TRUE, matches, "recovered")
          [] entry_hash(rec) # stored_entry_hash /\ matches = {} ->
               LocalizeResult(FALSE, {}, "could not localize")

=============================================================================
