----------------------------- MODULE ChainDiff -----------------------------
(***************************************************************************)
(* A log against a trusted copy of it (diff.py), position by position:     *)
(* header fields and records.  Stored hashes, signatures, public keys and  *)
(* the header's key itself are not compared.                               *)
(***************************************************************************)
EXTENDS Localize

HeaderFields == {"session_id", "key_id", "spki_sha256"}

RecordFields == {"session_id", "sequence", "event_type", "signer_key_id", "prev_entry_hash"}
                \cup PayloadFields

FieldDelta(sequence, field, reference, target) ==
    [sequence |-> sequence, field |-> field, reference |-> reference, target |-> target]

header_changes(ref, tgt) ==
    {FieldDelta(None, f, ref.header[f], tgt.header[f]) :
        f \in {g \in HeaderFields : ref.header[g] # tgt.header[g]}}

Shorter(ref, tgt) ==
    IF Len(ref.entries) < Len(tgt.entries) THEN Len(ref.entries) ELSE Len(tgt.entries)

EntryDeltas(ref, tgt, n) ==
    LET old == ref.entries[n].record
        new == tgt.entries[n].record
    IN  {FieldDelta(old.sequence, f, Get(old, f), Get(new, f)) :
            f \in {g \in RecordFields : Get(old, g) # Get(new, g)}}

(***************************************************************************)
(* Mutant: the last pair of entries is not compared.                       *)
(***************************************************************************)
entry_changesButLast(ref, tgt) ==
    UNION {EntryDeltas(ref, tgt, n) : n \in 1..(Shorter(ref, tgt) - 1)}

entry_changes(ref, tgt) ==
    UNION {EntryDeltas(ref, tgt, n) : n \in 1..Shorter(ref, tgt)}

(***************************************************************************)
(* The sequence numbers of the entries one log has beyond the other.       *)
(***************************************************************************)
Beyond(log, other) ==
    [n \in 1..(Len(log.entries) - Shorter(log, other)) |->
        log.entries[Shorter(log, other) + n].record.sequence]

diff_chains(ref, tgt) ==
    LET hdr     == header_changes(ref, tgt)
        entry   == entry_changes(ref, tgt)
        added   == Beyond(tgt, ref)
        removed == Beyond(ref, tgt)
    IN  [identical |-> hdr = {} /\ entry = {} /\ added = <<>> /\ removed = <<>>,
         header_changes |-> hdr, entry_changes |-> entry, added |-> added, removed |-> removed]

=============================================================================
