----------------------------- MODULE MCCommands -----------------------------
(***************************************************************************)
(* A small instance of Commands.                                           *)
(***************************************************************************)
EXTENDS Commands

CONSTANTS s1, label, alias, key, otherKey, bash, read, own, r1, r2, lone

MCPayloads == [tool_name: {bash, read, own, None}, actor: {"user", "system"}, rest: {r1, r2, lone}]

MCUnencodable == {p \in MCPayloads : p.rest = lone}

Event(n, t, tool) ==
    [session_id |-> s1, sequence |-> n, event_type |-> t, signer_key_id |-> label,
     payload |-> [tool_name |-> tool, actor |-> "system", rest |-> r1]]

(***************************************************************************)
(* A session that goes on, with a tool of the catalogue; one that has      *)
(* ended, with a tool that is not in it.                                   *)
(***************************************************************************)
MCHistories ==
    {<<Event(0, "session_start", None), Event(1, "pre_tool_use", bash)>>,
     <<Event(0, "session_start", None), Event(1, "post_tool_use", own),
       Event(2, "session_end", None)>>}

NoOptions ==
    [command |-> "verify", pin |-> None, key_id |-> None, trust_log_header |-> FALSE,
     explain |-> FALSE, require_ended |-> FALSE, anchor |-> None, witnesses |-> "none",
     allow_unverified_witness |-> FALSE, dir |-> "logs", field |-> "tool_name"]

MCPins == {None, spki_fingerprint(key), spki_fingerprint(otherKey)}

MCInvocations ==
    {[NoOptions EXCEPT !.command = c, !.pin = p, !.key_id = l, !.trust_log_header = t] :
        c \in {"verify", "verify-all"}, p \in {None, spki_fingerprint(key)}, l \in {None, alias, label},
        t \in BOOLEAN}
    \cup {[NoOptions EXCEPT !.pin = p, !.trust_log_header = TRUE, !.explain = x, !.require_ended = r] :
             p \in MCPins, x \in BOOLEAN, r \in BOOLEAN}
    \cup {[NoOptions EXCEPT !.pin = p, !.trust_log_header = TRUE, !.anchor = a, !.witnesses = w] :
             p \in {None, spki_fingerprint(key)}, a \in {"published", "other-type", "unreadable"},
             w \in {"none", "unverified"}}
    \cup {[NoOptions EXCEPT !.pin = spki_fingerprint(key), !.require_ended = TRUE, !.anchor = "published",
                         !.witnesses = w, !.allow_unverified_witness = TRUE] :
             w \in {"verified", "unverified", "invalid"}}
    \cup {[NoOptions EXCEPT !.command = "verify-all", !.pin = spki_fingerprint(key), !.dir = d,
                         !.require_ended = r] : d \in {"logs", "empty", "missing"}, r \in BOOLEAN}
    \cup {[NoOptions EXCEPT !.command = c, !.pin = p] : c \in {"inspect", "export"}, p \in MCPins}
    \cup {[NoOptions EXCEPT !.command = "tamper", !.field = f] :
             f \in {"tool_name", "event_type", "actor"}}
    \cup {[NoOptions EXCEPT !.command = "diff"]}

=============================================================================
