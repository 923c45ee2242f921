----------------------------- MODULE MCVerifyLog -----------------------------
(***************************************************************************)
(* Small instances of VerifyLog.                                           *)
(***************************************************************************)
EXTENDS TsVerify

CONSTANTS s1, s2, label, alias, key, otherKey, rsa, junk, good, bad, lone, odd

MCSessions == {s1, s2}

MCLabels == {label, alias}

MCTwoPayloads == {good, bad}

MCPayloads == {good, bad, lone}

MCAllPayloads == {good, bad, lone, odd}

(***************************************************************************)
(* Unpinned; pinned to the signer; pinned to another key; filtered by      *)
(* label alone.                                                            *)
(***************************************************************************)
MCPins ==
    [trusted_spki_sha256: {None, spki_fingerprint(key)}, trusted_key_id: {None}]
    \cup [trusted_spki_sha256: {None}, trusted_key_id: {label}]

=============================================================================
