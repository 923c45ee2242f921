------------------------------ MODULE Chainio ------------------------------
(***************************************************************************)
(* Version detection and loading (chainio.py).  The contract version is a  *)
(* field of the header that verify_log itself never looks at; it is kept   *)
(* beside the log here.                                                    *)
(***************************************************************************)
EXTENDS Verdicts

VERSION_V0 == "smoke.attestation.v0"

Versions == {VERSION_V0, "later"}

(***************************************************************************)
(* What one read of the log tells detect_version.  A header that is        *)
(* malformed as a header may still be JSON that says type and version; a   *)
(* decoding error is no UnknownVersionError.                               *)
(***************************************************************************)
DetectVersion(log, version) ==
    CASE log = None -> {"UnknownVersionError"}
      [] log # None ->
           CASE log.medium = "undecodable" -> {"UnicodeDecodeError"}
             [] log.medium = "text" /\ log.header.form \in {"absent", "nonobject"} ->
                  {"UnknownVersionError"}
             [] log.medium = "text" /\ log.header.form = "malformed" ->
                  {"UnknownVersionError", VERSION_V0}
             [] log.medium = "text" /\ log.header.form = "object" ->
                  IF version = VERSION_V0 THEN {VERSION_V0} ELSE {"UnknownVersionError"}

(***************************************************************************)
(* load_chain parses every line and checks none: on any line that is not   *)
(* what it should be, or no line, it raises.                               *)
(***************************************************************************)
Loads(log) ==
    /\ log # None
    /\ log.medium = "text"
    /\ log.header.form = "object"
    /\ Unparsed(log.entries) = {}

(***************************************************************************)
(* verify_log without a pin accepts the log.                               *)
(***************************************************************************)
Unpinned == [trusted_spki_sha256 |-> None, trusted_key_id |-> None]

InternallyValid(log) == \E r \in Outcomes(log, Unpinned) : r # Raised /\ r.ok

=============================================================================
