------------------------------- MODULE MCDer -------------------------------
(***************************************************************************)
(* Small instances of Der.                                                 *)
(***************************************************************************)
EXTENDS Der

IntegerOf(n) == [tag |-> TAG_INTEGER, of |-> <<n>>]

OidOf(arcs) == [tag |-> TAG_OID, of |-> arcs]

OctetString(n) == [tag |-> TAG_OCTET_STRING, of |-> [k \in 1..n |-> 1]]

(***************************************************************************)
(* Integers and arcs about every boundary; strings that make the length of *)
(* the string, or of the message, 127, 128, 255, 256, or its neighbour.    *)
(***************************************************************************)
MCMessages ==
    {<<>>}
    \cup {<<IntegerOf(n)>> : n \in {0, 1, 127, 128, 255, 256, 32767, 32768, 65535, 65536, Beyond}}
    \cup {<<OidOf(<<1, 2, a, 7>>)>> : a \in {0, 127, 128, 840, 16383, 16384}}
    \cup {<<OidOf(<<2, 39>>), OidOf(<<0, 4, 1>>)>>}
    \cup {<<OctetString(n)>> : n \in {0, 1, 125, 126, 127, 128, 129, 252, 253, 255, 256, 257}}
    \cup {<<IntegerOf(128), OctetString(n), OidOf(<<2, 16, 840>>)>> : n \in {0, 2, 120}}

=============================================================================
