-------------------------------- MODULE Der --------------------------------
(***************************************************************************)
(* The DER reader and writer of asn1.py on a message as they are used      *)
(* together: a SEQUENCE of integers, object identifiers and octet strings  *)
(* is encoded, its bytes arrive whole or not, and they are read back.      *)
(*                                                                         *)
(* Offsets count from 0, as in the code; a TLA+ sequence counts from 1.    *)
(***************************************************************************)
EXTENDS Integers, SequencesExt

CONSTANTS
    Messages,  \* the sequences of values that are sent
    Octets,    \* what a byte may be altered to
    Beyond     \* bound: numbers are not told apart that are farther from 0

TAG_INTEGER == 2
TAG_OCTET_STRING == 4
TAG_OID == 6
TAG_SEQUENCE == 48

Byte == 0..255

Capped(n) == IF n > Beyond THEN Beyond ELSE IF n < -Beyond THEN -Beyond ELSE n

-----------------------------------------------------------------------------
(***************************************************************************)
(* The digits of every number up to n, most significant first, none of 0.  *)
(***************************************************************************)
Digits(base, mark, n) ==
    LET digits[a \in 0..n] ==
            IF a = 0 THEN <<>> ELSE Append(digits[a \div base], mark + (a % base))
    IN  digits

(***************************************************************************)
(* int.to_bytes over (bit_length + 7) // 8 bytes, and int.from_bytes: 0,   *)
(* or -1 for a negative number, and then byte by byte.                     *)
(***************************************************************************)
to_bytes(n) == Digits(256, 0, n)[n]

NumberAfter(first, bytes) ==
    LET after[n \in 0..Len(bytes)] ==
            IF n = 0 THEN first ELSE Capped(256 * after[n - 1] + bytes[n])
    IN  after

from_bytes(bytes) == NumberAfter(0, bytes)[Len(bytes)]

(***************************************************************************)
(* Mutant: 128 still fits the short form.                                  *)
(***************************************************************************)
encode_lengthShort(n) ==
    IF n <= 128 THEN <<n>> ELSE <<128 + Len(to_bytes(n))>> \o to_bytes(n)

encode_length(n) == IF n < 128 THEN <<n>> ELSE <<128 + Len(to_bytes(n))>> \o to_bytes(n)

encode_tlv(tag, content) == <<tag>> \o encode_length(Len(content)) \o content

(***************************************************************************)
(* Mutant: a zero byte before every integer, not only where the first bit  *)
(* would be taken for a sign.                                              *)
(***************************************************************************)
encode_integerPadded(value) ==
    encode_tlv(TAG_INTEGER, IF value = 0 THEN <<0>> ELSE <<0>> \o to_bytes(value))

IntegerBytes(value) ==
    IF value = 0 THEN <<0>>
    ELSE IF to_bytes(value)[1] >= 128 THEN <<0>> \o to_bytes(value)
    ELSE to_bytes(value)

encode_integer(value) == encode_tlv(TAG_INTEGER, IntegerBytes(value))

(***************************************************************************)
(* Base 128, all digits but the last marked.                               *)
(***************************************************************************)
Marked(arc) == Digits(128, 128, arc)

Chunk(arc) == Append(Marked(arc)[arc \div 128], arc % 128)

(***************************************************************************)
(* Pieces put one behind the other: the bytes up to the n-th.              *)
(***************************************************************************)
Joined(first, pieces) ==
    LET upTo[n \in 0..Len(pieces)] == IF n = 0 THEN first ELSE upTo[n - 1] \o pieces[n]
    IN  upTo

OidBytes(arcs) ==
    Joined(<<40 * arcs[1] + arcs[2]>>, [n \in 1..(Len(arcs) - 2) |-> Chunk(arcs[n + 2])])

encode_oid(arcs) == encode_tlv(TAG_OID, OidBytes(arcs)[Len(arcs) - 2])

ValueContent(value) ==
    CASE value.tag = TAG_INTEGER      -> IntegerBytes(value.of[1])
      [] value.tag = TAG_OID          -> OidBytes(value.of)[Len(value.of) - 2]
      [] value.tag = TAG_OCTET_STRING -> value.of

Encoded(value) ==
    CASE value.tag = TAG_INTEGER      -> encode_integer(value.of[1])
      [] value.tag = TAG_OID          -> encode_oid(value.of)
      [] value.tag = TAG_OCTET_STRING -> encode_tlv(TAG_OCTET_STRING, value.of)

ValueBytes(values) == Joined(<<>>, [n \in 1..Len(values) |-> Encoded(values[n])])

Body(values) == ValueBytes(values)[Len(values)]

encode_sequence(values) == encode_tlv(TAG_SEQUENCE, Body(values))

-----------------------------------------------------------------------------
(***************************************************************************)
(* Python's buf[first:end].                                                *)
(***************************************************************************)
Slice(buf, first, end) == SubSeq(buf, first + 1, IF end < Len(buf) THEN end ELSE Len(buf))

LengthByte(buf, offset) == buf[offset + 2]

HeaderLen(buf, offset) ==
    IF LengthByte(buf, offset) < 128 THEN 2 ELSE LengthByte(buf, offset) - 126

(***************************************************************************)
(* Mutant: the header is not counted.                                      *)
(***************************************************************************)
EndNoHeader(buf, offset) ==
    offset + (IF LengthByte(buf, offset) < 128 THEN LengthByte(buf, offset)
              ELSE from_bytes(Slice(buf, offset + 2, offset + HeaderLen(buf, offset))))

End(buf, offset) ==
    offset + HeaderLen(buf, offset)
    + (IF LengthByte(buf, offset) < 128 THEN LengthByte(buf, offset)
       ELSE from_bytes(Slice(buf, offset + 2, offset + HeaderLen(buf, offset))))

(***************************************************************************)
(* Mutant: a buffer that ends within the content is read as far as it      *)
(* goes.                                                                   *)
(***************************************************************************)
ReadableShort(buf, offset) ==
    /\ offset + 1 < Len(buf)
    /\ buf[offset + 1] % 32 # 31
    /\ LengthByte(buf, offset) # 128 /\ LengthByte(buf, offset) <= 132
    /\ offset + HeaderLen(buf, offset) <= Len(buf)

(***************************************************************************)
(* read_tlv's checks: a tag byte and a length byte, a tag of one byte, a   *)
(* definite length of at most four bytes, the length's bytes, the content. *)
(***************************************************************************)
Readable(buf, offset) ==
    /\ offset + 1 < Len(buf)
    /\ buf[offset + 1] % 32 # 31
    /\ LengthByte(buf, offset) # 128 /\ LengthByte(buf, offset) <= 132
    /\ offset + HeaderLen(buf, offset) <= Len(buf)
    /\ End(buf, offset) <= Len(buf)

(***************************************************************************)
(* What read_tlv returns where it does not raise DerError.                 *)
(***************************************************************************)
read_tlv(buf, offset) ==
    [tag     |-> buf[offset + 1],
     content |-> Slice(buf, offset + HeaderLen(buf, offset), End(buf, offset)),
     full    |-> Slice(buf, offset, End(buf, offset)),
     end     |-> End(buf, offset)]

(***************************************************************************)
(* One byte more, to the arcs read and what has been read of the next one; *)
(* and so on, for n bytes behind the first.                                *)
(***************************************************************************)
Taken(s, b) ==
    LET val == 128 * s.val + (b % 128)
    IN  IF b < 128 THEN [arcs |-> Append(s.arcs, val), val |-> 0]
                   ELSE [arcs |-> s.arcs, val |-> val]

ArcsAfter(content) ==
    LET after[n \in 0..(Len(content) - 1)] ==
            IF n = 0 THEN [arcs |-> <<content[1] \div 40, content[1] % 40>>, val |-> 0]
                     ELSE Taken(after[n - 1], content[n + 1])
    IN  after

decode_oid(content) == ArcsAfter(content)[Len(content) - 1].arcs

(***************************************************************************)
(* Two's complement.                                                       *)
(***************************************************************************)
decode_integer(content) ==
    NumberAfter(IF content[1] < 128 THEN 0 ELSE -1, content)[Len(content)]

Decodable(child) ==
    /\ child.tag \in {TAG_INTEGER, TAG_OID} => child.content # <<>>
    /\ child.tag = TAG_OID => Last(child.content) < 128

Decoded(child) ==
    [tag |-> child.tag,
     of  |-> CASE child.tag = TAG_INTEGER -> <<decode_integer(child.content)>>
               [] child.tag = TAG_OID     -> decode_oid(child.content)
               [] OTHER                   -> child.content]

-----------------------------------------------------------------------------
VARIABLES
    sent,     \* the values of the message
    buf,      \* its bytes as they arrive
    fate,     \* what happened to them: "whole", "truncated", "altered", "extended"
    step,     \* "open", "children", "decode", then "read" or "DerError"
    content,  \* the content of the SEQUENCE
    off,      \* how much of it has been read
    out       \* its children, then their values

vars == <<sent, buf, fate, step, content, off, out>>

Arrives(newFate, newBuf) ==
    /\ step = "open" /\ fate = "whole"
    /\ fate' = newFate /\ buf' = newBuf
    /\ UNCHANGED <<sent, step, content, off, out>>

Truncate == \E n \in 0..(Len(buf) - 1) : Arrives("truncated", SubSeq(buf, 1, n))

Alter == \E n \in 1..Len(buf), o \in Octets : Arrives("altered", [buf EXCEPT ![n] = o])

Extend == \E o \in Octets : Arrives("extended", Append(buf, o))

DerError == step' = "DerError" /\ UNCHANGED <<sent, buf, fate, content, off, out>>

(***************************************************************************)
(* What follows the SEQUENCE is not looked at.                             *)
(***************************************************************************)
Open ==
    /\ step = "open"
    /\ \/ /\ Readable(buf, 0) /\ read_tlv(buf, 0).tag = TAG_SEQUENCE
          /\ step' = "children"
          /\ content' = read_tlv(buf, 0).content
          /\ UNCHANGED <<sent, buf, fate, off, out>>
       \/ ~(Readable(buf, 0) /\ read_tlv(buf, 0).tag = TAG_SEQUENCE) /\ DerError

(***************************************************************************)
(* One turn of the loop of read_children.                                  *)
(***************************************************************************)
ReadChild ==
    /\ step = "children" /\ off < Len(content)
    /\ \/ /\ Readable(content, off)
          /\ out' = Append(out, read_tlv(content, off))
          /\ off' = read_tlv(content, off).end
          /\ UNCHANGED <<sent, buf, fate, step, content>>
       \/ ~Readable(content, off) /\ DerError

AllRead ==
    /\ step = "children" /\ off >= Len(content)
    /\ step' = "decode"
    /\ UNCHANGED <<sent, buf, fate, content, off, out>>

Decode ==
    /\ step = "decode"
    /\ \/ /\ \A k \in DOMAIN out : Decodable(out[k])
          /\ step' = "read"
          /\ UNCHANGED <<sent, buf, fate, content, off, out>>
       \/ (\E k \in DOMAIN out : ~Decodable(out[k])) /\ DerError

Read == Open \/ ReadChild \/ AllRead \/ Decode

Init ==
    /\ sent \in Messages
    /\ buf = encode_sequence(sent)
    /\ fate = "whole" /\ step = "open"
    /\ content = <<>> /\ off = 0 /\ out = <<>>

(***************************************************************************)
(* Nothing happens after the answer; anything before it that cannot go on  *)
(* is a deadlock.                                                          *)
(***************************************************************************)
Answered == step \in {"read", "DerError"} /\ UNCHANGED vars

Next == Truncate \/ Alter \/ Extend \/ Read \/ Answered

Spec == Init /\ [][Next]_vars
-----------------------------------------------------------------------------
ASSUME BeyondAssumption == Beyond \in Nat

(***************************************************************************)
(* A length of at most four bytes, as read_tlv takes it.                   *)
(***************************************************************************)
Fits(n) == n <= Beyond /\ n \div (256 * 256 * 256) < 256

(***************************************************************************)
(* The values the encoders have an encoding for, and the reader a length:  *)
(* integers that are not negative, identifiers of two arcs or more whose   *)
(* first two share a byte without loss, strings of bytes.                  *)
(***************************************************************************)
Oid ==
    {arcs \in Seq(Nat) : Len(arcs) >= 2 /\ arcs[1] <= 2 /\ arcs[2] < 40}

Value ==
    {v \in [tag: {TAG_INTEGER}, of: [1..1 -> 0..Beyond]]
           \cup [tag: {TAG_OID}, of: Oid]
           \cup [tag: {TAG_OCTET_STRING}, of: Seq(Byte)] : Fits(Len(ValueContent(v)))}

ASSUME MessagesAssumption ==
    \A m \in Messages : m \in Seq(Value) /\ Fits(Len(Body(m)))

ASSUME OctetsAssumption == Octets \subseteq Byte

Child == [tag: Byte, content: Seq(Byte), full: Seq(Byte), end: Nat]

TypeOK ==
    /\ sent \in Messages
    /\ buf \in Seq(Byte)
    /\ fate \in {"whole", "truncated", "altered", "extended"}
    /\ step \in {"open", "children", "decode", "read", "DerError"}
    /\ content \in Seq(Byte)
    /\ off \in 0..Len(content)
    /\ out \in Seq(Child)

(***************************************************************************)
(* What was encoded is read back, value by value, at every length: at 127  *)
(* and 128, 255 and 256 bytes, and with and without a sign byte; also when *)
(* bytes follow the message.                                               *)
(***************************************************************************)
RoundTrip ==
    fate \in {"whole", "extended"} =>
        /\ step # "DerError"
        /\ step = "read" => [k \in DOMAIN out |-> Decoded(out[k])] = sent

(***************************************************************************)
(* "Truncated DER" is always seen: bytes cut off anywhere, of a message of *)
(* any size, are a DerError, never a shorter message.                      *)
(***************************************************************************)
TruncationSeen == fate = "truncated" => step \in {"open", "DerError"}

(***************************************************************************)
(* Whatever arrives, the children take up the SEQUENCE: each is its header *)
(* and its content, as long as its header says, and they follow each other *)
(* without a gap up to the last byte.                                      *)
(***************************************************************************)
Tiled ==
    LET start(k) == IF k = 1 THEN 0 ELSE out[k - 1].end
    IN  /\ \A k \in DOMAIN out :
              /\ out[k].full = SubSeq(content, start(k) + 1, out[k].end)
              /\ Len(out[k].full) = HeaderLen(content, start(k)) + Len(out[k].content)
              /\ IsSuffix(out[k].content, out[k].full)
        /\ step \in {"decode", "read"} /\ content # <<>> => Last(out).end = Len(content)

(***************************************************************************)
(* DER: an integer is written in as few bytes as it takes.                 *)
(***************************************************************************)
Shortest(bytes) ==
    Len(bytes) > 1 => ~(bytes[1] = 0 /\ bytes[2] < 128) /\ ~(bytes[1] = 255 /\ bytes[2] >= 128)

IntegersShortest ==
    fate = "whole" => \A k \in DOMAIN out : out[k].tag = TAG_INTEGER => Shortest(out[k].content)

(***************************************************************************)
(* Whatever arrives, a turn of the loop takes at least the two bytes of a  *)
(* header and never more than there are: reading comes to an end.          *)
(***************************************************************************)
Advances == [][out' # out => off + 2 <= off' /\ off' <= Len(content)]_vars

=============================================================================
