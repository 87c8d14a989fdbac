------------------------------ MODULE Protobuf ------------------------------
(***************************************************************************)
(* The generated messages of rpc.proto and echo_service.proto              *)
(* (rpc.pb.h and .cc, echo_service.pb.h and .cc) as the codec, server,     *)
(* channel and tests use them.                                             *)
(*                                                                         *)
(* A message has a bit per field (_has_bits_), a string per field and the  *)
(* bytes of the fields it does not know.  A string that was never          *)
(* allocated is the shared empty string: DefaultString.  Strings are       *)
(* sequences of bytes.  All fields of the four messages are required       *)
(* strings, numbered from 1, so a message type is its set of numbers.      *)
(***************************************************************************)
EXTENDS Naturals, Sequences

CONSTANT DefaultString

ASSUME DefaultStringAssumption == DefaultString \notin Seq(0 .. 255)

RpcRequest == 1..3       \* service, method, argument_bytes
RpcResponse == {1}       \* response_message
EchoRequest == {1}       \* text
EchoResponse == {1}      \* text

--------------------------------------------------------------------------
(* What every generated class does.                                        *)

New(type) == [has |-> {}, str |-> [f \in type |-> DefaultString], unknown |-> <<>>]

Field(m, f) == IF m.str[f] = DefaultString THEN <<>> ELSE m.str[f]

SetField(m, f, v) == [m EXCEPT !.has = @ \cup {f}, !.str[f] = v]

\* mutable_x(): the bit is set and the string exists, whatever it holds.
MutableField(m, f) == SetField(m, f, Field(m, f))

\* clear_x(): an allocated string is emptied and kept.
ClearField(m, f) ==
    [m EXCEPT !.has = @ \ {f},
              !.str[f] = IF @ = DefaultString THEN @ ELSE <<>>]

ReleaseField(m, f) == [m EXCEPT !.has = @ \ {f}, !.str[f] = DefaultString]

\* set_allocated_x(v); DefaultString stands for a null pointer.
SetAllocated(m, f, v) ==
    [m EXCEPT !.has = IF v = DefaultString THEN @ \ {f} ELSE @ \cup {f},
              !.str[f] = v]

\* Mutant: only the bits are cleared.
MessageClearBits(m) == [m EXCEPT !.has = {}, !.unknown = <<>>]
MessageClear(m) ==
    [has |-> {},
     str |-> [f \in DOMAIN m.str |-> IF f \in m.has THEN <<>> ELSE m.str[f]],
     unknown |-> <<>>]

MergeFrom(m, from) ==
    [has |-> m.has \cup from.has,
     str |-> [f \in DOMAIN m.str |-> IF f \in from.has THEN from.str[f] ELSE m.str[f]],
     unknown |-> m.unknown \o from.unknown]

\* Clear() and MergeFrom(); a message copied to itself is left alone.
CopyFrom(m, from) == MergeFrom(MessageClear(m), from)

IsInitialized(m) == m.has = DOMAIN m.str

--------------------------------------------------------------------------
(* The wire format: a tag, a length and the bytes of each present field,   *)
(* then what was not understood when the message was parsed.               *)

\* A length in up to three bytes: the codec refuses messages of 0xFFFF bytes.
Varint(n) ==
    IF n < 128 THEN <<n>>
    ELSE IF n < 128 * 128 THEN <<128 + (n % 128), n \div 128>>
    ELSE <<128 + (n % 128), 128 + ((n \div 128) % 128), n \div (128 * 128)>>

Delimited(m, f) == <<8 * f + 2>> \o Varint(Len(Field(m, f))) \o Field(m, f)

\* Present fields in the order of their numbers (a type has at most three).
Serialize(m) ==
    LET Part(f) == IF f \in m.has THEN Delimited(m, f) ELSE <<>>
    IN  Part(1) \o Part(2) \o Part(3) \o m.unknown

\* Mutant: every length takes one byte.
StringSizeOneByte(v) == 1 + Len(v)
StringSize(v) == Len(Varint(Len(v))) + Len(v)

\* The size the buffers are made with, before Serialize writes to them.
ByteSizeLong(m) ==
    LET Part(f) == IF f \in m.has THEN 1 + StringSize(Field(m, f)) ELSE 0
    IN  Part(1) + Part(2) + Part(3) + Len(m.unknown)

\* A message that was not parsed holds what nobody asks for.
NotParsed(m) == [ok |-> FALSE, m |-> m]

\* How many bytes the varint at s[2] has (0 when the input ends within it),
\* and what it says.
VarintSize(s) ==
    IF Len(s) >= 2 /\ s[2] < 128 THEN 1
    ELSE IF Len(s) >= 3 /\ s[3] < 128 THEN 2
    ELSE IF Len(s) >= 4 /\ s[4] < 128 THEN 3 ELSE 0
VarintValue(s) ==
    CASE VarintSize(s) = 1 -> s[2]
      [] VarintSize(s) = 2 -> s[2] - 128 + 128 * s[3]
      [] VarintSize(s) = 3 -> s[2] - 128 + 128 * (s[3] - 128) + 128 * 128 * s[4]
      [] OTHER -> 0

\* How many bytes follow the tag at s[1], that of a field of this wire type:
\* a varint, eight bytes, a length and that many bytes, four bytes.  0 when
\* the input ends within the field (the bytes of a group are not skipped: no
\* message has one).
FieldLength(s) ==
    LET size == CASE s[1] % 8 = 0 -> VarintSize(s)
                  [] s[1] % 8 = 1 -> 8
                  [] s[1] % 8 = 2 -> IF VarintSize(s) = 0 THEN 0 ELSE VarintSize(s) + VarintValue(s)
                  [] s[1] % 8 = 5 -> 4
                  [] OTHER -> 0
    IN  IF 1 + size <= Len(s) THEN size ELSE 0

\* What is behind the first field.
BehindField(s) == SubSeq(s, 2 + FieldLength(s), Len(s))

\* The fields in the bytes s, when those behind the first one are rest.  A
\* zero tag or a field that the input ends within fails the parse.
FieldAndRest(type, s, rest) ==
    LET n == FieldLength(s)
        f == s[1] \div 8
        known == f \in type /\ s[1] % 8 = 2
    IN  IF s = <<>> THEN [ok |-> TRUE, known |-> <<>>, unknown |-> <<>>]
        ELSE IF n = 0 \/ f = 0 THEN [ok |-> FALSE, known |-> <<>>, unknown |-> <<>>]
        ELSE IF known
        THEN [rest EXCEPT !.known = [g \in {f} \cup DOMAIN @ |->
                 IF g \in DOMAIN @ THEN @[g] ELSE SubSeq(s, 2 + VarintSize(s), 1 + n)]]
        ELSE [rest EXCEPT !.unknown = SubSeq(s, 1, 1 + n) \o @]

\* The fields in the bytes of a message of a type: those it knows (the last
\* of several wins), and the others as they are.
Fields(type) ==
    LET fields[s \in Seq(0 .. 255)] == FieldAndRest(type, s, fields[BehindField(s)])
    IN  fields

\* MergePartialFromCodedStream.
MergePartial(m, s) ==
    LET p == Fields(DOMAIN m.str)[s]
    IN  IF ~ p.ok THEN NotParsed(m)
        ELSE [ok |-> TRUE,
              m |-> [has |-> m.has \cup DOMAIN p.known,
                     str |-> [f \in DOMAIN m.str |->
                                 IF f \in DOMAIN p.known THEN p.known[f] ELSE m.str[f]],
                     unknown |-> m.unknown \o p.unknown]]

\* ParseFromArray, ParseFromString: the message is cleared first, and it has
\* to have all its fields afterwards.
Parse(m, s) ==
    LET p == MergePartial(MessageClear(m), s)
    IN  IF p.ok /\ IsInitialized(p.m) THEN p ELSE NotParsed(m)

--------------------------------------------------------------------------
(* The four classes as their users call them.                              *)

NewRpcRequest == New(RpcRequest)
NewRpcResponse == New(RpcResponse)
NewEchoRequest == New(EchoRequest)
NewEchoResponse == New(EchoResponse)

RpcRequestOf(service, method, argument) ==
    SetField(SetField(SetField(NewRpcRequest, 1, service), 2, method), 3, argument)
RpcResponseOf(bytes) == SetField(NewRpcResponse, 1, bytes)
EchoRequestOf(text) == SetField(NewEchoRequest, 1, text)
SetEchoText(response, text) == SetField(response, 1, text)

RpcRequestBytes(m) == SubSeq(Serialize(m), 1, ByteSizeLong(m))
RpcResponseBytes(m) == SubSeq(Serialize(m), 1, ByteSizeLong(m))
EchoRequestBytes(m) == SubSeq(Serialize(m), 1, ByteSizeLong(m))
EchoResponseBytes(m) == SubSeq(Serialize(m), 1, ByteSizeLong(m))

ParseRpcRequest(s) == Parse(NewRpcRequest, s)
ParseRpcResponse(s) == Parse(NewRpcResponse, s)
ParseEchoRequest(s) == Parse(NewEchoRequest, s)
ParseEchoResponse(s) == Parse(NewEchoResponse, s)
=============================================================================
