------------------------------ MODULE CodecInt ------------------------------
(***************************************************************************)
(* The integers of the TARS encoding (tars/protocol/codec/codec.go).  A     *)
(* writer stores an integer in the narrowest wire type that holds it, and   *)
(* zero in no byte at all; a reader of a given Go type accepts its own wire *)
(* type and every narrower one, and converts the unsigned bytes back.       *)
(*                                                                          *)
(* Max8 .. Max64 are the largest values of int8 .. int64.  The code's are   *)
(* 2^7-1, 2^15-1, 2^31-1 and 2^63-1; what is proved holds for every growing *)
(* chain, and TLC takes a chain that fits its own integers.                 *)
(***************************************************************************)
EXTENDS Integers

CONSTANTS Max8, Max16, Max32, Max64

ASSUME WidthsGrow ==
    /\ Max8 \in Nat /\ Max16 \in Nat /\ Max32 \in Nat /\ Max64 \in Nat
    /\ 0 < Max8
    /\ 2 * Max8 < Max16 /\ 2 * Max16 < Max32 /\ 2 * Max32 < Max64

(***************************************************************************)
(* The wire types, with the codes they have on the wire.                   *)
(***************************************************************************)
BYTE == 0
SHORT == 1
INT == 2
LONG == 3
FLOAT == 4
DOUBLE == 5
STRING1 == 6
STRING4 == 7
MAP == 8
LIST == 9
StructBegin == 10
StructEnd == 11
ZeroTag == 12
SimpleList == 13

Ints(M) == (-M - 1) .. M

\* uint8(data) and int8(tmp) of Go, for the type whose largest value is M.
ToUnsigned(v, M) == IF v < 0 THEN v + 2 * (M + 1) ELSE v
ToSigned(u, M) == IF u > M THEN u - 2 * (M + 1) ELSE u

(***************************************************************************)
(* An integer on the wire: the wire type of its head, and the unsigned     *)
(* value of the bytes that follow (none for ZeroTag).                      *)
(***************************************************************************)
OnWire(ty, u) == [ty |-> ty, u |-> u]

WriteInt8(data) ==
    IF data = 0 THEN OnWire(ZeroTag, 0) ELSE OnWire(BYTE, ToUnsigned(data, Max8))

\* Mutant for IntsSurvive: the border of int8 is off by one.
BugWriteInt16(data) ==
    IF data >= -Max8 - 1 /\ data <= Max8 + 1
    THEN WriteInt8(data) ELSE OnWire(SHORT, ToUnsigned(data, Max16))

WriteInt16(data) ==
    IF data >= -Max8 - 1 /\ data <= Max8
    THEN WriteInt8(data) ELSE OnWire(SHORT, ToUnsigned(data, Max16))

WriteInt32(data) ==
    IF data >= -Max16 - 1 /\ data <= Max16
    THEN WriteInt16(data) ELSE OnWire(INT, ToUnsigned(data, Max32))

WriteInt64(data) ==
    IF data >= -Max32 - 1 /\ data <= Max32
    THEN WriteInt32(data) ELSE OnWire(LONG, ToUnsigned(data, Max64))

\* Unsigned values travel in the next wider signed type.
WriteUint8(data) == WriteInt16(data)
WriteUint16(data) == WriteInt32(data)
WriteUint32(data) == WriteInt64(data)

WriteBool(data) == WriteInt8(IF data THEN 1 ELSE 0)

(***************************************************************************)
(* What a reader makes of it: the value, or the type-mismatch error.       *)
(***************************************************************************)
Value(v) == [err |-> FALSE, v |-> v]
TypeMismatch == [err |-> TRUE, v |-> 0]

ReadInt8(x) ==
    CASE x.ty = ZeroTag -> Value(0)
      [] x.ty = BYTE -> Value(ToSigned(x.u, Max8))
      [] OTHER -> TypeMismatch

ReadInt16(x) ==
    CASE x.ty = ZeroTag -> Value(0)
      [] x.ty = BYTE -> Value(ToSigned(x.u, Max8))
      [] x.ty = SHORT -> Value(ToSigned(x.u, Max16))
      [] OTHER -> TypeMismatch

ReadInt32(x) ==
    CASE x.ty = ZeroTag -> Value(0)
      [] x.ty = BYTE -> Value(ToSigned(x.u, Max8))
      [] x.ty = SHORT -> Value(ToSigned(x.u, Max16))
      [] x.ty = INT -> Value(ToSigned(x.u, Max32))
      [] OTHER -> TypeMismatch

ReadInt64(x) ==
    CASE x.ty = ZeroTag -> Value(0)
      [] x.ty = BYTE -> Value(ToSigned(x.u, Max8))
      [] x.ty = SHORT -> Value(ToSigned(x.u, Max16))
      [] x.ty = INT -> Value(ToSigned(x.u, Max32))
      [] x.ty = LONG -> Value(ToSigned(x.u, Max64))
      [] OTHER -> TypeMismatch

\* The unsigned readers convert whatever the wider reader returned.
Unsigned(r, M) == [err |-> r.err, v |-> r.v % (2 * (M + 1))]
ReadUint8(x) == Unsigned(ReadInt16(x), Max8)
ReadUint16(x) == Unsigned(ReadInt32(x), Max16)
ReadUint32(x) == Unsigned(ReadInt64(x), Max32)

ReadBool(x) == [ReadInt8(x) EXCEPT !.v = (@ # 0)]

(***************************************************************************)
(* What the encoding promises for integers.                                 *)
(***************************************************************************)
\* codec.go WriteInt64/ReadInt64 and narrower: what is written as one type
\* and read as the same or a wider type is the value written.
IntRoundTrip(v) ==
    /\ v \in Ints(Max8) => ReadInt8(WriteInt8(v)) = Value(v)
    /\ v \in Ints(Max16) => ReadInt16(WriteInt16(v)) = Value(v)
    /\ v \in Ints(Max32) => ReadInt32(WriteInt32(v)) = Value(v)
    /\ v \in Ints(Max64) => ReadInt64(WriteInt64(v)) = Value(v)

\* codec.go readers: a field whose type the sender widened is read by an old
\* receiver as the same value or refused, never cut down to its low bytes.
NoSilentTruncation(v) ==
    LET narrow == {ReadInt8(WriteInt64(v)), ReadInt16(WriteInt64(v)),
                   ReadInt32(WriteInt64(v))}
    IN  /\ \A r \in narrow : r.err \/ r.v = v
        /\ v \in Ints(Max8) => ReadInt8(WriteInt64(v)) = Value(v)
        /\ v \in Ints(Max16) => ReadInt16(WriteInt64(v)) = Value(v)
        /\ v \in Ints(Max32) => ReadInt32(WriteInt64(v)) = Value(v)

\* codec.go unsigned writers: an unsigned value survives the wider signed type.
UnsignedRoundTrip(v) ==
    /\ v \in 0 .. 2 * Max8 + 1 => ReadUint8(WriteUint8(v)) = Value(v)
    /\ v \in 0 .. 2 * Max16 + 1 => ReadUint16(WriteUint16(v)) = Value(v)
    /\ v \in 0 .. 2 * Max32 + 1 => ReadUint32(WriteUint32(v)) = Value(v)
=============================================================================
