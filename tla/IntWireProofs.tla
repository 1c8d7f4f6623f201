---------------------------- MODULE IntWireProofs ----------------------------
(***************************************************************************)
(* The integers of the TARS encoding for every growing chain of widths,    *)
(* that of the code (2^7-1, 2^15-1, 2^31-1, 2^63-1) among them.            *)
(***************************************************************************)
EXTENDS IntWire, TLAPS

\* The conversion of Go between intN and uintN loses nothing.
LEMMA SignedAgain ==
  ASSUME NEW M \in Nat, NEW v \in Ints(M)
  PROVE  /\ ToSigned(ToUnsigned(v, M), M) = v
         /\ ToUnsigned(v, M) \in 0 .. 2 * M + 1
BY DEF Ints, ToSigned, ToUnsigned

\* The conversion to uintN keeps a value that fits.
LEMMA ModSmall ==
  ASSUME NEW m \in Nat, NEW v \in Nat, v < m
  PROVE  v % m = v
BY Z3

\* The wire types are told apart by their codes.
LEMMA TypesDiffer ==
  /\ ZeroTag # BYTE /\ ZeroTag # SHORT /\ ZeroTag # INT /\ ZeroTag # LONG
  /\ BYTE # SHORT /\ BYTE # INT /\ BYTE # LONG
  /\ SHORT # INT /\ SHORT # LONG /\ INT # LONG
BY DEF ZeroTag, BYTE, SHORT, INT, LONG

\* What a reader that knows the wire type of M, and does not take it for zero,
\* makes of a value stored in that type.
LEMMA StoredIn ==
  ASSUME NEW M \in Nat, NEW v \in Ints(M), NEW ty
  PROVE  /\ OnWire(ty, ToUnsigned(v, M)).ty = ty
         /\ ToSigned(OnWire(ty, ToUnsigned(v, M)).u, M) = v
BY SignedAgain DEF OnWire

\* The range of each type holds that of the next narrower one.
LEMMA RangesGrow ==
  /\ Ints(Max8) \subseteq Ints(Max16)
  /\ Ints(Max16) \subseteq Ints(Max32)
  /\ Ints(Max32) \subseteq Ints(Max64)
BY WidthsGrow DEF Ints

\* WriteInt8: every reader, int8 or wider, finds the value.
LEMMA ByteRead ==
  ASSUME NEW v \in Ints(Max8)
  PROVE  LET x == WriteInt8(v)
         IN  /\ ReadInt8(x) = Value(v) /\ ReadInt16(x) = Value(v)
             /\ ReadInt32(x) = Value(v) /\ ReadInt64(x) = Value(v)
<1>1. Max8 \in Nat
  BY WidthsGrow
<1>2. CASE v = 0
  <2>1. WriteInt8(v).ty = ZeroTag
    BY <1>2 DEF WriteInt8, OnWire
  <2> QED
    BY <1>2, <2>1, TypesDiffer DEF ReadInt8, ReadInt16, ReadInt32, ReadInt64
<1>3. CASE v # 0
  <2>1. WriteInt8(v) = OnWire(BYTE, ToUnsigned(v, Max8))
    BY <1>3 DEF WriteInt8
  <2>2. WriteInt8(v).ty = BYTE /\ ToSigned(WriteInt8(v).u, Max8) = v
    BY <1>1, <2>1, StoredIn
  <2> QED
    BY <2>2, TypesDiffer DEF ReadInt8, ReadInt16, ReadInt32, ReadInt64
<1> QED
  BY <1>2, <1>3

\* WriteInt16: so does every reader that is int16 or wider, and one of int8 if the
\* value fits; otherwise it reports the mismatch.
LEMMA ShortRead ==
  ASSUME NEW v \in Ints(Max16)
  PROVE  LET x == WriteInt16(v)
         IN  /\ ReadInt16(x) = Value(v) /\ ReadInt32(x) = Value(v) /\ ReadInt64(x) = Value(v)
             /\ ReadInt8(x) = IF v \in Ints(Max8) THEN Value(v) ELSE TypeMismatch
<1>1. Max16 \in Nat /\ Max8 \in Nat /\ v \in Int
  BY WidthsGrow DEF Ints
<1>2. CASE v \in Ints(Max8)
  <2>1. WriteInt16(v) = WriteInt8(v)
    BY <1>1, <1>2 DEF WriteInt16, Ints
  <2> QED
    BY <1>2, <2>1, ByteRead
<1>3. CASE v \notin Ints(Max8)
  <2>1. WriteInt16(v) = OnWire(SHORT, ToUnsigned(v, Max16))
    BY <1>1, <1>3 DEF WriteInt16, Ints
  <2>2. WriteInt16(v).ty = SHORT /\ ToSigned(WriteInt16(v).u, Max16) = v
    BY <1>1, <2>1, StoredIn
  <2> QED
    BY <1>3, <2>2, TypesDiffer DEF ReadInt8, ReadInt16, ReadInt32, ReadInt64
<1> QED
  BY <1>2, <1>3

\* WriteInt32, in the same way.
LEMMA IntRead ==
  ASSUME NEW v \in Ints(Max32)
  PROVE  LET x == WriteInt32(v)
         IN  /\ ReadInt32(x) = Value(v) /\ ReadInt64(x) = Value(v)
             /\ ReadInt16(x) = IF v \in Ints(Max16) THEN Value(v) ELSE TypeMismatch
             /\ ReadInt8(x) = IF v \in Ints(Max8) THEN Value(v) ELSE TypeMismatch
<1>1. Max32 \in Nat /\ Max16 \in Nat /\ v \in Int
  BY WidthsGrow DEF Ints
<1>2. CASE v \in Ints(Max16)
  <2>1. WriteInt32(v) = WriteInt16(v)
    BY <1>1, <1>2 DEF WriteInt32, Ints
  <2> QED
    BY <1>2, <2>1, ShortRead
<1>3. CASE v \notin Ints(Max16)
  <2>1. WriteInt32(v) = OnWire(INT, ToUnsigned(v, Max32))
    BY <1>1, <1>3 DEF WriteInt32, Ints
  <2>2. WriteInt32(v).ty = INT /\ ToSigned(WriteInt32(v).u, Max32) = v
    BY <1>1, <2>1, StoredIn
  <2>3. v \notin Ints(Max8)
    BY <1>3, RangesGrow
  <2> QED
    BY <1>3, <2>2, <2>3, TypesDiffer DEF ReadInt8, ReadInt16, ReadInt32, ReadInt64
<1> QED
  BY <1>2, <1>3

\* WriteInt64, in the same way.
LEMMA LongRead ==
  ASSUME NEW v \in Ints(Max64)
  PROVE  LET x == WriteInt64(v)
         IN  /\ ReadInt64(x) = Value(v)
             /\ ReadInt32(x) = IF v \in Ints(Max32) THEN Value(v) ELSE TypeMismatch
             /\ ReadInt16(x) = IF v \in Ints(Max16) THEN Value(v) ELSE TypeMismatch
             /\ ReadInt8(x) = IF v \in Ints(Max8) THEN Value(v) ELSE TypeMismatch
<1>1. Max64 \in Nat /\ Max32 \in Nat /\ v \in Int
  BY WidthsGrow DEF Ints
<1>2. CASE v \in Ints(Max32)
  <2>1. WriteInt64(v) = WriteInt32(v)
    BY <1>1, <1>2 DEF WriteInt64, Ints
  <2> QED
    BY <1>2, <2>1, IntRead
<1>3. CASE v \notin Ints(Max32)
  <2>1. WriteInt64(v) = OnWire(LONG, ToUnsigned(v, Max64))
    BY <1>1, <1>3 DEF WriteInt64, Ints
  <2>2. WriteInt64(v).ty = LONG /\ ToSigned(WriteInt64(v).u, Max64) = v
    BY <1>1, <2>1, StoredIn
  <2>3. v \notin Ints(Max8) /\ v \notin Ints(Max16)
    BY <1>3, RangesGrow
  <2> QED
    BY <1>3, <2>2, <2>3, TypesDiffer DEF ReadInt8, ReadInt16, ReadInt32, ReadInt64
<1> QED
  BY <1>2, <1>3

\* A value read back unchanged survives the conversion to the unsigned type.
LEMMA UnsignedAgain ==
  ASSUME NEW M \in Nat, NEW v \in 0 .. 2 * M + 1
  PROVE  Unsigned(Value(v), M) = Value(v)
<1>1. v % (2 * (M + 1)) = v
  BY ModSmall
<1> QED
  BY <1>1 DEF Value, Unsigned

\* codec.go: what the encoding promises for the integers of every type.
THEOREM SignedSurvive ==
  \A v \in Ints(Max64) : IntRoundTrip(v) /\ NoSilentTruncation(v)
<1> SUFFICES ASSUME NEW v \in Ints(Max64) PROVE IntRoundTrip(v) /\ NoSilentTruncation(v)
  OBVIOUS
<1>1. IntRoundTrip(v)
  BY ByteRead, ShortRead, IntRead, LongRead DEF IntRoundTrip
<1>2. NoSilentTruncation(v)
  BY LongRead, RangesGrow DEF NoSilentTruncation, Value, TypeMismatch
<1> QED
  BY <1>1, <1>2

\* codec.go WriteUint8 .. WriteUint32: an unsigned value fits the wider signed type
\* it travels in, and comes back.
THEOREM UnsignedSurvive ==
  \A v \in Int : UnsignedRoundTrip(v)
<1> SUFFICES ASSUME NEW v \in Int PROVE UnsignedRoundTrip(v)
  OBVIOUS
<1> USE WidthsGrow
<1>1. ASSUME v \in 0 .. 2 * Max8 + 1 PROVE ReadUint8(WriteUint8(v)) = Value(v)
  <2>1. v \in Ints(Max16)
    BY <1>1 DEF Ints
  <2>2. ReadInt16(WriteInt16(v)) = Value(v)
    BY <2>1, ShortRead
  <2> QED
    BY <1>1, <2>2, UnsignedAgain DEF ReadUint8, WriteUint8
<1>2. ASSUME v \in 0 .. 2 * Max16 + 1 PROVE ReadUint16(WriteUint16(v)) = Value(v)
  <2>1. v \in Ints(Max32)
    BY <1>2 DEF Ints
  <2>2. ReadInt32(WriteInt32(v)) = Value(v)
    BY <2>1, IntRead
  <2> QED
    BY <1>2, <2>2, UnsignedAgain DEF ReadUint16, WriteUint16
<1>3. ASSUME v \in 0 .. 2 * Max32 + 1 PROVE ReadUint32(WriteUint32(v)) = Value(v)
  <2>1. v \in Ints(Max64)
    BY <1>3 DEF Ints
  <2>2. ReadInt64(WriteInt64(v)) = Value(v)
    BY <2>1, LongRead
  <2> QED
    BY <1>3, <2>2, UnsignedAgain DEF ReadUint32, WriteUint32
<1> QED
  BY <1>1, <1>2, <1>3 DEF UnsignedRoundTrip

\* What is under way is an int64.
NumInRange == num \in Ints(Max64)

\* Every integer that a sender may write survives, at every width.
THEOREM IntsSurviveAlways == NumSpec => []IntsSurvive
<1>1. NumInit => NumInRange
  BY WidthsGrow DEF NumInit, NumInRange, Ints
<1>2. NumInRange /\ [NumNext]_num => NumInRange'
  BY DEF NumNext, WriteNext, NumInRange
<1>3. NumInRange => IntsSurvive
  BY SignedSurvive, UnsignedSurvive, WidthsGrow DEF IntsSurvive, NumInRange, Ints
<1> QED
  BY <1>1, <1>2, <1>3, PTL DEF NumSpec
=============================================================================
