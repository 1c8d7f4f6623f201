------------------------------- MODULE IntWire -------------------------------
(***************************************************************************)
(* An integer field under way between two peers (codec.go): any int64 that *)
(* a sender may write next.                                                *)
(***************************************************************************)
EXTENDS CodecInt

VARIABLE num

NumInit == num = 0
WriteNext(v) == v \in Ints(Max64) /\ num' = v
NumNext == \E v \in Ints(Max64) : WriteNext(v)
NumSpec == NumInit /\ [][NumNext]_num

\* codec.go: an integer read with the type it was written with, signed or unsigned,
\* is the integer written, at every border between two wire types; a receiver whose
\* field is narrower than the sender's gets the value or an error, never the low bytes.
IntsSurvive == IntRoundTrip(num) /\ UnsignedRoundTrip(num) /\ NoSilentTruncation(num)
=============================================================================
