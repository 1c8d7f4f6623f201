--------------------------------- MODULE Tup ---------------------------------
(***************************************************************************)
(* TUP attributes (tars/protocol/tup/tup.go): named buffers, each holding   *)
(* one value under tag 0, sent together as one map.                         *)
(*                                                                          *)
(* u is the map _data of a UniAttribute: names to streams.  Get is not      *)
(* modelled, it always answers with an error; nor is DoGet, which nobody    *)
(* calls.                                                                   *)
(***************************************************************************)
EXTENDS TarsStructs

\* A name as a string on the wire; "" is the empty one.
NameOnWire(k) == IF k = "" THEN NoBytes ELSE [n |-> 4, c |-> << k >>]
NameOf(s) == IF s.n = 0 THEN "" ELSE s.c[1]
BufferOf(stream) == [n |-> Len(stream), c |-> stream]

PutBuffer(u, k, buf) ==
    [x \in DOMAIN u \cup {k} |-> IF x = k THEN buf ELSE u[x]]

\* A name that is not there gives the nil buffer; the error is for the caller.
GetBuffer(u, k) ==
    [err |-> k \notin DOMAIN u, buf |-> IF k \in DOMAIN u THEN u[k] ELSE << >>]

(***************************************************************************)
(* Put writes by the run-time type of its argument.  An empty slice is     *)
(* always a list, whatever its elements; a map is refused.                 *)
(***************************************************************************)
Put(err, s) == [err |-> err, s |-> s]

putBase(v, t) == IF t.k = "map" THEN Put(TRUE, << >>) ELSE Put(FALSE, WriteVar(v, 0, t))

RECURSIVE doPut(_, _)
doPut(v, t) ==
    IF t.k = "bytes"
    THEN Put(FALSE, IF v.n = 0 THEN WriteVector(<< >>, 0, List(I8))
                    ELSE WriteSimpleList(v, 0))
    ELSE IF t.k = "list"
    THEN LET parts == [i \in 1 .. Len(v) |-> doPut(v[i], t.of)]
         IN  Put(\E i \in DOMAIN parts : parts[i].err,
                 WriteHead(LIST, 0) \o WriteLength(Len(v))
                     \o FlattenSeq([i \in DOMAIN parts |-> parts[i].s]))
    ELSE putBase(v, t)

EncodeTup(u) ==
    LET keys == SetToSeq(DOMAIN u)
    IN  WriteHead(MAP, 0) \o WriteLength(Len(keys))
            \o FlattenSeq([i \in 1 .. Len(keys) |->
                   WriteString(NameOnWire(keys[i]), 0)
                       \o WriteSimpleList(BufferOf(u[keys[i]]), 1)])

\* The bytes of a simple list behind the head b of their type.
BufferFrom(b) ==
    IF b.err THEN Got(TRUE, NoBytes, b.r) ELSE RawFrom(b, ReadLength(b.r), NoBytes)

\* k is the name of an entry, h the head of its buffer, v the buffer.
RECURSIVE DecodeEntries(_, _, _)
EntryOf(k, v, n, u) ==
    IF v.err THEN Got(TRUE, u, v.r)
    ELSE DecodeEntries(v.r, n - 1, PutBuffer(u, NameOf(k.v), v.v.c))
EntryFrom(k, h, n, u) ==
    IF k.err \/ h.err THEN Got(TRUE, u, h.r)
    ELSE IF ~h.have THEN DecodeEntries(h.r, n - 1, u)
    ELSE IF h.ty # SimpleList THEN Got(TRUE, u, h.r)
    ELSE EntryOf(k, BufferFrom(SkipTo(h.r, BYTE, 0, TRUE)), n, u)
EntryWithName(k, n, u) == EntryFrom(k, SkipToNoCheck(k.r, 1, FALSE), n, u)
DecodeEntries(r, n, u) ==
    IF n <= 0 THEN Got(FALSE, u, r)
    ELSE EntryWithName(ReadString(r, 0, FALSE, NoBytes), n, u)

\* What was decoded before an error stays in the map.
EntriesOf(n) == IF n.err THEN Got(TRUE, EmptyMap, n.r) ELSE DecodeEntries(n.r, n.v, EmptyMap)
TupFrom(h) == IF h.err THEN Got(TRUE, EmptyMap, h.r) ELSE EntriesOf(ReadLength(h.r))
DecodeTup(r) == TupFrom(SkipTo(r, MAP, 0, FALSE))
=============================================================================
