-------------------------------- MODULE Codec --------------------------------
(***************************************************************************)
(* The byte stream of the TARS encoding (tars/protocol/codec/codec.go): how *)
(* heads, integers, strings and the bodies of containers are laid out, and  *)
(* how a reader finds a field by its tag and steps over the ones it does    *)
(* not know.                                                                *)
(*                                                                          *)
(* A stream is a sequence of cells.  A head takes one byte while the tag    *)
(* fits its upper four bits and two otherwise, and each of these bytes is a *)
(* cell; a payload of w bytes is one cell.  Floats are not used by any      *)
(* interface of the repository and are left out, except that they can be    *)
(* skipped.  A string is a record: its length in bytes and its content.     *)
(***************************************************************************)
EXTENDS CodecInt, Sequences

HeadCell(ty, tag) == [kind |-> "head", ty |-> ty, tag |-> tag]
TagCell(tag) == [kind |-> "tag", tag |-> tag]
DataCell(w, v) == [kind |-> "data", w |-> w, v |-> v]
RawCell(data) == [kind |-> "raw", w |-> data.n, bytes |-> data]

WidthOf(ty) == CASE ty = BYTE -> 1 [] ty = SHORT -> 2 [] ty \in {INT, FLOAT} -> 4
                 [] ty \in {LONG, DOUBLE} -> 8 [] OTHER -> 0

(***************************************************************************)
(* The writer.                                                             *)
(***************************************************************************)
WriteHead(ty, tag) ==
    IF tag < 15 THEN << HeadCell(ty, tag) >> ELSE << HeadCell(ty, 15), TagCell(tag) >>

\* An integer x of CodecInt, under a tag.
WriteInt(x, tag) ==
    WriteHead(x.ty, tag)
        \o (IF x.ty = ZeroTag THEN << >> ELSE << DataCell(WidthOf(x.ty), x.u) >>)

\* The raw bytes of a string or a byte slice.
WriteRaw(data) == IF data.n = 0 THEN << >> ELSE << RawCell(data) >>

WriteString(data, tag) ==
    (IF data.n > 255 THEN WriteHead(STRING4, tag) \o << DataCell(4, data.n) >>
                     ELSE WriteHead(STRING1, tag) \o << DataCell(1, data.n) >>)
        \o WriteRaw(data)

(***************************************************************************)
(* The reader: the stream and the index of the next cell.  A reader that   *)
(* has lost its place, and meets a cell of another kind than it expects,   *)
(* reports an error.                                                       *)
(***************************************************************************)
NewReader(stream) == [s |-> stream, i |-> 1]

AtEnd(r) == r.i > Len(r.s)
Ahead(r, n) == [r EXCEPT !.i = @ + n]
Cell(r) == r.s[r.i]

readHead(r) ==
    LET fail(q) == [err |-> TRUE, ty |-> 0, tag |-> 0, r |-> q]
    IN  IF AtEnd(r) \/ Cell(r).kind # "head" THEN fail(r)
        ELSE LET h == Cell(r)
                 q == Ahead(r, 1)
             IN  IF h.tag # 15
                 THEN [err |-> FALSE, ty |-> h.ty, tag |-> h.tag, r |-> q]
                 ELSE IF AtEnd(q) \/ Cell(q).kind # "tag" THEN fail(q)
                      ELSE [err |-> FALSE, ty |-> h.ty, tag |-> Cell(q).tag,
                            r |-> Ahead(q, 1)]

\* Mutant for StructArrives: a head with tag 15 is taken for one byte.
BugUnreadHead(r, curTag) == Ahead(r, IF curTag > 15 THEN -2 ELSE -1)

unreadHead(r, curTag) == Ahead(r, IF curTag >= 15 THEN -2 ELSE -1)

\* Whether the next cell has the kind and the width that the reader expects.
Fits(r, kinds, w) == ~AtEnd(r) /\ Cell(r).kind \in kinds /\ Cell(r).w = w

\* bReadU8 .. bReadU64: the next w bytes as an unsigned number.
ReadData(r, w) ==
    IF Fits(r, {"data"}, w) THEN [err |-> FALSE, v |-> Cell(r).v, r |-> Ahead(r, 1)]
    ELSE [err |-> TRUE, v |-> 0, r |-> r]

\* Next and ReadSlice: n bytes of content (none is the empty content).
NoBytes == [n |-> 0, c |-> << >>]
ReadRaw(r, n) ==
    IF n <= 0 THEN [err |-> FALSE, v |-> NoBytes, r |-> r]
    ELSE IF Fits(r, {"raw"}, n) THEN [err |-> FALSE, v |-> Cell(r).bytes, r |-> Ahead(r, 1)]
    ELSE [err |-> TRUE, v |-> NoBytes, r |-> r]

\* Skip does not report that the stream ended early.
Skip(r, n) == IF n > 0 /\ Fits(r, {"data", "raw"}, n) THEN Ahead(r, 1) ELSE r

RECURSIVE skipField(_, _), skipFields(_, _), SkipToStructEnd(_),
          SkipToNoCheck(_, _, _)

Skipped(err, r) == [err |-> err, r |-> r]

\* The number behind the head h, of 32 bits; d is its payload.
LengthOf(h, d) ==
    LET x == ReadInt32(OnWire(h.ty, d.v))
    IN  [err |-> h.err \/ d.err \/ x.err, v |-> x.v, r |-> d.r]

LengthAt(h) ==
    IF h.err \/ h.ty = ZeroTag THEN [err |-> h.err, v |-> 0, r |-> h.r]
    ELSE LengthOf(h, ReadData(h.r, WidthOf(h.ty)))

\* An integer of 32 bits that must be there (a length).
ReadLength(r) == LengthAt(SkipToNoCheck(r, 0, TRUE))

\* skipFieldList and skipFieldMap: n elements, whose own errors are dropped.
skipElementsFrom(h, n) ==
    IF h.err THEN Skipped(TRUE, h.r) ELSE skipFields(skipField(h.r, h.ty).r, n - 1)

skipFields(r, n) ==
    IF n <= 0 THEN Skipped(FALSE, r) ELSE skipElementsFrom(readHead(r), n)

\* n bytes of content, once their number is read.
skipBytes(n) == Skipped(n.err, IF n.err THEN n.r ELSE Skip(n.r, n.v))

skipSimpleListFrom(h) ==
    IF h.err \/ h.ty # BYTE THEN Skipped(TRUE, h.r) ELSE skipBytes(ReadLength(h.r))

skipFieldSimpleList(r) == skipSimpleListFrom(readHead(r))

\* skipFieldMap and skipFieldList: the elements, once their number is read.
skipElements(n, perEntry) ==
    IF n.err THEN Skipped(TRUE, n.r) ELSE skipFields(n.r, perEntry * n.v)

skipField(r, ty) ==
    CASE ty \in {BYTE, SHORT, INT, LONG, FLOAT, DOUBLE} ->
            Skipped(FALSE, Skip(r, WidthOf(ty)))
      [] ty \in {STRING1, STRING4} ->
            skipBytes(ReadData(r, IF ty = STRING1 THEN 1 ELSE 4))
      [] ty = MAP -> skipElements(ReadLength(r), 2)
      [] ty = LIST -> skipElements(ReadLength(r), 1)
      [] ty = SimpleList -> skipFieldSimpleList(r)
      [] ty = StructBegin -> SkipToStructEnd(r)
      [] ty \in {StructEnd, ZeroTag} -> Skipped(FALSE, r)
      [] OTHER -> Skipped(TRUE, r)

\* The field with head h is skipped, which gives f.
StructEndFrom(h, f) ==
    IF h.err THEN Skipped(TRUE, h.r)
    ELSE IF f.err \/ h.ty = StructEnd THEN f
    ELSE SkipToStructEnd(f.r)

SkipFromHead(h) == StructEndFrom(h, skipField(h.r, h.ty))

SkipToStructEnd(r) == SkipFromHead(readHead(r))

(***************************************************************************)
(* Find the field with the given tag: fields come in the order of their    *)
(* tags, so smaller tags are stepped over and a larger one, or the end of  *)
(* the enclosing struct, means that the field is not there.  The head read *)
(* one too far is put back.                                                *)
(***************************************************************************)
Found(have, err, ty, r) == [have |-> have, err |-> err, ty |-> ty, r |-> r]

GoOn(f, ty, tag, require) ==
    IF f.err THEN Found(FALSE, TRUE, ty, f.r) ELSE SkipToNoCheck(f.r, tag, require)

FieldFrom(h, tag, require) ==
    IF h.err THEN Found(FALSE, require, h.ty, h.r)
    ELSE IF h.ty = StructEnd \/ h.tag > tag
         THEN Found(FALSE, require, h.ty, IF require THEN h.r ELSE unreadHead(h.r, h.tag))
    ELSE IF h.tag = tag THEN Found(TRUE, FALSE, h.ty, h.r)
    ELSE GoOn(skipField(h.r, h.ty), h.ty, tag, require)

SkipToNoCheck(r, tag, require) == FieldFrom(readHead(r), tag, require)

OfType(h, ty) == [h EXCEPT !.err = @ \/ (h.have /\ h.ty # ty)]
SkipTo(r, ty, tag, require) == OfType(SkipToNoCheck(r, tag, require), ty)
=============================================================================
