------------------------------ MODULE StructWire ------------------------------
(***************************************************************************)
(* A struct under way between two peers that need not have been built from *)
(* the same version of the interface file.  The sender may write a field   *)
(* that the receiver does not know, may lack one that it knows, and may    *)
(* have an integer field of a wider type.  Behind the struct comes a field *)
(* of whatever encloses it, which tells whether the reader stopped where   *)
(* the struct ends.                                                        *)
(***************************************************************************)
EXTENDS TarsStructs

CONSTANTS FieldValues(_),   \* the values of a type to try, one field at a time
          FullValue(_),     \* the value of a field in a struct with all fields set
          UnknownTags,      \* tags of fields that the receiver may not know
          UnknownValues     \* such fields: a sequence of values with their types

VARIABLES stage,            \* "idle", "sent" or "read"
          sent,             \* the struct sent, and how the sender differs
          stream,           \* the fields on the wire: tag and cells each
          readBack               \* what the receiver read

structVars == << stage, sent, stream, readBack >>

Trailer == WriteInt(WriteInt32(1), 1)

\* WriteTo, field by field.
Fields(v, name) ==
    [i \in 1 .. Len(WriteTable[name]) |->
        LET f == WriteTable[name][i]
        IN  [name |-> f.name, tag |-> f.tag, cells |-> WriteVar(v[f.name], f.tag, f.type)]]

StructInit == stage = "idle" /\ sent = << >> /\ stream = << >> /\ readBack = << >>

SendStruct(name, st) ==
    /\ stage = "idle"
    /\ stage' = "sent"
    /\ sent' = [name |-> name, v |-> st, gains |-> FALSE, lacks |-> "", wider |-> ""]
    /\ stream' = Fields(st, name)
    /\ UNCHANGED readBack

\* The bound on what is combined: only a struct with all fields set differs.
Full(name) == [n \in DOMAIN ZeroStruct(name) |->
    FullValue(CHOOSE f \in Range(ReadTable[name].fields) : f.name = n)]
Evolving == stage = "sent" /\ sent.v = Full(sent.name)

\* A field of a newer interface, among the others in the order of the tags.
Gain(tag, u) ==
    /\ stage = "sent" /\ ~sent.gains
    /\ tag \notin {f.tag : f \in Range(ReadTable[sent.name].fields)}
    /\ sent' = [sent EXCEPT !.gains = TRUE]
    /\ stream' = SelectSeq(stream, LAMBDA f : f.tag < tag)
                     \o << [name |-> "new", tag |-> tag, cells |-> WriteVar(u.v, tag, u.type)] >>
                     \o SelectSeq(stream, LAMBDA f : f.tag > tag)
    /\ UNCHANGED << stage, readBack >>

\* A field that an older interface does not have.
Lack(field) ==
    /\ stage = "sent" /\ sent.lacks = "" /\ sent.wider = ""
    /\ sent' = [sent EXCEPT !.lacks = field]
    /\ stream' = SelectSeq(stream, LAMBDA f : f.name # field)
    /\ UNCHANGED << stage, readBack >>

\* An integer field that the sender declares as int64.
Widen(f, v) ==
    /\ stage = "sent" /\ sent.lacks = "" /\ sent.wider = ""
    /\ f.type.k \in {"int8", "int16", "int32"}
    /\ sent' = [sent EXCEPT !.wider = f.name, !.v[f.name] = v]
    /\ stream' = [i \in DOMAIN stream |->
                    IF stream[i].name # f.name THEN stream[i]
                    ELSE [stream[i] EXCEPT !.cells = WriteInt(WriteInt64(v), f.tag)]]
    /\ UNCHANGED << stage, readBack >>

Receive ==
    /\ stage = "sent"
    /\ stage' = "read"
    /\ readBack' = LET cells == WriteHead(StructBegin, 0)
                      \o FlattenSeq([i \in DOMAIN stream |-> stream[i].cells])
                      \o WriteHead(StructEnd, 0) \o Trailer
                  x == ReadBlock(NewReader(cells), 0, TRUE, sent.name, ZeroStruct(sent.name))
              IN  [err |-> x.err, v |-> x.v, rest |-> SubSeq(cells, x.r.i, Len(cells))]
    /\ UNCHANGED << sent, stream >>

FieldsOf(name) == Range(ReadTable[name].fields)

StructNext ==
    \/ stage = "idle" /\ \E name \in StructNames :
          \/ SendStruct(name, Full(name))
          \/ \E f \in FieldsOf(name) : \E v \in FieldValues(f.type) :
                SendStruct(name, [ZeroStruct(name) EXCEPT ![f.name] = v])
    \/ Evolving /\
          \/ \E tag \in UnknownTags, i \in DOMAIN UnknownValues : Gain(tag, UnknownValues[i])
          \/ \E f \in FieldsOf(sent.name) : Lack(f.name)
          \/ \E f \in FieldsOf(sent.name), v \in {Max32, Max32 + 1, -Max64 - 1} : Widen(f, v)
    \/ Receive

StructSpec == StructInit /\ [][StructNext]_structVars

(***************************************************************************)
(* Properties.                                                              *)
(***************************************************************************)
\* A receiver of the same version, or one that does not know a field of the sender.
CompleteField ==
    sent.lacks = "" /\ sent.wider = "" =>
        ~readBack.err /\ readBack.v = sent.v /\ readBack.rest = Trailer

\* A field that the sender does not have is an error when it is required; otherwise
\* it has its default, every other field is as sent, and the reader is in step.
LackingField ==
    sent.lacks # "" =>
        LET name == sent.name
            f == CHOOSE x \in FieldsOf(name) : x.name = sent.lacks
            default == ResetDefault(name, ZeroStruct(name))[f.name]
        IN  IF f.require THEN readBack.err
            ELSE /\ ~readBack.err /\ readBack.rest = Trailer
                 /\ readBack.v = [sent.v EXCEPT ![f.name] = default]

\* A field that the sender has widened arrives with its value or as an error.
WidenedField == sent.wider # "" => readBack.err \/ readBack.v = sent.v

\* The generated ReadFrom, WriteTo and ResetDefault of every struct, SkipToNoCheck,
\* skipField, unreadHead and ReadInt8 to ReadInt64: a receiver reads what was sent,
\* steps over a field it does not know whatever its type and tag, stops exactly behind
\* the struct, refuses one that lacks a required field, and never cuts a number down.
StructArrives == stage = "read" => CompleteField /\ LackingField /\ WidenedField
=============================================================================
