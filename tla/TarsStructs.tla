----------------------------- MODULE TarsStructs -----------------------------
(***************************************************************************)
(* The structs of the framework's own interfaces, as tars2go generates them *)
(* (tars/protocol/res), and the code tars2go generates for a struct, a      *)
(* vector and a map (tars/tools/tars2go/gen_go.go).                         *)
(*                                                                          *)
(* For each struct there is one table of what its ReadFrom reads, with the  *)
(* values ResetDefault stores first, and one of what its WriteTo writes:    *)
(* they are two pieces of generated code that must agree with each other.   *)
(* The lines of a table are in the order of the reads and writes.           *)
(***************************************************************************)
EXTENDS Codec, SequencesExt

(***************************************************************************)
(* The types of fields.                                                    *)
(***************************************************************************)
Prim(k) == [k |-> k]
I8 == Prim("int8")
I16 == Prim("int16")
I32 == Prim("int32")
I64 == Prim("int64")
Bool == Prim("bool")
Str == Prim("string")
Bytes == Prim("bytes")
List(t) == [k |-> "list", of |-> t]
Map(kt, vt) == [k |-> "map", key |-> kt, val |-> vt]
Struct(n) == [k |-> "struct", name |-> n]

\* A required and an optional read, and a write.
R(n, tag, t) == [name |-> n, tag |-> tag, require |-> TRUE, type |-> t]
O(n, tag, t) == [name |-> n, tag |-> tag, require |-> FALSE, type |-> t]
W(n, tag, t) == [name |-> n, tag |-> tag, type |-> t]

EmptyMap == << >>
NoReset == << >>
Empty == NoBytes
Underscore == [n |-> 1, c |-> << "_" >>]
Bar == [n |-> 1, c |-> << "|" >>]

(***************************************************************************)
(* The generated structs.                                                  *)
(***************************************************************************)
RequestPacketRead ==
   [reset |-> [CPacketType |-> 0, IMessageType |-> 0,
              SServantName |-> Empty, SFuncName |-> Empty, ITimeout |-> 0],
    fields |-> << R("IVersion", 1, I16), R("CPacketType", 2, I8),
         R("IMessageType", 3, I32), R("IRequestId", 4, I32),
         R("SServantName", 5, Str), R("SFuncName", 6, Str), R("SBuffer", 7, Bytes),
         R("ITimeout", 8, I32), R("Context", 9, Map(Str, Str)),
         R("Status", 10, Map(Str, Str)) >>]

RequestPacketWrite == << W("IVersion", 1, I16), W("CPacketType", 2, I8),
     W("IMessageType", 3, I32), W("IRequestId", 4, I32), W("SServantName", 5, Str),
     W("SFuncName", 6, Str), W("SBuffer", 7, Bytes), W("ITimeout", 8, I32),
     W("Context", 9, Map(Str, Str)), W("Status", 10, Map(Str, Str)) >>

ResponsePacketRead ==
   [reset |-> [CPacketType |-> 0, IMessageType |-> 0, IRet |-> 0],
    fields |-> << R("IVersion", 1, I16), R("CPacketType", 2, I8),
         R("IRequestId", 3, I32), R("IMessageType", 4, I32), R("IRet", 5, I32),
         R("SBuffer", 6, Bytes), R("Status", 7, Map(Str, Str)),
         O("SResultDesc", 8, Str), O("Context", 9, Map(Str, Str)) >>]

ResponsePacketWrite == << W("IVersion", 1, I16), W("CPacketType", 2, I8),
     W("IRequestId", 3, I32), W("IMessageType", 4, I32), W("IRet", 5, I32),
     W("SBuffer", 6, Bytes), W("Status", 7, Map(Str, Str)),
     W("SResultDesc", 8, Str), W("Context", 9, Map(Str, Str)) >>

EndpointFRead ==
   [reset |-> NoReset,
    fields |-> << R("Host", 0, Str), R("Port", 1, I32), R("Timeout", 2, I32),
         R("Istcp", 3, I32), R("Grid", 4, I32), O("Groupworkid", 5, I32),
         O("Grouprealid", 6, I32), O("SetId", 7, Str), O("Qos", 8, I32),
         O("BakFlag", 9, I32), O("Weight", 11, I32), O("WeightType", 12, I32),
         O("AuthType", 13, I32) >>]

EndpointFWrite == << W("Host", 0, Str), W("Port", 1, I32), W("Timeout", 2, I32),
     W("Istcp", 3, I32), W("Grid", 4, I32), W("Groupworkid", 5, I32),
     W("Grouprealid", 6, I32), W("SetId", 7, Str), W("Qos", 8, I32),
     W("BakFlag", 9, I32), W("Weight", 11, I32), W("WeightType", 12, I32),
     W("AuthType", 13, I32) >>

ConfigInfoRead ==
   [reset |-> [BAppOnly |-> FALSE],
    fields |-> << R("Appname", 0, Str), R("Servername", 1, Str),
         R("Filename", 2, Str), R("BAppOnly", 3, Bool), O("Host", 4, Str),
         O("Setdivision", 5, Str) >>]

ConfigInfoWrite == << W("Appname", 0, Str), W("Servername", 1, Str),
     W("Filename", 2, Str), W("BAppOnly", 3, Bool), W("Host", 4, Str),
     W("Setdivision", 5, Str) >>

GetConfigListInfoRead ==
   [reset |-> [BAppOnly |-> FALSE, Host |-> Empty, Setdivision |-> Empty,
              Containername |-> Empty],
    fields |-> << R("Appname", 0, Str), O("Servername", 1, Str),
         O("BAppOnly", 2, Bool), O("Host", 3, Str), O("Setdivision", 4, Str),
         O("Containername", 5, Str) >>]

GetConfigListInfoWrite == << W("Appname", 0, Str), W("Servername", 1, Str),
     W("BAppOnly", 2, Bool), W("Host", 3, Str), W("Setdivision", 4, Str),
     W("Containername", 5, Str) >>

LogInfoRead ==
   [reset |-> [BHasSufix |-> TRUE, BHasAppNamePrefix |-> TRUE,
              BHasSquareBracket |-> FALSE, SConcatStr |-> Underscore,
              SSepar |-> Bar, SLogType |-> Empty],
    fields |-> << R("Appname", 0, Str), R("Servername", 1, Str),
         R("SFilename", 2, Str), R("SFormat", 3, Str), O("Setdivision", 4, Str),
         O("BHasSufix", 5, Bool), O("BHasAppNamePrefix", 6, Bool),
         O("BHasSquareBracket", 7, Bool), O("SConcatStr", 8, Str),
         O("SSepar", 9, Str), O("SLogType", 10, Str) >>]

LogInfoWrite == << W("Appname", 0, Str), W("Servername", 1, Str),
     W("SFilename", 2, Str), W("SFormat", 3, Str), W("Setdivision", 4, Str),
     W("BHasSufix", 5, Bool), W("BHasAppNamePrefix", 6, Bool),
     W("BHasSquareBracket", 7, Bool), W("SConcatStr", 8, Str), W("SSepar", 9, Str),
     W("SLogType", 10, Str) >>

ServerInfoRead ==
   [reset |-> NoReset,
    fields |-> << R("Application", 0, Str), R("ServerName", 1, Str),
         R("Pid", 2, I32), O("Adapter", 3, Str) >>]

ServerInfoWrite == << W("Application", 0, Str), W("ServerName", 1, Str),
     W("Pid", 2, I32), W("Adapter", 3, Str) >>

NotifyKeyRead ==
   [reset |-> NoReset,
    fields |-> << R("Name", 1, Str), R("Ip", 2, Str), R("Page", 3, I32) >>]

NotifyKeyWrite == << W("Name", 1, Str), W("Ip", 2, Str), W("Page", 3, I32) >>

NotifyItemRead ==
   [reset |-> NoReset,
    fields |-> << R("STimeStamp", 1, Str), R("SServerId", 2, Str),
         R("ILevel", 3, I32), R("SMessage", 4, Str) >>]

NotifyItemWrite == << W("STimeStamp", 1, Str), W("SServerId", 2, Str),
     W("ILevel", 3, I32), W("SMessage", 4, Str) >>

NotifyInfoRead ==
   [reset |-> NoReset,
    fields |-> << R("Nextpage", 1, I32),
         R("NotifyItems", 2, List(Struct("NotifyItem"))) >>]

NotifyInfoWrite == << W("Nextpage", 1, I32),
     W("NotifyItems", 2, List(Struct("NotifyItem"))) >>

ReportInfoRead ==
   [reset |-> NoReset,
    fields |-> << R("EType", 1, I32), R("SApp", 2, Str), R("SSet", 3, Str),
         R("SContainer", 4, Str), R("SServer", 5, Str), R("SMessage", 6, Str),
         O("SThreadId", 7, Str), O("ELevel", 8, I32) >>]

ReportInfoWrite == << W("EType", 1, I32), W("SApp", 2, Str), W("SSet", 3, Str),
     W("SContainer", 4, Str), W("SServer", 5, Str), W("SMessage", 6, Str),
     W("SThreadId", 7, Str), W("ELevel", 8, I32) >>

StatMicMsgHeadRead ==
   [reset |-> NoReset,
    fields |-> << R("MasterName", 0, Str), R("SlaveName", 1, Str),
         R("InterfaceName", 2, Str), R("MasterIp", 3, Str), R("SlaveIp", 4, Str),
         R("SlavePort", 5, I32), R("ReturnValue", 6, I32),
         O("SlaveSetName", 7, Str), O("SlaveSetArea", 8, Str),
         O("SlaveSetID", 9, Str), O("TarsVersion", 10, Str) >>]

StatMicMsgHeadWrite == << W("MasterName", 0, Str), W("SlaveName", 1, Str),
     W("InterfaceName", 2, Str), W("MasterIp", 3, Str), W("SlaveIp", 4, Str),
     W("SlavePort", 5, I32), W("ReturnValue", 6, I32), W("SlaveSetName", 7, Str),
     W("SlaveSetArea", 8, Str), W("SlaveSetID", 9, Str), W("TarsVersion", 10, Str) >>

StatMicMsgBodyRead ==
   [reset |-> NoReset,
    fields |-> << R("Count", 0, I32), R("TimeoutCount", 1, I32),
         R("ExecCount", 2, I32), R("IntervalCount", 3, Map(I32, I32)),
         R("TotalRspTime", 4, I64), R("MaxRspTime", 5, I32), R("MinRspTime", 6, I32) >>]

StatMicMsgBodyWrite == << W("Count", 0, I32), W("TimeoutCount", 1, I32),
     W("ExecCount", 2, I32), W("IntervalCount", 3, Map(I32, I32)),
     W("TotalRspTime", 4, I64), W("MaxRspTime", 5, I32), W("MinRspTime", 6, I32) >>

StatSampleMsgRead ==
   [reset |-> NoReset,
    fields |-> << R("Unid", 0, Str), R("MasterName", 1, Str),
         R("SlaveName", 2, Str), R("InterfaceName", 3, Str), R("MasterIp", 4, Str),
         R("SlaveIp", 5, Str), R("Depth", 6, I32), R("Width", 7, I32),
         R("ParentWidth", 8, I32) >>]

StatSampleMsgWrite == << W("Unid", 0, Str), W("MasterName", 1, Str),
     W("SlaveName", 2, Str), W("InterfaceName", 3, Str), W("MasterIp", 4, Str),
     W("SlaveIp", 5, Str), W("Depth", 6, I32), W("Width", 7, I32),
     W("ParentWidth", 8, I32) >>

ProxyInfoRead ==
   [reset |-> NoReset,
    fields |-> << R("BFromClient", 0, Bool) >>]

ProxyInfoWrite == << W("BFromClient", 0, Bool) >>

StatPropMsgHeadRead ==
   [reset |-> [IPropertyVer |-> 1],
    fields |-> << R("ModuleName", 0, Str), R("Ip", 1, Str),
         R("PropertyName", 2, Str), O("SetName", 3, Str), O("SetArea", 4, Str),
         O("SetID", 5, Str), O("SContainer", 6, Str), O("IPropertyVer", 7, I32) >>]

StatPropMsgHeadWrite == << W("ModuleName", 0, Str), W("Ip", 1, Str),
     W("PropertyName", 2, Str), W("SetName", 3, Str), W("SetArea", 4, Str),
     W("SetID", 5, Str), W("SContainer", 6, Str), W("IPropertyVer", 7, I32) >>

StatPropInfoRead ==
   [reset |-> NoReset,
    fields |-> << R("Policy", 0, Str), R("Value", 1, Str) >>]

StatPropInfoWrite == << W("Policy", 0, Str), W("Value", 1, Str) >>

StatPropMsgBodyRead ==
   [reset |-> NoReset,
    fields |-> << R("VInfo", 0, List(Struct("StatPropInfo"))) >>]

StatPropMsgBodyWrite == << W("VInfo", 0, List(Struct("StatPropInfo"))) >>

ReadTable == [
    RequestPacket |-> RequestPacketRead, ResponsePacket |-> ResponsePacketRead,
    EndpointF |-> EndpointFRead, ConfigInfo |-> ConfigInfoRead,
    GetConfigListInfo |-> GetConfigListInfoRead, LogInfo |-> LogInfoRead,
    ServerInfo |-> ServerInfoRead, NotifyKey |-> NotifyKeyRead,
    NotifyItem |-> NotifyItemRead, NotifyInfo |-> NotifyInfoRead,
    ReportInfo |-> ReportInfoRead, StatMicMsgHead |-> StatMicMsgHeadRead,
    StatMicMsgBody |-> StatMicMsgBodyRead, StatSampleMsg |-> StatSampleMsgRead,
    ProxyInfo |-> ProxyInfoRead, StatPropMsgHead |-> StatPropMsgHeadRead,
    StatPropInfo |-> StatPropInfoRead, StatPropMsgBody |-> StatPropMsgBodyRead ]

WriteTable == [
    RequestPacket |-> RequestPacketWrite,
    ResponsePacket |-> ResponsePacketWrite, EndpointF |-> EndpointFWrite,
    ConfigInfo |-> ConfigInfoWrite,
    GetConfigListInfo |-> GetConfigListInfoWrite, LogInfo |-> LogInfoWrite,
    ServerInfo |-> ServerInfoWrite, NotifyKey |-> NotifyKeyWrite,
    NotifyItem |-> NotifyItemWrite, NotifyInfo |-> NotifyInfoWrite,
    ReportInfo |-> ReportInfoWrite, StatMicMsgHead |-> StatMicMsgHeadWrite,
    StatMicMsgBody |-> StatMicMsgBodyWrite,
    StatSampleMsg |-> StatSampleMsgWrite, ProxyInfo |-> ProxyInfoWrite,
    StatPropMsgHead |-> StatPropMsgHeadWrite,
    StatPropInfo |-> StatPropInfoWrite,
    StatPropMsgBody |-> StatPropMsgBodyWrite ]

StructNames == DOMAIN ReadTable

(***************************************************************************)
(* The value a Go variable of the type has before anything is read.        *)
(***************************************************************************)
RECURSIVE ZeroOf(_)
ZeroStruct(name) ==
    LET fields == ReadTable[name].fields
        field(n) == CHOOSE f \in Range(fields) : f.name = n
    IN  [n \in {f.name : f \in Range(fields)} |-> ZeroOf(field(n).type)]
ZeroOf(t) ==
    CASE t.k \in {"int8", "int16", "int32", "int64"} -> 0
      [] t.k = "bool" -> FALSE
      [] t.k \in {"string", "bytes"} -> NoBytes
      [] t.k = "list" -> << >>
      [] t.k = "map" -> EmptyMap
      [] t.k = "struct" -> ZeroStruct(t.name)

(***************************************************************************)
(* The code generated to write a value under a tag.                        *)
(***************************************************************************)
RECURSIVE WriteVar(_, _, _), WriteTo(_, _)

WriteLength(n) == WriteInt(WriteInt32(n), 0)

WriteVector(v, tag, t) ==
    WriteHead(LIST, tag) \o WriteLength(Len(v))
        \o FlattenSeq([i \in 1 .. Len(v) |-> WriteVar(v[i], 0, t.of)])

WriteSimpleList(v, tag) ==
    WriteHead(SimpleList, tag) \o WriteHead(BYTE, 0) \o WriteLength(v.n) \o WriteRaw(v)

\* Go visits the keys of a map in any order; TLC takes one.
WriteMap(v, tag, t) ==
    LET keys == SetToSeq(DOMAIN v)
    IN  WriteHead(MAP, tag) \o WriteLength(Len(keys))
            \o FlattenSeq([i \in 1 .. Len(keys) |->
                   WriteVar(keys[i], 0, t.key) \o WriteVar(v[keys[i]], 1, t.val)])

WriteBlock(v, tag, name) ==
    WriteHead(StructBegin, tag) \o WriteTo(v, name) \o WriteHead(StructEnd, 0)

WriteVar(v, tag, t) ==
    CASE t.k = "int8" -> WriteInt(WriteInt8(v), tag)
      [] t.k = "int16" -> WriteInt(WriteInt16(v), tag)
      [] t.k = "int32" -> WriteInt(WriteInt32(v), tag)
      [] t.k = "int64" -> WriteInt(WriteInt64(v), tag)
      [] t.k = "bool" -> WriteInt(WriteBool(v), tag)
      [] t.k = "string" -> WriteString(v, tag)
      [] t.k = "bytes" -> WriteSimpleList(v, tag)
      [] t.k = "list" -> WriteVector(v, tag, t)
      [] t.k = "map" -> WriteMap(v, tag, t)
      [] t.k = "struct" -> WriteBlock(v, tag, t.name)

WriteTo(v, name) ==
    LET fields == WriteTable[name]
    IN  FlattenSeq([i \in 1 .. Len(fields) |->
            WriteVar(v[fields[i].name], fields[i].tag, fields[i].type)])

(***************************************************************************)
(* The code generated to read a value: old is what the variable holds      *)
(* before, and what it keeps when an optional value is not there.          *)
(***************************************************************************)
Got(err, v, r) == [err |-> err, v |-> v, r |-> r]

RECURSIVE ReadVar(_, _, _, _, _), ReadFrom(_, _, _)

\* h is the head that a read begins with: whatever was asked for, an error or a
\* missing value leaves the variable alone.
Missing(h) == h.err \/ ~h.have
Keep(h, old) == Got(h.err, old, h.r)

\* The payload d of the head h, as an integer of kind k.
Decoded(k, x) ==
    CASE k = "int8" -> ReadInt8(x) [] k = "int16" -> ReadInt16(x)
      [] k = "int32" -> ReadInt32(x) [] k = "int64" -> ReadInt64(x)
      [] k = "bool" -> ReadBool(x)
PrimOf(d, v, old) == Got(d.err \/ v.err, IF d.err \/ v.err THEN old ELSE v.v, d.r)
PrimFrom(h, d, k, old) == PrimOf(d, Decoded(k, OnWire(h.ty, d.v)), old)
PrimAt(h, k, old) ==
    IF Missing(h) THEN Keep(h, old)
    ELSE PrimFrom(h, IF h.ty = ZeroTag THEN Got(FALSE, 0, h.r)
                     ELSE ReadData(h.r, WidthOf(h.ty)), k, old)

ReadPrim(r, tag, require, k, old) == PrimAt(SkipToNoCheck(r, tag, require), k, old)

\* n bytes of content; n was read after the head h.
RawFrom(h, n, old) == IF n.err THEN Got(TRUE, old, h.r) ELSE ReadRaw(n.r, n.v)
StringAt(h, old) ==
    IF Missing(h) THEN Keep(h, old)
    ELSE IF h.ty \notin {STRING1, STRING4} THEN Got(TRUE, old, h.r)
    ELSE RawFrom(h, ReadData(h.r, IF h.ty = STRING4 THEN 4 ELSE 1), old)

ReadString(r, tag, require, old) == StringAt(SkipToNoCheck(r, tag, require), old)

\* The n elements of a vector, in variables fresh from make; e is the next.
RECURSIVE ReadElements(_, _, _, _)
ElementsFrom(e, n, t, got) ==
    IF e.err THEN Got(TRUE, got, e.r) ELSE ReadElements(e.r, n - 1, t, Append(got, e.v))
ReadElements(r, n, t, got) ==
    IF n <= 0 THEN Got(FALSE, got, r)
    ELSE ElementsFrom(ReadVar(r, 0, FALSE, t, ZeroOf(t)), n, t, got)

\* Mutant for ResultsReturn: elements are appended to what the variable held.
BugVectorFrom(n, t, old) ==
    IF n.err THEN Got(TRUE, old, n.r) ELSE ReadElements(n.r, n.v, t, old)

VectorFrom(n, t, old) ==
    IF n.err THEN Got(TRUE, old, n.r) ELSE ReadElements(n.r, n.v, t, << >>)
VectorAt(h, t, old) ==
    IF Missing(h) THEN Keep(h, old)
    ELSE IF h.ty # LIST THEN Got(TRUE, old, h.r)
    ELSE VectorFrom(ReadLength(h.r), t.of, old)

ReadVector(r, tag, require, t, old) == VectorAt(SkipToNoCheck(r, tag, require), t, old)

\* A vector of bytes may come as a list of numbers or as a simple list, of which
\* an empty one leaves the variable alone.
BytesOfList(l) == Got(l.err, [n |-> Len(l.v), c |-> l.v], l.r)
SimpleListFrom(h, n, old) ==
    IF ~n.err /\ n.v <= 0 THEN Got(FALSE, old, n.r) ELSE RawFrom(h, n, old)
SimpleListOf(h, b, old) ==
    IF b.err THEN Got(TRUE, old, h.r) ELSE SimpleListFrom(h, ReadLength(b.r), old)
SimpleListAt(h, old) ==
    IF Missing(h) THEN Keep(h, old)
    ELSE IF h.ty = LIST THEN BytesOfList(VectorFrom(ReadLength(h.r), I8, << >>))
    ELSE IF h.ty # SimpleList THEN Got(TRUE, old, h.r)
    ELSE SimpleListOf(h, SkipTo(h.r, BYTE, 0, TRUE), old)

ReadSimpleList(r, tag, require, old) == SimpleListAt(SkipToNoCheck(r, tag, require), old)

\* The n entries of a map; k and v are the next.
RECURSIVE ReadEntries(_, _, _, _)
EntriesFrom(k, v, n, t, got) ==
    IF k.err \/ v.err THEN Got(TRUE, got, v.r)
    ELSE ReadEntries(v.r, n - 1, t,
             [x \in DOMAIN got \cup {k.v} |-> IF x = k.v THEN v.v ELSE got[x]])
EntriesWithKey(k, n, t, got) ==
    EntriesFrom(k, ReadVar(k.r, 1, FALSE, t.val, ZeroOf(t.val)), n, t, got)
ReadEntries(r, n, t, got) ==
    IF n <= 0 THEN Got(FALSE, got, r)
    ELSE EntriesWithKey(ReadVar(r, 0, FALSE, t.key, ZeroOf(t.key)), n, t, got)

MapFrom(n, t, old) ==
    IF n.err THEN Got(TRUE, old, n.r) ELSE ReadEntries(n.r, n.v, t, EmptyMap)
MapAt(h, t, old) == IF Missing(h) THEN Keep(h, old) ELSE MapFrom(ReadLength(h.r), t, old)

ReadMap(r, tag, require, t, old) == MapAt(SkipTo(r, MAP, tag, require), t, old)

ResetDefault(name, old) ==
    LET reset == ReadTable[name].reset
    IN  [n \in DOMAIN old |-> IF n \in DOMAIN reset THEN reset[n] ELSE old[n]]

BlockEnd(f, e) == IF f.err THEN f ELSE Got(e.err, f.v, e.r)
BlockFrom(f) == BlockEnd(f, SkipToStructEnd(f.r))
BlockAt(h, name, old) ==
    IF Missing(h) THEN Keep(h, ResetDefault(name, old)) ELSE BlockFrom(ReadFrom(h.r, name, old))

ReadBlock(r, tag, require, name, old) ==
    BlockAt(SkipTo(r, StructBegin, tag, require), name, old)

ReadVar(r, tag, require, t, old) ==
    CASE t.k = "string" -> ReadString(r, tag, require, old)
      [] t.k = "bytes" -> ReadSimpleList(r, tag, require, old)
      [] t.k = "list" -> ReadVector(r, tag, require, t, old)
      [] t.k = "map" -> ReadMap(r, tag, require, t, old)
      [] t.k = "struct" -> ReadBlock(r, tag, require, t.name, old)
      [] OTHER -> ReadPrim(r, tag, require, t.k, old)

\* The reads of a table from its i-th on; the first error ends them.  x is the next.
RECURSIVE ReadFields(_, _, _, _)
FieldsFrom(x, fields, i, st) ==
    IF x.err THEN Got(TRUE, st, x.r)
    ELSE ReadFields(x.r, fields, i + 1, [st EXCEPT ![fields[i].name] = x.v])
ReadFields(r, fields, i, st) ==
    IF i > Len(fields) THEN Got(FALSE, st, r)
    ELSE FieldsFrom(ReadVar(r, fields[i].tag, fields[i].require, fields[i].type,
                            st[fields[i].name]), fields, i, st)

ReadFrom(r, name, old) == ReadFields(r, ReadTable[name].fields, 1, ResetDefault(name, old))
=============================================================================
