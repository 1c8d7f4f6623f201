------------------------------ MODULE TarsStubs ------------------------------
(***************************************************************************)
(* The client proxies and server dispatchers that tars2go generates for the *)
(* framework's own interfaces (tars/protocol/res/*/*.tars.go), and what the *)
(* templates of the generator make of them.                                 *)
(*                                                                          *)
(* For each method there is what the proxy writes and reads, what the       *)
(* one-way proxy writes, and what its case in Dispatch reads and writes,    *)
(* each in the order of the code.  Out-parameters are written by a proxy    *)
(* and not read by the dispatcher.  A dispatcher uses the same names for    *)
(* TUP and JSON, where a value has its name and no tag.                     *)
(***************************************************************************)
EXTENDS Tup

P(n, tag, t) == R(n, tag, t)
Proxy(func, writes, reads) ==
    [func |-> func, packetType |-> 0, writes |-> writes, reads |-> reads]
OneWayProxy(func, writes) ==
    [func |-> func, packetType |-> 1, writes |-> writes, reads |-> << >>]
Case(func, reads, writes) == [func |-> func, reads |-> reads, writes |-> writes]

EndpointList == List(Struct("EndpointF"))

(***************************************************************************)
(* The interfaces.                                                         *)
(***************************************************************************)
QueryFFindObjectById == Proxy("findObjectById",
    << P("id", 1, Str) >>,
    << P("tars_ret", 0, EndpointList) >>)

QueryFFindObjectByIdOneWay == OneWayProxy("findObjectById", << P("id", 1, Str) >>)

QueryFDispatchFindObjectById == Case("findObjectById",
    << P("id", 1, Str) >>,
    << P("tars_ret", 0, EndpointList) >>)

QueryFFindObjectById4Any == Proxy("findObjectById4Any",
    << P("id", 1, Str), P("activeEp", 2, EndpointList),
     P("inactiveEp", 3, EndpointList) >>,
    << P("tars_ret", 0, I32), P("activeEp", 2, EndpointList),
     P("inactiveEp", 3, EndpointList) >>)

QueryFFindObjectById4AnyOneWay == OneWayProxy("findObjectById4Any",
    << P("id", 1, Str), P("activeEp", 2, EndpointList),
     P("inactiveEp", 3, EndpointList) >>)

QueryFDispatchFindObjectById4Any == Case("findObjectById4Any",
    << P("id", 1, Str) >>,
    << P("tars_ret", 0, I32), P("activeEp", 2, EndpointList),
     P("inactiveEp", 3, EndpointList) >>)

QueryFFindObjectById4All == Proxy("findObjectById4All",
    << P("id", 1, Str), P("activeEp", 2, EndpointList),
     P("inactiveEp", 3, EndpointList) >>,
    << P("tars_ret", 0, I32), P("activeEp", 2, EndpointList),
     P("inactiveEp", 3, EndpointList) >>)

QueryFFindObjectById4AllOneWay == OneWayProxy("findObjectById4All",
    << P("id", 1, Str), P("activeEp", 2, EndpointList),
     P("inactiveEp", 3, EndpointList) >>)

QueryFDispatchFindObjectById4All == Case("findObjectById4All",
    << P("id", 1, Str) >>,
    << P("tars_ret", 0, I32), P("activeEp", 2, EndpointList),
     P("inactiveEp", 3, EndpointList) >>)

QueryFFindObjectByIdInSameGroup == Proxy("findObjectByIdInSameGroup",
    << P("id", 1, Str), P("activeEp", 2, EndpointList),
     P("inactiveEp", 3, EndpointList) >>,
    << P("tars_ret", 0, I32), P("activeEp", 2, EndpointList),
     P("inactiveEp", 3, EndpointList) >>)

QueryFFindObjectByIdInSameGroupOneWay == OneWayProxy("findObjectByIdInSameGroup",
    << P("id", 1, Str), P("activeEp", 2, EndpointList),
     P("inactiveEp", 3, EndpointList) >>)

QueryFDispatchFindObjectByIdInSameGroup == Case("findObjectByIdInSameGroup",
    << P("id", 1, Str) >>,
    << P("tars_ret", 0, I32), P("activeEp", 2, EndpointList),
     P("inactiveEp", 3, EndpointList) >>)

QueryFFindObjectByIdInSameStation == Proxy("findObjectByIdInSameStation",
    << P("id", 1, Str), P("sStation", 2, Str),
     P("activeEp", 3, EndpointList),
     P("inactiveEp", 4, EndpointList) >>,
    << P("tars_ret", 0, I32), P("activeEp", 3, EndpointList),
     P("inactiveEp", 4, EndpointList) >>)

QueryFFindObjectByIdInSameStationOneWay == OneWayProxy("findObjectByIdInSameStation",
    << P("id", 1, Str), P("sStation", 2, Str),
     P("activeEp", 3, EndpointList),
     P("inactiveEp", 4, EndpointList) >>)

QueryFDispatchFindObjectByIdInSameStation == Case("findObjectByIdInSameStation",
    << P("id", 1, Str), P("sStation", 2, Str) >>,
    << P("tars_ret", 0, I32), P("activeEp", 3, EndpointList),
     P("inactiveEp", 4, EndpointList) >>)

QueryFFindObjectByIdInSameSet == Proxy("findObjectByIdInSameSet",
    << P("id", 1, Str), P("setId", 2, Str),
     P("activeEp", 3, EndpointList),
     P("inactiveEp", 4, EndpointList) >>,
    << P("tars_ret", 0, I32), P("activeEp", 3, EndpointList),
     P("inactiveEp", 4, EndpointList) >>)

QueryFFindObjectByIdInSameSetOneWay == OneWayProxy("findObjectByIdInSameSet",
    << P("id", 1, Str), P("setId", 2, Str),
     P("activeEp", 3, EndpointList),
     P("inactiveEp", 4, EndpointList) >>)

QueryFDispatchFindObjectByIdInSameSet == Case("findObjectByIdInSameSet",
    << P("id", 1, Str), P("setId", 2, Str) >>,
    << P("tars_ret", 0, I32), P("activeEp", 3, EndpointList),
     P("inactiveEp", 4, EndpointList) >>)

ConfigListConfig == Proxy("ListConfig",
    << P("app", 1, Str), P("server", 2, Str), P("vf", 3, List(Str)) >>,
    << P("tars_ret", 0, I32), P("vf", 3, List(Str)) >>)

ConfigListConfigOneWay == OneWayProxy("ListConfig",
    << P("app", 1, Str), P("server", 2, Str), P("vf", 3, List(Str)) >>)

ConfigDispatchListConfig == Case("ListConfig",
    << P("app", 1, Str), P("server", 2, Str) >>,
    << P("tars_ret", 0, I32), P("vf", 3, List(Str)) >>)

ConfigLoadConfig == Proxy("loadConfig",
    << P("app", 1, Str), P("server", 2, Str), P("filename", 3, Str),
     P("config", 4, Str) >>,
    << P("tars_ret", 0, I32), P("config", 4, Str) >>)

ConfigLoadConfigOneWay == OneWayProxy("loadConfig",
    << P("app", 1, Str), P("server", 2, Str), P("filename", 3, Str),
     P("config", 4, Str) >>)

\* Mutant for ArgumentsArrive: the tags of two parameters are swapped.
BugConfigDispatchLoadConfig == Case("loadConfig",
    << P("server", 1, Str), P("app", 2, Str), P("filename", 3, Str) >>,
    << P("tars_ret", 0, I32), P("config", 4, Str) >>)

ConfigDispatchLoadConfig == Case("loadConfig",
    << P("app", 1, Str), P("server", 2, Str), P("filename", 3, Str) >>,
    << P("tars_ret", 0, I32), P("config", 4, Str) >>)

ConfigLoadConfigByHost == Proxy("loadConfigByHost",
    << P("appServerName", 1, Str), P("filename", 2, Str), P("host", 3, Str),
     P("config", 4, Str) >>,
    << P("tars_ret", 0, I32), P("config", 4, Str) >>)

ConfigLoadConfigByHostOneWay == OneWayProxy("loadConfigByHost",
    << P("appServerName", 1, Str), P("filename", 2, Str), P("host", 3, Str),
     P("config", 4, Str) >>)

ConfigDispatchLoadConfigByHost == Case("loadConfigByHost",
    << P("appServerName", 1, Str), P("filename", 2, Str), P("host", 3, Str) >>,
    << P("tars_ret", 0, I32), P("config", 4, Str) >>)

ConfigCheckConfig == Proxy("checkConfig",
    << P("appServerName", 1, Str), P("filename", 2, Str), P("host", 3, Str),
     P("result", 4, Str) >>,
    << P("tars_ret", 0, I32), P("result", 4, Str) >>)

ConfigCheckConfigOneWay == OneWayProxy("checkConfig",
    << P("appServerName", 1, Str), P("filename", 2, Str), P("host", 3, Str),
     P("result", 4, Str) >>)

ConfigDispatchCheckConfig == Case("checkConfig",
    << P("appServerName", 1, Str), P("filename", 2, Str), P("host", 3, Str) >>,
    << P("tars_ret", 0, I32), P("result", 4, Str) >>)

ConfigListConfigByInfo == Proxy("ListConfigByInfo",
    << P("configInfo", 1, Struct("ConfigInfo")), P("vf", 2, List(Str)) >>,
    << P("tars_ret", 0, I32), P("vf", 2, List(Str)) >>)

ConfigListConfigByInfoOneWay == OneWayProxy("ListConfigByInfo",
    << P("configInfo", 1, Struct("ConfigInfo")), P("vf", 2, List(Str)) >>)

ConfigDispatchListConfigByInfo == Case("ListConfigByInfo",
    << P("configInfo", 1, Struct("ConfigInfo")) >>,
    << P("tars_ret", 0, I32), P("vf", 2, List(Str)) >>)

ConfigLoadConfigByInfo == Proxy("loadConfigByInfo",
    << P("configInfo", 1, Struct("ConfigInfo")), P("config", 2, Str) >>,
    << P("tars_ret", 0, I32), P("config", 2, Str) >>)

ConfigLoadConfigByInfoOneWay == OneWayProxy("loadConfigByInfo",
    << P("configInfo", 1, Struct("ConfigInfo")), P("config", 2, Str) >>)

ConfigDispatchLoadConfigByInfo == Case("loadConfigByInfo",
    << P("configInfo", 1, Struct("ConfigInfo")) >>,
    << P("tars_ret", 0, I32), P("config", 2, Str) >>)

ConfigCheckConfigByInfo == Proxy("checkConfigByInfo",
    << P("configInfo", 1, Struct("ConfigInfo")), P("result", 2, Str) >>,
    << P("tars_ret", 0, I32), P("result", 2, Str) >>)

ConfigCheckConfigByInfoOneWay == OneWayProxy("checkConfigByInfo",
    << P("configInfo", 1, Struct("ConfigInfo")), P("result", 2, Str) >>)

ConfigDispatchCheckConfigByInfo == Case("checkConfigByInfo",
    << P("configInfo", 1, Struct("ConfigInfo")) >>,
    << P("tars_ret", 0, I32), P("result", 2, Str) >>)

ConfigListAllConfigByInfo == Proxy("ListAllConfigByInfo",
    << P("configInfo", 1, Struct("GetConfigListInfo")), P("vf", 2, List(Str)) >>,
    << P("tars_ret", 0, I32), P("vf", 2, List(Str)) >>)

ConfigListAllConfigByInfoOneWay == OneWayProxy("ListAllConfigByInfo",
    << P("configInfo", 1, Struct("GetConfigListInfo")), P("vf", 2, List(Str)) >>)

ConfigDispatchListAllConfigByInfo == Case("ListAllConfigByInfo",
    << P("configInfo", 1, Struct("GetConfigListInfo")) >>,
    << P("tars_ret", 0, I32), P("vf", 2, List(Str)) >>)

NotifyReportServer == Proxy("reportServer",
    << P("sServerName", 1, Str), P("sThreadId", 2, Str), P("sMessage", 3, Str) >>,
    << >>)

NotifyReportServerOneWay == OneWayProxy("reportServer",
    << P("sServerName", 1, Str), P("sThreadId", 2, Str), P("sMessage", 3, Str) >>)

NotifyDispatchReportServer == Case("reportServer",
    << P("sServerName", 1, Str), P("sThreadId", 2, Str), P("sMessage", 3, Str) >>,
    << >>)

NotifyNotifyServer == Proxy("notifyServer",
    << P("sServerName", 1, Str), P("level", 2, I32), P("sMessage", 3, Str) >>,
    << >>)

NotifyNotifyServerOneWay == OneWayProxy("notifyServer",
    << P("sServerName", 1, Str), P("level", 2, I32), P("sMessage", 3, Str) >>)

NotifyDispatchNotifyServer == Case("notifyServer",
    << P("sServerName", 1, Str), P("level", 2, I32), P("sMessage", 3, Str) >>,
    << >>)

NotifyGetNotifyInfo == Proxy("getNotifyInfo",
    << P("stKey", 1, Struct("NotifyKey")), P("stInfo", 2, Struct("NotifyInfo")) >>,
    << P("tars_ret", 0, I32), P("stInfo", 2, Struct("NotifyInfo")) >>)

NotifyGetNotifyInfoOneWay == OneWayProxy("getNotifyInfo",
    << P("stKey", 1, Struct("NotifyKey")), P("stInfo", 2, Struct("NotifyInfo")) >>)

NotifyDispatchGetNotifyInfo == Case("getNotifyInfo",
    << P("stKey", 1, Struct("NotifyKey")) >>,
    << P("tars_ret", 0, I32), P("stInfo", 2, Struct("NotifyInfo")) >>)

NotifyReportNotifyInfo == Proxy("reportNotifyInfo",
    << P("info", 1, Struct("ReportInfo")) >>,
    << >>)

NotifyReportNotifyInfoOneWay == OneWayProxy("reportNotifyInfo",
    << P("info", 1, Struct("ReportInfo")) >>)

NotifyDispatchReportNotifyInfo == Case("reportNotifyInfo",
    << P("info", 1, Struct("ReportInfo")) >>,
    << >>)

LogLogger == Proxy("logger",
    << P("app", 1, Str), P("server", 2, Str), P("file", 3, Str),
     P("format", 4, Str), P("buffer", 5, List(Str)) >>,
    << >>)

LogLoggerOneWay == OneWayProxy("logger",
    << P("app", 1, Str), P("server", 2, Str), P("file", 3, Str),
     P("format", 4, Str), P("buffer", 5, List(Str)) >>)

LogDispatchLogger == Case("logger",
    << P("app", 1, Str), P("server", 2, Str), P("file", 3, Str),
     P("format", 4, Str), P("buffer", 5, List(Str)) >>,
    << >>)

LogLoggerbyInfo == Proxy("loggerbyInfo",
    << P("info", 1, Struct("LogInfo")), P("buffer", 2, List(Str)) >>,
    << >>)

LogLoggerbyInfoOneWay == OneWayProxy("loggerbyInfo",
    << P("info", 1, Struct("LogInfo")), P("buffer", 2, List(Str)) >>)

LogDispatchLoggerbyInfo == Case("loggerbyInfo",
    << P("info", 1, Struct("LogInfo")), P("buffer", 2, List(Str)) >>,
    << >>)

StatFReportMicMsg == Proxy("reportMicMsg",
    << P("msg", 1, Map(Struct("StatMicMsgHead"), Struct("StatMicMsgBody"))),
     P("bFromClient", 2, Bool) >>,
    << P("tars_ret", 0, I32) >>)

StatFReportMicMsgOneWay == OneWayProxy("reportMicMsg",
    << P("msg", 1, Map(Struct("StatMicMsgHead"), Struct("StatMicMsgBody"))),
     P("bFromClient", 2, Bool) >>)

StatFDispatchReportMicMsg == Case("reportMicMsg",
    << P("msg", 1, Map(Struct("StatMicMsgHead"), Struct("StatMicMsgBody"))),
     P("bFromClient", 2, Bool) >>,
    << P("tars_ret", 0, I32) >>)

StatFReportSampleMsg == Proxy("reportSampleMsg",
    << P("msg", 1, List(Struct("StatSampleMsg"))) >>,
    << P("tars_ret", 0, I32) >>)

StatFReportSampleMsgOneWay == OneWayProxy("reportSampleMsg",
    << P("msg", 1, List(Struct("StatSampleMsg"))) >>)

StatFDispatchReportSampleMsg == Case("reportSampleMsg",
    << P("msg", 1, List(Struct("StatSampleMsg"))) >>,
    << P("tars_ret", 0, I32) >>)

ServerFKeepAlive == Proxy("keepAlive",
    << P("serverInfo", 1, Struct("ServerInfo")) >>,
    << P("tars_ret", 0, I32) >>)

ServerFKeepAliveOneWay == OneWayProxy("keepAlive",
    << P("serverInfo", 1, Struct("ServerInfo")) >>)

ServerFDispatchKeepAlive == Case("keepAlive",
    << P("serverInfo", 1, Struct("ServerInfo")) >>,
    << P("tars_ret", 0, I32) >>)

ServerFReportVersion == Proxy("reportVersion",
    << P("app", 1, Str), P("serverName", 2, Str), P("version", 3, Str) >>,
    << P("tars_ret", 0, I32) >>)

ServerFReportVersionOneWay == OneWayProxy("reportVersion",
    << P("app", 1, Str), P("serverName", 2, Str), P("version", 3, Str) >>)

ServerFDispatchReportVersion == Case("reportVersion",
    << P("app", 1, Str), P("serverName", 2, Str), P("version", 3, Str) >>,
    << P("tars_ret", 0, I32) >>)

PropertyFReportPropMsg == Proxy("reportPropMsg",
    << P("statmsg", 1, Map(Struct("StatPropMsgHead"), Struct("StatPropMsgBody"))) >>,
    << P("tars_ret", 0, I32) >>)

PropertyFReportPropMsgOneWay == OneWayProxy("reportPropMsg",
    << P("statmsg", 1, Map(Struct("StatPropMsgHead"), Struct("StatPropMsgBody"))) >>)

PropertyFDispatchReportPropMsg == Case("reportPropMsg",
    << P("statmsg", 1, Map(Struct("StatPropMsgHead"), Struct("StatPropMsgBody"))) >>,
    << P("tars_ret", 0, I32) >>)

AdminFShutdown == Proxy("shutdown", << >>, << >>)

AdminFShutdownOneWay == OneWayProxy("shutdown", << >>)

AdminFDispatchShutdown == Case("shutdown", << >>, << >>)

AdminFNotify == Proxy("notify",
    << P("command", 1, Str) >>,
    << P("tars_ret", 0, Str) >>)

AdminFNotifyOneWay == OneWayProxy("notify", << P("command", 1, Str) >>)

AdminFDispatchNotify == Case("notify",
    << P("command", 1, Str) >>,
    << P("tars_ret", 0, Str) >>)

(***************************************************************************)
(* The three pieces of each method.                                        *)
(***************************************************************************)
Method(call, oneway, case) == [call |-> call, oneway |-> oneway, case |-> case]

Methods == {
    Method(QueryFFindObjectById, QueryFFindObjectByIdOneWay,
           QueryFDispatchFindObjectById),
    Method(QueryFFindObjectById4Any, QueryFFindObjectById4AnyOneWay,
           QueryFDispatchFindObjectById4Any),
    Method(QueryFFindObjectById4All, QueryFFindObjectById4AllOneWay,
           QueryFDispatchFindObjectById4All),
    Method(QueryFFindObjectByIdInSameGroup, QueryFFindObjectByIdInSameGroupOneWay,
           QueryFDispatchFindObjectByIdInSameGroup),
    Method(QueryFFindObjectByIdInSameStation, QueryFFindObjectByIdInSameStationOneWay,
           QueryFDispatchFindObjectByIdInSameStation),
    Method(QueryFFindObjectByIdInSameSet, QueryFFindObjectByIdInSameSetOneWay,
           QueryFDispatchFindObjectByIdInSameSet),
    Method(ConfigListConfig, ConfigListConfigOneWay,
           ConfigDispatchListConfig),
    Method(ConfigLoadConfig, ConfigLoadConfigOneWay,
           ConfigDispatchLoadConfig),
    Method(ConfigLoadConfigByHost, ConfigLoadConfigByHostOneWay,
           ConfigDispatchLoadConfigByHost),
    Method(ConfigCheckConfig, ConfigCheckConfigOneWay,
           ConfigDispatchCheckConfig),
    Method(ConfigListConfigByInfo, ConfigListConfigByInfoOneWay,
           ConfigDispatchListConfigByInfo),
    Method(ConfigLoadConfigByInfo, ConfigLoadConfigByInfoOneWay,
           ConfigDispatchLoadConfigByInfo),
    Method(ConfigCheckConfigByInfo, ConfigCheckConfigByInfoOneWay,
           ConfigDispatchCheckConfigByInfo),
    Method(ConfigListAllConfigByInfo, ConfigListAllConfigByInfoOneWay,
           ConfigDispatchListAllConfigByInfo),
    Method(NotifyReportServer, NotifyReportServerOneWay,
           NotifyDispatchReportServer),
    Method(NotifyNotifyServer, NotifyNotifyServerOneWay,
           NotifyDispatchNotifyServer),
    Method(NotifyGetNotifyInfo, NotifyGetNotifyInfoOneWay,
           NotifyDispatchGetNotifyInfo),
    Method(NotifyReportNotifyInfo, NotifyReportNotifyInfoOneWay,
           NotifyDispatchReportNotifyInfo),
    Method(LogLogger, LogLoggerOneWay,
           LogDispatchLogger),
    Method(LogLoggerbyInfo, LogLoggerbyInfoOneWay,
           LogDispatchLoggerbyInfo),
    Method(StatFReportMicMsg, StatFReportMicMsgOneWay,
           StatFDispatchReportMicMsg),
    Method(StatFReportSampleMsg, StatFReportSampleMsgOneWay,
           StatFDispatchReportSampleMsg),
    Method(ServerFKeepAlive, ServerFKeepAliveOneWay,
           ServerFDispatchKeepAlive),
    Method(ServerFReportVersion, ServerFReportVersionOneWay,
           ServerFDispatchReportVersion),
    Method(PropertyFReportPropMsg, PropertyFReportPropMsgOneWay,
           PropertyFDispatchReportPropMsg),
    Method(AdminFShutdown, AdminFShutdownOneWay,
           AdminFDispatchShutdown),
    Method(AdminFNotify, AdminFNotifyOneWay,
           AdminFDispatchNotify) }

(***************************************************************************)
(* The protocol versions, and the body of a packet in each: a stream for   *)
(* TARS and TUP; for JSON the text, as the object it denotes.              *)
(***************************************************************************)
TARSVERSION == 1
TUPVERSION == 3
JSONVERSION == 5

JsonText(obj) == << [kind |-> "json", obj |-> obj] >>

\* encoding/json has no text for a map whose keys are structs.
JsonFits(t) == t.k # "map" \/ t.key.k # "struct"

RestrictTo(f, S) == [x \in S |-> f[x]]
NamesOf(params) == {params[i].name : i \in DOMAIN params}
ZeroParams(params) ==
    [n \in NamesOf(params) |->
        ZeroOf((CHOOSE p \in Range(params) : p.name = n).type)]

\* The parameters of a list, one after the other under their tags.
WriteParams(params, v) ==
    FlattenSeq([i \in 1 .. Len(params) |->
        WriteVar(v[params[i].name], params[i].tag, params[i].type)])

(***************************************************************************)
(* Dispatch: decode the arguments.  The errors of Decode and GetBuffer are *)
(* dropped; a missing buffer is empty and the required read then fails.  A *)
(* member that a JSON object lacks leaves its variable at zero, or a struct *)
(* at its defaults.                                                        *)
(***************************************************************************)
RECURSIVE ReadTupParams(_, _, _, _)
ReadTupParams(u, params, i, got) ==
    IF i > Len(params) THEN Got(FALSE, got, << >>)
    ELSE LET p == params[i]
             x == ReadVar(NewReader(GetBuffer(u, p.name).buf), 0, TRUE, p.type, got[p.name])
         IN  IF x.err THEN Got(TRUE, got, << >>)
             ELSE ReadTupParams(u, params, i + 1, [got EXCEPT ![p.name] = x.v])

ReadJsonParams(obj, params, zero) ==
    LET typeOf(n) == (CHOOSE p \in Range(params) : p.name = n).type
        unset(n) == IF typeOf(n).k = "struct" THEN ResetDefault(typeOf(n).name, zero[n])
                    ELSE zero[n]
    IN  Got(\E p \in Range(params) : p.name \in DOMAIN obj /\ ~JsonFits(p.type),
            [n \in DOMAIN zero |-> IF n \in DOMAIN obj THEN obj[n] ELSE unset(n)],
            << >>)

DecodeArgs(case, version, body) ==
    LET zero == ZeroParams(case.reads)
    IN  CASE case.reads = << >> -> Got(FALSE, zero, << >>)
          [] case.reads # << >> /\ version = TARSVERSION ->
                ReadFields(NewReader(body), case.reads, 1, zero)
          [] case.reads # << >> /\ version = TUPVERSION ->
                ReadTupParams(DecodeTup(NewReader(body)).v, case.reads, 1, zero)
          [] case.reads # << >> /\ version = JSONVERSION ->
                ReadJsonParams(body[1].obj, case.reads, zero)
          [] OTHER -> Got(TRUE, zero, << >>)

(***************************************************************************)
(* Dispatch: encode what the implementation returned.  TUP carries the     *)
(* return value under two names.                                           *)
(***************************************************************************)
TupResults(params, v) ==
    [n \in NamesOf(params) \cup (IF "tars_ret" \in NamesOf(params) THEN {""} ELSE {}) |->
        LET name == IF n = "" THEN "tars_ret" ELSE n
        IN  WriteVar(v[name], 0, (CHOOSE p \in Range(params) : p.name = name).type)]

EncodeResults(case, version, outs) ==
    CASE version = TARSVERSION -> WriteParams(case.writes, outs)
      [] version = TUPVERSION -> EncodeTup(TupResults(case.writes, outs))
      [] version = JSONVERSION -> JsonText(outs)
      [] OTHER -> << >>

(***************************************************************************)
(* The proxy: the body of the request, and the caller's variables after    *)
(* the reply, whatever they held before.                                   *)
(***************************************************************************)
EncodeArgs(proxy, args) == WriteParams(proxy.writes, args)
DecodeResults(proxy, body, old) == ReadFields(NewReader(body), proxy.reads, 1, old)
=============================================================================
