--------------------------------- MODULE Rpc ---------------------------------
(***************************************************************************)
(* One remote call from the proxy of the caller to the implementation and   *)
(* back, as bytes: the generated proxy, the request packet, Protocol.Invoke *)
(* on the server with its filters and the generated dispatcher, the         *)
(* response packet and what the caller makes of it (tars/tarsprotocol.go,   *)
(* tars/filter.go, tars/servant.go).  How packets travel is the subject of  *)
(* TarsClient, TcpServer and Invoke.                                        *)
(*                                                                          *)
(* The two sides need not have been built from the same interface file: on  *)
(* the way a request may gain a field that the server does not know or lose *)
(* its last argument.                                                       *)
(***************************************************************************)
EXTENDS TarsStubs

CONSTANTS Requests,     \* the calls considered, records as described at ProxyOf
          Outcomes,     \* the errors an implementation may return
          Unknown       \* the fields a newer peer may add: a sequence of streams

VARIABLES phase,        \* how far the call has come
          call,         \* the call under way
          wire,         \* the packet on its way, a stream
          seen,         \* what the implementation was called with and returned
          returned        \* what the caller has in the end

rpcVars == << phase, call, wire, seen, returned >>

(***************************************************************************)
(* An error: nil, or something with a code.  Protocol.Invoke takes the code *)
(* of an *Error, which may be 0, and 1 for every other error.               *)
(***************************************************************************)
nil == << >>
PlainError == << 1 >>

(***************************************************************************)
(* Values of a type to call with: size 0 is the zero value; values with     *)
(* different labels, which are tags, differ.                                *)
(***************************************************************************)
Text(n, label) == [n |-> n, c |-> << label >>]
RECURSIVE Sample(_, _, _)
SampleFields(fields, size) ==
    [n \in NamesOf(fields) |->
        LET f == CHOOSE x \in Range(fields) : x.name = n
        IN  Sample(f.type, size, f.tag)]
Sample(t, size, label) ==
    CASE size = 0 -> ZeroOf(t)
      [] size # 0 /\ t.k = "int8" -> IF size = 1 THEN 1 ELSE -Max8 - 1
      [] size # 0 /\ t.k = "int16" -> IF size = 1 THEN Max8 + 1 ELSE -Max16 - 1
      [] size # 0 /\ t.k = "int32" -> IF size = 1 THEN Max16 + 1 + label ELSE label - Max32 - 1
      [] size # 0 /\ t.k = "int64" -> IF size = 1 THEN Max32 + 1 + label ELSE label - Max64 - 1
      [] size # 0 /\ t.k = "bool" -> TRUE
      [] size # 0 /\ t.k = "string" -> Text(IF size = 1 THEN 255 ELSE 256, label)
      [] size # 0 /\ t.k = "bytes" -> Text(size, label)
      [] size # 0 /\ t.k = "list" -> [i \in 1 .. size |-> Sample(t.of, i - 1, i)]
      [] size # 0 /\ t.k = "map" -> [k \in {Sample(t.key, i, i) : i \in 1 .. size} |->
                                       Sample(t.val, 1, label)]
      [] size # 0 /\ t.k = "struct" -> SampleFields(ReadTable[t.name].fields, size)

(***************************************************************************)
(* The server's filters: at most one filter registered by the old way, a   *)
(* number of middlewares, of pre and of post filters; those named in fails *)
(* return an error, an *Error with this code unless it is 1, and, where it *)
(* is theirs to decide, do not call on.                                    *)
(***************************************************************************)
NoFilters == [single |-> FALSE, mw |-> 0, pre |-> 0, post |-> 0, fails |-> {}, code |-> 1]

\* Mutant for FiltersGuard: the middlewares are wrapped from the first to the last.
BugMiddlewareChain(f) ==
    FoldLeft(LAMBDA chain, i : << << "mw", i >> >> \o chain, << >>,
             [i \in 1 .. f.mw |-> i])

\* getMiddlewareServerFilter: the last middleware wraps Dispatch, the first is
\* outermost.  A chain is the sequence of filters that a request passes.
MiddlewareChain(f) ==
    FoldRight(LAMBDA i, chain : << << "mw", i >> >> \o chain,
              [i \in 1 .. f.mw |-> i], << >>)

\* Mutant for FailureReported: the error of a filter that rejects is dropped.
BugRunChain(f, chain, d) ==
    LET bad == {i \in DOMAIN chain : chain[i] \in f.fails}
    IN  [err |-> IF bad = {} THEN d ELSE nil, dispatched |-> bad = {}, passed |-> chain]

\* What happens to a request on a chain that ends in Dispatch: it runs up to the
\* first filter that fails.  d is the error of Dispatch.
RunChain(f, chain, d) ==
    LET bad == {i \in DOMAIN chain : chain[i] \in f.fails}
    IN  IF bad = {} THEN [err |-> d, dispatched |-> TRUE, passed |-> chain]
        ELSE [err |-> << f.code >>, dispatched |-> FALSE, passed |-> SubSeq(chain, 1, Min(bad))]

\* The pre and post filters are given the error variable of the request: each
\* one overwrites it, Dispatch overwrites that of the pre filters, and the last
\* post filter decides.
RunPrePost(f, d) ==
    LET pre == [i \in 1 .. f.pre |-> << "pre", i >>]
        post == [i \in 1 .. f.post |-> << "post", i >>]
        last == << "post", f.post >>
    IN  [err |-> IF f.post = 0 THEN d ELSE IF last \in f.fails THEN << f.code >> ELSE nil,
         dispatched |-> TRUE, passed |-> pre \o post]

RunFilters(f, d) ==
    IF f.single THEN RunChain(f, << << "single", 1 >> >>, d)
    ELSE IF f.mw > 0 THEN RunChain(f, MiddlewareChain(f), d)
    ELSE RunPrePost(f, d)

(***************************************************************************)
(* A call: the method, protocol version, packet type, the size of the      *)
(* arguments and of what the caller's out-variables held before, whether   *)
(* it is a ping, whether it waits too long in the server's queue, and the  *)
(* filters it meets.                                                       *)
(***************************************************************************)
ProxyOf(c) == IF c.oneway THEN c.method.oneway ELSE c.method.call
InArgsOf(c) == SampleFields(c.method.case.reads, c.size)
\* A proxy also writes its out-parameters, with what their variables hold.
ArgsOf(c) == InArgsOf(c) @@ SampleFields(ProxyOf(c).writes, c.old)
RequestId == 7
Nothing == << >>

\* Callers in Go have a TARS proxy; a TUP caller fills attributes with Put and
\* a JSON caller writes an object.
TupArgs(c) == [n \in NamesOf(c.method.case.reads) |->
    doPut(ArgsOf(c)[n], (CHOOSE p \in Range(c.method.case.reads) : p.name = n).type)]
CanEncode(c) == c.version = TUPVERSION => \A put \in Range(TupArgs(c)) : ~put.err
RequestBody(c, args) ==
    CASE c.version = TUPVERSION -> EncodeTup([n \in DOMAIN args |-> TupArgs(c)[n].s])
      [] c.version = JSONVERSION -> JsonText(args)
      [] OTHER -> EncodeArgs(ProxyOf(c), args)

ByName(c) == c.version \in {TUPVERSION, JSONVERSION}
FuncName(c) == IF c.ping THEN "tars_ping" ELSE ProxyOf(c).func

\* TarsInvoke and RequestPack.
RequestPacket(c, body) ==
    [IVersion |-> c.version, CPacketType |-> ProxyOf(c).packetType,
     IMessageType |-> 0, IRequestId |-> RequestId, SServantName |-> Text(8, 0),
     SFuncName |-> NameOnWire(FuncName(c)), SBuffer |-> BufferOf(body),
     ITimeout |-> 1, Context |-> EmptyMap, Status |-> EmptyMap]

RpcInit ==
    /\ phase = "idle" /\ call = Nothing /\ wire = << >> /\ seen = Nothing /\ returned = Nothing

Call(c) ==
    /\ phase = "idle"
    /\ CanEncode(c)
    /\ phase' = "sent"
    /\ call' = [req |-> c, change |-> "none"]
    /\ wire' = WriteTo(RequestPacket(c, RequestBody(c,
                   IF ByName(c) THEN InArgsOf(c) ELSE ArgsOf(c))), "RequestPacket")
    /\ UNCHANGED << seen, returned >>

(***************************************************************************)
(* The caller was built from another version of the interface: it sends a  *)
(* parameter more, or one less.                                            *)
(***************************************************************************)
LastIn(c) == Last(c.method.case.reads).name
Resend(c, body) == wire' = WriteTo(RequestPacket(c, body), "RequestPacket")

CallerIsNewer(field) ==
    LET c == call.req
    IN  /\ phase = "sent" /\ call.change = "none" /\ ~c.ping
        /\ c.version = TARSVERSION
        /\ Resend(c, EncodeArgs(ProxyOf(c), ArgsOf(c)) \o field)
        /\ call' = [call EXCEPT !.change = "newer"]
        /\ UNCHANGED << phase, seen, returned >>

\* A proxy without the last in-parameter: the tags of the out-parameters, which it
\* writes as well, move up by one.
OlderWrites(c) ==
    LET missing == Last(c.method.case.reads)
        kept == SelectSeq(ProxyOf(c).writes, LAMBDA p : p.name # missing.name)
    IN  [i \in DOMAIN kept |->
            IF kept[i].tag < missing.tag THEN kept[i] ELSE [kept[i] EXCEPT !.tag = @ - 1]]

CallerIsOlder ==
    LET c == call.req
        args == RestrictTo(InArgsOf(c), DOMAIN InArgsOf(c) \ {LastIn(c)})
    IN  /\ phase = "sent" /\ call.change = "none" /\ ~c.ping
        /\ c.method.case.reads # << >>
        /\ IF ByName(c) THEN Resend(c, RequestBody(c, args))
                        ELSE Resend(c, WriteParams(OlderWrites(c), ArgsOf(c)))
        /\ call' = [call EXCEPT !.change = "older"]
        /\ UNCHANGED << phase, seen, returned >>

(***************************************************************************)
(* Dispatch: o is the error that the implementation returns, nil or not.   *)
(* The response packet is replaced on success and left alone otherwise.    *)
(***************************************************************************)
Outs(c) == SampleFields(c.method.case.writes, c.size)

NewResponse(ver, id) == [ZeroStruct("ResponsePacket") EXCEPT
                            !.IVersion = ver, !.IRequestId = id]

\* The implementation is called with args, and its results are encoded.
Serve(c, req, args, rsp, o) ==
    IF args.err THEN [err |-> PlainError, ran |-> FALSE, args |-> Nothing, rsp |-> rsp]
    ELSE [err |-> o, ran |-> TRUE, args |-> args.v,
          rsp |-> IF o # nil THEN rsp
                  ELSE [NewResponse(req.IVersion, req.IRequestId) EXCEPT
                      !.SBuffer = BufferOf(EncodeResults(c.method.case, req.IVersion, Outs(c)))]]

Dispatch(c, req, rsp, o) ==
    IF req.SFuncName # NameOnWire(c.method.case.func)
    THEN [err |-> PlainError, ran |-> FALSE, args |-> Nothing, rsp |-> rsp]
    ELSE Serve(c, req, DecodeArgs(c.method.case, req.IVersion, req.SBuffer.c), rsp, o)

\* rsp2Byte: a TUP caller is answered with a request packet, which has no place
\* for IRet and SResultDesc.
rsp2Byte(rsp) ==
    IF rsp.IVersion = TUPVERSION
    THEN WriteTo([ZeroStruct("RequestPacket") EXCEPT
             !.IVersion = rsp.IVersion, !.IRequestId = rsp.IRequestId,
             !.IMessageType = rsp.IMessageType, !.CPacketType = rsp.CPacketType,
             !.Context = rsp.Context, !.Status = rsp.Status, !.SBuffer = rsp.SBuffer],
             "RequestPacket")
    ELSE WriteTo(rsp, "ResponsePacket")

QUEUETIMEOUT == -6
NotServed == [ran |-> FALSE, args |-> Nothing, outcome |-> nil, err |-> nil, passed |-> << >>]

\* The answer to a request that met the filters: d is what Dispatch did, f what
\* the filters made of it.
AnswerOf(rsp, d, f) ==
    LET body == IF f.dispatched THEN d.rsp ELSE rsp
    IN  IF f.err = nil THEN body
        ELSE [body EXCEPT !.IRet = f.err[1], !.SResultDesc = Text(9, 0)]
Served(rsp, o, d, f) ==
    [rsp |-> AnswerOf(rsp, d, f),
     seen |-> [ran |-> f.dispatched /\ d.ran, args |-> d.args, outcome |-> o,
               err |-> f.err, passed |-> f.passed]]
Filtered(c, rsp, o, d) == Served(rsp, o, d, RunFilters(c.filters, d.err))

Handle(c, req, rsp, o) ==
    IF c.late THEN [rsp |-> [rsp EXCEPT !.IRet = QUEUETIMEOUT], seen |-> NotServed]
    ELSE IF req.SFuncName = NameOnWire("tars_ping") THEN [rsp |-> rsp, seen |-> NotServed]
    ELSE Filtered(c, rsp, o, Dispatch(c, req, rsp, o))

\* The error of reading the request packet is dropped.
ReadRequest(stream) ==
    ReadFrom(NewReader(stream), "RequestPacket", ZeroStruct("RequestPacket")).v

\* Protocol.Invoke.
Invoked(c, req, o) ==
    LET done == Handle(c, req, NewResponse(req.IVersion, req.IRequestId), o)
    IN  [done EXCEPT !.rsp.CPacketType = req.CPacketType]
Answer(done) == wire' = rsp2Byte(done.rsp) /\ seen' = done.seen

ProtocolInvoke(o) ==
    /\ phase = "sent"
    /\ phase' = "answered"
    /\ Answer(Invoked(call.req, ReadRequest(wire), o))
    /\ UNCHANGED << call, returned >>

\* Mutant for AnswerIdentifies: the timeout is answered without the request's id.
BugInvokeTimeout ==
    /\ phase = "sent"
    /\ phase' = "timedout"
    /\ wire' = rsp2Byte([NewResponse(0, 0) EXCEPT !.IRet = 1, !.SResultDesc = Text(21, 0)])
    /\ seen' = NotServed
    /\ UNCHANGED << call, returned >>

\* InvokeTimeout: the answer when the implementation takes longer than the
\* handle timeout, made from the request alone.  Its version stays 0, so that it is
\* a response packet for a TUP caller as well.
InvokeTimeout ==
    /\ phase = "sent"
    /\ phase' = "timedout"
    /\ wire' = rsp2Byte([NewResponse(0, ReadRequest(wire).IRequestId) EXCEPT
                   !.IRet = 1, !.SResultDesc = Text(21, 0)])
    /\ seen' = NotServed
    /\ UNCHANGED << call, returned >>

(***************************************************************************)
(* ResponseUnpack, the check of doInvoke and the rest of the proxy.  A TUP *)
(* or JSON caller is not Go code of this repository.  A one-way caller     *)
(* does not wait for this packet, nor does the server send it.             *)
(***************************************************************************)
Result(c, rsp) ==
    IF c.ping THEN Got(FALSE, << >>, << >>)
    ELSE DecodeResults(ProxyOf(c), rsp.v.SBuffer.c, SampleFields(ProxyOf(c).reads, c.old))
Returned(id, out) == [id |-> id, err |-> out.err, out |-> out.v]
Outcome(c, rsp) ==
    IF rsp.err \/ rsp.v.IRet # 0 THEN [id |-> rsp.v.IRequestId, err |-> TRUE, out |-> << >>]
    ELSE Returned(rsp.v.IRequestId, Result(c, rsp))

Return ==
    /\ phase \in {"answered", "timedout"} /\ call.req.version = TARSVERSION
    /\ phase' = "done"
    /\ returned' =
          IF call.req.oneway THEN [id |-> RequestId, err |-> FALSE, out |-> << >>]
          ELSE Outcome(call.req, ReadFrom(NewReader(wire), "ResponsePacket",
                                          ZeroStruct("ResponsePacket")))
    /\ UNCHANGED << call, wire, seen >>

RpcNext ==
    \/ phase = "idle" /\ \E c \in Requests : Call(c)
    \/ \E i \in DOMAIN Unknown : CallerIsNewer(Unknown[i])
    \/ CallerIsOlder
    \/ \E o \in Outcomes : ProtocolInvoke(o)
    \/ InvokeTimeout
    \/ Return

RpcSpec == RpcInit /\ [][RpcNext]_rpcVars

(***************************************************************************)
(* Properties.                                                              *)
(***************************************************************************)
Answered == phase \in {"answered", "timedout", "done"}

\* The generated proxies and dispatchers (*.tars.go), TUP and JSON: what an
\* implementation is called with is what the caller passed, also when the caller
\* sends parameters that this server does not know.  Of a request that lacks the last
\* argument the others arrive as passed; and, though the errors of Decode and
\* GetBuffer are dropped, a TARS or TUP request reaches the implementation only if
\* an out-parameter of the older interface has the tag of the missing argument, and
\* then what the caller's out-variable held arrives in its place.
ArgumentsArrive ==
    Answered /\ seen.ran =>
        LET c == call.req
        IN  /\ call.change # "older" => seen.args = InArgsOf(c)
            /\ call.change = "older" =>
                /\ \A n \in DOMAIN seen.args \ {LastIn(c)} : seen.args[n] = InArgsOf(c)[n]
                /\ \/ c.version = JSONVERSION
                   \/ /\ c.version = TARSVERSION
                      /\ \E p \in Range(OlderWrites(c)) :
                            /\ p.tag = Last(c.method.case.reads).tag
                            /\ seen.args[LastIn(c)] = ArgsOf(c)[p.name]

\* Protocol.Invoke, rsp2Byte, the check of doInvoke and the proxy: a caller that is
\* told of success has exactly what the implementation returned, whatever its
\* variables held before, and an implementation that succeeded is not reported as
\* failed unless a filter says so.
ResultsReturn ==
    /\ phase = "done" /\ ~call.req.oneway /\ ~call.req.ping
    /\ seen.ran /\ seen.outcome = nil /\ seen.err = nil
    => ~returned.err /\ returned.out = Outs(call.req)

\* Protocol.Invoke and doInvoke: a request that timed out in the queue, did not
\* decode, was rejected by the single filter or a middleware or failed in the
\* implementation ends with an error at the caller, with two exceptions of the code:
\* post filters, which overwrite the error (tarsprotocol.go:118), and an *Error with
\* code 0, which is an answer with IRet 0 and so no error for the caller
\* (tarsprotocol.go:128, servant.go:272).  A pre filter rejects nothing: Dispatch
\* overwrites its error.
FailureReported ==
    /\ phase = "done" /\ ~call.req.oneway /\ ~returned.err
    /\ call.req.filters.post = 0 /\ seen.err # << 0 >>
    => call.req.ping \/ (seen.ran /\ seen.outcome = nil)

\* rsp2Byte, req2Byte, InvokeTimeout: whatever happens to a request, and in every
\* protocol version, the answer decodes and carries the request's id, by which the
\* caller finds the waiting call.  A TUP caller is answered with a request packet,
\* except on a handle timeout, which answers every caller with a response packet.
AnswerIdentifies ==
    phase \in {"answered", "timedout"} =>
        LET name == IF call.req.version = TUPVERSION /\ phase = "answered"
                    THEN "RequestPacket" ELSE "ResponsePacket"
            packet == ReadFrom(NewReader(wire), name, ZeroStruct(name))
        IN  ~packet.err /\ packet.v.IRequestId = RequestId

\* Protocol.Invoke and getMiddlewareServerFilter: middlewares are passed in the order
\* of their registration, the implementation runs only behind all of them, and one
\* that rejects the request is the last to see it.
FiltersGuard ==
    Answered /\ call.req.filters.mw > 0 /\ seen # NotServed /\ ~call.req.filters.single =>
        LET f == call.req.filters
        IN  /\ \A i \in DOMAIN seen.passed : seen.passed[i] = << "mw", i >>
            /\ seen.ran => Len(seen.passed) = f.mw /\ f.fails = {}
            /\ \A i \in 1 .. Len(seen.passed) - 1 : seen.passed[i] \notin f.fails
=============================================================================
