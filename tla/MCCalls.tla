------------------------------- MODULE MCCalls -------------------------------
(***************************************************************************)
(* The remote call on small instances, in two parts: the bookkeeping of     *)
(* calls under way at the same time (Invoke), and what they carry, where an *)
(* integer, a struct or a whole call is encoded, dispatched and answered.   *)
(***************************************************************************)
EXTENDS Invoke, Rpc, StructWire, IntWire

VARIABLE part     \* "calls", "overflow" or "wire"

\* Two-way calls are interchangeable.
Symmetry == Permutations(Calls \ OneWay)

\* msgID one below its maximum, and just below 0 after an overflow.
AroundOverflow == {MaxInt - 1, -2}

\* Integers on both sides of each border between two wire types.
Borders == UNION {{-M - 2, -M - 1, -M, M, M + 1, 2 * M + 1, 2 * M + 2} : M \in {Max8, Max16, Max32}}
                \cup {-1, 0, 1, Max64, -Max64 - 1}

MCFieldValues(t) ==
    CASE t.k \in {"int8", "int16", "int32", "int64"} ->
            {0, 1, Sample(t, 1, 0), Sample(t, 2, 0), -Sample(t, 1, 0)}
      [] t.k = "bool" -> BOOLEAN
      [] OTHER -> {Sample(t, size, 0) : size \in 0 .. 2}

MCFullValue(f) == Sample(f.type, 1, f.tag)

\* One unknown field of each wire type, containers with something inside.
Typed(v, t) == [v |-> v, type |-> t]
MCUnknownValues ==
    << Typed(0, I64), Typed(1, I64), Typed(Max8 + 1, I64), Typed(Max16 + 1, I64),
       Typed(Max32 + 1, I64), Typed(Sample(Str, 1, 0), Str), Typed(Sample(Str, 2, 0), Str),
       Typed(Sample(Bytes, 2, 0), Bytes), Typed(Sample(List(Str), 2, 0), List(Str)),
       Typed(Sample(Map(Str, List(I32)), 2, 0), Map(Str, List(I32))),
       Typed(Sample(Struct("NotifyInfo"), 2, 0), Struct("NotifyInfo")) >>

MCUnknown == [i \in 1 .. 4 |->
    LET u == MCUnknownValues[<< 5, 7, 10, 11 >>[i]] IN WriteVar(u.v, 12 + i, u.type)]

\* Success, an error, and an *Error with a code of its own or 0.
MCOutcomes == {nil, PlainError, << 77 >>, << 0 >>}

Req(m, ver, ow, size, old) ==
    [method |-> m, version |-> ver, oneway |-> ow, size |-> size, old |-> old,
     ping |-> FALSE, late |-> FALSE, filters |-> NoFilters]

\* Every method in every version, and one, without a result that an error would
\* leave undecodable, with all that the server adds.
MCRequests ==
    LET some == CHOOSE m \in Methods : m.call.func = "logger"
        plain == Req(some, TARSVERSION, FALSE, 1, 0)
        with(f) == [plain EXCEPT !.filters = f]
    IN  {Req(m, TARSVERSION, FALSE, size, 2 - size) : m \in Methods, size \in 0 .. 2}
        \cup {Req(m, ver, FALSE, size, 0) : m \in Methods, size \in 0 .. 2,
            ver \in {TUPVERSION, JSONVERSION, 4}}
        \cup {Req(m, TARSVERSION, TRUE, 1, 0) : m \in Methods}
        \cup {[plain EXCEPT !.ping = TRUE], [plain EXCEPT !.late = TRUE],
              with([NoFilters EXCEPT !.single = TRUE, !.mw = 1]),
              with([NoFilters EXCEPT !.single = TRUE, !.fails = {<< "single", 1 >>}]),
              with([NoFilters EXCEPT !.mw = 2, !.fails = {<< "mw", 2 >>}, !.code = 0]),
              with([NoFilters EXCEPT !.mw = 2, !.fails = {<< "mw", 1 >>}, !.code = 77])}
        \cup {with([NoFilters EXCEPT !.mw = 3, !.fails = f]) :
                f \in SUBSET {<< "mw", i >> : i \in 1 .. 3}}
        \cup {with([NoFilters EXCEPT !.pre = 2, !.post = p, !.fails = f]) : p \in 0 .. 1,
                f \in SUBSET {<< "pre", 2 >>, << "post", 1 >>}}

AtRest == phase = "idle" /\ stage = "idle" /\ num = 0

WireNext ==
    \/ (phase # "idle" \/ AtRest) /\ RpcNext /\ UNCHANGED << structVars, num >>
    \/ (stage # "idle" \/ AtRest) /\ StructNext /\ UNCHANGED << rpcVars, num >>
    \/ AtRest /\ (\E v \in Borders : WriteNext(v)) /\ UNCHANGED << rpcVars, structVars >>

\* Near the maximum the calls are without pings and pushes.
CallsNext ==
    /\ Next
    /\ part = "overflow" => recv'[Push] = "idle" /\ \A c \in Pings : pc'[c] = "check"

MCInit ==
    /\ part \in {"calls", "overflow", "wire"} /\ Init /\ RpcInit /\ StructInit /\ NumInit
    /\ part = "overflow" <=> msgID > 0
MCNext ==
    \/ part # "wire" /\ CallsNext /\ UNCHANGED << part, rpcVars, structVars, num >>
    \/ part = "wire" /\ WireNext /\ UNCHANGED << part, vars >>
MCSpec == MCInit /\ [][MCNext]_<< part, vars, rpcVars, structVars, num >>
=============================================================================
