--------------------------- MODULE MCInstrumenter ---------------------------
(***************************************************************************)
(* Modules to instrument: all bodies of two instructions with summaries of *)
(* their calls, a loop, an exit, threads and exceptions, any of whose      *)
(* instructions may be selected.                                           *)
(***************************************************************************)
EXTENDS Instrumenter

I(v, op, ops, callee, bb) ==
    [v |-> v, op |-> op, ops |-> ops, callee |-> callee, void |-> FALSE, bb |-> bb]
Call(v, f, xs, bb) == I(v, "call", Append(xs, f), f, bb)
Op(v, op, ops, bb) == I(v, op, ops, NoFunc, bb)
Def(args, body) == [args |-> args, body |-> body, decl |-> FALSE, void |-> FALSE]
Decl == [args |-> <<>>, body |-> <<>>, decl |-> TRUE, void |-> FALSE]

Module(order, funcs, succ) ==
    [order |-> order \o <<"exit", "ext", "pthread_create">>,
     fn |-> funcs @@ [ext |-> Decl, exit |-> Decl, pthread_create |-> Decl],
     base |-> ("b1" :> "p" @@ "b2" :> "p"), ptr |-> {"p", "q", "s", "t", "b1", "b2", "g", "fp"},
     const |-> {"0"}, global |-> {"g"}, readonly |-> {}, inactive |-> {},
     other |-> {"w", "L"}, succ |-> succ]
Rec(f, id, body, insts, cst) ==
    [name |-> f, id |-> id, num |-> Len(body), blocks |-> Cardinality(Blocks(body)),
     insts |-> insts, cst |-> cst]
Calls(body) == {k \in DOMAIN body : IsCall(body[k]) /\ ~IsSkipped(body[k])}
-----------------------------------------------------------------------------
\* f(x, p): two instructions and a return.
Alphabet(v, b) ==
    {Op(v, "load", <<"p">>, 1), Op(v, "store", <<"x", "p">>, 1), Op(v, "store", <<"0", "g">>, 1),
     Op(b, "gep", <<"p", "x", "0">>, 1), Op(v, "add", <<"x", "x">>, 1), Op(v, "fmul", <<"0", "x">>, 1),
     Op(v, "sdiv", <<"x", "y">>, 1), Op(v, "insertvalue", <<"w", "x">>, 1),
     Op(v, "store", <<"w", "b1">>, 1), Op(v, "alloca", <<>>, 1),
     Call(v, "h", <<"x", "y", "p">>, 1), [Call(v, "h", <<"y", "0", "b1">>, 1) EXCEPT !.void = TRUE],
     Call(v, "ext", <<"p", "p", "p">>, 1), Call(v, "ext", <<"0", "w", "x">>, 1),
     Call(v, "f", <<"x", "p">>, 1), I(v, "call", <<"p", "fp">>, NoFunc, 1)}
HBody == <<Op("h1", "add", <<"n", "k">>, 1), Op("h2", "ret", <<"h1">>, 1)>>
Straight ==
    {<<i, j, Op("r", "ret", <<"x">>, 1)>> :
        i \in Alphabet("v1", "b1"), j \in Alphabet("v2", "b2")}
Summaries ==
    {[in |-> {}, out |-> {}], [in |-> {2}, out |-> {1, 2, 4}], [in |-> {2, 3}, out |-> {2, 3}],
     [in |-> {3, 4}, out |-> {1, 3, 4}], [in |-> {4}, out |-> {1, 4, 5}],
     [in |-> {2}, out |-> {2, 3, 4}]}
InputA ==
    UNION {LET M == Module(<<"h", "f">>, [f |-> Def(<<"x", "p">>, body), h |-> Def(<<"n", "k", "q">>, HBody)], <<>>)
               given == IF Calls(body) = {} THEN {<<>>}
                        ELSE {<<>>} \cup {[k \in Calls(body) |-> c] : c \in Summaries}
           IN  {<<M, <<Rec("f", 1, body, 1 .. 3, cst)>>>> : cst \in given} : body \in Straight}
-----------------------------------------------------------------------------
\* main: a loop over two PHIs; then it creates a thread, and exits or returns.
Loop(end) ==
    <<Op("m1", "load", <<"s">>, 1), Op("m2", "br", <<"L">>, 1),
      Op("m3", "phi", <<"m1", "m5">>, 2), Op("m4", "phi", <<"m1", "m5">>, 2),
      Op("m5", "add", <<"m3", "m4">>, 2), Op("m6", "br", <<"m5", "L", "L">>, 2)>> \o end
Tails ==
    {<<Op("m7", "phi", <<"m5">>, 3), Call("m8", "pthread_create", <<"t", "0", "f", "s">>, 3),
       Op("m9", "ret", <<"m7">>, 3)>>,
     <<Call("m7", "exit", <<"m5">>, 3), Op("m8", "unreachable", <<>>, 3)>>,
     <<Op("m7", "ret", <<"m5">>, 3), Op("m8", "store", <<"m5", "g">>, 4), Op("m9", "br", <<"L">>, 4)>>}
Succ == "m2" :> {2} @@ "m6" :> {2, 3} @@ "m9" :> {2}

\* f: an invocation whose unwind block comes next.
Unwind ==
    <<I("e1", "invoke", <<"x", "ext">>, "ext", 1), Op("e2", "landingpad", <<>>, 2),
      Op("e3", "add", <<"x", "0">>, 2), Op("e4", "br", <<"x", "L">>, 2), Op("e5", "landingpad", <<>>, 3),
      Op("e6", "ret", <<"e3">>, 3), Op("e7", "ret", <<"x">>, 4)>>
SuccF == "e1" :> {2, 4} @@ "e4" :> {3}

\* Sets of selected instructions; records may be missing, stale, or there twice.
InputB ==
    UNION {LET body == Loop(end)
               M == Module(<<"f", "main">>, [main |-> Def(<<>>, body), f |-> Def(<<"x">>, Unwind)], Succ @@ SuccF)
               main(S) == Rec("main", 2, body, S, [k \in S \cap Calls(body) |-> [in |-> {2}, out |-> {1}]])
               f(S)    == Rec("f", 1, Unwind, S, <<>>)
           IN  {<<M, <<f(S), main(T)>>>> : S \in {{}, 1 .. 7, {1, 3}}, T \in {1 .. Len(body)} \cup kSubset(3, 1 .. Len(body))}
               \cup {<<M, <<main({1, 3}), [main({3, 5}) EXCEPT !.id = 3], [f({1, 3}) EXCEPT !.num = 5]>>>>, <<M, <<f({3})>>>>} :
           end \in Tails}

-----------------------------------------------------------------------------
\* An unwind block that begins with a PHI, and one that is left over it.
Cleanup ==
    <<I("c1", "invoke", <<"x", "ext">>, "ext", 1), Op("c2", "phi", <<"x">>, 2),
      Op("c3", "landingpad", <<>>, 2), Op("c4", "add", <<"c2", "x">>, 2), Op("c5", "br", <<"x", "L", "L">>, 2),
      Op("c6", "phi", <<"c4", "x">>, 3), Op("c7", "switch", <<"c6", "L", "L">>, 3),
      Op("c8", "ret", <<"x">>, 4), Op("c9", "resume", <<"c2">>, 5)>>
SuccC == "c1" :> {2, 3} @@ "c5" :> {3, 5} @@ "c7" :> {3, 4}
InputC ==
    {<<Module(<<"main">>, [main |-> Def(<<"x">>, Cleanup)], SuccC), <<Rec("main", 1, Cleanup, S, <<>>)>>>> :
        S \in {1 .. 9, {1, 2, 8}} \cup kSubset(3, 2 .. 8)}

MCInput == InputA \cup InputB \cup InputC
=============================================================================
