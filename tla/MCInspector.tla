---------------------------- MODULE MCInspector -----------------------------
(***************************************************************************)
(* A small Python program with a case for each rule of the inspector.      *)
(***************************************************************************)
EXTENDS Inspector, TLC

MCDefs == {"pyinspect", "f", "rec", "deco", "input2", "take", "C.put", "main", "cb", "work"}

S(op, def, use) ==
    [op |-> op, def |-> def, use |-> use, callee |-> None, via |-> "name", recv |-> None,
     runs |-> {}, to |-> 0, spawns |-> None, c |-> FALSE]
Set(def, use) == S("assign", def, use)
Foreign(def, f, use) == [S("call", def, use) EXCEPT !.callee = f]
Call(def, f, use) == [Foreign(def, f, use) EXCEPT !.runs = {f}]
Runs(st, fs) == [st EXCEPT !.runs = fs]
InC(st) == [st EXCEPT !.c = TRUE]
If(use, to) == [S("if", <<>>, use) EXCEPT !.to = to]
Return(use) == S("return", <<>>, use)
On(st, o) == [st EXCEPT !.via = "object", !.recv = o]
OfModule(st) == [st EXCEPT !.via = "module"]
Spawns(f) == [Foreign(<<>>, "start", <<>>) EXCEPT !.spawns = f]

MCBody == [
    pyinspect |-> <<
        Foreign(<<"x">>, "input", <<>>),
        Call(<<"y">>, "f", <<"x">>),
        InC(Foreign(<<>>, "send", <<"y">>)),
        If(<<"x">>, 7),
        Call(<<"n">>, "rec", <<"y">>),
        Call(<<"k">>, "deco", <<"n">>),
        Call(<<"w">>, "input2", <<"v">>),
        Set(<<"k">>, <<"w">>),
        If(<<"x">>, 16),
        Call(<<"g">>, "take", <<"z", "w">>),
        Foreign(<<"o">>, "make", <<"v">>),
        On(Call(<<>>, "C.put", <<"g">>), "o"),
        Foreign(<<"v">>, "len", <<"o", "w">>),
        If(<<"z">>, 19),
        If(<<"z">>, 21),
        Runs(Foreign(<<"u">>, "sorted", <<"y">>), {"cb", "lam", "nodef"}),
        Set(<<"h", "v">>, <<"u", "v", "w", "x">>),
        OfModule(Call(<<"o">>, "take", <<None, "x">>)),
        Spawns("work"),
        Call(<<>>, "main", <<>>)>>,
    f |-> <<Set(<<"C.v">>, <<"a">>),
            Runs(Foreign(<<"b">>, "len", <<"a">>), {"nodef", "cb"}),
            Return(<<"b">>)>>,
    rec |-> <<If(<<"n">>, 3), Call(<<"n">>, "rec", <<"n">>), Return(<<"n">>)>>,
    deco |-> <<Set(<<"b">>, <<"a">>), Return(<<"b">>)>>,
    input2 |-> <<Set(<<"b">>, <<>>), Return(<<"b">>)>>,
    take |-> <<Set(<<"c">>, <<"a", "b">>), Return(<<"c">>)>>,
    put |-> <<>>,
    main |-> <<Set(<<"h">>, <<"C.v">>), InC(Foreign(<<>>, "send", <<"h">>))>>,
    cb |-> <<Set(<<"b">>, <<"a">>), Return(<<"b">>)>>,
    lam |-> <<Set(<<"b">>, <<"C.v">>)>>,
    nodef |-> <<Return(<<>>)>>,
    work |-> <<Foreign(<<"r">>, "input", <<>>), InC(Foreign(<<>>, "send", <<"r">>))>>]
MCFunc == (DOMAIN MCBody \ {"put"}) \cup {"C.put"}
BodyOf == [f \in MCFunc |-> IF f = "C.put" THEN <<Set(<<"C.w">>, <<"a">>), Return(<<"a">>)>>
                            ELSE MCBody[f]]
ParamsOf == [f \in MCFunc |->
    CASE f \in {"f", "deco", "input2"} -> <<"a">> [] f = "rec" -> <<"n">> [] f = "cb" -> <<"a", "o">>
      [] f = "take" -> <<"a", "b">> [] f = "C.put" -> <<"self", "a">> [] OTHER -> <<>>]
MCUnnamed == {"lam", "pyinspect"}
MCHidden == {"deco"}
MCMethods == {"C.put"}
MCWithin == {<<"input", "input2">>}
MCCriteria == {"input", "input2"}
ArgsOf == [f \in MCFunc |-> IF f = "take" THEN <<FALSE, TRUE, FALSE>> ELSE None]
MCDotted == {"C.v", "C.w"}
Vars == {"x", "y", "n", "k", "w", "v", "g", "z", "u", "h", "a", "b", "c", "r", "self"}
MCClassOf == [v \in Vars \ {"self"} |-> None] @@ [v \in {"o", "self"} |-> "C"]
-----------------------------------------------------------------------------
\* At most two kinds of mishap: the properties speak of behaviours without, Ordered of all
\* but two kinds.
FewMishaps == Cardinality(mishap) <= 2
=============================================================================
