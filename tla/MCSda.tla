------------------------------- MODULE MCSda -------------------------------
(***************************************************************************)
(* Small programs for the analysis: all bodies of four instructions that  *)
(* work on one stack slot and call two functions, all pairs of entries that*)
(* work on two globals, and one program for each other case of the code.   *)
(***************************************************************************)
EXTENDS Sda

I(v, op, ops, callee, bb) ==
    [v |-> v, op |-> op, ops |-> ops, callee |-> callee, void |-> FALSE, bb |-> bb]
Void(i) == [i EXCEPT !.void = TRUE]
Read(v)       == I(v, "call", <<"read">>, "read", 1)
Load(v, p)    == I(v, "load", <<p>>, NoFunc, 1)
Store(v, x, p) == I(v, "store", <<x, p>>, NoFunc, 1)
Add(v, x, y)  == I(v, "add", <<x, y>>, NoFunc, 1)
Call(v, f, xs) == I(v, "call", Append(xs, f), f, 1)
CallVoid(v, f, xs) == Void(Call(v, f, xs))
Ret(v, x)     == I(v, "ret", <<x>>, NoFunc, 2)
RetVoid(v)    == I(v, "ret", <<>>, NoFunc, 2)
Alloca(v)     == I(v, "alloca", <<>>, NoFunc, 1)

Def(args, body) == [args |-> args, body |-> body, decl |-> FALSE, void |-> FALSE]
DefVoid(args, body) == [Def(args, body) EXCEPT !.void = TRUE]
Decl(args, void) == [args |-> args, body |-> <<>>, decl |-> TRUE, void |-> void]

Prog(fn, ptr) ==
    [fn |-> fn @@ ("read" :> Decl(<<>>, FALSE)), base |-> <<>>, ptr |-> ptr,
     const |-> {"0"}, global |-> {}, readonly |-> {}, inactive |-> {},
     sources |-> {"read"}, guardAll |-> TRUE, disGlobal |-> FALSE, lib |-> <<>>]
-----------------------------------------------------------------------------
\* main: a slot, four instructions, a return. f writes to its argument (or not), id
\* returns it.
Value(k) == <<"m1", "m2", "m3", "m4">>[k]
Ints(b) == {b[k].v : k \in {j \in DOMAIN b : b[j].op # "store" /\ ~b[j].void}}
NextInsts(b) ==
    LET v == Value(Len(b) + 1)
    IN  {Read(v), Load(v, "a"), CallVoid(v, "f", <<"a">>)}
        \cup {Store(v, x, "a") : x \in Ints(b) \cup {"0"}}
        \cup {Call(v, "id", <<x>>) : x \in Ints(b)}
        \cup {I(v, "phi", <<x, "m4">>, NoFunc, 1) : x \in Ints(b)}
Extend(B) == UNION {{Append(b, i) : i \in NextInsts(b)} : b \in B}
MainBodies ==
    {b \in Extend(Extend(Extend(Extend({<<>>})))) :
        /\ "m4" \in Ints(b)
        /\ Cardinality({k \in DOMAIN b : b[k].op = "call"}) \in {1, 2}}

FBodies ==
    {<<Alloca("f0"), Read("f1"), Store("f2", "f1", "p"), RetVoid("f9")>>,
     <<Alloca("f0"), CallVoid("f1", "f", <<"p">>), Load("f2", "p"), RetVoid("f9")>>}

Slots ==
    {Prog([main |-> Def(<<>>, <<Alloca("a")>> \o b \o <<Ret("m9", "m4")>>),
           f    |-> DefVoid(<<"p">>, fb),
           id   |-> Def(<<"n">>, <<Add("d1", "n", "0"), Ret("d9", "d1")>>)],
          {"a", "p"}) : b \in MainBodies, fb \in FBodies}
-----------------------------------------------------------------------------
\* e1, e2: entries of a library, that copy between their argument and the globals g and h.
EntryBodies(v, x) ==
    {<<Alloca(v[1]), Store(v[2], x, "g"), RetVoid(v[9])>>,
     <<Alloca(v[1]), Load(v[2], "g"), Store(v[3], v[2], "h"), RetVoid(v[9])>>,
     <<Alloca(v[1]), Load(v[2], "h"), Store(v[3], v[2], "g"), Load(v[4], "g"), RetVoid(v[9])>>,
     <<Alloca(v[1]), Read(v[2]), Store(v[3], v[2], "h"), RetVoid(v[9])>>,
     <<Alloca(v[1]), Load(v[2], "g"), Load(v[3], "h"), RetVoid(v[9])>>}
V1 == <<"x1", "x2", "x3", "x4", "x5", "x6", "x7", "x8", "x9">>
V2 == <<"y1", "y2", "y3", "y4", "y5", "y6", "y7", "y8", "y9">>

Entering ==
    {[Prog([e1 |-> DefVoid(<<>>, b1), e2 |-> DefVoid(<<"n">>, b2)], {"g", "h"})
         EXCEPT !.global = {"g", "h"}, !.disGlobal = dis] :
     b1 \in EntryBodies(V1, "0"), b2 \in EntryBodies(V2, "n"), dis \in BOOLEAN}
-----------------------------------------------------------------------------
\* A thread is given the slot s, tainted before, after or never, or runs a function
\* that main has called already, or is given another slot than the next thread, or
\* creates the next one.
Thread == I("c", "call", <<"t", "0", "w", "s", "pthread_create">>, "pthread_create", 1)
ThreadBodies ==
    LET taint == <<Read("r"), Store("u", "r", "s")>>
    IN  {<<Alloca("s")>> \o b \o <<Ret("m9", "0")>> :
            b \in {<<Thread>>, <<Thread>> \o taint \o <<CallVoid("k", "w", <<"s">>)>>, taint \o <<Thread>>, <<Thread>> \o taint,
                   taint \o <<CallVoid("k", "w", <<"s">>), Thread>>,
                   <<CallVoid("k", "w", <<"s">>), Thread, [Thread EXCEPT !.v = "d"]>>,
                   <<Alloca("x"), Thread>> \o taint \o <<[Thread EXCEPT !.v = "d", !.ops[4] = "x"]>>}}
ThreadEntries ==
    {<<Load("w1", "q"), Store("w2", "w1", "q"), RetVoid("w9")>>,
     <<Alloca("w1"), [Thread EXCEPT !.v = "w2", !.ops[4] = "q"], RetVoid("w9")>>}
Threads ==
    {Prog([main |-> Def(<<>>, b),
           w    |-> DefVoid(<<"q">>, e)]
          @@ ("pthread_create" :> Decl(<<"t0", "t1", "t2", "t3">>, FALSE)),
          {"s", "t", "q", "x", "t0", "t1", "t2", "t3"}) : b \in ThreadBodies, e \in ThreadEntries}

\* Fields, casts, comparisons, calls through pointers, library functions with and
\* without a summary.
Other ==
    Prog([main |-> Def(<<>>,
             <<Alloca("a"), I("b", "gep", <<"a">>, NoFunc, 1), I("e", "gep", <<"a">>, NoFunc, 1),
               I("c", "bitcast", <<"b">>, NoFunc, 1), Read("r"), Store("m1", "r", "c"),
               Load("m2", "b"), I("m3", "icmp", <<"m2", "0">>, NoFunc, 1),
               I("m4", "br", <<"m3">>, NoFunc, 1), I("m5", "dbg", <<>>, NoFunc, 1),
               I("m6", "call", <<"a", "fp">>, NoFunc, 1), Call("m7", "copy", <<"a", "b">>),
               Call("m8", "put", <<"m2">>), Ret("m9", "m8")>>),
          copy |-> Decl(<<"z1", "z2">>, FALSE), put |-> Decl(<<"z3">>, FALSE)],
         {"a", "b", "c", "e", "fp", "z1", "z2"})
Twice ==
    Prog([main |-> Def(<<>>,
             <<Alloca("o"), Call("o1", "put", <<"o">>), Load("o2", "o"), Read("r"),
               Call("m1", "two", <<"r", "0">>), Call("m2", "two", <<"0", "r">>), Ret("m9", "m2")>>),
          two |-> Def(<<"n", "k">>, <<Add("n1", "n", "0"), Add("k1", "k", "0"), Ret("n9", "n1")>>),
          put |-> Decl(<<"z3">>, FALSE)],
         {"o", "z3"})
\* Two slots that have nothing in common but that both are set to 0.
Zeros ==
    Prog([main |-> Def(<<>>,
             <<Alloca("a"), Alloca("b"), Store("m1", "0", "a"), Read("r"), Store("m2", "r", "a"),
               Load("m3", "b"), Store("m4", "0", "b"), Load("m5", "b"), Ret("m9", "m5")>>)],
         {"a", "b"})
Others ==
    {Twice, Zeros}
    \cup {[Other EXCEPT !.base = ("b" :> "a" @@ "e" :> "a"), !.inactive = in,
                   !.lib = "copy" :> [in |-> {3}, out |-> {2}]] : in \in {{}, {"b", "e"}}}
    \cup {[p EXCEPT !.guardAll = FALSE, !.sources = {"read", "f"}] :
             p \in {q \in Slots : q.fn.main.body[2] = Read("m1")}}

Some == CHOOSE p \in Entering : p.disGlobal = FALSE
MCSession ==
    {<<p>> : p \in Slots \cup Entering \cup Threads \cup Others} \cup {<<p, Some>> : p \in Threads}
-----------------------------------------------------------------------------
\* The least set that is closed.
RECURSIVE Least(_, _)
Least(links, C) ==
    LET hit == {L \in links : L \cap C # {}}
    IN  IF hit = {} THEN C ELSE Least(links \ hit, C \cup UNION hit)
MCReach(P) == Least(Links(P), Origins(P))
ASSUME LeastIsClosed == \A s \in MCSession : \A P \in Range(s) : Closed(P, MCReach(P))
=============================================================================
