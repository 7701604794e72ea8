----------------------------- MODULE MCDifGraph -----------------------------
(***************************************************************************)
(* Programs for DifGraph, for TLC.                                         *)
(***************************************************************************)
EXTENDS DifGraph

U(x) == [name |-> x, type |-> "U"]
P(x) == [name |-> x, type |-> "P"]
G(x) == [name |-> x, type |-> "G"]
F(x) == [name |-> x, type |-> "F"]
A(x) == [name |-> x, type |-> "A"]

Ev(lang, fn, type, def, use) ==
    [fn |-> fn, lang |-> lang, type |-> type, source |-> FALSE,
     def |-> def, use |-> use, callee |-> "", entry |-> ""]
Entry(lang, fn) == Ev(lang, fn, "FENTRY", <<F(fn)>>, <<>>)
Source(ev) == [ev EXCEPT !.source = TRUE]
Call(lang, fn, callee, def, use) ==
    [Ev(lang, fn, "CALL", <<F(callee)>> \o def, use) EXCEPT !.callee = callee]

Path(s) == {<<s[i], s[i + 1]>> : i \in 1 .. Len(s) - 1}
ArgsOf(flow, passed) == [e \in flow |-> UNION {p[2] : p \in {q \in passed : q[1] = e}}]

\* def main(): x = input(); y = x; if ..: y = 0; r = f(y); send(r); maybe
\* round again; return r; in C, f(a) { b = g(a); return b; } and g(c) { d = c; return d; }.
CallsInfo == [
    m0 |-> Entry("Py", "main"),
    m1 |-> Source(Ev("Py", "main", "CALL", <<F("input"), U("x")>>, <<>>)),
    m2 |-> Ev("Py", "main", "NR", <<U("y")>>, <<U("x")>>),
    m3 |-> Ev("Py", "main", "NR", <<U("y")>>, <<>>),
    f0 |-> Entry("C", "f"),
    g0 |-> Entry("C", "g"),
    g1 |-> Ev("C", "g", "NR", <<U("d")>>, <<U("c")>>),
    g2 |-> Ev("C", "g", "RET", <<>>, <<U("d")>>),
    f1 |-> Call("C", "f", "g", <<A("c"), U("b")>>, <<U("a")>>),
    f2 |-> Ev("C", "f", "RET", <<>>, <<U("b")>>),
    m4 |-> Call("Py", "main", "f", <<U("r")>>, <<U("y")>>),
    m5 |-> Ev("Py", "main", "CALL", <<F("send")>>, <<U("r")>>),
    m6 |-> Ev("Py", "main", "RET", <<>>, <<U("r")>>)]
CallsFlow == Path(<<"main", "m0", "m1", "m2", "m3", "f0", "g0", "g1", "g2", "f1",
                    "f2", "m4", "m5", "m1">>) \cup {<<"m2", "f0">>, <<"m5", "m6">>}
CallsArgs == {<<<<"m2", "f0">>, {<<"y", "a">>}>>, <<<<"m3", "f0">>, {<<"y", "a">>}>>,
              <<<<"f0", "g0">>, {<<"a", "c">>}>>}
-----------------------------------------------------------------------------
\* Or def main(): total = 0; run(), with total global; in C,
\* run() { do pthread_create(.., w, p); while (..); *p = read(); send(v0); }
\* and w(p) { v = *p; v0 += v; }, with v0 global.
ThreadsInfo == [
    m0 |-> Entry("Py", "main"),
    m7 |-> Ev("Py", "main", "NR", <<G("total")>>, <<>>),
    n0 |-> Entry("C", "run"),
    n1 |-> [Ev("C", "run", "THRC", <<U("tid"), F("w")>>, <<G("p")>>) EXCEPT !.entry = "w"],
    n2 |-> Source(Ev("C", "run", "CALL", <<F("read"), P("p")>>, <<>>)),
    n3 |-> Ev("C", "run", "CALL", <<F("send")>>, <<G("v0")>>),
    w0 |-> Entry("C", "w"),
    w1 |-> Ev("C", "w", "NR", <<U("v")>>, <<P("p")>>),
    w2 |-> Ev("C", "w", "NR", <<G("v0")>>, <<G("v0"), U("v")>>)]
ThreadsFlow == Path(<<"main", "m0", "m7", "n0", "n1", "n2", "n3">>) \cup Path(<<"w", "w0", "w1", "w2">>)
                 \cup {<<"n1", "n1">>}

\* The program that starts as one of the two.
BothInfo == CallsInfo @@ ThreadsInfo
BothEvent == DOMAIN BothInfo
BothEventOf == [p \in BothEvent |-> p]
BothFlow == CallsFlow \cup ThreadsFlow
BothArgs == ArgsOf(BothFlow, CallsArgs)
BothAddr == [x \in {"x", "y", "r", "a", "b", "c", "d", "f", "g", "main", "input",
                    "send", "p", "v0", "v", "tid", "run", "w", "read", "total"} |->
               CASE x = "p" -> 1 [] x = "v0" -> 2 [] OTHER -> 0]
BothSinks == {"m5"}
-----------------------------------------------------------------------------
\* def main(): x = input(); y = input(); a = x; b = y, on lines of their own.
SourcesInfo == [
    m0 |-> Entry("Py", "main"),
    m1 |-> Source(Ev("Py", "main", "CALL", <<F("input"), U("x")>>, <<>>)),
    m2 |-> Source(Ev("Py", "main", "CALL", <<F("input"), U("y")>>, <<>>)),
    m3 |-> Ev("Py", "main", "NR", <<U("a")>>, <<U("x")>>),
    m4 |-> Ev("Py", "main", "NR", <<U("b")>>, <<U("y")>>)]
SourcesEvent == DOMAIN SourcesInfo
SourcesEventOf == [p \in SourcesEvent |-> p]
SourcesFlow == Path(<<"main", "m0", "m1", "m2", "m3", "m4">>)
SourcesArgs == ArgsOf(SourcesFlow, {})
NoSinks == {}
SourcesAddr == [x \in {"x", "y", "a", "b", "main", "input"} |-> 0]
-----------------------------------------------------------------------------
\* main() { pthread_create(.., w, ..); send(g); } and w() { v = read(); h(v); },
\* where h(a) { g = a; }.
LateInfo == [
    m0 |-> Entry("C", "main"),
    m1 |-> [Ev("C", "main", "THRC", <<U("tid"), F("w")>>, <<G("p")>>) EXCEPT !.entry = "w"],
    m2 |-> Ev("C", "main", "CALL", <<F("send")>>, <<G("g")>>),
    w0 |-> Entry("C", "w"),
    w1 |-> Source(Ev("C", "w", "CALL", <<F("read"), U("v")>>, <<>>)),
    h0 |-> Entry("C", "h"),
    h1 |-> Ev("C", "h", "NR", <<G("g")>>, <<U("a")>>),
    w2 |-> Call("C", "w", "h", <<A("a")>>, <<U("v")>>)]
LateEvent == DOMAIN LateInfo
LateEventOf == [p \in LateEvent |-> p]
LateFlow == Path(<<"main", "m0", "m1", "m2">>) \cup Path(<<"w", "w0", "w1", "h0", "h1", "w2">>)
LateArgs == ArgsOf(LateFlow, {<<<<"w1", "h0">>, {<<"v", "a">>}>>})
LateAddr == [x \in {"p", "g", "v", "a", "tid", "main", "w", "h", "read", "send"} |->
               CASE x = "p" -> 1 [] x = "g" -> 2 [] OTHER -> 0]
LateSinks == {"m2"}
=============================================================================
