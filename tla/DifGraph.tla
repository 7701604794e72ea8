------------------------------ MODULE DifGraph ------------------------------
(***************************************************************************)
(* The dynamic information-flow graph (DifEngine.c, Graph.c): what the     *)
(* engine makes of the events of a traced program, and the visit that      *)
(* follows each of them.                                                   *)
(*                                                                         *)
(* The program is a graph of points that each thread walks along Control,  *)
(* each the place of an instrumented instruction in its calling context;   *)
(* its steps and what they do with the data (dirty, due) are environment.  *)
(* An instruction and the tracing call behind it are two steps, between    *)
(* which other threads take theirs.  Events reach the engine in the order  *)
(* they are traced (EventQueue) and nothing flows back, so the tracing and *)
(* DifEngine's work on the event are one step here.                        *)
(*                                                                         *)
(* A node is <<event id, thread id>>, the key IsEventExist looks for.      *)
(***************************************************************************)
EXTENDS Naturals, Sequences, SequencesExt, FiniteSets

CONSTANTS
    Thread, Main,   \* thread ids, and the one of main
    Event,          \* event ids of the instrumented instructions
    Info,           \* per event, what its id and message say (see Message)
    Point,          \* places of instructions in the program
    EventOf,        \* per point, the event its instruction is traced as
    MainStart,      \* where main begins, threads begin at Info[e].entry: before
                    \* their first instruction
    Control,        \* the pairs of points control may pass between
    Args,           \* per call, the pairs <<actual, formal>> of names
    Addr,           \* per name, its value as a hexadecimal number
    Sinks,          \* events some plugin's Detect says TRUE to
    NoNode, NoThread, NoPoint

Node == Event \X Thread
Name == DOMAIN Addr

\* Types of events and of variables; the other types change nothing here.
EventType == {"FENTRY", "NR", "RET", "CALL", "THRC"}
VarType   == {"U", "P", "F", "G", "A"}
Variable  == [name : Name, type : VarType]

\* fn: the function (with its language) of the event id; source: its
\* R_EID2SSD; def, use: the decoded message; callee: the instrumented function
\* a CALL returns from, or ""; entry: where the thread a THRC announces begins.
Message == [fn : STRING, lang : {"C", "Py"}, type : EventType, source : BOOLEAN,
            def : Seq(Variable), use : Seq(Variable), callee : STRING,
            entry : STRING]

USE_MAP_NUM == 8

ASSUME ProgramAssumption ==
    /\ Main \in Thread /\ NoThread \notin Thread
    /\ NoNode \notin Node /\ NoPoint \notin STRING
    /\ Point \subseteq STRING /\ MainStart \in STRING \ Point
    /\ Info \in [Event -> Message]
    /\ EventOf \in [Point -> Event]
    /\ Control \subseteq STRING \X Point
    /\ Args \in [Control -> SUBSET (Name \X Name)]
    /\ \A a \in Name : Addr[a] \in Nat
    /\ Sinks \subseteq Event
    /\ \A e \in Event : Info[e].entry \notin Point
    /\ \A e \in Event : Len(Info[e].use) <= USE_MAP_NUM
    /\ \A e \in Event : Info[e].type = "THRC" => Len(Info[e].use) = 1
-----------------------------------------------------------------------------
VARIABLES
    \* the program
    at,        \* per thread: the point it has reached and traced
    todo,      \* per thread: the point whose instruction it has executed and
               \* not yet traced
    child,     \* the thread pthread_create has made, until its event is traced
    dirty,     \* locations that hold data of a source
    due,       \* nodes whose instruction has read such data
    mishap,    \* what has happened that the engine does not provide for
    \* the tables of DifEngine
    order,     \* per thread: NodeList of its Graph, in order of insertion
    thrcNode,  \* per thread: ThrcNode of its Graph
    thr,       \* ThrHandle: the THRC node that announced a thread id
    glv,       \* GlvHandle: the last node that defined an address
    share,     \* ShareHandle: the addresses passed to new threads
    engine,    \* "run", or what InvokePlugins has made of the process
    cur,       \* thread id of the current event
    \* the graph and the visit, as in VisitDifg
    nodes, out, kind, sources,
    pc, srcNum, cache, visited, pos, left, nxt, change, invoked

program == <<at, todo, child, dirty, due, mishap>>
tables  == <<order, thrcNode, thr, glv, share>>
visit   == <<nodes, out, kind, sources, pc, srcNum, cache, visited, pos, left,
             nxt, change, invoked>>
vars    == <<program, tables, engine, cur, visit>>

\* MaxEdges and Kinds bound only what VisitDifg checks on its own.
V == INSTANCE VisitDifg WITH Kinds <- {{"DIF"}}, MaxEdges <- 0

Init ==
    /\ at = [t \in Thread |-> IF t = Main THEN MainStart ELSE NoPoint]
    /\ todo = [t \in Thread |-> NoPoint]
    /\ child = [t \in Thread |-> NoThread]
    /\ dirty = {} /\ due = {} /\ mishap = {}
    /\ order = [t \in Thread |-> <<>>]
    /\ thrcNode = [t \in Thread |-> NoNode]
    /\ thr = [t \in Thread |-> NoNode]
    /\ glv = [a \in {Addr[x] : x \in Name} |-> NoNode]
    /\ share = {} /\ engine = "run" /\ cur = Main
    /\ V!Init

Succ(p) == {q \in Point : <<p, q>> \in Control}
Names(vs) == {v.name : v \in ToSet(vs)}
-----------------------------------------------------------------------------
(***************************************************************************)
(* What the program does with its data.  A local lives in its thread and   *)
(* function; a global or what a pointer points to is known by its name.    *)
(***************************************************************************)
Loc(t, e, v) == IF v.type \in {"G", "P"} THEN <<v.name>>
                ELSE <<t, Info[e].fn, v.name>>
Returned(t, fn) == <<t, fn, "return value">>

Read(t, e) == {Loc(t, e, v) : v \in ToSet(Info[e].use)}

UsesDirty(t, e) == Read(t, e) \cap dirty # {}

\* An instrumented callee has stored through its pointers itself; what the call
\* assigns is the value returned.
Result(t, e) ==
    IF Info[e].callee = "" THEN Info[e].source \/ UsesDirty(t, e)
    ELSE Returned(t, Info[e].callee) \in dirty
Assigned(t, e) ==
    {Loc(t, e, v) : v \in {w \in ToSet(Info[e].def) : w.type \in
        IF Info[e].callee = "" THEN {"U", "G", "P"} ELSE {"U"}}}
    \cup IF Info[e].type = "RET" THEN {Returned(t, Info[e].fn)} ELSE {}

\* The formals of the function that is entered at q, and those that are dirty.
Formals(t, q) == {<<t, Info[EventOf[q]].fn, a[2]>> : a \in Args[<<at[t], q>>]}
DirtyFormals(t, q) ==
    {<<t, Info[EventOf[q]].fn, a[2]>> : a \in
       {b \in Args[<<at[t], q>>] : <<t, Info[EventOf[at[t]]].fn, b[1]>> \in dirty}}

\* Another thread has executed an instruction and not traced it, and one of the
\* two writes what the other touches: their events may come in the other order.
Races(t, e) ==
    \E u \in Thread \ {t} :
      LET f == EventOf[todo[u]]
      IN  /\ todo[u] # NoPoint
          /\ \/ Assigned(t, e) \cap (Read(u, f) \cup Assigned(u, f)) # {}
             \/ Read(t, e) \cap Assigned(u, f) # {}

\* Thread t executes the instruction at q.
Instruction(t, q) ==
    LET e == EventOf[q]
    IN  /\ pc = "idle" /\ engine = "run"
        /\ todo[t] = NoPoint
        /\ todo' = [todo EXCEPT ![t] = q]
        /\ dirty' = (dirty \ (Assigned(t, e) \cup Formals(t, q)))
                       \cup (IF Result(t, e) THEN Assigned(t, e) ELSE {})
                       \cup DirtyFormals(t, q)
        /\ due' = IF UsesDirty(t, e) THEN due \cup {<<e, t>>} ELSE due
        /\ UNCHANGED <<tables, engine, cur, visit>>

Execute(t) ==
    \E q \in Succ(at[t]) :
      /\ Info[EventOf[q]].type # "THRC"
      /\ Instruction(t, q)
      /\ mishap' = mishap \cup {m \in {"raced"} : Races(t, EventOf[q])}
      /\ UNCHANGED <<at, child>>

\* pthread_create: the new thread may run before its creator's THRC event is
\* traced.  The id may be that of a thread that has ended.
Create(t, u) ==
    \E q \in Succ(at[t]) :
      LET e == EventOf[q]
      IN  /\ Info[e].type = "THRC" /\ at[u] = NoPoint
          /\ Instruction(t, q)
          /\ at' = [at EXCEPT ![u] = Info[e].entry]
          /\ child' = [child EXCEPT ![t] = u]
          /\ mishap' = mishap \cup
               {m \in {"raced", "id reused", "dirty when passed"} :
                  \/ m = "raced" /\ Races(t, e)
                  \/ m = "id reused" /\ order[u] # <<>>
                  \/ m = "dirty when passed" /\ UsesDirty(t, e)}

\* Thread t traces as e what it has executed.
TRC_trace(t, e) ==
    /\ pc = "idle" /\ engine = "run"
    /\ todo[t] # NoPoint /\ e = EventOf[todo[t]]
    /\ at' = [at EXCEPT ![t] = todo[t]]
    /\ todo' = [todo EXCEPT ![t] = NoPoint]
    /\ child' = [child EXCEPT ![t] = NoThread]
    /\ cur' = t
    /\ UNCHANGED <<dirty, due>>

Ended(t) == at[t] = NoPoint \/ (Succ(at[t]) = {} /\ todo[t] = NoPoint)

ThreadEnds(t) ==
    /\ pc = "idle" /\ engine = "run"
    /\ t # Main /\ at[t] # NoPoint /\ Ended(t)
    /\ at' = [at EXCEPT ![t] = NoPoint]
    /\ UNCHANGED <<todo, child, dirty, due, mishap, tables, engine, cur, visit>>
-----------------------------------------------------------------------------
(***************************************************************************)
(* The edges InsertNode2Graph adds for the first event e of thread t.  In  *)
(* edges are pairs of a node and a kind; the edges out of the new node are *)
(* listed in order.                                                        *)
(***************************************************************************)
\* What s has at the positions in I, in the order of s.
Part(s, I) ==
    LET upto[i \in 0 .. Len(s)] ==
          IF i = 0 THEN <<>> ELSE IF i \in I THEN Append(upto[i - 1], s[i]) ELSE upto[i - 1]
    IN  upto[Len(s)]

\* The nodes of a function in a thread: nodes join this list and NodeList
\* together.
FDifG(fn, t) == Part(order[t], {i \in 1 .. Len(order[t]) : Info[order[t][i]].fn = fn})

FuncList(t, e) == FDifG(Info[e].fn, t)
LastFn(t) == Info[Last(order[t])].fn

\* The function of the thread's last event calls this one.
AddCallEdge(t) == {<<<<Head(FDifG(LastFn(t), t)), t>>, "CG">>}

AddThreadEdge(t, thrs) == IF thrs[t] = NoNode THEN {} ELSE {<<thrs[t], "THRC">>}

\* The use of e that is given to a definition of the earlier event p: each p is
\* matched once, each use at most once.  0 if there is none.
IsNodeDD(p, e, matched) ==
    LET pairs == {x \in (1 .. Len(Info[p].def)) \X (1 .. Len(Info[e].use)) :
                    /\ Info[p].def[x[1]].type # "F" /\ x[2] \notin matched
                    /\ Info[p].def[x[1]].name = Info[e].use[x[2]].name}
        first == CHOOSE x \in pairs : \A y \in pairs :
                   x[1] < y[1] \/ (x[1] = y[1] /\ x[2] <= y[2])
    IN  IF pairs = {} THEN 0 ELSE first[2]

Definers_Oldest(t, e) ==
    LET f == FuncList(t, e)
        matched[i \in 1 .. Len(f)] ==
          IF i = 1 THEN {}
          ELSE LET before == matched[i - 1] IN before \cup {IsNodeDD(f[i], e, before)}
    IN  {f[i] : i \in {j \in 2 .. Len(f) : IsNodeDD(f[j], e, matched[j - 1]) # 0}}

\* Definers of e's uses in its function, from the last event back to but not
\* including the first.
Definers(t, e) ==
    LET f == FuncList(t, e)
        matched[i \in 2 .. Len(f) + 1] ==
          IF i > Len(f) THEN {}
          ELSE LET behind == matched[i + 1] IN behind \cup {IsNodeDD(f[i], e, behind)}
    IN  {f[i] : i \in {j \in 2 .. Len(f) : IsNodeDD(f[j], e, matched[j + 1]) # 0}}

\* Without one, the first event that uses a variable e uses, for a formal.
FormalUser(t, e) ==
    LET f == Tail(FuncList(t, e))
        i == SelectInSeq(f, LAMBDA p : Names(Info[p].use) \cap Names(Info[e].use) # {})
    IN  IF i = 0 THEN {} ELSE {f[i]}

\* And without that, the creation of the thread if e uses what it was passed.
AddSharePropagateEdge(t, e) ==
    IF /\ thrcNode[t] # NoNode
       /\ Last(Info[thrcNode[t][1]].use).name \in Names(Info[e].use)
    THEN {<<thrcNode[t], "TDIF">>} ELSE {}

LocalEdges(t, e) ==
    IF Definers(t, e) # {} THEN {<<<<p, t>>, "DIF">> : p \in Definers(t, e)}
    ELSE IF FormalUser(t, e) # {} THEN {<<<<p, t>>, "DIF">> : p \in FormalUser(t, e)}
    ELSE AddSharePropagateEdge(t, e)

AddGlvAccessEdge_ZeroToo(t, e, glvs) ==
    {<<glvs[Addr[x]], "DIF">> : x \in
       {y \in Names(Info[e].use) : glvs[Addr[y]] \notin {NoNode, <<e, t>>}}}

\* The last definer of each address e uses, unless that is e.
AddGlvAccessEdge(t, e, glvs) ==
    {<<glvs[Addr[x]], "DIF">> : x \in
       {y \in Names(Info[e].use) :
          Addr[y] # 0 /\ glvs[Addr[y]] \notin {NoNode, <<e, t>>}}}

Returns_SameFn(t, e) == Info[e].type = "CALL" /\ LastFn(t) = Info[e].fn

\* A call whose callee has just been traced.
Returns(t, e) == Info[e].type = "CALL" /\ LastFn(t) # Info[e].fn

AddRetEdge(t) == {<<<<Last(order[t]), t>>, "RET">>}

\* From the call to the callee: its entry, the first use of each argument or,
\* without one, the second event; all that use anything in another language.
AddInterCfEdge(t, e) ==
    LET f == FDifG(LastFn(t), t)
        body == Tail(f)
        def == Info[e].def
        user(v) == SelectInSeq(body, LAMBDA p : v.name \in Names(Info[p].use))
        used == Part(def, {i \in 1 .. Len(def) : def[i].type \in {"A", "P"} /\ user(def[i]) # 0})
        refs == [i \in 1 .. Len(used) |-> body[user(used[i])]]
        second == IF refs = <<>> /\ Info[e].use # <<>> /\ body # <<>>
                  THEN <<Head(body)>> ELSE <<>>
        cross == IF Info[Head(f)].lang = Info[e].lang THEN <<>>
                 ELSE Part(body, {i \in 1 .. Len(body) : Info[body[i]].use # <<>>})
    IN  [entry |-> Head(f), data |-> refs \o second \o cross]

OldFunc(t, e) == \E i \in 1 .. Len(order[t]) : Info[order[t][i]].fn = Info[e].fn

InEdges(t, e, thrs, glvs) ==
    IF ~OldFunc(t, e)
    THEN IF order[t] # <<>> THEN AddCallEdge(t) ELSE AddThreadEdge(t, thrs)
    ELSE {<<<<Last(FuncList(t, e)), t>>, "CF">>} \cup LocalEdges(t, e)
         \cup (IF Returns(t, e) THEN AddRetEdge(t) ELSE {})
         \cup AddGlvAccessEdge(t, e, glvs)

OutEdges_Twice(t, e) ==
    IF ~OldFunc(t, e) \/ ~Returns(t, e) THEN <<>>
    ELSE LET c == AddInterCfEdge(t, e) IN <<c.entry>> \o c.data

\* The other ends of the edges out of the new node, each once and in order.
OutEdges(t, e) ==
    IF ~OldFunc(t, e) \/ ~Returns(t, e) THEN <<>>
    ELSE LET c == AddInterCfEdge(t, e)
             all == <<c.entry>> \o c.data
         IN  Part(all, {i \in 1 .. Len(all) : \A j \in 1 .. i - 1 : all[j] # all[i]})

OutKind(t, e, x) ==
    LET c == AddInterCfEdge(t, e)
    IN  (IF x = c.entry THEN {"CF"} ELSE {}) \cup (IF Contains(c.data, x) THEN {"DIF"} ELSE {})

AddNode_FirstOnly(t, e) ==
    order' = IF OldFunc(t, e) THEN order ELSE [order EXCEPT ![t] = Append(@, e)]

\* The node joins the list of its function and that of its graph.
AddNode(t, e) == order' = [order EXCEPT ![t] = Append(@, e)]

\* Edges into and out of the new node: a pair of nodes has one edge, which
\* collects the kinds, and joins the edge list of its source when it is made.
AddDifEdge(t, e, in, to) ==
    LET n == <<e, t>>
    IN  /\ kind' = [p \in Node \X Node |->
                      IF p[2] = n THEN kind[p] \cup {k \in V!EdgeKind : <<p[1], k>> \in in}
                      ELSE IF p[1] = n /\ p[2][2] = t /\ Contains(to, p[2][1])
                      THEN kind[p] \cup OutKind(t, e, p[2][1])
                      ELSE kind[p]]
        /\ out' = [s \in Node |->
                     IF s = n THEN [i \in 1 .. Len(to) |-> <<to[i], t>>]
                     ELSE IF \E k \in V!EdgeKind : <<s, k>> \in in
                     THEN Append(out[s], n) ELSE out[s]]

InsertNode2Graph(t, e, thrs, glvs) ==
    /\ AddDifEdge(t, e, InEdges(t, e, thrs, glvs), OutEdges(t, e))
    /\ thrcNode' = IF order[t] = <<>> /\ thrs[t] # NoNode
                   THEN [thrcNode EXCEPT ![t] = thrs[t]] ELSE thrcNode
    /\ AddNode(t, e)
-----------------------------------------------------------------------------
(***************************************************************************)
(* The engine                                                              *)
(***************************************************************************)
\* The first definition of a global, or through a pointer known to be shared.
DefGlv(e) ==
    LET i == SelectInSeq(Info[e].def, LAMBDA v :
               v.type = "G" \/ (v.type = "P" /\ Addr[v.name] \in share))
    IN  IF i = 0 THEN {} ELSE {Addr[Info[e].def[i].name]}

UpdateGlv(t, e) ==
    glv' = [a \in DOMAIN glv |-> IF a \in DefGlv(e) THEN <<e, t>> ELSE glv[a]]

\* A THRC announces the new thread and shares what it passes to it.
UpdateThrEvent(t, e) ==
    thr' = IF Info[e].type = "THRC" THEN [thr EXCEPT ![child[t]] = <<e, t>>] ELSE thr
UpdateShareVariable(e) ==
    share' = IF Info[e].type = "THRC" THEN share \cup {Addr[Head(Info[e].use).name]}
             ELSE share

\* A source is known by its event id alone.
AddSource(t, e) ==
    IF Info[e].source /\ \A i \in 1 .. Len(sources) : sources[i][1] # e
    THEN Append(sources, <<e, t>>) ELSE sources

\* What the engine does not provide for, recorded when it happens.
Mishaps(t, e, thrs) ==
    {m \in {"overtaken", "sources"} :
       \/ m = "overtaken" /\ order[t] = <<>> /\ t # Main /\ thrs[t] = NoNode
       \/ m = "sources" /\ Len(sources') > 1}

\* An event met for the first time: a node, the tables, the edges, the visit.
DifEngine(t, e) ==
    /\ <<e, t>> \notin nodes
    /\ TRC_trace(t, e)
    /\ nodes' = nodes \cup {<<e, t>>}
    /\ sources' = AddSource(t, e)
    /\ UpdateGlv(t, e) /\ UpdateThrEvent(t, e) /\ UpdateShareVariable(e)
    /\ InsertNode2Graph(t, e, thr', glv')
    /\ mishap' = mishap \cup Mishaps(t, e, thr')
    /\ V!BeginVisit
    /\ UNCHANGED engine

\* IsEventExist: an event met before is dropped, a repeated THRC included.
Repeat(t, e) ==
    /\ <<e, t>> \in nodes
    /\ TRC_trace(t, e)
    /\ mishap' = mishap \cup {"repeated"}
    /\ UNCHANGED <<tables, engine, visit>>

\* GetFuncName for a sink: it looks the function of the sink up under the
\* thread of the current event, and never passes a definition that is not F.
GetFuncName(e) ==
    LET f == FDifG(Info[e].fn, cur)
    IN  IF f = <<>> THEN "aborted"
        ELSE IF Info[Head(f)].def = <<>> \/ Head(Info[Head(f)].def).type = "F"
        THEN "run" ELSE "hung"

\* The visit, with InvokePlugins on the node a data edge leads to.  What
\* ProcSource would still do after a sink that stops the engine is nothing.
InvokePlugins ==
    /\ V!DataEdge
    /\ engine' = IF V!Dst[1] \in Sinks THEN GetFuncName(V!Dst[1]) ELSE "run"

VisitDifg ==
    /\ engine = "run"
    /\ \/ InvokePlugins
       \/ /\ V!ProcSource \/ V!BeginPass \/ V!PassEdge
             \/ V!ReturnEdge \/ V!NextNode \/ V!EndPass
          /\ UNCHANGED engine
    /\ UNCHANGED <<program, tables, cur>>

Next ==
    \/ \E t \in Thread : Execute(t)
    \/ \E t, u \in Thread : Create(t, u)
    \/ \E t \in Thread : ThreadEnds(t)
    \/ \E t \in Thread, e \in Event : DifEngine(t, e)
    \/ \E t \in Thread, e \in Event : Repeat(t, e)
    \/ VisitDifg

Spec == Init /\ [][Next]_vars
-----------------------------------------------------------------------------
(***************************************************************************)
(* Properties                                                              *)
(***************************************************************************)
TypeOK ==
    /\ at \in [Thread -> STRING \cup {NoPoint}]
    /\ todo \in [Thread -> Point \cup {NoPoint}]
    /\ child \in [Thread -> Thread \cup {NoThread}]
    /\ due \subseteq Node
    /\ order \in [Thread -> Seq(Event)]
    /\ \A t \in Thread : ToSet(order[t]) = {e \in Event : <<e, t>> \in nodes}
    /\ thrcNode \in [Thread -> nodes \cup {NoNode}]
    /\ thr \in [Thread -> nodes \cup {NoNode}]
    /\ \A a \in DOMAIN glv : glv[a] \in nodes \cup {NoNode}
    /\ share \subseteq DOMAIN glv
    /\ engine \in {"run", "hung", "aborted"} /\ cur \in Thread
    /\ V!TypeOK

\* What DifEngine and InsertNode2Graph do is what the visit relies on: a node
\* per event, edges between the new node and others, no edge twice.
Visited == V!OpenSpec

Done == pc = "idle" /\ \A t \in Thread : Ended(t)

\* Every instruction that has read data of the source is marked when the
\* program is through, if nothing has happened the engine does not provide for
\* and no node waits behind the part of the cache that was covered.
TaintFound ==
    Done /\ engine = "run" /\ mishap = {} /\ left = Len(cache) => due \subseteq visited

\* Edges between threads are those of a creation and those of shared memory: one
\* event defines what has an address, the other uses what has the same.
ThreadsApart ==
    \A p \in Node \X Node : kind[p] # {} /\ p[1][2] # p[2][2] =>
      \/ kind[p] \subseteq {"THRC", "TDIF"} /\ p[1] = thrcNode[p[2][2]]
      \/ kind[p] \subseteq {"DIF", "THRC", "TDIF"}
         /\ \E v \in ToSet(Info[p[1][1]].def) :
              Addr[v.name] \in {Addr[x] : x \in Names(Info[p[2][1]].use)} \ {0}

\* The first event of a thread hangs on the event of its creation, unless it was
\* traced before that.
ThreadLinked ==
    "overtaken" \notin mishap => \A t \in Thread \ {Main} : order[t] # <<>> =>
      \E n \in nodes : /\ Info[n[1]].type = "THRC"
                      /\ "THRC" \in kind[<<n, <<Head(order[t]), t>>>>]

\* e is traced behind a call of another function: control comes there only from
\* where the callee returns.
AfterReturn(e) ==
    /\ Info[e].type = "CALL" /\ Info[e].callee \notin {"", Info[e].fn}
    /\ \A c \in Control : EventOf[c[2]] = e =>
         /\ c[1] \in Point
         /\ Info[EventOf[c[1]]].type = "RET" /\ Info[EventOf[c[1]]].fn = Info[e].callee

\* In a function that has been entered, a call of another hangs on the return of
\* that, until an event has been dropped as a repetition.
ReturnLinked ==
    "repeated" \notin mishap => \A t \in Thread : \A i, j \in 1 .. Len(order[t]) :
      LET e == order[t][j]
      IN  i < j /\ Info[order[t][i]].fn = Info[e].fn /\ AfterReturn(e) =>
            \E p \in nodes : /\ Info[p[1]].fn = Info[e].callee /\ Info[p[1]].type = "RET"
                            /\ p[2] = t /\ "RET" \in kind[<<p, <<e, t>>>>]

Defines(p, x) == \E v \in ToSet(Info[p].def) : v.type # "F" /\ v.name = x

\* Event i of t defines the u-th variable that event j uses, and those of the
\* function that define it again in between are linked to j, for other uses.
Reaches(t, i, j, u) ==
    LET use == Info[order[t][j]].use
    IN  /\ Defines(order[t][i], use[u].name)
        /\ \A k \in i + 1 .. j - 1 :
             Info[order[t][k]].fn = Info[order[t][j]].fn /\ Defines(order[t][k], use[u].name) =>
               /\ "DIF" \in kind[<<<<order[t][k], t>>, <<order[t][j], t>>>>]
               /\ \E w \in 1 .. Len(use) : w # u /\ Defines(order[t][k], use[w].name)

\* None but the first event of its function defines what the event j of t uses.
Undefined(t, j) ==
    \A k, l \in 1 .. j - 1 :
      l < k /\ Info[order[t][l]].fn = Info[order[t][j]].fn
            /\ Info[order[t][k]].fn = Info[order[t][j]].fn =>
        \A x \in Names(Info[order[t][j]].use) : ~Defines(order[t][k], x)

\* Data comes to event j of t from its event i: by the last definition of what j
\* uses; by a variable both use, a formal, if nothing defines what j uses; or by
\* an address both name.
Explained(t, i, j) ==
    LET p == order[t][i]
        e == order[t][j]
    IN  \/ \E u \in 1 .. Len(Info[e].use) : Reaches(t, i, j, u)
        \/ Undefined(t, j) /\ Names(Info[p].use) \cap Names(Info[e].use) # {}
        \/ \E v \in ToSet(Info[p].def) : \E x \in Names(Info[e].use) :
             Addr[x] # 0 /\ Addr[v.name] = Addr[x]

\* An edge shows data between two events of a function only if that explains it.
LatestDefinition ==
    \A t \in Thread : \A i, j \in 1 .. Len(order[t]) :
      i < j /\ Info[order[t][i]].fn = Info[order[t][j]].fn
            /\ "DIF" \in kind[<<<<order[t][i], t>>, <<order[t][j], t>>>>] =>
        Explained(t, i, j)

\* Inside a thread the graph shows the flow the program has: along reaching
\* definitions, and from the return of a callee to its call.
LocalFlow == LatestDefinition /\ ReturnLinked

\* Between threads it shows no more than creation and shared memory, and shows
\* the creation.
ThreadFlow == ThreadsApart /\ ThreadLinked
-----------------------------------------------------------------------------
(***************************************************************************)
(* What a comment and an assertion say and the code does not do            *)
(***************************************************************************)
\* Plugins.c:448, "Visit all sources": the data of every source is followed.
SourcesVisited ==
    pc = "idle" /\ engine = "run" => \A i \in 1 .. Len(sources) : \A d \in nodes :
      "DIF" \in kind[<<sources[i], d>>] => d \in visited

\* Plugins.c:295, assert (FDifG != NULL): the function of a sink is found.
FuncFound == engine # "aborted"
=============================================================================
