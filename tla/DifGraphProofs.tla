--------------------------- MODULE DifGraphProofs ---------------------------
(***************************************************************************)
(* What holds of the graph for every program.                              *)
(*                                                                         *)
(* Between threads: an edge from one to another comes from a creation or   *)
(* from an address both name, and the first event of a thread hangs on its *)
(* creation unless it came before that.  The edges come from three tables, *)
(* so the invariant says what their rows are: "thr" names creations, "glv" *)
(* the last definition of an address, and "thrcNode" is filled when the    *)
(* thread's graph is made.                                                 *)
(*                                                                         *)
(* Then the graph as the visit meets it: DifGraph implements the open      *)
(* specification of VisitDifg, and what is proved of that holds of it.     *)
(***************************************************************************)
EXTENDS DifGraph, FiniteSetTheorems, NaturalsInduction, WellFoundedInduction, TLAPS

\* A thread that has executed an instruction stands before it, and has made a
\* thread just if that is what the instruction does.
TodoInv ==
    /\ at \in [Thread -> STRING \cup {NoPoint}]
    /\ todo \in [Thread -> Point \cup {NoPoint}]
    /\ child \in [Thread -> Thread \cup {NoThread}]
    /\ \A t \in Thread : todo[t] # NoPoint => <<at[t], todo[t]>> \in Control
    /\ \A t \in Thread :
         child[t] # NoThread <=> todo[t] # NoPoint /\ Info[EventOf[todo[t]]].type = "THRC"

\* An edge from another thread leads to a node of the graph.
EdgeInv ==
    /\ nodes \subseteq Node
    /\ \A p \in Node \X Node : kind[p] # {} /\ p[1][2] # p[2][2] => p[2] \in nodes

OrderInv ==
    /\ order = [t \in Thread |-> order[t]] /\ \A t \in Thread : order[t] \in Seq(Event)
    /\ thrcNode = [t \in Thread |-> thrcNode[t]]
    /\ \A t \in Thread : order[t] = <<>> => thrcNode[t] = NoNode

\* The node a thread id is announced by is in the graph, and a creation.
ThrInv ==
    /\ thr = [t \in Thread |-> thr[t]]
    /\ \A t \in Thread : thr[t] # NoNode =>
          thr[t] \in nodes /\ thr[t] \in Node /\ Info[thr[t][1]].type = "THRC"

\* The node of an address defines a variable that lies there.
GlvInv ==
    /\ DOMAIN glv = {Addr[x] : x \in Name}
    /\ \A a \in DOMAIN glv : glv[a] # NoNode =>
         /\ glv[a] \in Node
         /\ \E v \in ToSet(Info[glv[a][1]].def) : Addr[v.name] = a

ThreadInv ==
    /\ TodoInv
    /\ kind = [p \in Node \X Node |-> kind[p]]
    /\ EdgeInv /\ OrderInv /\ ThrInv /\ GlvInv
    /\ ThreadsApart /\ ThreadLinked
-----------------------------------------------------------------------------
(***************************************************************************)
(* The program's own steps.                                                *)
(***************************************************************************)
LEMMA TodoInit == Init => TodoInv
  <1> SUFFICES ASSUME Init PROVE TodoInv
    OBVIOUS
  <1>1. /\ at = [t \in Thread |-> IF t = Main THEN MainStart ELSE NoPoint]
        /\ todo = [t \in Thread |-> NoPoint] /\ child = [t \in Thread |-> NoThread]
    BY DEF Init
  <1>q. QED
    BY <1>1, ProgramAssumption DEF TodoInv

\* The instruction a thread executes comes after the point it has reached.
LEMMA InstructionTodo ==
    ASSUME TodoInv, NEW t \in Thread, NEW q \in Succ(at[t]), Instruction(t, q)
    PROVE  /\ q \in Point /\ q # NoPoint /\ <<at[t], q>> \in Control /\ at[t] \in STRING
           /\ todo[t] = NoPoint /\ child[t] = NoThread
           /\ todo' = [todo EXCEPT ![t] = q]
  BY ProgramAssumption DEF TodoInv, Succ, Instruction

\* A thread at no point has executed nothing.
LEMMA NowhereIdle ==
    ASSUME TodoInv, NEW t \in Thread, at[t] = NoPoint PROVE todo[t] = NoPoint
  BY ProgramAssumption DEF TodoInv

\* What is traced is what has been executed.
LEMMA TraceTodo ==
    ASSUME TodoInv, NEW t \in Thread, NEW e \in Event, TRC_trace(t, e)
    PROVE  /\ todo[t] \in Point /\ <<at[t], todo[t]>> \in Control /\ e = EventOf[todo[t]]
           /\ at' = [at EXCEPT ![t] = todo[t]]
           /\ (Info[e].type = "THRC") = (child[t] # NoThread)
  <1>1. /\ todo[t] # NoPoint /\ e = EventOf[todo[t]]
        /\ at' = [at EXCEPT ![t] = todo[t]]
    BY DEF TRC_trace
  <1>q. QED
    BY <1>1 DEF TodoInv

LEMMA TodoStep ==
    ASSUME TodoInv, [Next]_vars
    PROVE  TodoInv'
  <1>1. ASSUME NEW t \in Thread, Execute(t) PROVE TodoInv'
    <2>1. PICK q \in Succ(at[t]) : /\ Info[EventOf[q]].type # "THRC" /\ Instruction(t, q)
                                  /\ UNCHANGED <<at, child>>
      BY <1>1 DEF Execute
    <2>2. /\ q \in Point /\ q # NoPoint /\ <<at[t], q>> \in Control
          /\ child[t] = NoThread /\ todo' = [todo EXCEPT ![t] = q]
      BY <2>1, InstructionTodo
    <2>q. QED
      BY <2>1, <2>2 DEF TodoInv
  <1>2. ASSUME NEW t \in Thread, NEW u \in Thread, Create(t, u) PROVE TodoInv'
    <2>1. PICK q \in Succ(at[t]) : /\ Info[EventOf[q]].type = "THRC" /\ at[u] = NoPoint
                                  /\ Instruction(t, q)
                                  /\ at' = [at EXCEPT ![u] = Info[EventOf[q]].entry]
                                  /\ child' = [child EXCEPT ![t] = u]
      BY <1>2 DEF Create
    <2>2. /\ q \in Point /\ q # NoPoint /\ <<at[t], q>> \in Control /\ at[t] \in STRING
          /\ todo' = [todo EXCEPT ![t] = q] /\ todo[u] = NoPoint
      BY <2>1, InstructionTodo, NowhereIdle
    <2>3. t # u /\ u # NoThread /\ Info[EventOf[q]].entry \in STRING
      BY <2>1, <2>2, ProgramAssumption DEF Message
    <2>q. QED
      BY <2>1, <2>2, <2>3 DEF TodoInv
  <1>3. ASSUME NEW t \in Thread, ThreadEnds(t) PROVE TodoInv'
    <2>1. todo[t] = NoPoint /\ at' = [at EXCEPT ![t] = NoPoint] /\ UNCHANGED <<todo, child>>
      BY <1>3 DEF ThreadEnds, Ended
    <2>q. QED
      BY <2>1 DEF TodoInv
  <1>4. ASSUME NEW t \in Thread, NEW e \in Event, TRC_trace(t, e) PROVE TodoInv'
    <2>1. /\ todo' = [todo EXCEPT ![t] = NoPoint] /\ child' = [child EXCEPT ![t] = NoThread]
      BY <1>4 DEF TRC_trace
    <2>2. todo[t] \in Point /\ at' = [at EXCEPT ![t] = todo[t]]
      BY <1>4, TraceTodo
    <2>3. todo[t] \in STRING
      BY <2>2, ProgramAssumption
    <2>q. QED
      BY <2>1, <2>2, <2>3 DEF TodoInv
  <1>5. CASE VisitDifg
    BY <1>5 DEF VisitDifg, program, TodoInv
  <1>6. CASE UNCHANGED vars
    BY <1>6 DEF vars, program, TodoInv
  <1>q. QED
    BY <1>1, <1>2, <1>3, <1>4, <1>5, <1>6 DEF Next, DifEngine, Repeat

-----------------------------------------------------------------------------
LEMMA LeastMember ==
    ASSUME NEW S, S \subseteq Nat, S # {}
    PROVE  \E i \in S : \A j \in S : i <= j
  <1> DEFINE Less == {p \in Nat \X Nat : p[1] < p[2]}
  <1>1. OpToRel(<, Nat) = Less
    BY Zenon DEF OpToRel
  <1>2. IsWellFoundedOn(Less, Nat)
    BY <1>1, NatLessThanWellFounded
  <1>3. PICK i \in S : \A j \in S : <<j, i>> \notin Less
    <2> HIDE DEF Less
    <2>q. QED
      BY <1>2, WFMin
  <1>4. ASSUME NEW j \in S, ~(i <= j)
        PROVE  FALSE
    <2>1. <<j, i>> \in Nat \X Nat /\ j < i
      BY <1>4
    <2>2. <<j, i>> \in Less
      BY <2>1
    <2>q. QED
      BY <1>3, <2>2
  <1>q. QED
    BY <1>4

-----------------------------------------------------------------------------
(***************************************************************************)
(* Parts of a sequence                                                     *)
(***************************************************************************)
\* r is s at the first of the positions in I, up to m; src[k] is the position of r[k].
IsPart(r, src, s, I, m) ==
    /\ r \in Seq({s[i] : i \in 1 .. Len(s)})
    /\ src \in [1 .. Len(r) -> I \cap (1 .. m)]
    /\ \A k \in 1 .. Len(r) : r[k] = s[src[k]]
    /\ \A k, l \in 1 .. Len(r) : k < l => src[k] < src[l]
    /\ \A i \in I \cap (1 .. m) : \E k \in 1 .. Len(r) : src[k] = i

LEMMA PartGrows ==
    ASSUME NEW s, Len(s) \in Nat, NEW I \in SUBSET (1 .. Len(s)), NEW m \in 1 .. Len(s),
           NEW r, NEW src, IsPart(r, src, s, I, m - 1)
    PROVE  /\ m \in I => \E b : IsPart(Append(r, s[m]), b, s, I, m)
           /\ m \notin I => IsPart(r, src, s, I, m)
  <1> DEFINE S == {s[i] : i \in 1 .. Len(s)}
             n == Len(r)
             old == I \cap (1 .. m - 1)
  <1>1. /\ r \in Seq(S) /\ n \in Nat /\ src \in [1 .. n -> old]
        /\ \A k \in 1 .. n : r[k] = s[src[k]] /\ src[k] \in old
        /\ \A k, l \in 1 .. n : k < l => src[k] < src[l]
        /\ \A i \in old : \E k \in 1 .. n : src[k] = i
    <2>1. /\ r \in Seq(S) /\ src \in [1 .. n -> old]
          /\ \A k \in 1 .. n : r[k] = s[src[k]]
          /\ \A k, l \in 1 .. n : k < l => src[k] < src[l]
          /\ \A i \in old : \E k \in 1 .. n : src[k] = i
      BY DEF IsPart
    <2>2. n \in Nat
      BY <2>1
    <2> HIDE DEF S, n, old
    <2>q. QED
      BY <2>1, <2>2
  <1>2. s[m] \in S /\ I \subseteq Nat
    OBVIOUS
  <1>3. \A i \in old : i \in I /\ i < m /\ i \in 1 .. m /\ i \in Nat
    OBVIOUS
  <1>4. \A i \in I \cap (1 .. m) : i = m \/ i \in old
    OBVIOUS
  <1>5. ASSUME m \notin I PROVE IsPart(r, src, s, I, m)
    <2>1. I \cap (1 .. m) = old
      BY <1>3, <1>4, <1>5
    <2>q. QED
      BY <2>1 DEF IsPart
  <1>6. ASSUME m \in I PROVE \E b : IsPart(Append(r, s[m]), b, s, I, m)
    <2> DEFINE a == Append(r, s[m])
    <2>1. /\ a \in Seq(S) /\ Len(a) = n + 1 /\ a[n + 1] = s[m]
          /\ \A k \in 1 .. n : a[k] = r[k]
      BY <1>1, <1>2
    <2>2. PICK b : b = [k \in 1 .. n + 1 |-> IF k = n + 1 THEN m ELSE src[k]]
      OBVIOUS
    <2> HIDE DEF S, n, old, a
    <2>3. b[n + 1] = m /\ (\A k \in 1 .. n : b[k] = src[k]) /\ n + 1 \in 1 .. n + 1
      BY <1>1, <2>2
    <2>4. \A k \in 1 .. n + 1 : k = n + 1 \/ k \in 1 .. n
      BY <1>1
    <2>5. b \in [1 .. n + 1 -> I \cap (1 .. m)]
      BY <1>1, <1>3, <1>6, <2>2, <2>4
    <2>6. \A k \in 1 .. n + 1 : a[k] = s[b[k]]
      BY <1>1, <2>1, <2>3, <2>4
    <2>7. \A k, l \in 1 .. n + 1 : k < l => b[k] < b[l]
      <3> TAKE k, l \in 1 .. n + 1
      <3>1. CASE l = n + 1 /\ k # l
        BY <1>1, <1>3, <2>3, <2>4, <3>1
      <3>2. CASE l # n + 1
        <4>1. l \in 1 .. n
          BY <2>4, <3>2
        <4>2. k < l => k \in 1 .. n
          BY <1>1, <4>1
        <4>q. QED
          BY <1>1, <2>3, <4>1, <4>2
      <3>3. k = l => ~(k < l)
        BY <1>1
      <3>q. QED
        BY <3>1, <3>2, <3>3
    <2>8. \A i \in I \cap (1 .. m) : \E k \in 1 .. n + 1 : b[k] = i
      <3> TAKE i \in I \cap (1 .. m)
      <3>1. CASE i = m
        BY <2>3, <3>1
      <3>2. CASE i \in old
        <4>1. PICK k \in 1 .. n : src[k] = i
          BY <1>1, <3>2
        <4>2. k \in 1 .. n + 1 /\ b[k] = i
          BY <1>1, <2>3, <4>1
        <4>q. QED
          BY <4>2
      <3>q. QED
        BY <1>4, <3>1, <3>2
    <2>9. IsPart(a, b, s, I, m)
      BY <2>1, <2>5, <2>6, <2>7, <2>8 DEF IsPart, S
    <2>10. IsPart(Append(r, s[m]), b, s, I, m)
      BY <2>9, Zenon DEF a
    <2>q. QED
      BY <2>10, Zenon
  <1>q. QED
    BY <1>5, <1>6

\* Induction up to n.
LEMMA UpTo ==
    ASSUME NEW n \in Nat, NEW G, 0 \in G, \A m \in 1 .. n : m - 1 \in G => m \in G
    PROVE  \A m \in 0 .. n : m \in G
  <1> DEFINE Bad == {m \in 0 .. n : m \notin G}
  <1> SUFFICES ASSUME Bad # {} PROVE FALSE
    OBVIOUS
  <1>1. Bad \subseteq Nat
    OBVIOUS
  <1> HIDE DEF Bad
  <1>2. PICK m \in Bad : \A j \in Bad : m <= j
    BY <1>1, LeastMember
  <1>3. m \in 0 .. n /\ m \notin G /\ m # 0
    BY <1>2 DEF Bad
  <1>4. m \in 1 .. n /\ m - 1 \in 0 .. n /\ ~(m <= m - 1)
    BY <1>3
  <1>5. m - 1 \in G
    BY <1>2, <1>4 DEF Bad
  <1>q. QED
    BY <1>3, <1>4, <1>5

\* Part gives the elements at the positions asked for, in their order.
LEMMA PartIs ==
    ASSUME NEW S, NEW s \in Seq(S), NEW I \in SUBSET (1 .. Len(s))
    PROVE  \E src : IsPart(Part(s, I), src, s, I, Len(s))
  <1> DEFINE n == Len(s)
             upto[i \in 0 .. n] ==
               IF i = 0 THEN <<>> ELSE IF i \in I THEN Append(upto[i - 1], s[i]) ELSE upto[i - 1]
             Steps(f, m) ==
               f = [i \in 0 .. m |->
                      IF i = 0 THEN <<>> ELSE IF i \in I THEN Append(f[i - 1], s[i]) ELSE f[i - 1]]
             Defined == {m \in 0 .. n : \E f : Steps(f, m)}
             Right == {m \in 0 .. n : \E src : IsPart(upto[m], src, s, I, m)}
  <1>1. n \in Nat
    OBVIOUS
  <1>2. 0 \in Defined
    <2>1. PICK f : f = [i \in 0 .. 0 |-> <<>>]
      OBVIOUS
    <2>2. Steps(f, 0)
      BY <2>1
    <2>q. QED
      BY <1>1, <2>2
  <1>3. ASSUME NEW m \in 1 .. n, m - 1 \in Defined PROVE m \in Defined
    <2>1. PICK f : Steps(f, m - 1)
      BY <1>3
    <2>2. PICK g : g = [i \in 0 .. m |-> IF i < m THEN f[i]
                         ELSE IF m \in I THEN Append(f[m - 1], s[m]) ELSE f[m - 1]]
      OBVIOUS
    <2>3. /\ \A i \in 0 .. m - 1 : g[i] = f[i]
          /\ g[m] = IF m \in I THEN Append(f[m - 1], s[m]) ELSE f[m - 1]
      BY <1>1, <2>2
    <2>4. ASSUME NEW i \in 0 .. m
          PROVE  g[i] = IF i = 0 THEN <<>> ELSE IF i \in I THEN Append(g[i - 1], s[i]) ELSE g[i - 1]
      <3>1. CASE i = m
        <4>1. m # 0 /\ m - 1 \in 0 .. m - 1
          BY <1>1
        <4>q. QED
          BY <2>3, <3>1, <4>1
      <3>2. CASE i # m
        <4>1. i \in 0 .. m - 1 /\ (i # 0 => i - 1 \in 0 .. m - 1)
          BY <1>1, <3>2
        <4>2. f[i] = IF i = 0 THEN <<>> ELSE IF i \in I THEN Append(f[i - 1], s[i]) ELSE f[i - 1]
          BY <2>1, <4>1
        <4>q. QED
          BY <2>3, <4>1, <4>2
      <3>q. QED
        BY <3>1, <3>2
    <2>5. g = [i \in 0 .. m |-> g[i]]
      BY <2>2
    <2>6. Steps(g, m)
      BY <2>4, <2>5
    <2>q. QED
      BY <1>1, <2>6
  <1>4. PICK f : Steps(f, n)
    <2> HIDE DEF Steps, n
    <2>1. n \in Defined
      <3> HIDE DEF Defined
      <3>1. n \in 0 .. n
        BY <1>1
      <3>q. QED
        BY <1>1, <1>2, <1>3, <3>1, UpTo
    <2>q. QED
      BY <2>1
  <1>5. Steps(upto, n)
    BY <1>4
  <1>6. /\ upto[0] = <<>>
        /\ \A m \in 1 .. n : upto[m] = IF m \in I THEN Append(upto[m - 1], s[m]) ELSE upto[m - 1]
    <2> HIDE DEF upto
    <2>1. \A m \in 0 .. n : upto[m] = IF m = 0 THEN <<>>
                                      ELSE IF m \in I THEN Append(upto[m - 1], s[m]) ELSE upto[m - 1]
      BY <1>5
    <2>2. 0 \in 0 .. n /\ \A m \in 1 .. n : m \in 0 .. n /\ m # 0
      BY <1>1
    <2>q. QED
      BY <2>1, <2>2
  <1>7. Part(s, I) = upto[n]
    BY DEF Part
  <1> HIDE DEF upto, Steps, Defined
  <1>8. 0 \in Right
    <2>1. PICK src : src = [k \in 1 .. 0 |-> 0]
      OBVIOUS
    <2>2. IsPart(<<>>, src, s, I, 0)
      BY <2>1 DEF IsPart
    <2>q. QED
      BY <1>1, <1>6, <2>2
  <1>9. ASSUME NEW m \in 1 .. n, m - 1 \in Right PROVE m \in Right
    <2>1. PICK src : IsPart(upto[m - 1], src, s, I, m - 1)
      BY <1>9
    <2>2. \E b : IsPart(upto[m], b, s, I, m)
      BY <1>1, <1>6, <2>1, PartGrows
    <2>q. QED
      BY <1>1, <2>2
  <1>10. n \in Right
    <2> HIDE DEF Right, n
    <2>1. n \in 0 .. n
      BY <1>1
    <2>q. QED
      BY <1>1, <1>8, <1>9, <2>1, UpTo
  <1>q. QED
    BY <1>7, <1>10

-----------------------------------------------------------------------------
\* UpdateGlv writes to addresses of variables the event defines.
LEMMA DefGlvDefines ==
    ASSUME NEW e \in Event, NEW a \in DefGlv(e)
    PROVE  \E v \in ToSet(Info[e].def) : Addr[v.name] = a
  <1> DEFINE I == {i \in 1 .. Len(Info[e].def) :
                     LET v == Info[e].def[i]
                     IN  v.type = "G" \/ (v.type = "P" /\ Addr[v.name] \in share)}
  <1>1. PICK i : /\ i = SelectInSeq(Info[e].def, LAMBDA v :
                             v.type = "G" \/ (v.type = "P" /\ Addr[v.name] \in share))
                 /\ i # 0 /\ a = Addr[Info[e].def[i].name]
    BY DEF DefGlv
  <1>2. i = IF I # {} THEN Min(I) ELSE 0
    BY <1>1 DEF SelectInSeq
  <1>3. Info[e].def \in Seq(Variable)
    BY ProgramAssumption DEF Message
  <1>4. I \subseteq Nat /\ I \subseteq DOMAIN Info[e].def
    BY <1>3
  <1> HIDE DEF I
  <1>5. I # {} /\ i = Min(I)
    BY <1>1, <1>2
  <1>6. i \in I
    BY <1>4, <1>5, LeastMember DEF Min
  <1>q. QED
    BY <1>1, <1>4, <1>6 DEF ToSet

LEMMA ThreadInit == Init => ThreadInv
  <1> SUFFICES ASSUME Init PROVE ThreadInv
    OBVIOUS
  <1>1. /\ kind = [p \in Node \X Node |-> {}] /\ nodes = {}
    BY DEF Init, V!Init
  <1>2. /\ order = [t \in Thread |-> <<>>] /\ thrcNode = [t \in Thread |-> NoNode]
        /\ thr = [t \in Thread |-> NoNode]
        /\ DOMAIN glv = {Addr[x] : x \in Name} /\ \A a \in DOMAIN glv : glv[a] = NoNode
    BY DEF Init
  <1>3. EdgeInv /\ OrderInv /\ ThrInv /\ GlvInv
    BY <1>1, <1>2 DEF EdgeInv, OrderInv, ThrInv, GlvInv
  <1>4. ThreadsApart /\ ThreadLinked
    BY <1>1, <1>2 DEF ThreadsApart, ThreadLinked
  <1>q. QED
    BY <1>1, <1>3, <1>4, TodoInit DEF ThreadInv

\* Steps that leave graph and tables as they are.
LEMMA SameGraph ==
    ASSUME ThreadInv, UNCHANGED <<tables, nodes, kind>>, mishap \subseteq mishap',
           TodoInv'
    PROVE  ThreadInv'
  <1> USE DEF ThreadInv, tables
  <1>1. kind' = [p \in Node \X Node |-> kind'[p]]
    OBVIOUS
  <1>2. EdgeInv' /\ OrderInv' /\ ThrInv' /\ GlvInv'
    BY DEF EdgeInv, OrderInv, ThrInv, GlvInv
  <1>3. ThreadsApart'
    BY DEF ThreadsApart
  <1>4. ThreadLinked'
    BY DEF ThreadLinked
  <1>q. QED
    BY <1>1, <1>2, <1>3, <1>4
-----------------------------------------------------------------------------
\* Where an edge from another thread into a new node can come from.
LEMMA InEdgesApart ==
    ASSUME NEW t \in Thread, NEW e \in Event, NEW thrs, NEW glvs,
           NEW p, NEW k, <<p, k>> \in InEdges(t, e, thrs, glvs), p[2] # t
    PROVE  \/ order[t] = <<>> /\ thrs[t] # NoNode /\ p = thrs[t] /\ k = "THRC"
           \/ order[t] # <<>> /\ p = thrcNode[t] /\ k = "TDIF"
           \/ /\ order[t] # <<>> /\ k = "DIF"
              /\ \E x \in Names(Info[e].use) :
                   Addr[x] # 0 /\ p = glvs[Addr[x]] /\ p # NoNode
  <1>1. CASE ~OldFunc(t, e)
    <2>1. CASE order[t] # <<>>
      <3>1. <<p, k>> \in AddCallEdge(t)
        BY <1>1, <2>1 DEF InEdges
      <3>q. QED
        BY <3>1 DEF AddCallEdge
    <2>2. CASE order[t] = <<>>
      <3>1. <<p, k>> \in AddThreadEdge(t, thrs)
        BY <1>1, <2>2 DEF InEdges
      <3>q. QED
        BY <2>2, <3>1 DEF AddThreadEdge
    <2>q. QED
      BY <2>1, <2>2
  <1>2. CASE OldFunc(t, e)
    <2>1. order[t] # <<>>
      BY <1>2 DEF OldFunc
    <2>2. CASE <<p, k>> \in LocalEdges(t, e)
      <3>1. <<p, k>> \in AddSharePropagateEdge(t, e)
        BY <2>2 DEF LocalEdges
      <3>q. QED
        BY <2>1, <3>1 DEF AddSharePropagateEdge
    <2>3. CASE <<p, k>> \in AddGlvAccessEdge(t, e, glvs)
      BY <2>1, <2>3 DEF AddGlvAccessEdge
    <2>4. p # <<Last(FuncList(t, e)), t>>
      OBVIOUS
    <2>5. <<p, k>> \notin AddRetEdge(t)
      BY DEF AddRetEdge
    <2>6. <<p, k>> \in LocalEdges(t, e) \cup AddGlvAccessEdge(t, e, glvs)
      BY <1>2, <2>4, <2>5 DEF InEdges
    <2>q. QED
      BY <2>2, <2>3, <2>6
  <1>q. QED
    BY <1>1, <1>2

\* What the step of DifEngine leaves in the tables.
LEMMA TablesKept ==
    ASSUME ThreadInv, NEW t \in Thread, NEW e \in Event, DifEngine(t, e)
    PROVE  OrderInv' /\ ThrInv' /\ GlvInv'
  <1> USE DEF ThreadInv
  <1> DEFINE n == <<e, t>>
  <1>1. n \in Node /\ nodes' = nodes \cup {n}
    BY DEF DifEngine, Node
  <1>2. OrderInv'
    <2>1. order' = [order EXCEPT ![t] = Append(@, e)]
      BY DEF DifEngine, InsertNode2Graph, AddNode
    <2>2. thrcNode' = IF order[t] = <<>> /\ thr'[t] # NoNode
                      THEN [thrcNode EXCEPT ![t] = thr'[t]] ELSE thrcNode
      BY DEF DifEngine, InsertNode2Graph
    <2>3. order[t] \in Seq(Event) /\ order'[t] = Append(order[t], e)
      BY <2>1 DEF OrderInv
    <2>4. order'[t] # <<>> /\ order'[t] \in Seq(Event)
      BY <2>3
    <2>q. QED
      BY <2>1, <2>2, <2>4 DEF OrderInv
  <1>3. ThrInv'
    <2>1. (Info[e].type = "THRC") = (child[t] # NoThread)
      BY TraceTodo DEF DifEngine
    <2>2. thr' = IF Info[e].type = "THRC" THEN [thr EXCEPT ![child[t]] = n] ELSE thr
      BY DEF DifEngine, UpdateThrEvent
    <2>3. Info[e].type = "THRC" => child[t] \in Thread
      BY <2>1 DEF TodoInv
    <2>q. QED
      BY <1>1, <2>2, <2>3 DEF ThrInv
  <1>4. GlvInv'
    <2>1. glv' = [a \in DOMAIN glv |-> IF a \in DefGlv(e) THEN n ELSE glv[a]]
      BY DEF DifEngine, UpdateGlv
    <2>q. QED
      BY <1>1, <2>1, DefGlvDefines DEF GlvInv
  <1>q. QED
    BY <1>2, <1>3, <1>4

\* And in the edges.
LEMMA EdgesKept ==
    ASSUME ThreadInv, NEW t \in Thread, NEW e \in Event, DifEngine(t, e)
    PROVE  /\ kind' = [p \in Node \X Node |-> kind'[p]]
           /\ EdgeInv' /\ ThreadsApart' /\ ThreadLinked'
  <1> USE DEF ThreadInv
  <1> DEFINE n  == <<e, t>>
             In == InEdges(t, e, thr', glv')
             To == OutEdges(t, e)
  <1>1. n \in Node /\ nodes' = nodes \cup {n} /\ n \notin nodes
    BY DEF DifEngine, Node
  <1>2. kind' = [p \in Node \X Node |->
                  IF p[2] = n THEN kind[p] \cup {k \in V!EdgeKind : <<p[1], k>> \in In}
                  ELSE IF p[1] = n /\ p[2][2] = t /\ Contains(To, p[2][1])
                  THEN kind[p] \cup OutKind(t, e, p[2][1])
                  ELSE kind[p]]
    BY DEF DifEngine, InsertNode2Graph, AddDifEdge
  <1>3. OrderInv' /\ ThrInv' /\ GlvInv'
    BY TablesKept
  <1>4. thrcNode' = IF order[t] = <<>> /\ thr'[t] # NoNode
                    THEN [thrcNode EXCEPT ![t] = thr'[t]] ELSE thrcNode
    BY DEF DifEngine, InsertNode2Graph
  <1> HIDE DEF In, To
  <1>5. ASSUME NEW p \in Node \X Node PROVE kind[p] \subseteq kind'[p]
    BY <1>2, <1>5
  <1>6. ASSUME NEW p \in Node \X Node, p[1][2] # p[2][2], p[2] # n
        PROVE  kind'[p] = kind[p]
    BY <1>2, <1>6
  <1>7. ASSUME NEW p \in Node \X Node, p[1][2] # p[2][2], p[2] = n
        PROVE  kind'[p] = {k \in V!EdgeKind : <<p[1], k>> \in In}
    <2>1. kind[p] = {}
      BY <1>1, <1>7 DEF EdgeInv
    <2>q. QED
      BY <1>2, <1>7, <2>1
  <1>8. EdgeInv'
    BY <1>1, <1>6 DEF EdgeInv
  <1>9. ThreadsApart'
    <2> SUFFICES ASSUME NEW p \in Node \X Node, kind'[p] # {}, p[1][2] # p[2][2]
                 PROVE  \/ kind'[p] \subseteq {"THRC", "TDIF"} /\ p[1] = thrcNode'[p[2][2]]
                        \/ kind'[p] \subseteq {"DIF", "THRC", "TDIF"}
                           /\ \E v \in ToSet(Info[p[1][1]].def) :
                                Addr[v.name] \in {Addr[x] : x \in Names(Info[p[2][1]].use)} \ {0}
      BY DEF ThreadsApart, Names
    <2>1. CASE p[2] # n
      <3>1. kind'[p] = kind[p]
        BY <1>6, <2>1
      <3>2. p[1] # NoNode /\ p[2][2] \in Thread
        BY ProgramAssumption DEF Node
      <3>3. thrcNode[p[2][2]] # NoNode => thrcNode'[p[2][2]] = thrcNode[p[2][2]]
        BY <1>4, <3>2 DEF OrderInv
      <3>q. QED
        BY <3>1, <3>2, <3>3 DEF ThreadsApart
    <2>2. CASE p[2] = n
      <3>1. \A k \in kind'[p] : <<p[1], k>> \in In
        BY <1>7, <2>2
      <3>2. p[1][2] # t /\ p[2][1] = e /\ p[2][2] = t /\ p[1] # NoNode
        BY <2>2, ProgramAssumption
      <3>3. \A k \in kind'[p] :
               \/ order[t] = <<>> /\ thr'[t] # NoNode /\ p[1] = thr'[t] /\ k = "THRC"
               \/ order[t] # <<>> /\ p[1] = thrcNode[t] /\ k = "TDIF"
               \/ /\ order[t] # <<>> /\ k = "DIF"
                  /\ \E x \in Names(Info[e].use) : Addr[x] # 0 /\ p[1] = glv'[Addr[x]]
        <4> SUFFICES ASSUME NEW k \in kind'[p]
                     PROVE  \/ /\ order[t] = <<>> /\ thr'[t] # NoNode
                               /\ p[1] = thr'[t] /\ k = "THRC"
                            \/ order[t] # <<>> /\ p[1] = thrcNode[t] /\ k = "TDIF"
                            \/ /\ order[t] # <<>> /\ k = "DIF"
                               /\ \E x \in Names(Info[e].use) : Addr[x] # 0 /\ p[1] = glv'[Addr[x]]
          OBVIOUS
        <4>1. <<p[1], k>> \in InEdges(t, e, thr', glv')
          BY <3>1 DEF In
        <4>q. QED
          BY <3>2, <4>1, InEdgesApart
      <3>4. CASE order[t] = <<>>
        <4>1. kind'[p] \subseteq {"THRC"} /\ thr'[t] # NoNode /\ p[1] = thr'[t]
          BY <3>3, <3>4
        <4>2. thrcNode'[t] = thr'[t]
          BY <1>4, <3>4, <4>1 DEF OrderInv
        <4>q. QED
          BY <3>2, <4>1, <4>2
      <3>5. CASE order[t] # <<>> /\ "DIF" \in kind'[p]
        <4>1. kind'[p] \subseteq {"DIF", "TDIF"}
          BY <3>3, <3>5
        <4>2. PICK x \in Names(Info[e].use) : Addr[x] # 0 /\ p[1] = glv'[Addr[x]]
          BY <3>3, <3>5
        <4>3. Addr[x] \in DOMAIN glv'
          <5>1. x \in Name
            <6>1. Info[e].use \in Seq(Variable)
              BY ProgramAssumption DEF Message
            <6>2. PICK v \in ToSet(Info[e].use) : x = v.name
              BY <4>2 DEF Names
            <6>3. v \in Variable
              BY <6>1, <6>2 DEF ToSet
            <6>q. QED
              BY <6>2, <6>3 DEF Variable
          <5>q. QED
            BY <1>3, <5>1 DEF GlvInv
        <4>4. \E v \in ToSet(Info[p[1][1]].def) : Addr[v.name] = Addr[x]
          BY <1>3, <3>2, <4>2, <4>3 DEF GlvInv
        <4>5. x \in Names(Info[p[2][1]].use) /\ Addr[x] # 0
          BY <3>2, <4>2
        <4>q. QED
          BY <4>1, <4>4, <4>5
      <3>6. CASE order[t] # <<>> /\ "DIF" \notin kind'[p]
        <4>1. kind'[p] \subseteq {"TDIF"} /\ p[1] = thrcNode[t]
          BY <3>3, <3>6
        <4>q. QED
          BY <1>4, <3>2, <3>6, <4>1
      <3>q. QED
        BY <3>4, <3>5, <3>6
    <2>q. QED
      BY <2>1, <2>2
  <1>10. ThreadLinked'
    <2> SUFFICES ASSUME "overtaken" \notin mishap',
                        NEW u \in Thread \ {Main}, order'[u] # <<>>
                 PROVE  \E m \in nodes' : /\ Info[m[1]].type = "THRC"
                                         /\ "THRC" \in kind'[<<m, <<Head(order'[u]), u>>>>]
      BY DEF ThreadLinked
    <2>1. mishap' = mishap \cup Mishaps(t, e, thr')
          /\ order' = [order EXCEPT ![t] = Append(@, e)]
      BY DEF DifEngine, InsertNode2Graph, AddNode
    <2>2. CASE order[u] # <<>>
      <3>1. order[u] \in Seq(Event) /\ u \in Thread
        BY DEF OrderInv
      <3>2. order'[u] = order[u] \/ order'[u] = Append(order[u], e)
        BY <2>1, <3>1 DEF OrderInv
      <3>3. Head(order'[u]) = Head(order[u]) /\ Head(order[u]) \in Event
        BY <2>2, <3>1, <3>2
      <3>4. "overtaken" \notin mishap
        BY <2>1
      <3>5. PICK m \in nodes : /\ Info[m[1]].type = "THRC"
                               /\ "THRC" \in kind[<<m, <<Head(order[u]), u>>>>]
        BY <2>2, <3>4 DEF ThreadLinked
      <3>q. QED
        <4>1. <<m, <<Head(order[u]), u>>>> \in Node \X Node
          BY <3>1, <3>3, <3>5 DEF EdgeInv, Node
        <4>q. QED
          BY <1>1, <1>5, <3>3, <3>5, <4>1
    <2>3. CASE order[u] = <<>>
      <3>1. u = t /\ Head(order'[u]) = e
        BY <2>1, <2>3 DEF OrderInv
      <3>2. thr'[t] # NoNode
        BY <2>1, <2>3, <3>1 DEF Mishaps
      <3>3. /\ thr'[t] \in nodes' /\ thr'[t] \in Node
            /\ Info[thr'[t][1]].type = "THRC"
        BY <1>3, <3>2 DEF ThrInv
      <3>4. <<thr'[t], "THRC">> \in In
        <4>1. ~OldFunc(t, e)
          BY <2>3, <3>1 DEF OldFunc
        <4>q. QED
          BY <2>3, <3>1, <3>2, <4>1 DEF In, InEdges, AddThreadEdge
      <3>5. "THRC" \in V!EdgeKind
        BY DEF V!EdgeKind
      <3>6. "THRC" \in kind'[<<thr'[t], n>>]
        BY <1>1, <1>2, <3>3, <3>4, <3>5
      <3>q. QED
        BY <3>1, <3>3, <3>6
    <2>q. QED
      BY <2>2, <2>3
  <1>q. QED
    BY <1>2, <1>8, <1>9, <1>10

\* The visit follows edges and adds none.
LEMMA VisitLeavesGraph == ASSUME VisitDifg PROVE UNCHANGED <<program, tables, nodes, kind>>
  <1>1. UNCHANGED <<nodes, kind>>
    BY DEF VisitDifg, InvokePlugins, V!DataEdge, V!ProcSource, V!BeginPass, V!PassEdge,
           V!ReturnEdge, V!NextNode, V!EndPass, V!graph
  <1>q. QED
    BY <1>1 DEF VisitDifg

LEMMA ThreadStep == ThreadInv /\ [Next]_vars => ThreadInv'
  <1> SUFFICES ASSUME ThreadInv, [Next]_vars PROVE ThreadInv'
    OBVIOUS
  <1>0. TodoInv'
    BY TodoStep DEF ThreadInv
  <1>1. ASSUME NEW t \in Thread, NEW u \in Thread, Execute(t) \/ Create(t, u) PROVE ThreadInv'
    <2>1. UNCHANGED <<tables, nodes, kind>> /\ mishap \subseteq mishap'
      BY <1>1 DEF Execute, Create, Instruction, visit
    <2>q. QED
      BY <1>0, <2>1, SameGraph
  <1>2. ASSUME NEW t \in Thread, ThreadEnds(t) PROVE ThreadInv'
    BY <1>0, <1>2, SameGraph DEF ThreadEnds, visit
  <1>3. ASSUME NEW t \in Thread, NEW e \in Event, DifEngine(t, e) PROVE ThreadInv'
    BY <1>0, <1>3, TablesKept, EdgesKept DEF ThreadInv
  <1>4. ASSUME NEW t \in Thread, NEW e \in Event, Repeat(t, e) PROVE ThreadInv'
    <2>1. UNCHANGED <<tables, nodes, kind>> /\ mishap \subseteq mishap'
      BY <1>4 DEF Repeat, visit
    <2>q. QED
      BY <1>0, <2>1, SameGraph
  <1>5. CASE VisitDifg
    BY <1>0, <1>5, VisitLeavesGraph, SameGraph DEF program
  <1>6. CASE UNCHANGED vars
    BY <1>0, <1>6, SameGraph DEF vars, program, visit
  <1>q. QED
    BY <1>1, <1>2, <1>3, <1>4, <1>5, <1>6 DEF Next

\* For every program, number of threads and interleaving: InsertNode2Graph
\* joins two threads only by a creation or by an address, not 0, that one event
\* defines and the other uses, and the first
\* event of a thread hangs on its creation unless it was traced before that.
THEOREM ThreadsLinkedRight == Spec => []ThreadFlow
  <1>1. ThreadInv => ThreadFlow
    BY DEF ThreadInv, ThreadFlow
  <1>q. QED
    BY ThreadInit, ThreadStep, <1>1, PTL DEF Spec
-----------------------------------------------------------------------------
(***************************************************************************)
(* How the graph grows.  An event's node is new, the ends of its edges are *)
(* not, and no list names an edge twice: what the theorems about the visit *)
(* ask of the graph.                                                       *)
(***************************************************************************)
OwnTypes ==
    /\ due \subseteq Node
    /\ order \in [Thread -> Seq(Event)]
    /\ \A t \in Thread : ToSet(order[t]) = {e \in Event : <<e, t>> \in nodes}
    /\ thrcNode \in [Thread -> nodes \cup {NoNode}]
    /\ thr \in [Thread -> nodes \cup {NoNode}]
    /\ \A a \in DOMAIN glv : glv[a] \in nodes \cup {NoNode}
    /\ share \subseteq DOMAIN glv
    /\ engine \in {"run", "hung", "aborted"} /\ cur \in Thread

\* No thread creates itself, and every name has a row in glv.
GrowInv ==
    /\ OwnTypes /\ TodoInv
    /\ \A t \in Thread : child[t] # t
    /\ DOMAIN glv = {Addr[x] : x \in Name}
    /\ nodes \subseteq Node
    /\ kind \in [Node \X Node -> SUBSET V!EdgeKind]
    /\ out \in [Node -> Seq(Node)]
    /\ \A p \in Node \X Node : kind[p] # {} => {p[1], p[2]} \subseteq nodes

LEMMA PartFacts ==
    ASSUME NEW S, NEW s \in Seq(S), NEW I \in SUBSET (1 .. Len(s))
    PROVE  /\ Part(s, I) \in Seq(S)
           /\ ToSet(Part(s, I)) \subseteq {s[i] : i \in I}
           /\ I # {} => Part(s, I) # <<>>
           /\ (\A i, j \in I : s[i] = s[j] => i = j) =>
                \A k, l \in 1 .. Len(Part(s, I)) : Part(s, I)[k] = Part(s, I)[l] => k = l
  <1> DEFINE r == Part(s, I)
  <1>1. PICK src : IsPart(r, src, s, I, Len(s))
    BY PartIs
  <1> HIDE DEF r
  <1>2. /\ r \in Seq({s[i] : i \in 1 .. Len(s)})
        /\ \A k \in 1 .. Len(r) : src[k] \in I /\ r[k] = s[src[k]]
        /\ \A k, l \in 1 .. Len(r) : k < l => src[k] < src[l]
        /\ \A i \in I : \E k \in 1 .. Len(r) : src[k] = i
    BY <1>1 DEF IsPart
  <1>3. r \in Seq(S)
    <2>1. {s[i] : i \in 1 .. Len(s)} \subseteq S
      OBVIOUS
    <2>q. QED
      BY <1>2, <2>1
  <1>4. ToSet(r) \subseteq {s[i] : i \in I}
    <2>1. DOMAIN r = 1 .. Len(r)
      BY <1>3
    <2>2. \A k \in DOMAIN r : r[k] \in {s[i] : i \in I}
      BY <1>2, <2>1
    <2>q. QED
      BY <2>2 DEF ToSet
  <1>5. I # {} => r # <<>>
    <2>1. ASSUME r = <<>> PROVE 1 .. Len(r) = {}
      BY <2>1
    <2>q. QED
      BY <1>2, <2>1
  <1>6. ASSUME \A i, j \in I : s[i] = s[j] => i = j,
               NEW k \in 1 .. Len(r), NEW l \in 1 .. Len(r), r[k] = r[l]
        PROVE  k = l
    <2>1. src[k] \in I /\ src[l] \in I /\ r[k] = s[src[k]] /\ r[l] = s[src[l]]
      BY <1>2, <1>6
    <2>2. src[k] = src[l] /\ src[k] \in Nat /\ src[l] \in Nat
      <3>1. I \subseteq Nat
        OBVIOUS
      <3>2. s[src[k]] = s[src[l]]
        BY <1>6, <2>1
      <3>q. QED
        BY <1>6, <2>1, <3>1, <3>2
    <2>3. k \in Nat /\ l \in Nat /\ ~(src[k] < src[l]) /\ ~(src[l] < src[k])
      BY <1>3, <1>6, <2>2
    <2>q. QED
      BY <1>2, <1>6, <2>3
  <1>q. QED
    BY <1>3, <1>4, <1>5, <1>6 DEF r

\* The nodes of a function are nodes of its thread.
LEMMA FDifGFacts ==
    ASSUME GrowInv, NEW t \in Thread, NEW fn
    PROVE  /\ FDifG(fn, t) \in Seq(Event)
           /\ ToSet(FDifG(fn, t)) \subseteq ToSet(order[t])
           /\ (\E i \in 1 .. Len(order[t]) : Info[order[t][i]].fn = fn) => FDifG(fn, t) # <<>>
  <1> DEFINE I == {i \in 1 .. Len(order[t]) : Info[order[t][i]].fn = fn}
  <1>1. order[t] \in Seq(Event) /\ I \in SUBSET (1 .. Len(order[t]))
    BY DEF GrowInv, OwnTypes
  <1>2. FDifG(fn, t) = Part(order[t], I)
    BY DEF FDifG
  <1>3. {order[t][i] : i \in I} \subseteq ToSet(order[t])
    BY <1>1 DEF ToSet
  <1>4. (\E i \in 1 .. Len(order[t]) : Info[order[t][i]].fn = fn) => I # {}
    OBVIOUS
  <1> HIDE DEF I
  <1>q. QED
    BY <1>1, <1>2, <1>3, <1>4, PartFacts

LEMMA MemberIn ==
    ASSUME NEW S, NEW s \in Seq(S), NEW i \in 1 .. Len(s)
    PROVE  s[i] \in ToSet(s) /\ s[i] \in S
  BY DEF ToSet

LEMMA WiderSeq ==
    ASSUME NEW S, NEW T, NEW s \in Seq(S), S \subseteq T
    PROVE  s \in Seq(T)
  OBVIOUS

LEMMA AppendSet ==
    ASSUME NEW S, NEW s \in Seq(S), NEW x \in S
    PROVE  ToSet(Append(s, x)) = ToSet(s) \cup {x}
  <1>1. Append(s, x) \in Seq(S) /\ Len(Append(s, x)) = Len(s) + 1 /\ Len(s) \in Nat
    OBVIOUS
  <1>2. \A i \in 1 .. Len(s) : Append(s, x)[i] = s[i] /\ i \in 1 .. Len(s) + 1
    OBVIOUS
  <1>3. Append(s, x)[Len(s) + 1] = x /\ Len(s) + 1 \in 1 .. Len(s) + 1
    OBVIOUS
  <1>4. \A i \in 1 .. Len(s) + 1 : i \in 1 .. Len(s) \/ i = Len(s) + 1
    OBVIOUS
  <1>5. DOMAIN s = 1 .. Len(s) /\ DOMAIN Append(s, x) = 1 .. Len(s) + 1
    BY <1>1
  <1>q. QED
    BY <1>2, <1>3, <1>4, <1>5 DEF ToSet

LEMMA EndsIn ==
    ASSUME NEW S, NEW s \in Seq(S), s # <<>>
    PROVE  /\ Head(s) \in ToSet(s) /\ Last(s) \in ToSet(s) /\ Len(s) \in Nat \ {0}
           /\ Tail(s) \in Seq(S) /\ ToSet(Tail(s)) \subseteq ToSet(s)
  <1>1. Len(s) \in Nat \ {0} /\ 1 \in 1 .. Len(s) /\ Len(s) \in 1 .. Len(s)
    OBVIOUS
  <1>2. Head(s) = s[1] /\ Last(s) = s[Len(s)]
    BY DEF Last
  <1>3. Tail(s) \in Seq(S) /\ Len(Tail(s)) = Len(s) - 1 /\ \A i \in 1 .. Len(s) - 1 : Tail(s)[i] = s[i + 1]
    OBVIOUS
  <1>4. ToSet(Tail(s)) \subseteq ToSet(s)
    <2>1. \A i \in 1 .. Len(s) - 1 : i + 1 \in 1 .. Len(s)
      BY <1>1
    <2>2. \A i \in DOMAIN Tail(s) : i \in 1 .. Len(s) - 1
      BY <1>3
    <2>q. QED
      BY <1>3, <2>1, <2>2 DEF ToSet
  <1>q. QED
    BY <1>1, <1>2, <1>3, <1>4 DEF ToSet

\* What SelectInSeq finds is one of those it looks for.
LEMMA FirstOf ==
    ASSUME NEW n, NEW I \in SUBSET (1 .. n), I # {}
    PROVE  Min(I) \in I
  <1>1. I \subseteq Nat
    OBVIOUS
  <1>q. QED
    BY <1>1, LeastMember DEF Min

\* The events of a thread have nodes.
LEMMA ThreadNodes ==
    ASSUME GrowInv, NEW t \in Thread
    PROVE  /\ order[t] \in Seq(Event)
           /\ \A x \in ToSet(order[t]) : x \in Event /\ <<x, t>> \in nodes
           /\ \A x \in Event : <<x, t>> \in nodes => x \in ToSet(order[t])
  BY DEF GrowInv, OwnTypes

\* The function of the last event of a thread has events.
LEMMA LastFnFacts ==
    ASSUME GrowInv, NEW t \in Thread, order[t] # <<>>
    PROVE  FDifG(LastFn(t), t) # <<>> /\ Last(order[t]) \in ToSet(order[t])
  <1>1. order[t] \in Seq(Event)
    BY ThreadNodes
  <1>2. Len(order[t]) \in 1 .. Len(order[t]) /\ Last(order[t]) = order[t][Len(order[t])]
    BY <1>1, EndsIn DEF Last
  <1>3. \E i \in 1 .. Len(order[t]) : Info[order[t][i]].fn = LastFn(t)
    BY <1>2 DEF LastFn
  <1>q. QED
    BY <1>1, <1>3, FDifGFacts, EndsIn

\* Edges into a new node come from nodes of the graph.
LEMMA InFromGraph ==
    ASSUME GrowInv, NEW t \in Thread, NEW e \in Event, NEW thrs, NEW glvs,
           thrs[t] \in nodes \cup {NoNode},
           \A a \in DOMAIN glv : glvs[a] \in nodes \cup {NoNode, <<e, t>>},
           NEW p, NEW k, <<p, k>> \in InEdges(t, e, thrs, glvs)
    PROVE  p \in nodes
  <1>1. ASSUME NEW x \in ToSet(order[t]), p = <<x, t>> PROVE p \in nodes
    BY <1>1, ThreadNodes
  <1>2. CASE ~OldFunc(t, e)
    <2>1. CASE order[t] # <<>>
      <3>1. p = <<Head(FDifG(LastFn(t), t)), t>>
        BY <1>2, <2>1 DEF InEdges, AddCallEdge
      <3>2. Head(FDifG(LastFn(t), t)) \in ToSet(order[t])
        BY <2>1, LastFnFacts, FDifGFacts, EndsIn
      <3>q. QED
        BY <1>1, <3>1, <3>2
    <2>2. CASE order[t] = <<>>
      BY <1>2, <2>2 DEF InEdges, AddThreadEdge
    <2>q. QED
      BY <2>1, <2>2
  <1>3. CASE OldFunc(t, e)
    <2>1. order[t] # <<>> /\ FuncList(t, e) # <<>>
      BY <1>3, FDifGFacts DEF OldFunc, FuncList
    <2>2. FuncList(t, e) \in Seq(Event) /\ ToSet(FuncList(t, e)) \subseteq ToSet(order[t])
      BY FDifGFacts DEF FuncList
    <2>3. CASE <<p, k>> \in {<<<<Last(FuncList(t, e)), t>>, "CF">>}
      <3>1. Last(FuncList(t, e)) \in ToSet(order[t])
        BY <2>1, <2>2, EndsIn
      <3>q. QED
        BY <1>1, <2>3, <3>1
    <2>4. CASE <<p, k>> \in LocalEdges(t, e)
      <3>1. CASE \E x \in Definers(t, e) : p = <<x, t>>
        <4>1. Definers(t, e) \subseteq ToSet(order[t])
          <5>1. \A i \in 2 .. Len(FuncList(t, e)) : FuncList(t, e)[i] \in ToSet(order[t])
            <6>1. \A i \in 2 .. Len(FuncList(t, e)) : i \in 1 .. Len(FuncList(t, e))
              BY <2>2
            <6>q. QED
              BY <2>2, <6>1, MemberIn
          <5>q. QED
            BY <5>1 DEF Definers
        <4>q. QED
          BY <1>1, <3>1, <4>1
      <3>2. CASE \E x \in FormalUser(t, e) : p = <<x, t>>
        <4>1. FormalUser(t, e) \subseteq ToSet(order[t])
          <5> DEFINE f == Tail(FuncList(t, e))
          <5>1. f \in Seq(Event) /\ ToSet(f) \subseteq ToSet(order[t])
            BY <2>1, <2>2, EndsIn
          <5>2. \A i \in 1 .. Len(f) : f[i] \in ToSet(order[t])
            BY <5>1, MemberIn
          <5>3. LET i == SelectInSeq(f, LAMBDA x : Names(Info[x].use) \cap Names(Info[e].use) # {})
                IN  i = 0 \/ i \in 1 .. Len(f)
            <6> DEFINE I == {i \in 1 .. Len(f) : Names(Info[f[i]].use) \cap Names(Info[e].use) # {}}
            <6>1. I # {} => Min(I) \in 1 .. Len(f)
              BY FirstOf
            <6>q. QED
              BY <6>1 DEF SelectInSeq
          <5>q. QED
            BY <5>2, <5>3 DEF FormalUser
        <4>q. QED
          BY <1>1, <3>2, <4>1
      <3>3. CASE <<p, k>> \in AddSharePropagateEdge(t, e)
        BY <3>3 DEF AddSharePropagateEdge, GrowInv, OwnTypes
      <3>q. QED
        BY <2>4, <3>1, <3>2, <3>3 DEF LocalEdges
    <2>5. CASE Returns(t, e) /\ <<p, k>> \in AddRetEdge(t)
      BY <1>1, <2>1, <2>5, LastFnFacts DEF AddRetEdge
    <2>6. CASE <<p, k>> \in AddGlvAccessEdge(t, e, glvs)
      <3>1. PICK y \in Names(Info[e].use) :
                   p = glvs[Addr[y]] /\ glvs[Addr[y]] \notin {NoNode, <<e, t>>}
        BY <2>6 DEF AddGlvAccessEdge
      <3>2. Addr[y] \in DOMAIN glv
        <4>1. Info[e].use \in Seq(Variable)
          BY ProgramAssumption DEF Message
        <4>2. PICK v \in ToSet(Info[e].use) : y = v.name
          BY <3>1 DEF Names
        <4>3. v \in Variable
          BY <4>1, <4>2, MemberIn DEF ToSet
        <4>q. QED
          BY <4>2, <4>3 DEF GrowInv, Variable
      <3>q. QED
        BY <3>1, <3>2
    <2>q. QED
      BY <1>3, <2>3, <2>4, <2>5, <2>6 DEF InEdges
  <1>q. QED
    BY <1>2, <1>3

\* Edges out of a new node lead to nodes of its thread, and the list names none
\* of them twice.
LEMMA OutToGraph ==
    ASSUME GrowInv, NEW t \in Thread, NEW e \in Event
    PROVE  LET to == OutEdges(t, e)
           IN  /\ to \in Seq(ToSet(order[t]))
               /\ \A k, l \in 1 .. Len(to) : to[k] = to[l] => k = l
               /\ \A i \in 1 .. Len(to) : OutKind(t, e, to[i]) # {}
  <1> DEFINE S == ToSet(order[t])
             f == FDifG(LastFn(t), t)
             body == Tail(f)
             def == Info[e].def
             user(v) == SelectInSeq(body, LAMBDA p : v.name \in Names(Info[p].use))
             I == {i \in 1 .. Len(def) : def[i].type \in {"A", "P"} /\ user(def[i]) # 0}
             used == Part(def, I)
             refs == [i \in 1 .. Len(used) |-> body[user(used[i])]]
             second == IF refs = <<>> /\ Info[e].use # <<>> /\ body # <<>>
                       THEN <<Head(body)>> ELSE <<>>
             J == {i \in 1 .. Len(body) : Info[body[i]].use # <<>>}
             cross == IF Info[Head(f)].lang = Info[e].lang THEN <<>> ELSE Part(body, J)
             data == refs \o second \o cross
             all == <<Head(f)>> \o data
             K == {i \in 1 .. Len(all) : \A j \in 1 .. i - 1 : all[j] # all[i]}
  <1>1. CASE ~OldFunc(t, e) \/ ~Returns(t, e)
    <2>1. OutEdges(t, e) = <<>>
      BY <1>1 DEF OutEdges
    <2>q. QED
      BY <2>1
  <1>2. CASE OldFunc(t, e) /\ Returns(t, e)
    <2>1. order[t] # <<>> /\ f # <<>>
      BY <1>2, LastFnFacts DEF OldFunc
    <2>2. f \in Seq(S) /\ S \subseteq Event
      <3>1. f \in Seq(Event) /\ ToSet(f) \subseteq S
        BY FDifGFacts
      <3>2. S \subseteq Event
        BY ThreadNodes
      <3> HIDE DEF f, S
      <3>3. \A i \in 1 .. Len(f) : f[i] \in S
        BY <3>1, MemberIn
      <3>q. QED
        BY <3>1, <3>2, <3>3
    <2>3. def \in Seq(Variable)
      BY ProgramAssumption DEF Message
    <2>4. AddInterCfEdge(t, e) = [entry |-> Head(f), data |-> data]
      BY DEF AddInterCfEdge
    <2>5. OutEdges(t, e) = Part(all, K)
      <3> HIDE DEF f, data
      <3>1. AddInterCfEdge(t, e).entry = Head(f) /\ AddInterCfEdge(t, e).data = data
        BY <2>4
      <3>q. QED
        BY <1>2, <3>1 DEF OutEdges
    <2>6. Head(f) \in S /\ body \in Seq(S)
      <3> HIDE DEF f, S
      <3>q. QED
        BY <2>1, <2>2
    <2>7. refs \in Seq(S)
      <3>1. used \in Seq(Variable) /\ ToSet(used) \subseteq {def[i] : i \in I}
        <4>1. I \in SUBSET (1 .. Len(def))
          OBVIOUS
        <4> HIDE DEF def, I
        <4>q. QED
          BY <2>3, <4>1, PartFacts
      <3>2. ASSUME NEW i \in 1 .. Len(used) PROVE user(used[i]) \in 1 .. Len(body)
        <4>1. used[i] \in ToSet(used)
          <5> HIDE DEF used
          <5>q. QED
            BY <3>1, <3>2, MemberIn
        <4>2. PICK j \in I : used[i] = def[j]
          <5> HIDE DEF used, I, def
          <5>q. QED
            BY <3>1, <4>1
        <4>3. user(used[i]) # 0
          <5>1. user(def[j]) # 0
            BY <4>2
          <5> HIDE DEF used, def, user
          <5>q. QED
            BY <4>2, <5>1
        <4> DEFINE M == {k \in 1 .. Len(body) : used[i].name \in Names(Info[body[k]].use)}
        <4>4. user(used[i]) = IF M # {} THEN Min(M) ELSE 0
          BY DEF SelectInSeq
        <4>5. M # {} => Min(M) \in M
          <5>1. M \in SUBSET (1 .. Len(body))
            OBVIOUS
          <5> HIDE DEF M, body
          <5>q. QED
            BY <5>1, FirstOf
        <4>6. M # {} /\ M \subseteq 1 .. Len(body)
          BY <4>3, <4>4
        <4> HIDE DEF M, user, used, body
        <4>q. QED
          BY <4>4, <4>5, <4>6
      <3> HIDE DEF user, used, body, S
      <3>q. QED
        BY <2>6, <3>1, <3>2
    <2>8. second \in Seq(S) /\ cross \in Seq(S)
      <3>1. J \in SUBSET (1 .. Len(body))
        OBVIOUS
      <3> HIDE DEF body, J, S, refs, f
      <3>2. Part(body, J) \in Seq(S)
        BY <2>6, <3>1, PartFacts
      <3>q. QED
        BY <2>6, <3>2
    <2>9. data \in Seq(S) /\ all \in Seq(S)
      <3> HIDE DEF f, S, refs, second, cross
      <3>q. QED
        BY <2>6, <2>7, <2>8
    <2>10. \A i \in 1 .. Len(all) : all[i] = Head(f) \/ \E j \in 1 .. Len(data) : all[i] = data[j]
      <3> HIDE DEF f, S, data
      <3>q. QED
        BY <2>6, <2>9
    <2>11. K \in SUBSET (1 .. Len(all)) /\ \A i, j \in K : all[i] = all[j] => i = j
      <3> HIDE DEF all
      <3>q. QED
        OBVIOUS
    <2> HIDE DEF all, data, K, S, f
    <2>12. /\ Part(all, K) \in Seq(S)
           /\ \A k, l \in 1 .. Len(Part(all, K)) : Part(all, K)[k] = Part(all, K)[l] => k = l
      BY <2>9, <2>11, PartFacts
    <2>13. ASSUME NEW k \in 1 .. Len(Part(all, K)) PROVE OutKind(t, e, Part(all, K)[k]) # {}
      <3>1. Part(all, K)[k] \in {all[i] : i \in K}
        BY <2>9, <2>11, <2>12, PartFacts, MemberIn
      <3>2. PICK i \in 1 .. Len(all) : Part(all, K)[k] = all[i]
        BY <2>11, <3>1
      <3>3. all[i] = Head(f) \/ Contains(data, all[i])
        BY <2>10 DEF Contains
      <3>q. QED
        BY <2>4, <3>2, <3>3 DEF OutKind
    <2>q. QED
      BY <2>5, <2>12, <2>13 DEF S
  <1>q. QED
    BY <1>1, <1>2

\* The tables after the first event e of t: no row leads to a node that is not
\* in the graph, and the thread's own row is not e, because a thread does not
\* create itself.
LEMMA TablesInGraph ==
    ASSUME GrowInv, NEW t \in Thread, NEW e \in Event, DifEngine(t, e)
    PROVE  /\ thr' \in [Thread -> nodes' \cup {NoNode}]
           /\ thr'[t] \in nodes \cup {NoNode}
           /\ DOMAIN glv' = DOMAIN glv
           /\ \A a \in DOMAIN glv : glv'[a] \in nodes \cup {NoNode, <<e, t>>}
           /\ thrcNode' \in [Thread -> nodes' \cup {NoNode}]
           /\ share' \subseteq DOMAIN glv
  <1>1. nodes' = nodes \cup {<<e, t>>}
    BY DEF DifEngine
  <1>2. /\ (Info[e].type = "THRC") = (child[t] # NoThread)
        /\ thr' = IF Info[e].type = "THRC" THEN [thr EXCEPT ![child[t]] = <<e, t>>] ELSE thr
    BY TraceTodo DEF DifEngine, UpdateThrEvent, GrowInv
  <1>3. /\ thr' \in [Thread -> nodes' \cup {NoNode}]
        /\ thr'[t] \in nodes \cup {NoNode}
    <2>1. thr \in [Thread -> nodes \cup {NoNode}] /\ child[t] \in Thread \cup {NoThread} /\ child[t] # t
      BY DEF GrowInv, OwnTypes, TodoInv
    <2>q. QED
      BY <1>1, <1>2, <2>1
  <1>4. /\ DOMAIN glv' = DOMAIN glv
        /\ \A a \in DOMAIN glv : glv'[a] \in nodes \cup {NoNode, <<e, t>>}
    <2>1. glv' = [a \in DOMAIN glv |-> IF a \in DefGlv(e) THEN <<e, t>> ELSE glv[a]]
      BY DEF DifEngine, UpdateGlv
    <2>2. \A a \in DOMAIN glv : glv[a] \in nodes \cup {NoNode}
      BY DEF GrowInv, OwnTypes
    <2>q. QED
      BY <2>1, <2>2
  <1>5. thrcNode' \in [Thread -> nodes' \cup {NoNode}]
    <2>1. thrcNode' = IF order[t] = <<>> /\ thr'[t] # NoNode
                      THEN [thrcNode EXCEPT ![t] = thr'[t]] ELSE thrcNode
      BY DEF DifEngine, InsertNode2Graph
    <2>2. thrcNode \in [Thread -> nodes \cup {NoNode}]
      BY DEF GrowInv, OwnTypes
    <2>q. QED
      BY <1>1, <1>3, <2>1, <2>2
  <1>6. share' \subseteq DOMAIN glv
    <2>1. share' = IF Info[e].type = "THRC" THEN share \cup {Addr[Head(Info[e].use).name]} ELSE share
      BY DEF DifEngine, UpdateShareVariable
    <2>2. ASSUME Info[e].type = "THRC" PROVE Addr[Head(Info[e].use).name] \in DOMAIN glv
      <3>1. Info[e].use \in Seq(Variable) /\ Len(Info[e].use) = 1
        BY <2>2, ProgramAssumption DEF Message
      <3>2. Head(Info[e].use) \in Variable
        BY <3>1
      <3>q. QED
        BY <3>2 DEF Variable, GrowInv
    <2>q. QED
      BY <2>1, <2>2 DEF GrowInv, OwnTypes
  <1>q. QED
    BY <1>3, <1>4, <1>5, <1>6

\* What DifEngine adds to the graph has the shape the visit relies on.
LEMMA DifEngineGrows ==
    ASSUME GrowInv, NEW t \in Thread, NEW e \in Event, DifEngine(t, e)
    PROVE  V!Grows(<<e, t>>) /\ V!Insert(<<e, t>>)
  <1>1. PICK n, in, to : n = <<e, t>> /\ in = InEdges(t, e, thr', glv') /\ to = OutEdges(t, e)
    OBVIOUS
  <1>2. /\ n \in Node /\ n[1] = e /\ n[2] = t /\ n \notin nodes
        /\ nodes' = nodes \cup {n} /\ nodes \subseteq Node
    BY <1>1 DEF DifEngine, Node, GrowInv
  <1>3. \A s, k : <<s, k>> \in in => s \in nodes
    BY <1>1, TablesInGraph, InFromGraph
  <1>4. /\ to \in Seq(Event)
        /\ \A k, l \in 1 .. Len(to) : to[k] = to[l] => k = l
        /\ \A i \in 1 .. Len(to) : <<to[i], t>> \in nodes /\ OutKind(t, e, to[i]) # {}
    <2>1. to \in Seq(ToSet(order[t]))
          /\ \A k, l \in 1 .. Len(to) : to[k] = to[l] => k = l
          /\ \A i \in 1 .. Len(to) : OutKind(t, e, to[i]) # {}
      BY <1>1, OutToGraph
    <2>2. \A x \in ToSet(order[t]) : x \in Event /\ <<x, t>> \in nodes
      BY ThreadNodes
    <2>3. \A i \in 1 .. Len(to) : to[i] \in ToSet(order[t])
      BY <2>1
    <2>4. to \in Seq(Event)
      BY <2>1, <2>2, WiderSeq
    <2>q. QED
      BY <2>1, <2>2, <2>3, <2>4
  <1>5. /\ kind' = [p \in Node \X Node |->
                      IF p[2] = n THEN kind[p] \cup {k \in V!EdgeKind : <<p[1], k>> \in in}
                      ELSE IF p[1] = n /\ p[2][2] = t /\ Contains(to, p[2][1])
                      THEN kind[p] \cup OutKind(t, e, p[2][1])
                      ELSE kind[p]]
        /\ out' = [s \in Node |->
                     IF s = n THEN [i \in 1 .. Len(to) |-> <<to[i], t>>]
                     ELSE IF \E k \in V!EdgeKind : <<s, k>> \in in
                     THEN Append(out[s], n) ELSE out[s]]
    BY <1>1 DEF DifEngine, InsertNode2Graph, AddDifEdge
  <1>6. /\ kind \in [Node \X Node -> SUBSET V!EdgeKind]
        /\ out \in [Node -> Seq(Node)]
        /\ \A p \in Node \X Node : kind[p] # {} => {p[1], p[2]} \subseteq nodes
    BY DEF GrowInv
  <1>7. \A x : OutKind(t, e, x) \subseteq V!EdgeKind
    BY DEF OutKind, V!EdgeKind
  <1> HIDE DEF Node
  <1>8. ASSUME NEW p \in Node \X Node
        PROVE  /\ kind'[p] \in SUBSET V!EdgeKind
               /\ kind'[p] = kind[p] \/ n \in {p[1], p[2]}
               /\ kind'[p] = {} \/ {p[1], p[2]} \subseteq nodes'
    <2>1. CASE p[2] = n
      BY <1>2, <1>3, <1>5, <1>6, <2>1
    <2>2. CASE p[2] # n /\ p[1] = n /\ p[2][2] = t /\ Contains(to, p[2][1])
      <3>1. p[2] \in nodes
        <4>1. p[2] = <<p[2][1], p[2][2]>>
          BY DEF Node
        <4>q. QED
          BY <1>4, <2>2, <4>1 DEF Contains
      <3>q. QED
        BY <1>2, <1>5, <1>6, <1>7, <2>2, <3>1
    <2>3. CASE p[2] # n /\ ~(p[1] = n /\ p[2][2] = t /\ Contains(to, p[2][1]))
      BY <1>2, <1>5, <1>6, <2>3
    <2>q. QED
      BY <2>1, <2>2, <2>3
  <1>9. kind' \in [Node \X Node -> SUBSET V!EdgeKind]
    BY <1>5, <1>8
  <1>10. \A s \in Node : kind[<<s, n>>] = {} /\ kind[<<n, s>>] = {}
    BY <1>2, <1>6
  <1>11. kind'[<<n, n>>] = {}
    <2>1. {k \in V!EdgeKind : <<n, k>> \in in} = {}
      BY <1>2, <1>3
    <2>2. kind'[<<n, n>>] = kind[<<n, n>>] \cup {k \in V!EdgeKind : <<n, k>> \in in}
      BY <1>2, <1>5
    <2>q. QED
      BY <1>2, <1>10, <2>1, <2>2
  <1>12. \A i \in 1 .. Len(to) : <<to[i], t>> \in Node
    BY <1>2, <1>4
  <1>13. out' \in [Node -> Seq(Node)]
    <2>1. [i \in 1 .. Len(to) |-> <<to[i], t>>] \in Seq(Node)
      BY <1>4, <1>12
    <2>q. QED
      BY <1>2, <1>5, <1>6, <2>1
  <1>14. ASSUME NEW s \in Node \ {n}
         PROVE  out'[s] = IF kind'[<<s, n>>] = {} THEN out[s] ELSE Append(out[s], n)
    <2>1. kind'[<<s, n>>] = {k \in V!EdgeKind : <<s, k>> \in in}
      BY <1>2, <1>5, <1>10
    <2>q. QED
      BY <1>5, <2>1
  <1>15. out'[n] = [i \in 1 .. Len(to) |-> <<to[i], t>>]
    BY <1>2, <1>5
  <1>16. V!Members(out'[n]) = {d \in Node : kind'[<<n, d>>] # {}}
    <2>1. V!Members(out'[n]) = {<<to[i], t>> : i \in 1 .. Len(to)}
      BY <1>4, <1>15 DEF V!Members
    <2>2. ASSUME NEW i \in 1 .. Len(to)
          PROVE  <<to[i], t>> \in Node /\ kind'[<<n, <<to[i], t>>>>] # {}
      <3>1. <<to[i], t>> \in Node /\ <<to[i], t>> # n
        BY <1>2, <1>4, <1>12
      <3>2. Contains(to, to[i])
        BY DEF Contains
      <3>3. kind'[<<n, <<to[i], t>>>>] = kind[<<n, <<to[i], t>>>>] \cup OutKind(t, e, to[i])
        BY <1>2, <1>5, <3>1, <3>2
      <3>q. QED
        BY <1>4, <3>1, <3>3
    <2>3. ASSUME NEW d \in Node, kind'[<<n, d>>] # {}
          PROVE  \E i \in 1 .. Len(to) : d = <<to[i], t>>
      <3>1. d # n
        BY <1>11, <2>3
      <3>2. d[2] = t /\ Contains(to, d[1])
        BY <1>2, <1>5, <1>10, <2>3, <3>1
      <3>3. d = <<d[1], d[2]>>
        BY DEF Node
      <3>q. QED
        BY <3>2, <3>3 DEF Contains
    <2>q. QED
      BY <2>1, <2>2, <2>3
  <1>17. \A i, j \in 1 .. Len(out'[n]) : out'[n][i] = out'[n][j] => i = j
    <2>1. Len(out'[n]) = Len(to)
      BY <1>4, <1>15
    <2>2. \A i \in 1 .. Len(to) : out'[n][i] = <<to[i], t>>
      BY <1>15
    <2>q. QED
      BY <1>4, <2>1, <2>2
  <1>18. sources' \in {sources, Append(sources, n)}
    BY <1>1 DEF DifEngine, AddSource
  <1>19. V!Grows(n)
    BY <1>2, <1>8, <1>9, <1>11, <1>13, <1>14, <1>16, <1>17, <1>18 DEF V!Grows
  <1>q. QED
    BY <1>1, <1>19 DEF DifEngine, TRC_trace, V!Insert

\* The steps after which the graph is what it was.
LEMMA SameGrowth ==
    ASSUME GrowInv, UNCHANGED <<tables, nodes, kind, out>>,
           TodoInv', \A t \in Thread : child'[t] # t,
           due' \subseteq Node, engine' \in {"run", "hung", "aborted"}, cur' \in Thread
    PROVE  GrowInv'
  BY DEF GrowInv, OwnTypes, tables

\* Tracing: the creation of a thread is over.
LEMMA TraceTypes ==
    ASSUME GrowInv, NEW t \in Thread, NEW e \in Event, TRC_trace(t, e)
    PROVE  /\ \A u \in Thread : child'[u] # u
           /\ due' \subseteq Node /\ cur' \in Thread
  <1>1. /\ NoThread \notin Thread /\ due \subseteq Node
        /\ child \in [Thread -> Thread \cup {NoThread}] /\ \A u \in Thread : child[u] # u
    BY ProgramAssumption DEF GrowInv, OwnTypes, TodoInv
  <1>2. child' = [child EXCEPT ![t] = NoThread] /\ cur' = t /\ due' = due
    BY DEF TRC_trace
  <1>q. QED
    BY <1>1, <1>2

LEMMA GrowInit == Init => GrowInv
  <1> SUFFICES ASSUME Init PROVE GrowInv
    OBVIOUS
  <1>1. /\ kind = [p \in Node \X Node |-> {}] /\ nodes = {} /\ out = [n \in Node |-> <<>>]
    BY DEF Init, V!Init
  <1>2. /\ order = [t \in Thread |-> <<>>] /\ thrcNode = [t \in Thread |-> NoNode]
        /\ thr = [t \in Thread |-> NoNode] /\ child = [t \in Thread |-> NoThread]
        /\ glv = [a \in {Addr[x] : x \in Name} |-> NoNode]
        /\ share = {} /\ due = {} /\ engine = "run" /\ cur = Main
    BY DEF Init
  <1>3. Main \in Thread /\ NoThread \notin Thread
    BY ProgramAssumption
  <1>4. ToSet(<<>>) = {}
    BY DEF ToSet
  <1>5. OwnTypes
    BY <1>1, <1>2, <1>3, <1>4 DEF OwnTypes
  <1>q. QED
    BY <1>1, <1>2, <1>3, <1>5, TodoInit DEF GrowInv

\* What an instruction of thread t leaves to the tables.
LEMMA InstructionGrowth ==
    ASSUME GrowInv, TodoInv', NEW t \in Thread, NEW q \in Succ(at[t]), Instruction(t, q),
           \A u \in Thread : child'[u] # u
    PROVE  GrowInv'
  <1>1. UNCHANGED <<tables, nodes, kind, out, engine, cur>>
    BY DEF Instruction, visit
  <1>2. EventOf[q] \in Event
    BY ProgramAssumption DEF Succ
  <1>3. due' \subseteq Node
    BY <1>2 DEF Instruction, Node, GrowInv, OwnTypes
  <1>q. QED
    BY <1>1, <1>3, SameGrowth DEF GrowInv, OwnTypes

LEMMA ExecuteGrowth ==
    ASSUME GrowInv, TodoInv', NEW t \in Thread, Execute(t)
    PROVE  GrowInv'
  <1>1. PICK q \in Succ(at[t]) : Instruction(t, q) /\ UNCHANGED child
    BY DEF Execute
  <1>q. QED
    BY <1>1, InstructionGrowth DEF GrowInv

\* A thread that creates another is not the one created: it is at a point.
LEMMA CreateGrowth ==
    ASSUME GrowInv, TodoInv', NEW t \in Thread, NEW u \in Thread, Create(t, u)
    PROVE  GrowInv'
  <1>1. PICK q \in Succ(at[t]) : /\ at[u] = NoPoint /\ Instruction(t, q)
                                /\ child' = [child EXCEPT ![t] = u]
    BY DEF Create
  <1>2. t # u
    BY <1>1, InstructionTodo, ProgramAssumption DEF GrowInv
  <1>3. \A v \in Thread : child'[v] # v
    BY <1>1, <1>2 DEF GrowInv, TodoInv
  <1>q. QED
    BY <1>1, <1>3, InstructionGrowth

LEMMA DifEngineGrowth ==
    ASSUME GrowInv, TodoInv', NEW t \in Thread, NEW e \in Event, DifEngine(t, e)
    PROVE  GrowInv'
  <1>1. /\ kind' \in [Node \X Node -> SUBSET V!EdgeKind] /\ out' \in [Node -> Seq(Node)]
        /\ \A p \in Node \X Node : kind'[p] = {} \/ {p[1], p[2]} \subseteq nodes'
        /\ nodes' = nodes \cup {<<e, t>>}
    BY DifEngineGrows DEF V!Grows
  <1>2. nodes' \subseteq Node
    BY <1>1 DEF GrowInv, Node
  <1>3. order' \in [Thread -> Seq(Event)]
        /\ \A u \in Thread : ToSet(order'[u]) = {x \in Event : <<x, u>> \in nodes'}
    <2>1. order' = [order EXCEPT ![t] = Append(@, e)]
      BY DEF DifEngine, InsertNode2Graph, AddNode
    <2>2. order \in [Thread -> Seq(Event)]
          /\ \A u \in Thread : ToSet(order[u]) = {x \in Event : <<x, u>> \in nodes}
      BY DEF GrowInv, OwnTypes
    <2>3. ASSUME NEW u \in Thread, u # t
          PROVE  ToSet(order'[u]) = {x \in Event : <<x, u>> \in nodes'}
      BY <1>1, <2>1, <2>2, <2>3
    <2>4. ToSet(order'[t]) = {x \in Event : <<x, t>> \in nodes'}
      <3>1. order'[t] = Append(order[t], e) /\ order[t] \in Seq(Event)
        BY <2>1, <2>2
      <3>2. ToSet(order'[t]) = ToSet(order[t]) \cup {e}
        BY <3>1, AppendSet
      <3>q. QED
        BY <1>1, <2>2, <3>2
    <2>q. QED
      BY <2>1, <2>2, <2>3, <2>4
  <1>4. /\ thr' \in [Thread -> nodes' \cup {NoNode}]
        /\ DOMAIN glv' = DOMAIN glv
        /\ \A a \in DOMAIN glv : glv'[a] \in nodes \cup {NoNode, <<e, t>>}
        /\ thrcNode' \in [Thread -> nodes' \cup {NoNode}]
        /\ share' \subseteq DOMAIN glv
    BY TablesInGraph
  <1>5. /\ \A u \in Thread : child'[u] # u
        /\ due' \subseteq Node /\ cur' \in Thread
    BY TraceTypes DEF DifEngine
  <1>6. engine' \in {"run", "hung", "aborted"}
    BY DEF DifEngine, GrowInv, OwnTypes
  <1>7. OwnTypes'
    BY <1>1, <1>3, <1>4, <1>5, <1>6 DEF OwnTypes
  <1>q. QED
    BY <1>1, <1>2, <1>4, <1>5, <1>7 DEF GrowInv

\* The visit walks the graph and leaves it alone.
LEMMA VisitOfGraph ==
    ASSUME VisitDifg
    PROVE  V!Visit /\ UNCHANGED <<program, tables, cur, nodes, kind, out>>
  <1>1. V!Visit
    BY DEF VisitDifg, InvokePlugins, V!Visit
  <1>2. UNCHANGED <<nodes, kind, out>>
    BY DEF VisitDifg, InvokePlugins, V!DataEdge, V!ProcSource, V!BeginPass, V!PassEdge,
           V!ReturnEdge, V!NextNode, V!EndPass, V!graph
  <1>q. QED
    BY <1>1, <1>2 DEF VisitDifg

LEMMA VisitGrowth ==
    ASSUME GrowInv, TodoInv', VisitDifg PROVE GrowInv'
  <1>1. UNCHANGED <<program, tables, cur, nodes, kind, out>>
    BY VisitOfGraph
  <1>2. engine' \in {"run", "hung", "aborted"}
    BY DEF VisitDifg, InvokePlugins, GetFuncName, GrowInv, OwnTypes
  <1>q. QED
    BY <1>1, <1>2, SameGrowth DEF GrowInv, OwnTypes, program

LEMMA GrowStep == GrowInv /\ [Next]_vars => GrowInv'
  <1> SUFFICES ASSUME GrowInv, [Next]_vars PROVE GrowInv'
    OBVIOUS
  <1>0. TodoInv'
    BY TodoStep DEF GrowInv
  <1>1. ASSUME NEW t \in Thread, NEW u \in Thread, Execute(t) \/ Create(t, u) PROVE GrowInv'
    BY <1>0, <1>1, ExecuteGrowth, CreateGrowth
  <1>2. ASSUME NEW t \in Thread, ThreadEnds(t) PROVE GrowInv'
    <2>1. UNCHANGED <<tables, nodes, kind, out, child, due, engine, cur>>
      BY <1>2 DEF ThreadEnds, visit
    <2>q. QED
      BY <1>0, <2>1, SameGrowth DEF GrowInv, OwnTypes
  <1>3. ASSUME NEW t \in Thread, NEW e \in Event, DifEngine(t, e) PROVE GrowInv'
    BY <1>0, <1>3, DifEngineGrowth
  <1>4. ASSUME NEW t \in Thread, NEW e \in Event, Repeat(t, e) PROVE GrowInv'
    <2>1. UNCHANGED <<tables, nodes, kind, out, engine>> /\ TRC_trace(t, e)
      BY <1>4 DEF Repeat, visit
    <2>2. engine' \in {"run", "hung", "aborted"}
      BY <2>1 DEF GrowInv, OwnTypes
    <2>q. QED
      BY <1>0, <2>1, <2>2, TraceTypes, SameGrowth
  <1>5. CASE VisitDifg
    BY <1>0, <1>5, VisitGrowth
  <1>6. CASE UNCHANGED vars
    BY <1>0, <1>6 DEF vars, program, tables, visit, GrowInv, OwnTypes
  <1>q. QED
    BY <1>1, <1>2, <1>3, <1>4, <1>5, <1>6 DEF Next

LEMMA GrowAlways == Spec => []GrowInv
  BY GrowInit, GrowStep, PTL DEF Spec

\* What the engine does with the events of a program, for every program, is one
\* of the ways VisitDifg lets a graph grow: a node per new event, edges between
\* it and nodes that are there, no edge twice in a list; and then its visit.
THEOREM DifGraphVisited == Spec => Visited
  <1>1. Init => V!Init
    BY DEF Init
  <1>2. ASSUME GrowInv, [Next]_vars
        PROVE  [V!Visit \/ \E n \in Node : V!Insert(n)]_V!vars
    <2>1. ASSUME UNCHANGED visit PROVE UNCHANGED V!vars
      BY <2>1 DEF visit, V!vars, V!graph, V!walk, V!found
    <2>2. ASSUME NEW t \in Thread, NEW e \in Event, DifEngine(t, e)
          PROVE  \E n \in Node : V!Insert(n)
      <3>1. <<e, t>> \in Node
        BY DEF Node
      <3>q. QED
        BY <1>2, <2>2, <3>1, DifEngineGrows
    <2>3. CASE VisitDifg
      BY <2>3, VisitOfGraph
    <2>q. QED
      BY <1>2, <2>1, <2>2, <2>3 DEF Next, Execute, Create, Instruction, ThreadEnds, Repeat, vars
  <1>q. QED
    BY <1>1, <1>2, GrowAlways, PTL DEF Spec, Visited, V!OpenSpec
-----------------------------------------------------------------------------
\* So the theorems about the visit are theorems about the engine.
VP == INSTANCE VisitDifgProofs WITH Kinds <- {{"DIF"}}, MaxEdges <- 0

LEMMA VisitedOpen == Spec => VP!OpenSpec
  <1>1. V!Init => VP!Init
    BY DEF V!Init, VP!Init
  <1>2. [V!Visit \/ \E n \in Node : V!Insert(n)]_V!vars =>
          [VP!Visit \/ \E n \in Node : VP!Insert(n)]_VP!vars
    <2>1. UNCHANGED V!vars => UNCHANGED VP!vars
      BY DEF V!vars, V!graph, V!walk, V!found, VP!vars, VP!graph, VP!walk, VP!found
    <2>2. V!Visit => VP!Visit
      BY DEF V!Visit, V!ProcSource, V!BeginPass, V!PassEdge, V!ReturnEdge, V!DataEdge,
             V!NextNode, V!EndPass, V!AtEdge, V!Src, V!Dst, V!Type, V!graph, V!walk, V!found,
             VP!Visit, VP!ProcSource, VP!BeginPass, VP!PassEdge, VP!ReturnEdge, VP!DataEdge,
             VP!NextNode, VP!EndPass, VP!AtEdge, VP!Src, VP!Dst, VP!Type, VP!graph, VP!walk,
             VP!found
    <2>3. ASSUME NEW n \in Node, V!Insert(n) PROVE VP!Insert(n)
      <3>1. V!EdgeKind = VP!EdgeKind /\ \A s : V!Members(s) = VP!Members(s)
        BY DEF V!EdgeKind, VP!EdgeKind, V!Members, VP!Members
      <3>2. VP!Grows(n)
        BY <2>3, <3>1 DEF V!Insert, V!Grows, VP!Grows
      <3>3. VP!BeginVisit
        BY <2>3 DEF V!Insert, V!BeginVisit, VP!BeginVisit, V!found, VP!found
      <3>q. QED
        BY <2>3, <3>2, <3>3 DEF V!Insert, VP!Insert
    <2>q. QED
      BY <2>1, <2>2, <2>3
  <1>q. QED
    BY <1>1, <1>2, DifGraphVisited, PTL DEF Visited, V!OpenSpec, VP!OpenSpec

\* The state of the engine and of the visit is well typed, for every program.
THEOREM DifGraphTypes == Spec => []TypeOK
  <1>1. VP!OpenSpec => []VP!TypeOK
    <2>1. {{"DIF"}} \subseteq SUBSET VP!EdgeKind /\ {} \notin {{"DIF"}} /\ 0 \in Nat
      BY DEF VP!EdgeKind
    <2>q. QED
      BY <2>1, VP!VisitTypes, PTL
  <1>2. GrowInv /\ VP!TypeOK => TypeOK
    BY DEF GrowInv, OwnTypes, TodoInv, TypeOK, VP!TypeOK, V!TypeOK, V!EdgeKind, VP!EdgeKind
  <1>q. QED
    BY <1>1, <1>2, VisitedOpen, GrowAlways, PTL

\* Over the graph that the events of any program give, the plugins see a node
\* once, and between visits everything is marked that data flows to from the
\* part of the cache that was covered.
THEOREM DifGraphVisits == Spec => [](V!InvokedOnce /\ V!CoveredExpanded)
  <1>0. {{"DIF"}} \subseteq SUBSET VP!EdgeKind /\ {} \notin {{"DIF"}} /\ 0 \in Nat
    BY DEF VP!EdgeKind
  <1>1. VP!OpenSpec => []VP!InvokedOnce
    BY <1>0, VP!PluginsInvokedOnce, PTL
  <1>2. VP!OpenSpec => []VP!CoveredExpanded
    BY <1>0, VP!VisitCovers, PTL
  <1>3. VP!InvokedOnce /\ VP!CoveredExpanded => V!InvokedOnce /\ V!CoveredExpanded
    BY DEF VP!InvokedOnce, VP!CoveredExpanded, VP!Flow, V!InvokedOnce, V!CoveredExpanded, V!Flow
  <1>q. QED
    BY <1>1, <1>2, <1>3, VisitedOpen, PTL

\* No node of that graph is marked unless data flows to it from a source: the
\* engine's work on a program implements TaintSpread.
THEOREM DifGraphSound == Spec => V!SoundTaint
  <1>0. {{"DIF"}} \subseteq SUBSET VP!EdgeKind /\ {} \notin {{"DIF"}} /\ 0 \in Nat
    BY DEF VP!EdgeKind
  <1>1. VP!OpenSpec => VP!SoundTaint
    BY <1>0, VP!VisitIsSound, PTL
  <1>2. VP!Taint!Init => V!Taint!Init
    BY DEF VP!Taint!Init, V!Taint!Init, VP!Flow, V!Flow, VP!Members, V!Members
  <1>3. [VP!Taint!Next]_VP!Taint!tvars => [V!Taint!Next]_V!Taint!tvars
    BY DEF VP!Taint!Next, VP!Taint!Grow, VP!Taint!Discover, VP!Taint!tvars, VP!Flow, VP!Members,
           V!Taint!Next, V!Taint!Grow, V!Taint!Discover, V!Taint!tvars, V!Flow, V!Members
  <1>q. QED
    BY <1>1, <1>2, <1>3, VisitedOpen, PTL
    DEF V!SoundTaint, VP!SoundTaint, V!Taint!Spec, VP!Taint!Spec
-----------------------------------------------------------------------------
(***************************************************************************)
(* Data inside a thread.  Definers runs back through the events of a       *)
(* function and ticks a use off where it meets a definition of it; what is *)
(* ticked off only grows on the way.                                       *)
(***************************************************************************)
Uses(e) == 1 .. Len(Info[e].use)

\* What IsNodeDD finds is a definition of a use that is not matched yet, and it
\* finds one if there is one.
LEMMA NodeDDFacts ==
    ASSUME NEW p \in Event, NEW e \in Event, NEW M
    PROVE  LET k == IsNodeDD(p, e, M)
           IN  /\ k # 0 => k \in Uses(e) \ M /\ Defines(p, Info[e].use[k].name)
               /\ k = 0 => \A u \in Uses(e) \ M : ~Defines(p, Info[e].use[u].name)
  <1> DEFINE def == Info[p].def
             use == Info[e].use
             pairs == {x \in (1 .. Len(def)) \X (1 .. Len(use)) :
                         /\ def[x[1]].type # "F" /\ x[2] \notin M
                         /\ def[x[1]].name = use[x[2]].name}
             Least(z) == \A y \in pairs : z[1] < y[1] \/ (z[1] = y[1] /\ z[2] <= y[2])
             first == CHOOSE x \in pairs : Least(x)
  <1>1. def \in Seq(Variable) /\ use \in Seq(Variable)
    BY ProgramAssumption DEF Message
  <1>2. IsNodeDD(p, e, M) = IF pairs = {} THEN 0 ELSE first[2]
    BY DEF IsNodeDD
  <1>3. ASSUME NEW x \in pairs
        PROVE  x[2] \in Uses(e) \ M /\ x[2] # 0 /\ Defines(p, use[x[2]].name)
    <2>1. /\ x[1] \in 1 .. Len(def) /\ x[2] \in 1 .. Len(use) /\ x[2] \notin M
          /\ def[x[1]].type # "F" /\ def[x[1]].name = use[x[2]].name
      OBVIOUS
    <2>2. def[x[1]] \in ToSet(def)
      <3> HIDE DEF def, pairs
      <3>q. QED
        BY <1>1, <2>1, MemberIn
    <2>3. Defines(p, use[x[2]].name)
      BY <2>1, <2>2, Zenon DEF Defines
    <2>q. QED
      BY <2>1, <2>3 DEF Uses
  <1>4. ASSUME NEW u \in Uses(e) \ M, Defines(p, use[u].name) PROVE pairs # {}
    <2>1. PICK v \in ToSet(def) : v.type # "F" /\ v.name = use[u].name
      BY <1>4 DEF Defines
    <2>2. PICK d \in 1 .. Len(def) : v = def[d]
      BY <1>1, <2>1 DEF ToSet
    <2>3. <<d, u>> \in pairs
      BY <2>1, <2>2, <1>4 DEF Uses
    <2>q. QED
      BY <2>3
  <1>5. ASSUME pairs # {} PROVE first \in pairs
    <2> DEFINE D == {x[1] : x \in pairs}
    <2>1. \A x \in pairs : x[1] \in Nat /\ x[2] \in Nat
      OBVIOUS
    <2> HIDE DEF pairs
    <2>2. D \subseteq Nat /\ D # {}
      BY <1>5, <2>1
    <2>3. PICK d \in D : \A c \in D : d <= c
      <3> HIDE DEF D
      <3>q. QED
        BY <2>2, LeastMember
    <2> DEFINE W == {x[2] : x \in {y \in pairs : y[1] = d}}
    <2>4. W \subseteq Nat /\ W # {}
      BY <2>1, <2>3
    <2>5. PICK w \in W : \A c \in W : w <= c
      <3> HIDE DEF W
      <3>q. QED
        BY <2>4, LeastMember
    <2>6. PICK x \in pairs : x[1] = d /\ x[2] = w
      BY <2>5
    <2>7. Least(x)
      <3> SUFFICES ASSUME NEW y \in pairs PROVE x[1] < y[1] \/ (x[1] = y[1] /\ x[2] <= y[2])
        OBVIOUS
      <3>1. x[1] <= y[1] /\ x[1] \in Nat /\ y[1] \in Nat
        BY <2>1, <2>3, <2>6
      <3>2. y[1] = d => w <= y[2]
        BY <2>5
      <3>q. QED
        BY <2>6, <3>1, <3>2
    <2>q. QED
      BY <2>6, <2>7
  <1> HIDE DEF pairs, first
  <1>q. QED
    BY <1>2, <1>3, <1>4, <1>5

\* Induction down from n + 1.
LEMMA DownTo ==
    ASSUME NEW n \in Nat, NEW G, n + 1 \in G, \A m \in 2 .. n : m + 1 \in G => m \in G
    PROVE  \A m \in 2 .. n + 1 : m \in G
  <1> DEFINE H == {d \in Nat : n + 1 - d \in 2 .. n + 1 => n + 1 - d \in G}
  <1>1. 0 \in H
    OBVIOUS
  <1>2. ASSUME NEW d \in 1 .. n, d - 1 \in H PROVE d \in H
    <2> SUFFICES ASSUME n + 1 - d \in 2 .. n + 1 PROVE n + 1 - d \in G
      OBVIOUS
    <2>1. n + 1 - (d - 1) \in 2 .. n + 1 /\ n + 1 - d \in 2 .. n
      OBVIOUS
    <2>2. n + 1 - (d - 1) = (n + 1 - d) + 1
      OBVIOUS
    <2>3. n + 1 - (d - 1) \in G
      BY <1>2, <2>1
    <2>q. QED
      BY <2>1, <2>2, <2>3
  <1>3. \A d \in 0 .. n : d \in H
    <2> HIDE DEF H
    <2>q. QED
      BY <1>1, <1>2, UpTo
  <1>4. ASSUME NEW m \in 2 .. n + 1 PROVE m \in G
    <2>1. n + 1 - m \in 0 .. n /\ n + 1 - (n + 1 - m) = m
      OBVIOUS
    <2>2. n + 1 - m \in H
      BY <1>3, <2>1
    <2>q. QED
      BY <2>1, <2>2
  <1>q. QED
    BY <1>4

\* What is matched before each event of f, looking back from the last.
Matching(m, f, e) ==
    \A i \in 2 .. Len(f) + 1 :
      m[i] = IF i > Len(f) THEN {} ELSE m[i + 1] \cup {IsNodeDD(f[i], e, m[i + 1])}

LEMMA DefinersMatch ==
    ASSUME GrowInv, NEW t \in Thread, NEW e \in Event
    PROVE  LET f == FuncList(t, e)
           IN  \E m : /\ Matching(m, f, e)
                      /\ Definers(t, e) = {f[i] : i \in {j \in 2 .. Len(f) :
                                              IsNodeDD(f[j], e, m[j + 1]) # 0}}
  <1> DEFINE f == FuncList(t, e)
             n == Len(f)
             body(g, i) == IF i > n THEN {} ELSE g[i + 1] \cup {IsNodeDD(f[i], e, g[i + 1])}
             Steps(g, k) == g = [i \in k .. n + 1 |-> body(g, i)]
             matched[i \in 2 .. n + 1] ==
               IF i > n THEN {}
               ELSE LET behind == matched[i + 1] IN behind \cup {IsNodeDD(f[i], e, behind)}
             Defined == {k \in Nat : \E g : Steps(g, k)}
  <1>1. n \in Nat
    BY FDifGFacts DEF FuncList
  <1>2. n + 1 \in Defined
    <2>1. PICK g : g = [i \in n + 1 .. n + 1 |-> {}]
      OBVIOUS
    <2>2. \A i \in n + 1 .. n + 1 : body(g, i) = {}
      <3> HIDE DEF n, f
      <3>q. QED
        BY <1>1
    <2>3. Steps(g, n + 1)
      <3> HIDE DEF n, f, body
      <3>q. QED
        BY <2>1, <2>2
    <2>q. QED
      BY <1>1, <2>3
  <1>3. ASSUME NEW k \in 2 .. n, k + 1 \in Defined PROVE k \in Defined
    <2>1. PICK g : Steps(g, k + 1)
      BY <1>3
    <2>2. PICK h : h = [i \in k .. n + 1 |-> IF i = k THEN body(g, k) ELSE g[i]]
      OBVIOUS
    <2>3. \A i \in k + 1 .. n + 1 : h[i] = g[i] /\ g[i] = body(g, i)
      <3> SUFFICES ASSUME NEW i \in k + 1 .. n + 1 PROVE h[i] = g[i] /\ g[i] = body(g, i)
        OBVIOUS
      <3>1. i # k /\ i \in k .. n + 1
        BY <1>1
      <3> HIDE DEF n, f, body
      <3>2. h[i] = g[i]
        BY <2>2, <3>1
      <3>3. g[i] = body(g, i)
        BY <2>1 DEF Steps
      <3>q. QED
        BY <3>2, <3>3
    <2>4. ASSUME NEW i \in k .. n + 1 PROVE h[i] = body(h, i)
      <3>1. CASE i > n
        <4>1. i \in k + 1 .. n + 1
          BY <1>1, <3>1
        <4>q. QED
          BY <2>3, <3>1, <4>1
      <3>2. CASE ~(i > n)
        <4>1. i + 1 \in k + 1 .. n + 1
          BY <1>1, <3>2
        <4>2. body(h, i) = body(g, i)
          BY <2>3, <4>1
        <4>3. i = k \/ i \in k + 1 .. n + 1
          BY <1>1
        <4> HIDE DEF n, f, body
        <4>q. QED
          BY <2>2, <2>3, <4>2, <4>3
      <3>q. QED
        BY <3>1, <3>2
    <2>5. Steps(h, k)
      <3> HIDE DEF n, f, body
      <3>q. QED
        BY <2>2, <2>4 DEF Steps
    <2>q. QED
      BY <1>1, <2>5
  <1>4. CASE n = 0
    <2>1. 2 .. n + 1 = {} /\ 2 .. n = {}
      BY <1>4
    <2>2. Matching(<<>>, f, e)
      BY <2>1 DEF Matching
    <2>3. Definers(t, e) = {}
      BY <2>1 DEF Definers
    <2>q. QED
      BY <2>1, <2>2, <2>3
  <1>5. CASE n # 0
    <2>1. 2 \in Defined
      <3> HIDE DEF Defined, n
      <3>1. 2 \in 2 .. n + 1
        BY <1>1, <1>5
      <3>q. QED
        BY <1>1, <1>2, <1>3, <3>1, DownTo
    <2>2. PICK g : Steps(g, 2)
      BY <2>1
    <2>3. Steps(matched, 2)
      BY <2>2
    <2>4. Matching(matched, f, e)
      <3> HIDE DEF matched
      <3>q. QED
        BY <2>3 DEF Matching
    <2>5. Definers(t, e) = {f[i] : i \in {j \in 2 .. n : IsNodeDD(f[j], e, matched[j + 1]) # 0}}
      BY DEF Definers
    <2> HIDE DEF matched
    <2>q. QED
      BY <2>4, <2>5
  <1>q. QED
    BY <1>4, <1>5

\* A definer of e gives it a use that those behind it define, if at all, for
\* another; and there is one if anything but the first event defines a use.
LEMMA DefinersFacts ==
    ASSUME GrowInv, NEW t \in Thread, NEW e \in Event
    PROVE  LET f == FuncList(t, e)
               D == Definers(t, e)
           IN  /\ \A p \in D : \E i \in 2 .. Len(f) : \E u \in Uses(e) :
                    /\ p = f[i] /\ Defines(p, Info[e].use[u].name)
                    /\ \A l \in i + 1 .. Len(f) : Defines(f[l], Info[e].use[u].name) =>
                         /\ f[l] \in D
                         /\ \E w \in Uses(e) : w # u /\ Defines(f[l], Info[e].use[w].name)
               /\ D = {} => \A i \in 2 .. Len(f) : \A u \in Uses(e) :
                              ~Defines(f[i], Info[e].use[u].name)
  <1> DEFINE f == FuncList(t, e)
             D == Definers(t, e)
             n == Len(f)
             use == Info[e].use
  <1>1. f \in Seq(Event) /\ n \in Nat /\ \A i \in 2 .. n : f[i] \in Event
    <2>1. f \in Seq(Event)
      BY FDifGFacts DEF FuncList
    <2> HIDE DEF f
    <2>q. QED
      BY <2>1
  <1>2. PICK m : /\ Matching(m, f, e)
                 /\ D = {f[i] : i \in {j \in 2 .. n : IsNodeDD(f[j], e, m[j + 1]) # 0}}
    BY DefinersMatch
  <1> HIDE DEF f, D
  <1> DEFINE dd(i) == IsNodeDD(f[i], e, m[i + 1])
  <1>3. /\ m[n + 1] = {} \/ n = 0
        /\ \A i \in 2 .. n : m[i] = m[i + 1] \cup {dd(i)}
    <2>1. n # 0 => n + 1 \in 2 .. n + 1 /\ n + 1 > n
      BY <1>1
    <2>2. \A i \in 2 .. n : i \in 2 .. n + 1 /\ ~(i > n)
      BY <1>1
    <2>q. QED
      BY <1>2, <2>1, <2>2 DEF Matching
  <1>4. ASSUME NEW i \in 2 .. n
        PROVE  /\ dd(i) # 0 => dd(i) \in Uses(e) \ m[i + 1] /\ Defines(f[i], use[dd(i)].name)
               /\ dd(i) = 0 => \A u \in Uses(e) \ m[i + 1] : ~Defines(f[i], use[u].name)
    BY <1>1, NodeDDFacts
  <1>5. ASSUME NEW k \in 2 .. n + 1 PROVE \A i \in 2 .. n + 1 : i <= k => m[k] \subseteq m[i]
    <2> DEFINE G == {i \in Nat : i <= k => m[k] \subseteq m[i]}
    <2>1. n + 1 \in G
      BY <1>1
    <2>2. ASSUME NEW i \in 2 .. n, i + 1 \in G PROVE i \in G
      <3>1. m[i + 1] \subseteq m[i]
        BY <1>3
      <3>2. i <= k => i = k \/ i + 1 <= k
        BY <1>1
      <3>q. QED
        BY <1>1, <2>2, <3>1, <3>2
    <2>3. \A i \in 2 .. n + 1 : i \in G
      <3> HIDE DEF G
      <3>q. QED
        BY <1>1, <2>1, <2>2, DownTo
    <2>q. QED
      BY <2>3
  <1>6. ASSUME NEW i \in 2 .. n, dd(i) # 0
        PROVE  /\ dd(i) \in Uses(e) /\ Defines(f[i], use[dd(i)].name)
               /\ \A l \in i + 1 .. n : Defines(f[l], use[dd(i)].name) =>
                    /\ f[l] \in D
                    /\ \E w \in Uses(e) : w # dd(i) /\ Defines(f[l], use[w].name)
    <2>1. dd(i) \in Uses(e) \ m[i + 1] /\ Defines(f[i], use[dd(i)].name)
      BY <1>4, <1>6
    <2>2. ASSUME NEW l \in i + 1 .. n, Defines(f[l], use[dd(i)].name)
          PROVE  f[l] \in D /\ \E w \in Uses(e) : w # dd(i) /\ Defines(f[l], use[w].name)
      <3>1. l \in 2 .. n /\ l \in 2 .. n + 1 /\ l + 1 \in 2 .. n + 1 /\ i + 1 \in 2 .. n + 1
            /\ i + 1 <= l /\ i + 1 <= l + 1
        BY <1>1
      <3>2. m[l + 1] \subseteq m[i + 1] /\ m[l] \subseteq m[i + 1]
        BY <1>5, <3>1
      <3>3. dd(l) # 0
        <4>1. dd(i) \in Uses(e) \ m[l + 1]
          BY <2>1, <3>2
        <4>q. QED
          BY <1>4, <2>2, <3>1, <4>1
      <3>4. dd(l) \in m[i + 1]
        BY <1>3, <3>1, <3>2
      <3>5. dd(l) # dd(i) /\ dd(l) \in Uses(e) /\ Defines(f[l], use[dd(l)].name)
        BY <1>4, <2>1, <3>1, <3>3, <3>4
      <3>6. f[l] \in D
        BY <1>2, <3>1, <3>3
      <3>q. QED
        BY <3>5, <3>6
    <2>q. QED
      BY <2>1, <2>2
  <1>7. ASSUME NEW p \in D
        PROVE  \E i \in 2 .. n : \E u \in Uses(e) :
                 /\ p = f[i] /\ Defines(p, use[u].name)
                 /\ \A l \in i + 1 .. n : Defines(f[l], use[u].name) =>
                      /\ f[l] \in D
                      /\ \E w \in Uses(e) : w # u /\ Defines(f[l], use[w].name)
    <2>1. PICK i \in 2 .. n : p = f[i] /\ dd(i) # 0
      BY <1>2
    <2> HIDE DEF dd
    <2>q. QED
      BY <1>6, <2>1
  <1>8. ASSUME D = {}, NEW i \in 2 .. n, NEW u \in Uses(e) PROVE ~Defines(f[i], use[u].name)
    <2>1. \A k \in 2 .. n : dd(k) = 0
      BY <1>2, <1>8
    <2> DEFINE G == {k \in Nat : m[k] \subseteq {0}}
    <2>2. n + 1 \in G
      BY <1>1, <1>3, <1>8
    <2>3. \A k \in 2 .. n : k + 1 \in G => k \in G
      BY <1>3, <2>1
    <2>4. \A k \in 2 .. n + 1 : k \in G
      <3> HIDE DEF G
      <3>q. QED
        BY <1>1, <2>2, <2>3, DownTo
    <2>5. i + 1 \in 2 .. n + 1 /\ u # 0
      BY <1>1 DEF Uses
    <2>6. u \in Uses(e) \ m[i + 1]
      BY <2>4, <2>5
    <2>q. QED
      BY <1>4, <2>1, <2>6
  <1>q. QED
    BY <1>7, <1>8 DEF f, D

\* The nodes of a function keep the order of the thread, and none is missing.
LEMMA FuncPlaces ==
    ASSUME GrowInv, NEW t \in Thread, NEW fn
    PROVE  LET f == FDifG(fn, t)
               s == order[t]
           IN  \E src :
                 /\ \A k \in 1 .. Len(f) :
                      src[k] \in 1 .. Len(s) /\ f[k] = s[src[k]] /\ Info[f[k]].fn = fn
                 /\ \A k, l \in 1 .. Len(f) : k < l => src[k] < src[l]
                 /\ \A i \in 1 .. Len(s) : Info[s[i]].fn = fn => \E k \in 1 .. Len(f) : src[k] = i
  <1> DEFINE s == order[t]
             I == {i \in 1 .. Len(s) : Info[s[i]].fn = fn}
             f == FDifG(fn, t)
  <1>1. s \in Seq(Event) /\ I \in SUBSET (1 .. Len(s)) /\ f = Part(s, I)
    BY ThreadNodes DEF FDifG
  <1>2. \A i \in I : i \in 1 .. Len(s) /\ Info[s[i]].fn = fn
    OBVIOUS
  <1>3. \A i \in 1 .. Len(s) : Info[s[i]].fn = fn => i \in I
    OBVIOUS
  <1> HIDE DEF s, I, f
  <1>4. PICK src : IsPart(f, src, s, I, Len(s))
    BY <1>1, PartIs
  <1>5. /\ src \in [1 .. Len(f) -> I \cap (1 .. Len(s))]
        /\ \A k \in 1 .. Len(f) : f[k] = s[src[k]]
        /\ \A k, l \in 1 .. Len(f) : k < l => src[k] < src[l]
        /\ \A i \in I \cap (1 .. Len(s)) : \E k \in 1 .. Len(f) : src[k] = i
    BY <1>4 DEF IsPart
  <1>6. \A k \in 1 .. Len(f) :
           src[k] \in 1 .. Len(s) /\ f[k] = s[src[k]] /\ Info[f[k]].fn = fn
    BY <1>2, <1>5
  <1>7. \A i \in 1 .. Len(s) : Info[s[i]].fn = fn => \E k \in 1 .. Len(f) : src[k] = i
    BY <1>3, <1>5
  <1>q. QED
    BY <1>5, <1>6, <1>7 DEF s, f

\* An event that is traced for the first time: the edges there were are as they
\* were, and those to it are what InEdges says.
LEMMA NewKinds ==
    ASSUME GrowInv, NEW t \in Thread, NEW e \in Event, DifEngine(t, e)
    PROVE  /\ order' = [order EXCEPT ![t] = Append(@, e)]
           /\ e \notin ToSet(order[t])
           /\ \A p, q \in nodes : kind'[<<p, q>>] = kind[<<p, q>>]
           /\ \A p \in nodes : \A k \in V!EdgeKind :
                k \in kind'[<<p, <<e, t>>>>] <=> <<p, k>> \in InEdges(t, e, thr', glv')
  <1> DEFINE n == <<e, t>>
             In == InEdges(t, e, thr', glv')
             To == OutEdges(t, e)
  <1>1. n \in Node /\ n \notin nodes /\ nodes \subseteq Node
    BY DEF DifEngine, Node, GrowInv
  <1>2. kind' = [p \in Node \X Node |->
                  IF p[2] = n THEN kind[p] \cup {k \in V!EdgeKind : <<p[1], k>> \in In}
                  ELSE IF p[1] = n /\ p[2][2] = t /\ Contains(To, p[2][1])
                  THEN kind[p] \cup OutKind(t, e, p[2][1])
                  ELSE kind[p]]
    BY DEF DifEngine, InsertNode2Graph, AddDifEdge
  <1>3. \A p \in Node \X Node : kind[p] # {} => {p[1], p[2]} \subseteq nodes
    BY DEF GrowInv
  <1> HIDE DEF In, To
  <1>4. order' = [order EXCEPT ![t] = Append(@, e)]
    BY DEF DifEngine, InsertNode2Graph, AddNode
  <1>5. e \notin ToSet(order[t])
    BY <1>1, ThreadNodes
  <1>6. ASSUME NEW p \in nodes, NEW q \in nodes PROVE kind'[<<p, q>>] = kind[<<p, q>>]
    <2>1. <<p, q>> \in Node \X Node /\ p # n /\ q # n
      BY <1>1
    <2>q. QED
      BY <1>2, <2>1
  <1>7. ASSUME NEW p \in nodes, NEW k \in V!EdgeKind
        PROVE  k \in kind'[<<p, n>>] <=> <<p, k>> \in In
    <2>1. <<p, n>> \in Node \X Node
      BY <1>1
    <2>2. kind[<<p, n>>] = {}
      BY <1>1, <1>3, <2>1
    <2>3. kind'[<<p, n>>] = kind[<<p, n>>] \cup {x \in V!EdgeKind : <<p, x>> \in In}
      BY <1>2, <2>1
    <2>q. QED
      BY <2>2, <2>3
  <1>q. QED
    BY <1>4, <1>5, <1>6, <1>7 DEF In

\* n is the row of an address that e uses.
AtAddress(e, glvs, n) ==
    \E x \in Names(Info[e].use) : Addr[x] # 0 /\ glvs[Addr[x]] = n /\ n # NoNode

\* Where data comes to a new event from inside its thread.
LEMMA LocalDif ==
    ASSUME NEW t \in Thread, NEW e \in Event, NEW thrs, NEW glvs, NEW p,
           <<<<p, t>>, "DIF">> \in InEdges(t, e, thrs, glvs)
    PROVE  /\ OldFunc(t, e)
           /\ \/ p \in Definers(t, e)
              \/ Definers(t, e) = {} /\ p \in FormalUser(t, e)
              \/ AtAddress(e, glvs, <<p, t>>)
  <1>1. OldFunc(t, e) /\ (\/ <<<<p, t>>, "DIF">> \in LocalEdges(t, e)
                         \/ <<<<p, t>>, "DIF">> \in AddGlvAccessEdge(t, e, glvs))
    BY DEF InEdges, AddCallEdge, AddThreadEdge, AddRetEdge
  <1>2. ASSUME <<<<p, t>>, "DIF">> \in LocalEdges(t, e)
        PROVE  p \in Definers(t, e) \/ (Definers(t, e) = {} /\ p \in FormalUser(t, e))
    <2>1. \A S : <<<<p, t>>, "DIF">> \in {<<<<x, t>>, "DIF">> : x \in S} => p \in S
      <3> TAKE S
      <3> HAVE <<<<p, t>>, "DIF">> \in {<<<<x, t>>, "DIF">> : x \in S}
      <3>1. PICK x \in S : <<<<p, t>>, "DIF">> = <<<<x, t>>, "DIF">>
        OBVIOUS
      <3>q. QED
        BY <3>1
    <2>2. <<<<p, t>>, "DIF">> \notin AddSharePropagateEdge(t, e)
      BY DEF AddSharePropagateEdge
    <2>q. QED
      BY <1>2, <2>1, <2>2 DEF LocalEdges
  <1>3. ASSUME <<<<p, t>>, "DIF">> \in AddGlvAccessEdge(t, e, glvs)
        PROVE  AtAddress(e, glvs, <<p, t>>)
    BY <1>3 DEF AddGlvAccessEdge, AtAddress
  <1>q. QED
    BY <1>1, <1>2, <1>3

\* All the definers of an event are linked to it.
LEMMA DefinersLinked ==
    ASSUME NEW t \in Thread, NEW e \in Event, NEW thrs, NEW glvs,
           OldFunc(t, e), NEW p \in Definers(t, e)
    PROVE  <<<<p, t>>, "DIF">> \in InEdges(t, e, thrs, glvs)
  <1>1. <<<<p, t>>, "DIF">> \in LocalEdges(t, e)
    BY DEF LocalEdges
  <1>q. QED
    BY <1>1 DEF InEdges

\* The formal is a variable both use.
LEMMA FormalUserFacts ==
    ASSUME GrowInv, NEW t \in Thread, NEW e \in Event, FuncList(t, e) # <<>>,
           NEW p \in FormalUser(t, e)
    PROVE  Names(Info[p].use) \cap Names(Info[e].use) # {}
  <1> DEFINE f == Tail(FuncList(t, e))
             I == {i \in 1 .. Len(f) : Names(Info[f[i]].use) \cap Names(Info[e].use) # {}}
             i == SelectInSeq(f, LAMBDA x : Names(Info[x].use) \cap Names(Info[e].use) # {})
  <1>1. i = IF I # {} THEN Min(I) ELSE 0
    BY DEF SelectInSeq
  <1>2. i # 0 /\ p = f[i]
    BY DEF FormalUser
  <1>3. I \in SUBSET (1 .. Len(f))
    OBVIOUS
  <1>4. \A j \in I : Names(Info[f[j]].use) \cap Names(Info[e].use) # {}
    OBVIOUS
  <1> HIDE DEF I, i, f
  <1>5. i \in I
    BY <1>1, <1>2, <1>3, FirstOf
  <1>q. QED
    BY <1>2, <1>4, <1>5

\* Names are names of variables, and a use has a place in the message.
LEMMA UseNames ==
    ASSUME NEW e \in Event, NEW x \in Names(Info[e].use)
    PROVE  x \in Name /\ \E u \in Uses(e) : x = Info[e].use[u].name
  <1>1. Info[e].use \in Seq(Variable)
    BY ProgramAssumption DEF Message
  <1>2. PICK v \in ToSet(Info[e].use) : x = v.name
    BY DEF Names
  <1>3. PICK u \in 1 .. Len(Info[e].use) : v = Info[e].use[u]
    BY <1>1, <1>2 DEF ToSet
  <1>4. v \in Variable
    BY <1>1, <1>3, MemberIn
  <1>q. QED
    BY <1>2, <1>3, <1>4 DEF Variable, Uses

\* No event is twice in a thread's list.
Distinct(s) == \A i, j \in 1 .. Len(s) : s[i] = s[j] => i = j

\* What DifEngine links the new event e of t to is what LatestDefinition says.
LEMMA NewLatest ==
    ASSUME GrowInv, GlvInv', NEW t \in Thread, NEW e \in Event, DifEngine(t, e),
           Distinct(order[t]), NEW i \in 1 .. Len(order[t]),
           NEW j \in Nat, j = Len(order[t]) + 1,
           Info[order[t][i]].fn = Info[e].fn,
           "DIF" \in kind'[<<<<order[t][i], t>>, <<e, t>>>>]
    PROVE  LET p == order[t][i]
           IN  \/ \E u \in Uses(e) : Reaches(t, i, j, u)'
               \/ Undefined(t, j)' /\ Names(Info[p].use) \cap Names(Info[e].use) # {}
               \/ \E v \in ToSet(Info[p].def) : \E x \in Names(Info[e].use) :
                    Addr[x] # 0 /\ Addr[v.name] = Addr[x]
  <1> DEFINE s == order[t]
             N == Len(s)
             p == s[i]
             f == FuncList(t, e)
             n == Len(f)
             use == Info[e].use
             new(x) == <<<<x, t>>, <<e, t>>>>
  <1>1. /\ s \in Seq(Event) /\ N \in Nat /\ j = N + 1 /\ p \in Event
        /\ \A k \in 1 .. N : <<s[k], t>> \in nodes /\ s[k] \in Event
    BY ThreadNodes, MemberIn
  <1>2. order' = [order EXCEPT ![t] = Append(@, e)] /\ order \in [Thread -> Seq(Event)]
    BY NewKinds DEF GrowInv, OwnTypes
  <1>3. order'[t] = Append(s, e)
    BY <1>2
  <1>4. order'[t][j] = e /\ \A k \in 1 .. N : order'[t][k] = s[k]
    BY <1>1, <1>3
  <1>5. PICK src :
          /\ \A k \in 1 .. n : src[k] \in 1 .. N /\ f[k] = s[src[k]] /\ Info[f[k]].fn = Info[e].fn
          /\ \A k, l \in 1 .. n : k < l => src[k] < src[l]
          /\ \A k \in 1 .. N : Info[s[k]].fn = Info[e].fn => \E l \in 1 .. n : src[l] = k
    BY FuncPlaces DEF FuncList
  <1>6. f \in Seq(Event) /\ n \in Nat
    BY FDifGFacts DEF FuncList
  <1>7. ASSUME NEW k \in 1 .. N PROVE "DIF" \in kind'[new(s[k])] <=>
                                       <<<<s[k], t>>, "DIF">> \in InEdges(t, e, thr', glv')
    <2>1. "DIF" \in V!EdgeKind /\ <<s[k], t>> \in nodes
      BY <1>1 DEF V!EdgeKind
    <2>q. QED
      BY <2>1, NewKinds
  <1>8. /\ OldFunc(t, e)
        /\ \/ p \in Definers(t, e)
           \/ Definers(t, e) = {} /\ p \in FormalUser(t, e)
           \/ AtAddress(e, glv', <<p, t>>)
    <2>1. <<<<p, t>>, "DIF">> \in InEdges(t, e, thr', glv')
      BY <1>7
    <2> HIDE DEF p
    <2>q. QED
      BY <2>1, LocalDif, Zenon
  <1>9. \A q \in Definers(t, e) : \E h \in 2 .. n : \E u \in Uses(e) :
           /\ q = f[h] /\ Defines(q, use[u].name)
           /\ \A l \in h + 1 .. n : Defines(f[l], use[u].name) =>
                /\ f[l] \in Definers(t, e)
                /\ \E w \in Uses(e) : w # u /\ Defines(f[l], use[w].name)
    BY DefinersFacts
  <1>10. CASE p \in Definers(t, e)
    <2> HIDE DEF s, N, f, n, use, new, p
    <2>1. PICK h \in 2 .. n, u \in Uses(e) :
             /\ p = f[h] /\ Defines(p, use[u].name)
             /\ \A l \in h + 1 .. n : Defines(f[l], use[u].name) =>
                  /\ f[l] \in Definers(t, e)
                  /\ \E w \in Uses(e) : w # u /\ Defines(f[l], use[w].name)
      BY <1>9, <1>10
    <2>2. h \in 1 .. n /\ src[h] = i
      <3>1. h \in 1 .. n
        BY <1>6
      <3>2. src[h] \in 1 .. N /\ s[src[h]] = s[i]
        BY <1>5, <2>1, <3>1 DEF p
      <3>q. QED
        BY <3>1, <3>2 DEF Distinct, N, s
    <2>3. ASSUME NEW k \in i + 1 .. j - 1, Info[s[k]].fn = Info[e].fn, Defines(s[k], use[u].name)
          PROVE  /\ "DIF" \in kind'[new(s[k])]
                 /\ \E w \in Uses(e) : w # u /\ Defines(s[k], use[w].name)
      <3>0. i \in 1 .. N
        BY DEF N, s
      <3>1. k \in 1 .. N /\ i < k
        BY <1>1, <3>0
      <3>2. PICK l \in 1 .. n : src[l] = k
        BY <1>5, <2>3, <3>1
      <3>3. l \in h + 1 .. n
        <4>1. CASE l = h
          BY <1>1, <2>2, <3>0, <3>1, <3>2, <4>1
        <4>2. CASE l < h
          <5>1. src[l] < src[h]
            BY <1>5, <2>2, <3>2, <4>2
          <5>q. QED
            BY <1>1, <2>2, <3>0, <3>1, <3>2, <5>1
        <4>3. CASE l > h
          BY <1>6, <2>2, <4>3
        <4>q. QED
          BY <1>6, <2>2, <4>1, <4>2, <4>3
      <3>4. f[l] = s[k]
        BY <1>5, <3>2
      <3>5. s[k] \in Definers(t, e) /\ \E w \in Uses(e) : w # u /\ Defines(s[k], use[w].name)
        BY <2>1, <2>3, <3>3, <3>4
      <3>6. <<<<s[k], t>>, "DIF">> \in InEdges(t, e, thr', glv')
        BY <1>8, <3>5, DefinersLinked
      <3>q. QED
        BY <1>7, <3>1, <3>5, <3>6
    <2>4. /\ order'[t][i] = p /\ order'[t][j] = e
          /\ \A k \in i + 1 .. j - 1 : order'[t][k] = s[k]
      <3>0. i \in 1 .. N
        BY DEF N, s
      <3>1. \A k \in i + 1 .. j - 1 : k \in 1 .. N
        BY <1>1, <3>0
      <3>q. QED
        BY <1>4, <3>0, <3>1 DEF p
    <2>5. Reaches(t, i, j, u)'
      <3>1. Defines(order'[t][i], Info[order'[t][j]].use[u].name)
        BY <2>1, <2>4 DEF use
      <3>2. ASSUME NEW k \in i + 1 .. j - 1, Info[order'[t][k]].fn = Info[order'[t][j]].fn,
                   Defines(order'[t][k], Info[order'[t][j]].use[u].name)
            PROVE  /\ "DIF" \in kind'[<<<<order'[t][k], t>>, <<order'[t][j], t>>>>]
                   /\ \E w \in 1 .. Len(Info[order'[t][j]].use) :
                        w # u /\ Defines(order'[t][k], Info[order'[t][j]].use[w].name)
        <4>1. order'[t][k] = s[k] /\ order'[t][j] = e
          BY <2>4
        <4>2. /\ "DIF" \in kind'[new(s[k])]
              /\ \E w \in Uses(e) : w # u /\ Defines(s[k], use[w].name)
          BY <2>3, <3>2, <4>1 DEF use
        <4>q. QED
          BY <4>1, <4>2 DEF new, Uses, use
      <3>q. QED
        BY <3>1, <3>2 DEF Reaches
    <2>q. QED
      BY <2>5 DEF s, N, p
  <1>11. CASE Definers(t, e) = {} /\ p \in FormalUser(t, e)
    <2>1. Names(Info[p].use) \cap Names(Info[e].use) # {}
      <3>1. f # <<>>
        BY <1>8, FDifGFacts DEF OldFunc, FuncList
      <3>q. QED
        BY <1>11, <3>1, FormalUserFacts
    <2>2. \A h \in 2 .. n : \A u \in Uses(e) : ~Defines(f[h], use[u].name)
      BY <1>11, DefinersFacts
    <2> HIDE DEF s, N, f, n, use, new, p
    <2>3. ASSUME NEW k \in 1 .. j - 1, NEW l \in 1 .. j - 1, l < k, Info[s[l]].fn = Info[e].fn,
                 Info[s[k]].fn = Info[e].fn, NEW x \in Names(Info[e].use)
          PROVE  ~Defines(s[k], x)
      <3>1. k \in 1 .. N /\ l \in 1 .. N
        BY <1>1
      <3>2. PICK c \in 1 .. n, d \in 1 .. n : src[c] = k /\ src[d] = l
        BY <1>5, <2>3, <3>1
      <3>3. d < c
        <4>1. c < d => k < l
          BY <1>5, <3>2
        <4>q. QED
          BY <1>1, <1>6, <2>3, <3>1, <3>2, <4>1
      <3>4. c \in 2 .. n
        BY <1>6, <3>3
      <3>5. f[c] = s[k]
        BY <1>5, <3>2
      <3>6. PICK u \in Uses(e) : x = Info[e].use[u].name
        BY UseNames
      <3>q. QED
        BY <2>2, <3>4, <3>5, <3>6 DEF use
    <2>4. \A k \in 1 .. j - 1 : order'[t][k] = s[k]
      <3>1. \A k \in 1 .. j - 1 : k \in 1 .. N
        BY <1>1
      <3>q. QED
        BY <1>4, <3>1
    <2>5. order'[t][j] = e
      BY <1>4
    <2>6. Undefined(t, j)'
      <3>1. \A k, l \in 1 .. j - 1 :
              l < k /\ Info[order'[t][l]].fn = Info[order'[t][j]].fn
                    /\ Info[order'[t][k]].fn = Info[order'[t][j]].fn =>
                \A x \in Names(Info[order'[t][j]].use) : ~Defines(order'[t][k], x)
        BY <2>3, <2>4, <2>5
      <3>q. QED
        BY <3>1 DEF Undefined
    <2>q. QED
      BY <2>1, <2>6 DEF s, N, p
  <1>12. CASE AtAddress(e, glv', <<p, t>>)
    <2>1. PICK x \in Names(use) : /\ Addr[x] # 0 /\ glv'[Addr[x]] = <<p, t>>
                                  /\ glv'[Addr[x]] # NoNode
      BY <1>12 DEF AtAddress
    <2>2. Addr[x] \in DOMAIN glv'
      BY <2>1, UseNames DEF GlvInv
    <2>3. \E v \in ToSet(Info[p].def) : Addr[v.name] = Addr[x]
      <3> HIDE DEF p
      <3>q. QED
        BY <2>1, <2>2 DEF GlvInv
    <2>q. QED
      BY <2>1, <2>3
  <1>q. QED
    BY <1>8, <1>10, <1>11, <1>12

\* What a thread traced before is kept when an event joins a thread.
LEMMA EarlierKept ==
    ASSUME GrowInv, NEW t \in Thread, NEW e \in Event, DifEngine(t, e), NEW u \in Thread
    PROVE  /\ Len(order[u]) \in Nat
           /\ order'[u] = IF u = t THEN Append(order[u], e) ELSE order[u]
           /\ Len(order'[u]) = IF u = t THEN Len(order[u]) + 1 ELSE Len(order[u])
           /\ \A k \in 1 .. Len(order[u]) : order'[u][k] = order[u][k]
           /\ \A k, l \in 1 .. Len(order[u]) :
                kind'[<<<<order[u][k], u>>, <<order[u][l], u>>>>]
                  = kind[<<<<order[u][k], u>>, <<order[u][l], u>>>>]
  <1>1. order[u] \in Seq(Event) /\ \A k \in 1 .. Len(order[u]) : <<order[u][k], u>> \in nodes
    BY ThreadNodes, MemberIn
  <1>2. order' = [order EXCEPT ![t] = Append(@, e)]
    BY NewKinds
  <1>3. order'[u] = IF u = t THEN Append(order[u], e) ELSE order[u]
    BY <1>2 DEF GrowInv, OwnTypes
  <1>4. \A p, q \in nodes : kind'[<<p, q>>] = kind[<<p, q>>]
    BY NewKinds
  <1>q. QED
    BY <1>1, <1>3, <1>4

LEMMA ReachesKept ==
    ASSUME GrowInv, NEW t \in Thread, NEW e \in Event, DifEngine(t, e), NEW u \in Thread,
           NEW i \in 1 .. Len(order[u]), NEW j \in 1 .. Len(order[u]), NEW w,
           Reaches(u, i, j, w)
    PROVE  Reaches(u, i, j, w)'
  <1> DEFINE s == order[u]
  <1>1. Len(s) \in Nat /\ \A k \in i + 1 .. j - 1 : k \in 1 .. Len(s)
    BY EarlierKept
  <1>2. order'[u][i] = s[i] /\ order'[u][j] = s[j]
    BY EarlierKept
  <1>3. ASSUME NEW k \in i + 1 .. j - 1, Info[order'[u][k]].fn = Info[order'[u][j]].fn,
               Defines(order'[u][k], Info[order'[u][j]].use[w].name)
        PROVE  /\ "DIF" \in kind'[<<<<order'[u][k], u>>, <<order'[u][j], u>>>>]
               /\ \E x \in 1 .. Len(Info[order'[u][j]].use) :
                    x # w /\ Defines(order'[u][k], Info[order'[u][j]].use[x].name)
    <2>1. k \in 1 .. Len(s) /\ order'[u][k] = s[k]
      BY <1>1, EarlierKept
    <2>2. kind'[<<<<s[k], u>>, <<s[j], u>>>>] = kind[<<<<s[k], u>>, <<s[j], u>>>>]
      BY <2>1, EarlierKept
    <2>3. Info[s[k]].fn = Info[s[j]].fn /\ Defines(s[k], Info[s[j]].use[w].name)
      BY <1>2, <1>3, <2>1
    <2> HIDE DEF s
    <2>4. /\ "DIF" \in kind[<<<<s[k], u>>, <<s[j], u>>>>]
          /\ \E x \in 1 .. Len(Info[s[j]].use) : x # w /\ Defines(s[k], Info[s[j]].use[x].name)
      BY <2>3 DEF Reaches, s
    <2>q. QED
      BY <1>2, <2>1, <2>2, <2>4
  <1>4. Defines(order'[u][i], Info[order'[u][j]].use[w].name)
    BY <1>2 DEF Reaches
  <1>q. QED
    BY <1>3, <1>4 DEF Reaches

LEMMA UndefinedKept ==
    ASSUME GrowInv, NEW t \in Thread, NEW e \in Event, DifEngine(t, e), NEW u \in Thread,
           NEW j \in 1 .. Len(order[u]), Undefined(u, j)
    PROVE  Undefined(u, j)'
  <1> DEFINE s == order[u]
  <1>1. Len(s) \in Nat /\ \A k \in 1 .. j - 1 : k \in 1 .. Len(s)
    BY EarlierKept
  <1>2. order'[u][j] = s[j] /\ \A k \in 1 .. j - 1 : order'[u][k] = s[k]
    BY <1>1, EarlierKept
  <1>3. \A k, l \in 1 .. j - 1 :
          l < k /\ Info[order'[u][l]].fn = Info[order'[u][j]].fn
                /\ Info[order'[u][k]].fn = Info[order'[u][j]].fn =>
            \A x \in Names(Info[order'[u][j]].use) : ~Defines(order'[u][k], x)
    BY <1>2 DEF Undefined
  <1>q. QED
    BY <1>3 DEF Undefined

\* A thread stands where its last event came from, until one is dropped.
PointInv ==
    \A t \in Thread : at[t] \in Point /\ "repeated" \notin mishap =>
      order[t] # <<>> /\ Last(order[t]) = EventOf[at[t]]

DistinctInv == \A t \in Thread : Distinct(order[t])

FlowInv == PointInv /\ DistinctInv /\ LatestDefinition /\ ReturnLinked

LEMMA DifEngineLatest ==
    ASSUME GrowInv, GlvInv', FlowInv, NEW t \in Thread, NEW e \in Event, DifEngine(t, e)
    PROVE  LatestDefinition'
  <1> SUFFICES ASSUME NEW u \in Thread, NEW i \in 1 .. Len(order'[u]), NEW j \in 1 .. Len(order'[u]),
                      i < j, Info[order'[u][i]].fn = Info[order'[u][j]].fn,
                      "DIF" \in kind'[<<<<order'[u][i], u>>, <<order'[u][j], u>>>>]
               PROVE  Explained(u, i, j)'
    BY Zenon DEF LatestDefinition
  <1>1. /\ Len(order[u]) \in Nat
        /\ order'[u] = IF u = t THEN Append(order[u], e) ELSE order[u]
        /\ Len(order'[u]) = IF u = t THEN Len(order[u]) + 1 ELSE Len(order[u])
    BY EarlierKept
  <1>2. CASE j \in 1 .. Len(order[u])
    <2>1. i \in 1 .. Len(order[u])
      BY <1>1, <1>2
    <2>2. order'[u][i] = order[u][i] /\ order'[u][j] = order[u][j]
      BY <1>2, <2>1, EarlierKept
    <2>3. "DIF" \in kind[<<<<order[u][i], u>>, <<order[u][j], u>>>>]
      <3>1. kind'[<<<<order[u][i], u>>, <<order[u][j], u>>>>]
              = kind[<<<<order[u][i], u>>, <<order[u][j], u>>>>]
        BY <1>2, <2>1, EarlierKept
      <3>q. QED
        BY <2>2, <3>1
    <2>4. Explained(u, i, j)
      <3>1. i < j /\ Info[order[u][i]].fn = Info[order[u][j]].fn
        BY <2>2
      <3>2. LatestDefinition
        BY DEF FlowInv
      <3>q. QED
        BY <1>2, <2>1, <2>3, <3>1, <3>2, Zenon DEF LatestDefinition
    <2>5. \A w : Reaches(u, i, j, w) => Reaches(u, i, j, w)'
      BY <1>2, <2>1, ReachesKept
    <2>6. Undefined(u, j) => Undefined(u, j)'
      BY <1>2, UndefinedKept
    <2>7. \/ \E w \in 1 .. Len(Info[order[u][j]].use) : Reaches(u, i, j, w)
          \/ Undefined(u, j) /\ Names(Info[order[u][i]].use) \cap Names(Info[order[u][j]].use) # {}
          \/ \E v \in ToSet(Info[order[u][i]].def) : \E x \in Names(Info[order[u][j]].use) :
               Addr[x] # 0 /\ Addr[v.name] = Addr[x]
      BY <2>4 DEF Explained
    <2>q. QED
      BY <2>2, <2>5, <2>6, <2>7 DEF Explained
  <1>3. CASE j \notin 1 .. Len(order[u])
    <2>1. u = t /\ j = Len(order[t]) + 1 /\ i \in 1 .. Len(order[t]) /\ j \in Nat
      BY <1>1, <1>3
    <2>2. order[t] \in Seq(Event)
      BY ThreadNodes
    <2>3. order'[t][i] = order[t][i] /\ order'[t][j] = e
      BY <1>1, <2>1, <2>2
    <2>4. Distinct(order[t]) /\ Info[order[t][i]].fn = Info[e].fn
          /\ "DIF" \in kind'[<<<<order[t][i], t>>, <<e, t>>>>]
      BY <2>1, <2>3 DEF FlowInv, DistinctInv
    <2>5. \/ \E w \in Uses(e) : Reaches(t, i, j, w)'
          \/ Undefined(t, j)' /\ Names(Info[order[t][i]].use) \cap Names(Info[e].use) # {}
          \/ \E v \in ToSet(Info[order[t][i]].def) : \E x \in Names(Info[e].use) :
               Addr[x] # 0 /\ Addr[v.name] = Addr[x]
      BY <2>1, <2>4, NewLatest
    <2>q. QED
      BY <2>1, <2>3, <2>5 DEF Uses, Explained
  <1>q. QED
    BY <1>2, <1>3

\* A call whose callee has returned is the next event of the thread, so
\* InsertNode2Graph hangs it on the last one.
LEMMA DifEngineReturns ==
    ASSUME GrowInv, FlowInv, NEW t \in Thread, NEW e \in Event, DifEngine(t, e)
    PROVE  ReturnLinked'
  <1> SUFFICES ASSUME "repeated" \notin mishap', NEW u \in Thread,
                      NEW i \in 1 .. Len(order'[u]), NEW j \in 1 .. Len(order'[u]),
                      i < j, Info[order'[u][i]].fn = Info[order'[u][j]].fn,
                      AfterReturn(order'[u][j])
               PROVE  \E p \in nodes' : /\ Info[p[1]].fn = Info[order'[u][j]].callee
                                       /\ Info[p[1]].type = "RET"
                                       /\ p[2] = u
                                       /\ "RET" \in kind'[<<p, <<order'[u][j], u>>>>]
    BY Zenon DEF ReturnLinked
  <1>1. "repeated" \notin mishap /\ nodes' = nodes \cup {<<e, t>>}
    BY DEF DifEngine
  <1>2. /\ Len(order[u]) \in Nat
        /\ order'[u] = IF u = t THEN Append(order[u], e) ELSE order[u]
        /\ Len(order'[u]) = IF u = t THEN Len(order[u]) + 1 ELSE Len(order[u])
    BY EarlierKept
  <1>3. CASE j \in 1 .. Len(order[u])
    <2>1. i \in 1 .. Len(order[u])
      BY <1>2, <1>3
    <2>2. order'[u][i] = order[u][i] /\ order'[u][j] = order[u][j]
      BY <1>3, <2>1, EarlierKept
    <2>3. PICK p \in nodes : /\ Info[p[1]].fn = Info[order[u][j]].callee
                             /\ Info[p[1]].type = "RET" /\ p[2] = u
                             /\ "RET" \in kind[<<p, <<order[u][j], u>>>>]
      <3>1. Info[order[u][i]].fn = Info[order[u][j]].fn /\ AfterReturn(order[u][j])
        BY <2>2
      <3>2. ReturnLinked
        BY DEF FlowInv
      <3>q. QED
        BY <1>1, <1>3, <2>1, <3>1, <3>2, Zenon DEF ReturnLinked
    <2>4. <<order[u][j], u>> \in nodes
      BY <1>3, ThreadNodes, MemberIn
    <2>5. kind'[<<p, <<order[u][j], u>>>>] = kind[<<p, <<order[u][j], u>>>>]
      BY <2>4, NewKinds
    <2>q. QED
      BY <1>1, <2>2, <2>3, <2>5
  <1>4. CASE j \notin 1 .. Len(order[u])
    <2>1. u = t /\ j = Len(order[t]) + 1 /\ i \in 1 .. Len(order[t])
      BY <1>2, <1>4
    <2>2. order[t] \in Seq(Event) /\ order[t] # <<>>
      BY <2>1, ThreadNodes
    <2>3. order'[t][i] = order[t][i] /\ order'[t][j] = e
      BY <1>2, <2>1, <2>2
    <2>4. AfterReturn(e) /\ Info[order[t][i]].fn = Info[e].fn
      BY <2>1, <2>3
    <2>5. PICK q \in Point : <<at[t], q>> \in Control /\ e = EventOf[q]
      BY TraceTodo DEF DifEngine, GrowInv
    <2>6. /\ at[t] \in Point
          /\ Info[EventOf[at[t]]].type = "RET" /\ Info[EventOf[at[t]]].fn = Info[e].callee
      <3>1. \A c \in Control : EventOf[c[2]] = e =>
              /\ c[1] \in Point
              /\ Info[EventOf[c[1]]].type = "RET" /\ Info[EventOf[c[1]]].fn = Info[e].callee
        BY <2>4 DEF AfterReturn
      <3>q. QED
        BY <2>5, <3>1
    <2>7. Last(order[t]) = EventOf[at[t]]
      BY <1>1, <2>6 DEF FlowInv, PointInv
    <2>8. OldFunc(t, e)
      BY <2>1, <2>4 DEF OldFunc
    <2>9. Returns(t, e)
      BY <2>4, <2>6, <2>7 DEF Returns, LastFn, AfterReturn
    <2> DEFINE p == <<Last(order[t]), t>>
    <2>10. <<p, "RET">> \in InEdges(t, e, thr', glv')
      BY <2>8, <2>9 DEF InEdges, AddRetEdge
    <2>11. p \in nodes
      BY <2>2, EndsIn, ThreadNodes
    <2>12. "RET" \in V!EdgeKind
      BY DEF V!EdgeKind
    <2>13. "RET" \in kind'[<<p, <<e, t>>>>]
      <3> HIDE DEF p
      <3>q. QED
        BY <2>10, <2>11, <2>12, NewKinds
    <2>14. p[1] = EventOf[at[t]] /\ p[2] = t /\ p \in nodes'
      BY <1>1, <2>7, <2>11
    <2> HIDE DEF p
    <2>q. QED
      BY <2>1, <2>3, <2>6, <2>13, <2>14
  <1>q. QED
    BY <1>3, <1>4

LEMMA DifEngineFlow ==
    ASSUME GrowInv, GlvInv', FlowInv, NEW t \in Thread, NEW e \in Event, DifEngine(t, e)
    PROVE  FlowInv'
  <1>1. \A u \in Thread : order'[u] = IF u = t THEN Append(order[u], e) ELSE order[u]
    BY EarlierKept
  <1>2. order[t] \in Seq(Event) /\ e \notin ToSet(order[t])
    BY ThreadNodes, NewKinds
  <1>3. PointInv'
    <2>1. PICK q \in Point : e = EventOf[q] /\ at' = [at EXCEPT ![t] = q]
      BY TraceTodo DEF DifEngine, GrowInv
    <2>2. at \in [Thread -> STRING \cup {NoPoint}]
      BY DEF GrowInv, TodoInv
    <2>3. "repeated" \notin mishap' => "repeated" \notin mishap
      BY DEF DifEngine
    <2>4. order'[t] # <<>> /\ Last(order'[t]) = e
      <3> DEFINE s == order[t]
      <3>1. order'[t] = Append(s, e)
        BY <1>1
      <3>2. s \in Seq(Event)
        BY <1>2
      <3> HIDE DEF s
      <3>3. Append(s, e) # <<>> /\ Last(Append(s, e)) = e
        BY <3>2 DEF Last
      <3>q. QED
        BY <3>1, <3>3
    <2>5. \A u \in Thread \ {t} : at'[u] = at[u] /\ order'[u] = order[u]
      BY <1>1, <2>1, <2>2
    <2>6. at'[t] = q
      BY <2>1, <2>2
    <2>q. QED
      BY <2>1, <2>3, <2>4, <2>5, <2>6 DEF FlowInv, PointInv
  <1>4. DistinctInv'
    <2> SUFFICES ASSUME NEW u \in Thread, NEW i \in 1 .. Len(order'[u]),
                        NEW j \in 1 .. Len(order'[u]), order'[u][i] = order'[u][j]
                 PROVE  i = j
      BY DEF DistinctInv, Distinct
    <2>1. Distinct(order[u])
      BY DEF FlowInv, DistinctInv
    <2>2. CASE u # t
      BY <1>1, <2>1, <2>2 DEF Distinct
    <2>3. CASE u = t
      <3> DEFINE s == order[t]
      <3>1. \A k \in 1 .. Len(s) : s[k] # e
        BY <1>2, MemberIn
      <3>2. order'[t] = Append(s, e)
        BY <1>1
      <3>3. /\ Len(order'[t]) = Len(s) + 1 /\ Len(s) \in Nat /\ order'[t][Len(s) + 1] = e
            /\ \A k \in 1 .. Len(s) : order'[t][k] = s[k]
        BY <1>2, <3>2
      <3>4. Distinct(s)
        BY <2>1, <2>3
      <3> HIDE DEF s
      <3>5. \A k \in 1 .. Len(order'[t]) : k \in 1 .. Len(s) \/ k = Len(s) + 1
        BY <3>3
      <3>q. QED
        BY <2>3, <3>1, <3>3, <3>4, <3>5 DEF Distinct
    <2>q. QED
      BY <2>2, <2>3
  <1>q. QED
    BY <1>3, <1>4, DifEngineLatest, DifEngineReturns DEF FlowInv

\* Steps that trace nothing new.
LEMMA SameFlow ==
    ASSUME FlowInv, UNCHANGED <<order, nodes, kind>>, mishap \subseteq mishap', PointInv'
    PROVE  FlowInv'
  <1>1. DistinctInv'
    BY DEF FlowInv, DistinctInv
  <1>2. LatestDefinition'
    <2>1. \A u, i, j, w : Reaches(u, i, j, w)' <=> Reaches(u, i, j, w)
      BY DEF Reaches
    <2>2. \A u, j : Undefined(u, j)' <=> Undefined(u, j)
      BY DEF Undefined
    <2>3. \A u, i, j : Explained(u, i, j)' <=> Explained(u, i, j)
      BY <2>1, <2>2 DEF Explained
    <2>4. LatestDefinition
      BY DEF FlowInv
    <2>q. QED
      BY <2>3, <2>4 DEF LatestDefinition
  <1>3. ReturnLinked'
    BY DEF FlowInv, ReturnLinked
  <1>q. QED
    BY <1>1, <1>2, <1>3 DEF FlowInv

LEMMA FlowInit == Init => FlowInv
  <1> SUFFICES ASSUME Init PROVE FlowInv
    OBVIOUS
  <1>1. /\ order = [t \in Thread |-> <<>>]
        /\ at = [t \in Thread |-> IF t = Main THEN MainStart ELSE NoPoint]
    BY DEF Init
  <1>2. PointInv
    BY <1>1, ProgramAssumption DEF PointInv
  <1>3. \A t \in Thread : 1 .. Len(order[t]) = {}
    BY <1>1
  <1>q. QED
    BY <1>2, <1>3 DEF FlowInv, DistinctInv, Distinct, LatestDefinition, ReturnLinked

LEMMA FlowStep == GrowInv /\ ThreadInv' /\ FlowInv /\ [Next]_vars => FlowInv'
  <1> SUFFICES ASSUME GrowInv, ThreadInv', FlowInv, [Next]_vars PROVE FlowInv'
    OBVIOUS
  <1>0. PointInv /\ at \in [Thread -> STRING \cup {NoPoint}]
    BY DEF FlowInv, GrowInv, TodoInv
  <1>7. ASSUME NEW t \in Thread, Execute(t) PROVE FlowInv'
    <2>1. UNCHANGED <<order, nodes, kind, at>> /\ mishap \subseteq mishap'
      BY <1>7 DEF Execute, Instruction, tables, visit
    <2>2. PointInv'
      BY <1>0, <2>1 DEF PointInv
    <2>q. QED
      BY <2>1, <2>2, SameFlow
  <1>1. ASSUME NEW t \in Thread, NEW u \in Thread, Create(t, u) PROVE FlowInv'
    <2>1. UNCHANGED <<order, nodes, kind>> /\ mishap \subseteq mishap'
      BY <1>1 DEF Create, Instruction, tables, visit
    <2>2. PICK q \in Point : at' = [at EXCEPT ![u] = Info[EventOf[q]].entry]
      BY <1>1 DEF Create, Succ
    <2>3. Info[EventOf[q]].entry \notin Point
      BY ProgramAssumption
    <2>4. PointInv'
      BY <1>0, <2>1, <2>2, <2>3 DEF PointInv
    <2>q. QED
      BY <2>1, <2>4, SameFlow
  <1>2. ASSUME NEW t \in Thread, ThreadEnds(t) PROVE FlowInv'
    <2>1. UNCHANGED <<order, nodes, kind, mishap>> /\ at' = [at EXCEPT ![t] = NoPoint]
      BY <1>2 DEF ThreadEnds, tables, visit
    <2>2. NoPoint \notin Point
      BY ProgramAssumption
    <2>3. PointInv'
      BY <1>0, <2>1, <2>2 DEF PointInv
    <2>q. QED
      BY <2>1, <2>3, SameFlow
  <1>3. ASSUME NEW t \in Thread, NEW e \in Event, DifEngine(t, e) PROVE FlowInv'
    BY <1>3, DifEngineFlow DEF ThreadInv
  <1>4. ASSUME NEW t \in Thread, NEW e \in Event, Repeat(t, e) PROVE FlowInv'
    <2>1. UNCHANGED <<order, nodes, kind>> /\ mishap' = mishap \cup {"repeated"}
      BY <1>4 DEF Repeat, tables, visit
    <2>2. PointInv'
      BY <2>1 DEF PointInv
    <2>q. QED
      BY <2>1, <2>2, SameFlow
  <1>5. CASE VisitDifg
    <2>1. UNCHANGED <<order, nodes, kind, at, mishap>>
      BY <1>5, VisitLeavesGraph DEF program, tables
    <2>2. PointInv'
      BY <1>0, <2>1 DEF PointInv
    <2>q. QED
      BY <2>1, <2>2, SameFlow
  <1>6. CASE UNCHANGED vars
    <2>1. UNCHANGED <<order, nodes, kind, at, mishap>>
      BY <1>6 DEF vars, program, tables, visit
    <2>2. PointInv'
      BY <1>0, <2>1 DEF PointInv
    <2>q. QED
      BY <2>1, <2>2, SameFlow
  <1>q. QED
    BY <1>1, <1>2, <1>3, <1>4, <1>5, <1>6, <1>7 DEF Next

\* For every program and interleaving: between two events of a function data
\* flows from a definition of what the later one uses that is hidden, if at all,
\* by events linked to it too, from a user of the same formal if there is no
\* definition, or through an address both name; and a call of an instrumented
\* function hangs on its return, until an event is dropped as a repetition.
THEOREM DifGraphLocalFlow == Spec => []LocalFlow
  <1>1. FlowInv => LocalFlow
    BY DEF FlowInv, LocalFlow
  <1>2. Spec => []ThreadInv
    BY ThreadInit, ThreadStep, PTL DEF Spec
  <1>q. QED
    BY FlowInit, FlowStep, GrowAlways, <1>1, <1>2, PTL DEF Spec
-----------------------------------------------------------------------------
=============================================================================
