--------------------------- MODULE VisitDifgProofs ---------------------------
(***************************************************************************)
(* Proofs about VisitDifg.  They hold for OpenSpec, in which the graph     *)
(* grows in any way that has the shape DifEngine gives it.                 *)
(***************************************************************************)
EXTENDS VisitDifg, SequenceTheorems, TLAPS

\* The graph: edges join nodes that exist, and the OutEdge lists hold them.
GraphInv ==
    /\ \A e \in Node \X Node : kind[e] # {} => {e[1], e[2]} \subseteq nodes
    /\ \A s \in Node : Members(out[s]) = {d \in Node : kind[<<s, d>>] # {}}

\* Everything in the cache is a source or marked, so all the visit does starts
\* from tainted nodes.
CacheInv ==
    /\ \A i \in 1 .. Len(cache) : cache[i] \in Members(sources) \cup visited
    /\ sources = <<>> => cache = <<>>

\* The loop variables while a visit is under way.
PcInv ==
    /\ left <= Len(cache)
    /\ pc = "source" => srcNum \in 1 .. Len(sources)
    /\ pc \in {"pass", "node"} => srcNum \in 1 .. Len(sources)
    /\ pc = "node" => pos \in 1 .. left + 1 /\ nxt >= 1

\* The flows out of cache[i], and the first k of them.
Expanded(i) == \A d \in Node : <<cache[i], d>> \in Flow => d \in visited
Begun(i, k) == \A j \in 1 .. Len(out[cache[i]]) :
                 j < k /\ <<cache[i], out[cache[i]][j]>> \in Flow =>
                   out[cache[i]][j] \in visited

\* How far the current pass has come, and what the finished one has done.
DoneInv ==
    /\ pc = "node" => \A i \in 1 .. left : i < pos => Expanded(i)
    /\ pc = "node" /\ pos <= left => Begun(pos, nxt)
    /\ CoveredExpanded

\* Without a change, a pass adds to the cache over return edges only.
LagInv ==
    (pc = "node" /\ ~change) \/ pc = "idle" =>
       \A i \in left + 1 .. Len(cache) :
         \E s \in Node : "RET" \in kind[<<s, cache[i]>>]

MarkedInv ==
    /\ \A i \in 1 .. Len(invoked) : invoked[i][2] \in visited
    /\ InvokedOnce

IInv == TypeOK /\ GraphInv /\ CacheInv /\ PcInv /\ DoneInv /\ LagInv /\ MarkedInv

-----------------------------------------------------------------------------
LEMMA AppendMembers ==
    ASSUME NEW S, NEW s \in Seq(S), NEW x \in S
    PROVE  /\ Append(s, x) \in Seq(S)
           /\ Len(Append(s, x)) = Len(s) + 1
           /\ \A i \in 1 .. Len(s) : Append(s, x)[i] = s[i]
           /\ Append(s, x)[Len(s) + 1] = x
           /\ Members(Append(s, x)) = Members(s) \cup {x}
<1>1. /\ Append(s, x) \in Seq(S)
      /\ Len(Append(s, x)) = Len(s) + 1
      /\ \A i \in 1 .. Len(s) : Append(s, x)[i] = s[i]
      /\ Append(s, x)[Len(s) + 1] = x
  BY AppendProperties
<1>2. Members(Append(s, x)) \subseteq Members(s) \cup {x}
  <2>1. ASSUME NEW i \in 1 .. Len(s) + 1
        PROVE  Append(s, x)[i] \in Members(s) \cup {x}
    <3>1. CASE i \in 1 .. Len(s)
      BY <1>1, <3>1 DEF Members
    <3>2. CASE i = Len(s) + 1
      BY <1>1, <3>2
    <3>q. QED
      BY <2>1, <3>1, <3>2
  <2>q. QED
    BY <1>1, <2>1 DEF Members
<1>3. Members(s) \cup {x} \subseteq Members(Append(s, x))
  <2>1. \A i \in 1 .. Len(s) : i \in 1 .. Len(s) + 1
    OBVIOUS
  <2>2. Len(s) + 1 \in 1 .. Len(s) + 1
    OBVIOUS
  <2>q. QED
    BY <1>1, <2>1, <2>2 DEF Members
<1>q. QED
  BY <1>1, <1>2, <1>3

LEMMA InitInv == Init => IInv
<1> SUFFICES ASSUME Init PROVE IInv
  OBVIOUS
<1>1. TypeOK
  <2>1. <<>> \in Seq(Node) /\ <<>> \in Seq(Node \X Node)
    OBVIOUS
  <2>2. out \in [Node -> Seq(Node)]
    BY <2>1 DEF Init
  <2>3. kind \in [Node \X Node -> SUBSET EdgeKind]
    BY DEF Init
  <2>q. QED
    BY <2>1, <2>2, <2>3 DEF Init, TypeOK
<1>2. GraphInv
  BY DEF Init, GraphInv, Members
<1>3. CacheInv /\ PcInv /\ LagInv /\ MarkedInv
  BY DEF Init, CacheInv, PcInv, LagInv, MarkedInv, InvokedOnce
<1>4. DoneInv
  BY DEF Init, DoneInv, CoveredExpanded
<1>q. QED
  BY <1>1, <1>2, <1>3, <1>4 DEF IInv

-----------------------------------------------------------------------------
\* The current edge: where it leads, and that the kind says so.
LEMMA EdgeFacts ==
    ASSUME IInv, AtEdge
    PROVE  /\ pc = "node" /\ pos \in 1 .. left /\ pos \in 1 .. Len(cache)
           /\ nxt \in 1 .. Len(out[Src])
           /\ Src \in Node /\ Dst \in Node
           /\ Type \subseteq EdgeKind
           /\ Src \in Members(sources) \cup visited
<1>1. pc = "node" /\ pos \in 1 .. left /\ pos \in 1 .. Len(cache)
  BY DEF IInv, PcInv, TypeOK, AtEdge
<1>2. Src \in Node
  BY <1>1 DEF IInv, TypeOK, Src
<1>3. nxt \in 1 .. Len(out[Src])
  BY <1>1, <1>2 DEF IInv, TypeOK, PcInv, AtEdge
<1>4. Dst \in Node
  BY <1>2, <1>3 DEF IInv, TypeOK, Dst
<1>5. Type \subseteq EdgeKind
  BY <1>2, <1>4 DEF IInv, TypeOK, Type
<1>6. Src \in Members(sources) \cup visited
  BY <1>1 DEF IInv, CacheInv, Src
<1>q. QED
  BY <1>1, <1>2, <1>3, <1>4, <1>5, <1>6

\* A step that leaves the graph alone keeps GraphInv.
LEMMA GraphFrame ==
    ASSUME GraphInv, UNCHANGED graph
    PROVE  GraphInv'
BY DEF GraphInv, graph, Members

LEMMA MembersFrame ==
    ASSUME UNCHANGED graph
    PROVE  Members(sources)' = Members(sources) /\ Flow' = Flow
BY DEF graph, Members, Flow

-----------------------------------------------------------------------------
\* Steps that only move the loop variables keep everything about the graph,
\* the cache and the marks.
LEMMA WalkStep ==
    ASSUME IInv, UNCHANGED <<graph, found>>
    PROVE  GraphInv' /\ CacheInv' /\ MarkedInv'
<1>1. GraphInv'
  BY GraphFrame DEF IInv
<1>2. CacheInv'
  BY MembersFrame DEF IInv, CacheInv, found, graph
<1>3. MarkedInv'
  BY DEF IInv, MarkedInv, InvokedOnce, found
<1>q. QED
  BY <1>1, <1>2, <1>3

LEMMA ProcSourceInv == IInv /\ ProcSource => IInv'
<1> SUFFICES ASSUME IInv, ProcSource PROVE IInv'
  OBVIOUS
<1>1. srcNum \in 1 .. Len(sources) /\ sources[srcNum] \in Node
  BY DEF IInv, PcInv, TypeOK, ProcSource
<1>2. cache' \in Seq(Node) /\ Len(cache') >= Len(cache)
  BY <1>1 DEF IInv, TypeOK, ProcSource
<1>3. TypeOK'
  BY <1>2 DEF IInv, TypeOK, ProcSource, graph, walk
<1>4. GraphInv'
  BY GraphFrame DEF IInv, ProcSource
<1>5. CacheInv'
  <2>1. sources[srcNum] \in Members(sources)
    BY <1>1 DEF Members
  <2>2. sources # <<>>
    BY <1>1
  <2>3. ASSUME NEW i \in 1 .. Len(cache')
        PROVE  cache'[i] \in Members(sources) \cup visited
    <3>1. CASE cache = <<>>
      <4>1. cache' = <<sources[srcNum]>> /\ i = 1
        BY <3>1, <2>3 DEF ProcSource
      <4>q. QED
        BY <4>1, <2>1
    <3>2. CASE cache # <<>>
      BY <3>2, <2>3 DEF ProcSource, IInv, CacheInv
    <3>q. QED
      BY <3>1, <3>2
  <2>q. QED
    BY <2>2, <2>3, MembersFrame DEF CacheInv, ProcSource, graph
<1>6. PcInv'
  BY <1>1, <1>2 DEF PcInv, ProcSource, graph, walk, IInv, TypeOK
<1>7. DoneInv' /\ LagInv'
  BY DEF DoneInv, LagInv, CoveredExpanded, ProcSource
<1>8. MarkedInv'
  BY DEF IInv, MarkedInv, InvokedOnce, ProcSource
<1>q. QED
  BY <1>3, <1>4, <1>5, <1>6, <1>7, <1>8 DEF IInv

LEMMA BeginPassInv == IInv /\ BeginPass => IInv'
<1> SUFFICES ASSUME IInv, BeginPass PROVE IInv'
  OBVIOUS
<1>1. Len(cache) \in Nat
  BY DEF IInv, TypeOK
<1>2. TypeOK'
  BY <1>1 DEF IInv, TypeOK, BeginPass, graph, found
<1>3. GraphInv' /\ CacheInv' /\ MarkedInv'
  BY WalkStep DEF BeginPass
<1>4. PcInv'
  BY <1>1 DEF IInv, PcInv, BeginPass, graph, found
<1>5. DoneInv'
  BY <1>1 DEF DoneInv, CoveredExpanded, Begun, BeginPass
<1>6. LagInv'
  BY <1>1 DEF LagInv, BeginPass, found
<1>q. QED
  BY <1>2, <1>3, <1>4, <1>5, <1>6 DEF IInv

LEMMA NextNodeInv == IInv /\ NextNode => IInv'
<1> SUFFICES ASSUME IInv, NextNode PROVE IInv'
  OBVIOUS
<1>1. pos \in 1 .. left /\ pos \in 1 .. Len(cache) /\ left \in Nat /\ Len(cache) \in Nat
  BY DEF IInv, PcInv, TypeOK, NextNode
<1>2. TypeOK'
  BY <1>1 DEF IInv, TypeOK, NextNode, graph, found
<1>3. GraphInv' /\ CacheInv' /\ MarkedInv'
  BY WalkStep DEF NextNode
<1>4. PcInv'
  BY <1>1 DEF IInv, PcInv, NextNode, graph, found
<1>5. Expanded(pos)
  <2>1. Src \in Node /\ Len(out[Src]) \in Nat
    BY <1>1 DEF IInv, TypeOK, Src
  <2>2. ASSUME NEW d \in Node, <<Src, d>> \in Flow PROVE d \in visited
    <3>1. kind[<<Src, d>>] # {}
      BY <2>2 DEF Flow
    <3>2. d \in Members(out[Src])
      BY <3>1, <2>1 DEF IInv, GraphInv
    <3>3. PICK j \in 1 .. Len(out[Src]) : out[Src][j] = d
      BY <3>2 DEF Members
    <3>4. j < nxt
      BY <3>3, <2>1 DEF NextNode, IInv, TypeOK
    <3>q. QED
      BY <2>2, <3>3, <3>4, <1>1 DEF IInv, DoneInv, Begun, NextNode, Src
  <2>q. QED
    BY <2>2 DEF Expanded, Src
<1>6. DoneInv'
  <2>1. \A i \in 1 .. left : i < pos + 1 => Expanded(i)
    BY <1>1, <1>5 DEF IInv, DoneInv, NextNode
  <2>2. ASSUME NEW i PROVE Expanded(i)' = Expanded(i)
    BY MembersFrame DEF Expanded, NextNode, found
  <2>3. \A i \in 1 .. left' : i < pos' => Expanded(i)'
    BY <2>1, <2>2 DEF NextNode
  <2>5. Begun(pos, nxt)'
    BY MembersFrame DEF NextNode, Begun, found, graph
  <2>q. QED
    BY <2>3, <2>5 DEF DoneInv, CoveredExpanded, NextNode
<1>7. LagInv'
  BY DEF IInv, LagInv, NextNode, found, graph
<1>q. QED
  BY <1>2, <1>3, <1>4, <1>6, <1>7 DEF IInv

LEMMA EndPassInv == IInv /\ EndPass => IInv'
<1> SUFFICES ASSUME IInv, EndPass PROVE IInv'
  OBVIOUS
<1>1. pos = left + 1 /\ left \in Nat /\ srcNum \in 1 .. Len(sources)
  BY DEF IInv, PcInv, TypeOK, EndPass
<1>2. TypeOK'
  BY <1>1 DEF IInv, TypeOK, EndPass, graph, found
<1>3. GraphInv' /\ CacheInv' /\ MarkedInv'
  BY WalkStep DEF EndPass
<1>4. PcInv'
  BY <1>1 DEF IInv, PcInv, TypeOK, EndPass, graph, found
<1>5. DoneInv'
  <2>1. \A i \in 1 .. left : Expanded(i)
    BY <1>1 DEF IInv, DoneInv, EndPass
  <2>2. CoveredExpanded'
    BY <2>1, MembersFrame DEF CoveredExpanded, Expanded, EndPass, found, graph
  <2>q. QED
    BY <2>2 DEF DoneInv, EndPass
<1>6. LagInv'
  BY DEF IInv, LagInv, EndPass, found, graph
<1>q. QED
  BY <1>2, <1>3, <1>4, <1>5, <1>6 DEF IInv

\* An edge that needs nothing, or has been seen to, can be passed over.
LEMMA PassEdgeInv == IInv /\ PassEdge => IInv'
<1> SUFFICES ASSUME IInv, PassEdge PROVE IInv'
  OBVIOUS
<1>1. AtEdge
  BY DEF PassEdge
<1>2. TypeOK'
  BY DEF IInv, TypeOK, PassEdge, graph, found
<1>3. GraphInv' /\ CacheInv' /\ MarkedInv'
  BY WalkStep DEF PassEdge
<1>4. PcInv'
  BY DEF IInv, PcInv, TypeOK, PassEdge, graph, found
<1>5. DoneInv'
  <2>1. Begun(pos, nxt + 1)
    <3>1. Begun(pos, nxt)
      BY <1>1 DEF IInv, DoneInv, AtEdge
    <3>2. <<Src, Dst>> \in Flow => Dst \in visited
      BY DEF PassEdge, Flow, Type
    <3>3. nxt \in Nat
      BY DEF IInv, TypeOK
    <3>4. ASSUME NEW j \in 1 .. Len(out[cache[pos]]), j < nxt + 1,
                 <<cache[pos], out[cache[pos]][j]>> \in Flow
          PROVE  out[cache[pos]][j] \in visited
      <4>1. CASE j < nxt
        BY <3>1, <3>4, <4>1 DEF Begun
      <4>2. CASE j = nxt
        BY <3>2, <3>4, <4>2 DEF Src, Dst
      <4>q. QED
        BY <3>3, <3>4, <4>1, <4>2
    <3>q. QED
      BY <3>4 DEF Begun
  <2>2. ASSUME NEW i PROVE Expanded(i)' = Expanded(i)
    BY MembersFrame DEF Expanded, PassEdge, found
  <2>3. ASSUME NEW i, NEW k PROVE Begun(i, k) => Begun(i, k)'
    BY MembersFrame DEF Begun, PassEdge, found, graph
  <2>4. pos' = pos /\ nxt' = nxt + 1
    BY DEF PassEdge
  <2>5. Begun(pos, nxt)'
    BY <2>1, <2>4, MembersFrame DEF Begun, PassEdge, found, graph
  <2>6. \A i \in 1 .. left : i < pos => Expanded(i)'
    BY <1>1, <2>2 DEF IInv, DoneInv, AtEdge
  <2>q. QED
    BY <1>1, <2>5, <2>6 DEF DoneInv, CoveredExpanded, PassEdge, AtEdge
<1>6. LagInv'
  BY DEF IInv, LagInv, PassEdge, found, graph
<1>q. QED
  BY <1>2, <1>3, <1>4, <1>5, <1>6 DEF IInv

-----------------------------------------------------------------------------
\* What both kinds of new edge have in common: the node is marked and joins
\* the cache.
Mark ==
    /\ AtEdge /\ Dst \notin visited
    /\ visited' = visited \cup {Dst}
    /\ cache' = Append(cache, Dst)
    /\ nxt' = nxt + 1
    /\ UNCHANGED <<graph, pc, srcNum, pos, left>>

LEMMA MarkFacts ==
    ASSUME IInv, Mark
    PROVE  /\ cache' \in Seq(Node) /\ Len(cache') = Len(cache) + 1
           /\ \A i \in 1 .. Len(cache) : cache'[i] = cache[i]
           /\ cache'[Len(cache) + 1] = Dst
           /\ GraphInv' /\ CacheInv' /\ PcInv' /\ DoneInv'
<1>1. /\ pc = "node" /\ pos \in 1 .. left /\ pos \in 1 .. Len(cache)
      /\ nxt \in 1 .. Len(out[Src]) /\ Src \in Node /\ Dst \in Node
  BY EdgeFacts DEF Mark
<1>2. cache \in Seq(Node) /\ Len(cache) \in Nat /\ left \in Nat /\ left <= Len(cache)
  BY DEF IInv, TypeOK, PcInv
<1>3. /\ cache' \in Seq(Node) /\ Len(cache') = Len(cache) + 1
      /\ \A i \in 1 .. Len(cache) : cache'[i] = cache[i]
      /\ cache'[Len(cache) + 1] = Dst
  BY <1>1, <1>2, AppendMembers DEF Mark
<1>4. GraphInv'
  BY GraphFrame DEF IInv, Mark
<1>5. CacheInv'
  <2>1. sources # <<>>
    BY <1>1 DEF IInv, PcInv
  <2>2. ASSUME NEW i \in 1 .. Len(cache')
        PROVE  cache'[i] \in Members(sources) \cup visited'
    <3>1. CASE i \in 1 .. Len(cache)
      BY <3>1, <1>3 DEF IInv, CacheInv, Mark
    <3>2. CASE i = Len(cache) + 1
      BY <3>2, <1>3 DEF Mark
    <3>q. QED
      BY <1>2, <1>3, <2>2, <3>1, <3>2
  <2>q. QED
    BY <2>1, <2>2, MembersFrame DEF CacheInv, Mark, graph
<1>6. PcInv'
  BY <1>1, <1>2, <1>3 DEF IInv, PcInv, Mark, graph
<1>7. DoneInv'
  <2>1. ASSUME NEW i \in 1 .. left, i < pos PROVE Expanded(i)'
    <3>1. Expanded(i) /\ cache'[i] = cache[i]
      BY <1>1, <1>2, <1>3, <2>1 DEF IInv, DoneInv
    <3>q. QED
      BY <3>1, MembersFrame DEF Expanded, Mark
  <2>2. Begun(pos, nxt)'
    <3>1. Begun(pos, nxt) /\ cache'[pos] = cache[pos] /\ out' = out
      BY <1>1, <1>3 DEF IInv, DoneInv, Mark, graph
    <3>2. pos' = pos /\ nxt' = nxt + 1 /\ visited' = visited \cup {Dst}
      BY DEF Mark
    <3>3. nxt \in Nat
      BY DEF IInv, TypeOK
    <3>q. QED
      BY <3>1, <3>2, <3>3, MembersFrame DEF Begun, Mark, Src, Dst
  <2>q. QED
    BY <1>1, <2>1, <2>2 DEF DoneInv, CoveredExpanded, Mark
<1>q. QED
  BY <1>3, <1>4, <1>5, <1>6, <1>7

LEMMA ReturnEdgeInv == IInv /\ ReturnEdge => IInv'
<1> SUFFICES ASSUME IInv, ReturnEdge PROVE IInv'
  OBVIOUS
<1>1. Mark
  BY DEF Mark, ReturnEdge
<1>2. pc = "node" /\ Src \in Node /\ Dst \in Node
  BY <1>1, EdgeFacts DEF Mark
<1>3. TypeOK'
  BY <1>1, <1>2, MarkFacts DEF IInv, TypeOK, ReturnEdge, graph
<1>4. LagInv'
  <2>1. SUFFICES ASSUME ~change, NEW i \in left + 1 .. Len(cache')
                 PROVE  \E s \in Node : "RET" \in kind[<<s, cache'[i]>>]
    BY <1>2 DEF LagInv, ReturnEdge, graph
  <2>2. CASE i \in 1 .. Len(cache)
    <3>1. cache'[i] = cache[i] /\ i \in left + 1 .. Len(cache)
      BY <1>1, <2>1, <2>2, MarkFacts DEF IInv, TypeOK
    <3>q. QED
      BY <1>2, <2>1, <3>1 DEF IInv, LagInv
  <2>3. CASE i = Len(cache) + 1
    BY <1>1, <1>2, <2>3, MarkFacts DEF ReturnEdge, Type
  <2>4. Len(cache') = Len(cache) + 1 /\ Len(cache) \in Nat /\ left \in Nat
    BY <1>1, MarkFacts DEF IInv, TypeOK
  <2>5. i \in 1 .. Len(cache) \/ i = Len(cache) + 1
    BY <2>1, <2>4
  <2>q. QED
    BY <2>2, <2>3, <2>5
<1>5. MarkedInv'
  BY DEF IInv, MarkedInv, InvokedOnce, ReturnEdge
<1>q. QED
  BY <1>1, <1>3, <1>4, <1>5, MarkFacts DEF IInv

LEMMA DataEdgeInv == IInv /\ DataEdge => IInv'
<1> SUFFICES ASSUME IInv, DataEdge PROVE IInv'
  OBVIOUS
<1>1. Mark
  BY DEF Mark, DataEdge
<1>2. pc = "node" /\ Src \in Node /\ Dst \in Node
  BY <1>1, EdgeFacts DEF Mark
<1>3. /\ invoked \in Seq(Node \X Node) /\ invoked' \in Seq(Node \X Node)
      /\ Len(invoked') = Len(invoked) + 1 /\ Len(invoked) \in Nat
      /\ \A i \in 1 .. Len(invoked) : invoked'[i] = invoked[i]
      /\ invoked'[Len(invoked) + 1] = <<Src, Dst>>
  <2>1. invoked \in Seq(Node \X Node) /\ <<Src, Dst>> \in Node \X Node
    BY <1>2 DEF IInv, TypeOK
  <2>q. QED
    BY <2>1, AppendMembers DEF DataEdge
<1>4. TypeOK'
  BY <1>1, <1>2, <1>3, MarkFacts DEF IInv, TypeOK, DataEdge, graph
<1>5. LagInv'
  BY <1>2 DEF LagInv, DataEdge
<1>6. MarkedInv'
  <2>1. \A i \in 1 .. Len(invoked) : invoked[i][2] \in visited
    BY DEF IInv, MarkedInv
  <2>2. Dst \notin visited /\ visited' = visited \cup {Dst}
    BY DEF DataEdge
  <2>3. ASSUME NEW i \in 1 .. Len(invoked')
        PROVE  /\ invoked'[i][2] \in visited'
               /\ invoked'[i][2] = Dst <=> i = Len(invoked) + 1
    <3>1. CASE i \in 1 .. Len(invoked)
      BY <1>3, <2>1, <2>2, <3>1
    <3>2. CASE i = Len(invoked) + 1
      BY <1>3, <2>2, <3>2
    <3>q. QED
      BY <1>3, <2>3, <3>1, <3>2
  <2>4. ASSUME NEW i \in 1 .. Len(invoked'), NEW j \in 1 .. Len(invoked'),
               invoked'[i][2] = invoked'[j][2]
        PROVE  i = j
    <3>1. CASE i = Len(invoked) + 1
      BY <2>3, <2>4, <3>1
    <3>2. CASE i # Len(invoked) + 1
      <4>1. j # Len(invoked) + 1
        BY <2>3, <2>4, <3>2
      <4>2. i \in 1 .. Len(invoked) /\ j \in 1 .. Len(invoked)
        BY <1>3, <3>2, <4>1
      <4>q. QED
        BY <1>3, <2>4, <4>2 DEF IInv, MarkedInv, InvokedOnce
    <3>q. QED
      BY <3>1, <3>2
  <2>q. QED
    BY <2>3, <2>4 DEF MarkedInv, InvokedOnce
<1>q. QED
  BY <1>1, <1>4, <1>5, <1>6, MarkFacts DEF IInv

-----------------------------------------------------------------------------
LEMMA InsertInv == ASSUME NEW n \in Node PROVE IInv /\ Insert(n) => IInv'
<1> SUFFICES ASSUME IInv, Insert(n) PROVE IInv'
  OBVIOUS
<1>1. Grows(n) /\ BeginVisit /\ pc = "idle" /\ n \notin nodes
  BY DEF Insert, Grows
<1>2. sources' \in Seq(Node) /\ Len(sources') \in Nat
  <2>1. sources \in Seq(Node) /\ sources' \in {sources, Append(sources, n)}
    BY <1>1 DEF IInv, TypeOK, Grows
  <2>2. Append(sources, n) \in Seq(Node)
    BY <2>1, AppendMembers
  <2>q. QED
    BY <2>1, <2>2
<1>3. TypeOK'
  <2>1. /\ nodes' \subseteq Node /\ out' \in [Node -> Seq(Node)]
        /\ kind' \in [Node \X Node -> SUBSET EdgeKind]
    BY <1>1 DEF IInv, TypeOK, Grows
  <2>2. srcNum' \in Nat /\ pc' \in {"idle", "source", "pass", "node"}
    BY <1>1, <1>2 DEF BeginVisit
  <2>q. QED
    BY <1>1, <1>2, <2>1, <2>2 DEF IInv, TypeOK, BeginVisit, found
<1>4. GraphInv'
  <2>1. \A e \in Node \X Node : kind'[e] # {} => {e[1], e[2]} \subseteq nodes'
    BY <1>1 DEF Grows
  <2>2. ASSUME NEW s \in Node
        PROVE  Members(out'[s]) = {d \in Node : kind'[<<s, d>>] # {}}
    <3>1. CASE s = n
      BY <1>1, <3>1 DEF Grows
    <3>2. CASE s # n
      <4>1. Members(out[s]) = {d \in Node : kind[<<s, d>>] # {}}
        BY DEF IInv, GraphInv
      <4>2. ASSUME NEW d \in Node, d # n PROVE kind'[<<s, d>>] = kind[<<s, d>>]
        <5>1. <<s, d>> \in Node \X Node /\ n \notin {<<s, d>>[1], <<s, d>>[2]}
          BY <3>2, <4>2
        <5>q. QED
          BY <1>1, <5>1 DEF Grows
      <4>3. kind[<<s, n>>] = {}
        BY <1>1 DEF IInv, GraphInv
      <4>4. CASE kind'[<<s, n>>] = {}
        <5>1. out'[s] = out[s]
          BY <1>1, <3>2, <4>4 DEF Grows
        <5>q. QED
          BY <4>1, <4>2, <4>3, <4>4, <5>1
      <4>5. CASE kind'[<<s, n>>] # {}
        <5>1. out'[s] = Append(out[s], n) /\ out[s] \in Seq(Node)
          BY <1>1, <3>2, <4>5 DEF Grows, IInv, TypeOK
        <5>2. Members(out'[s]) = Members(out[s]) \cup {n}
          BY <5>1, AppendMembers
        <5>q. QED
          BY <4>1, <4>2, <4>3, <4>5, <5>2
      <4>q. QED
        BY <4>4, <4>5
    <3>q. QED
      BY <3>1, <3>2
  <2>q. QED
    BY <2>1, <2>2 DEF GraphInv, Members
<1>5. Members(sources) \subseteq Members(sources') /\ (sources' = <<>> => sources = <<>>)
  <2>1. CASE sources' = sources
    BY <2>1
  <2>2. CASE sources' = Append(sources, n)
    <3>1. sources \in Seq(Node)
      BY DEF IInv, TypeOK
    <3>2. /\ Members(Append(sources, n)) = Members(sources) \cup {n}
          /\ Len(Append(sources, n)) = Len(sources) + 1 /\ Len(sources) \in Nat
      BY <3>1, AppendMembers
    <3>q. QED
      BY <2>2, <3>2
  <2>q. QED
    BY <1>1, <2>1, <2>2 DEF Grows
<1>6. CacheInv'
  BY <1>1, <1>5 DEF IInv, CacheInv, BeginVisit, found, Members
<1>7. PcInv'
  BY <1>1, <1>2 DEF IInv, PcInv, BeginVisit, found
<1>8. pc' = "idle" => cache = <<>> /\ left = 0
  <2>1. ASSUME pc' = "idle" PROVE sources' = <<>>
    BY <1>1, <1>2, <2>1 DEF BeginVisit
  <2>2. ASSUME sources' = <<>> PROVE cache = <<>> /\ left = 0
    <3>1. cache = <<>>
      BY <1>5, <2>2 DEF IInv, CacheInv
    <3>q. QED
      BY <3>1 DEF IInv, PcInv, TypeOK
  <2>q. QED
    BY <2>1, <2>2
<1>9. pc' \in {"idle", "source"} /\ cache' = cache /\ left' = left
  BY <1>1 DEF BeginVisit, found
<1>10. DoneInv'
  BY <1>8, <1>9 DEF DoneInv, CoveredExpanded
<1>11. LagInv'
  BY <1>8, <1>9 DEF LagInv
<1>12. MarkedInv'
  BY <1>1 DEF IInv, MarkedInv, InvokedOnce, BeginVisit, found
<1>q. QED
  BY <1>3, <1>4, <1>6, <1>7, <1>10, <1>11, <1>12 DEF IInv

LEMMA StutterInv == IInv /\ UNCHANGED vars => IInv'
<1> SUFFICES ASSUME IInv, UNCHANGED vars PROVE IInv'
  OBVIOUS
<1> USE DEF vars, graph, walk, found
<1>1. TypeOK'
  BY DEF IInv, TypeOK
<1>2. GraphInv' /\ CacheInv' /\ MarkedInv'
  BY WalkStep
<1>3. PcInv' /\ LagInv'
  BY DEF IInv, PcInv, LagInv
<1>4. DoneInv'
  BY MembersFrame DEF IInv, DoneInv, CoveredExpanded, Expanded, Begun
<1>q. QED
  BY <1>1, <1>2, <1>3, <1>4 DEF IInv

-----------------------------------------------------------------------------
(***************************************************************************)
(* Theorems                                                                *)
(***************************************************************************)
LEMMA VisitInv == IInv /\ Visit => IInv'
BY ProcSourceInv, BeginPassInv, PassEdgeInv, ReturnEdgeInv, DataEdgeInv,
   NextNodeInv, EndPassInv DEF Visit

\* The inductive invariant, on which the other theorems rest.
THEOREM VisitInvariant == OpenSpec => []IInv
<1>1. Init => IInv
  BY InitInv
<1>2. IInv /\ [Visit \/ \E n \in Node : Insert(n)]_vars => IInv'
  BY VisitInv, InsertInv, StutterInv
<1>q. QED
  BY <1>1, <1>2, PTL DEF OpenSpec

\* Every variable keeps its type; in particular the data id ProcSource is
\* given stays a natural number while the sources are counted down.
THEOREM VisitTypes == OpenSpec => []TypeOK
<1>1. IInv => TypeOK
  BY DEF IInv
<1>q. QED
  BY <1>1, VisitInvariant, PTL

\* However the graph grows, InvokePlugins is called at most once per node.
THEOREM PluginsInvokedOnce == OpenSpec => []InvokedOnce
<1>1. IInv => InvokedOnce
  BY DEF IInv, MarkedInv
<1>q. QED
  BY <1>1, VisitInvariant, PTL

\* After a visit the flows out of the part of the cache that the last pass
\* covered have all been followed.
THEOREM VisitCovers == OpenSpec => []CoveredExpanded
<1>1. IInv => CoveredExpanded
  BY DEF IInv, DoneInv
<1>q. QED
  BY <1>1, VisitInvariant, PTL

\* What a visit may leave for the next event to follow came over return edges.
THEOREM VisitLags == OpenSpec => []OnlyReturnsLag
<1>1. IInv => OnlyReturnsLag
  BY DEF IInv, LagInv, OnlyReturnsLag
<1>q. QED
  BY <1>1, VisitInvariant, PTL

-----------------------------------------------------------------------------
LEMMA MarkDiscovers == IInv /\ (ReturnEdge \/ DataEdge) => Taint!Discover
<1> SUFFICES ASSUME IInv, ReturnEdge \/ DataEdge PROVE Taint!Discover
  OBVIOUS
<1>1. AtEdge /\ Dst \notin visited /\ visited' = visited \cup {Dst} /\ UNCHANGED graph
  BY DEF ReturnEdge, DataEdge
<1>2. /\ Src \in Node /\ Dst \in Node
      /\ Src \in Members(sources) \cup visited
  BY <1>1, EdgeFacts
<1>3. <<Src, Dst>> \in Flow
  BY <1>2 DEF ReturnEdge, DataEdge, Flow, Type
<1>4. UNCHANGED <<Flow, Members(sources)>>
  BY <1>1, MembersFrame
<1>5. <<Src, Dst>>[1] = Src /\ <<Src, Dst>>[2] = Dst
  OBVIOUS
<1>q. QED
  BY <1>1, <1>2, <1>3, <1>4, <1>5 DEF Taint!Discover

LEMMA InsertGrows ==
    ASSUME NEW n \in Node PROVE IInv /\ Insert(n) => Taint!Grow
<1> SUFFICES ASSUME IInv, Insert(n) PROVE Taint!Grow
  OBVIOUS
<1>1. Grows(n) /\ visited' = visited
  BY DEF Insert, BeginVisit, found
<1>2. Flow \subseteq Flow'
  <2>1. ASSUME NEW e \in Node \X Node, kind[e] \cap {"DIF", "RET"} # {}
        PROVE  kind'[e] = kind[e]
    <3>1. {e[1], e[2]} \subseteq nodes
      BY <2>1 DEF IInv, GraphInv
    <3>q. QED
      BY <1>1, <3>1 DEF Grows
  <2>q. QED
    BY <2>1 DEF Flow
<1>3. Flow' \subseteq Node \X Node
  BY DEF Flow
<1>4. Members(sources) \subseteq Members(sources')
  <2>1. sources \in Seq(Node) /\ sources' \in {sources, Append(sources, n)}
    BY <1>1 DEF IInv, TypeOK, Grows
  <2>2. Members(Append(sources, n)) = Members(sources) \cup {n}
    BY <2>1, AppendMembers
  <2>q. QED
    BY <2>1, <2>2
<1>5. Members(sources') \subseteq Node
  <2>1. sources' \in Seq(Node)
    BY InsertInv DEF IInv, TypeOK
  <2>q. QED
    BY <2>1 DEF Members
<1>6. Members(sources)' = Members(sources')
  BY DEF Members
<1>q. QED
  BY <1>1, <1>2, <1>3, <1>4, <1>5, <1>6 DEF Taint!Grow

\* In every behaviour of the abstract visit whatever is reached is tainted, over the
\* flows and the sources ProcSource works on: what the code is held to below.
THEOREM SpreadIsTainted == Taint!Spec => []Taint!OnlyTainted
<1>1. Taint!Init => Taint!OnlyTainted
  BY DEF Taint!Init, Taint!OnlyTainted
<1>2. Taint!OnlyTainted /\ [Taint!Next]_Taint!tvars => Taint!OnlyTainted'
  <2> SUFFICES ASSUME Taint!OnlyTainted, [Taint!Next]_Taint!tvars,
                      NEW S \in SUBSET Node, Members(sources)' \subseteq S, Taint!Closed(S)'
               PROVE  visited' \subseteq S
    BY DEF Taint!OnlyTainted
  <2>1. CASE Taint!Grow
    BY <2>1 DEF Taint!Grow, Taint!OnlyTainted, Taint!Closed
  <2>2. CASE Taint!Discover
    <3>1. visited \subseteq S
      BY <2>2 DEF Taint!Discover, Taint!OnlyTainted, Taint!Closed
    <3>2. PICK e \in Flow : e[1] \in Members(sources) \cup visited /\ visited' = visited \cup {e[2]}
      BY <2>2 DEF Taint!Discover
    <3>3. e[1] \in S => e[2] \in S
      BY <2>2 DEF Taint!Discover, Taint!Closed
    <3>q. QED
      BY <2>2, <3>1, <3>2, <3>3 DEF Taint!Discover
  <2>3. CASE UNCHANGED Taint!tvars
    BY <2>3 DEF Taint!tvars, Taint!OnlyTainted, Taint!Closed
  <2>q. QED
    BY <2>1, <2>2, <2>3 DEF Taint!Next
<1>q. QED
  BY <1>1, <1>2, PTL DEF Taint!Spec

\* However the graph grows, every node the visit marks is one flow away from a
\* source or from a marked node: ProcSource implements TaintSpread.
THEOREM VisitIsSound == OpenSpec => SoundTaint
<1>1. Init => Taint!Init
  <2> SUFFICES ASSUME Init PROVE Taint!Init
    OBVIOUS
  <2>1. Flow = {} /\ Members(sources) = {} /\ visited = {}
    BY DEF Init, Flow, Members
  <2>q. QED
    BY <2>1 DEF Taint!Init
<1>2. ASSUME IInv, [Visit \/ \E n \in Node : Insert(n)]_vars
      PROVE  [Taint!Next]_<<Flow, Members(sources), visited>>
  <2>1. CASE ReturnEdge \/ DataEdge
    BY <1>2, <2>1, MarkDiscovers DEF Taint!Next
  <2>2. CASE UNCHANGED <<graph, visited>>
    BY <2>2, MembersFrame
  <2>3. CASE \E n \in Node : Insert(n)
    BY <1>2, <2>3, InsertGrows DEF Taint!Next
  <2>q. QED
    BY <1>2, <2>1, <2>2, <2>3
    DEF Visit, vars, found, ProcSource, BeginPass, PassEdge, NextNode, EndPass
<1>q. QED
  BY <1>1, <1>2, VisitInvariant, PTL DEF OpenSpec, SoundTaint, Taint!Spec, Taint!tvars

\* So a node the plugins may be asked about lies in every set that contains the
\* sources and is closed under the data and return edges.
THEOREM MarksAreTainted == OpenSpec => []Taint!OnlyTainted
BY VisitIsSound, SpreadIsTainted, PTL DEF SoundTaint

-----------------------------------------------------------------------------
\* The choice TLC enumerates is one of those Grows allows.
LEMMA DifEngineInserts ==
    ASSUME NEW n \in Node PROVE IInv /\ DifEngine(n) => Insert(n)
<1> SUFFICES ASSUME IInv, DifEngine(n) PROVE Insert(n)
  OBVIOUS
<1>a. PICK ins \in SUBSET nodes, outs \in Lists(nodes), isSource \in BOOLEAN :
        LET new == (ins \X {n}) \cup ({n} \X Members(outs))
        IN  /\ \E k \in [new -> Kinds] :
                 kind' = [e \in Node \X Node |->
                            IF e \in new THEN k[e] ELSE kind[e]]
            /\ out' = [s \in Node |-> IF s = n THEN outs
                                      ELSE IF s \in ins THEN Append(out[s], n)
                                      ELSE out[s]]
            /\ sources' = IF isSource THEN Append(sources, n) ELSE sources
  BY ZenonT(60) DEF DifEngine
<1>1. PICK k \in [(ins \X {n}) \cup ({n} \X Members(outs)) -> Kinds] :
        /\ kind' = [e \in Node \X Node |->
                      IF e \in (ins \X {n}) \cup ({n} \X Members(outs))
                      THEN k[e] ELSE kind[e]]
        /\ out' = [s \in Node |-> IF s = n THEN outs
                                  ELSE IF s \in ins THEN Append(out[s], n)
                                  ELSE out[s]]
        /\ sources' = IF isSource THEN Append(sources, n) ELSE sources
  BY <1>a, Zenon
<1>2. /\ n \notin nodes /\ nodes' = nodes \cup {n} /\ pc = "idle" /\ BeginVisit
      /\ nodes \subseteq Node
  BY DEF DifEngine, IInv, TypeOK
<1>3. /\ outs \in Seq(Node) /\ Members(outs) \subseteq nodes
      /\ \A i, j \in 1 .. Len(outs) : outs[i] = outs[j] => i = j
  <2>1. PICK m \in 0 .. MaxEdges : outs \in [1 .. m -> nodes]
    BY DEF Lists
  <2>2. m \in Nat
    BY <2>1, VisitAssumption
  <2>3. outs \in Seq(nodes) /\ Len(outs) = m
    BY <2>1, <2>2
  <2>4. outs \in Seq(Node)
    BY <1>2, <2>1, <2>2
  <2>q. QED
    BY <2>3, <2>4 DEF Members, Lists
<1> DEFINE new == (ins \X {n}) \cup ({n} \X Members(outs))
<1>4. /\ new \subseteq Node \X Node
      /\ \A e \in new : /\ n \in {e[1], e[2]} /\ {e[1], e[2]} \subseteq nodes'
                        /\ kind'[e] \in Kinds
      /\ \A e \in (Node \X Node) \ new : kind'[e] = kind[e]
      /\ <<n, n>> \notin new
  BY <1>1, <1>2, <1>3
<1>5. \A e \in new : kind'[e] # {} /\ kind'[e] \subseteq EdgeKind
  BY <1>4, VisitAssumption
<1>6. \A e \in Node \X Node : kind[e] # {} => {e[1], e[2]} \subseteq nodes
  BY DEF IInv, GraphInv
<1>7. \A s \in Node : kind[<<s, n>>] = {} /\ kind[<<n, s>>] = {}
  BY <1>2, <1>6
<1>8. kind' \in [Node \X Node -> SUBSET EdgeKind]
  BY <1>1, <1>4, <1>5 DEF IInv, TypeOK
<1>9. \A e \in Node \X Node : kind'[e] = kind[e] \/ n \in {e[1], e[2]}
  BY <1>4
<1>10. \A e \in Node \X Node : kind'[e] = {} \/ {e[1], e[2]} \subseteq nodes'
  BY <1>2, <1>4, <1>6
<1>11. kind'[<<n, n>>] = {}
  BY <1>4, <1>7
<1>12. ASSUME NEW s \in Node \ {n}
       PROVE  out'[s] = IF kind'[<<s, n>>] = {} THEN out[s] ELSE Append(out[s], n)
  <2>1. CASE s \in ins
    BY <1>1, <1>4, <1>5, <2>1
  <2>2. CASE s \notin ins
    <3>1. <<s, n>> \in (Node \X Node) \ new
      BY <2>2
    <3>q. QED
      BY <1>1, <1>4, <1>7, <2>2, <3>1
  <2>q. QED
    BY <2>1, <2>2
<1>13. out'[n] = outs
  BY <1>1
<1>14. Members(outs) = {d \in Node : kind'[<<n, d>>] # {}}
  <2>1. ASSUME NEW d \in Node PROVE d \in Members(outs) <=> kind'[<<n, d>>] # {}
    <3>1. CASE d \in Members(outs)
      BY <1>5, <3>1
    <3>2. CASE d \notin Members(outs)
      <4>1. <<n, d>> \in (Node \X Node) \ new
        BY <1>2, <3>2
      <4>q. QED
        BY <1>4, <1>7, <3>2, <4>1
    <3>q. QED
      BY <3>1, <3>2
  <2>q. QED
    BY <1>2, <1>3, <2>1
<1>15. out' \in [Node -> Seq(Node)]
  <2>1. ASSUME NEW s \in Node
        PROVE  (IF s = n THEN outs ELSE IF s \in ins THEN Append(out[s], n)
                ELSE out[s]) \in Seq(Node)
    <3>1. out[s] \in Seq(Node)
      BY DEF IInv, TypeOK
    <3>2. Append(out[s], n) \in Seq(Node)
      BY <3>1, AppendMembers
    <3>q. QED
      BY <1>3, <3>1, <3>2
  <2>q. QED
    BY <1>1, <2>1
<1>16. /\ Members(out'[n]) = {d \in Node : kind'[<<n, d>>] # {}}
       /\ \A i, j \in 1 .. Len(out'[n]) : out'[n][i] = out'[n][j] => i = j
  BY <1>3, <1>13, <1>14
<1>17. sources' \in {sources, Append(sources, n)}
  BY <1>1
<1>18. Grows(n)
  BY Zenon, <1>2, <1>8, <1>9, <1>10, <1>11, <1>12, <1>15, <1>16, <1>17 DEF Grows
<1>q. QED
  BY <1>2, <1>18 DEF Insert

\* What TLC explores is a case of OpenSpec, so every theorem above holds of it.
THEOREM BoundedIsOpen == Spec => OpenSpec
<1>1. Init => IInv
  BY InitInv
<1>2. IInv /\ [Next]_vars => [Visit \/ \E n \in Node : Insert(n)]_vars
  BY DifEngineInserts DEF Next
<1>3. IInv /\ [Visit \/ \E n \in Node : Insert(n)]_vars => IInv'
  BY VisitInv, InsertInv, StutterInv
<1>q. QED
  BY <1>1, <1>2, <1>3, PTL DEF Spec, OpenSpec
=============================================================================
