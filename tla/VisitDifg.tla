------------------------------ MODULE VisitDifg ------------------------------
(***************************************************************************)
(* How the engine follows tainted data through the information-flow graph  *)
(* (VisitDifg and ProcSource in Plugins.c).  DifEngine adds one node per   *)
(* new event and then visits: every node of VisitCache, a list that lives  *)
(* on from visit to visit, is asked for its DIF and RET successors, and    *)
(* each node met for the first time joins the list.  Passes over the list  *)
(* are repeated until one of them changes nothing.                         *)
(*                                                                         *)
(* Which edges an event adds is left open here (DifGraph computes them):   *)
(* each has the new node at one end and joins two nodes once.  No edge of  *)
(* the code starts and ends in the same node.  The engine is one thread,   *)
(* so steps of a visit do not interleave with insertions.                  *)
(***************************************************************************)
EXTENDS Naturals, Sequences, FiniteSets

CONSTANTS
    Node,      \* nodes that events may create
    Kinds,     \* the EdgeTypes an edge may have: non-empty sets of kinds
    MaxEdges   \* bound: edges one event adds

EdgeKind == {"CG", "RET", "CF", "DIF", "THRC", "TDIF"}

ASSUME VisitAssumption ==
    /\ Kinds \subseteq SUBSET EdgeKind
    /\ {} \notin Kinds
    /\ MaxEdges \in Nat

VARIABLES
    nodes,     \* nodes in the graph
    out,       \* per node: the OutEdge list, as the list of the other ends
    kind,      \* per pair of nodes: EdgeType, {} where there is no edge
    sources,   \* the nodes of the table of sources, by data id
    pc,        \* "idle" between two events
    srcNum,    \* SrcNum in VisitDifg
    cache,     \* VisitCache
    visited,   \* nodes whose VisitBits are set
    pos,       \* Last, as a position in cache
    left,      \* the length NodeNum was given at the start of the pass
    nxt,       \* LE, as a position in the OutEdge list
    change,    \* ListChange
    invoked    \* the calls of InvokePlugins so far, <<SrcNode, DstNode>>

graph == <<nodes, out, kind, sources>>
walk  == <<srcNum, pos, left, nxt, change>>
found == <<cache, visited, invoked>>
vars  == <<graph, pc, walk, found>>

Init ==
    /\ nodes = {} /\ sources = <<>>
    /\ out = [n \in Node |-> <<>>]
    /\ kind = [e \in Node \X Node |-> {}]
    /\ pc = "idle" /\ srcNum = 0
    /\ cache = <<>> /\ visited = {} /\ invoked = <<>>
    /\ pos = 1 /\ left = 0 /\ nxt = 1 /\ change = FALSE

Members(s) == {s[i] : i \in 1 .. Len(s)}

\* Lists of different nodes of S.
Lists(S) == {s \in UNION {[1 .. m -> S] : m \in 0 .. MaxEdges} :
               \A i, j \in 1 .. Len(s) : s[i] = s[j] => i = j}

\* What DifEngine does to the graph for the first event n: the edges it adds
\* have n at one end, an OutEdge list names an edge once, and AddSource follows
\* the event id.
Grows(n) ==
    /\ n \notin nodes /\ nodes' = nodes \cup {n}
    /\ kind' \in [Node \X Node -> SUBSET EdgeKind]
    /\ \A e \in Node \X Node : kind'[e] = kind[e] \/ n \in {e[1], e[2]}
    /\ \A e \in Node \X Node : kind'[e] = {} \/ {e[1], e[2]} \subseteq nodes'
    /\ kind'[<<n, n>>] = {}
    /\ out' \in [Node -> Seq(Node)]
    /\ \A s \in Node \ {n} : out'[s] = IF kind'[<<s, n>>] = {} THEN out[s]
                                       ELSE Append(out[s], n)
    /\ Members(out'[n]) = {d \in Node : kind'[<<n, d>>] # {}}
    /\ \A i, j \in 1 .. Len(out'[n]) : out'[n][i] = out'[n][j] => i = j
    /\ sources' \in {sources, Append(sources, n)}

\* Then VisitDifg, which returns at once when there is no source.
BeginVisit ==
    /\ srcNum' = Len(sources')
    /\ pc' = IF srcNum' = 0 THEN "idle" ELSE "source"
    /\ UNCHANGED <<pos, left, nxt, change, found>>

\* Any such growth, for the proofs and for DifGraph to implement; and the same
\* as a choice TLC can enumerate, bounded by MaxEdges.
Insert(n) == pc = "idle" /\ Grows(n) /\ BeginVisit

DifEngine(n) ==
    /\ pc = "idle" /\ n \notin nodes
    /\ nodes' = nodes \cup {n}
    /\ \E ins \in SUBSET nodes, outs \in Lists(nodes), isSource \in BOOLEAN :
         LET new == (ins \X {n}) \cup ({n} \X Members(outs))
         IN  /\ Cardinality(new) <= MaxEdges
             /\ \E k \in [new -> Kinds] :
                  kind' = [e \in Node \X Node |->
                             IF e \in new THEN k[e] ELSE kind[e]]
             /\ out' = [s \in Node |-> IF s = n THEN outs
                                       ELSE IF s \in ins THEN Append(out[s], n)
                                       ELSE out[s]]
             /\ sources' = IF isSource THEN Append(sources, n) ELSE sources
    /\ BeginVisit

\* ProcSource for the source with data id SrcNum.  GetLastVisit puts it in the
\* cache only if the cache is empty.
ProcSource ==
    /\ pc = "source"
    /\ cache' = IF cache = <<>> THEN <<sources[srcNum]>> ELSE cache
    /\ pc' = "pass"
    /\ UNCHANGED <<graph, walk, visited, invoked>>

BeginPass_KeepChange ==
    /\ pc = "pass" /\ pc' = "node"
    /\ pos' = 1 /\ left' = Len(cache) /\ nxt' = 1
    /\ UNCHANGED <<graph, srcNum, change, found>>

\* One pass covers the cache as long as it is at the start of the pass.
BeginPass ==
    /\ pc = "pass" /\ pc' = "node"
    /\ pos' = 1 /\ left' = Len(cache) /\ nxt' = 1 /\ change' = FALSE
    /\ UNCHANGED <<graph, srcNum, found>>

Src == cache[pos]
Dst == out[Src][nxt]
Type == kind[<<Src, Dst>>]
AtEdge == pc = "node" /\ pos <= left /\ nxt <= Len(out[Src])

PassEdge_Break ==
    /\ AtEdge
    /\ Type \cap {"DIF", "RET"} = {} \/ Dst \in visited
    /\ nxt' = Len(out[Src]) + 1
    /\ UNCHANGED <<graph, pc, srcNum, pos, left, change, found>>

\* The edge carries no data, or leads to a node visited before.
PassEdge ==
    /\ AtEdge
    /\ Type \cap {"DIF", "RET"} = {} \/ Dst \in visited
    /\ nxt' = nxt + 1
    /\ UNCHANGED <<graph, pc, srcNum, pos, left, change, found>>

\* A return edge, whatever else it is: the node joins the cache, but plugins
\* are not invoked and the pass does not count as a change.
ReturnEdge ==
    /\ AtEdge
    /\ "RET" \in Type /\ Dst \notin visited
    /\ visited' = visited \cup {Dst}
    /\ cache' = Append(cache, Dst)
    /\ nxt' = nxt + 1
    /\ UNCHANGED <<graph, pc, srcNum, pos, left, change, invoked>>

DataEdge_AnyKind ==
    /\ AtEdge
    /\ "RET" \notin Type /\ Dst \notin visited
    /\ visited' = visited \cup {Dst}
    /\ invoked' = Append(invoked, <<Src, Dst>>)
    /\ cache' = Append(cache, Dst)
    /\ change' = TRUE
    /\ nxt' = nxt + 1
    /\ UNCHANGED <<graph, pc, srcNum, pos, left>>

DataEdge_NoChange ==
    /\ AtEdge
    /\ "DIF" \in Type /\ "RET" \notin Type /\ Dst \notin visited
    /\ visited' = visited \cup {Dst}
    /\ invoked' = Append(invoked, <<Src, Dst>>)
    /\ cache' = Append(cache, Dst)
    /\ nxt' = nxt + 1
    /\ UNCHANGED <<graph, pc, srcNum, pos, left, change>>

DataEdge_NotMarked ==
    /\ AtEdge
    /\ "DIF" \in Type /\ "RET" \notin Type /\ Dst \notin visited
    /\ invoked' = Append(invoked, <<Src, Dst>>)
    /\ cache' = Append(cache, Dst)
    /\ change' = TRUE
    /\ nxt' = nxt + 1
    /\ UNCHANGED <<graph, pc, srcNum, pos, left, visited>>

DataEdge ==
    /\ AtEdge
    /\ "DIF" \in Type /\ "RET" \notin Type /\ Dst \notin visited
    /\ visited' = visited \cup {Dst}
    /\ invoked' = Append(invoked, <<Src, Dst>>)
    /\ cache' = Append(cache, Dst)
    /\ change' = TRUE
    /\ nxt' = nxt + 1
    /\ UNCHANGED <<graph, pc, srcNum, pos, left>>

NextNode ==
    /\ pc = "node" /\ pos <= left /\ nxt > Len(out[Src])
    /\ pos' = pos + 1 /\ nxt' = 1
    /\ UNCHANGED <<graph, pc, srcNum, left, change, found>>

EndPass_OneMore ==
    /\ pc = "node" /\ pos > left
    /\ IF change THEN pc' = "pass" /\ srcNum' = srcNum
       ELSE /\ srcNum' = srcNum - 1
            /\ pc' = IF srcNum >= 0 THEN "source" ELSE "idle"
    /\ UNCHANGED <<graph, pos, left, nxt, change, found>>

\* Another pass if this one invoked plugins; otherwise the next source.
EndPass ==
    /\ pc = "node" /\ pos > left
    /\ IF change THEN pc' = "pass" /\ srcNum' = srcNum
       ELSE /\ srcNum' = srcNum - 1
            /\ pc' = IF srcNum' > 0 THEN "source" ELSE "idle"
    /\ UNCHANGED <<graph, pos, left, nxt, change, found>>

Visit ==
    \/ ProcSource \/ BeginPass
    \/ PassEdge \/ ReturnEdge \/ DataEdge
    \/ NextNode \/ EndPass

Next == Visit \/ \E n \in Node : DifEngine(n)

Spec == Init /\ [][Next]_vars

\* The visit of a graph that grows in any way Grows allows.
OpenSpec == Init /\ [][Visit \/ \E n \in Node : Insert(n)]_vars

\* The engine's thread goes on with a visit once it has begun one; nothing
\* obliges the traced program to send events.
FairSpec == Spec /\ WF_vars(Visit)
-----------------------------------------------------------------------------
(***************************************************************************)
(* Properties                                                              *)
(***************************************************************************)
TypeOK ==
    /\ nodes \subseteq Node
    /\ out \in [Node -> Seq(Node)]
    /\ kind \in [Node \X Node -> SUBSET EdgeKind]
    /\ sources \in Seq(Node)
    /\ pc \in {"idle", "source", "pass", "node"}
    /\ srcNum \in Nat
    /\ cache \in Seq(Node)
    /\ visited \subseteq Node
    /\ pos \in Nat /\ left \in Nat /\ nxt \in Nat
    /\ change \in BOOLEAN
    /\ invoked \in Seq(Node \X Node)

Flow == {e \in Node \X Node : kind[e] \cap {"DIF", "RET"} # {}}

Taint == INSTANCE TaintSpread WITH flow <- Flow, seeds <- Members(sources),
                                   reached <- visited

\* Each node the visit marks is one flow away from a source or from a node it
\* marked before: GET_VISIT, SET_VISIT and the cache never invent a taint.
SoundTaint == Taint!Spec

\* The plugins see a node once, however many flows lead to it and however
\* often the cache is walked again, so a sink is reported once.
InvokedOnce ==
    \A i, j \in 1 .. Len(invoked) : invoked[i][2] = invoked[j][2] => i = j

\* What a visit leaves behind: the successors of every node in the part of the
\* cache the last pass covered are visited ...
CoveredExpanded ==
    pc = "idle" => \A i \in 1 .. left : \A d \in Node :
                     <<cache[i], d>> \in Flow => d \in visited

\* ... and what the last pass added to the cache came over return edges.
OnlyReturnsLag ==
    pc = "idle" => \A i \in left + 1 .. Len(cache) :
                     \E s \in Node : "RET" \in kind[<<s, cache[i]>>]

\* A visit ends although it walks its list again after every change.
Settles == pc # "idle" ~> pc = "idle"
=============================================================================
