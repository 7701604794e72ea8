----------------------------- MODULE TaintSpread -----------------------------
(***************************************************************************)
(* What a visitor of a growing information-flow graph may report: a node   *)
(* is reached only over one edge of the flow, from a source or from a node *)
(* reached before.  Edges and sources are added while the visit goes on.   *)
(***************************************************************************)
CONSTANT Node

VARIABLES
    flow,      \* pairs of nodes information flows between
    seeds,     \* the sources of sensitive data
    reached

tvars == <<flow, seeds, reached>>

Init == flow = {} /\ seeds = {} /\ reached = {}

Grow ==
    /\ flow \subseteq flow' /\ flow' \subseteq Node \X Node
    /\ seeds \subseteq seeds' /\ seeds' \subseteq Node
    /\ UNCHANGED reached

Discover ==
    /\ \E e \in flow :
         /\ e[1] \in seeds \cup reached
         /\ e[2] \notin reached
         /\ reached' = reached \cup {e[2]}
    /\ UNCHANGED <<flow, seeds>>

Next == Grow \/ Discover

Spec == Init /\ [][Next]_tvars
-----------------------------------------------------------------------------
Closed(S) == \A e \in flow : e[1] \in S => e[2] \in S

\* Everything reached lies in every set that contains the sources and is
\* closed under the flow: there is a path to it from a source (the soundness
\* of the visit of Plugins.c, which may miss nodes but not invent them).
OnlyTainted ==
    \A S \in SUBSET Node : seeds \subseteq S /\ Closed(S) => reached \subseteq S
=============================================================================
