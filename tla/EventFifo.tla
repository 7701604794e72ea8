------------------------------ MODULE EventFifo ------------------------------
(***************************************************************************)
(* What Queue.h promises in two words, "FIFO Queue", for an event queue    *)
(* whose entries are reserved first and completed later: entries leave in  *)
(* the order in which they were reserved, each exactly once, and never     *)
(* before they are complete.                                               *)
(*                                                                         *)
(* The promise is conditional.  Once intact is FALSE the environment has   *)
(* broken the conditions under which it was given, and nothing is promised *)
(* any more.                                                               *)
(***************************************************************************)
EXTENDS Naturals, Sequences

CONSTANT Events

VARIABLES
    pending,    \* entries [ev, ready], the front first
    delivered,  \* the events removed so far
    intact

fvars == <<pending, delivered, intact>>

Entry == [ev : Events, ready : BOOLEAN]

Init == pending = <<>> /\ delivered = <<>> /\ intact = TRUE

Reserve ==
    /\ \E e \in Events : pending' = Append(pending, [ev |-> e, ready |-> FALSE])
    /\ UNCHANGED <<delivered, intact>>

Complete ==
    /\ \E k \in 1 .. Len(pending) :
         /\ ~pending[k].ready
         /\ pending' = [pending EXCEPT ![k] = [ev |-> @.ev, ready |-> TRUE]]
    /\ UNCHANGED <<delivered, intact>>

Deliver ==
    /\ pending # <<>> /\ Head(pending).ready
    /\ pending' = Tail(pending)
    /\ delivered' = Append(delivered, Head(pending).ev)
    /\ UNCHANGED intact

Next ==
    \/ intact /\ (Reserve \/ Complete \/ Deliver)
    \/ intact' = FALSE

Spec == Init /\ [][Next]_fvars
=============================================================================
