---------------------------- MODULE MCEventQueue ----------------------------
(***************************************************************************)
(* Instances of EventQueue for TLC.                                        *)
(***************************************************************************)
EXTENDS EventQueue, TLC

CONSTANTS t1, t2, r1, r2

\* Each thread in a process of its own.
Apart == t1 :> r1 @@ t2 :> r2

\* One thread alone, in r1.
Alone == t1 :> r1

\* The Python events: from the second event of t1 on.
FromSecond == {<<t1, k>> : k \in 2 .. MaxEvents}

\* Every second event of t1 is a Python event.
EverySecond == {<<t1, k>> : k \in {j \in 1 .. MaxEvents : j % 2 = 0}}

\* What follows a hazard is of no interest to a property that speaks of the
\* time before it: explore one state of it and no more.
UntilHazard == hazard = {}

\* SlotInList survives an overrun and a stale flag; the events removed after
\* one of them are garbage without end.
UntilStray ==
    hazard \cap {"overlap", "kill"} = {} /\ Len(taken) <= 2 * MaxEvents

\* One hazard at a time.
OnlyStale == hazard \subseteq {"stale"}
=============================================================================
