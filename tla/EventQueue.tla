----------------------------- MODULE EventQueue -----------------------------
(***************************************************************************)
(* The shared-memory event queue of the dynamic analyser: traced threads   *)
(* append events (DynTrace.c over Queue.c), one engine process removes     *)
(* them (EventProcess in DynInit.c).                                       *)
(*                                                                         *)
(* Queue.c brackets every operation with process_lock, which MacroDef.h    *)
(* defines as pthread_rwlock_rdlock.  The lock is never taken for writing, *)
(* so it excludes nobody and the model has no lock: what the other side    *)
(* can observe between two memory accesses is a state of its own.  The     *)
(* traced side is built without optimisation (makefile.so), so its         *)
(* accesses happen one by one, in program order.                           *)
(*                                                                         *)
(* One step is wider: FillNode writes the text, the thread id and the      *)
(* event id of a node, which nobody looks at before the flag unless one of *)
(* the hazards below has struck.                                           *)
(*                                                                         *)
(* The queue is initialised and the engine is attached.                    *)
(***************************************************************************)
EXTENDS Naturals, Sequences

CONSTANTS
    Threads,      \* threads of the traced processes
    Processes,    \* the traced processes
    ProcOf,       \* the process of each thread
    Inspected,    \* processes run under PyInspect, which start/stop tracing
    Crashing,     \* processes that may end at any moment
    PyEvents,     \* the events <<t, k>> whose id carries PYLANG_TY
    NodeNum,      \* slots of the node list
    MaxEvents,    \* bound: trace calls per thread
    StartCross,   \* the engine was started with -s
    NoEvent       \* contents of a slot never written, or no event in hand

ASSUME QueueAssumption ==
    /\ ProcOf \in [Threads -> Processes]
    /\ Inspected \subseteq Processes
    /\ Crashing \subseteq Processes
    /\ NodeNum \in Nat \ {0, 1}
    /\ MaxEvents \in Nat
    /\ PyEvents \subseteq Threads \X (1 .. MaxEvents)
    /\ StartCross \in BOOLEAN
    /\ NoEvent \notin Threads \X (1 .. MaxEvents)

VARIABLES
    Hindex, Tindex, Exit, MaxNodeNum,  \* the Queue header
    Flag, QBuf,      \* per slot: complete?  whose event?
    pc, Node, sent,  \* per thread: place in TRC_trace, slot, calls so far
    TraceSt,         \* per process: g_TraceSt
    cpc, QN, event,  \* engine: place in EventProcess, slot, event in hand
    CrossFlag, analysed,  \* engine: crossed into Python?  events to DifEngine
    taken, due, hazard    \* history: see below

queue  == <<Hindex, Tindex, Exit, MaxNodeNum, Flag, QBuf>>
tracer == <<pc, Node, sent, TraceSt>>
engine == <<cpc, QN, event, CrossFlag, analysed>>
vars   == <<queue, tracer, engine, taken, due, hazard>>

(***************************************************************************)
(* History variables, which no action reads:                               *)
(*   taken   every event EventProcess removed, in order, as it found it    *)
(*           when it first looked at the node's id                         *)
(*   due     how many events had been reserved when Exit was first set     *)
(*   hazard  which of the four things that break the queue has happened:   *)
(*     "overlap"  a thread entered InQueue with another thread inside it   *)
(*     "overrun"  InQueue took the last free slot: full looks empty        *)
(*     "stale"    the engine accepted the Flag of the slot's last use      *)
(*     "kill"     a process ended with a slot reserved and not complete    *)
(***************************************************************************)
Hazards == {"overlap", "overrun", "stale", "kill"}

Event == Threads \X (1 .. MaxEvents)
Slots == 0 .. NodeNum - 1

\* Places in TRC_trace: inside InQueue, and owning a slot not yet complete.
Inside == {"load", "store", "clear", "test", "wrap"}
Owning == {"clear", "test", "wrap", "fill", "flag"}
ThreadPc == {"idle", "full", "dead"} \cup Inside \cup Owning
EnginePc == {"loop", "size", "front", "flag", "cross", "difa", "out", "outwrap",
             "stopped"}

Current(t) == <<t, sent[t]>>
Owners(s) == {t \in Threads : pc[t] \in Owning /\ Node[t] = s}

\* Both indexes may stand at NodeNum for a moment before they wrap.
Wrapped(i) == IF i >= NodeNum THEN i - NodeNum ELSE i

Depth == LET h == Wrapped(Hindex)
             t == Wrapped(Tindex)
         IN  IF t >= h THEN t - h ELSE t + NodeNum - h

\* The k-th slot in use, counted from the front.
Place(k) == Wrapped(Wrapped(Hindex) + k - 1)

\* A write behind the node list lands in no slot.
Write(f, s, v) == IF s \in Slots THEN [f EXCEPT ![s] = v] ELSE f
-----------------------------------------------------------------------------
Init ==
    /\ Hindex = 0 /\ Tindex = 0 /\ Exit = FALSE /\ MaxNodeNum = 0
    /\ Flag = [s \in Slots |-> FALSE]
    /\ QBuf = [s \in Slots |-> NoEvent]
    /\ pc = [t \in Threads |-> "idle"]
    /\ Node = [t \in Threads |-> 0]
    /\ sent = [t \in Threads |-> 0]
    /\ TraceSt = [r \in Processes |-> TRUE]
    /\ cpc = "loop" /\ QN = 0 /\ event = NoEvent
    /\ CrossFlag = StartCross /\ analysed = <<>>
    /\ taken = <<>> /\ due = 0 /\ hazard = {}
-----------------------------------------------------------------------------
(***************************************************************************)
(* The traced side.  TRC_trace, TRC_trace0 and TRC_thread differ only in   *)
(* how they format the message.                                            *)
(***************************************************************************)
Goto(t, from, to) == pc[t] = from /\ pc' = [pc EXCEPT ![t] = to]

\* TRC_trace while tracing is stopped: the event never reaches the queue.
Untraced(t) ==
    /\ pc[t] = "idle" /\ sent[t] < MaxEvents
    /\ ~TraceSt[ProcOf[t]]
    /\ sent' = [sent EXCEPT ![t] = @ + 1]
    /\ UNCHANGED <<queue, pc, Node, TraceSt, engine, taken, due, hazard>>

\* TRC_trace up to InQueue's test for a full queue.
TRC_trace(t) ==
    /\ sent[t] < MaxEvents
    /\ TraceSt[ProcOf[t]]
    /\ Goto(t, "idle", IF Tindex + 1 # Hindex THEN "load" ELSE "full")
    /\ sent' = [sent EXCEPT ![t] = @ + 1]
    /\ hazard' = IF \E u \in Threads : pc[u] \in Inside
                 THEN hazard \cup {"overlap"} ELSE hazard
    /\ UNCHANGED <<queue, Node, TraceSt, engine, taken, due>>

\* Node = list + Tindex++: the load ...
LoadTindex(t) ==
    /\ Goto(t, "load", "store")
    /\ Node' = [Node EXCEPT ![t] = Tindex]
    /\ UNCHANGED <<queue, sent, TraceSt, engine, taken, due, hazard>>

\* ... and the store, which makes the slot visible to the engine.
StoreTindex(t) ==
    /\ Goto(t, "store", "clear")
    /\ Tindex' = Node[t] + 1
    /\ hazard' = IF Wrapped(Tindex') = Wrapped(Hindex)
                 THEN hazard \cup {"overrun"} ELSE hazard
    /\ UNCHANGED <<Hindex, Exit, MaxNodeNum, Flag, QBuf, Node, sent, TraceSt>>
    /\ UNCHANGED <<engine, taken, due>>

ClearFlag(t) ==
    /\ Goto(t, "clear", "test")
    /\ Flag' = Write(Flag, Node[t], FALSE)
    /\ UNCHANGED <<Hindex, Tindex, Exit, MaxNodeNum, QBuf, Node, sent, TraceSt>>
    /\ UNCHANGED <<engine, taken, due, hazard>>

\* Mutant: the wrap test is off by one.
TestWrap_OffByOne(t) ==
    /\ Goto(t, "test", IF Tindex > NodeNum THEN "wrap" ELSE "fill")
    /\ UNCHANGED <<queue, Node, sent, TraceSt, engine, taken, due, hazard>>

TestWrap(t) ==
    /\ Goto(t, "test", IF Tindex >= NodeNum THEN "wrap" ELSE "fill")
    /\ UNCHANGED <<queue, Node, sent, TraceSt, engine, taken, due, hazard>>

WrapTindex(t) ==
    /\ Goto(t, "wrap", "fill")
    /\ Tindex' = 0
    /\ UNCHANGED <<Hindex, Exit, MaxNodeNum, Flag, QBuf, Node, sent, TraceSt>>
    /\ UNCHANGED <<engine, taken, due, hazard>>

\* InQueue has returned: message, thread id and event id, then the flag.
FillNode(t) ==
    /\ Goto(t, "fill", "flag")
    /\ QBuf' = Write(QBuf, Node[t], Current(t))
    /\ UNCHANGED <<Hindex, Tindex, Exit, MaxNodeNum, Flag, Node, sent, TraceSt>>
    /\ UNCHANGED <<engine, taken, due, hazard>>

\* Mutant: the node is filled and never marked complete.
SetFlag_Missing(t) ==
    /\ Goto(t, "flag", "idle")
    /\ UNCHANGED <<queue, Node, sent, TraceSt, engine, taken, due, hazard>>

SetFlag(t) ==
    /\ Goto(t, "flag", "idle")
    /\ Flag' = Write(Flag, Node[t], TRUE)
    /\ UNCHANGED <<Hindex, Tindex, Exit, MaxNodeNum, QBuf, Node, sent, TraceSt>>
    /\ UNCHANGED <<engine, taken, due, hazard>>

\* exit (0) after "Queue Full", or the end of a process for its own reasons:
\* no thread of it takes another step, and TRC_exit is not called.
ProcessEnds(r) ==
    LET own == {t \in Threads : ProcOf[t] = r}
    IN  /\ \E t \in own : pc[t] # "dead"
        /\ r \in Crashing \/ \E t \in own : pc[t] = "full"
        /\ pc' = [t \in Threads |-> IF t \in own THEN "dead" ELSE pc[t]]
        /\ hazard' = IF \E t \in own : pc[t] \in Owning
                     THEN hazard \cup {"kill"} ELSE hazard
        /\ UNCHANGED <<queue, Node, sent, TraceSt, engine, taken, due>>

TRC_Start(t) ==
    /\ pc[t] = "idle" /\ ProcOf[t] \in Inspected
    /\ TraceSt' = [TraceSt EXCEPT ![ProcOf[t]] = TRUE]
    /\ UNCHANGED <<queue, pc, Node, sent, engine, taken, due, hazard>>

TRC_Stop(t) ==
    /\ pc[t] = "idle" /\ ProcOf[t] \in Inspected
    /\ TraceSt' = [TraceSt EXCEPT ![ProcOf[t]] = FALSE]
    /\ UNCHANGED <<queue, pc, Node, sent, engine, taken, due, hazard>>

QueueSetExit ==
    /\ Exit' = TRUE
    /\ due' = IF Exit THEN due ELSE Len(taken) + Depth
    /\ UNCHANGED <<Hindex, Tindex, MaxNodeNum, Flag, QBuf, tracer, engine>>
    /\ UNCHANGED <<taken, hazard>>

TRC_exit(t) == pc[t] = "idle" /\ QueueSetExit
-----------------------------------------------------------------------------
(***************************************************************************)
(* The engine: EventProcess polls without ever blocking.                   *)
(***************************************************************************)
EGoto(from, to) == cpc = from /\ cpc' = to

\* Mutant: the loop ends on Exit without looking at the queue.
QueueGetExit_Only ==
    /\ EGoto("loop", IF Exit THEN "stopped" ELSE "front")
    /\ UNCHANGED <<queue, tracer, QN, event, CrossFlag, analysed, taken, due, hazard>>

QueueGetExit ==
    /\ EGoto("loop", IF Exit THEN "size" ELSE "front")
    /\ UNCHANGED <<queue, tracer, QN, event, CrossFlag, analysed, taken, due, hazard>>

\* Only evaluated once Exit is set: MaxNodeNum sees nothing earlier.
QueueSize ==
    LET Size == ((Tindex + NodeNum) - Hindex) % NodeNum
    IN  /\ EGoto("size", IF Size # 0 THEN "front" ELSE "stopped")
        /\ MaxNodeNum' = IF Size > MaxNodeNum THEN Size ELSE MaxNodeNum
        /\ UNCHANGED <<Hindex, Tindex, Exit, Flag, QBuf, tracer>>
        /\ UNCHANGED <<QN, event, CrossFlag, analysed, taken, due, hazard>>

\* Mutant: the emptiness test forgets that the tail wraps before the head.
FrontQueue_Less ==
    /\ EGoto("front", IF Hindex < Tindex THEN "flag" ELSE "loop")
    /\ QN' = IF Hindex < Tindex THEN Hindex ELSE QN
    /\ UNCHANGED <<queue, tracer, event, CrossFlag, analysed, taken, due, hazard>>

\* Mutant: no emptiness test at all.
FrontQueue_Always ==
    /\ EGoto("front", "flag")
    /\ QN' = Hindex
    /\ UNCHANGED <<queue, tracer, event, CrossFlag, analysed, taken, due, hazard>>

FrontQueue ==
    /\ EGoto("front", IF Hindex # Tindex THEN "flag" ELSE "loop")
    /\ QN' = IF Hindex # Tindex THEN Hindex ELSE QN
    /\ UNCHANGED <<queue, tracer, event, CrossFlag, analysed, taken, due, hazard>>

\* Mutant: EventProcess does not wait for the node to be complete.
TestFlag_Ignored ==
    /\ EGoto("flag", "cross")
    /\ UNCHANGED <<queue, tracer, QN, event, CrossFlag, analysed, taken, due, hazard>>

TestFlag ==
    /\ EGoto("flag", IF Flag[QN] THEN "cross" ELSE "loop")
    /\ hazard' = IF Flag[QN] /\ \E t \in Owners(QN) : pc[t] = "clear"
                 THEN hazard \cup {"stale"} ELSE hazard
    /\ UNCHANGED <<queue, tracer, QN, event, CrossFlag, analysed, taken, due>>

\* Mutant: CrossFlag is worked out anew for every event.
TestCross_EachTime ==
    LET Python == QBuf[QN] \in PyEvents
    IN  /\ EGoto("cross", IF Python THEN "difa" ELSE "out")
        /\ CrossFlag' = Python
        /\ event' = QBuf[QN]
        /\ UNCHANGED <<queue, tracer, QN, analysed, taken, due, hazard>>

\* The node's event id is looked at until an event of the Python side is seen.
TestCross ==
    LET Crossed == CrossFlag \/ QBuf[QN] \in PyEvents
    IN  /\ EGoto("cross", IF Crossed THEN "difa" ELSE "out")
        /\ CrossFlag' = Crossed
        /\ event' = IF CrossFlag THEN NoEvent ELSE QBuf[QN]
        /\ UNCHANGED <<queue, tracer, QN, analysed, taken, due, hazard>>

\* DifEngine is given what the node holds by then, read once more.
Analyse ==
    /\ EGoto("difa", "out")
    /\ event' = IF event = NoEvent THEN QBuf[QN] ELSE event
    /\ analysed' = Append(analysed, QBuf[QN])
    /\ UNCHANGED <<queue, tracer, QN, CrossFlag, taken, due, hazard>>

\* Hindex++ ...
OutQueue ==
    /\ EGoto("out", "outwrap")
    /\ Hindex' = Hindex + 1
    /\ taken' = Append(taken, event)
    /\ event' = NoEvent
    /\ UNCHANGED <<Tindex, Exit, MaxNodeNum, Flag, QBuf, tracer>>
    /\ UNCHANGED <<QN, CrossFlag, analysed, due, hazard>>

\* Mutant: Hindex is not wrapped.
OutWrap_Never ==
    /\ EGoto("outwrap", "loop")
    /\ UNCHANGED <<queue, tracer, QN, event, CrossFlag, analysed, taken, due, hazard>>

\* ... and its wrap.
OutWrap ==
    /\ EGoto("outwrap", "loop")
    /\ Hindex' = IF Hindex >= NodeNum THEN 0 ELSE Hindex
    /\ UNCHANGED <<Tindex, Exit, MaxNodeNum, Flag, QBuf, tracer>>
    /\ UNCHANGED <<QN, event, CrossFlag, analysed, taken, due, hazard>>

\* SIGINT or SIGTSTP at the engine runs the handler Exit of Main.c.
Signal == cpc # "stopped" /\ QueueSetExit
-----------------------------------------------------------------------------
Trace(t) ==
    \/ TRC_trace(t) \/ LoadTindex(t) \/ StoreTindex(t) \/ ClearFlag(t)
    \/ TestWrap(t) \/ WrapTindex(t) \/ FillNode(t) \/ SetFlag(t)

EventProcess ==
    \/ QueueGetExit \/ QueueSize \/ FrontQueue \/ TestFlag
    \/ TestCross \/ Analyse \/ OutQueue \/ OutWrap

Next ==
    \/ \E t \in Threads :
         Trace(t) \/ Untraced(t) \/ TRC_Start(t) \/ TRC_Stop(t) \/ TRC_exit(t)
    \/ \E r \in Processes : ProcessEnds(r)
    \/ EventProcess
    \/ Signal

Spec == Init /\ [][Next]_vars

(***************************************************************************)
(* The operating system runs the polling engine, and it lets a thread that *)
(* has entered TRC_trace run to the end of it.  Nobody is bound to make    *)
(* another trace call or to end tracing.                                   *)
(***************************************************************************)
Fairness ==
    /\ WF_vars(EventProcess)
    /\ \A t \in Threads : WF_vars(pc[t] # "idle" /\ Trace(t))

FairSpec == Spec /\ Fairness
-----------------------------------------------------------------------------
TypeOK ==
    /\ Hindex \in 0 .. NodeNum /\ Tindex \in Nat
    /\ Exit \in BOOLEAN /\ MaxNodeNum \in Slots
    /\ Flag \in [Slots -> BOOLEAN]
    /\ QBuf \in [Slots -> Event \cup {NoEvent}]
    /\ pc \in [Threads -> ThreadPc]
    /\ Node \in [Threads -> Nat]
    /\ sent \in [Threads -> 0 .. MaxEvents]
    /\ TraceSt \in [Processes -> BOOLEAN]
    /\ cpc \in EnginePc /\ QN \in Slots
    /\ event \in Event \cup {NoEvent}
    /\ CrossFlag \in BOOLEAN
    /\ analysed \in Seq(Event \cup {NoEvent})
    /\ taken \in Seq(Event \cup {NoEvent})
    /\ due \in Nat /\ hazard \subseteq Hazards
-----------------------------------------------------------------------------
(***************************************************************************)
(* The slots in use, seen as entries of the abstract queue: one that a     *)
(* thread still owns holds that thread's event and is not ready.           *)
(***************************************************************************)
Entry(s) == IF Owners(s) # {}
            THEN [ev |-> Current(CHOOSE t \in Owners(s) : TRUE), ready |-> FALSE]
            ELSE [ev |-> QBuf[s], ready |-> TRUE]

Pending == [k \in 1 .. Depth |-> Entry(Place(k))]

Fifo == INSTANCE EventFifo
        WITH Events <- Event, pending <- Pending, delivered <- taken,
             intact <- (hazard = {})

\* Until one of the four hazards happens, the queue is the FIFO that Queue.h
\* announces: events leave in reservation order, once each, and complete.
FifoUntilHazard == Fifo!Spec

\* InQueue hands out slots of the node list only: Tindex stands at NodeNum
\* while a thread is between its increment and its wrap, and only a second
\* thread, or one killed there, makes somebody use that value.
SlotInList ==
    hazard \cap {"overlap", "kill"} = {} =>
        \A t \in Threads : pc[t] \in Owning => Node[t] \in Slots

\* No two threads fill the same slot, and no thread fills the slot that the
\* engine has accepted: the node is never torn between two writers or read
\* while it is written.
OwnSlot ==
    /\ \A t, u \in Threads :
         pc[t] \in Owning /\ pc[u] \in Owning /\ Node[t] = Node[u] => t = u
    /\ cpc \in {"cross", "difa", "out"} => Owners(QN) = {}

OwnSlotUntilHazard == hazard = {} => OwnSlot

\* The engine stops only after it has removed every event whose slot had been
\* reserved when Exit was first set (loop condition of EventProcess).
DueBeforeStop == cpc = "stopped" /\ hazard = {} => Len(taken) >= due

\* DifEngine gets all events from the first Python event on and none before
\* it: CrossFlag is set by the event itself, before it is looked at.  It gets
\* them as EventProcess first found them, too, but only until a hazard: the
\* node is read again for DifEngine, and a producer may have rewritten it.
AnalysedFromCrossing ==
    LET python  == {i \in 1 .. Len(taken) : taken[i] \in PyEvents}
        kept    == {i \in 1 .. Len(taken) :
                      StartCross \/ \E j \in python : j <= i}
        skipped == Len(taken) - Len(analysed)
    IN  cpc # "out" =>
          /\ skipped >= 0
          /\ \A i \in 1 .. Len(taken) : i \in kept <=> i > skipped
          /\ hazard = {} =>
               \A i \in 1 .. Len(analysed) : analysed[i] = taken[skipped + i]

\* An event with a slot is removed in the end, unless a hazard has struck or
\* the engine has stopped: a thread inside TRC_trace cannot hold up others.
ReservedIsTaken ==
    \A e \in Event :
        (\E k \in 1 .. Depth : Pending[k].ev = e) ~>
            \/ \E i \in 1 .. Len(taken) : taken[i] = e
            \/ hazard # {} \/ cpc = "stopped"

\* Once Exit is set the engine stops, unless a hazard has struck (the number
\* of trace calls is finite, so the queue is not refilled for ever).
ExitStopsEngine == Exit ~> (cpc = "stopped" \/ hazard # {})

\* An unconditional reading of the source's own words, which the code breaks.

\* Queue.h, "FIFO Queue": the events of one thread leave in the order of its
\* calls and none leaves twice.
ThreadOrder ==
    \A i, j \in 1 .. Len(taken) :
        i < j /\ taken[i][1] = taken[j][1] => taken[i][2] < taken[j][2]
=============================================================================
