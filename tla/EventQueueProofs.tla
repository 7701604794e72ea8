-------------------------- MODULE EventQueueProofs --------------------------
(***************************************************************************)
(* Proofs about EventQueue, for any number of threads, processes, slots    *)
(* and trace calls.                                                        *)
(***************************************************************************)
EXTENDS EventQueue, SequenceTheorems, TLAPS

USE QueueAssumption

LEMMA ModRange == ASSUME NEW a \in Nat, NEW n \in Nat \ {0}
                  PROVE  a % n \in 0 .. n - 1
  OBVIOUS

(***************************************************************************)
(* Types.  TypeOK is not inductive: the engine's index may stand at        *)
(* NodeNum only between its increment and its wrap, and the event of a     *)
(* thread inside TRC_trace is one of its MaxEvents calls.                  *)
(***************************************************************************)
HeadInList == cpc # "outwrap" => Hindex < NodeNum

CallsCounted == \A t \in Threads : pc[t] \in Inside \cup Owning => sent[t] # 0

TypeInv == TypeOK /\ HeadInList /\ CallsCounted

LEMMA TypeInit == Init => TypeInv
<1> SUFFICES ASSUME Init PROVE TypeInv
  OBVIOUS
<1>1. TypeOK
  BY QueueAssumption DEF Init, TypeOK, Slots, ThreadPc, EnginePc, Hazards
<1>2. HeadInList /\ CallsCounted
  BY QueueAssumption DEF Init, HeadInList, CallsCounted, Inside, Owning
<1> QED
  BY <1>1, <1>2 DEF TypeInv

LEMMA TypeStep == TypeInv /\ [Next]_vars => TypeInv'
<1> SUFFICES ASSUME TypeInv, [Next]_vars PROVE TypeInv'
  OBVIOUS
<1> USE DEF TypeInv, TypeOK, HeadInList, CallsCounted
<1>1. ASSUME NEW t \in Threads, Trace(t) PROVE TypeInv'
  <2> USE DEF Goto, ThreadPc, Inside, Owning, Hazards, queue, engine
  <2>1. CASE TRC_trace(t)
    BY <2>1 DEF TRC_trace
  <2>2. CASE LoadTindex(t)
    BY <2>2 DEF LoadTindex
  <2>3. CASE StoreTindex(t)
    BY <2>3 DEF StoreTindex
  <2>4. CASE ClearFlag(t)
    BY <2>4 DEF ClearFlag, Write
  <2>5. CASE TestWrap(t)
    BY <2>5 DEF TestWrap
  <2>6. CASE WrapTindex(t)
    BY <2>6 DEF WrapTindex
  <2>7. CASE FillNode(t)
    <3>1. Current(t) \in Event
      BY <2>7 DEF FillNode, Current, Event
    <3> QED
      BY <2>7, <3>1 DEF FillNode, Write
  <2>8. CASE SetFlag(t)
    BY <2>8 DEF SetFlag, Write
  <2> QED
    BY <1>1, <2>1, <2>2, <2>3, <2>4, <2>5, <2>6, <2>7, <2>8 DEF Trace
<1>2. ASSUME NEW t \in Threads, Untraced(t) PROVE TypeInv'
  BY <1>2 DEF Untraced, queue, engine, Inside, Owning
<1>3. ASSUME NEW t \in Threads, TRC_Start(t) \/ TRC_Stop(t) PROVE TypeInv'
  BY <1>3 DEF TRC_Start, TRC_Stop, queue, engine
<1>4. CASE QueueSetExit
  <2>1. Depth \in Nat
    BY DEF Depth, Wrapped
  <2> QED
    BY <1>4, <2>1 DEF QueueSetExit, tracer, engine
<1>5. ASSUME NEW r \in Processes, ProcessEnds(r) PROVE TypeInv'
  BY <1>5 DEF ProcessEnds, ThreadPc, Inside, Owning, Hazards, queue, engine
<1>6. CASE EventProcess
  <2> USE DEF EGoto, EnginePc, Slots, queue, tracer
  <2>1. CASE QueueGetExit
    BY <2>1 DEF QueueGetExit
  <2>2. CASE QueueSize
    <3>1. (Tindex + NodeNum) - Hindex \in Nat
      OBVIOUS
    <3>2. ((Tindex + NodeNum) - Hindex) % NodeNum \in Slots
      BY <3>1, ModRange
    <3> QED
      BY <2>2, <3>2 DEF QueueSize
  <2>3. CASE FrontQueue
    BY <2>3 DEF FrontQueue
  <2>4. CASE TestFlag
    BY <2>4 DEF TestFlag, Hazards
  <2>5. CASE TestCross
    BY <2>5 DEF TestCross
  <2>6. CASE Analyse
    BY <2>6 DEF Analyse
  <2>7. CASE OutQueue
    BY <2>7 DEF OutQueue
  <2>8. CASE OutWrap
    BY <2>8 DEF OutWrap
  <2> QED
    BY <1>6, <2>1, <2>2, <2>3, <2>4, <2>5, <2>6, <2>7, <2>8 DEF EventProcess
<1>7. CASE UNCHANGED vars
  BY <1>7 DEF vars, queue, tracer, engine
<1> QED
  BY <1>1, <1>2, <1>3, <1>4, <1>5, <1>6, <1>7 DEF Next, TRC_exit, Signal

\* Every variable of the queue, the threads and the engine keeps its type in
\* every reachable state: in particular the engine never looks at a slot
\* outside the node list.
THEOREM TypeCorrect == Spec => []TypeOK
<1>1. Spec => []TypeInv
  BY TypeInit, TypeStep, PTL DEF Spec
<1> QED
  BY <1>1, PTL DEF TypeInv
-----------------------------------------------------------------------------
(***************************************************************************)
(* Slots.  While no two threads were ever inside InQueue together and none *)
(* was killed there, Tindex is out of the list only on behalf of the one   *)
(* thread that is about to wrap it.                                        *)
(***************************************************************************)
Advanced == {"clear", "test", "wrap"}

OneInside == \A t, u \in Threads : pc[t] \in Inside /\ pc[u] \in Inside => t = u

TailInList ==
    /\ \A t \in Threads : pc[t] \in Advanced => Tindex = Node[t] + 1
    /\ \A t \in Threads : pc[t] = "wrap" => Tindex = NodeNum
    /\ \A t \in Threads : pc[t] = "store" => Node[t] = Tindex
    /\ (\A t \in Threads : pc[t] \notin Advanced) => Tindex < NodeNum
    /\ \A t \in Threads : pc[t] \in Owning => Node[t] \in Slots

SlotInv == hazard \cap {"overlap", "kill"} = {} => OneInside /\ TailInList

(***************************************************************************)
(* The list.  Until a hazard strikes, the slots from Hindex up to Tindex   *)
(* are in use; each is owned by one thread that still fills it, with its   *)
(* flag down, or is complete.                                              *)
(***************************************************************************)
InUse(s) == LET h == Wrapped(Hindex)
                t == Wrapped(Tindex)
            IN  IF h <= t THEN h <= s /\ s < t ELSE h <= s \/ s < t

OwnersDistinct ==
    \A t, u \in Threads :
        pc[t] \in Owning /\ pc[u] \in Owning /\ Node[t] = Node[u] => t = u

OwnedInUse == \A t \in Threads : pc[t] \in Owning => InUse(Node[t])

OwnedNotReady ==
    \A t \in Threads : pc[t] \in Owning \ {"clear"} => ~Flag[Node[t]]

FilledIsCurrent == \A t \in Threads : pc[t] = "flag" => QBuf[Node[t]] = Current(t)

NobodyFills(s) == \A t \in Threads : ~(pc[t] \in Owning /\ Node[t] = s)

FrontInUse ==
    cpc \in {"flag", "cross", "difa", "out"} =>
        /\ QN = Hindex /\ InUse(QN)
        /\ cpc # "flag" => NobodyFills(QN)
        /\ cpc = "out" => event = QBuf[QN]
        /\ cpc = "difa" => event \in {NoEvent, QBuf[QN]}

DueQueued ==
    /\ Exit => due <= Len(taken) + Depth
    /\ cpc \in {"size", "stopped"} => Exit
    /\ cpc = "stopped" => due <= Len(taken)

ListInv ==
    hazard = {} =>
        /\ OwnersDistinct /\ OwnedInUse /\ OwnedNotReady
        /\ FilledIsCurrent /\ FrontInUse /\ DueQueued

IInv == TypeInv /\ SlotInv /\ ListInv

LEMMA HazardGrows == [Next]_vars => hazard \subseteq hazard'
<1> SUFFICES ASSUME [Next]_vars PROVE hazard \subseteq hazard'
  OBVIOUS
<1> USE DEF vars
<1>1. ASSUME NEW t \in Threads, Trace(t) PROVE hazard \subseteq hazard'
  BY <1>1 DEF Trace, TRC_trace, LoadTindex, StoreTindex, ClearFlag, TestWrap,
              WrapTindex, FillNode, SetFlag
<1>2. CASE EventProcess
  BY <1>2 DEF EventProcess, QueueGetExit, QueueSize, FrontQueue, TestFlag,
              TestCross, Analyse, OutQueue, OutWrap
<1>3. ASSUME NEW r \in Processes, ProcessEnds(r) PROVE hazard \subseteq hazard'
  BY <1>3 DEF ProcessEnds
<1> QED
  BY <1>1, <1>2, <1>3 DEF Next, Untraced, TRC_Start, TRC_Stop, TRC_exit, Signal,
                          QueueSetExit

LEMMA SlotInit == Init => SlotInv
  BY DEF Init, SlotInv, OneInside, TailInList, Inside, Advanced, Owning

LEMMA SlotStep == TypeInv /\ SlotInv /\ [Next]_vars => SlotInv'
<1> SUFFICES ASSUME TypeInv, SlotInv, [Next]_vars,
                    hazard' \cap {"overlap", "kill"} = {}
             PROVE  OneInside' /\ TailInList'
  BY DEF SlotInv
<1> USE DEF Inside, Advanced, Owning
<1>0. hazard \subseteq hazard'
  BY HazardGrows
<1>1. OneInside /\ TailInList
  BY <1>0 DEF SlotInv
<1>t. /\ Tindex \in Nat /\ pc \in [Threads -> ThreadPc] /\ Node \in [Threads -> Nat]
      /\ NodeNum \in Nat \ {0, 1}
  BY DEF TypeInv, TypeOK
<1>2. ASSUME NEW t \in Threads, Trace(t) PROVE OneInside' /\ TailInList'
  <2> USE <1>1, <1>t DEF Goto, queue, OneInside, TailInList, Slots
  <2>1. CASE TRC_trace(t)
    BY <2>1 DEF TRC_trace
  <2>2. CASE LoadTindex(t)
    BY <2>2 DEF LoadTindex
  <2>3. CASE StoreTindex(t)
    BY <2>3 DEF StoreTindex
  <2>4. CASE ClearFlag(t)
    BY <2>4 DEF ClearFlag
  <2>5. CASE TestWrap(t)
    BY <2>5 DEF TestWrap
  <2>6. CASE WrapTindex(t)
    BY <2>6 DEF WrapTindex
  <2>7. CASE FillNode(t)
    BY <2>7 DEF FillNode
  <2>8. CASE SetFlag(t)
    BY <2>8 DEF SetFlag
  <2> QED
    BY <1>2, <2>1, <2>2, <2>3, <2>4, <2>5, <2>6, <2>7, <2>8 DEF Trace
<1>3. ASSUME NEW r \in Processes, ProcessEnds(r) PROVE OneInside' /\ TailInList'
  BY <1>1, <1>3, <1>t DEF ProcessEnds, queue, OneInside, TailInList, Slots
<1>4. CASE UNCHANGED <<Tindex, pc, Node>>
  BY <1>1, <1>4 DEF OneInside, TailInList
<1>5. CASE EventProcess
  BY <1>5, <1>4 DEF EventProcess, QueueGetExit, QueueSize, FrontQueue, TestFlag,
                    TestCross, Analyse, OutQueue, OutWrap, queue, tracer
<1> QED
  BY <1>2, <1>3, <1>4, <1>5 DEF Next, Untraced, TRC_Start, TRC_Stop, TRC_exit, Signal,
                    QueueSetExit, vars, queue, tracer

\* InQueue never hands out a slot behind the node list unless two threads
\* have been inside it together or one was killed there.
THEOREM SlotsInList == Spec => []SlotInList
<1>1. Spec => [](TypeInv /\ SlotInv)
  BY TypeInit, TypeStep, SlotInit, SlotStep, PTL DEF Spec
<1>2. SlotInv => SlotInList
  BY DEF SlotInv, SlotInList, TailInList
<1> QED
  BY <1>1, <1>2, PTL

LEMMA ModZero == ASSUME NEW n \in Nat \ {0}, NEW a \in 1 .. 2 * n, a % n = 0
                 PROVE  a = n \/ a = 2 * n
<1>1. CASE a < n
  <2>1. a % n = a
    BY <1>1
  <2> QED
    BY <2>1
<1>2. CASE n < a /\ a < 2 * n
  <2>1. a % n = a - n
    BY <1>2
  <2> QED
    BY <1>2, <2>1
<1> QED
  BY <1>1, <1>2

LEMMA ListInit == Init => ListInv
  BY DEF Init, ListInv, OwnersDistinct, OwnedInUse, OwnedNotReady,
         FilledIsCurrent, FrontInUse, DueQueued, Owning

\* Which slots are in use depends on the wrapped indexes only.
LEMMA SameUse == ASSUME UNCHANGED <<Wrapped(Hindex), Wrapped(Tindex)>>
                 PROVE  Depth' = Depth /\ \A s : InUse(s)' <=> InUse(s)
  BY DEF InUse, Depth

LEMMA SameIndexes == ASSUME UNCHANGED <<Hindex, Tindex>>
                     PROVE  Depth' = Depth /\ \A s : InUse(s)' <=> InUse(s)
  BY DEF InUse, Depth, Wrapped

LEMMA SameOwners == ASSUME OwnersDistinct, UNCHANGED Node,
                           \A u \in Threads : pc'[u] \in Owning => pc[u] \in Owning
                    PROVE  OwnersDistinct'
  BY DEF OwnersDistinct

LEMMA ListStep == TypeInv /\ SlotInv /\ ListInv /\ [Next]_vars => ListInv'
<1> SUFFICES ASSUME TypeInv, SlotInv, ListInv, [Next]_vars, hazard' = {}
             PROVE  /\ OwnersDistinct' /\ OwnedInUse' /\ OwnedNotReady'
                    /\ FilledIsCurrent' /\ FrontInUse' /\ DueQueued'
  BY DEF ListInv
<1> DEFINE Goal == /\ OwnersDistinct' /\ OwnedInUse' /\ OwnedNotReady'
                   /\ FilledIsCurrent' /\ FrontInUse' /\ DueQueued'
<1>h. hazard = {}
  BY HazardGrows
<1>s. OneInside /\ TailInList
  BY <1>h DEF SlotInv
<1>l. /\ OwnersDistinct /\ OwnedInUse /\ OwnedNotReady
      /\ FilledIsCurrent /\ FrontInUse /\ DueQueued
  BY <1>h DEF ListInv
<1>t. /\ NodeNum \in Nat \ {0, 1}
      /\ Hindex \in 0 .. NodeNum /\ (cpc # "outwrap" => Hindex < NodeNum)
      /\ Tindex \in Nat /\ Tindex <= NodeNum
      /\ pc \in [Threads -> ThreadPc] /\ Node \in [Threads -> Nat]
      /\ sent \in [Threads -> 0 .. MaxEvents]
      /\ Flag \in [Slots -> BOOLEAN]
      /\ QBuf \in [Slots -> Event \cup {NoEvent}]
      /\ taken \in Seq(Event \cup {NoEvent}) /\ due \in Nat
  BY <1>s DEF TypeInv, TypeOK, HeadInList, TailInList, Slots, Owning, Advanced
<1>1. ASSUME NEW t \in Threads, Trace(t) PROVE Goal
  <2> USE <1>t, <1>l
      DEF OwnersDistinct, OwnedInUse, OwnedNotReady, FilledIsCurrent, FrontInUse,
          DueQueued, NobodyFills, Owning, queue, engine
  <2>1. CASE TRC_trace(t)
    <3>1. /\ UNCHANGED <<queue, Node, engine, taken, due>>
          /\ \A u \in Threads : u # t => pc'[u] = pc[u] /\ sent'[u] = sent[u]
          /\ pc[t] = "idle" /\ pc'[t] \notin Owning
      BY <2>1 DEF TRC_trace, Goto
    <3> QED
      BY <3>1, SameIndexes DEF Current
  <2>2. CASE LoadTindex(t)
    <3>1. /\ UNCHANGED <<queue, sent, engine, taken, due>>
          /\ \A u \in Threads : u # t => pc'[u] = pc[u] /\ Node'[u] = Node[u]
          /\ pc[t] = "load" /\ pc'[t] = "store"
      BY <2>2 DEF LoadTindex, Goto
    <3>a. OwnersDistinct'
      BY <3>1, SameIndexes DEF Current
    <3>b. OwnedInUse'
      BY <3>1, SameIndexes DEF Current
    <3>c. OwnedNotReady'
      BY <3>1, SameIndexes DEF Current
    <3>d. FilledIsCurrent'
      BY <3>1, SameIndexes DEF Current
    <3>e. FrontInUse'
      BY <3>1, SameIndexes DEF Current
    <3>f. DueQueued'
      BY <3>1, SameIndexes DEF Current
    <3> QED
      BY <3>a, <3>b, <3>c, <3>d, <3>e, <3>f
  <2>3. CASE StoreTindex(t)
    <3>1. /\ Tindex < NodeNum /\ Node[t] = Tindex /\ Tindex' = Tindex + 1
      BY <1>s, <2>3 DEF StoreTindex, Goto, OneInside, TailInList, Inside, Advanced
    <3>2. /\ UNCHANGED <<Hindex, Exit, Flag, QBuf, Node, sent, engine, taken, due>>
          /\ \A u \in Threads : u # t => pc'[u] = pc[u]
          /\ pc[t] = "store" /\ pc'[t] = "clear"
          /\ Wrapped(Tindex') # Wrapped(Hindex)
      BY <2>3 DEF StoreTindex, Goto
    <3>3. ~InUse(Tindex) /\ Depth' = Depth + 1
      BY <3>1, <3>2 DEF InUse, Depth, Wrapped
    <3>4. \A s \in Slots : InUse(s)' <=> InUse(s) \/ s = Tindex
      BY <3>1, <3>2 DEF InUse, Wrapped, Slots
    <3>5. \A u \in Threads : pc[u] \in Owning => Node[u] \in Slots
      BY <1>s DEF TailInList
    <3>6. Tindex \in Slots /\ QN \in Slots /\ Depth \in Nat
      <4>1. Tindex \in Slots
        BY <1>t, <3>1 DEF Slots
      <4>2. QN \in Slots
        BY <1>s DEF TypeInv, TypeOK
      <4>3. Depth \in Nat
        BY <1>t, <3>1 DEF Depth, Wrapped
      <4> QED
        BY <4>1, <4>2, <4>3
    <3>a. OwnersDistinct'
      BY <3>1, <3>2, <3>3, <3>4, <3>5, <3>6 DEF Current
    <3>b. OwnedInUse'
      BY <3>1, <3>2, <3>3, <3>4, <3>5, <3>6 DEF Current
    <3>c. OwnedNotReady'
      BY <3>1, <3>2, <3>3, <3>4, <3>5, <3>6 DEF Current
    <3>d. FilledIsCurrent'
      BY <3>1, <3>2, <3>3, <3>4, <3>5, <3>6 DEF Current
    <3>e. FrontInUse'
      BY <3>1, <3>2, <3>3, <3>4, <3>5, <3>6 DEF Current
    <3>f. DueQueued'
      BY <3>1, <3>2, <3>3, <3>4, <3>5, <3>6 DEF Current
    <3> QED
      BY <3>a, <3>b, <3>c, <3>d, <3>e, <3>f
  <2>4. CASE ClearFlag(t)
    <3>1. /\ UNCHANGED <<Hindex, Tindex, Exit, QBuf, Node, sent, engine, taken, due>>
          /\ \A u \in Threads : u # t => pc'[u] = pc[u]
          /\ pc[t] = "clear" /\ pc'[t] = "test" /\ Node[t] \in Slots
          /\ Flag' = [Flag EXCEPT ![Node[t]] = FALSE]
      BY <1>s, <2>4 DEF ClearFlag, Goto, Write, TailInList
    <3>0. \A u \in Threads : pc'[u] \in Owning => pc[u] \in Owning
      BY <3>1
    <3>a. OwnersDistinct'
      BY <3>0, <3>1, SameOwners
    <3>b. OwnedInUse'
      BY <1>s, <3>1, SameIndexes DEF Current, TailInList
    <3>c. OwnedNotReady'
      BY <1>s, <3>1, SameIndexes DEF Current, TailInList
    <3>d. FilledIsCurrent'
      BY <1>s, <3>1, SameIndexes DEF Current, TailInList
    <3>e. FrontInUse'
      BY <1>s, <3>1, SameIndexes DEF Current, TailInList
    <3>f. DueQueued'
      BY <1>s, <3>1, SameIndexes DEF Current, TailInList
    <3> QED
      BY <3>a, <3>b, <3>c, <3>d, <3>e, <3>f
  <2>5. CASE TestWrap(t)
    <3>1. /\ UNCHANGED <<queue, Node, sent, engine, taken, due>>
          /\ \A u \in Threads : u # t => pc'[u] = pc[u]
          /\ pc[t] = "test" /\ pc'[t] \in {"wrap", "fill"}
      BY <2>5 DEF TestWrap, Goto
    <3>0. \A u \in Threads : pc'[u] \in Owning => pc[u] \in Owning
      BY <3>1
    <3>a. OwnersDistinct'
      BY <3>0, <3>1, SameOwners
    <3>b. OwnedInUse'
      BY <3>1, SameIndexes DEF Current
    <3>c. OwnedNotReady'
      BY <3>1, SameIndexes DEF Current
    <3>d. FilledIsCurrent'
      BY <3>1, SameIndexes DEF Current
    <3>e. FrontInUse'
      BY <3>1, SameIndexes DEF Current
    <3>f. DueQueued'
      BY <3>1, SameIndexes DEF Current
    <3> QED
      BY <3>a, <3>b, <3>c, <3>d, <3>e, <3>f
  <2>6. CASE WrapTindex(t)
    <3>1. /\ UNCHANGED <<Hindex, Exit, Flag, QBuf, Node, sent, engine, taken, due>>
          /\ \A u \in Threads : u # t => pc'[u] = pc[u]
          /\ pc[t] = "wrap" /\ pc'[t] = "fill"
          /\ Wrapped(Tindex)' = Wrapped(Tindex)
      BY <1>s, <2>6 DEF WrapTindex, Goto, Wrapped, TailInList
    <3>2. Depth' = Depth /\ \A s : InUse(s)' <=> InUse(s)
      BY <3>1, SameUse DEF Wrapped
    <3>0. \A u \in Threads : pc'[u] \in Owning => pc[u] \in Owning
      BY <3>1
    <3>a. OwnersDistinct'
      BY <3>0, <3>1, SameOwners
    <3>b. OwnedInUse'
      BY <3>1, <3>2 DEF Current
    <3>c. OwnedNotReady'
      BY <3>1, <3>2 DEF Current
    <3>d. FilledIsCurrent'
      BY <3>1, <3>2 DEF Current
    <3>e. FrontInUse'
      BY <3>1, <3>2 DEF Current
    <3>f. DueQueued'
      BY <3>1, <3>2 DEF Current
    <3> QED
      BY <3>a, <3>b, <3>c, <3>d, <3>e, <3>f
  <2>7. CASE FillNode(t)
    <3>1. /\ UNCHANGED <<Hindex, Tindex, Exit, Flag, Node, sent, engine, taken, due>>
          /\ \A u \in Threads : u # t => pc'[u] = pc[u]
          /\ pc[t] = "fill" /\ pc'[t] = "flag" /\ Node[t] \in Slots
          /\ QBuf' = [QBuf EXCEPT ![Node[t]] = Current(t)]
      BY <1>s, <2>7 DEF FillNode, Goto, Write, TailInList
    <3>0. \A u \in Threads : pc'[u] \in Owning => pc[u] \in Owning
      BY <3>1
    <3>a. OwnersDistinct'
      BY <3>0, <3>1, SameOwners
    <3>b. OwnedInUse'
      BY <1>s, <3>1, SameIndexes DEF Current, TailInList
    <3>c. OwnedNotReady'
      BY <1>s, <3>1, SameIndexes DEF Current, TailInList
    <3>d. FilledIsCurrent'
      BY <1>s, <3>1, SameIndexes DEF Current, TailInList
    <3>e. FrontInUse'
      BY <1>s, <3>1, SameIndexes DEF Current, TailInList
    <3>f. DueQueued'
      BY <1>s, <3>1, SameIndexes DEF Current, TailInList
    <3> QED
      BY <3>a, <3>b, <3>c, <3>d, <3>e, <3>f
  <2>8. CASE SetFlag(t)
    <3>1. /\ UNCHANGED <<Hindex, Tindex, Exit, QBuf, Node, sent, engine, taken, due>>
          /\ \A u \in Threads : u # t => pc'[u] = pc[u]
          /\ pc[t] = "flag" /\ pc'[t] = "idle" /\ Node[t] \in Slots
          /\ Flag' = [Flag EXCEPT ![Node[t]] = TRUE]
      BY <1>s, <2>8 DEF SetFlag, Goto, Write, TailInList
    <3>0. \A u \in Threads : pc'[u] \in Owning => pc[u] \in Owning
      BY <3>1
    <3>a. OwnersDistinct'
      BY <3>0, <3>1, SameOwners
    <3>b. OwnedInUse'
      BY <1>s, <3>1, SameIndexes DEF Current, TailInList
    <3>c. OwnedNotReady'
      BY <1>s, <3>1, SameIndexes DEF Current, TailInList
    <3>d. FilledIsCurrent'
      BY <1>s, <3>1, SameIndexes DEF Current, TailInList
    <3>e. FrontInUse'
      BY <1>s, <3>1, SameIndexes DEF Current, TailInList
    <3>f. DueQueued'
      BY <1>s, <3>1, SameIndexes DEF Current, TailInList
    <3> QED
      BY <3>a, <3>b, <3>c, <3>d, <3>e, <3>f
  <2> QED
    BY <1>1, <2>1, <2>2, <2>3, <2>4, <2>5, <2>6, <2>7, <2>8 DEF Trace
<1>2. ASSUME NEW t \in Threads, Untraced(t) PROVE Goal
  <2>1. /\ UNCHANGED <<queue, pc, Node, engine, taken, due>>
        /\ \A u \in Threads : u # t => sent'[u] = sent[u]
        /\ pc[t] = "idle"
    BY <1>2, <1>t DEF Untraced
  <2> QED
    BY <1>l, <1>t, <2>1, SameIndexes
    DEF OwnersDistinct, OwnedInUse, OwnedNotReady, FilledIsCurrent, FrontInUse,
        DueQueued, NobodyFills, Owning, Current, queue, engine
<1>3. ASSUME UNCHANGED <<Hindex, Tindex, Flag, QBuf, pc, Node, sent, engine, taken>>,
             \/ UNCHANGED <<Exit, due>>
             \/ Exit' = TRUE /\ due' = IF Exit THEN due ELSE Len(taken) + Depth
      PROVE  Goal
  <2>1. Len(taken) \in Nat /\ Depth \in Nat
    BY <1>t DEF Depth, Wrapped
  <2> QED
    BY <1>l, <1>3, <2>1, SameIndexes
    DEF OwnersDistinct, OwnedInUse, OwnedNotReady, FilledIsCurrent, FrontInUse,
        DueQueued, NobodyFills, Owning, Current, engine
<1>4. ASSUME NEW r \in Processes, ProcessEnds(r) PROVE Goal
  <2>1. /\ UNCHANGED <<queue, Node, sent, engine, taken, due>>
        /\ \A u \in Threads : pc'[u] = pc[u] \/ (pc[u] \notin Owning /\ pc'[u] = "dead")
    <3>1. \A t \in Threads : ProcOf[t] = r => pc[t] \notin Owning
      BY <1>4 DEF ProcessEnds
    <3>2. pc' = [t \in Threads |-> IF ProcOf[t] = r THEN "dead" ELSE pc[t]]
      BY <1>4 DEF ProcessEnds
    <3>3. UNCHANGED <<queue, Node, sent, engine, taken, due>>
      BY <1>4 DEF ProcessEnds
    <3> QED
      BY <3>1, <3>2, <3>3
  <2> QED
    BY <1>l, <2>1, SameIndexes
    DEF OwnersDistinct, OwnedInUse, OwnedNotReady, FilledIsCurrent, FrontInUse,
        DueQueued, NobodyFills, Owning, Current, queue, engine
<1>5. CASE EventProcess
  <2> USE <1>t, <1>l
      DEF OwnersDistinct, OwnedInUse, OwnedNotReady, FilledIsCurrent, FrontInUse,
          DueQueued, NobodyFills, EGoto, Current, queue, tracer
  <2>1. CASE QueueGetExit
    BY <2>1, SameIndexes DEF QueueGetExit
  <2>2. CASE QueueSize
    <3>1. ASSUME cpc' = "stopped" PROVE Depth = 0
      <4>1. ((Tindex + NodeNum) - Hindex) % NodeNum = 0
        BY <2>2, <3>1 DEF QueueSize
      <4>2. (Tindex + NodeNum) - Hindex \in 1 .. 2 * NodeNum
        BY <2>2 DEF QueueSize
      <4>3. Wrapped(Tindex) = Wrapped(Hindex)
        <5> DEFINE a == (Tindex + NodeNum) - Hindex
        <5>1. a = NodeNum \/ a = 2 * NodeNum
          <6> HIDE DEF a
          <6> QED
            BY <4>1, <4>2, ModZero DEF a
        <5> QED
          BY <5>1 DEF Wrapped
      <4> QED
        BY <4>3 DEF Depth, Wrapped
    <3> QED
      BY <2>2, <3>1, SameIndexes DEF QueueSize
  <2>3. CASE FrontQueue
    <3>1. ASSUME Hindex # Tindex PROVE InUse(Hindex)
      <4>1. Hindex < NodeNum
        BY <2>3 DEF FrontQueue
      <4>2. CASE Tindex = NodeNum
        BY <1>s, <4>1, <4>2 DEF TailInList, Advanced, Owning, InUse, Wrapped
      <4>3. CASE Tindex < NodeNum
        BY <3>1, <4>1, <4>3 DEF InUse, Wrapped
      <4> QED
        BY <4>2, <4>3
    <3> QED
      BY <2>3, <3>1, SameIndexes DEF FrontQueue
  <2>4. CASE TestFlag
    <3>1. ASSUME Flag[QN] PROVE NobodyFills(QN)
      BY <2>4, <3>1 DEF TestFlag, Owners, Owning
    <3> QED
      BY <2>4, <3>1, SameIndexes DEF TestFlag
  <2>5. CASE TestCross \/ Analyse
    BY <2>5, SameIndexes DEF TestCross, Analyse
  <2>6. CASE OutQueue
    <3>1. /\ QN = Hindex /\ InUse(Hindex) /\ Hindex < NodeNum /\ Hindex' = Hindex + 1
          /\ UNCHANGED <<Tindex, Exit, Flag, QBuf, pc, Node, sent, due>>
          /\ taken' = Append(taken, event) /\ cpc' = "outwrap"
      BY <2>6 DEF OutQueue
    <3>2. Depth' = Depth - 1 /\ Depth \in Nat
      <4>1. CASE Tindex = NodeNum
        BY <3>1, <4>1 DEF InUse, Depth, Wrapped
      <4>2. CASE Tindex < NodeNum /\ Hindex + 1 = NodeNum
        BY <3>1, <4>2 DEF InUse, Depth, Wrapped
      <4>3. CASE Tindex < NodeNum /\ Hindex + 1 < NodeNum
        BY <3>1, <4>3 DEF InUse, Depth, Wrapped
      <4> QED
        BY <3>1, <4>1, <4>2, <4>3
    <3>3. \A s \in Slots : InUse(s) /\ s # Hindex => InUse(s)'
      BY <3>1 DEF InUse, Wrapped, Slots
    <3>4. Len(taken') = Len(taken) + 1 /\ Len(taken) \in Nat
      BY <2>6 DEF OutQueue, TypeInv, TypeOK
    <3> QED
      BY <1>s, <2>6, <3>1, <3>2, <3>3, <3>4 DEF OutQueue, TailInList
  <2>7. CASE OutWrap
    <3>1. UNCHANGED <<Wrapped(Hindex), Wrapped(Tindex)>>
      BY <2>7 DEF OutWrap, Wrapped
    <3> QED
      BY <2>7, <3>1, SameUse DEF OutWrap
  <2> QED
    BY <1>5, <2>1, <2>2, <2>3, <2>4, <2>5, <2>6, <2>7 DEF EventProcess
<1> QED
  BY <1>1, <1>2, <1>3, <1>4, <1>5
  DEF Next, TRC_Start, TRC_Stop, TRC_exit, Signal, QueueSetExit, vars, queue, tracer,
      engine

LEMMA Invariant == Spec => []IInv
  BY TypeInit, TypeStep, SlotInit, SlotStep, ListInit, ListStep, PTL DEF Spec, IInv

\* Until a hazard strikes, no slot is filled by two threads, and no thread
\* fills the slot whose event the engine has accepted.
THEOREM SlotsOwnedOnce == Spec => []OwnSlotUntilHazard
<1>1. IInv => OwnSlotUntilHazard
  BY DEF IInv, ListInv, OwnSlotUntilHazard, OwnSlot, OwnersDistinct, FrontInUse,
         NobodyFills, Owners
<1> QED
  BY <1>1, Invariant, PTL

\* Until a hazard strikes, the engine does not stop before it has removed
\* every event that had a slot when Exit was set.
THEOREM DrainedBeforeStop == Spec => []DueBeforeStop
<1>1. IInv => DueBeforeStop
  BY DEF IInv, TypeInv, TypeOK, ListInv, DueBeforeStop, DueQueued
<1> QED
  BY <1>1, Invariant, PTL
-----------------------------------------------------------------------------
(***************************************************************************)
(* Refinement.  The slots in use, in order, are the entries of the         *)
(* abstract queue.                                                         *)
(***************************************************************************)
Cells == [ev : Event \cup {NoEvent}, ready : BOOLEAN]

\* Place counts the slots in use from the front, each exactly once.
LEMMA Places == ASSUME TypeInv, Tindex <= NodeNum
                PROVE  /\ Depth \in 0 .. NodeNum - 1
                       /\ \A k \in 1 .. Depth : Place(k) \in Slots /\ InUse(Place(k))
                       /\ \A s \in Slots : InUse(s) => \E k \in 1 .. Depth : Place(k) = s
                       /\ \A j, k \in 1 .. Depth : Place(j) = Place(k) => j = k
<1> DEFINE h == Wrapped(Hindex)
           t == Wrapped(Tindex)
<1>1. h \in 0 .. NodeNum - 1 /\ t \in 0 .. NodeNum - 1 /\ NodeNum \in Nat \ {0, 1}
  BY DEF TypeInv, TypeOK, Wrapped
<1>2. Depth = IF t >= h THEN t - h ELSE t + NodeNum - h
  BY DEF Depth
<1>3. \A s : InUse(s) <=> IF h <= t THEN h <= s /\ s < t ELSE h <= s \/ s < t
  BY DEF InUse
<1>4. \A k \in 1 .. NodeNum :
        Place(k) = IF h + k - 1 >= NodeNum THEN h + k - 1 - NodeNum ELSE h + k - 1
  BY <1>1 DEF Place, Wrapped
<1> HIDE DEF h, t
<1>5. Depth \in 0 .. NodeNum - 1
  BY <1>1, <1>2
<1>6. ASSUME NEW k \in 1 .. Depth PROVE Place(k) \in Slots /\ InUse(Place(k))
  BY <1>1, <1>2, <1>3, <1>4, <1>5 DEF Slots
<1>7. ASSUME NEW s \in Slots, InUse(s) PROVE \E k \in 1 .. Depth : Place(k) = s
  <2>1. CASE h <= s
    <3>1. s - h + 1 \in 1 .. Depth /\ Place(s - h + 1) = s
      BY <1>1, <1>2, <1>3, <1>4, <1>5, <1>7, <2>1 DEF Slots
    <3> QED
      BY <3>1
  <2>2. CASE s < h
    <3>1. s + NodeNum - h + 1 \in 1 .. Depth /\ Place(s + NodeNum - h + 1) = s
      BY <1>1, <1>2, <1>3, <1>4, <1>5, <1>7, <2>2 DEF Slots
    <3> QED
      BY <3>1
  <2> QED
    BY <1>1, <2>1, <2>2 DEF Slots
<1>8. ASSUME NEW j \in 1 .. Depth, NEW k \in 1 .. Depth, Place(j) = Place(k)
      PROVE  j = k
  BY <1>1, <1>4, <1>5, <1>8
<1> QED
  BY <1>5, <1>6, <1>7, <1>8

LEMMA EntryOwned == ASSUME OwnersDistinct, NEW t \in Threads, pc[t] \in Owning
                    PROVE  /\ Owners(Node[t]) = {t}
                           /\ Entry(Node[t]) = [ev |-> Current(t), ready |-> FALSE]
<1>1. Owners(Node[t]) = {t}
  BY DEF OwnersDistinct, Owners
<1> QED
  BY <1>1 DEF Entry

LEMMA EntryFree == ASSUME NEW s, NobodyFills(s)
                   PROVE  Entry(s) = [ev |-> QBuf[s], ready |-> TRUE]
  BY DEF NobodyFills, Owners, Entry

LEMMA CurrentType == ASSUME TypeInv, NEW t \in Threads, pc[t] \in Inside \cup Owning
                     PROVE  Current(t) \in Event
<1>1. sent[t] \in 0 .. MaxEvents /\ sent[t] # 0
  BY DEF TypeInv, TypeOK, CallsCounted
<1> QED
  BY <1>1 DEF Current, Event

LEMMA EntryType == ASSUME TypeInv, NEW s \in Slots PROVE Entry(s) \in Cells
<1>1. CASE Owners(s) # {}
  <2>1. PICK t \in Threads : pc[t] \in Owning /\ t = CHOOSE u \in Owners(s) : TRUE
    BY <1>1 DEF Owners
  <2>2. Current(t) \in Event
    BY <2>1, CurrentType
  <2> QED
    BY <1>1, <2>1, <2>2 DEF Entry, Cells
<1>2. CASE Owners(s) = {}
  BY <1>2 DEF Entry, Cells, TypeInv, TypeOK
<1> QED
  BY <1>1, <1>2

LEMMA PendingType == ASSUME TypeInv, Tindex <= NodeNum
                     PROVE  Pending \in Seq(Cells) /\ Len(Pending) = Depth
<1>1. Depth \in Nat /\ \A k \in 1 .. Depth : Entry(Place(k)) \in Cells
  BY Places, EntryType
<1>2. Pending \in [1 .. Depth -> Cells]
  BY <1>1 DEF Pending
<1> QED
  BY <1>1, <1>2

\* A step that moves neither index, and changes no entry, is not seen.
LEMMA SamePending == ASSUME TypeInv, Tindex <= NodeNum,
                            UNCHANGED <<Wrapped(Hindex), Wrapped(Tindex)>>,
                            \A s \in Slots : InUse(s) => Entry(s)' = Entry(s)
                     PROVE  Pending' = Pending
<1>1. Depth' = Depth
  BY SameUse
<1>2. \A k \in 1 .. Depth : Place(k)' = Place(k)
  BY DEF Place
<1>3. \A k \in 1 .. Depth : Entry(Place(k))' = Entry(Place(k))
  BY <1>2, Places
<1> QED
  BY <1>1, <1>3 DEF Pending

\* Entries stay when nobody starts or stops filling a slot and no complete
\* slot is rewritten.
LEMMA SameEntry == ASSUME NEW s,
                          \A u \in Threads : pc'[u] \in Owning <=> pc[u] \in Owning,
                          \A u \in Threads : pc[u] \in Owning =>
                              Node'[u] = Node[u] /\ sent'[u] = sent[u],
                          QBuf'[s] = QBuf[s] \/ Owners(s) # {}
                   PROVE  Entry(s)' = Entry(s)
<1>1. Owners(s)' = Owners(s)
  BY DEF Owners
<1>2. CASE Owners(s) = {}
  BY <1>1, <1>2 DEF Entry
<1>3. CASE Owners(s) # {}
  <2>1. PICK t \in Threads : pc[t] \in Owning /\ t = CHOOSE u \in Owners(s) : TRUE
    BY <1>3 DEF Owners
  <2>2. Current(t)' = Current(t)
    BY <2>1 DEF Current
  <2> QED
    BY <1>1, <1>3, <2>1, <2>2 DEF Entry
<1> QED
  BY <1>2, <1>3

\* StoreTindex reserves: the thread's event joins at the end, not ready.
LEMMA StoreReserves == ASSUME IInv, NEW t \in Threads, StoreTindex(t), hazard' = {}
                       PROVE  Fifo!Reserve
<1>1. /\ TypeInv /\ OneInside /\ TailInList /\ OwnersDistinct /\ OwnedInUse
      /\ hazard = {} /\ TypeInv'
  <2>1. hazard = {} /\ TypeInv'
    BY HazardGrows, TypeStep DEF IInv, Next, Trace
  <2> QED
    BY <2>1 DEF IInv, SlotInv, ListInv
<1>2. /\ NodeNum \in Nat \ {0, 1} /\ Hindex \in 0 .. NodeNum /\ Tindex \in Nat
      /\ pc \in [Threads -> ThreadPc]
  BY <1>1 DEF TypeInv, TypeOK
<1>3. Tindex < NodeNum /\ Node[t] = Tindex /\ Tindex' = Tindex + 1
  BY <1>1 DEF StoreTindex, Goto, OneInside, TailInList, Inside, Advanced
<1>4. /\ UNCHANGED <<Hindex, QBuf, Node, sent, taken>>
      /\ pc[t] = "store" /\ pc' = [pc EXCEPT ![t] = "clear"]
      /\ Wrapped(Tindex') # Wrapped(Hindex)
  BY DEF StoreTindex, Goto, engine
<1>5. Depth' = Depth + 1 /\ ~InUse(Tindex) /\ Depth \in Nat
  BY <1>2, <1>3, <1>4 DEF InUse, Depth, Wrapped
<1>6. Place(Depth + 1) = Tindex
  BY <1>2, <1>3, <1>4 DEF Place, Depth, Wrapped
<1>7. \A k : Place(k)' = Place(k)
  BY <1>4 DEF Place, Wrapped
<1>8. Entry(Node[t])' = [ev |-> Current(t), ready |-> FALSE]
  <2>1. \A u \in Threads : pc[u] \in Owning => Node[u] # Tindex
    BY <1>1, <1>5 DEF OwnedInUse
  <2>2. \A u \in Threads : pc'[u] \in Owning /\ Node[u] = Tindex <=> u = t
    BY <1>2, <1>3, <1>4, <2>1 DEF Owning
  <2>3. Owners(Node[t])' = {t}
    BY <1>3, <1>4, <2>2 DEF Owners
  <2> QED
    BY <1>4, <2>3 DEF Entry, Current
<1>9. \A s : s # Tindex => Entry(s)' = Entry(s)
  <2>1. \A s : s # Tindex => Owners(s)' = Owners(s)
    BY <1>2, <1>3, <1>4 DEF Owners, Owning
  <2> QED
    BY <1>4, <2>1 DEF Entry, Current
<1>10. Current(t) \in Event
  BY <1>1, <1>4, CurrentType DEF Inside
<1>11. Pending' = Append(Pending, [ev |-> Current(t), ready |-> FALSE])
  <2> DEFINE new == [ev |-> Current(t), ready |-> FALSE]
  <2>0. Tindex <= NodeNum
    BY <1>2, <1>3
  <2>1. Pending \in Seq(Cells) /\ Len(Pending) = Depth
    BY <1>1, <2>0, PendingType
  <2>2. \A k \in 1 .. Depth : Place(k) # Tindex
    BY <1>1, <1>5, <2>0, Places
  <2>3. Pending' = [k \in 1 .. Depth + 1 |-> Entry(Place(k))']
    BY <1>5 DEF Pending
  <2>4. \A k \in 1 .. Depth : Pending'[k] = Pending[k]
    BY <1>5, <1>7, <1>9, <2>2, <2>3 DEF Pending
  <2>5. \A k : Place(k) = Node[t] => Entry(Place(k))' = new
    BY <1>4, <1>7, <1>8
  <2>6. Pending'[Depth + 1] = new
    <3>1. \A k \in 1 .. Depth + 1 : k = Depth + 1 => Pending'[k] = new
      BY <1>3, <1>6, <2>3, <2>5
    <3>2. Depth + 1 \in 1 .. Depth + 1
      BY <1>5
    <3> QED
      BY <3>1, <3>2
  <2>7. new \in Cells
    BY <1>10 DEF Cells
  <2>8. \A k \in 1 .. Depth : Pending[k] \in Cells
    BY <2>1, ElementOfSeq
  <2>9. Pending' \in Seq(Cells) /\ Len(Pending') = Depth + 1
    <3>1. \A k \in 1 .. Depth + 1 : Pending'[k] \in Cells
      BY <1>5, <2>4, <2>6, <2>7, <2>8
    <3>2. Pending' \in [1 .. Depth + 1 -> Cells]
      BY <2>3, <3>1
    <3> QED
      BY <1>5, <3>2
  <2> HIDE DEF new
  <2>10. Pending' = Append(Pending, new)
    <3>1. /\ Append(Pending, new) \in Seq(Cells)
          /\ Len(Append(Pending, new)) = Depth + 1
          /\ \A k \in 1 .. Depth : Append(Pending, new)[k] = Pending[k]
          /\ Append(Pending, new)[Depth + 1] = new
      BY <2>1, <2>7, AppendProperties
    <3>2. \A k \in 1 .. Depth + 1 : Pending'[k] = Append(Pending, new)[k]
      BY <1>5, <2>4, <2>6, <3>1
    <3> QED
      BY <2>9, <3>1, <3>2, SeqEqual
  <2> QED
    BY <2>10 DEF new
<1> QED
  BY <1>1, <1>4, <1>10, <1>11 DEF Fifo!Reserve

\* SetFlag completes the entry of the thread's slot.
LEMMA SetCompletes == ASSUME IInv, NEW t \in Threads, SetFlag(t), hazard' = {}
                      PROVE  Fifo!Complete
<1>1. /\ TypeInv /\ TailInList /\ OwnersDistinct /\ OwnedInUse /\ FilledIsCurrent
      /\ hazard = {} /\ Tindex <= NodeNum
  <2>1. hazard = {}
    BY HazardGrows DEF Next, Trace
  <2>2. TailInList
    BY <2>1 DEF IInv, SlotInv
  <2>3. Tindex <= NodeNum
    BY <2>2 DEF TailInList, IInv, TypeInv, TypeOK, Slots, Advanced, Owning
  <2> QED
    BY <2>1, <2>2, <2>3 DEF IInv, ListInv
<1>2. /\ UNCHANGED <<Hindex, Tindex, QBuf, Node, sent, taken>>
      /\ pc[t] = "flag" /\ pc' = [pc EXCEPT ![t] = "idle"]
  BY DEF SetFlag, Goto, engine
<1>3. pc \in [Threads -> ThreadPc] /\ Node[t] \in Slots /\ InUse(Node[t])
  BY <1>1, <1>2 DEF TypeInv, TypeOK, TailInList, OwnedInUse, Owning
<1>4. PICK k \in 1 .. Depth : Place(k) = Node[t]
  BY <1>1, <1>3, Places
<1>5. /\ Pending \in Seq(Cells) /\ Len(Pending) = Depth
      /\ Depth' = Depth /\ \A j : Place(j)' = Place(j)
  BY <1>1, <1>2, PendingType DEF Depth, Place, Wrapped
<1>6. Entry(Node[t]) = [ev |-> Current(t), ready |-> FALSE]
  BY <1>1, <1>2, EntryOwned DEF Owning
<1>7. Entry(Node[t])' = [ev |-> Current(t), ready |-> TRUE]
  <2>1. Owners(Node[t])' = {}
    BY <1>1, <1>2, <1>3 DEF OwnersDistinct, Owners, Owning
  <2>2. QBuf[Node[t]]' = Current(t)
    BY <1>1, <1>2 DEF FilledIsCurrent
  <2> QED
    BY <2>1, <2>2 DEF Entry
<1>8. \A s : s # Node[t] => Entry(s)' = Entry(s)
  <2>1. \A s : s # Node[t] => Owners(s)' = Owners(s)
    BY <1>2, <1>3 DEF Owners, Owning
  <2> QED
    BY <1>2, <2>1 DEF Entry, Current
<1>9. \A j \in 1 .. Depth : j # k => Place(j) # Node[t]
  BY <1>1, <1>4, Places
<1>10. Pending' = [Pending EXCEPT ![k] = [ev |-> @.ev, ready |-> TRUE]]
  <2>1. Pending' = [j \in 1 .. Depth |-> Entry(Place(j))']
    BY <1>5 DEF Pending
  <2>2. \A j \in 1 .. Depth : j # k => Entry(Place(j))' = Pending[j]
    BY <1>5, <1>8, <1>9 DEF Pending
  <2>3. Entry(Place(k))' = [ev |-> Pending[k].ev, ready |-> TRUE]
    BY <1>2, <1>4, <1>5, <1>6, <1>7 DEF Pending
  <2>4. DOMAIN Pending = 1 .. Depth
    BY DEF Pending
  <2>5. Pending' = [j \in 1 .. Depth |-> IF j = k
                                          THEN [ev |-> Pending[k].ev, ready |-> TRUE]
                                          ELSE Pending[j]]
    BY <2>1, <2>2, <2>3
  <2> QED
    BY <1>4, <2>4, <2>5
<1>11. ~Pending[k].ready
  BY <1>4, <1>6 DEF Pending
<1> QED
  BY <1>1, <1>2, <1>5, <1>10, <1>11 DEF Fifo!Complete

\* OutQueue delivers: the event in hand is the front entry, and complete.
LEMMA OutDelivers == ASSUME IInv, OutQueue, hazard' = {}
                     PROVE  Fifo!Deliver
<1>1. /\ TypeInv /\ TailInList /\ FrontInUse /\ hazard = {} /\ Tindex <= NodeNum
  <2>1. hazard = {}
    BY HazardGrows DEF Next, EventProcess
  <2>2. TailInList
    BY <2>1 DEF IInv, SlotInv
  <2>3. Tindex <= NodeNum
    BY <2>2 DEF TailInList, IInv, TypeInv, TypeOK, Slots, Advanced, Owning
  <2> QED
    BY <2>1, <2>2, <2>3 DEF IInv, ListInv
<1>2. /\ cpc = "out" /\ cpc' = "outwrap" /\ Hindex' = Hindex + 1
      /\ taken' = Append(taken, event)
      /\ UNCHANGED <<Tindex, QBuf, pc, Node, sent>>
  BY DEF OutQueue, EGoto, tracer
<1>3. /\ NodeNum \in Nat \ {0, 1} /\ Hindex \in 0 .. NodeNum - 1 /\ Tindex \in Nat
      /\ QN = Hindex /\ InUse(Hindex) /\ NobodyFills(Hindex) /\ event = QBuf[Hindex]
  BY <1>1, <1>2 DEF FrontInUse, TypeInv, TypeOK, HeadInList
<1>4. Depth' = Depth - 1 /\ Depth >= 1 /\ Depth \in Nat
  <2>1. CASE Tindex = NodeNum
    BY <1>2, <1>3, <2>1 DEF InUse, Depth, Wrapped
  <2>2. CASE Tindex < NodeNum /\ Hindex + 1 = NodeNum
    BY <1>2, <1>3, <2>2 DEF InUse, Depth, Wrapped
  <2>3. CASE Tindex < NodeNum /\ Hindex + 1 < NodeNum
    BY <1>2, <1>3, <2>3 DEF InUse, Depth, Wrapped
  <2> QED
    BY <1>1, <1>3, <2>1, <2>2, <2>3
<1>5. Place(1) = Hindex
  BY <1>3 DEF Place, Wrapped
<1>6. \A k \in 1 .. NodeNum - 1 : Place(k)' = Place(k + 1)
  BY <1>2, <1>3 DEF Place, Wrapped
<1>7. \A s : Entry(s)' = Entry(s)
  BY <1>2 DEF Entry, Owners, Current
<1>8. Pending \in Seq(Cells) /\ Len(Pending) = Depth /\ Depth <= NodeNum - 1
  BY <1>1, PendingType, Places
<1>9. Pending[1] = [ev |-> event, ready |-> TRUE]
  BY <1>3, <1>4, <1>5, EntryFree DEF Pending
<1>10. Pending' = Tail(Pending)
  <2>1. /\ Tail(Pending) \in Seq(Cells) /\ Len(Tail(Pending)) = Depth - 1
        /\ \A k \in 1 .. Depth - 1 : Tail(Pending)[k] = Pending[k + 1]
    BY <1>4, <1>8, HeadTailProperties
  <2>2. \A k \in 1 .. Depth - 1 : Entry(Place(k))' = Pending[k + 1]
    BY <1>3, <1>4, <1>6, <1>7, <1>8 DEF Pending
  <2>3. Pending' = [k \in 1 .. Depth - 1 |-> Pending[k + 1]]
    BY <1>4, <2>2 DEF Pending
  <2>4. Pending' \in Seq(Cells) /\ Len(Pending') = Depth - 1
    <3>1. \A k \in 1 .. Depth - 1 : Pending[k + 1] \in Cells
      BY <1>4, <1>8, ElementOfSeq
    <3>2. Pending' \in [1 .. Depth - 1 -> Cells]
      BY <2>3, <3>1
    <3> QED
      BY <1>4, <3>2
  <2>5. \A k \in 1 .. Depth - 1 : Pending'[k] = Tail(Pending)[k]
    BY <2>1, <2>3
  <2> QED
    BY <2>1, <2>4, <2>5, SeqEqual
<1>11. Pending # <<>> /\ Head(Pending) = Pending[1]
  BY <1>4, <1>8
<1> QED
  BY <1>1, <1>2, <1>9, <1>10, <1>11 DEF Fifo!Deliver

LEMMA FifoStep == IInv /\ IInv' /\ [Next]_vars => [Fifo!Next]_(Fifo!fvars)
<1> SUFFICES ASSUME IInv, IInv', [Next]_vars, hazard' = {}
             PROVE  [Fifo!Next]_(Fifo!fvars)
  BY DEF Fifo!Next
<1>1. hazard = {}
  BY HazardGrows
<1>2. /\ TypeInv /\ TailInList /\ OwnersDistinct /\ OwnedInUse
  BY <1>1 DEF IInv, SlotInv, ListInv
<1>3. Tindex <= NodeNum /\ Tindex \in Nat /\ pc \in [Threads -> ThreadPc]
  BY <1>2 DEF TailInList, TypeInv, TypeOK, Slots, Advanced, Owning
<1>4. ASSUME UNCHANGED <<Wrapped(Hindex), Wrapped(Tindex), taken>>,
             \A s \in Slots : Entry(s)' = Entry(s)
      PROVE  UNCHANGED Fifo!fvars
  BY <1>1, <1>2, <1>3, <1>4, SamePending DEF Fifo!fvars
<1>5. ASSUME UNCHANGED <<Hindex, Tindex, QBuf, taken>>,
             \A u \in Threads : pc'[u] \in Owning <=> pc[u] \in Owning,
             \A u \in Threads : pc[u] \in Owning =>
                 Node'[u] = Node[u] /\ sent'[u] = sent[u]
      PROVE  UNCHANGED Fifo!fvars
  <2>1. \A s \in Slots : Entry(s)' = Entry(s)
    BY <1>5, SameEntry
  <2>2. UNCHANGED <<Wrapped(Hindex), Wrapped(Tindex)>>
    BY <1>5 DEF Wrapped
  <2> QED
    BY <1>4, <1>5, <2>1, <2>2
<1>6. ASSUME NEW t \in Threads, Trace(t) PROVE [Fifo!Next]_(Fifo!fvars)
  <2> USE <1>3 DEF Goto, Owning, queue, engine
  <2>1. CASE TRC_trace(t)
    BY <1>5, <2>1 DEF TRC_trace
  <2>2. CASE LoadTindex(t)
    BY <1>5, <2>2 DEF LoadTindex
  <2>3. CASE StoreTindex(t)
    BY <1>1, <2>3, StoreReserves DEF Fifo!Next
  <2>4. CASE ClearFlag(t)
    BY <1>5, <2>4 DEF ClearFlag
  <2>5. CASE TestWrap(t)
    BY <1>5, <2>5 DEF TestWrap
  <2>6. CASE WrapTindex(t)
    <3>1. UNCHANGED <<Wrapped(Hindex), Wrapped(Tindex), taken>>
      BY <1>2, <2>6 DEF WrapTindex, Wrapped, TailInList
    <3>2. \A s \in Slots : Entry(s)' = Entry(s)
      BY <2>6, SameEntry DEF WrapTindex
    <3> QED
      BY <1>4, <3>1, <3>2
  <2>7. CASE FillNode(t)
    <3>1. UNCHANGED <<Wrapped(Hindex), Wrapped(Tindex), taken>>
      BY <2>7 DEF FillNode, Wrapped
    <3>2. ASSUME NEW s \in Slots PROVE QBuf'[s] = QBuf[s] \/ Owners(s) # {}
      BY <2>7 DEF FillNode, Write, Owners, TypeInv, TypeOK
    <3>3. \A s \in Slots : Entry(s)' = Entry(s)
      BY <2>7, <3>2, SameEntry DEF FillNode
    <3> QED
      BY <1>4, <3>1, <3>3
  <2>8. CASE SetFlag(t)
    BY <1>1, <2>8, SetCompletes DEF Fifo!Next
  <2> QED
    BY <1>6, <2>1, <2>2, <2>3, <2>4, <2>5, <2>6, <2>7, <2>8 DEF Trace
<1>7. ASSUME NEW t \in Threads, Untraced(t) PROVE UNCHANGED Fifo!fvars
  BY <1>3, <1>5, <1>7 DEF Untraced, Owning, queue, engine, TypeInv, TypeOK
<1>8. ASSUME NEW r \in Processes, ProcessEnds(r) PROVE UNCHANGED Fifo!fvars
  <2>1. \A u \in Threads : ProcOf[u] = r => pc[u] \notin Owning
    BY <1>8 DEF ProcessEnds
  <2>2. pc' = [u \in Threads |-> IF ProcOf[u] = r THEN "dead" ELSE pc[u]]
    BY <1>8 DEF ProcessEnds
  <2>3. UNCHANGED <<Hindex, Tindex, QBuf, taken, Node, sent>>
    BY <1>8 DEF ProcessEnds, queue
  <2>4. \A u \in Threads : pc'[u] \in Owning <=> pc[u] \in Owning
    BY <2>1, <2>2 DEF Owning
  <2> QED
    BY <1>5, <2>3, <2>4
<1>9. CASE EventProcess
  <2> USE DEF queue, tracer
  <2>1. CASE OutQueue
    BY <1>1, <2>1, OutDelivers DEF Fifo!Next
  <2>2. CASE OutWrap
    <3>1. UNCHANGED <<Wrapped(Hindex), Wrapped(Tindex), taken>>
      BY <1>2, <2>2 DEF OutWrap, Wrapped, TypeInv, TypeOK
    <3>2. \A s \in Slots : Entry(s)' = Entry(s)
      BY <2>2, SameEntry DEF OutWrap
    <3> QED
      BY <1>4, <3>1, <3>2
  <2>3. CASE QueueGetExit \/ QueueSize \/ FrontQueue \/ TestFlag
                \/ TestCross \/ Analyse
    BY <1>5, <2>3 DEF QueueGetExit, QueueSize, FrontQueue, TestFlag, TestCross, Analyse
  <2> QED
    BY <1>9, <2>1, <2>2, <2>3 DEF EventProcess
<1>10. CASE UNCHANGED <<Hindex, Tindex, QBuf, taken, pc, Node, sent>>
  BY <1>5, <1>10
<1> QED
  BY <1>6, <1>7, <1>8, <1>9, <1>10
  DEF Next, TRC_Start, TRC_Stop, TRC_exit, Signal, QueueSetExit, vars, queue, tracer

LEMMA FifoInit == Init => Fifo!Init
<1> SUFFICES ASSUME Init PROVE Fifo!Init
  OBVIOUS
<1>1. Depth = 0
  BY DEF Init, Depth, Wrapped
<1>2. Pending = <<>>
  BY <1>1 DEF Pending
<1> QED
  BY <1>2 DEF Init, Fifo!Init

\* The ring buffer of Queue.c implements the abstract queue until a hazard
\* strikes: events leave in the order in which they got their slots, once
\* each, and only when complete.
THEOREM QueueIsFifo == Spec => FifoUntilHazard
  BY Invariant, FifoInit, FifoStep, PTL DEF Spec, FifoUntilHazard, Fifo!Spec
-----------------------------------------------------------------------------
(***************************************************************************)
(* What DifEngine is given.  Between Analyse and OutQueue the event in     *)
(* hand is analysed and not yet taken; with it, what was analysed is as    *)
(* long as what is left of the events seen when those before the first     *)
(* Python event are skipped, whatever the slots contain.  That both are    *)
(* the same events needs a slot nobody writes between the two looks at it, *)
(* which ListInv promises until a hazard strikes.                          *)
(***************************************************************************)
Seen == IF cpc = "out" THEN Append(taken, event) ELSE taken
Skipped == Len(Seen) - Len(analysed)
Crossing == StartCross \/ analysed # <<>>

CrossInv ==
    /\ Skipped \in Nat
    /\ StartCross => Skipped = 0
    /\ ~StartCross => \A i \in 1 .. Skipped : Seen[i] \notin PyEvents
    /\ ~StartCross /\ analysed # <<>> => Seen[Skipped + 1] \in PyEvents
    /\ cpc # "difa" => CrossFlag = Crossing
    /\ cpc = "difa" => /\ CrossFlag
                       /\ event = NoEvent \/ event \in PyEvents
                       /\ event = NoEvent <=> Crossing

SameInv == hazard = {} =>
    \A i \in 1 .. Len(analysed) : analysed[i] = Seen[Skipped + i]

LEMMA CrossInit == Init => CrossInv /\ SameInv
  BY DEF Init, CrossInv, SameInv, Seen, Skipped, Crossing

\* Nobody but EventProcess in three of its steps changes what has been seen.
LEMMA SeenStays ==
    ASSUME [Next]_vars, ~TestCross, ~Analyse, ~OutQueue
    PROVE  /\ UNCHANGED <<Seen, event, analysed, CrossFlag>>
           /\ cpc' = "difa" <=> cpc = "difa"
<1>1. /\ UNCHANGED <<taken, event, analysed, CrossFlag>>
      /\ (cpc' = "out" <=> cpc = "out") /\ (cpc' = "difa" <=> cpc = "difa")
  <2> USE DEF engine
  <2>1. ASSUME NEW t \in Threads, Trace(t) PROVE UNCHANGED <<taken, engine>>
    BY <2>1 DEF Trace, TRC_trace, LoadTindex, StoreTindex, ClearFlag, TestWrap, WrapTindex,
                FillNode, SetFlag
  <2>2. ASSUME NEW t \in Threads, Untraced(t) \/ TRC_Start(t) \/ TRC_Stop(t)
        PROVE  UNCHANGED <<taken, engine>>
    BY <2>2 DEF Untraced, TRC_Start, TRC_Stop
  <2>3. QueueSetExit => UNCHANGED <<taken, engine>>
    BY DEF QueueSetExit
  <2>4. ASSUME NEW r \in Processes, ProcessEnds(r) PROVE UNCHANGED <<taken, engine>>
    BY <2>4 DEF ProcessEnds
  <2>5. CASE EventProcess
    BY <2>5 DEF EventProcess, EGoto, QueueGetExit, QueueSize, FrontQueue, TestFlag, OutWrap
  <2>6. CASE UNCHANGED vars
    BY <2>6 DEF vars
  <2> QED
    BY <2>1, <2>2, <2>3, <2>4, <2>5, <2>6 DEF Next, TRC_exit, Signal
<1> QED
  BY <1>1 DEF Seen

\* An event that is looked at either crosses into Python or is skipped.
LEMMA CrossLook == ASSUME TypeInv, CrossInv, SameInv, TestCross
                   PROVE  CrossInv' /\ SameInv'
<1> DEFINE e == QBuf[QN]  n == Len(taken)
<1>1. /\ cpc = "cross" /\ taken' = taken /\ analysed' = analysed /\ hazard' = hazard
      /\ CrossFlag' = (CrossFlag \/ e \in PyEvents)
      /\ cpc' = IF CrossFlag' THEN "difa" ELSE "out"
      /\ event' = IF CrossFlag THEN NoEvent ELSE e
  BY DEF TestCross, EGoto
<1>2. /\ taken \in Seq(Event \cup {NoEvent}) /\ analysed \in Seq(Event \cup {NoEvent})
      /\ e \in Event \cup {NoEvent} /\ CrossFlag \in BOOLEAN
  BY DEF TypeInv, TypeOK
<1>3. NoEvent \notin PyEvents
  BY QueueAssumption
<1>4. Seen = taken /\ CrossFlag = Crossing /\ Crossing' = Crossing
  BY <1>1 DEF Seen, CrossInv, Crossing
<1>5. CASE CrossFlag'
  <2>1. Seen' = Seen /\ Skipped' = Skipped
    BY <1>1, <1>4, <1>5 DEF Seen, Skipped
  <2>2. event' = NoEvent \/ event' \in PyEvents
    BY <1>1, <1>5
  <2>3. event' = NoEvent <=> Crossing'
    BY <1>1, <1>3, <1>4, <1>5
  <2> QED
    BY <1>1, <1>5, <2>1, <2>2, <2>3 DEF CrossInv, SameInv
<1>6. CASE ~CrossFlag'
  <2>1. cpc' = "out" /\ event' = e /\ ~CrossFlag /\ e \notin PyEvents
    BY <1>1, <1>6
  <2>2. ~Crossing /\ analysed = <<>> /\ ~StartCross
    BY <1>4, <2>1 DEF Crossing
  <2>3. Seen' = Append(taken, e)
    BY <1>1, <2>1 DEF Seen
  <2>4. /\ n \in Nat /\ Len(Seen') = n + 1 /\ Seen'[n + 1] = e
        /\ \A i \in 1 .. n : Seen'[i] = taken[i]
    BY <1>2, <2>3
  <2>5. Skipped = n /\ Skipped' = n + 1
    BY <1>1, <1>4, <2>2, <2>4 DEF Skipped
  <2>6. \A i \in 1 .. n : taken[i] \notin PyEvents
    BY <1>4, <2>2, <2>5 DEF CrossInv
  <2>7. \A i \in 1 .. n + 1 : Seen'[i] \notin PyEvents
    BY <2>1, <2>4, <2>6
  <2>8. analysed' = <<>> /\ ~Crossing' /\ Len(analysed') = 0
    BY <1>1, <1>4, <2>2
  <2>9. CrossFlag' = Crossing'
    BY <1>1, <1>6, <2>8 DEF Crossing
  <2>10. CrossInv'
    BY <2>1, <2>2, <2>4, <2>5, <2>7, <2>8, <2>9 DEF CrossInv
  <2> QED
    BY <2>8, <2>10 DEF SameInv
<1> QED
  BY <1>5, <1>6

\* DifEngine gets the event looked at, or one of those behind the crossing.
LEMMA CrossAnalyse == ASSUME IInv, CrossInv, SameInv, Analyse
                      PROVE  CrossInv' /\ SameInv'
<1> DEFINE q == QBuf[QN]  n == Len(taken)  m == Len(analysed)
           e == IF event = NoEvent THEN q ELSE event
<1>1. /\ cpc = "difa" /\ cpc' = "out" /\ taken' = taken /\ event' = e
      /\ CrossFlag' = CrossFlag /\ hazard' = hazard /\ analysed' = Append(analysed, q)
  BY DEF Analyse, EGoto
<1>2. /\ taken \in Seq(Event \cup {NoEvent}) /\ analysed \in Seq(Event \cup {NoEvent})
      /\ q \in Event \cup {NoEvent} /\ e \in Event \cup {NoEvent}
  BY DEF IInv, TypeInv, TypeOK
<1>3. hazard = {} => e = q
  BY <1>1 DEF IInv, ListInv, FrontInUse
<1>4. CrossFlag /\ (~Crossing => e \in PyEvents)
  BY <1>1 DEF CrossInv
<1>5. Seen = taken /\ Seen' = Append(taken, e)
  BY <1>1 DEF Seen
<1> HIDE DEF e, q
<1>6. /\ n \in Nat /\ m \in Nat /\ Len(Seen') = n + 1 /\ Seen'[n + 1] = e
      /\ \A i \in 1 .. n : Seen'[i] = taken[i]
  BY <1>2, <1>5
<1>7. /\ n - m \in Nat
      /\ hazard = {} => \A i \in 1 .. m : analysed[i] = taken[n - m + i]
      /\ StartCross => n - m = 0
      /\ ~StartCross => \A i \in 1 .. n - m : taken[i] \notin PyEvents
      /\ ~StartCross /\ analysed # <<>> => taken[n - m + 1] \in PyEvents
  BY <1>5 DEF CrossInv, SameInv, Skipped
<1> HIDE DEF n
<1>8. /\ Len(analysed') = m + 1 /\ analysed' # <<>> /\ analysed'[m + 1] = q
      /\ \A i \in 1 .. m : analysed'[i] = analysed[i]
  BY <1>1, <1>2
<1>9. analysed # <<>> <=> m # 0
  BY <1>2
<1> HIDE DEF m
<1>10. Skipped' = n - m
  BY <1>6, <1>8 DEF Skipped
<1>11. ASSUME hazard' = {}, NEW i \in 1 .. m + 1
       PROVE  analysed'[i] = Seen'[n - m + i]
  <2>1. CASE i = m + 1
    BY <1>1, <1>3, <1>6, <1>8, <1>11, <2>1
  <2>2. CASE i \in 1 .. m
    <3>1. n - m + i \in 1 .. n
      BY <1>6, <1>7, <2>2
    <3> QED
      BY <1>1, <1>6, <1>7, <1>8, <1>11, <2>2, <3>1
  <2> QED
    BY <1>6, <2>1, <2>2
<1>12. ~StartCross => Seen'[n - m + 1] \in PyEvents
  <2>1. CASE m = 0
    BY <1>4, <1>6, <1>9, <2>1 DEF Crossing
  <2>2. CASE m # 0
    <3>1. n - m + 1 \in 1 .. n
      BY <1>6, <1>7, <2>2
    <3> QED
      BY <1>6, <1>7, <1>9, <2>2, <3>1
  <2> QED
    BY <2>1, <2>2
<1>13. \A i \in 1 .. n - m : Seen'[i] = taken[i]
  BY <1>6, <1>7
<1>14. CrossFlag' = Crossing'
  BY <1>1, <1>4, <1>8 DEF CrossInv, Crossing
<1>15. CrossInv'
  BY <1>1, <1>7, <1>8, <1>10, <1>12, <1>13, <1>14 DEF CrossInv
<1>16. SameInv'
  BY <1>8, <1>10, <1>11 DEF SameInv
<1> QED
  BY <1>15, <1>16

LEMMA CrossStep == IInv /\ CrossInv /\ SameInv /\ [Next]_vars => CrossInv' /\ SameInv'
<1> SUFFICES ASSUME IInv, CrossInv, SameInv, [Next]_vars PROVE CrossInv' /\ SameInv'
  OBVIOUS
<1>1. CASE OutQueue
  <2>1. /\ UNCHANGED <<Seen, analysed, CrossFlag, hazard>>
        /\ cpc # "difa" /\ cpc' # "difa"
    BY <1>1 DEF OutQueue, EGoto, Seen
  <2> QED
    BY <2>1 DEF CrossInv, SameInv, Skipped, Crossing
<1>2. CASE ~TestCross /\ ~Analyse /\ ~OutQueue
  <2>1. hazard' = {} => hazard = {}
    BY HazardGrows
  <2> QED
    BY <1>2, <2>1, SeenStays DEF CrossInv, SameInv, Skipped, Crossing
<1> QED
  BY <1>1, <1>2, CrossLook, CrossAnalyse DEF IInv

\* For any threads, slots and interleavings, hazards included, DifEngine is
\* called for the events from the first one that is seen to be Python's on, or
\* for all of them under -s, and for no others; until a hazard strikes it is
\* given those very events, in the order they are removed.
THEOREM AnalysedIsSuffix == Spec => []AnalysedFromCrossing
<1>1. CrossInv /\ SameInv /\ TypeInv => AnalysedFromCrossing
  <2> SUFFICES ASSUME TypeInv, CrossInv, SameInv, cpc # "out" PROVE
         LET python  == {i \in 1 .. Len(taken) : taken[i] \in PyEvents}
             kept    == {i \in 1 .. Len(taken) : StartCross \/ \E j \in python : j <= i}
             skipped == Len(taken) - Len(analysed)
         IN  /\ skipped >= 0
             /\ \A i \in 1 .. Len(taken) : i \in kept <=> i > skipped
             /\ hazard = {} =>
                  \A i \in 1 .. Len(analysed) : analysed[i] = taken[skipped + i]
    BY DEF AnalysedFromCrossing
  <2> DEFINE n == Len(taken)  m == Len(analysed)
  <2>1. Seen = taken /\ n \in Nat /\ m \in Nat /\ (analysed # <<>> <=> m # 0)
    BY DEF Seen, TypeInv, TypeOK
  <2>2. /\ n - m \in Nat
        /\ hazard = {} => \A i \in 1 .. m : analysed[i] = taken[n - m + i]
        /\ StartCross => n - m = 0
        /\ ~StartCross => \A i \in 1 .. n - m : taken[i] \notin PyEvents
        /\ ~StartCross /\ m # 0 => taken[n - m + 1] \in PyEvents
    BY <2>1 DEF CrossInv, SameInv, Skipped
  <2> HIDE DEF n, m
  <2>3. ASSUME NEW i \in 1 .. n
        PROVE  (StartCross \/ \E j \in 1 .. n : taken[j] \in PyEvents /\ j <= i) <=> i > n - m
    <3>1. CASE i > n - m /\ ~StartCross
      <4>1. n - m + 1 \in 1 .. n /\ n - m + 1 <= i /\ m # 0
        BY <2>1, <2>2, <3>1
      <4> QED
        BY <2>2, <3>1, <4>1
    <3>2. CASE ~(i > n - m)
      <4>1. ~StartCross /\ \A j \in 1 .. n : j <= i => j \in 1 .. n - m
        BY <2>1, <2>2, <3>2
      <4> QED
        BY <2>2, <3>2, <4>1
    <3> QED
      BY <2>1, <2>2, <3>1, <3>2
  <2>4. n - m >= 0
    BY <2>1, <2>2
  <2> QED
    BY <2>2, <2>3, <2>4 DEF n, m
<1> QED
  BY <1>1, CrossInit, CrossStep, Invariant, PTL DEF Spec, IInv
=============================================================================
