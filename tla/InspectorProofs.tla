--------------------------- MODULE InspectorProofs ---------------------------
(***************************************************************************)
(* Theorems about Inspector for any program.  Whatever happens in it,      *)
(* variables keep their types and events go out in order; as long as       *)
(* nothing happens that the inspector does not provide for, its contexts   *)
(* are those of the frames, and what they hold tainted is what is.         *)
(***************************************************************************)
EXTENDS Inspector, SequenceTheorems, NaturalsInduction, WellFoundedInduction, TLAPS

(***************************************************************************)
(* The inductive invariant.  What is held back was made at the last line,  *)
(* so nothing that was sent is younger.  While there is one thread, C code *)
(* runs in the statement of that line only, before anything reports it     *)
(* returned.                                                               *)
(***************************************************************************)
IsSeq(s) == s \in Seq(Range(s))

\* s is in the order of time, up to c.
Timed(s, c) ==
    /\ IsSeq(s)
    /\ \A i \in 1 .. Len(s) : s[i].at \in Nat /\ s[i].at <= c
    /\ \A i \in 1 .. Len(s) - 1 : s[i].at <= s[i + 1].at

CallsFirst(s) ==
    \A i \in 1 .. Len(s) - 1 :
        s[i].type = "CALL" /\ s[i + 1].type = "C" => s[i].at < s[i + 1].at

\* Every call that s reports was made before c.
CallsPast(s, c) == \A i \in 1 .. Len(s) : s[i].type = "CALL" => s[i].at < c

One == "threads" \notin mishap

TraceInv ==
    /\ clock \in Nat
    /\ Timed(trace, clock)
    /\ CacheMsg # None => CacheMsg.at = clock /\ CacheMsg.type = "CALL"
    /\ One => CallsFirst(trace)

\* A frame that is past its line's event has told of the thread it starts; frames
\* below the top wait for the one above.
IsFrame(fr) ==
    fr \in [fn : {fr.fn}, pc : {fr.pc}, stage : {fr.stage}, bound : {fr.bound},
            dirty : {fr.dirty}, got : {fr.got}, begun : {fr.begun}]
Told(fr, one) == IsFrame(fr) /\ (fr.stage \notin {"enter", "line"} /\ one => Stmt(fr).spawns = None)
Below(b, one) == IsSeq(b) /\ \A i \in 1 .. Len(b) : Told(b[i], one) /\ b[i].stage = "done"
Stack(s, one) ==
    IsSeq(s) /\ (s # <<>> => Below(Front(s), one) /\ Told(Last(s), one))

FrameInv ==
    /\ frames = [t \in Thread |-> frames[t]]
    /\ \A t \in Thread : Stack(frames[t], One)
    /\ One => \A t \in Thread \ {Main} : frames[t] = <<>>

QuietInv == One /\ AtStage(Main, "run") => CallsPast(trace, clock)

OrderInv == TraceInv /\ FrameInv /\ QuietInv
-----------------------------------------------------------------------------
(***************************************************************************)
(* Sequences                                                               *)
(***************************************************************************)
LEMMA SeqIsSeq ==
    ASSUME NEW S, NEW s \in Seq(S)
    PROVE  IsSeq(s)
  BY SeqOfRange DEF IsSeq

LEMMA OneSeq ==
    ASSUME NEW e
    PROVE  IsSeq(<<e>>) /\ Len(<<e>>) = 1 /\ <<e>>[1] = e
  <1>1. <<e>> \in Seq({e}) /\ Len(<<e>>) = 1 /\ <<e>>[1] = e
    OBVIOUS
  <1>q. QED
    BY <1>1, SeqIsSeq

LEMMA ConcatSeq ==
    ASSUME NEW s, NEW e, IsSeq(s), IsSeq(e)
    PROVE  /\ IsSeq(s \o e) /\ Len(s \o e) = Len(s) + Len(e)
           /\ Len(s) \in Nat /\ Len(e) \in Nat
           /\ \A i \in 1 .. Len(s) : (s \o e)[i] = s[i]
           /\ \A i \in 1 .. Len(e) : (s \o e)[Len(s) + i] = e[i]
  <1> DEFINE U == Range(s) \cup Range(e)
  <1>1. s \in Seq(U) /\ e \in Seq(U)
    BY SeqMonotonic DEF IsSeq
  <1> HIDE DEF U
  <1>2. Len(s) \in Nat /\ Len(e) \in Nat
    BY <1>1
  <1>3. /\ s \o e \in Seq(U) /\ Len(s \o e) = Len(s) + Len(e)
        /\ \A i \in 1 .. Len(s) + Len(e) : (s \o e)[i] = IF i <= Len(s) THEN s[i] ELSE e[i - Len(s)]
    BY <1>1, ConcatProperties
  <1>4. \A i \in 1 .. Len(s) : (s \o e)[i] = s[i]
    BY <1>2, <1>3
  <1>5. ASSUME NEW i \in 1 .. Len(e)
        PROVE  (s \o e)[Len(s) + i] = e[i]
    <2>1. Len(s) + i \in 1 .. Len(s) + Len(e) /\ ~(Len(s) + i <= Len(s)) /\ Len(s) + i - Len(s) = i
      BY <1>2
    <2>q. QED
      BY <2>1, <1>3
  <1>q. QED
    BY <1>2, <1>3, <1>4, <1>5, SeqIsSeq

\* Events of the same moment behind those of earlier ones.
LEMMA TimedConcat ==
    ASSUME NEW c \in Nat, NEW d \in Nat, c <= d,
           NEW s, NEW e, Timed(s, c), IsSeq(e), \A i \in 1 .. Len(e) : e[i].at = d
    PROVE  /\ Timed(s \o e, d)
           /\ (\A i \in 1 .. Len(e) : e[i].type # "C") /\ CallsFirst(s) => CallsFirst(s \o e)
           /\ (\A i \in 1 .. Len(e) : e[i].type # "CALL") /\ CallsPast(s, d) => CallsPast(s \o e, d)
  <1> DEFINE a == s \o e
             m == Len(s)
             n == Len(e)
  <1>1. /\ IsSeq(a) /\ Len(a) = m + n /\ m \in Nat /\ n \in Nat
        /\ \A i \in 1 .. m : a[i] = s[i]
        /\ \A i \in 1 .. n : a[m + i] = e[i]
    BY ConcatSeq DEF Timed
  <1>2. /\ \A i \in 1 .. m : s[i].at \in Nat /\ s[i].at <= c
        /\ \A i \in 1 .. m - 1 : s[i].at <= s[i + 1].at
    BY DEF Timed
  <1> HIDE DEF a, m, n
  <1>3. ASSUME NEW i \in 1 .. m + n
        PROVE  \/ i \in 1 .. m /\ a[i] = s[i]
               \/ i - m \in 1 .. n /\ a[i] = e[i - m]
    <2>1. CASE i <= m
      BY <1>1, <2>1
    <2>2. CASE i > m
      <3>1. i - m \in 1 .. n /\ m + (i - m) = i
        BY <1>1, <2>2
      <3>q. QED
        BY <1>1, <3>1
    <2>q. QED
      BY <1>1, <2>1, <2>2
  <1>4. \A i \in 1 .. n : e[i].at = d
    BY DEF n
  <1>5. \A i \in 1 .. m + n : a[i].at \in Nat /\ a[i].at <= d
    BY <1>2, <1>3, <1>4
  <1>6. ASSUME NEW i \in 1 .. m + n - 1
        PROVE  \/ i \in 1 .. m - 1 /\ a[i] = s[i] /\ a[i + 1] = s[i + 1]
               \/ i + 1 - m \in 1 .. n /\ a[i + 1] = e[i + 1 - m]
    <2>1. i \in 1 .. m + n /\ i + 1 \in 1 .. m + n
      BY <1>1
    <2>q. QED
      BY <2>1, <1>1, <1>3
  <1>7. \A i \in 1 .. m + n - 1 : a[i].at <= a[i + 1].at
    <2> SUFFICES ASSUME NEW i \in 1 .. m + n - 1
                 PROVE  a[i].at <= a[i + 1].at
      OBVIOUS
    <2>1. a[i].at <= d
      BY <1>1, <1>5
    <2>q. QED
      BY <1>2, <1>4, <1>6, <2>1
  <1>8. Timed(a, d)
    BY <1>1, <1>5, <1>7 DEF Timed
  <1>9. ASSUME \A i \in 1 .. n : e[i].type # "C", CallsFirst(s)
        PROVE  CallsFirst(a)
    <2>1. \A i \in 1 .. m - 1 :
             s[i].type = "CALL" /\ s[i + 1].type = "C" => s[i].at < s[i + 1].at
      BY <1>9 DEF CallsFirst, m
    <2>2. ASSUME NEW i \in 1 .. m + n - 1, a[i].type = "CALL", a[i + 1].type = "C"
          PROVE  a[i].at < a[i + 1].at
      BY <1>6, <1>9, <2>1, <2>2
    <2>q. QED
      BY <1>1, <2>2 DEF CallsFirst
  <1>10. ASSUME \A i \in 1 .. n : e[i].type # "CALL", CallsPast(s, d)
         PROVE  CallsPast(a, d)
    BY <1>1, <1>3, <1>10 DEF CallsPast, m
  <1>q. QED
    BY <1>8, <1>9, <1>10 DEF a, n

\* C code in the statement of the last line, whose own event is not sent.
LEMMA TimedAppendC ==
    ASSUME NEW c \in Nat, NEW s, NEW e, Timed(s, c), e.at = c, e.type = "C"
    PROVE  /\ Timed(s \o <<e>>, c)
           /\ CallsPast(s, c) /\ CallsFirst(s) => CallsFirst(s \o <<e>>)
           /\ CallsPast(s, c) => CallsPast(s \o <<e>>, c)
  <1> DEFINE a == s \o <<e>>
             m == Len(s)
  <1>1. IsSeq(<<e>>) /\ Len(<<e>>) = 1 /\ <<e>>[1] = e
    BY OneSeq
  <1>2. Timed(a, c) /\ (CallsPast(s, c) => CallsPast(a, c))
    BY <1>1, TimedConcat
  <1>3. /\ Len(a) = m + 1 /\ m \in Nat /\ a[m + 1] = e
        /\ \A i \in 1 .. m : a[i] = s[i]
    BY <1>1, ConcatSeq DEF Timed
  <1> HIDE DEF a, m
  <1>4. ASSUME CallsPast(s, c), CallsFirst(s), NEW i \in 1 .. m
        PROVE  a[i].type = "CALL" /\ a[i + 1].type = "C" => a[i].at < a[i + 1].at
    <2>1. CASE i = m
      BY <1>3, <1>4, <2>1 DEF CallsPast, m
    <2>2. CASE i \in 1 .. m - 1
      BY <1>3, <1>4, <2>2 DEF CallsFirst, m
    <2>q. QED
      BY <1>3, <2>1, <2>2
  <1>5. Len(a) - 1 = m
    BY <1>3
  <1>6. CallsPast(s, c) /\ CallsFirst(s) => CallsFirst(a)
    BY <1>4, <1>5 DEF CallsFirst
  <1>q. QED
    BY <1>2, <1>6 DEF a
-----------------------------------------------------------------------------
(***************************************************************************)
(* Sending                                                                 *)
(***************************************************************************)
\* Events the inspector makes now.
Now(e) == IsSeq(e) /\ \A i \in 1 .. Len(e) : e[i].at = clock' /\ e[i].type # "C"
NoCalls(e) == \A i \in 1 .. Len(e) : e[i].type # "CALL"

LEMMA NowNone == Now(<<>>) /\ NoCalls(<<>>)
  BY EmptySeq DEF Now, NoCalls, IsSeq

LEMMA NowOne ==
    ASSUME NEW e, e.at = clock', e.type # "C"
    PROVE  Now(<<e>>) /\ (e.type # "CALL" => NoCalls(<<e>>))
  BY OneSeq DEF Now, NoCalls

LEMMA NowBoth ==
    ASSUME NEW d, NEW e, Now(d), Now(e)
    PROVE  Now(d \o e) /\ (NoCalls(d) /\ NoCalls(e) => NoCalls(d \o e))
  <1> DEFINE a == d \o e
             m == Len(d)
             n == Len(e)
  <1>1. /\ IsSeq(a) /\ Len(a) = m + n /\ m \in Nat /\ n \in Nat
        /\ \A i \in 1 .. m : a[i] = d[i]
        /\ \A i \in 1 .. n : a[m + i] = e[i]
    BY ConcatSeq DEF Now
  <1>2. /\ \A i \in 1 .. m : d[i].at = clock' /\ d[i].type # "C"
        /\ \A i \in 1 .. n : e[i].at = clock' /\ e[i].type # "C"
    BY DEF Now
  <1> HIDE DEF a, m, n
  <1>3. ASSUME NEW i \in 1 .. m + n
        PROVE  \/ i \in 1 .. m /\ a[i] = d[i]
               \/ i - m \in 1 .. n /\ a[i] = e[i - m]
    <2>1. CASE i <= m
      BY <1>1, <2>1
    <2>2. CASE i > m
      <3>1. i - m \in 1 .. n /\ m + (i - m) = i
        BY <1>1, <2>2
      <3>q. QED
        BY <1>1, <3>1
    <2>q. QED
      BY <1>1, <2>1, <2>2
  <1>4. Now(a)
    BY <1>1, <1>2, <1>3 DEF Now
  <1>5. NoCalls(d) /\ NoCalls(e) => NoCalls(a)
    BY <1>1, <1>3 DEF NoCalls, m, n
  <1>q. QED
    BY <1>4, <1>5 DEF a

\* Sending keeps the order; what a line sends leaves only calls of earlier lines.
LEMMA SendKeeps ==
    ASSUME TraceInv, NEW e, NEW held, Send(e, held), Now(e),
           held # None => held.at = clock' /\ held.type = "CALL",
           clock' \in Nat, clock <= clock', One' => One
    PROVE  /\ TraceInv'
           /\ clock < clock' /\ NoCalls(e) => CallsPast(trace, clock)' 
  <1> DEFINE s == trace \o Held
  <1>1. IsSeq(Held) /\ \A i \in 1 .. Len(Held) : Held[i].at = clock /\ Held[i].type # "C"
    <2>1. CASE CacheMsg = None
      BY <2>1, EmptySeq DEF Held, IsSeq
    <2>2. CASE CacheMsg # None
      <3>1. Held = <<CacheMsg>> /\ CacheMsg.at = clock /\ CacheMsg.type # "C"
        BY <2>2 DEF Held, TraceInv
      <3>q. QED
        BY <3>1, OneSeq
    <2>q. QED
      BY <2>1, <2>2
  <1>2. clock \in Nat /\ Timed(trace, clock) /\ (One => CallsFirst(trace))
    BY DEF TraceInv
  <1>3. Timed(s, clock) /\ (One => CallsFirst(s))
    BY <1>1, <1>2, TimedConcat
  <1> HIDE DEF s
  <1>4. trace' = s \o e /\ CacheMsg' = held
    BY DEF Send, s
  <1>5. /\ Timed(s \o e, clock') /\ (One => CallsFirst(s \o e))
        /\ NoCalls(e) /\ CallsPast(s, clock') => CallsPast(s \o e, clock')
    BY <1>2, <1>3, TimedConcat DEF Now, NoCalls
  <1>6. clock < clock' => CallsPast(s, clock')
    BY <1>2, <1>3 DEF Timed, CallsPast
  <1>q. QED
    BY <1>4, <1>5, <1>6 DEF TraceInv, One, CallsPast
-----------------------------------------------------------------------------
(***************************************************************************)
(* Frames                                                                  *)
(***************************************************************************)
LEMMA FrontLast ==
    ASSUME NEW s, IsSeq(s), s # <<>>
    PROVE  /\ Len(s) \in Nat \ {0} /\ IsSeq(Front(s)) /\ Len(Front(s)) = Len(s) - 1
           /\ \A i \in 1 .. Len(s) - 1 : Front(s)[i] = s[i]
           /\ Last(s) = s[Len(s)]
  <1> DEFINE n == Len(s)
  <1>1. n \in Nat \ {0}
    BY EmptySeq, LenProperties DEF IsSeq
  <1>2. 1 \in 1 .. n + 1 /\ n - 1 \in 1 - 1 .. n /\ n - 1 - 1 + 1 = n - 1
    BY <1>1
  <1> HIDE DEF n
  <1>3. /\ SubSeq(s, 1, n - 1) \in Seq(Range(s)) /\ Len(SubSeq(s, 1, n - 1)) = n - 1
        /\ \A i \in 1 .. n - 1 : SubSeq(s, 1, n - 1)[i] = s[i]
    BY <1>1, <1>2, SubSeqProperties DEF IsSeq, n
  <1>q. QED
    BY <1>1, <1>3, SeqIsSeq DEF Front, Last, n

LEMMA AppendSeq ==
    ASSUME NEW b, NEW fr, IsSeq(b)
    PROVE  LET s == Append(b, fr)
           IN  /\ IsSeq(s) /\ s # <<>> /\ Len(b) \in Nat /\ Len(s) = Len(b) + 1
               /\ s[Len(b) + 1] = fr /\ \A i \in 1 .. Len(b) : s[i] = b[i]
               /\ Last(s) = fr /\ Len(Front(s)) = Len(b) /\ IsSeq(Front(s))
               /\ \A i \in 1 .. Len(b) : Front(s)[i] = b[i]
  <1> DEFINE s == Append(b, fr)
             S == Range(b) \cup {fr}
  <1>1. b \in Seq(S)
    BY SeqMonotonic DEF IsSeq
  <1>2. /\ s \in Seq(S) /\ s # <<>> /\ Len(b) \in Nat /\ Len(s) = Len(b) + 1
        /\ s[Len(b) + 1] = fr /\ \A i \in 1 .. Len(b) : s[i] = b[i]
    <2>1. Len(b) \in Nat
      BY <1>1
    <2>2. s \in Seq(S) /\ Len(s) = Len(b) + 1 /\ \A i \in 1 .. Len(s) : s[i] = IF i = Len(s) THEN fr ELSE b[i]
      BY <1>1, AppendProperties
    <2>3. s # <<>>
      BY <2>1, <2>2, EmptySeq
    <2> HIDE DEF s, S
    <2>q. QED
      BY <2>1, <2>2, <2>3
  <1>3. IsSeq(s)
    BY <1>2, SeqIsSeq
  <1> HIDE DEF s, S
  <1>4. /\ IsSeq(Front(s)) /\ Len(Front(s)) = Len(s) - 1
        /\ \A i \in 1 .. Len(s) - 1 : Front(s)[i] = s[i]
        /\ Last(s) = s[Len(s)]
    BY <1>2, <1>3, FrontLast
  <1>5. Len(s) - 1 = Len(b)
    BY <1>2
  <1>q. QED
    BY <1>2, <1>3, <1>4, <1>5 DEF s

LEMMA StackPush ==
    ASSUME NEW b, NEW fr, NEW one, Below(b, one), Told(fr, one)
    PROVE  /\ Stack(Append(b, fr), one) /\ Last(Append(b, fr)) = fr
           /\ fr.stage = "done" => Below(Append(b, fr), one)
  <1> DEFINE s == Append(b, fr)
  <1>1. /\ IsSeq(s) /\ s # <<>> /\ Len(b) \in Nat /\ Len(s) = Len(b) + 1
        /\ s[Len(b) + 1] = fr /\ \A i \in 1 .. Len(b) : s[i] = b[i]
        /\ Last(s) = fr /\ Len(Front(s)) = Len(b) /\ IsSeq(Front(s))
        /\ \A i \in 1 .. Len(b) : Front(s)[i] = b[i]
    BY AppendSeq DEF Below
  <1> HIDE DEF s
  <1>2. Below(Front(s), one)
    BY <1>1 DEF Below
  <1>3. fr.stage = "done" => Below(s, one)
    <2>1. \A i \in 1 .. Len(b) + 1 : i \in 1 .. Len(b) \/ i = Len(b) + 1
      BY <1>1
    <2>q. QED
      BY <1>1, <2>1 DEF Below
  <1>q. QED
    BY <1>1, <1>2, <1>3 DEF Stack, s

LEMMA StackPop ==
    ASSUME NEW b, NEW one, Below(b, one), b # <<>>
    PROVE  /\ Below(Front(b), one) /\ Told(b[Len(b)], one) /\ b[Len(b)].stage = "done"
  <1>1. /\ Len(b) \in Nat \ {0} /\ IsSeq(Front(b)) /\ Len(Front(b)) = Len(b) - 1
        /\ \A i \in 1 .. Len(b) - 1 : Front(b)[i] = b[i]
    BY FrontLast DEF Below
  <1>2. \A i \in 1 .. Len(b) - 1 : i \in 1 .. Len(b)
    BY <1>1
  <1>q. QED
    BY <1>1, <1>2 DEF Below

LEMMA StackLater ==
    ASSUME NEW s, NEW one, NEW two, Stack(s, one), two => one
    PROVE  Stack(s, two)
  BY DEF Stack, Below, Told

\* A thread's frames change.
LEMMA Moves ==
    ASSUME FrameInv, NEW t \in Thread, Running(t), NEW s, Stack(s, One'),
           frames' = [frames EXCEPT ![t] = s], One' => One
    PROVE  FrameInv' /\ (s = <<>> \/ Last(s).stage # "run" => QuietInv')
  <1>1. frames' = [u \in Thread |-> IF u = t THEN s ELSE frames[u]]
    BY DEF FrameInv
  <1>2. \A u \in Thread : Stack(frames[u], One')
    BY StackLater DEF FrameInv
  <1>3. One' => t = Main
    BY DEF FrameInv, Running
  <1>4. \A u \in Thread : Stack(frames'[u], One')
    BY <1>1, <1>2
  <1>5. frames' = [u \in Thread |-> frames'[u]]
    BY <1>1
  <1>6. One' => \A u \in Thread \ {Main} : frames'[u] = <<>>
    BY <1>1, <1>3 DEF FrameInv
  <1>7. FrameInv'
    BY <1>4, <1>5, <1>6 DEF FrameInv, One
  <1>8. s = <<>> \/ Last(s).stage # "run" => QuietInv'
    BY <1>1, <1>3 DEF QuietInv, One, AtStage, Running, Fr
  <1>q. QED
    BY <1>7, <1>8

LEMMA RunningFacts ==
    ASSUME FrameInv, NEW t \in Thread, Running(t), One' => One
    PROVE  /\ frames[t] # <<>> /\ IsSeq(frames[t])
           /\ Below(Front(frames[t]), One') /\ Told(Fr(t), One')
  <1>1. Stack(frames[t], One')
    BY StackLater DEF FrameInv
  <1>q. QED
    BY <1>1 DEF Stack, Running, Fr

LEMMA WithTopMoves ==
    ASSUME FrameInv, NEW t \in Thread, Running(t), One' => One, NEW fr, Told(fr, One'),
           frames' = WithTop(t, fr)
    PROVE  FrameInv' /\ (fr.stage # "run" => QuietInv')
  <1> DEFINE s == Append(Front(frames[t]), fr)
  <1>1. Stack(s, One') /\ Last(s) = fr
    BY RunningFacts, StackPush
  <1>2. frames' = [frames EXCEPT ![t] = s]
    BY DEF WithTop
  <1> HIDE DEF s
  <1>q. QED
    BY <1>1, <1>2, Moves

LEMMA LeaveMoves ==
    ASSUME FrameInv, NEW t \in Thread, Running(t), One' => One,
           NEW stage \in {"done", "failed"}, NEW got, Leave(t, stage, got)
    PROVE  FrameInv' /\ QuietInv'
  <1> DEFINE b == Front(frames[t])
             old == b[Len(frames[t]) - 1]
             fr == [old EXCEPT !.stage = stage, !.got = got]
             s == IF Len(frames[t]) = 1 THEN <<>> ELSE Append(Front(b), fr)
  <1>1. frames' = [frames EXCEPT ![t] = s]
    BY DEF Leave
  <1>2. Below(b, One') /\ IsSeq(frames[t]) /\ frames[t] # <<>>
    BY RunningFacts
  <1>3. Len(frames[t]) \in Nat \ {0} /\ IsSeq(b) /\ Len(b) = Len(frames[t]) - 1
    BY <1>2, FrontLast
  <1>4. CASE Len(frames[t]) = 1
    <2>1. s = <<>> /\ Stack(<<>>, One')
      BY <1>4, EmptySeq DEF Stack, IsSeq
    <2> HIDE DEF s
    <2>q. QED
      BY <1>1, <2>1, Moves
  <1>5. CASE Len(frames[t]) # 1
    <2>1. b # <<>>
      <3>1. Len(b) # 0
        BY <1>3, <1>5
      <3> HIDE DEF b
      <3>q. QED
        BY <3>1
    <2>2. Below(Front(b), One') /\ Told(old, One') /\ old.stage = "done"
      BY <1>2, <1>3, <2>1, StackPop
    <2>3. s = Append(Front(b), fr)
      BY <1>5
    <2> HIDE DEF s, b, old
    <2>4. Told(fr, One') /\ fr.stage = stage
      BY <2>2 DEF Told, IsFrame, Stmt
    <2> HIDE DEF fr
    <2>5. Stack(s, One') /\ Last(s) = fr
      BY <2>2, <2>3, <2>4, StackPush
    <2>q. QED
      BY <1>1, <2>4, <2>5, Moves
  <1>q. QED
    BY <1>4, <1>5

LEMMA NewFrame ==
    ASSUME NEW f, NEW dirty, NEW one
    PROVE  /\ Told(Frame(f, dirty), one) /\ Frame(f, dirty).stage = "line"
           /\ Told([Frame(f, dirty) EXCEPT !.stage = "enter"], one)
  BY DEF Told, IsFrame, Frame

LEMMA EnterMoves ==
    ASSUME FrameInv, NEW t \in Thread, NEW f, Enter(t, f)
    PROVE  FrameInv' /\ QuietInv' /\ (One' => One)
  <1> DEFINE old == [Fr(t) EXCEPT !.stage = "done"]
             fr == Frame(f, Args(t, f))
             b == Append(Front(frames[t]), old)
             s == Append(b, fr)
  <1>1. Running(t) /\ Fr(t).stage = "run" /\ (One' => One)
    BY DEF Enter, AtStage, One
  <1>2. frames' = [frames EXCEPT ![t] = s]
    BY DEF Enter, Fr
  <1>3. Below(Front(frames[t]), One') /\ Told(Fr(t), One')
    BY <1>1, RunningFacts
  <1>4. Told(old, One') /\ old.stage = "done"
    BY <1>1, <1>3 DEF Told, IsFrame, Stmt
  <1>5. Told(fr, One') /\ fr.stage = "line"
    BY NewFrame
  <1> HIDE DEF old, fr
  <1>6. Below(b, One')
    BY <1>3, <1>4, StackPush
  <1> HIDE DEF b
  <1>7. Stack(s, One') /\ Last(s) = fr
    BY <1>5, <1>6, StackPush
  <1> HIDE DEF s
  <1>q. QED
    BY <1>1, <1>2, <1>5, <1>7, Moves
-----------------------------------------------------------------------------
(***************************************************************************)
(* What the trace function sends                                           *)
(***************************************************************************)
Sends(e, held) ==
    Send(e, held) /\ Now(e) /\ (held # None => held.at = clock' /\ held.type = "CALL")

LEMMA LineSends ==
    ASSUME NEW fr, NEW lo,
           \/ LineIgnored(lo) \/ LineKnownCall(lo) \/ LineForeignCall(lo)
           \/ LineReturn(lo) \/ LineOther(fr, lo)
    PROVE  \E e, held : Sends(e, held) /\ NoCalls(e)
  <1>1. CASE LineIgnored(lo) \/ LineKnownCall(lo)
    BY <1>1, NowNone DEF LineIgnored, LineKnownCall, Sends
  <1>2. CASE LineForeignCall(lo)
    <2>1. PICK held : Send(<<>>, held) /\ (held = None \/ \E stk, source : held = Event("CALL", stk, lo, source))
      BY <1>2 DEF LineForeignCall
    <2>2. held # None => held.at = clock' /\ held.type = "CALL"
      BY <2>1 DEF Event
    <2>q. QED
      BY <2>1, <2>2, NowNone DEF Sends
  <1>3. CASE LineReturn(lo)
    <2> DEFINE ev == Event("RET", CtxStack, lo, FALSE)
    <2>1. Send(<<>>, None) \/ Send(<<ev>>, None)
      BY <1>3 DEF LineReturn
    <2>2. ev.at = clock' /\ ev.type = "RET"
      BY DEF Event
    <2> HIDE DEF ev
    <2>3. Now(<<ev>>) /\ NoCalls(<<ev>>)
      BY <2>2, NowOne
    <2>q. QED
      BY <2>1, <2>3, NowNone DEF Sends
  <1>4. CASE LineOther(fr, lo)
    <2>1. PICK d, e : /\ Send(d \o e, None)
                      /\ d = <<>> \/ \E stk : d = <<Entry(stk, fr.fn)>>
                      /\ e = <<>> \/ \E type \in {"BR", "NR"} : \E stk, source : e = <<Event(type, stk, lo, source)>>
      BY <1>4 DEF LineOther
    <2>2. Now(d) /\ NoCalls(d)
      <3>1. ASSUME NEW stk
            PROVE  Now(<<Entry(stk, fr.fn)>>) /\ NoCalls(<<Entry(stk, fr.fn)>>)
        <4>1. Entry(stk, fr.fn).at = clock' /\ Entry(stk, fr.fn).type = "FENTRY"
          BY DEF Entry
        <4>q. QED
          BY <4>1, NowOne
      <3>q. QED
        BY <2>1, <3>1, NowNone
    <2>3. Now(e) /\ NoCalls(e)
      <3>1. ASSUME NEW type \in {"BR", "NR"}, NEW stk, NEW source
            PROVE  LET ev == <<Event(type, stk, lo, source)>> IN Now(ev) /\ NoCalls(ev)
        <4>1. Event(type, stk, lo, source).at = clock' /\ Event(type, stk, lo, source).type = type
          BY DEF Event
        <4>q. QED
          BY <4>1, NowOne
      <3>q. QED
        BY <2>1, <3>1, NowNone
    <2>4. Now(d \o e) /\ NoCalls(d \o e)
      BY <2>2, <2>3, NowBoth
    <2>q. QED
      BY <2>1, <2>4 DEF Sends
  <1>q. QED
    BY <1>1, <1>2, <1>3, <1>4

LEMMA CalledSends ==
    ASSUME NEW f, Called(f)
    PROVE  \E e : Sends(e, None)
  <1>1. \E e : Send(e, None) /\ Now(e)
    <2>1. CASE f \in Hidden
      BY <2>1, NowNone DEF Called
    <2>2. CASE f \notin Hidden /\ f \in Unnamed
      <3> DEFINE ev == [Entry(CtxStack, CurCtx.FuncDef) EXCEPT
                          !.type = "NR", !.callee = None, !.source = TRUE]
      <3>1. Send(<<>>, None) \/ Send(<<ev>>, None)
        BY <2>2 DEF Called
      <3>2. ev.at = clock' /\ ev.type = "NR"
        BY DEF Entry
      <3> HIDE DEF ev
      <3>3. Now(<<ev>>)
        BY <3>2, NowOne
      <3>q. QED
        BY <3>1, <3>3, NowNone
    <2>3. CASE f \notin Hidden \cup Unnamed /\ CurCtx.CalleeLo # None
      <3>1. Send(<<>>, None) \/ \E stk : Send(<<[Entry(stk, f) EXCEPT !.fn = Last(stk).FuncDef]>>, None)
        BY <2>3 DEF Called
      <3>2. ASSUME NEW stk
            PROVE  Now(<<[Entry(stk, f) EXCEPT !.fn = Last(stk).FuncDef]>>)
        <4> DEFINE ev == [Entry(stk, f) EXCEPT !.fn = Last(stk).FuncDef]
        <4>1. ev.at = clock' /\ ev.type = "FENTRY"
          BY DEF Entry
        <4> HIDE DEF ev
        <4>2. Now(<<ev>>)
          BY <4>1, NowOne
        <4>q. QED
          BY <4>2 DEF ev
      <3>q. QED
        BY <3>1, <3>2, NowNone
    <2>4. CASE f \notin Hidden \cup Unnamed /\ CurCtx.CalleeLo = None
      <3> DEFINE stk == [CtxStack EXCEPT ![Len(CtxStack)].FuncDef = f]
                 ev == Entry(stk, f)
                 nr == Event("NR", stk, ParamObject(f), IsSourceFunc(stk))
      <3>1. \/ Send(<<>>, None)
            \/ Send(<<ev>> \o <<>>, None)
            \/ Send(<<ev>> \o <<nr>>, None)
        BY <2>4 DEF Called
      <3>2. ev.at = clock' /\ ev.type = "FENTRY" /\ nr.at = clock' /\ nr.type = "NR"
        BY DEF Entry, Event
      <3> HIDE DEF ev, nr
      <3>3. Now(<<ev>>) /\ Now(<<nr>>)
        BY <3>2, NowOne
      <3>4. Now(<<ev>> \o <<>>) /\ Now(<<ev>> \o <<nr>>)
        BY <3>3, NowNone, NowBoth
      <3>q. QED
        BY <3>1, <3>4, NowNone
    <2>q. QED
      BY <2>1, <2>2, <2>3, <2>4
  <1>q. QED
    BY <1>1 DEF Sends

LEMMA ReturnedSends ==
    ASSUME Returned
    PROVE  \E e : Sends(e, None)
  <1>1. Send(<<>>, None) \/ \E stk : Send(CallSite(stk), None)
    BY DEF Returned
  <1>2. ASSUME NEW stk
        PROVE  Now(CallSite(stk))
    <2>1. CASE Last(stk).CalleeLo = None
      BY <2>1, NowNone DEF CallSite
    <2>2. CASE Last(stk).CalleeLo # None
      <3>1. PICK lo, source, uses : CallSite(stk) = <<[Event("CALL", stk, lo, source) EXCEPT !.uses = uses]>>
        BY <2>2 DEF CallSite
      <3> DEFINE ev == [Event("CALL", stk, lo, source) EXCEPT !.uses = uses]
      <3>2. ev.at = clock' /\ ev.type = "CALL"
        BY DEF Event
      <3>3. CallSite(stk) = <<ev>>
        BY <3>1
      <3> HIDE DEF ev
      <3>q. QED
        BY <3>2, <3>3, NowOne
    <2>q. QED
      BY <2>1, <2>2
  <1>q. QED
    BY <1>1, <1>2, NowNone DEF Sends
-----------------------------------------------------------------------------
(***************************************************************************)
(* Steps                                                                   *)
(***************************************************************************)
LEMMA LineEventKeeps ==
    ASSUME OrderInv, NEW t \in Thread, LineEvent(t)
    PROVE  OrderInv'
  <1> DEFINE fr == Fr(t)
             st == Stmt(fr)
             to == [fr EXCEPT !.stage = "run", !.begun = TRUE]
  <1>1. /\ TraceInv /\ FrameInv /\ Running(t) /\ clock \in Nat /\ clock' = clock + 1
        /\ mishap' = mishap \cup Mishaps(fr, st) /\ frames' = WithTop(t, to)
    BY DEF LineEvent, OnLine, OrderInv, AtStage, TraceInv
  <1>2. One' => One
    BY <1>1 DEF One
  <1>3. Told(to, One')
    <2>1. st.spawns # None => "threads" \in Mishaps(fr, st)
      BY DEF Mishaps
    <2>2. One' => st.spawns = None
      BY <1>1, <2>1 DEF One
    <2>3. Told(fr, One')
      BY <1>1, <1>2, RunningFacts
    <2>q. QED
      BY <2>2, <2>3 DEF Told, IsFrame, Stmt
  <1>4. FrameInv'
    <2> HIDE DEF to
    <2>q. QED
      BY <1>1, <1>2, <1>3, WithTopMoves
  <1>5. PICK e, held : Sends(e, held) /\ NoCalls(e)
    BY LineSends DEF LineEvent
  <1>6. clock' \in Nat /\ clock <= clock' /\ clock < clock'
    BY <1>1
  <1>7. TraceInv' /\ CallsPast(trace, clock)'
    BY <1>1, <1>2, <1>5, <1>6, SendKeeps DEF Sends
  <1>q. QED
    BY <1>4, <1>7 DEF OrderInv, QuietInv

LEMMA OtherSends ==
    ASSUME OrderInv, NEW e, Sends(e, None), UNCHANGED clock, One' => One, FrameInv', QuietInv'
    PROVE  OrderInv'
  <1>1. TraceInv /\ clock' \in Nat /\ clock <= clock'
    BY DEF OrderInv, TraceInv
  <1>2. TraceInv'
    BY <1>1, SendKeeps DEF Sends
  <1>q. QED
    BY <1>2 DEF OrderInv

LEMMA CallEventKeeps ==
    ASSUME OrderInv, NEW t \in Thread, CallEvent(t)
    PROVE  OrderInv'
  <1>1. PICK f : Enter(t, f) /\ Called(f)
    BY DEF CallEvent
  <1>2. PICK e : Sends(e, None)
    BY <1>1, CalledSends
  <1>3. FrameInv' /\ QuietInv' /\ (One' => One) /\ UNCHANGED clock
    BY <1>1, EnterMoves DEF OrderInv, Enter
  <1>q. QED
    BY <1>2, <1>3, OtherSends

LEMMA StartEventKeeps ==
    ASSUME OrderInv, NEW t \in Thread, StartEvent(t)
    PROVE  OrderInv'
  <1> DEFINE to == [Fr(t) EXCEPT !.stage = "line"]
  <1>1. /\ FrameInv /\ Running(t) /\ (One' => One) /\ UNCHANGED clock
        /\ frames' = WithTop(t, to) /\ Called(Fr(t).fn)
    BY DEF StartEvent, AtStage, One, OrderInv
  <1>2. Told(to, One') /\ to.stage = "line"
    BY <1>1, RunningFacts DEF Told, IsFrame
  <1>3. PICK e : Sends(e, None)
    BY <1>1, CalledSends
  <1> HIDE DEF to
  <1>4. FrameInv' /\ QuietInv'
    BY <1>1, <1>2, WithTopMoves
  <1>q. QED
    BY <1>1, <1>3, <1>4, OtherSends

LEMMA LeavingKeeps ==
    ASSUME OrderInv, NEW t \in Thread, ReturnEvent(t) \/ RaiseEvent(t)
    PROVE  OrderInv'
  <1>1. /\ FrameInv /\ Running(t) /\ (One' => One) /\ UNCHANGED clock /\ Returned
        /\ \E stage \in {"done", "failed"} : \E got : Leave(t, stage, got)
    BY DEF ReturnEvent, RaiseEvent, AtStage, One, OrderInv
  <1>2. PICK e : Sends(e, None)
    BY <1>1, ReturnedSends
  <1>3. FrameInv' /\ QuietInv'
    BY <1>1, LeaveMoves
  <1>q. QED
    BY <1>1, <1>2, <1>3, OtherSends

\* A step that sends nothing.
LEMMA Silent ==
    ASSUME OrderInv, UNCHANGED <<mishap, clock, trace, CacheMsg>>, FrameInv', QuietInv'
    PROVE  OrderInv'
  BY DEF OrderInv, TraceInv, One

LEMMA GotoTold ==
    ASSUME NEW fr, NEW pc, NEW one, IsFrame(fr), one => Stmt(fr).spawns = None
    PROVE  Told(Goto(fr, pc), one) /\ Goto(fr, pc).stage # "run"
  <1>1. CASE pc \in DOMAIN Body[fr.fn]
    BY <1>1 DEF Goto, Told, IsFrame
  <1>2. CASE pc \notin DOMAIN Body[fr.fn]
    BY <1>2 DEF Goto, Told, IsFrame, Stmt
  <1>q. QED
    BY <1>1, <1>2

LEMMA CompleteKeeps ==
    ASSUME OrderInv, NEW t \in Thread, Complete(t)
    PROVE  OrderInv'
  <1> DEFINE fr == Fr(t)
             st == Stmt(fr)
             after == Effect(fr, st)
  <1>1. /\ FrameInv /\ Running(t) /\ fr.stage \in {"done", "run"}
        /\ UNCHANGED <<mishap, clock, trace, CacheMsg>>
    BY DEF Complete, OrderInv, inspector
  <1>2. One' = One /\ Told(fr, One')
    BY <1>1, RunningFacts DEF One
  <1>3. One' => st.spawns = None
    BY <1>1, <1>2 DEF Told
  <1>4. IsFrame(after) /\ after.fn = fr.fn /\ after.pc = fr.pc /\ Stmt(after) = st
    <2>1. PICK bound, dirty : after = [fr EXCEPT !.bound = bound, !.got = FALSE, !.dirty = dirty]
      BY DEF Effect
    <2> HIDE DEF after
    <2>q. QED
      BY <1>2, <2>1 DEF Told, IsFrame, Stmt
  <1>5. PICK next :
           /\ \/ \E got : next = [after EXCEPT !.stage = "leave", !.got = got]
              \/ \E pc : next = Goto(after, pc)
           /\ IF st.spawns = None THEN frames' = WithTop(t, next)
              ELSE \E u \in Thread \ {t} :
                     frames' = [WithTop(t, next) EXCEPT ![u] = <<[Frame(st.spawns, {}) EXCEPT !.stage = "enter"]>>]
    <2>1. PICK next \in (IF st.op = "return"
                         THEN {[after EXCEPT !.stage = "leave", !.got = ReadsDirty(fr, st)]}
                         ELSE {Goto(after, pc) : pc \in {fr.pc + 1} \cup (IF st.op = "if" THEN {st.to} ELSE {})}) :
              IF st.spawns = None THEN frames' = WithTop(t, next)
              ELSE \E u \in Thread \ {t} :
                     frames' = [WithTop(t, next) EXCEPT ![u] = <<[Frame(st.spawns, {}) EXCEPT !.stage = "enter"]>>]
      BY DEF Complete
    <2> HIDE DEF after, st
    <2>q. QED
      BY <2>1
  <1> HIDE DEF after
  <1>6. Told(next, One') /\ next.stage # "run"
    <2>1. ASSUME NEW got, next = [after EXCEPT !.stage = "leave", !.got = got]
          PROVE  Told(next, One') /\ next.stage # "run"
      BY <1>3, <1>4, <2>1 DEF Told, IsFrame, Stmt
    <2>2. ASSUME NEW pc, next = Goto(after, pc)
          PROVE  Told(next, One') /\ next.stage # "run"
      BY <1>3, <1>4, <2>2, GotoTold
    <2>q. QED
      BY <1>5, <2>1, <2>2
  <1>7. CASE frames' = WithTop(t, next)
    <2>1. FrameInv' /\ QuietInv'
      BY <1>1, <1>2, <1>6, <1>7, WithTopMoves
    <2>q. QED
      BY <1>1, <2>1, Silent
  <1>8. CASE st.spawns # None
    <2>1. PICK u \in Thread \ {t} :
             frames' = [WithTop(t, next) EXCEPT ![u] = <<[Frame(st.spawns, {}) EXCEPT !.stage = "enter"]>>]
      BY <1>5, <1>8
    <2>2. ~One'
      BY <1>3, <1>8
    <2> DEFINE new == <<[Frame(st.spawns, {}) EXCEPT !.stage = "enter"]>>
               s == Append(Front(frames[t]), next)
    <2>3. Stack(new, One')
      <3> DEFINE first == [Frame(st.spawns, {}) EXCEPT !.stage = "enter"]
                 none == <<>>
      <3>1. Told(first, One') /\ Below(none, One')
        BY NewFrame, EmptySeq DEF Below, IsSeq
      <3>2. Append(none, first) = new
        OBVIOUS
      <3> HIDE DEF first, new, none
      <3>q. QED
        BY <3>1, <3>2, StackPush
    <2>4. Stack(s, One')
      BY <1>1, <1>2, <1>6, RunningFacts, StackPush
    <2> HIDE DEF new, s
    <2>5. frames' = [v \in Thread |-> IF v = u THEN new ELSE IF v = t THEN s ELSE frames[v]]
      BY <1>1, <2>1 DEF WithTop, FrameInv, new, s
    <2>6. \A v \in Thread : Stack(frames[v], One')
      BY <1>1, <1>2 DEF FrameInv
    <2>7. FrameInv'
      BY <2>2, <2>3, <2>4, <2>5, <2>6 DEF FrameInv, One
    <2>8. QuietInv'
      BY <2>2 DEF QuietInv, One
    <2>q. QED
      BY <1>1, <2>7, <2>8, Silent
  <1>q. QED
    BY <1>5, <1>7, <1>8

LEMMA CatchKeeps ==
    ASSUME OrderInv, NEW t \in Thread, Catch(t)
    PROVE  OrderInv'
  <1> DEFINE to == Goto(Fr(t), Fr(t).pc + 1)
  <1>1. /\ FrameInv /\ Running(t) /\ Fr(t).stage = "failed" /\ frames' = WithTop(t, to)
        /\ UNCHANGED <<mishap, clock, trace, CacheMsg>>
    BY DEF Catch, AtStage, OrderInv, inspector
  <1>2. (One' => One) /\ Told(Fr(t), One')
    BY <1>1, RunningFacts DEF One
  <1>3. Told(to, One') /\ to.stage # "run"
    BY <1>1, <1>2, GotoTold DEF Told
  <1> HIDE DEF to
  <1>4. FrameInv' /\ QuietInv'
    BY <1>1, <1>2, <1>3, WithTopMoves
  <1>q. QED
    BY <1>1, <1>4, Silent

LEMMA CTracesKeeps ==
    ASSUME OrderInv, NEW t \in Thread, CTraces(t)
    PROVE  OrderInv'
  <1> DEFINE to == [Fr(t) EXCEPT !.stage = "done"]
  <1>1. /\ FrameInv /\ TraceInv /\ QuietInv /\ Running(t) /\ Fr(t).stage = "run"
        /\ frames' = WithTop(t, to) /\ UNCHANGED <<mishap, clock, CacheMsg>>
    BY DEF CTraces, AtStage, OrderInv
  <1>2. PICK ev : trace' = Append(trace, ev) /\ ev.at = clock /\ ev.type = "C"
    BY DEF CTraces
  <1>3. One' = One /\ Told(Fr(t), One')
    BY <1>1, RunningFacts DEF One
  <1>4. Told(to, One') /\ to.stage = "done"
    BY <1>1, <1>3 DEF Told, IsFrame, Stmt
  <1> HIDE DEF to
  <1>5. FrameInv' /\ QuietInv'
    BY <1>1, <1>3, <1>4, WithTopMoves
  <1>6. One => CallsPast(trace, clock)
    <2>1. One => t = Main
      BY <1>1 DEF FrameInv, Running
    <2>q. QED
      BY <1>1, <2>1 DEF QuietInv, AtStage
  <1>7. trace' = trace \o <<ev>>
    BY <1>1, <1>2, AppendIsConcat DEF TraceInv, Timed, IsSeq
  <1>8. Timed(trace', clock) /\ (One => CallsFirst(trace'))
    BY <1>1, <1>2, <1>6, <1>7, TimedAppendC DEF TraceInv
  <1>9. TraceInv'
    BY <1>1, <1>3, <1>8 DEF TraceInv, One
  <1>q. QED
    BY <1>5, <1>9 DEF OrderInv

LEMMA ExitKeeps ==
    ASSUME OrderInv, Exit
    PROVE  OrderInv'
  <1>1. Sends(<<>>, None) /\ UNCHANGED <<clock, mishap, frames>> /\ frames[Main] = <<>>
    BY NowNone DEF Exit, Sends, program
  <1>2. FrameInv'
    BY <1>1 DEF OrderInv, FrameInv, One
  <1>3. QuietInv'
    BY <1>1 DEF QuietInv, AtStage, Running
  <1>q. QED
    BY <1>1, <1>2, <1>3, OtherSends DEF One
-----------------------------------------------------------------------------
(***************************************************************************)
(* The theorem                                                             *)
(***************************************************************************)
LEMMA InitOrder ==
    ASSUME Init
    PROVE  OrderInv
  <1>1. TraceInv
    <2>1. PICK ev : trace = <<ev>> /\ ev.at = 0 /\ ev.type = "FENTRY"
      BY DEF Init
    <2>2. IsSeq(trace) /\ Len(trace) = 1 /\ trace[1] = ev
      BY <2>1, OneSeq
    <2>q. QED
      BY <2>1, <2>2 DEF Init, TraceInv, Timed, CallsFirst
  <1>2. Stack(<<Frame(Top, {})>>, One) /\ Last(<<Frame(Top, {})>>).stage = "line"
    <2> DEFINE first == Frame(Top, {})
               none == <<>>
    <2>1. Told(first, One) /\ first.stage = "line"
      BY NewFrame
    <2>2. Below(none, One)
      BY EmptySeq DEF Below, IsSeq
    <2>3. <<Frame(Top, {})>> = Append(none, first)
      OBVIOUS
    <2> HIDE DEF first, none
    <2>q. QED
      BY <2>1, <2>2, <2>3, StackPush
  <1>3. Stack(<<>>, One)
    BY EmptySeq DEF Stack, IsSeq
  <1>4. frames = [t \in Thread |-> IF t = Main THEN <<Frame(Top, {})>> ELSE <<>>]
    BY DEF Init
  <1>5. FrameInv
    BY <1>2, <1>3, <1>4 DEF FrameInv
  <1>6. QuietInv
    <2>1. frames[Main] = <<Frame(Top, {})>>
      BY <1>4, Assumption DEF Assumption
    <2>2. Fr(Main).stage = "line"
      BY <1>2, <2>1 DEF Fr
    <2>q. QED
      BY <2>2 DEF QuietInv, AtStage
  <1>q. QED
    BY <1>1, <1>5, <1>6 DEF OrderInv

LEMMA StepKeeps ==
    ASSUME OrderInv, [Next]_vars
    PROVE  OrderInv'
  <1>1. ASSUME NEW t \in Thread, Tracing(t)
        PROVE  OrderInv'
    BY <1>1, LineEventKeeps, CallEventKeeps, StartEventKeeps, LeavingKeeps DEF Tracing
  <1>2. ASSUME NEW t \in Thread, Complete(t) \/ Catch(t) \/ CTraces(t)
        PROVE  OrderInv'
    BY <1>2, CompleteKeeps, CatchKeeps, CTracesKeeps
  <1>3. CASE Exit
    BY <1>3, ExitKeeps
  <1>4. CASE UNCHANGED vars
    BY <1>4 DEF vars, program, inspector, OrderInv, TraceInv, FrameInv, QuietInv, One, AtStage,
                Running, Fr
  <1>q. QED
    BY <1>1, <1>2, <1>3, <1>4 DEF Next

\* For all programs: events go out in the order of what they report, and while there is
\* one thread those of C code go before the call that ran it.
THEOREM EventsOrdered == Spec => []Ordered
  <1>1. OrderInv => Ordered
    <2> SUFFICES ASSUME TraceInv
                 PROVE  Ordered
      BY DEF OrderInv
    <2> DEFINE all == trace \o Held
               m == Len(trace)
    <2>1. CASE CacheMsg = None
      <3>1. all = trace
        <4>1. trace \in Seq(Range(trace)) /\ Held = <<>>
          BY <2>1 DEF TraceInv, Timed, IsSeq, Held
        <4>q. QED
          BY <4>1
      <3>q. QED
        BY <3>1 DEF Ordered, TraceInv, Timed, CallsFirst, One
    <2>2. CASE CacheMsg # None
      <3>1. Held = <<CacheMsg>> /\ CacheMsg.at = clock /\ CacheMsg.type # "C"
        BY <2>2 DEF Held, TraceInv
      <3>2. /\ Len(all) = m + 1 /\ m \in Nat /\ all[m + 1] = CacheMsg
            /\ \A i \in 1 .. m : all[i] = trace[i]
        BY <3>1, OneSeq, ConcatSeq DEF TraceInv, Timed
      <3> HIDE DEF all, m
      <3>3. ASSUME NEW i \in 1 .. m
            PROVE  /\ all[i].at <= all[i + 1].at
                   /\ One /\ all[i].type = "CALL" /\ all[i + 1].type = "C" => all[i].at < all[i + 1].at
        <4>1. CASE i = m
          BY <3>1, <3>2, <4>1 DEF TraceInv, Timed, m
        <4>2. CASE i # m
          <5>1. i \in 1 .. m - 1 /\ i + 1 \in 1 .. m
            BY <3>2, <4>2
          <5>2. all[i] = trace[i] /\ all[i + 1] = trace[i + 1]
            BY <3>2, <5>1
          <5>q. QED
            BY <5>1, <5>2 DEF TraceInv, Timed, CallsFirst, m
        <4>q. QED
          BY <4>1, <4>2
      <3>4. Len(all) - 1 = m
        BY <3>2
      <3>q. QED
        BY <3>3, <3>4 DEF Ordered, One, all
    <2>q. QED
      BY <2>1, <2>2
  <1>2. OrderInv /\ [Next]_vars => OrderInv'
    BY StepKeeps
  <1>q. QED
    BY <1>1, <1>2, InitOrder, PTL DEF Spec
-----------------------------------------------------------------------------
(***************************************************************************)
(* Live objects                                                            *)
(***************************************************************************)
LEMMA LeastMember ==
    ASSUME NEW S, S \subseteq Nat, S # {}
    PROVE  \E i \in S : \A j \in S : i <= j
  <1> DEFINE Less == {p \in Nat \X Nat : p[1] < p[2]}
  <1>1. OpToRel(<, Nat) = Less
    BY Zenon DEF OpToRel
  <1>2. IsWellFoundedOn(Less, Nat)
    BY <1>1, NatLessThanWellFounded
  <1>3. PICK i \in S : \A j \in S : <<j, i>> \notin Less
    <2> HIDE DEF Less
    <2>q. QED
      BY <1>2, WFMin
  <1>4. ASSUME NEW j \in S, ~(i <= j)
        PROVE  FALSE
    <2>1. <<j, i>> \in Nat \X Nat /\ j < i
      BY <1>4
    <2>2. <<j, i>> \in Less
      BY <2>1
    <2>q. QED
      BY <1>3, <2>2
  <1>q. QED
    BY <1>4

\* Induction up to n.
LEMMA UpTo ==
    ASSUME NEW n \in Nat, NEW G, 0 \in G, \A m \in 1 .. n : m - 1 \in G => m \in G
    PROVE  \A m \in 0 .. n : m \in G
  <1> DEFINE Bad == {m \in 0 .. n : m \notin G}
  <1> SUFFICES ASSUME Bad # {} PROVE FALSE
    OBVIOUS
  <1>1. Bad \subseteq Nat
    OBVIOUS
  <1> HIDE DEF Bad
  <1>2. PICK m \in Bad : \A j \in Bad : m <= j
    BY <1>1, LeastMember
  <1>3. m \in 0 .. n /\ m \notin G /\ m # 0
    BY <1>2 DEF Bad
  <1>4. m \in 1 .. n /\ m - 1 \in 0 .. n /\ ~(m <= m - 1)
    BY <1>3
  <1>5. m - 1 \in G
    BY <1>2, <1>4 DEF Bad
  <1>q. QED
    BY <1>3, <1>4, <1>5


\* What Variables keeps: everything but constants, in its order.
IsVariables(r, s, S, m) ==
    /\ r \in Seq(S \ {None}) /\ Len(r) <= m
    /\ \A i \in 1 .. m : s[i] # None => \E k \in 1 .. Len(r) : r[k] = s[i]
    /\ (\A i \in 1 .. m : s[i] # None) => Len(r) = m /\ \A i \in 1 .. m : r[i] = s[i]

LEMMA VariablesGrow ==
    ASSUME NEW S, NEW s \in Seq(S), NEW m \in 1 .. Len(s), NEW r, IsVariables(r, s, S, m - 1)
    PROVE  /\ s[m] = None => IsVariables(r, s, S, m)
           /\ s[m] # None => IsVariables(Append(r, s[m]), s, S, m)
  <1> DEFINE n == Len(r)
             k == m - 1
  <1>1. /\ r \in Seq(S \ {None}) /\ n \in Nat /\ n <= k
        /\ \A i \in 1 .. k : s[i] # None => \E l \in 1 .. n : r[l] = s[i]
        /\ (\A i \in 1 .. k : s[i] # None) => n = k /\ \A i \in 1 .. k : r[i] = s[i]
    BY DEF IsVariables
  <1>2. /\ k \in Nat /\ m = k + 1 /\ s[m] \in S
        /\ \A i \in 1 .. m : i = m \/ i \in 1 .. k
        /\ \A i \in 1 .. k : i \in 1 .. m
    OBVIOUS
  <1>3. m \in 1 .. m
    OBVIOUS
  <1> HIDE DEF n, k
  <1>4. CASE s[m] = None
    <2>1. n <= m
      BY <1>1, <1>2
    <2>2. \A i \in 1 .. m : s[i] # None => \E l \in 1 .. n : r[l] = s[i]
      BY <1>1, <1>2, <1>4
    <2>3. ~ \A i \in 1 .. m : s[i] # None
      BY <1>3, <1>4
    <2>q. QED
      BY <1>1, <1>4, <2>1, <2>2, <2>3 DEF IsVariables, n
  <1>5. CASE s[m] # None
    <2> DEFINE a == Append(r, s[m])
    <2>1. /\ a \in Seq(S \ {None}) /\ Len(a) = n + 1 /\ a[n + 1] = s[m]
          /\ \A i \in 1 .. n : a[i] = r[i]
      BY <1>1, <1>2, <1>5, AppendProperties DEF n
    <2> HIDE DEF a
    <2>2. Len(a) <= m
      BY <1>1, <1>2, <2>1
    <2>3. ASSUME NEW i \in 1 .. m, s[i] # None
          PROVE  \E l \in 1 .. Len(a) : a[l] = s[i]
      <3>1. CASE i = m
        <4>1. n + 1 \in 1 .. Len(a)
          BY <1>1, <2>1
        <4>q. QED
          BY <2>1, <3>1, <4>1
      <3>2. CASE i \in 1 .. k
        <4>1. PICK l \in 1 .. n : r[l] = s[i]
          BY <1>1, <2>3, <3>2
        <4>2. l \in 1 .. Len(a) /\ a[l] = s[i]
          BY <1>1, <2>1, <4>1
        <4>q. QED
          BY <4>2
      <3>q. QED
        BY <1>2, <3>1, <3>2
    <2>4. ASSUME \A i \in 1 .. m : s[i] # None
          PROVE  Len(a) = m /\ \A i \in 1 .. m : a[i] = s[i]
      <3>1. n = k /\ \A i \in 1 .. k : r[i] = s[i]
        BY <1>1, <1>2, <2>4
      <3>2. \A i \in 1 .. k : a[i] = s[i]
        BY <2>1, <3>1
      <3>q. QED
        BY <1>2, <2>1, <3>1, <3>2
    <2>q. QED
      BY <1>5, <2>1, <2>2, <2>3, <2>4 DEF IsVariables, a
  <1>q. QED
    BY <1>4, <1>5

LEMMA VariablesIs ==
    ASSUME NEW S, NEW s \in Seq(S)
    PROVE  IsVariables(Variables(s), s, S, Len(s))
  <1> DEFINE n == Len(s)
             upto[i \in 0 .. n] ==
               IF i = 0 THEN <<>>
               ELSE IF s[i] = None THEN upto[i - 1] ELSE Append(upto[i - 1], s[i])
             Kept(v, i) == IF s[i] = None THEN v ELSE Append(v, s[i])
             Steps(f, m) ==
               f = [i \in 0 .. m |->
                      IF i = 0 THEN <<>>
                      ELSE IF s[i] = None THEN f[i - 1] ELSE Append(f[i - 1], s[i])]
             Defined == {m \in 0 .. n : \E f : Steps(f, m)}
             Right == {m \in 0 .. n : IsVariables(upto[m], s, S, m)}
  <1>1. n \in Nat
    OBVIOUS
  <1>2. 0 \in Defined
    <2>1. PICK f : f = [i \in 0 .. 0 |-> <<>>]
      OBVIOUS
    <2>2. Steps(f, 0)
      BY <2>1
    <2>q. QED
      BY <1>1, <2>2
  <1>3. ASSUME NEW m \in 1 .. n, m - 1 \in Defined PROVE m \in Defined
    <2>1. PICK f : Steps(f, m - 1)
      BY <1>3
    <2>2. PICK g : g = [i \in 0 .. m |-> IF i < m THEN f[i] ELSE Kept(f[m - 1], m)]
      OBVIOUS
    <2>3. /\ \A i \in 0 .. m - 1 : g[i] = f[i]
          /\ g[m] = Kept(f[m - 1], m)
      BY <1>1, <2>2
    <2>4. ASSUME NEW i \in 0 .. m
          PROVE  g[i] = IF i = 0 THEN <<>> ELSE Kept(g[i - 1], i)
      <3>1. CASE i = m
        <4>1. m # 0 /\ m - 1 \in 0 .. m - 1
          BY <1>1
        <4>q. QED
          BY <2>3, <3>1, <4>1
      <3>2. CASE i # m
        <4>1. i \in 0 .. m - 1 /\ (i # 0 => i - 1 \in 0 .. m - 1)
          BY <1>1, <3>2
        <4>2. f[i] = IF i = 0 THEN <<>> ELSE Kept(f[i - 1], i)
          BY <2>1, <4>1
        <4>q. QED
          BY <2>3, <4>1, <4>2
      <3>q. QED
        BY <3>1, <3>2
    <2>5. g = [i \in 0 .. m |-> g[i]]
      BY <2>2
    <2>6. Steps(g, m)
      BY <2>4, <2>5
    <2>7. m \in 0 .. n
      BY <1>1
    <2> HIDE DEF Steps, n
    <2>q. QED
      BY <2>6, <2>7
  <1>4. PICK f : Steps(f, n)
    <2> HIDE DEF Steps, n
    <2>1. n \in Defined
      <3> HIDE DEF Defined
      <3>1. n \in 0 .. n
        BY <1>1
      <3>q. QED
        BY <1>1, <1>2, <1>3, <3>1, UpTo
    <2>q. QED
      BY <2>1
  <1>5. Steps(upto, n)
    BY <1>4
  <1>6. /\ upto[0] = <<>>
        /\ \A m \in 1 .. n : upto[m] = Kept(upto[m - 1], m)
    <2> HIDE DEF upto
    <2>1. \A m \in 0 .. n : upto[m] = IF m = 0 THEN <<>> ELSE Kept(upto[m - 1], m)
      BY <1>5
    <2>2. 0 \in 0 .. n /\ \A m \in 1 .. n : m \in 0 .. n /\ m # 0
      BY <1>1
    <2>q. QED
      BY <2>1, <2>2
  <1>7. Variables(s) = upto[n]
    BY DEF Variables
  <1> HIDE DEF upto, Steps, Defined
  <1>8. 0 \in Right
    <2>1. IsVariables(<<>>, s, S, 0)
      BY DEF IsVariables
    <2>q. QED
      BY <1>1, <1>6, <2>1
  <1>9. ASSUME NEW m \in 1 .. n, m - 1 \in Right PROVE m \in Right
    <2>1. IsVariables(upto[m - 1], s, S, m - 1)
      BY <1>9
    <2>2. IsVariables(upto[m], s, S, m)
      BY <1>1, <1>6, <2>1, VariablesGrow
    <2>q. QED
      BY <1>1, <2>2
  <1>10. n \in Right
    <2> HIDE DEF Right, n
    <2>1. n \in 0 .. n
      BY <1>1
    <2>q. QED
      BY <1>1, <1>8, <1>9, <2>1, UpTo
  <1>q. QED
    BY <1>7, <1>10

\* What the handlers of calls take out of a statement, up to MaxUses.
LEMMA ActualsIs ==
    ASSUME NEW st, IsStatement(st)
    PROVE  /\ Actuals(st) \in Seq(Symbols \cup {None})
           /\ Len(Actuals(st)) = IF st.via = "name" THEN 0 ELSE 1
  <1>1. st.via \in {"name", "object", "module"}
    BY DEF IsStatement
  <1>2. CASE st.via = "name"
    <2>1. Actuals(st) = <<>>
      BY <1>2 DEF Actuals
    <2>q. QED
      BY <1>2, <2>1
  <1>3. CASE st.via = "module"
    <2>1. Actuals(st) = <<None>>
      BY <1>3 DEF Actuals
    <2>q. QED
      BY <1>3, <2>1
  <1>4. CASE st.via = "object"
    <2>1. Actuals(st) = <<ClassOf[st.recv]>>
      BY <1>4 DEF Actuals
    <2>2. ClassOf[st.recv] \in Symbols
      BY <1>4 DEF IsStatement, Symbols
    <2>q. QED
      BY <1>4, <2>1, <2>2
  <1>q. QED
    BY <1>1, <1>2, <1>3, <1>4

\* The number of uses that are kept.
LEMMA MinOfTwo ==
    ASSUME NEW a \in Nat, NEW b \in Nat
    PROVE  /\ Min({a, b}) \in Nat /\ Min({a, b}) <= a /\ Min({a, b}) <= b
           /\ Min({a, b}) = a \/ Min({a, b}) = b
  <1>1. \E x \in {a, b} : \A y \in {a, b} : x <= y
    <2>1. CASE a <= b
      BY <2>1
    <2>2. CASE ~(a <= b)
      BY <2>2
    <2>q. QED
      BY <2>1, <2>2
  <1>2. Min({a, b}) \in {a, b} /\ \A y \in {a, b} : Min({a, b}) <= y
    BY <1>1 DEF Min
  <1>q. QED
    BY <1>2

LEMMA UsesIs ==
    ASSUME NEW st, IsStatement(st)
    PROVE  /\ Uses(st) \in Seq(Symbols \cup {None})
           /\ Len(Actuals(st) \o st.use) <= MaxUses => Uses(st) = Actuals(st) \o Variables(st.use)
  <1> DEFINE S == Symbols \cup {None}
             a == Actuals(st)
             v == Variables(st.use)
             all == a \o v
  <1>1. a \in Seq(S) /\ Len(a) \in Nat
    BY ActualsIs
  <1>2. st.use \in Seq(S)
    <2>1. st.use \in Seq(Name \cup {None}) /\ Name \cup {None} \subseteq S
      BY DEF IsStatement, Symbols
    <2>q. QED
      BY <2>1, SeqMonotonic
  <1>3. IsVariables(v, st.use, S, Len(st.use))
    BY <1>2, VariablesIs
  <1>4. v \in Seq(S) /\ Len(v) \in Nat /\ Len(v) <= Len(st.use) /\ Len(st.use) \in Nat
    <2>1. v \in Seq(S \ {None})
      BY <1>3 DEF IsVariables
    <2>2. v \in Seq(S)
      BY <2>1, SeqMonotonic
    <2> HIDE DEF v, S
    <2>q. QED
      BY <1>2, <1>3, <2>2 DEF IsVariables
  <1>5. all \in Seq(S) /\ Len(all) = Len(a) + Len(v)
    BY <1>1, <1>4, ConcatProperties
  <1>6. Uses(st) = SubSeq(all, 1, Min({Len(all), MaxUses}))
    BY DEF Uses
  <1>7. Len(a \o st.use) = Len(a) + Len(st.use)
    BY <1>1, <1>2, ConcatProperties
  <1> HIDE DEF all, a, v, S
  <1>8. /\ Len(all) \in Nat /\ MaxUses \in Nat
        /\ Min({Len(all), MaxUses}) \in Nat /\ Min({Len(all), MaxUses}) <= Len(all)
        /\ Min({Len(all), MaxUses}) <= MaxUses
        /\ Min({Len(all), MaxUses}) = Len(all) \/ Min({Len(all), MaxUses}) = MaxUses
    <2>1. Len(all) \in Nat /\ MaxUses \in Nat
      BY <1>5 DEF MaxUses
    <2>q. QED
      BY <2>1, MinOfTwo
  <1> DEFINE m == Min({Len(all), MaxUses})
  <1>9. m \in Nat /\ m <= Len(all) /\ (Len(all) <= MaxUses => m = Len(all))
    BY <1>8
  <1> HIDE DEF m
  <1>10. \A i \in 1 .. m : all[i] \in S
    BY <1>5, <1>8, <1>9
  <1>11. SubSeq(all, 1, m) \in Seq(S)
    BY <1>9, <1>10, SubSeqProperties
  <1>12. Len(a \o st.use) <= MaxUses => Uses(st) = all
    <2>1. SubSeq(all, 1, Len(all)) = all
      BY <1>5, SubSeqFull
    <2>2. Len(a \o st.use) <= MaxUses => Len(all) <= MaxUses
      BY <1>1, <1>4, <1>5, <1>7 DEF MaxUses
    <2>q. QED
      BY <1>6, <1>9, <2>1, <2>2 DEF m
  <1>q. QED
    BY <1>6, <1>11, <1>12 DEF S, m, a, v, all

\* A statement of few uses has all its variables among them.
LEMMA UsesCover ==
    ASSUME NEW st, IsStatement(st), Len(Actuals(st) \o st.use) <= MaxUses
    PROVE  /\ \A i \in DOMAIN st.use : st.use[i] # None =>
                \E k \in DOMAIN Uses(st) : Uses(st)[k] = st.use[i]
           /\ st.via # "name" => Uses(st) # <<>>
           /\ st.via = "name" /\ Len(st.use) = 1 /\ st.use[1] # None =>
                Uses(st) # <<>> /\ Uses(st)[1] = st.use[1]
  <1> DEFINE S == Symbols \cup {None}
             a == Actuals(st)
             v == Variables(st.use)
             u == Uses(st)
  <1>1. a \in Seq(S) /\ Len(a) = IF st.via = "name" THEN 0 ELSE 1
    BY ActualsIs
  <1>2. st.use \in Seq(S)
    <2>1. st.use \in Seq(Name \cup {None}) /\ Name \cup {None} \subseteq S
      BY DEF IsStatement, Symbols
    <2>q. QED
      BY <2>1, SeqMonotonic
  <1>3. IsVariables(v, st.use, S, Len(st.use))
    BY <1>2, VariablesIs
  <1>4. v \in Seq(S \ {None}) /\ Len(v) \in Nat /\ Len(st.use) \in Nat /\ Len(v) <= Len(st.use)
    <2>1. v \in Seq(S \ {None}) /\ Len(v) <= Len(st.use)
      BY <1>3 DEF IsVariables
    <2> HIDE DEF v, S
    <2>q. QED
      BY <1>2, <2>1
  <1>5. u = a \o v
    BY UsesIs
  <1>6. v \in Seq(S)
    BY <1>4, SeqMonotonic
  <1>7. /\ Len(u) = Len(a) + Len(v) /\ u \in Seq(S) /\ Len(a) \in Nat
        /\ \A i \in 1 .. Len(a) + Len(v) : u[i] = IF i <= Len(a) THEN a[i] ELSE v[i - Len(a)]
    <2> HIDE DEF a, v, u, S
    <2>1. Len(a) \in Nat
      BY <1>1
    <2>q. QED
      BY <1>1, <1>5, <1>6, <2>1, ConcatProperties
  <1> HIDE DEF a, v, u, S
  <1>8. ASSUME NEW i \in DOMAIN st.use, st.use[i] # None
        PROVE  \E k \in DOMAIN u : u[k] = st.use[i]
    <2>1. i \in 1 .. Len(st.use)
      BY <1>2
    <2>2. PICK k \in 1 .. Len(v) : v[k] = st.use[i]
      BY <1>3, <1>8, <2>1 DEF IsVariables
    <2>3. /\ Len(a) + k \in 1 .. Len(a) + Len(v) /\ ~(Len(a) + k <= Len(a))
          /\ Len(a) + k - Len(a) = k
      BY <1>4, <1>7
    <2>4. u[Len(a) + k] = st.use[i] /\ Len(a) + k \in DOMAIN u
      BY <1>7, <2>2, <2>3
    <2>q. QED
      BY <2>4
  <1>9. st.via # "name" => u # <<>>
    <2>1. st.via # "name" => Len(u) # 0
      BY <1>1, <1>4, <1>7
    <2>q. QED
      BY <1>7, <2>1
  <1>10. ASSUME st.via = "name", Len(st.use) = 1, st.use[1] # None
         PROVE  u # <<>> /\ u[1] = st.use[1]
    <2>1. \A i \in 1 .. Len(st.use) : i = 1
      BY <1>10
    <2>2. Len(v) = 1 /\ v[1] = st.use[1]
      BY <1>3, <1>10, <2>1 DEF IsVariables
    <2>3. 1 \in 1 .. Len(a) + Len(v) /\ ~(1 <= Len(a)) /\ 1 - Len(a) = 1 /\ Len(u) # 0
      BY <1>1, <1>7, <1>10, <2>2
    <2>q. QED
      BY <1>7, <2>2, <2>3
  <1>q. QED
    BY <1>8, <1>9, <1>10 DEF u

\* What a call passes, and what is kept of it.
LEMMA PassedIs ==
    ASSUME NEW st, IsStatement(st)
    PROVE  /\ Passed(st) \in Seq(Name \cup {None})
           /\ \A i \in DOMAIN Passed(st) :
                \/ st.via = "object" /\ i = 1 /\ Passed(st)[i] = st.recv
                \/ \E j \in DOMAIN st.use : Passed(st)[i] = st.use[j]
           /\ st.via # "object" => Passed(st) = st.use
           /\ st.via = "object" =>
                /\ Len(Passed(st)) = 1 + Len(st.use)
                /\ \A i \in 1 .. Len(st.use) : Passed(st)[1 + i] = st.use[i]
  <1> DEFINE S == Name \cup {None}
  <1>1. st.use \in Seq(S)
    BY DEF IsStatement
  <1>2. CASE st.via = "object"
    <2> DEFINE a == <<st.recv>>
    <2>1. a \in Seq(S) /\ Len(a) = 1 /\ a[1] = st.recv
      BY <1>2 DEF IsStatement, Name
    <2>2. Passed(st) = a \o st.use
      BY <1>2 DEF Passed
    <2> DEFINE p == Passed(st)
    <2> HIDE DEF a, p, S
    <2>3. /\ p \in Seq(S) /\ Len(p) = 1 + Len(st.use) /\ Len(st.use) \in Nat
          /\ \A i \in 1 .. 1 + Len(st.use) : p[i] = IF i <= 1 THEN a[i] ELSE st.use[i - 1]
      <3>1. p = a \o st.use /\ Len(st.use) \in Nat
        BY <1>1, <2>2 DEF p
      <3>2. /\ p \in Seq(S) /\ Len(p) = Len(a) + Len(st.use)
            /\ \A i \in 1 .. Len(a) + Len(st.use) : p[i] = IF i <= Len(a) THEN a[i] ELSE st.use[i - Len(a)]
        BY <1>1, <2>1, <3>1, ConcatProperties
      <3>q. QED
        BY <2>1, <3>1, <3>2
    <2>4. \A i \in 1 .. Len(st.use) : p[1 + i] = st.use[i]
      BY <2>3
    <2>5. \A i \in DOMAIN p : i # 1 => i - 1 \in DOMAIN st.use /\ p[i] = st.use[i - 1]
      BY <1>1, <2>3
    <2>6. \A i \in DOMAIN p : i = 1 => p[i] = st.recv
      BY <2>1, <2>3
    <2>q. QED
      BY <1>2, <2>3, <2>4, <2>5, <2>6 DEF p, S
  <1>3. CASE st.via # "object"
    <2>1. Passed(st) = st.use
      <3>1. Passed(st) = <<>> \o st.use
        BY <1>3 DEF Passed
      <3>2. <<>> \o st.use = st.use
        BY <1>1, ConcatEmptySeq
      <3>q. QED
        BY <3>1, <3>2
    <2>q. QED
      BY <1>1, <1>3, <2>1
  <1>q. QED
    BY <1>2, <1>3

LEMMA UsesMatch ==
    ASSUME NEW st, IsStatement(st), Len(Actuals(st) \o st.use) <= MaxUses,
           None \notin Range(st.use), st.via # "module"
    PROVE  /\ Len(Uses(st)) = Len(Passed(st))
           /\ \A i \in 1 .. Len(Passed(st)) :
                Uses(st)[i] = Passed(st)[i] \/ (st.via = "object" /\ Passed(st)[i] = st.recv)
  <1> DEFINE S == Symbols \cup {None}
             a == Actuals(st)
             u == Uses(st)
             p == Passed(st)
  <1>1. a \in Seq(S) /\ Len(a) = IF st.via = "name" THEN 0 ELSE 1
    BY ActualsIs
  <1>2. st.use \in Seq(S)
    <2>1. st.use \in Seq(Name \cup {None}) /\ Name \cup {None} \subseteq S
      BY DEF IsStatement, Symbols
    <2>q. QED
      BY <2>1, SeqMonotonic
  <1>3. Variables(st.use) = st.use
    <2>1. IsVariables(Variables(st.use), st.use, S, Len(st.use))
      BY <1>2, VariablesIs
    <2>2. \A i \in 1 .. Len(st.use) : st.use[i] # None
      BY <1>2 DEF Range
    <2>3. /\ Variables(st.use) \in Seq(S \ {None})
          /\ Len(Variables(st.use)) = Len(st.use)
          /\ \A i \in 1 .. Len(st.use) : Variables(st.use)[i] = st.use[i]
      BY <2>1, <2>2 DEF IsVariables
    <2>4. Variables(st.use) \in Seq(S)
      BY <2>3, SeqMonotonic
    <2> HIDE DEF S
    <2>q. QED
      BY <1>2, <2>3, <2>4, SeqEqual
  <1>4. u = a \o st.use
    BY <1>3, UsesIs
  <1>5. st.via \in {"name", "object"}
    BY DEF IsStatement
  <1>6. Len(a) \in Nat /\ Len(st.use) \in Nat
    <2> HIDE DEF a, S
    <2>q. QED
      BY <1>1, <1>2
  <1>7. CASE st.via = "name"
    <2>1. a = <<>>
      <3> HIDE DEF a, S
      <3>q. QED
        BY <1>1, <1>7
    <2>2. u = st.use
      <3> HIDE DEF a, S, u
      <3>q. QED
        BY <1>2, <1>4, <2>1, ConcatEmptySeq
    <2>3. p = st.use
      BY <1>7, PassedIs
    <2>q. QED
      BY <2>2, <2>3
  <1>8. CASE st.via = "object"
    <2>1. /\ Len(p) = 1 + Len(st.use)
          /\ \A i \in 1 .. Len(st.use) : p[1 + i] = st.use[i]
          /\ \A i \in DOMAIN p :
                \/ i = 1 /\ p[i] = st.recv
                \/ \E j \in DOMAIN st.use : p[i] = st.use[j]
          /\ p \in Seq(Name \cup {None})
      BY <1>8, PassedIs
    <2> HIDE DEF a, S, u, p
    <2>2. /\ Len(u) = 1 + Len(st.use)
          /\ \A i \in 1 .. 1 + Len(st.use) : u[i] = IF i <= 1 THEN a[i] ELSE st.use[i - 1]
      <3>1. /\ Len(u) = Len(a) + Len(st.use)
            /\ \A i \in 1 .. Len(a) + Len(st.use) : u[i] = IF i <= Len(a) THEN a[i] ELSE st.use[i - Len(a)]
        BY <1>1, <1>2, <1>4, ConcatProperties
      <3>2. Len(a) = 1
        BY <1>1, <1>8
      <3>q. QED
        BY <3>1, <3>2
    <2>3. p[1] = st.recv
      <3>1. Passed(st) = <<st.recv>> \o st.use
        BY <1>8 DEF Passed
      <3>2. <<st.recv>> \in Seq(Name)
        BY <1>8 DEF IsStatement, Name
      <3>3. <<st.recv>> \in Seq(Name \cup {None}) /\ st.use \in Seq(Name \cup {None})
        BY <3>2 DEF IsStatement
      <3> DEFINE r == <<st.recv>>
      <3>4. Len(r) = 1 /\ r[1] = st.recv
        OBVIOUS
      <3> HIDE DEF r
      <3>5. 1 \in 1 .. Len(r) + Len(st.use)
        BY <1>6, <3>4
      <3>6. (r \o st.use)[1] = r[1]
        BY <3>3, <3>4, <3>5, ConcatProperties DEF r
      <3>q. QED
        BY <3>1, <3>4, <3>6 DEF p, r
    <2>4. ASSUME NEW i \in 1 .. Len(p), i # 1
          PROVE  u[i] = p[i]
      <3>1. i - 1 \in 1 .. Len(st.use) /\ 1 + (i - 1) = i /\ ~(i <= 1) /\ i \in 1 .. 1 + Len(st.use)
        BY <1>6, <2>1, <2>4
      <3>q. QED
        BY <2>1, <2>2, <3>1
    <2>q. QED
      BY <1>8, <2>1, <2>2, <2>3, <2>4 DEF u, p
  <1>q. QED
    BY <1>5, <1>7, <1>8
-----------------------------------------------------------------------------
(***************************************************************************)
(* Types                                                                   *)
(***************************************************************************)
LEMMA ClassIs ==
    ASSUME NEW fr, NEW st, IsStatement(st)
    PROVE  UseClf(fr, st) \in Symbols \cup {None}
  <1> DEFINE objects == {i \in DOMAIN st.use : st.use[i] \notin Dotted \cup {None} /\ Bound(fr, st.use[i])}
  <1>1. CASE objects = {}
    BY <1>1 DEF UseClf
  <1>2. CASE objects # {}
    <2>1. st.use \in Seq(Name \cup {None})
      BY DEF IsStatement
    <2>2. objects \subseteq Nat
      BY <2>1
    <2>3. UseClf(fr, st) = ClassOf[st.use[Min(objects)]]
      BY <1>2 DEF UseClf
    <2>4. Min(objects) \in objects
      <3> HIDE DEF objects
      <3>q. QED
        BY <1>2, <2>2, LeastMember DEF Min
    <2> DEFINE i == Min(objects)
    <2>5. st.use[i] \in Name \cup {None} /\ st.use[i] \notin Dotted \cup {None} /\ ClassOf[st.use[i]] # None
      <3>1. i \in DOMAIN st.use /\ st.use[i] \notin Dotted \cup {None} /\ Bound(fr, st.use[i])
        BY <2>4
      <3> HIDE DEF i
      <3>q. QED
        BY <2>1, <3>1 DEF Bound
    <2> HIDE DEF i, objects
    <2>6. st.use[i] \in DOMAIN ClassOf
      BY <2>5 DEF Name
    <2>q. QED
      BY <2>3, <2>5, <2>6 DEF i, Symbols
  <1>q. QED
    BY <1>1, <1>2

\* The live object of a statement, known call or not.
IsLo(lo) ==
    /\ lo.Def \in Symbols \cup {None} /\ lo.Uses \in Seq(Symbols \cup {None})
    /\ lo.UseClf \in Symbols \cup {None} /\ lo.Callee \in STRING \cup {None}
    /\ lo.Ret \in BOOLEAN /\ lo.Br \in BOOLEAN /\ lo.LineNo \in Nat

LEMMA LineObjectIs ==
    ASSUME NEW fr \in FrameRecord, NEW st, IsStatement(st)
    PROVE  LET lo == LineObject(fr, st)
           IN  /\ IsLo(lo) /\ (lo.Callee \in Defs => lo \in LiveObject)
               /\ lo.Callee = st.callee /\ lo.Uses = Uses(st) /\ lo.LineNo = fr.pc
               /\ lo.Ret = (st.op = "return")
               /\ lo.Def = IF st.def = <<>> THEN None ELSE RealDef(fr, st.def[1])
  <1> DEFINE lo == LineObject(fr, st)
             def == IF st.def = <<>> THEN None ELSE RealDef(fr, st.def[1])
  <1>1. lo = [Def |-> def, Uses |-> Uses(st), UseClf |-> UseClf(fr, st), Callee |-> st.callee,
              Ret |-> st.op = "return", Br |-> st.op = "if", LineNo |-> fr.pc]
    BY DEF LineObject
  <1>2. def \in Symbols \cup {None}
    <2>1. ASSUME st.def # <<>>
          PROVE  RealDef(fr, st.def[1]) \in Symbols
      <3>1. st.def \in Seq(Name)
        BY DEF IsStatement
      <3>2. st.def[1] \in Name
        BY <2>1, <3>1
      <3>q. QED
        BY <3>2 DEF RealDef, Bound, Symbols, Name
    <2>q. QED
      BY <2>1
  <1>3. Uses(st) \in Seq(Symbols \cup {None}) /\ UseClf(fr, st) \in Symbols \cup {None}
    BY UsesIs, ClassIs
  <1>4. st.callee \in STRING \cup {None} /\ fr.pc \in Nat
    BY DEF IsStatement, FrameRecord
  <1> HIDE DEF lo, def
  <1>5. IsLo(lo)
    BY <1>1, <1>2, <1>3, <1>4 DEF IsLo
  <1>6. lo.Callee \in Defs => lo \in LiveObject
    BY <1>1, <1>2, <1>3, <1>4 DEF LiveObject
  <1>q. QED
    BY <1>1, <1>5, <1>6 DEF lo, def

\* The live object of a call event.
LEMMA ParamObjectIs ==
    ASSUME NEW f \in Func
    PROVE  IsLo(ParamObject(f))
  <1> DEFINE paras == Params[f]
             self(i) == i = 1 /\ f \in Methods
             objects == {i \in DOMAIN paras : ~self(i) /\ ClassOf[paras[i]] # None}
             clf == IF objects = {} THEN None ELSE ClassOf[paras[Min(objects)]]
             m == Min({Len(paras), MaxUses})
             use(i) == IF self(i) THEN ClassOf[paras[i]] ELSE paras[i]
             uses == [i \in 1 .. m |-> use(i)]
             S == Symbols \cup {None}
  <1>1. paras \in Seq(DOMAIN ClassOf)
    BY Assumption DEF Assumption
  <1>2. ParamObject(f) = [Def |-> None, Uses |-> uses, UseClf |-> clf, Callee |-> None,
                          Ret |-> FALSE, Br |-> FALSE, LineNo |-> 0]
    BY DEF ParamObject
  <1> HIDE DEF paras
  <1>3. \A i \in DOMAIN paras : paras[i] \in DOMAIN ClassOf
    BY <1>1
  <1>4. \A v \in DOMAIN ClassOf : v \in S /\ ClassOf[v] \in S
    BY DEF Symbols, Name
  <1>5. m \in Nat /\ m <= Len(paras)
    <2>1. Len(paras) \in Nat /\ MaxUses \in Nat
      BY <1>1 DEF MaxUses
    <2>q. QED
      BY <2>1, MinOfTwo
  <1> HIDE DEF m, S
  <1>6. \A i \in 1 .. m : i \in DOMAIN paras
    BY <1>1, <1>5
  <1>7. \A i \in 1 .. m : use(i) \in S
    BY <1>3, <1>4, <1>6
  <1> HIDE DEF use
  <1>8. uses \in Seq(S)
    BY <1>5, <1>7
  <1>9. clf \in S
    <2>1. CASE objects = {}
      BY <2>1 DEF S
    <2>2. CASE objects # {}
      <3>1. objects \subseteq Nat
        BY <1>1
      <3>2. Min(objects) \in objects
        <4> HIDE DEF objects
        <4>q. QED
          BY <2>2, <3>1, LeastMember DEF Min
      <3>3. Min(objects) \in DOMAIN paras
        BY <3>2
      <3> HIDE DEF objects
      <3>q. QED
        BY <1>3, <1>4, <2>2, <3>3
    <2>q. QED
      BY <2>1, <2>2
  <1> HIDE DEF uses, clf
  <1>q. QED
    BY <1>2, <1>8, <1>9 DEF IsLo, S

\* Stacks of contexts.
IsStack(stk) == stk \in Seq(ContextRecord) /\ stk # <<>>

LEMMA StackTop ==
    ASSUME NEW stk, IsStack(stk)
    PROVE  Len(stk) \in Nat \ {0} /\ Last(stk) = stk[Len(stk)] /\ Last(stk) \in ContextRecord
  BY EmptySeq DEF IsStack, Last

LEMMA SetTop ==
    ASSUME NEW stk, IsStack(stk), NEW c \in ContextRecord
    PROVE  LET new == [stk EXCEPT ![Len(stk)] = c]
           IN  /\ IsStack(new) /\ Len(new) = Len(stk) /\ Last(new) = c /\ new[Len(stk)] = c
               /\ \A i \in 1 .. Len(stk) - 1 : new[i] = stk[i]
  <1> DEFINE new == [stk EXCEPT ![Len(stk)] = c]
             n == Len(stk)
  <1>1. n \in Nat \ {0} /\ n \in 1 .. n /\ stk \in Seq(ContextRecord)
    BY StackTop DEF IsStack
  <1>2. /\ new \in Seq(ContextRecord) /\ Len(new) = n
        /\ \A i \in 1 .. n : new[i] = IF i = n THEN c ELSE stk[i]
    BY <1>1, ExceptSeq
  <1> HIDE DEF new, n
  <1>3. new # <<>>
    BY <1>1, <1>2
  <1>4. new[n] = c /\ \A i \in 1 .. n - 1 : new[i] = stk[i]
    BY <1>1, <1>2
  <1>q. QED
    BY <1>2, <1>3, <1>4 DEF new, n, IsStack, Last

\* Taint goes into the last context.
LEMMA LocalIs ==
    ASSUME NEW stk, IsStack(stk), NEW S \in SUBSET (Symbols \cup {None})
    PROVE  LET new == Local(stk, S)
           IN  /\ IsStack(new) /\ Len(new) = Len(stk)
               /\ \A i \in 1 .. Len(stk) - 1 : new[i] = stk[i]
               /\ new[Len(stk)] = [stk[Len(stk)] EXCEPT !.TaintSymbs = @ \cup (S \ (Dotted \cup {None}))]
               /\ Last(new) = new[Len(stk)]
  <1> DEFINE c == [stk[Len(stk)] EXCEPT !.TaintSymbs = @ \cup (S \ (Dotted \cup {None}))]
             new == Local(stk, S)
  <1>1. new = [stk EXCEPT ![Len(stk)] = c]
    BY DEF Local
  <1>2. c \in ContextRecord
    <2>1. stk[Len(stk)] \in ContextRecord /\ S \ (Dotted \cup {None}) \subseteq Symbols
      BY StackTop
    <2>q. QED
      BY <2>1 DEF ContextRecord
  <1> HIDE DEF c
  <1>3. /\ IsStack(new) /\ Len(new) = Len(stk) /\ Last(new) = c /\ new[Len(stk)] = c
        /\ \A i \in 1 .. Len(stk) - 1 : new[i] = stk[i]
    <2>1. LET d == [stk EXCEPT ![Len(stk)] = c]
          IN  /\ IsStack(d) /\ Len(d) = Len(stk) /\ Last(d) = c /\ d[Len(stk)] = c
              /\ \A i \in 1 .. Len(stk) - 1 : d[i] = stk[i]
      BY <1>2, SetTop
    <2> HIDE DEF new
    <2>q. QED
      BY <1>1, <2>1
  <1>q. QED
    BY <1>3 DEF c

LEMMA FormalsAre ==
    ASSUME NEW lo \in LiveObject, NEW stk, NEW glob
    PROVE  /\ Actual2Formal(lo, stk, glob) \subseteq DOMAIN ClassOf
           /\ Actual2Formal(lo, stk, glob) \in SUBSET (Symbols \cup {None})
           /\ lo.Callee \in Defs /\ Params[lo.Callee] \in Seq(DOMAIN ClassOf)
           /\ Len(lo.Uses) \in Nat /\ Len(Params[lo.Callee]) \in Nat
  <1> DEFINE paras == Params[lo.Callee]
             hit(i) == IF SrcArgs[lo.Callee] = None THEN IsInTainted(stk, glob, lo.Uses[i])
                       ELSE SrcArgs[lo.Callee][i]
             m == Min({Len(lo.Uses), Len(paras)})
  <1>1. lo.Callee \in Defs /\ lo.Callee \in Func /\ lo.Uses \in Seq(Symbols \cup {None})
    BY Assumption DEF Assumption, LiveObject
  <1>2. paras \in Seq(DOMAIN ClassOf)
    BY <1>1, Assumption DEF Assumption
  <1>3. Actual2Formal(lo, stk, glob) = {paras[i] : i \in {j \in 1 .. m : hit(j)}}
    BY DEF Actual2Formal
  <1>4. Len(lo.Uses) \in Nat /\ Len(paras) \in Nat
    BY <1>1, <1>2
  <1>5. m \in Nat /\ m <= Len(paras)
    BY <1>4, MinOfTwo
  <1> HIDE DEF m, paras, hit
  <1>6. Actual2Formal(lo, stk, glob) \subseteq DOMAIN ClassOf
    BY <1>2, <1>3, <1>4, <1>5
  <1>q. QED
    BY <1>1, <1>2, <1>4, <1>6 DEF Symbols, Name, paras

LEMMA AppendIs ==
    ASSUME NEW stk, IsStack(stk), NEW c \in ContextRecord
    PROVE  LET new == Append(stk, c)
           IN  /\ IsStack(new) /\ Len(new) = Len(stk) + 1 /\ new[Len(stk) + 1] = c /\ Last(new) = c
               /\ \A i \in 1 .. Len(stk) : new[i] = stk[i]
  <1> DEFINE new == Append(stk, c)
  <1>1. stk \in Seq(ContextRecord)
    BY DEF IsStack
  <1>2. /\ new \in Seq(ContextRecord) /\ new # <<>> /\ Len(new) = Len(stk) + 1
        /\ new[Len(stk) + 1] = c /\ \A i \in 1 .. Len(stk) : new[i] = stk[i]
    BY <1>1, AppendProperties
  <1> HIDE DEF new
  <1>3. Last(new) = c
    BY <1>2 DEF Last
  <1>q. QED
    BY <1>2, <1>3 DEF new, IsStack

LEMMA ContextIs ==
    ASSUME NEW fn \in Defs \cup {Top}, NEW ret \in Symbols \cup {None}
    PROVE  /\ Context(fn, ret) \in ContextRecord
           /\ Context(fn, ret).Func = fn /\ Context(fn, ret).FuncDef = fn /\ Context(fn, ret).Ret = ret
  BY DEF Context, ContextRecord

\* A context prepared is pushed with the parameters its arguments taint.
LEMMA PushPrepared ==
    ASSUME NEW stk, IsStack(stk), NEW glob, NEW call \in ContextRecord, NEW fn
    PROVE  LET new == PushCtx(stk, glob, call, fn)
               lo == Last(stk).CalleeLo
           IN  /\ IsStack(new) /\ Len(new) = Len(stk) + 1
               /\ \A i \in 1 .. Len(stk) : new[i] = stk[i]
               /\ new[Len(stk) + 1].Func = call.Func /\ new[Len(stk) + 1].FuncDef = call.FuncDef
               /\ new[Len(stk) + 1].Ret = call.Ret
               /\ lo # None => Actual2Formal(lo, stk, glob) \subseteq new[Len(stk) + 1].TaintSymbs
  <1> DEFINE lo == Last(stk).CalleeLo
             formals == IF lo = None THEN {} ELSE Actual2Formal(lo, stk, glob)
             more == Append(stk, call)
             new == Local(more, formals)
             n == Len(stk)
  <1>1. PushCtx(stk, glob, call, fn) = new
    BY Assumption DEF PushCtx, Assumption
  <1>2. lo = None \/ lo \in LiveObject
    BY StackTop DEF ContextRecord
  <1>3. formals \in SUBSET (Symbols \cup {None}) /\ formals \subseteq DOMAIN ClassOf
    BY <1>2, FormalsAre
  <1>4. /\ IsStack(more) /\ Len(more) = n + 1 /\ more[n + 1] = call /\ n \in Nat
        /\ \A i \in 1 .. n : more[i] = stk[i]
    BY AppendIs, StackTop
  <1>5. formals \ (Dotted \cup {None}) = formals
    BY <1>3, Assumption DEF Assumption, Name
  <1> HIDE DEF formals, more, n
  <1>6. /\ IsStack(new) /\ Len(new) = n + 1
        /\ \A i \in 1 .. n : new[i] = stk[i]
        /\ new[n + 1] = [call EXCEPT !.TaintSymbs = @ \cup formals]
    <2>1. LET new_1 == Local(more, formals)
          IN  /\ IsStack(new_1) /\ Len(new_1) = Len(more)
              /\ \A i \in 1 .. Len(more) - 1 : new_1[i] = more[i]
              /\ new_1[Len(more)] = [more[Len(more)] EXCEPT !.TaintSymbs = @ \cup (formals \ (Dotted \cup {None}))]
      BY <1>3, <1>4, LocalIs
    <2>2. Len(more) - 1 = n
      BY <1>4
    <2> HIDE DEF new
    <2>q. QED
      BY <1>4, <1>5, <2>1, <2>2 DEF new
  <1> HIDE DEF new
  <1>7. /\ new[n + 1].Func = call.Func /\ new[n + 1].FuncDef = call.FuncDef
        /\ new[n + 1].Ret = call.Ret /\ formals \subseteq new[n + 1].TaintSymbs
    BY <1>6 DEF ContextRecord
  <1>q. QED
    BY <1>1, <1>6, <1>7 DEF n, formals

LEMMA PushIs ==
    ASSUME NEW stk, IsStack(stk), NEW glob, NEW call \in ContextRecord \cup {None}, NEW fn,
           call = None => fn \in Defs
    PROVE  IsStack(PushCtx(stk, glob, call, fn))
  <1>1. CASE call = None
    <2>1. Context(fn, None) \in ContextRecord
      BY <1>1, ContextIs
    <2>2. PushCtx(stk, glob, call, fn) = Append(stk, Context(fn, None))
      BY <1>1 DEF PushCtx
    <2>q. QED
      BY <2>1, <2>2, AppendIs
  <1>2. CASE call # None
    BY <1>2, PushPrepared
  <1>q. QED
    BY <1>1, <1>2

LEMMA EventIs ==
    ASSUME NEW type \in {"NR", "BR", "RET", "CALL"}, NEW stk, IsStack(stk), NEW lo, IsLo(lo),
           NEW source \in BOOLEAN, clock' \in Nat
    PROVE  /\ Event(type, stk, lo, source) \in EventRecord
           /\ Event(type, stk, lo, source).type = type
           /\ Event(type, stk, lo, source).fn = Last(stk).FuncDef
           /\ Event(type, stk, lo, source).line = lo.LineNo
           /\ Event(type, stk, lo, source) # None
  <1>1. Last(stk).FuncDef \in STRING
    BY StackTop, Assumption DEF Assumption, ContextRecord
  <1>2. Event(type, stk, lo, source) \in EventRecord
    BY <1>1 DEF Event, EventRecord, IsLo
  <1>q. QED
    BY <1>2, Assumption DEF Event, Assumption

LEMMA EntryIs ==
    ASSUME NEW stk, NEW fn \in Func, clock' \in Nat
    PROVE  Entry(stk, fn) \in EventRecord
  <1>1. fn \in STRING
    BY Assumption DEF Assumption
  <1> DEFINE none == <<>>
             Uses0 == Seq(Symbols \cup {None})
  <1>2. none \in Uses0
    OBVIOUS
  <1>3. Entry(stk, fn) = [type |-> "FENTRY", fn |-> fn, line |-> 0, callee |-> fn, def |-> None,
                          uses |-> none, source |-> FALSE, at |-> clock']
    BY DEF Entry
  <1> HIDE DEF none, Uses0
  <1>q. QED
    BY <1>1, <1>2, <1>3 DEF EventRecord, Uses0

CtxTypes ==
    /\ IsStack(CtxStack)
    /\ CallCtx \in ContextRecord \cup {None}
    /\ GlobalTaintSymbs \subseteq Symbols
IsHeld(msg) == msg = None \/ (msg \in EventRecord /\ msg.type = "CALL")
SentTypes == trace \in Seq(EventRecord) /\ IsHeld(CacheMsg)

LEMMA SendTypes ==
    ASSUME SentTypes, NEW e \in Seq(EventRecord), NEW held, IsHeld(held), Send(e, held)
    PROVE  SentTypes'
  <1>1. Held \in Seq(EventRecord)
    BY DEF SentTypes, IsHeld, Held
  <1>2. trace \o Held \o e \in Seq(EventRecord)
    BY <1>1, ConcatProperties DEF SentTypes
  <1>q. QED
    BY <1>2 DEF Send, SentTypes, IsHeld

LEMMA GlobalIs ==
    ASSUME NEW glob \in SUBSET Symbols, NEW S
    PROVE  Global(glob, S) \in SUBSET Symbols
  BY DEF Global, Symbols, Name

LEMMA OneEvent ==
    ASSUME NEW ev \in EventRecord
    PROVE  <<ev>> \in Seq(EventRecord)
  OBVIOUS

LEMMA LineCtxTypes ==
    ASSUME CtxTypes, SentTypes, clock' \in Nat, NEW fr, NEW lo, IsLo(lo),
           lo.Callee \in Defs => lo \in LiveObject,
           \/ LineIgnored(lo) \/ LineKnownCall(lo) \/ LineForeignCall(lo)
           \/ LineReturn(lo) \/ LineOther(fr, lo)
    PROVE  CtxTypes' /\ SentTypes'
  <1> DEFINE none == <<>>
  <1>1. none \in Seq(EventRecord) /\ IsHeld(None)
    BY DEF IsHeld
  <1>2. /\ IsStack(CtxStack) /\ CallCtx \in ContextRecord \cup {None}
        /\ GlobalTaintSymbs \in SUBSET Symbols
    BY DEF CtxTypes
  <1>3. /\ {lo.Def} \in SUBSET (Symbols \cup {None})
        /\ \A stk : Class(stk, lo) \subseteq Symbols
    BY DEF IsLo, Class
  <1>4. CASE LineIgnored(lo)
    <2>1. Send(none, None) /\ UNCHANGED <<CtxStack, CallCtx, GlobalTaintSymbs>>
      BY <1>4 DEF LineIgnored
    <2> HIDE DEF none
    <2>q. QED
      BY <1>1, <2>1, SendTypes DEF CtxTypes
  <1>5. CASE LineKnownCall(lo)
    <2> DEFINE n == Len(CtxStack)
               c == [CtxStack[n] EXCEPT !.CalleeLo = lo]
    <2>1. /\ Send(none, None) /\ UNCHANGED GlobalTaintSymbs
          /\ CallCtx' = Context(lo.Callee, lo.Def) /\ lo \in LiveObject /\ lo.Callee \in Defs
          /\ CtxStack' = [CtxStack EXCEPT ![Len(CtxStack)] = c]
      BY <1>5 DEF LineKnownCall
    <2>2. CallCtx' \in ContextRecord
      BY <2>1, ContextIs DEF IsLo
    <2>3. c \in ContextRecord
      <3>1. CtxStack[Len(CtxStack)] \in ContextRecord
        BY <1>2, StackTop
      <3>q. QED
        BY <2>1, <3>1 DEF ContextRecord
    <2> HIDE DEF c, none
    <2>4. IsStack(CtxStack')
      BY <1>2, <2>1, <2>3, SetTop
    <2>5. SentTypes'
      BY <1>1, <2>1, SendTypes
    <2>q. QED
      BY <1>2, <2>1, <2>2, <2>4, <2>5 DEF CtxTypes
  <1>6. CASE LineForeignCall(lo)
    <2> DEFINE crn == lo.Callee \in Criteria
               stk == IF crn THEN Local(CtxStack, {lo.Def}) ELSE CtxStack
               glob == IF crn THEN Global(GlobalTaintSymbs, {lo.Def}) ELSE GlobalTaintSymbs
               hit == Touched(stk, glob, lo)
               held == IF crn \/ hit THEN Event("CALL", stk, lo, crn \/ IsSourceFunc(stk)) ELSE None
    <2>1. /\ CallCtx' = None
          /\ CtxStack' = IF hit THEN Local(stk, {lo.Def}) ELSE stk
          /\ GlobalTaintSymbs' = IF hit THEN Global(glob, {lo.Def}) \cup Class(stk, lo) ELSE glob
          /\ Send(none, held)
      BY <1>6 DEF LineForeignCall
    <2>2. IsStack(stk) /\ glob \in SUBSET Symbols
      BY <1>2, <1>3, LocalIs, GlobalIs
    <2> HIDE DEF none, stk, glob
    <2>3. IsHeld(held)
      <3>1. crn \/ IsSourceFunc(stk) \in BOOLEAN
        BY DEF IsSourceFunc
      <3>2. Event("CALL", stk, lo, crn \/ IsSourceFunc(stk)) \in EventRecord
        BY <2>2, <3>1, EventIs
      <3>3. Event("CALL", stk, lo, crn \/ IsSourceFunc(stk)).type = "CALL"
        BY DEF Event
      <3>q. QED
        BY <3>2, <3>3 DEF IsHeld
    <2> HIDE DEF held, hit
    <2>4. IsStack(CtxStack') /\ GlobalTaintSymbs' \in SUBSET Symbols
      BY <1>3, <2>1, <2>2, LocalIs, GlobalIs
    <2>5. SentTypes'
      BY <1>1, <2>1, <2>3, SendTypes
    <2>q. QED
      BY <2>1, <2>4, <2>5 DEF CtxTypes
  <1>7. CASE LineReturn(lo)
    <2> DEFINE hit == IsInTainted(CtxStack, GlobalTaintSymbs, lo.Uses[1])
               c == [CtxStack[Len(CtxStack)] EXCEPT !.RetTaint = hit]
               e == IF hit THEN <<Event("RET", CtxStack, lo, FALSE)>> ELSE none
    <2>1. /\ CtxStack' = [CtxStack EXCEPT ![Len(CtxStack)] = c]
          /\ Send(e, None) /\ UNCHANGED <<CallCtx, GlobalTaintSymbs>>
      BY <1>7 DEF LineReturn
    <2>2. c \in ContextRecord
      <3>1. CtxStack[Len(CtxStack)] \in ContextRecord /\ hit \in BOOLEAN
        BY <1>2, StackTop DEF IsInTainted
      <3> HIDE DEF hit
      <3>q. QED
        BY <3>1 DEF ContextRecord
    <2>3. e \in Seq(EventRecord)
      <3>1. Event("RET", CtxStack, lo, FALSE) \in EventRecord
        BY <1>2, EventIs
      <3> HIDE DEF hit, none
      <3>q. QED
        BY <1>1, <3>1, OneEvent
    <2> HIDE DEF c, e
    <2>4. IsStack(CtxStack')
      BY <1>2, <2>1, <2>2, SetTop
    <2>5. SentTypes'
      BY <1>1, <2>1, <2>3, SendTypes
    <2>q. QED
      BY <1>2, <2>1, <2>4, <2>5 DEF CtxTypes
  <1>8. CASE LineOther(fr, lo)
    <2> DEFINE stk == IF Implicit(fr) THEN PushCtx(CtxStack, GlobalTaintSymbs, CallCtx, fr.fn)
                      ELSE CtxStack
               hit == Touched(stk, GlobalTaintSymbs, lo)
               type == IF lo.Br THEN "BR" ELSE "NR"
               d == IF Implicit(fr) THEN <<Entry(stk, fr.fn)>> ELSE none
               e == IF hit \/ Implicit(fr) THEN <<Event(type, stk, lo, IsSourceFunc(stk))>> ELSE none
    <2>1. /\ CallCtx' = IF Implicit(fr) THEN None ELSE CallCtx
          /\ CtxStack' = IF hit THEN Local(stk, {lo.Def}) ELSE stk
          /\ GlobalTaintSymbs' = IF hit THEN Global(GlobalTaintSymbs, {lo.Def}) \cup Class(stk, lo)
                                 ELSE GlobalTaintSymbs
          /\ Send(d \o e, None)
      BY <1>8 DEF LineOther
    <2>2. IsStack(stk)
      <3>1. Implicit(fr) => CallCtx # None
        BY DEF Implicit
      <3>q. QED
        BY <1>2, <3>1, PushIs
    <2>3. Implicit(fr) => fr.fn \in Func
      <3>1. Implicit(fr) => CurCtx.CalleeLo \in LiveObject /\ fr.fn = CurCtx.CalleeLo.Callee
        BY <1>2, StackTop DEF Implicit, ContextRecord, CurCtx
      <3>q. QED
        BY <3>1, Assumption DEF Assumption, LiveObject
    <2> HIDE DEF stk, none
    <2>4. d \in Seq(EventRecord)
      <3>1. Implicit(fr) => Entry(stk, fr.fn) \in EventRecord
        BY <2>3, EntryIs
      <3>q. QED
        BY <1>1, <3>1, OneEvent
    <2>5. e \in Seq(EventRecord)
      <3>1. IsSourceFunc(stk) \in BOOLEAN /\ type \in {"NR", "BR", "RET", "CALL"}
        BY DEF IsSourceFunc
      <3>2. Event(type, stk, lo, IsSourceFunc(stk)) \in EventRecord
        BY <2>2, <3>1, EventIs
      <3>q. QED
        BY <1>1, <3>2, OneEvent
    <2> HIDE DEF d, e, hit, type
    <2>6. d \o e \in Seq(EventRecord)
      BY <2>4, <2>5, ConcatProperties
    <2>7. SentTypes'
      BY <1>1, <2>1, <2>6, SendTypes
    <2>8. IsStack(CtxStack') /\ GlobalTaintSymbs' \in SUBSET Symbols
      BY <1>2, <1>3, <2>1, <2>2, LocalIs, GlobalIs
    <2>q. QED
      BY <1>2, <2>1, <2>7, <2>8 DEF CtxTypes
  <1>q. QED
    BY <1>4, <1>5, <1>6, <1>7, <1>8

LEMMA CalledTypes ==
    ASSUME CtxTypes, SentTypes, clock' \in Nat, NEW f \in Func, Called(f)
    PROVE  /\ CtxTypes' /\ SentTypes' /\ (status' = status \/ status' = "raised")
  <1> DEFINE none == <<>>
  <1>1. none \in Seq(EventRecord) /\ IsHeld(None)
    BY DEF IsHeld
  <1>2. /\ IsStack(CtxStack) /\ CallCtx \in ContextRecord \cup {None}
        /\ CurCtx \in ContextRecord
    BY StackTop DEF CtxTypes, CurCtx
  <1>3. ASSUME NEW stk
        PROVE  Entry(stk, f) \in EventRecord
    BY EntryIs
  <1>4. CASE f \in Hidden
    <2>1. Send(none, None) /\ UNCHANGED <<CtxStack, CallCtx, GlobalTaintSymbs, status>>
      BY <1>4 DEF Called
    <2> HIDE DEF none
    <2>q. QED
      BY <1>1, <2>1, SendTypes DEF CtxTypes
  <1>5. CASE f \notin Hidden /\ f \in Unnamed
    <2> DEFINE ev == [Entry(CtxStack, CurCtx.FuncDef) EXCEPT
                        !.type = "NR", !.callee = None, !.source = TRUE]
    <2>1. /\ Send(none, None) \/ Send(<<ev>>, None)
          /\ UNCHANGED <<CtxStack, CallCtx, GlobalTaintSymbs, status>>
      BY <1>5 DEF Called
    <2>2. ev \in EventRecord
      <3>1. CurCtx.FuncDef \in Func
        BY <1>2, Assumption DEF Assumption, ContextRecord
      <3>2. Entry(CtxStack, CurCtx.FuncDef) \in EventRecord
        BY <3>1, EntryIs
      <3>q. QED
        BY <3>2 DEF EventRecord
    <2> HIDE DEF ev, none
    <2>3. <<ev>> \in Seq(EventRecord)
      BY <2>2
    <2>4. SentTypes'
      BY <1>1, <2>1, <2>3, SendTypes
    <2>q. QED
      BY <2>1, <2>4 DEF CtxTypes
  <1>6. CASE f \notin Hidden \cup Unnamed /\ CurCtx.CalleeLo # None
    <2> DEFINE push == Pushes(CtxStack, CallCtx, f)
               stk == IF push THEN PushCtx(CtxStack, GlobalTaintSymbs, CallCtx, f) ELSE CtxStack
               ev == [Entry(stk, f) EXCEPT !.fn = Last(stk).FuncDef]
    <2>1. /\ CtxStack' = stk /\ CallCtx' = (IF push THEN None ELSE CallCtx)
          /\ Send(IF push /\ CallCtx # None THEN <<ev>> ELSE none, None)
          /\ UNCHANGED <<GlobalTaintSymbs, status>>
      BY <1>6 DEF Called
    <2>2. IsStack(stk)
      <3>1. push /\ CallCtx = None => f \in Defs
        BY DEF Pushes
      <3>2. push => IsStack(PushCtx(CtxStack, GlobalTaintSymbs, CallCtx, f))
        BY <1>2, <3>1, PushIs
      <3>q. QED
        BY <1>2, <3>2
    <2> HIDE DEF stk, push
    <2>3. ev \in EventRecord
      <3>1. Last(stk).FuncDef \in STRING
        BY <2>2, StackTop, Assumption DEF Assumption, ContextRecord
      <3>q. QED
        BY <1>3, <3>1 DEF EventRecord
    <2> HIDE DEF ev, none
    <2>4. <<ev>> \in Seq(EventRecord)
      BY <2>3
    <2>5. SentTypes'
      BY <1>1, <2>1, <2>4, SendTypes
    <2>q. QED
      BY <1>2, <2>1, <2>2, <2>5 DEF CtxTypes
  <1>7. CASE f \notin Hidden \cup Unnamed /\ ~(CurCtx.CalleeLo # None) /\ f \in Defs
    <2> DEFINE c == [CtxStack[Len(CtxStack)] EXCEPT !.FuncDef = f]
               stk == [CtxStack EXCEPT ![Len(CtxStack)] = c]
               lo == ParamObject(f)
               hit == Touched(stk, GlobalTaintSymbs, lo)
               ev == Entry(stk, f)
               nr == Event("NR", stk, lo, IsSourceFunc(stk))
               d == <<ev>>
               e == IF hit THEN <<nr>> ELSE none
    <2>1. /\ CtxStack' = stk /\ Send(d \o e, None) /\ UNCHANGED <<CallCtx, status>>
          /\ GlobalTaintSymbs' = IF hit THEN GlobalTaintSymbs \cup Class(stk, lo) ELSE GlobalTaintSymbs
      BY <1>7 DEF Called
    <2>2. c \in ContextRecord
      <3>1. CtxStack[Len(CtxStack)] \in ContextRecord
        BY <1>2, StackTop
      <3>q. QED
        BY <1>7, <3>1 DEF ContextRecord
    <2> HIDE DEF c
    <2>7. IsStack(stk)
      BY <1>2, <2>2, SetTop
    <2>8. IsLo(lo)
      BY ParamObjectIs
    <2> HIDE DEF stk, lo
    <2>9. Class(stk, lo) \subseteq Symbols
      BY <2>8 DEF IsLo, Class
    <2>3. nr \in EventRecord /\ ev \in EventRecord
      <3>1. IsSourceFunc(stk) \in BOOLEAN
        BY DEF IsSourceFunc
      <3>q. QED
        BY <1>3, <2>7, <2>8, <3>1, EventIs
    <2> HIDE DEF ev, nr, hit
    <2>4. d \in Seq(EventRecord) /\ e \in Seq(EventRecord)
      BY <1>1, <2>3
    <2> HIDE DEF d, e, none
    <2>5. d \o e \in Seq(EventRecord)
      BY <2>4, ConcatProperties
    <2>6. SentTypes'
      BY <1>1, <2>1, <2>5, SendTypes
    <2>q. QED
      BY <1>2, <2>1, <2>6, <2>7, <2>9 DEF CtxTypes
  <1>8. CASE f \notin Hidden \cup Unnamed \cup Defs /\ ~(CurCtx.CalleeLo # None)
    <2>1. Send(none, None) /\ UNCHANGED <<CtxStack, CallCtx, GlobalTaintSymbs>> /\ status' = "raised"
      BY <1>8 DEF Called
    <2> HIDE DEF none
    <2>q. QED
      BY <1>1, <2>1, SendTypes DEF CtxTypes
  <1>q. QED
    BY <1>4, <1>5, <1>6, <1>7, <1>8

LEMMA FrontIs ==
    ASSUME NEW stk, IsStack(stk), Len(stk) > 1
    PROVE  /\ IsStack(Front(stk)) /\ Len(Front(stk)) = Len(stk) - 1
           /\ \A i \in 1 .. Len(stk) - 1 : Front(stk)[i] = stk[i]
           /\ Last(Front(stk)) = stk[Len(stk) - 1]
  <1> DEFINE n == Len(stk)
  <1>1. n \in Nat \ {0} /\ stk \in Seq(ContextRecord)
    BY StackTop DEF IsStack
  <1>2. Front(stk) = SubSeq(stk, 1, n - 1)
    BY DEF Front
  <1>3. /\ Front(stk) \in Seq(ContextRecord) /\ Len(Front(stk)) = n - 1
        /\ \A i \in 1 .. n - 1 : Front(stk)[i] = stk[i]
    BY <1>1, <1>2
  <1>4. Front(stk) # <<>>
    BY <1>3
  <1> HIDE DEF n
  <1>5. n - 1 \in 1 .. n - 1
    BY <1>1 DEF n
  <1>6. Last(Front(stk)) = stk[n - 1]
    BY <1>3, <1>5 DEF Last
  <1>q. QED
    BY <1>3, <1>4, <1>6 DEF n, IsStack

\* What PopCtx leaves, on the way back to the caller.
Back(stk) == Local(PoppedTo(stk), RetSymb)
BackGlob(stk) == Global(PoppedGlob(stk), RetSymb)

LEMMA BackIs ==
    ASSUME CtxTypes, NEW stk, IsStack(stk)
    PROVE  /\ IsStack(Back(stk)) /\ Len(Back(stk)) = Len(stk)
           /\ \A i \in 1 .. Len(stk) - 1 : Back(stk)[i] = stk[i]
           /\ \E S \in SUBSET Symbols :
                /\ Back(stk)[Len(stk)] = [stk[Len(stk)] EXCEPT !.TaintSymbs = @ \cup S]
                /\ RetSymb \ (Dotted \cup {None}) \subseteq S
                /\ LET lo == stk[Len(stk)].CalleeLo
                   IN  lo # None /\ lo.Callee \in Criteria => {lo.Def} \ (Dotted \cup {None}) \subseteq S
           /\ BackGlob(stk) \in SUBSET Symbols
  <1> DEFINE n == Len(stk)
             lo == Last(stk).CalleeLo
             D == IF lo # None /\ lo.Callee \in Criteria THEN {lo.Def} ELSE {}
             T == D \ (Dotted \cup {None})
             R == RetSymb \ (Dotted \cup {None})
  <1>1. Last(stk) = stk[n] /\ n \in Nat \ {0} /\ (lo # None => lo \in LiveObject)
    BY StackTop DEF ContextRecord
  <1>2. D \in SUBSET (Symbols \cup {None}) /\ T \subseteq Symbols
    BY <1>1 DEF LiveObject
  <1>3. RetSymb \in SUBSET (Symbols \cup {None}) /\ R \subseteq Symbols
    <2>1. CurCtx \in ContextRecord
      BY StackTop DEF CtxTypes, CurCtx
    <2>q. QED
      BY <2>1 DEF RetSymb, ContextRecord
  <1>4. /\ IsStack(PoppedTo(stk)) /\ Len(PoppedTo(stk)) = n
        /\ \A i \in 1 .. n - 1 : PoppedTo(stk)[i] = stk[i]
        /\ PoppedTo(stk)[n] = [stk[n] EXCEPT !.TaintSymbs = @ \cup T]
    <2>1. CASE D = {}
      <3>1. PoppedTo(stk) = stk /\ T = {}
        BY <2>1 DEF PoppedTo
      <3>2. stk[n] \in ContextRecord
        BY StackTop
      <3> HIDE DEF T
      <3>3. stk[n] = [stk[n] EXCEPT !.TaintSymbs = @ \cup T]
        BY <3>1, <3>2 DEF ContextRecord
      <3>q. QED
        BY <3>1, <3>3
    <2>2. CASE D # {}
      <3>1. PoppedTo(stk) = Local(stk, D)
        BY <2>2 DEF PoppedTo
      <3> HIDE DEF D
      <3>q. QED
        BY <1>2, <3>1, LocalIs
    <2>q. QED
      BY <2>1, <2>2
  <1>5. /\ IsStack(Back(stk)) /\ Len(Back(stk)) = n
        /\ \A i \in 1 .. n - 1 : Back(stk)[i] = PoppedTo(stk)[i]
        /\ Back(stk)[n] = [PoppedTo(stk)[n] EXCEPT !.TaintSymbs = @ \cup R]
    <2> DEFINE old == PoppedTo(stk)
               new == Back(stk)
    <2>1. new = Local(old, RetSymb)
      BY DEF Back
    <2> HIDE DEF old, new, n
    <2>2. IsStack(old) /\ Len(old) = n
      BY <1>4 DEF old
    <2>3. LET to == Local(old, RetSymb)
          IN  /\ IsStack(to) /\ Len(to) = Len(old)
              /\ \A i \in 1 .. Len(old) - 1 : to[i] = old[i]
              /\ to[Len(old)] = [old[Len(old)] EXCEPT !.TaintSymbs = @ \cup R]
      BY <1>3, <2>2, LocalIs
    <2>q. QED
      BY <2>1, <2>2, <2>3 DEF old, new
  <1>6. \A i \in 1 .. n - 1 : Back(stk)[i] = stk[i]
    BY <1>4, <1>5
  <1>7. Back(stk)[n] = [stk[n] EXCEPT !.TaintSymbs = @ \cup (T \cup R)]
    <2>1. stk[n] \in ContextRecord
      BY StackTop
    <2> HIDE DEF T, R, n
    <2>q. QED
      BY <1>4, <1>5, <2>1 DEF ContextRecord
  <1>8. T \cup R \in SUBSET Symbols
    BY <1>2, <1>3
  <1>9. BackGlob(stk) \in SUBSET Symbols
    BY GlobalIs DEF BackGlob, PoppedGlob, CtxTypes
  <1>10. lo # None /\ lo.Callee \in Criteria => {lo.Def} \ (Dotted \cup {None}) \subseteq T
    OBVIOUS
  <1>11. R \subseteq T \cup R /\ T \subseteq T \cup R
    OBVIOUS
  <1> HIDE DEF T, R, D
  <1>q. QED
    BY <1>1, <1>5, <1>6, <1>7, <1>8, <1>9, <1>10, <1>11 DEF n, R

LEMMA ReturnedTypes ==
    ASSUME CtxTypes, SentTypes, clock' \in Nat, Returned, UNCHANGED CallCtx
    PROVE  CtxTypes' /\ SentTypes'
  <1> DEFINE none == <<>>
             stk == Front(CtxStack)
  <1>1. none \in Seq(EventRecord) /\ IsHeld(None)
    BY DEF IsHeld
  <1>2. /\ IsStack(CtxStack) /\ CurCtx \in ContextRecord /\ GlobalTaintSymbs \in SUBSET Symbols
        /\ Len(CtxStack) \in Nat
    BY StackTop DEF CtxTypes, CurCtx
  <1>3. RetSymb \in SUBSET (Symbols \cup {None})
    BY <1>2 DEF RetSymb, ContextRecord
  <1>4. CASE CurCtx.Func = "main"
    <2>1. Send(none, None) /\ UNCHANGED <<CtxStack, GlobalTaintSymbs>>
      BY <1>4 DEF Returned
    <2> HIDE DEF none
    <2>q. QED
      BY <1>1, <2>1, SendTypes DEF CtxTypes
  <1>5. CASE CurCtx.Func # "main" /\ Len(CtxStack) <= 1
    <2>1. /\ CtxStack' = Local(CtxStack, RetSymb) /\ Send(none, None)
          /\ GlobalTaintSymbs' = Global(GlobalTaintSymbs, RetSymb)
      BY <1>5 DEF Returned
    <2> HIDE DEF none
    <2>2. IsStack(CtxStack') /\ GlobalTaintSymbs' \in SUBSET Symbols
      BY <1>2, <1>3, <2>1, LocalIs, GlobalIs
    <2>3. SentTypes'
      BY <1>1, <2>1, SendTypes
    <2>q. QED
      BY <2>2, <2>3 DEF CtxTypes
  <1>6. CASE CurCtx.Func # "main" /\ ~(Len(CtxStack) <= 1)
    <2>1. /\ CtxStack' = Back(stk) /\ GlobalTaintSymbs' = BackGlob(stk)
          /\ Send(CallSite(stk), None)
      BY <1>6 DEF Returned, Back, BackGlob
    <2>2. IsStack(stk)
      BY <1>2, <1>6, FrontIs
    <2> HIDE DEF stk, none
    <2>3. IsStack(CtxStack') /\ GlobalTaintSymbs' \in SUBSET Symbols
      BY <2>1, <2>2, BackIs
    <2>4. CallSite(stk) \in Seq(EventRecord)
      <3> DEFINE lo == Last(stk).CalleeLo
                 source == lo.Callee \in Criteria \/ SrcArgs[lo.Callee] # None
                 formals == Actual2Formal(lo, stk, GlobalTaintSymbs)
                 ev == Event("CALL", stk, lo, source)
                 at == [ev EXCEPT !.uses = IF formals = {} THEN <<>> ELSE lo.Uses]
      <3>1. CASE lo = None
        <4>1. CallSite(stk) = none
          BY <3>1 DEF CallSite, none
        <4>q. QED
          BY <1>1, <4>1
      <3>2. CASE lo # None
        <4>1. lo \in LiveObject
          BY <2>2, <3>2, StackTop DEF ContextRecord
        <4>2. IsLo(lo)
          BY <4>1, Assumption DEF IsLo, LiveObject, Assumption
        <4>3. source \in BOOLEAN
          OBVIOUS
        <4>4. CallSite(stk) = <<at>>
          BY <3>2 DEF CallSite
        <4> HIDE DEF source
        <4>5. ev \in EventRecord
          BY <2>2, <4>2, <4>3, EventIs
        <4> HIDE DEF ev
        <4> DEFINE uses == IF formals = {} THEN none ELSE lo.Uses
        <4>6. uses \in Seq(Symbols \cup {None})
          BY <4>2 DEF IsLo, none
        <4>7. at = [ev EXCEPT !.uses = uses]
          BY DEF none
        <4> HIDE DEF at, uses
        <4>8. at \in EventRecord
          BY <4>5, <4>6, <4>7 DEF EventRecord
        <4>q. QED
          BY <4>4, <4>8
      <3>q. QED
        BY <3>1, <3>2
    <2>5. SentTypes'
      BY <1>1, <2>1, <2>4, SendTypes
    <2>q. QED
      BY <2>3, <2>5 DEF CtxTypes
  <1>q. QED
    BY <1>4, <1>5, <1>6

\* Frames at a statement of their function.
Proper == {fr \in FrameRecord : fr.pc \in DOMAIN Body[fr.fn]}
FrameTypes == frames \in [Thread -> Seq(Proper)]

LEMMA TypeParts ==
    TypeOK <=> /\ FrameTypes /\ CtxTypes /\ SentTypes /\ gdirty \subseteq Dotted /\ clock \in Nat
               /\ status \in {"running", "exited", "raised"}
  <1>1. ASSUME FrameTypes
        PROVE  /\ frames \in [Thread -> Seq(FrameRecord)]
               /\ \A t \in Thread : \A i \in DOMAIN frames[t] : frames[t][i].pc \in DOMAIN Body[frames[t][i].fn]
    <2>1. frames \in [Thread -> Seq(Proper)] /\ Proper \subseteq FrameRecord
      BY <1>1 DEF FrameTypes, Proper
    <2>2. \A fr \in Proper : fr.pc \in DOMAIN Body[fr.fn]
      BY DEF Proper
    <2>3. \A t \in Thread : frames[t] \in Seq(FrameRecord)
      <3> HIDE DEF Proper
      <3>q. QED
        BY <2>1, SeqMonotonic
    <2> HIDE DEF Proper
    <2>4. \A t \in Thread : \A i \in DOMAIN frames[t] : frames[t][i] \in Proper
      BY <2>1
    <2>5. \A t \in Thread : \A i \in DOMAIN frames[t] : frames[t][i].pc \in DOMAIN Body[frames[t][i].fn]
      BY <2>2, <2>4
    <2>q. QED
      BY <2>1, <2>3, <2>5
  <1>2. ASSUME /\ frames \in [Thread -> Seq(FrameRecord)]
               /\ \A t \in Thread : \A i \in DOMAIN frames[t] : frames[t][i].pc \in DOMAIN Body[frames[t][i].fn]
        PROVE  FrameTypes
    <2>1. \A t \in Thread : frames[t] \in Seq(Proper)
      <3> TAKE t \in Thread
      <3>1. frames[t] \in Seq(FrameRecord)
        BY <1>2
      <3> DEFINE s == frames[t]
      <3>2. \A i \in DOMAIN s : s[i] \in FrameRecord /\ s[i].pc \in DOMAIN Body[s[i].fn]
        BY <1>2, <3>1
      <3> HIDE DEF s
      <3>3. \A i \in DOMAIN s : s[i] \in Proper
        BY <3>2 DEF Proper
      <3> HIDE DEF Proper
      <3>q. QED
        BY <3>1, <3>3 DEF s
    <2>q. QED
      BY <1>2, <2>1 DEF FrameTypes
  <1>3. SentTypes <=> trace \in Seq(EventRecord) /\ (CacheMsg = None \/ (CacheMsg \in EventRecord /\ CacheMsg.type = "CALL"))
    BY DEF SentTypes, IsHeld
  <1>4. CtxTypes <=> /\ CtxStack \in Seq(ContextRecord) /\ CtxStack # <<>>
                     /\ CallCtx \in ContextRecord \cup {None} /\ GlobalTaintSymbs \subseteq Symbols
    BY DEF CtxTypes, IsStack
  <1>q. QED
    BY <1>1, <1>2, <1>3, <1>4 DEF TypeOK

LEMMA ProperIs ==
    ASSUME NEW fr \in Proper
    PROVE  fr \in FrameRecord /\ IsStatement(Stmt(fr)) /\ fr.fn \in Func
  BY Assumption DEF Proper, FrameRecord, Assumption, Stmt

LEMMA FrIs ==
    ASSUME FrameTypes, NEW t \in Thread, Running(t)
    PROVE  /\ frames[t] \in Seq(Proper) /\ frames[t] # <<>> /\ Len(frames[t]) \in Nat \ {0}
           /\ Fr(t) = frames[t][Len(frames[t])] /\ Fr(t) \in Proper
           /\ Front(frames[t]) \in Seq(Proper) /\ Len(Front(frames[t])) = Len(frames[t]) - 1
           /\ \A i \in 1 .. Len(frames[t]) - 1 : Front(frames[t])[i] = frames[t][i]
  <1> DEFINE s == frames[t]
  <1>1. s \in Seq(Proper) /\ s # <<>>
    BY DEF FrameTypes, Running
  <1> HIDE DEF s
  <1>2. Len(s) \in Nat \ {0} /\ Last(s) = s[Len(s)] /\ s[Len(s)] \in Proper
    BY <1>1 DEF Last
  <1>3. /\ Front(s) \in Seq(Proper) /\ Len(Front(s)) = Len(s) - 1
        /\ \A i \in 1 .. Len(s) - 1 : Front(s)[i] = s[i]
    <2> DEFINE m == Len(s) - 1
    <2>1. m \in Int /\ Len(s) \in Nat /\ \A i \in 1 .. m : i \in 1 .. Len(s)
      BY <1>2
    <2>2. Front(s) = SubSeq(s, 1, m)
      BY DEF Front
    <2> HIDE DEF m
    <2>3. \A i \in 1 .. m : s[i] \in Proper
      BY <1>1, <2>1
    <2>4. SubSeq(s, 1, m) \in Seq(Proper)
      BY <2>1, <2>3, SubSeqProperties
    <2>5. /\ Len(Front(s)) = Len(s) - 1
          /\ \A i \in 1 .. Len(s) - 1 : Front(s)[i] = s[i]
      BY <1>1, SeqIsSeq, FrontLast
    <2>q. QED
      BY <2>2, <2>4, <2>5
  <1>q. QED
    BY <1>1, <1>2, <1>3 DEF s, Fr

LEMMA FramesSet ==
    ASSUME FrameTypes, NEW t \in Thread, NEW s \in Seq(Proper), frames' = [frames EXCEPT ![t] = s]
    PROVE  FrameTypes' /\ frames'[t] = s
  BY DEF FrameTypes

LEMMA WithTopTypes ==
    ASSUME FrameTypes, NEW t \in Thread, Running(t), NEW fr \in Proper, frames' = WithTop(t, fr)
    PROVE  FrameTypes'
  <1> DEFINE s == Append(Front(frames[t]), fr)
  <1>1. s \in Seq(Proper)
    BY FrIs, AppendProperties
  <1>2. frames' = [frames EXCEPT ![t] = s]
    BY DEF WithTop
  <1> HIDE DEF s
  <1>q. QED
    BY <1>1, <1>2, FramesSet

LEMMA FrameIs ==
    ASSUME NEW f \in Func, NEW dirty \in SUBSET DOMAIN ClassOf
    PROVE  Frame(f, dirty) \in Proper /\ [Frame(f, dirty) EXCEPT !.stage = "enter"] \in Proper
  <1>1. Params[f] \in Seq(DOMAIN ClassOf)
    BY Assumption DEF Assumption
  <1>2. Range(Params[f]) \subseteq DOMAIN ClassOf
    BY <1>1 DEF Range
  <1>3. 1 \in DOMAIN Body[f]
    <2>1. Body[f] \in Seq(Range(Body[f])) /\ Body[f] # <<>>
      BY Assumption DEF Assumption
    <2>q. QED
      BY <2>1, EmptySeq
  <1>q. QED
    BY <1>2, <1>3 DEF Frame, Proper, FrameRecord

LEMMA ArgsAre ==
    ASSUME NEW t, NEW f \in Func
    PROVE  Args(t, f) \in SUBSET DOMAIN ClassOf
  <1>1. Params[f] \in Seq(DOMAIN ClassOf)
    BY Assumption DEF Assumption
  <1>q. QED
    BY <1>1 DEF Args

LEMMA LeaveTypes ==
    ASSUME FrameTypes, NEW t \in Thread, Running(t), NEW stage \in {"done", "failed"},
           NEW got \in BOOLEAN, Leave(t, stage, got)
    PROVE  FrameTypes'
  <1> DEFINE b == Front(frames[t])
             n == Len(frames[t])
             fr == [b[n - 1] EXCEPT !.stage = stage, !.got = got]
             s == IF n = 1 THEN <<>> ELSE Append(Front(b), fr)
  <1>1. frames' = [frames EXCEPT ![t] = s]
    BY DEF Leave
  <1>2. n \in Nat \ {0} /\ b \in Seq(Proper) /\ Len(b) = n - 1
    BY FrIs
  <1>3. s \in Seq(Proper)
    <2>1. CASE n = 1
      BY <2>1
    <2>2. CASE n # 1
      <3> HIDE DEF b, n
      <3>1. n - 1 \in 1 .. Len(b) /\ b[n - 1] \in Proper
        BY <1>2, <2>2
      <3>2. fr \in Proper
        BY <3>1 DEF Proper, FrameRecord
      <3>3. Front(b) \in Seq(Proper)
        BY <1>2, <2>2 DEF Front
      <3> HIDE DEF fr
      <3>4. Append(Front(b), fr) \in Seq(Proper)
        BY <3>2, <3>3, AppendProperties
      <3>q. QED
        BY <2>2, <3>4
    <2>q. QED
      BY <2>1, <2>2
  <1> HIDE DEF s
  <1>q. QED
    BY <1>1, <1>3, FramesSet

LEMMA EnterTypes ==
    ASSUME FrameTypes, NEW t \in Thread, NEW f \in Func, Enter(t, f)
    PROVE  FrameTypes'
  <1> DEFINE old == [Fr(t) EXCEPT !.stage = "done"]
             fr == Frame(f, Args(t, f))
             b == Append(Front(frames[t]), old)
             s == Append(b, fr)
  <1>1. Running(t) /\ frames' = [frames EXCEPT ![t] = s]
    BY DEF Enter, AtStage, Fr
  <1>2. Front(frames[t]) \in Seq(Proper) /\ Fr(t) \in Proper
    BY <1>1, FrIs
  <1>3. old \in Proper
    BY <1>2 DEF Proper, FrameRecord
  <1>4. fr \in Proper
    BY ArgsAre, FrameIs
  <1> HIDE DEF old, fr
  <1>5. s \in Seq(Proper)
    BY <1>2, <1>3, <1>4, AppendProperties
  <1> HIDE DEF s
  <1>q. QED
    BY <1>1, <1>5, FramesSet

LEMMA GotoTypes ==
    ASSUME NEW fr \in Proper, NEW pc
    PROVE  Goto(fr, pc) \in Proper
  <1>1. fr \in FrameRecord /\ fr.fn \in Func /\ Body[fr.fn] \in Seq(Range(Body[fr.fn]))
    BY Assumption DEF Proper, FrameRecord, Assumption
  <1>2. CASE pc \in DOMAIN Body[fr.fn]
    <2>1. pc \in Nat
      BY <1>1, <1>2
    <2>q. QED
      BY <1>1, <1>2, <2>1 DEF Goto, Proper, FrameRecord
  <1>3. CASE pc \notin DOMAIN Body[fr.fn]
    BY <1>1, <1>3 DEF Goto, Proper, FrameRecord
  <1>q. QED
    BY <1>2, <1>3

LEMMA EffectTypes ==
    ASSUME NEW fr \in Proper
    PROVE  Effect(fr, Stmt(fr)) \in Proper /\ Effect(fr, Stmt(fr)).fn = fr.fn /\ Effect(fr, Stmt(fr)).pc = fr.pc
  <1> DEFINE defs == Range(Stmt(fr).def)
  <1>1. defs \subseteq Name
    <2>1. Stmt(fr).def \in Seq(Name)
      BY ProperIs DEF IsStatement
    <2>q. QED
      BY <2>1 DEF Range
  <1>2. defs \ Dotted \subseteq DOMAIN ClassOf
    BY <1>1 DEF Name
  <1>3. PICK bound, dirty :
           /\ Effect(fr, Stmt(fr)) = [fr EXCEPT !.bound = bound, !.got = FALSE, !.dirty = dirty]
           /\ bound = fr.bound \cup (defs \ Dotted)
           /\ dirty = fr.dirty \cup (defs \ Dotted) \/ dirty = fr.dirty \ defs
    BY DEF Effect
  <1> HIDE DEF defs
  <1>4. bound \subseteq DOMAIN ClassOf /\ dirty \subseteq DOMAIN ClassOf
    BY <1>2, <1>3 DEF Proper, FrameRecord
  <1> DEFINE to == [fr EXCEPT !.bound = bound, !.got = FALSE, !.dirty = dirty]
  <1>5. to \in FrameRecord
    BY <1>4 DEF Proper, FrameRecord
  <1>6. to.fn = fr.fn /\ to.pc = fr.pc /\ fr.pc \in DOMAIN Body[fr.fn]
    BY DEF Proper, FrameRecord
  <1> HIDE DEF to
  <1>7. to \in Proper
    BY <1>5, <1>6 DEF Proper
  <1>q. QED
    BY <1>3, <1>6, <1>7 DEF to

LEMMA CompleteTypes ==
    ASSUME FrameTypes, gdirty \subseteq Dotted, NEW t \in Thread, Complete(t)
    PROVE  FrameTypes' /\ gdirty' \subseteq Dotted
  <1> DEFINE fr == Fr(t)
             st == Stmt(fr)
             after == Effect(fr, st)
             defs == Range(st.def) \cap Dotted
  <1>1. Running(t) /\ fr \in Proper
    BY FrIs DEF Complete
  <1>2. gdirty' \subseteq Dotted
    <2>1. gdirty' = gdirty \cup defs \/ gdirty' = gdirty \ defs
      BY DEF Complete
    <2>q. QED
      BY <2>1
  <1>3. PICK next :
           /\ \/ \E got \in BOOLEAN : next = [after EXCEPT !.stage = "leave", !.got = got]
              \/ \E pc : next = Goto(after, pc)
           /\ IF st.spawns = None THEN frames' = WithTop(t, next)
              ELSE \E u \in Thread \ {t} :
                     frames' = [WithTop(t, next) EXCEPT ![u] = <<[Frame(st.spawns, {}) EXCEPT !.stage = "enter"]>>]
    <2> DEFINE got == ReadsDirty(fr, st)
    <2>1. PICK next \in (IF st.op = "return"
                         THEN {[after EXCEPT !.stage = "leave", !.got = got]}
                         ELSE {Goto(after, pc) : pc \in {fr.pc + 1} \cup (IF st.op = "if" THEN {st.to} ELSE {})}) :
              IF st.spawns = None THEN frames' = WithTop(t, next)
              ELSE \E u \in Thread \ {t} :
                     frames' = [WithTop(t, next) EXCEPT ![u] = <<[Frame(st.spawns, {}) EXCEPT !.stage = "enter"]>>]
      BY DEF Complete
    <2>2. got \in BOOLEAN
      BY DEF ReadsDirty
    <2> HIDE DEF after, st, got
    <2>q. QED
      BY <2>1, <2>2
  <1>4. after \in Proper
    BY <1>1, EffectTypes
  <1>5. next \in Proper
    <2> HIDE DEF after
    <2>1. ASSUME NEW got \in BOOLEAN, next = [after EXCEPT !.stage = "leave", !.got = got]
          PROVE  next \in Proper
      BY <1>4, <2>1 DEF Proper, FrameRecord
    <2>2. ASSUME NEW pc, next = Goto(after, pc)
          PROVE  next \in Proper
      BY <1>4, <2>2, GotoTypes
    <2>q. QED
      BY <1>3, <2>1, <2>2
  <1>6. CASE frames' = WithTop(t, next)
    BY <1>1, <1>2, <1>5, <1>6, WithTopTypes
  <1>7. CASE st.spawns # None
    <2> DEFINE first == [Frame(st.spawns, {}) EXCEPT !.stage = "enter"]
               s == Append(Front(frames[t]), next)
    <2>1. PICK u \in Thread \ {t} : frames' = [WithTop(t, next) EXCEPT ![u] = <<first>>]
      BY <1>3, <1>7
    <2>2. first \in Proper
      <3>1. st.spawns \in Func
        BY <1>1, <1>7, ProperIs DEF IsStatement
      <3>q. QED
        BY <3>1, FrameIs
    <2>3. s \in Seq(Proper)
      BY <1>1, <1>5, FrIs, AppendProperties
    <2> HIDE DEF first, s
    <2>4. <<first>> \in Seq(Proper)
      BY <2>2
    <2>5. frames' = [v \in Thread |-> IF v = u THEN <<first>> ELSE IF v = t THEN s ELSE frames[v]]
      BY <2>1 DEF WithTop, FrameTypes, s
    <2>6. FrameTypes'
      BY <2>3, <2>4, <2>5 DEF FrameTypes
    <2>q. QED
      BY <1>2, <2>6
  <1>q. QED
    BY <1>3, <1>6, <1>7

TypeInv ==
    /\ FrameTypes /\ CtxTypes /\ SentTypes /\ gdirty \subseteq Dotted /\ clock \in Nat
    /\ status \in {"running", "exited", "raised"}

LEMMA LineTypes ==
    ASSUME TypeInv, NEW t \in Thread, LineEvent(t)
    PROVE  TypeInv'
  <1> DEFINE fr == Fr(t)
             st == Stmt(fr)
             lo == LineObject(fr, st)
             to == [fr EXCEPT !.stage = "run", !.begun = TRUE]
  <1>1. /\ Running(t) /\ clock' = clock + 1 /\ frames' = WithTop(t, to) /\ UNCHANGED <<gdirty, status>>
        /\ \/ LineIgnored(lo) \/ LineKnownCall(lo) \/ LineForeignCall(lo)
           \/ LineReturn(lo) \/ LineOther(fr, lo)
    BY DEF LineEvent, OnLine, AtStage
  <1>2. fr \in Proper /\ fr \in FrameRecord /\ IsStatement(st)
    BY <1>1, FrIs, ProperIs DEF TypeInv
  <1>3. IsLo(lo) /\ (lo.Callee \in Defs => lo \in LiveObject)
    BY <1>2, LineObjectIs
  <1>4. clock' \in Nat
    BY <1>1 DEF TypeInv
  <1>5. to \in Proper
    BY <1>2 DEF Proper, FrameRecord
  <1> HIDE DEF to, lo, fr
  <1>6. CtxTypes' /\ SentTypes'
    BY <1>1, <1>3, <1>4, LineCtxTypes DEF TypeInv
  <1>7. FrameTypes'
    BY <1>1, <1>5, WithTopTypes DEF TypeInv
  <1>q. QED
    BY <1>1, <1>4, <1>6, <1>7 DEF TypeInv

LEMMA InitTypes ==
    ASSUME Init
    PROVE  TypeInv
  <1> DEFINE first == Frame(Top, {})
             ctx == Context(Top, None)
             none == <<>>
  <1>1. first \in Proper
    <2>1. Top \in Func /\ {} \in SUBSET DOMAIN ClassOf
      BY Assumption DEF Assumption
    <2>q. QED
      BY <2>1, FrameIs
  <1>2. ctx \in ContextRecord
    BY ContextIs
  <1>3. /\ frames = [t \in Thread |-> IF t = Main THEN <<first>> ELSE none]
        /\ CtxStack = <<ctx>>
        /\ gdirty = {} /\ clock = 0 /\ CallCtx = None /\ GlobalTaintSymbs = {} /\ CacheMsg = None
        /\ status = "running"
        /\ trace = <<[type |-> "FENTRY", fn |-> Top, line |-> 0, callee |-> Top, def |-> None,
                      uses |-> none, source |-> FALSE, at |-> 0]>>
    BY DEF Init
  <1>4. none \in Seq(Symbols \cup {None}) /\ none \in Seq(Proper) /\ Top \in STRING
    <2>1. Top \in STRING
      BY Assumption DEF Assumption
    <2>2. none \in Seq(Symbols \cup {None}) /\ none \in Seq(Proper)
      BY EmptySeq
    <2>q. QED
      BY <2>1, <2>2
  <1> HIDE DEF first, ctx, none
  <1>5. FrameTypes
    BY <1>1, <1>3, <1>4 DEF FrameTypes
  <1>6. CtxTypes
    BY <1>2, <1>3 DEF CtxTypes, IsStack
  <1>7. SentTypes
    <2> DEFINE ev == [type |-> "FENTRY", fn |-> Top, line |-> 0, callee |-> Top, def |-> None,
                      uses |-> none, source |-> FALSE, at |-> 0]
    <2>1. ev \in EventRecord
      BY <1>4 DEF EventRecord
    <2>2. trace = <<ev>>
      BY <1>3
    <2> HIDE DEF ev
    <2>3. trace \in Seq(EventRecord)
      BY <2>1, <2>2, OneEvent
    <2>4. CacheMsg = None
      BY <1>3
    <2>q. QED
      BY <2>3, <2>4 DEF SentTypes, IsHeld
  <1>q. QED
    BY <1>3, <1>5, <1>6, <1>7 DEF TypeInv

LEMMA StepTypes ==
    ASSUME TypeInv, [Next]_vars
    PROVE  TypeInv'
  <1> DEFINE none == <<>>
  <1>0. /\ FrameTypes /\ CtxTypes /\ SentTypes /\ gdirty \subseteq Dotted /\ clock \in Nat
        /\ status \in {"running", "exited", "raised"} /\ none \in Seq(EventRecord) /\ IsHeld(None)
    BY DEF TypeInv, IsHeld
  <1> HIDE DEF none
  <1>1. ASSUME NEW t \in Thread, LineEvent(t)
        PROVE  TypeInv'
    BY <1>1, LineTypes
  <1>2. ASSUME NEW t \in Thread, CallEvent(t)
        PROVE  TypeInv'
    <2>1. PICK f \in Func : Enter(t, f) /\ Called(f)
      BY <1>2 DEF CallEvent
    <2>2. FrameTypes' /\ UNCHANGED <<gdirty, clock>>
      BY <1>0, <2>1, EnterTypes DEF Enter
    <2>3. clock' \in Nat
      BY <1>0, <2>2
    <2>4. CtxTypes' /\ SentTypes' /\ (status' = status \/ status' = "raised")
      BY <1>0, <2>1, <2>3, CalledTypes
    <2>q. QED
      BY <1>0, <2>2, <2>3, <2>4 DEF TypeInv
  <1>3. ASSUME NEW t \in Thread, StartEvent(t)
        PROVE  TypeInv'
    <2> DEFINE to == [Fr(t) EXCEPT !.stage = "line"]
    <2>1. Running(t) /\ frames' = WithTop(t, to) /\ UNCHANGED <<gdirty, clock>> /\ Called(Fr(t).fn)
      BY <1>3 DEF StartEvent, AtStage
    <2>2. to \in Proper /\ Fr(t).fn \in Func
      <3>1. Fr(t) \in Proper /\ Fr(t).fn \in Func
        BY <1>0, <2>1, FrIs, ProperIs
      <3>q. QED
        BY <3>1 DEF Proper, FrameRecord
    <2> HIDE DEF to
    <2>3. clock' \in Nat /\ FrameTypes'
      BY <1>0, <2>1, <2>2, WithTopTypes
    <2>4. CtxTypes' /\ SentTypes' /\ (status' = status \/ status' = "raised")
      BY <1>0, <2>1, <2>2, <2>3, CalledTypes
    <2>q. QED
      BY <1>0, <2>1, <2>3, <2>4 DEF TypeInv
  <1>4. ASSUME NEW t \in Thread, ReturnEvent(t) \/ RaiseEvent(t)
        PROVE  TypeInv'
    <2>1. /\ Running(t) /\ UNCHANGED <<gdirty, clock, CallCtx, status>> /\ Returned
          /\ Leave(t, "done", Fr(t).got) \/ Leave(t, "failed", FALSE)
      BY <1>4 DEF ReturnEvent, RaiseEvent, AtStage
    <2>2. Fr(t).got \in BOOLEAN /\ FALSE \in BOOLEAN
      BY <1>0, <2>1, FrIs DEF Proper, FrameRecord
    <2>3. FrameTypes'
      BY <1>0, <2>1, <2>2, LeaveTypes
    <2>4. clock' \in Nat
      BY <1>0, <2>1
    <2>5. CtxTypes' /\ SentTypes'
      BY <1>0, <2>1, <2>4, ReturnedTypes
    <2>q. QED
      BY <1>0, <2>1, <2>3, <2>4, <2>5 DEF TypeInv
  <1>5. ASSUME NEW t \in Thread, Complete(t)
        PROVE  TypeInv'
    <2>1. FrameTypes' /\ gdirty' \subseteq Dotted
      BY <1>0, <1>5, CompleteTypes
    <2>2. UNCHANGED <<clock, CtxStack, CallCtx, GlobalTaintSymbs, CacheMsg, trace, status>>
      BY <1>5 DEF Complete, inspector
    <2>q. QED
      BY <1>0, <2>1, <2>2 DEF TypeInv, CtxTypes, SentTypes
  <1>6. ASSUME NEW t \in Thread, Catch(t)
        PROVE  TypeInv'
    <2> DEFINE to == Goto(Fr(t), Fr(t).pc + 1)
    <2>1. /\ Running(t) /\ frames' = WithTop(t, to)
          /\ UNCHANGED <<gdirty, clock, CtxStack, CallCtx, GlobalTaintSymbs, CacheMsg, trace, status>>
      BY <1>6 DEF Catch, AtStage, inspector
    <2>2. to \in Proper
      BY <1>0, <2>1, FrIs, GotoTypes
    <2> HIDE DEF to
    <2>3. FrameTypes'
      BY <1>0, <2>1, <2>2, WithTopTypes
    <2>q. QED
      BY <1>0, <2>1, <2>3 DEF TypeInv, CtxTypes, SentTypes
  <1>7. ASSUME NEW t \in Thread, CTraces(t)
        PROVE  TypeInv'
    <2> DEFINE to == [Fr(t) EXCEPT !.stage = "done"]
               uses == <<>>
               ev == [type |-> "C", fn |-> Stmt(Fr(t)).callee, line |-> 0, callee |-> None,
                      def |-> None, uses |-> uses, source |-> FALSE, at |-> clock]
    <2>1. /\ Running(t) /\ frames' = WithTop(t, to) /\ trace' = Append(trace, ev)
          /\ UNCHANGED <<gdirty, clock, CtxStack, CallCtx, GlobalTaintSymbs, CacheMsg, status>>
      BY <1>7 DEF CTraces, AtStage
    <2>2. to \in Proper
      <3>1. Fr(t) \in Proper
        BY <1>0, <2>1, FrIs
      <3>q. QED
        BY <3>1 DEF Proper, FrameRecord
    <2>3. uses \in Seq(Symbols \cup {None}) /\ Stmt(Fr(t)).callee \in STRING \cup {None}
      BY <1>0, <2>1, FrIs, ProperIs DEF IsStatement
    <2> HIDE DEF to, uses
    <2>4. ev \in EventRecord
      BY <1>0, <2>3 DEF EventRecord
    <2> HIDE DEF ev
    <2>5. SentTypes'
      BY <1>0, <2>1, <2>4, AppendProperties DEF SentTypes
    <2>6. FrameTypes'
      BY <1>0, <2>1, <2>2, WithTopTypes
    <2>q. QED
      BY <1>0, <2>1, <2>5, <2>6 DEF TypeInv, CtxTypes
  <1>8. CASE Exit
    <2>1. /\ Send(none, None) /\ status' = "exited"
          /\ UNCHANGED <<frames, gdirty, clock, CtxStack, CallCtx, GlobalTaintSymbs>>
      BY <1>8 DEF Exit, program, none
    <2>2. SentTypes'
      BY <1>0, <2>1, SendTypes
    <2>q. QED
      BY <1>0, <2>1, <2>2 DEF TypeInv, CtxTypes, FrameTypes
  <1>9. CASE UNCHANGED vars
    BY <1>0, <1>9 DEF vars, program, inspector, TypeInv, CtxTypes, SentTypes, FrameTypes
  <1>q. QED
    BY <1>1, <1>2, <1>3, <1>4, <1>5, <1>6, <1>7, <1>8, <1>9 DEF Next, Tracing

\* For all programs, whatever happens in them: the stack of contexts is never empty, its
\* contexts are of functions that have a definition, the symbols held are names and
\* classes of the program, and events are well formed.
THEOREM InspectorTypes == Spec => []TypeOK
  <1>1. TypeInv <=> TypeOK
    BY TypeParts DEF TypeInv
  <1>q. QED
    BY <1>1, InitTypes, StepTypes, PTL DEF Spec
-----------------------------------------------------------------------------
(***************************************************************************)
(* Frames and contexts in step.  The invariant is about programs in which  *)
(* nothing happens that the inspector does not provide for.  Frames below  *)
(* the top are at a call the context knows, so that what it keeps of the   *)
(* call fits what returns; the frame on top is described stage by stage:   *)
(* a call is prepared for what is entered next, a statement that ran has   *)
(* its result held, a value that is returned is known to be tainted.       *)
(***************************************************************************)
\* What a call defines, as its context keeps it.
DefOf(st) == IF st.def = <<>> THEN None ELSE st.def[1]

\* The symbols st defines are held tainted.
Keeps(st, ctx, glob) ==
    \A s \in Range(st.def) : s \in glob \/ (s \notin Dotted /\ s \in ctx.TaintSymbs)

\* Of the arguments of st some is dirty, gd being the dirty attributes.
SomeDirty(fr, gd) ==
    \E i \in DOMAIN Passed(Stmt(fr)) : Passed(Stmt(fr))[i] \in fr.dirty \cup gd

\* The parameters of the callee that are dirty when it is entered.
Given(fr, gd) ==
    LET st == Stmt(fr)
        f == st.callee
    IN  {Params[f][i] : i \in {j \in DOMAIN Params[f] :
           /\ j \in DOMAIN Passed(st)
           /\ \/ Passed(st)[j] \in fr.dirty \cup gd
              \/ SrcArgs[f] # None /\ SrcArgs[f][j]}}

\* A context is that of a frame and holds what is dirty in it.
InStep(fr, ctx, glob) ==
    /\ ctx.Func = fr.fn /\ ctx.FuncDef = fr.fn
    /\ fr.dirty \subseteq ctx.TaintSymbs \cup glob

\* A frame is at a call of f, and its context knows.
Calls(fr, ctx, f) ==
    /\ Must(Stmt(fr)) /\ Stmt(fr).callee = f
    /\ Len(Stmt(fr).def) <= 1
    /\ ctx.CalleeLo # None /\ ctx.CalleeLo.Callee = f
    /\ ctx.CalleeLo.Def = DefOf(Stmt(fr))

\* The context of the call of f that fr is at is prepared.
Prepared(fr, call, f) ==
    /\ call # None /\ call.Func = f /\ call.FuncDef = f
    /\ call.Ret = DefOf(Stmt(fr))
    /\ f \in Hidden => f # fr.fn

\* A frame of a decorated function before its first line has no context yet.
Early(fr) == fr.fn \in Hidden /\ ~fr.begun
Synced(fs) == IF Early(fs[Len(fs)]) THEN Len(fs) - 1 ELSE Len(fs)

\* The frame that runs, with its context, by stages.
OnTop(fr, stk, call, glob, gd) ==
    LET ctx == stk[Len(stk)]
        st == Stmt(fr)
    IN  /\ fr.stage # "enter"
        /\ fr.stage \in {"line", "run", "failed"} => ~fr.got
        /\ fr.stage # "line" => fr.begun
        /\ fr.stage = "run" /\ Must(st) =>
             /\ Calls(fr, ctx, st.callee) /\ Prepared(fr, call, st.callee)
             /\ Given(fr, gd) \subseteq Actual2Formal(ctx.CalleeLo, stk, glob)
        /\ fr.stage \in {"run", "done"} /\ ~Must(st) =>
             /\ st.callee \in Criteria \/ SomeDirty(fr, gd) => Keeps(st, ctx, glob)
             /\ st.op = "return" /\ SomeDirty(fr, gd) => ctx.RetTaint
        /\ fr.stage = "done" /\ Must(st) /\ (fr.got \/ st.callee \in Criteria) => Keeps(st, ctx, glob)
        /\ fr.stage = "leave" /\ fr.got => ctx.RetTaint

\* Frames and contexts are in step: fs the frames, gd the dirty attributes, stk, call and
\* glob the contexts, the context prepared and the global symbols of the inspector.
InSync(fs, stk, call, glob, gd) ==
    LET n == Len(fs)
        m == Synced(fs)
    IN  /\ Len(stk) = m
        /\ gd \subseteq glob
        /\ \A i \in 1 .. m : InStep(fs[i], stk[i], glob)
        /\ \A i \in 1 .. n - 1 : Calls(fs[i], stk[i], fs[i + 1].fn) /\ fs[i].begun
        /\ \A i \in 1 .. m - 1 : stk[i + 1].Ret = DefOf(Stmt(fs[i]))
        /\ OnTop(fs[n], stk, call, glob, gd)
        /\ m = n - 1 =>
             /\ Prepared(fs[m], call, fs[n].fn)
             /\ fs[n].dirty \subseteq Actual2Formal(stk[m].CalleeLo, stk, glob)

SyncInv ==
    mishap = {} /\ frames[Main] # <<>> =>
        InSync(frames[Main], CtxStack, CallCtx, GlobalTaintSymbs, gdirty)
-----------------------------------------------------------------------------
\* A line without mishaps.
Plain(fr, st, gd) ==
    /\ Len(Actuals(st) \o st.use) <= MaxUses
    /\ Len(st.def) <= 1 /\ \A i \in DOMAIN st.def : RealDef(fr, st.def[i]) = st.def[i]
    /\ st.via = "object" => st.recv \notin fr.dirty \cup gd
    /\ st.spawns = None
PlainCall(fr, st, gd) ==
    /\ Must(st) /\ st.via # "module" /\ None \notin Range(st.use)
    /\ SrcArgs[st.callee] # None => \A i \in DOMAIN Passed(st) :
          Passed(st)[i] \in fr.dirty \cup gd => SrcArgs[st.callee][i]
    /\ st.callee \in Hidden => st.callee # fr.fn
    /\ st.def # <<>> \/ Uses(st) # <<>>
PlainFirst(fr, st) ==
    /\ st.callee = None /\ st.op # "return" /\ fr.fn \notin Methods
    /\ st.def # <<>> \/ Uses(st) # <<>>

LEMMA NoMishaps ==
    ASSUME NEW fr, NEW st, IsStatement(st), Mishaps(fr, st) = {}
    PROVE  /\ Plain(fr, st, gdirty)
           /\ Known(st) => PlainCall(fr, st, gdirty)
           /\ Early(fr) => PlainFirst(fr, st)
  <1>1. Len(Actuals(st) \o st.use) <= MaxUses
    <2>1. ~(Len(Actuals(st) \o st.use) > MaxUses)
      BY DEF Mishaps
    <2>2. Len(Actuals(st) \o st.use) \in Nat
      <3>1. Actuals(st) \in Seq(Symbols \cup {None}) /\ st.use \in Seq(Name \cup {None})
        BY ActualsIs DEF IsStatement
      <3>2. st.use \in Seq(Symbols \cup {None})
        BY <3>1, SeqMonotonic DEF Symbols
      <3>q. QED
        BY <3>1, <3>2, ConcatProperties
    <2>q. QED
      BY <2>1, <2>2 DEF MaxUses
  <1>2. Len(st.def) <= 1
    <2>1. ~(Len(st.def) > 1)
      BY DEF Mishaps
    <2>2. Len(st.def) \in Nat
      BY DEF IsStatement
    <2>q. QED
      BY <2>1, <2>2
  <1>3. /\ \A i \in DOMAIN st.def : RealDef(fr, st.def[i]) = st.def[i]
        /\ st.via = "object" => st.recv \notin fr.dirty \cup gdirty
    BY DEF Mishaps, Reads
  <1>4. st.spawns = None
    BY DEF Mishaps
  <1>5. ASSUME Known(st)
        PROVE  PlainCall(fr, st, gdirty)
    <2>1. Must(st)
      BY <1>5 DEF Mishaps
    <2>2. st.via # "module" /\ None \notin Range(st.use)
      BY <1>5 DEF Mishaps
    <2>3. SrcArgs[st.callee] # None => \A i \in DOMAIN Passed(st) :
             Passed(st)[i] \in fr.dirty \cup gdirty => SrcArgs[st.callee][i]
      <3>1. ~(/\ Known(st) /\ SrcArgs[st.callee] # None
              /\ \E i \in DOMAIN Passed(st) : Reads(fr, Passed(st)[i]) /\ ~SrcArgs[st.callee][i])
        BY DEF Mishaps
      <3>q. QED
        BY <1>5, <3>1 DEF Reads
    <2>4. st.callee \in Hidden => st.callee # fr.fn
      BY <1>5 DEF Mishaps
    <2>5. st.def # <<>> \/ Uses(st) # <<>>
      BY <1>5 DEF Mishaps
    <2>q. QED
      BY <2>1, <2>2, <2>3, <2>4, <2>5 DEF PlainCall
  <1>6. ASSUME Early(fr)
        PROVE  PlainFirst(fr, st)
    BY <1>6 DEF Mishaps, PlainFirst, Early
  <1>q. QED
    BY <1>1, <1>2, <1>3, <1>4, <1>5, <1>6 DEF Plain

LEMMA KeepsIs ==
    ASSUME NEW st, IsStatement(st), Len(st.def) <= 1, NEW ctx, NEW glob,
           {DefOf(st)} \ (Dotted \cup {None}) \subseteq ctx.TaintSymbs,
           {DefOf(st)} \cap Dotted \subseteq glob
    PROVE  Keeps(st, ctx, glob)
  <1>1. st.def \in Seq(Name)
    BY DEF IsStatement
  <1>2. ASSUME NEW s \in Range(st.def)
        PROVE  s = DefOf(st) /\ s # None
    <2>1. PICK i \in DOMAIN st.def : s = st.def[i]
      BY <1>2 DEF Range
    <2>2. i = 1 /\ st.def # <<>>
      BY <1>1, <2>1
    <2>3. s \in Name
      BY <1>1, <2>1
    <2>q. QED
      BY <2>1, <2>2, <2>3, Assumption DEF DefOf, Assumption
  <1>q. QED
    BY <1>2 DEF Keeps

\* What a line reads is seen in its uses.
LEMMA DirtyTouches ==
    ASSUME NEW fr \in Proper, NEW gd \in SUBSET Dotted, Plain(fr, Stmt(fr), gd), SomeDirty(fr, gd),
           NEW stk, NEW glob, NEW lo, lo.Uses = Uses(Stmt(fr)),
           fr.dirty \subseteq Last(stk).TaintSymbs \cup glob, gd \subseteq glob
    PROVE  /\ Touched(stk, glob, lo)
           /\ Stmt(fr).op = "return" => lo.Uses # <<>> /\ IsInTainted(stk, glob, lo.Uses[1])
           /\ lo.Uses # <<>>
  <1> DEFINE st == Stmt(fr)
  <1>1. IsStatement(st) /\ fr \in FrameRecord
    BY ProperIs
  <1>2. PICK i \in DOMAIN Passed(st) : Passed(st)[i] \in fr.dirty \cup gd
    BY DEF SomeDirty
  <1> DEFINE s == Passed(st)[i]
  <1> HIDE DEF st
  <1>3. s \in Name /\ s # None /\ s \in Last(stk).TaintSymbs \cup glob
    <2>1. fr.dirty \subseteq DOMAIN ClassOf
      BY <1>1 DEF FrameRecord
    <2>q. QED
      BY <1>2, <2>1, Assumption DEF Assumption, Name
  <1>4. PICK j \in DOMAIN st.use : s = st.use[j]
    <2>1. \/ st.via = "object" /\ s = st.recv
          \/ \E j \in DOMAIN st.use : s = st.use[j]
      BY <1>1, <1>2, PassedIs
    <2>2. st.via = "object" => st.recv \notin fr.dirty \cup gd
      BY DEF Plain, st
    <2>q. QED
      BY <1>2, <2>1, <2>2
  <1>5. Len(Actuals(st) \o st.use) <= MaxUses
    BY DEF Plain, st
  <1>6. \E k \in DOMAIN Uses(st) : Uses(st)[k] = s
    BY <1>1, <1>3, <1>4, <1>5, UsesCover
  <1>7. lo.Uses = Uses(st)
    BY DEF st
  <1> HIDE DEF s
  <1>8. Touched(stk, glob, lo)
    BY <1>3, <1>6, <1>7 DEF Touched, IsInTainted
  <1>9. lo.Uses # <<>>
    BY <1>6, <1>7
  <1>10. ASSUME st.op = "return"
         PROVE  IsInTainted(stk, glob, lo.Uses[1])
    <2>1. st.callee = None /\ Len(st.use) <= 1 /\ st.via = "name" /\ st.use \in Seq(Name \cup {None})
      BY <1>1, <1>10 DEF IsStatement
    <2>2. j = 1 /\ Len(st.use) = 1
      <3> DEFINE n == Len(st.use)
      <3>1. n \in Nat /\ DOMAIN st.use = 1 .. n
        BY <2>1, LenProperties
      <3>2. j \in 1 .. n /\ n <= 1
        BY <1>4, <2>1, <3>1
      <3> HIDE DEF n
      <3>3. j = 1 /\ n = 1
        BY <3>1, <3>2
      <3>q. QED
        BY <3>3 DEF n
    <2>3. Uses(st)[1] = st.use[1]
      BY <1>1, <1>3, <1>4, <1>5, <2>1, <2>2, UsesCover
    <2>4. lo.Uses[1] = s
      BY <1>4, <1>7, <2>2, <2>3
    <2>q. QED
      BY <1>3, <2>4 DEF IsInTainted
  <1>q. QED
    BY <1>8, <1>9, <1>10 DEF st
-----------------------------------------------------------------------------
\* The frames of a thread after its top frame changed.
LEMMA TopIs ==
    ASSUME FrameTypes, NEW t \in Thread, Running(t), NEW to \in Proper, frames' = WithTop(t, to)
    PROVE  LET fs == frames[t]
               gs == frames'[t]
           IN  /\ gs \in Seq(Proper) /\ gs # <<>> /\ Len(gs) = Len(fs) /\ gs[Len(fs)] = to
               /\ \A i \in 1 .. Len(fs) - 1 : gs[i] = fs[i]
  <1> DEFINE b == Front(frames[t])
             n == Len(frames[t])
             gs == Append(b, to)
  <1>1. /\ b \in Seq(Proper) /\ Len(b) = n - 1 /\ n \in Nat \ {0}
        /\ \A i \in 1 .. n - 1 : b[i] = frames[t][i]
    BY FrIs
  <1>2. frames' = [frames EXCEPT ![t] = gs]
    BY DEF WithTop
  <1> HIDE DEF b, n
  <1>3. gs \in Seq(Proper) /\ Len(gs) = Len(b) + 1
    BY <1>1, AppendProperties
  <1>4. \A i \in 1 .. Len(b) + 1 : gs[i] = IF i <= Len(b) THEN b[i] ELSE to
    BY <1>1, AppendProperties
  <1> HIDE DEF gs
  <1>5. Len(b) + 1 = n /\ n \in 1 .. n /\ ~(n <= n - 1) /\ n # 0
    BY <1>1
  <1>6. gs[n] = to /\ Len(gs) = n /\ gs # <<>>
    BY <1>1, <1>3, <1>4, <1>5
  <1>7. \A i \in 1 .. n - 1 : gs[i] = frames[t][i]
    <2>1. \A i \in 1 .. n - 1 : i \in 1 .. n /\ i <= n - 1
      BY <1>1
    <2>q. QED
      BY <1>1, <1>4, <1>5, <2>1
  <1>8. frames'[t] = gs
    BY <1>2, <1>3, FramesSet
  <1>q. QED
    BY <1>3, <1>6, <1>7, <1>8 DEF n

\* The frame on top and its context change, nothing else does.
LEMMA TopSynced ==
    ASSUME NEW fs, NEW gs, NEW n \in Nat \ {0}, Len(fs) = n, Len(gs) = n,
           \A i \in 1 .. n - 1 : gs[i] = fs[i],
           gs[n].fn = fs[n].fn, ~Early(fs[n]), ~Early(gs[n]),
           NEW stk, NEW stk2, NEW call, NEW call2, NEW glob, NEW glob2, NEW gd, NEW gd2,
           Len(stk2) = n, \A i \in 1 .. n - 1 : stk2[i] = stk[i],
           stk2[n].Func = stk[n].Func, stk2[n].FuncDef = stk[n].FuncDef, stk2[n].Ret = stk[n].Ret,
           glob \subseteq glob2, gd2 \subseteq glob2,
           gs[n].dirty \subseteq stk2[n].TaintSymbs \cup glob2,
           InSync(fs, stk, call, glob, gd), OnTop(gs[n], stk2, call2, glob2, gd2)
    PROVE  InSync(gs, stk2, call2, glob2, gd2)
  <1>1. Synced(fs) = n /\ Synced(gs) = n /\ n # n - 1 /\ n \in 1 .. n
    BY DEF Synced
  <1>2. /\ \A i \in 1 .. n : InStep(fs[i], stk[i], glob)
        /\ \A i \in 1 .. n - 1 : Calls(fs[i], stk[i], fs[i + 1].fn) /\ fs[i].begun
        /\ \A i \in 1 .. n - 1 : stk[i + 1].Ret = DefOf(Stmt(fs[i]))
    BY <1>1 DEF InSync
  <1>3. \A i \in 1 .. n : i = n \/ i \in 1 .. n - 1
    OBVIOUS
  <1>4. \A i \in 1 .. n - 1 : i + 1 \in 1 .. n - 1 \/ i + 1 = n
    OBVIOUS
  <1>5. ASSUME NEW i \in 1 .. n
        PROVE  InStep(gs[i], stk2[i], glob2)
    <2>1. InStep(fs[i], stk[i], glob)
      BY <1>2
    <2>2. CASE i = n
      BY <2>1, <2>2 DEF InStep
    <2>3. CASE i \in 1 .. n - 1
      BY <2>1, <2>3 DEF InStep
    <2>q. QED
      BY <1>3, <2>2, <2>3
  <1>6. ASSUME NEW i \in 1 .. n - 1
        PROVE  /\ Calls(gs[i], stk2[i], gs[i + 1].fn) /\ gs[i].begun
               /\ stk2[i + 1].Ret = DefOf(Stmt(gs[i]))
    <2>1. gs[i] = fs[i] /\ stk2[i] = stk[i]
      OBVIOUS
    <2>2. gs[i + 1].fn = fs[i + 1].fn /\ stk2[i + 1].Ret = stk[i + 1].Ret
      BY <1>4
    <2>q. QED
      BY <1>2, <2>1, <2>2
  <1>q. QED
    BY <1>1, <1>5, <1>6 DEF InSync
-----------------------------------------------------------------------------
\* A context with the same function and what it held at least.
Kept(c, d) ==
    /\ d.Func = c.Func /\ d.FuncDef = c.FuncDef /\ d.Ret = c.Ret
    /\ c.TaintSymbs \subseteq d.TaintSymbs
TopKept(stk, stk2) ==
    /\ Len(stk2) = Len(stk)
    /\ \A i \in 1 .. Len(stk) - 1 : stk2[i] = stk[i]
    /\ Kept(stk[Len(stk)], stk2[Len(stk)])

\* A frame before its line, in step with its context, and behind it.
AtLine(fr, stk, glob) ==
    /\ fr.stage = "line" /\ ~fr.got
    /\ Plain(fr, Stmt(fr), gdirty)
    /\ Known(Stmt(fr)) => PlainCall(fr, Stmt(fr), gdirty)
    /\ InStep(fr, stk[Len(stk)], glob) /\ gdirty \subseteq glob
Ran(fr) == [fr EXCEPT !.stage = "run", !.begun = TRUE]

LEMMA RanIs ==
    ASSUME NEW fr \in Proper
    PROVE  /\ Ran(fr) \in Proper /\ Ran(fr).fn = fr.fn /\ Ran(fr).stage = "run" /\ Ran(fr).begun
           /\ Ran(fr).dirty = fr.dirty /\ Ran(fr).got = fr.got
           /\ Stmt(Ran(fr)) = Stmt(fr)
           /\ \A gd : SomeDirty(Ran(fr), gd) = SomeDirty(fr, gd) /\ Given(Ran(fr), gd) = Given(fr, gd)
  <1>1. /\ Ran(fr) \in Proper /\ Ran(fr).fn = fr.fn /\ Ran(fr).stage = "run" /\ Ran(fr).begun
        /\ Ran(fr).dirty = fr.dirty /\ Ran(fr).got = fr.got /\ Ran(fr).pc = fr.pc
    BY DEF Ran, Proper, FrameRecord
  <1>2. Stmt(Ran(fr)) = Stmt(fr)
    BY <1>1 DEF Stmt
  <1>q. QED
    BY <1>1, <1>2 DEF SomeDirty, Given

\* What is known of a frame that ran its line.
LEMMA RanOnTop ==
    ASSUME NEW fr \in Proper, ~fr.got, NEW stk, NEW call, NEW glob,
           LET st == Stmt(fr)
               ctx == stk[Len(stk)]
           IN  /\ Must(st) => /\ Calls(fr, ctx, st.callee) /\ Prepared(fr, call, st.callee)
                              /\ Given(fr, gdirty) \subseteq Actual2Formal(ctx.CalleeLo, stk, glob)
               /\ ~Must(st) =>
                    /\ st.callee \in Criteria \/ SomeDirty(fr, gdirty) => Keeps(st, ctx, glob)
                    /\ st.op = "return" /\ SomeDirty(fr, gdirty) => ctx.RetTaint
    PROVE  OnTop(Ran(fr), stk, call, glob, gdirty)
  <1> DEFINE to == Ran(fr)
  <1>1. /\ to.fn = fr.fn /\ to.stage = "run" /\ to.begun /\ to.got = fr.got /\ Stmt(to) = Stmt(fr)
        /\ SomeDirty(to, gdirty) = SomeDirty(fr, gdirty) /\ Given(to, gdirty) = Given(fr, gdirty)
    BY RanIs
  <1> HIDE DEF to
  <1>2. /\ \A c, f : Calls(fr, c, f) => Calls(to, c, f)
        /\ \A f : Prepared(fr, call, f) => Prepared(to, call, f)
    BY <1>1 DEF Calls, Prepared
  <1>3. OnTop(to, stk, call, glob, gdirty)
    BY <1>1, <1>2 DEF OnTop
  <1>q. QED
    BY <1>3 DEF to

\* The definition of a live object.
LEMMA LineDef ==
    ASSUME NEW fr \in Proper, Plain(fr, Stmt(fr), gdirty)
    PROVE  LET st == Stmt(fr)
               lo == LineObject(fr, st)
           IN  /\ IsLo(lo) /\ (lo.Callee \in Defs => lo \in LiveObject)
               /\ lo.Callee = st.callee /\ lo.Uses = Uses(st) /\ lo.LineNo = fr.pc
               /\ lo.Ret = (st.op = "return")
               /\ lo.Def = DefOf(st) /\ (lo.Def = None <=> st.def = <<>>)
               /\ DefOf(st) \in Name \cup {None}
  <1> DEFINE st == Stmt(fr)
             lo == LineObject(fr, st)
  <1>1. fr \in FrameRecord /\ IsStatement(st)
    BY ProperIs
  <1>2. /\ IsLo(lo) /\ (lo.Callee \in Defs => lo \in LiveObject)
        /\ lo.Callee = st.callee /\ lo.Uses = Uses(st) /\ lo.LineNo = fr.pc
        /\ lo.Ret = (st.op = "return")
        /\ lo.Def = IF st.def = <<>> THEN None ELSE RealDef(fr, st.def[1])
    BY <1>1, LineObjectIs
  <1>3. st.def \in Seq(Name) /\ \A i \in DOMAIN st.def : RealDef(fr, st.def[i]) = st.def[i]
    BY <1>1 DEF IsStatement, Plain
  <1> HIDE DEF st, lo
  <1>4. st.def # <<>> => 1 \in DOMAIN st.def
    BY <1>3
  <1>5. st.def # <<>> => st.def[1] \in Name /\ st.def[1] # None /\ RealDef(fr, st.def[1]) = st.def[1]
    BY <1>3, <1>4, Assumption DEF Assumption
  <1>6. lo.Def = DefOf(st) /\ (lo.Def = None <=> st.def = <<>>) /\ DefOf(st) \in Name \cup {None}
    BY <1>2, <1>5 DEF DefOf
  <1>q. QED
    BY <1>2, <1>6 DEF st, lo

LineEnd(fr) ==
    /\ TopKept(CtxStack, CtxStack') /\ GlobalTaintSymbs \subseteq GlobalTaintSymbs'
    /\ OnTop(Ran(fr), CtxStack', CallCtx', GlobalTaintSymbs', gdirty)

LEMMA IgnoredEnds ==
    ASSUME TypeInv, NEW fr \in Proper, AtLine(fr, CtxStack, GlobalTaintSymbs),
           LineIgnored(LineObject(fr, Stmt(fr)))
    PROVE  LineEnd(fr)
  <1> DEFINE st == Stmt(fr)
             lo == LineObject(fr, st)
  <1>1. /\ Plain(fr, st, gdirty) /\ (Known(st) => PlainCall(fr, st, gdirty)) /\ ~fr.got
        /\ InStep(fr, CtxStack[Len(CtxStack)], GlobalTaintSymbs) /\ gdirty \subseteq GlobalTaintSymbs
    BY DEF AtLine
  <1>2. lo.Def = DefOf(st) /\ (lo.Def = None <=> st.def = <<>>) /\ lo.Uses = Uses(st)
    BY <1>1, LineDef
  <1>3. lo.Def = None /\ lo.Uses = <<>> /\ UNCHANGED <<CtxStack, CallCtx, GlobalTaintSymbs>>
    BY DEF LineIgnored, IsLiveObjValid
  <1>4. ~Must(st)
    BY <1>1, <1>2, <1>3 DEF Must, PlainCall
  <1>5. Last(CtxStack) = CtxStack[Len(CtxStack)]
    BY StackTop DEF TypeInv, CtxTypes
  <1>6. gdirty \in SUBSET Dotted
    BY DEF TypeInv
  <1>7. ~SomeDirty(fr, gdirty)
    <2> HIDE DEF lo
    <2>1. fr.dirty \subseteq Last(CtxStack).TaintSymbs \cup GlobalTaintSymbs
      BY <1>1, <1>5 DEF InStep
    <2>q. QED
      BY <1>1, <1>2, <1>3, <1>6, <2>1, DirtyTouches
  <1>8. \A c, g : Keeps(st, c, g)
    <2>1. st.def = <<>>
      BY <1>2, <1>3
    <2>2. Range(st.def) = {}
      BY <2>1 DEF Range
    <2> HIDE DEF st
    <2>q. QED
      BY <2>2 DEF Keeps
  <1>9. OnTop(Ran(fr), CtxStack, CallCtx, GlobalTaintSymbs, gdirty)
    BY <1>1, <1>4, <1>7, <1>8, RanOnTop
  <1>q. QED
    BY <1>3, <1>9 DEF LineEnd, TopKept, Kept

\* The callee's parameters that are dirty are among those its context begins with.
LEMMA FormalsCover ==
    ASSUME NEW fr \in Proper, Plain(fr, Stmt(fr), gdirty), PlainCall(fr, Stmt(fr), gdirty),
           NEW lo \in LiveObject, lo.Uses = Uses(Stmt(fr)), lo.Callee = Stmt(fr).callee,
           NEW stk, NEW glob, fr.dirty \subseteq Last(stk).TaintSymbs \cup glob, gdirty \subseteq glob
    PROVE  Given(fr, gdirty) \subseteq Actual2Formal(lo, stk, glob)
  <1> DEFINE st == Stmt(fr)
             f == lo.Callee
             ps == Params[f]
             us == lo.Uses
             m == Min({Len(us), Len(ps)})
             hit(i) == IF SrcArgs[f] = None THEN IsInTainted(stk, glob, us[i]) ELSE SrcArgs[f][i]
  <1>1. IsStatement(st) /\ Len(us) \in Nat /\ Len(ps) \in Nat /\ ps \in Seq(DOMAIN ClassOf)
    BY ProperIs, FormalsAre
  <1>2. Len(us) = Len(Passed(st)) /\ Passed(st) \in Seq(Name \cup {None})
    <2>1. Len(Actuals(st) \o st.use) <= MaxUses /\ None \notin Range(st.use) /\ st.via # "module"
      BY DEF Plain, PlainCall
    <2>q. QED
      BY <1>1, <2>1, UsesMatch, PassedIs
  <1>3. /\ \A i \in 1 .. Len(Passed(st)) :
             us[i] = Passed(st)[i] \/ (st.via = "object" /\ Passed(st)[i] = st.recv)
        /\ st.via = "object" => st.recv \notin fr.dirty \cup gdirty
    <2>1. Len(Actuals(st) \o st.use) <= MaxUses /\ None \notin Range(st.use) /\ st.via # "module"
      BY DEF Plain, PlainCall
    <2>q. QED
      BY <1>1, <2>1, UsesMatch DEF Plain
  <1>4. SrcArgs[f] # None => \A i \in DOMAIN Passed(st) :
          Passed(st)[i] \in fr.dirty \cup gdirty => SrcArgs[f][i]
    BY DEF PlainCall
  <1>5. Actual2Formal(lo, stk, glob) = {ps[i] : i \in {j \in 1 .. m : hit(j)}}
    BY DEF Actual2Formal
  <1>6. f = st.callee
    OBVIOUS
  <1>7. Given(fr, gdirty) = {ps[i] : i \in {j \in DOMAIN ps :
           /\ j \in DOMAIN Passed(st)
           /\ \/ Passed(st)[j] \in fr.dirty \cup gdirty
              \/ SrcArgs[f] # None /\ SrcArgs[f][j]}}
    BY DEF Given
  <1>8. m \in Nat /\ (m = Len(us) \/ m = Len(ps))
    BY <1>1, MinOfTwo
  <1> HIDE DEF st, ps, us, m, f
  <1>9. ASSUME NEW i \in DOMAIN ps, i \in DOMAIN Passed(st),
               \/ Passed(st)[i] \in fr.dirty \cup gdirty
               \/ SrcArgs[f] # None /\ SrcArgs[f][i]
        PROVE  i \in 1 .. m /\ hit(i)
    <2>1. i \in 1 .. Len(ps) /\ i \in 1 .. Len(us) /\ i \in 1 .. Len(Passed(st))
      BY <1>1, <1>2, <1>9
    <2>2. i \in 1 .. m
      BY <1>8, <2>1
    <2>3. CASE SrcArgs[f] = None
      <3>1. Passed(st)[i] \in fr.dirty \cup gdirty
        BY <1>9, <2>3
      <3>2. us[i] = Passed(st)[i]
        BY <1>3, <2>1, <3>1
      <3>q. QED
        BY <2>2, <2>3, <3>1, <3>2 DEF IsInTainted
    <2>4. CASE SrcArgs[f] # None
      BY <1>4, <1>9, <2>2, <2>4
    <2>q. QED
      BY <2>3, <2>4
  <1> HIDE DEF hit
  <1>q. QED
    BY <1>5, <1>7, <1>9

LEMMA KnownCallEnds ==
    ASSUME TypeInv, NEW fr \in Proper, AtLine(fr, CtxStack, GlobalTaintSymbs),
           LineKnownCall(LineObject(fr, Stmt(fr)))
    PROVE  LineEnd(fr)
  <1> DEFINE st == Stmt(fr)
             lo == LineObject(fr, st)
             n == Len(CtxStack)
             c == [CtxStack[n] EXCEPT !.CalleeLo = lo]
  <1>1. /\ Plain(fr, st, gdirty) /\ (Known(st) => PlainCall(fr, st, gdirty)) /\ ~fr.got
        /\ InStep(fr, CtxStack[Len(CtxStack)], GlobalTaintSymbs) /\ gdirty \subseteq GlobalTaintSymbs
    BY DEF AtLine
  <1>2. /\ lo.Def = DefOf(st) /\ lo.Uses = Uses(st) /\ lo.Callee = st.callee
        /\ lo.Callee \in Defs => lo \in LiveObject
        /\ DefOf(st) \in Name \cup {None}
    BY <1>1, LineDef
  <1>3. /\ lo.Callee \in Defs /\ CallCtx' = Context(lo.Callee, lo.Def)
        /\ CtxStack' = [CtxStack EXCEPT ![n] = c] /\ GlobalTaintSymbs' = GlobalTaintSymbs
    BY DEF LineKnownCall
  <1>4. Known(st) /\ PlainCall(fr, st, gdirty) /\ Must(st)
    BY <1>1, <1>2, <1>3 DEF Known, PlainCall
  <1>5. IsStack(CtxStack) /\ n \in Nat \ {0} /\ CtxStack[n] \in ContextRecord
    BY StackTop DEF TypeInv, CtxTypes
  <1> HIDE DEF lo, st, n
  <1>6. /\ c \in ContextRecord /\ c.CalleeLo = lo /\ lo # None
        /\ c.Func = CtxStack[n].Func /\ c.FuncDef = CtxStack[n].FuncDef /\ c.Ret = CtxStack[n].Ret
        /\ c.TaintSymbs = CtxStack[n].TaintSymbs
    BY <1>2, <1>3, <1>5, Assumption DEF ContextRecord, Assumption
  <1> HIDE DEF c
  <1>7. /\ Len(CtxStack') = n /\ Last(CtxStack') = c /\ CtxStack'[n] = c
        /\ \A i \in 1 .. n - 1 : CtxStack'[i] = CtxStack[i]
    BY <1>3, <1>5, <1>6, SetTop DEF n
  <1>8. TopKept(CtxStack, CtxStack')
    BY <1>6, <1>7 DEF TopKept, Kept, n
  <1>9. Calls(fr, CtxStack'[Len(CtxStack')], st.callee)
    <2>1. Len(st.def) <= 1
      BY <1>1 DEF Plain
    <2>q. QED
      BY <1>2, <1>4, <1>6, <1>7, <2>1 DEF Calls, st
  <1>10. Prepared(fr, CallCtx', st.callee)
    <2>1. lo.Callee \in Defs \cup {Top} /\ lo.Def \in Symbols \cup {None}
      BY <1>2, <1>3 DEF Symbols
    <2>2. CallCtx' # None
      BY <1>3, <2>1, ContextIs, Assumption DEF Assumption
    <2>3. CallCtx'.Func = lo.Callee /\ CallCtx'.FuncDef = lo.Callee /\ CallCtx'.Ret = lo.Def
      BY <1>3, <2>1, ContextIs
    <2>q. QED
      BY <1>2, <1>4, <2>2, <2>3 DEF Prepared, PlainCall, st
  <1>11. Given(fr, gdirty) \subseteq Actual2Formal(lo, CtxStack', GlobalTaintSymbs)
    <2>1. fr.dirty \subseteq Last(CtxStack').TaintSymbs \cup GlobalTaintSymbs
      BY <1>1, <1>6, <1>7 DEF InStep, n
    <2>q. QED
      BY <1>1, <1>2, <1>3, <1>4, <2>1, FormalsCover DEF st
  <1>12. OnTop(Ran(fr), CtxStack', CallCtx', GlobalTaintSymbs', gdirty)
    <2>1. CtxStack'[Len(CtxStack')].CalleeLo = lo
      BY <1>6, <1>7
    <2>q. QED
      BY <1>1, <1>3, <1>4, <1>9, <1>10, <1>11, <2>1, RanOnTop DEF st
  <1>q. QED
    BY <1>3, <1>8, <1>12 DEF LineEnd

\* What a symbol inserted leaves and adds.
LEMMA InsertIs ==
    ASSUME NEW stk, IsStack(stk), NEW d \in Symbols \cup {None}, NEW glob
    PROVE  LET new == Local(stk, {d})
           IN  /\ IsStack(new) /\ TopKept(stk, new) /\ Len(new) = Len(stk) /\ Last(new) = new[Len(stk)]
               /\ new[Len(stk)].CalleeLo = stk[Len(stk)].CalleeLo
               /\ {d} \ (Dotted \cup {None}) \subseteq new[Len(stk)].TaintSymbs
               /\ glob \subseteq Global(glob, {d}) /\ {d} \cap Dotted \subseteq Global(glob, {d})
  <1> DEFINE new == Local(stk, {d})
             n == Len(stk)
             S == {d} \ (Dotted \cup {None})
             e == [stk[n] EXCEPT !.TaintSymbs = @ \cup S]
  <1>1. stk[n] \in ContextRecord
    BY StackTop
  <1>2. /\ IsStack(new) /\ Len(new) = n /\ \A i \in 1 .. n - 1 : new[i] = stk[i]
        /\ new[n] = e /\ Last(new) = new[n]
    <2>1. {d} \in SUBSET (Symbols \cup {None})
      OBVIOUS
    <2> HIDE DEF new, e
    <2>q. QED
      BY <2>1, LocalIs DEF new, e
  <1> HIDE DEF new, n, S
  <1>3. e.TaintSymbs = stk[n].TaintSymbs \cup S /\ e.Func = stk[n].Func
        /\ e.FuncDef = stk[n].FuncDef /\ e.Ret = stk[n].Ret /\ e.CalleeLo = stk[n].CalleeLo
    BY <1>1 DEF ContextRecord
  <1> HIDE DEF e
  <1>4. TopKept(stk, new) /\ S \subseteq new[n].TaintSymbs /\ new[n].CalleeLo = stk[n].CalleeLo
    BY <1>2, <1>3 DEF TopKept, Kept, n
  <1>5. glob \subseteq Global(glob, {d}) /\ {d} \cap Dotted \subseteq Global(glob, {d})
    BY DEF Global
  <1>q. QED
    BY <1>2, <1>4, <1>5 DEF new, n, S

LEMMA KeptOn ==
    ASSUME NEW a, NEW b, NEW c, TopKept(a, b), TopKept(b, c)
    PROVE  TopKept(a, c)
  BY DEF TopKept, Kept

LEMMA ForeignEnds ==
    ASSUME TypeInv, NEW fr \in Proper, AtLine(fr, CtxStack, GlobalTaintSymbs),
           LineForeignCall(LineObject(fr, Stmt(fr)))
    PROVE  LineEnd(fr)
  <1> DEFINE st == Stmt(fr)
             lo == LineObject(fr, st)
             n == Len(CtxStack)
             d == lo.Def
             crn == lo.Callee \in Criteria
             stk == IF crn THEN Local(CtxStack, {d}) ELSE CtxStack
             glob == IF crn THEN Global(GlobalTaintSymbs, {d}) ELSE GlobalTaintSymbs
             hit == Touched(stk, glob, lo)
  <1>1. /\ Plain(fr, st, gdirty) /\ ~fr.got
        /\ InStep(fr, CtxStack[n], GlobalTaintSymbs) /\ gdirty \subseteq GlobalTaintSymbs
    BY DEF AtLine
  <1>2. /\ d = DefOf(st) /\ lo.Uses = Uses(st) /\ lo.Callee = st.callee
        /\ d \in Symbols \cup {None}
    BY <1>1, LineDef DEF Symbols
  <1>3. /\ lo.Callee \notin Defs \cup {None}
        /\ CtxStack' = (IF hit THEN Local(stk, {d}) ELSE stk)
        /\ GlobalTaintSymbs' = IF hit THEN Global(glob, {d}) \cup Class(stk, lo) ELSE glob
    BY DEF LineForeignCall
  <1>4. IsStack(CtxStack) /\ gdirty \in SUBSET Dotted
    BY DEF TypeInv, CtxTypes
  <1>5. IsStatement(st) /\ Len(st.def) <= 1
    BY <1>1, ProperIs DEF Plain
  <1>6. ~Must(st) /\ st.op # "return"
    BY <1>2, <1>3, <1>5 DEF Must, Known, IsStatement
  <1> HIDE DEF lo, st, d
  <1>7. /\ IsStack(stk) /\ TopKept(CtxStack, stk) /\ Len(stk) = n /\ Last(stk) = stk[n]
        /\ GlobalTaintSymbs \subseteq glob
        /\ crn => {d} \ (Dotted \cup {None}) \subseteq stk[n].TaintSymbs /\ {d} \cap Dotted \subseteq glob
    <2>1. CASE crn
      <3>1. stk = Local(CtxStack, {d}) /\ glob = Global(GlobalTaintSymbs, {d})
        BY <2>1
      <3>q. QED
        BY <1>2, <1>4, <2>1, <3>1, InsertIs DEF n
    <2>2. CASE ~crn
      <3>1. stk = CtxStack /\ glob = GlobalTaintSymbs
        BY <2>2
      <3>2. TopKept(CtxStack, CtxStack)
        BY DEF TopKept, Kept
      <3>q. QED
        BY <1>4, <2>2, <3>1, <3>2, StackTop DEF n
    <2>q. QED
      BY <2>1, <2>2
  <1>8. crn => Keeps(st, stk[n], glob)
    BY <1>2, <1>5, <1>7, KeepsIs
  <1>9. SomeDirty(fr, gdirty) => hit
    <2>1. fr.dirty \subseteq Last(stk).TaintSymbs \cup glob /\ gdirty \subseteq glob
      <3> HIDE DEF stk, glob
      <3>q. QED
        BY <1>1, <1>7 DEF InStep, TopKept, Kept, n
    <2> HIDE DEF stk, glob
    <2>q. QED
      BY <1>1, <1>2, <1>4, <2>1, DirtyTouches DEF st
  <1> HIDE DEF stk, glob, hit, crn
  <1>10. /\ TopKept(CtxStack, CtxStack') /\ GlobalTaintSymbs \subseteq GlobalTaintSymbs'
         /\ crn \/ hit => Keeps(st, CtxStack'[n], GlobalTaintSymbs')
    <2>1. CASE hit
      <3> DEFINE new == Local(stk, {d})
                 gnew == Global(glob, {d})
      <3>1. CtxStack' = new /\ gnew \subseteq GlobalTaintSymbs'
        BY <1>3, <2>1
      <3>2. /\ TopKept(stk, new) /\ {d} \ (Dotted \cup {None}) \subseteq new[n].TaintSymbs
            /\ glob \subseteq gnew /\ {d} \cap Dotted \subseteq gnew
        BY <1>2, <1>7, InsertIs
      <3> HIDE DEF new, gnew
      <3>3. Keeps(st, new[n], gnew)
        BY <1>2, <1>5, <3>2, KeepsIs
      <3>4. Keeps(st, CtxStack'[n], GlobalTaintSymbs')
        BY <3>1, <3>3 DEF Keeps
      <3>5. TopKept(CtxStack, CtxStack')
        BY <1>7, <3>1, <3>2, KeptOn
      <3>6. GlobalTaintSymbs \subseteq GlobalTaintSymbs'
        BY <1>7, <3>1, <3>2
      <3>q. QED
        BY <3>4, <3>5, <3>6
    <2>2. CASE ~hit
      <3>1. CtxStack' = stk /\ GlobalTaintSymbs' = glob
        BY <1>3, <2>2
      <3>q. QED
        BY <1>7, <1>8, <2>2, <3>1
    <2>q. QED
      BY <2>1, <2>2
  <1>11. CtxStack'[Len(CtxStack')] = CtxStack'[n]
    BY <1>10 DEF TopKept, n
  <1>12. st.callee \in Criteria <=> crn
    BY <1>2 DEF crn
  <1>13. OnTop(Ran(fr), CtxStack', CallCtx', GlobalTaintSymbs', gdirty)
    BY <1>1, <1>6, <1>9, <1>10, <1>11, <1>12, RanOnTop DEF st
  <1>q. QED
    BY <1>10, <1>13 DEF LineEnd

LEMMA ReturnEnds ==
    ASSUME TypeInv, NEW fr \in Proper, AtLine(fr, CtxStack, GlobalTaintSymbs),
           LineReturn(LineObject(fr, Stmt(fr)))
    PROVE  LineEnd(fr)
  <1> DEFINE st == Stmt(fr)
             lo == LineObject(fr, st)
             n == Len(CtxStack)
             hit == IsInTainted(CtxStack, GlobalTaintSymbs, lo.Uses[1])
             c == [CtxStack[n] EXCEPT !.RetTaint = hit]
  <1>1. /\ Plain(fr, st, gdirty) /\ ~fr.got
        /\ InStep(fr, CtxStack[n], GlobalTaintSymbs) /\ gdirty \subseteq GlobalTaintSymbs
    BY DEF AtLine
  <1>2. lo.Uses = Uses(st) /\ lo.Callee = st.callee /\ lo.Ret = (st.op = "return")
    BY <1>1, LineDef
  <1>3. /\ lo.Callee = None /\ lo.Ret
        /\ CtxStack' = [CtxStack EXCEPT ![n] = c]
        /\ UNCHANGED <<CallCtx, GlobalTaintSymbs>>
    BY DEF LineReturn
  <1>4. IsStack(CtxStack) /\ gdirty \in SUBSET Dotted
    BY DEF TypeInv, CtxTypes
  <1>5. n \in Nat \ {0} /\ CtxStack[n] \in ContextRecord /\ Last(CtxStack) = CtxStack[n]
    BY <1>4, StackTop
  <1>6. hit \in BOOLEAN
    BY DEF IsInTainted
  <1>7. IsStatement(st) /\ st.op = "return" /\ st.def = <<>>
    BY <1>2, <1>3, ProperIs DEF IsStatement
  <1>8. ~Must(st) /\ st.callee \notin Criteria
    BY <1>2, <1>3, Assumption DEF Must, Known, Assumption
  <1>9. SomeDirty(fr, gdirty) => hit
    <2> HIDE DEF lo
    <2>1. fr.dirty \subseteq Last(CtxStack).TaintSymbs \cup GlobalTaintSymbs
      BY <1>1, <1>5 DEF InStep
    <2>q. QED
      BY <1>1, <1>2, <1>4, <1>7, <2>1, DirtyTouches
  <1> HIDE DEF lo, hit
  <1>10. \A s, g : Keeps(st, s, g)
    <2>1. Range(st.def) = {}
      BY <1>7 DEF Range
    <2> HIDE DEF st
    <2>q. QED
      BY <2>1 DEF Keeps
  <1> HIDE DEF st, n
  <1>11. /\ c \in ContextRecord /\ c.RetTaint = hit
         /\ c.Func = CtxStack[n].Func /\ c.FuncDef = CtxStack[n].FuncDef /\ c.Ret = CtxStack[n].Ret
         /\ c.TaintSymbs = CtxStack[n].TaintSymbs
    BY <1>5, <1>6 DEF ContextRecord
  <1> HIDE DEF c
  <1>12. /\ Len(CtxStack') = n /\ CtxStack'[n] = c
         /\ \A i \in 1 .. n - 1 : CtxStack'[i] = CtxStack[i]
    BY <1>3, <1>4, <1>11, SetTop DEF n
  <1>13. TopKept(CtxStack, CtxStack')
    BY <1>11, <1>12 DEF TopKept, Kept, n
  <1>14. OnTop(Ran(fr), CtxStack', CallCtx', GlobalTaintSymbs', gdirty)
    <2>1. CtxStack'[Len(CtxStack')].RetTaint = hit
      BY <1>11, <1>12
    <2>q. QED
      BY <1>1, <1>8, <1>9, <1>10, <2>1, RanOnTop DEF st
  <1>q. QED
    BY <1>3, <1>13, <1>14 DEF LineEnd

\* Any other line, stk the contexts it finds or pushes.
Handled(stk, glob, lo, stk2, glob2) ==
    LET hit == Touched(stk, glob, lo)
    IN  /\ stk2 = IF hit THEN Local(stk, {lo.Def}) ELSE stk
        /\ glob2 = IF hit THEN Global(glob, {lo.Def}) \cup Class(stk, lo) ELSE glob

LEMMA OtherOnTop ==
    ASSUME TypeInv, NEW fr \in Proper, ~fr.got, Plain(fr, Stmt(fr), gdirty), Stmt(fr).callee = None,
           Stmt(fr).op # "return",
           NEW stk, IsStack(stk), NEW call, NEW glob, gdirty \subseteq glob,
           fr.dirty \subseteq stk[Len(stk)].TaintSymbs \cup glob,
           NEW stk2, NEW glob2,
           Handled(stk, glob, LineObject(fr, Stmt(fr)), stk2, glob2)
    PROVE  TopKept(stk, stk2) /\ glob \subseteq glob2 /\ OnTop(Ran(fr), stk2, call, glob2, gdirty)
  <1> DEFINE st == Stmt(fr)
             lo == LineObject(fr, st)
             n == Len(stk)
             d == lo.Def
             hit == Touched(stk, glob, lo)
             new == Local(stk, {d})
             gnew == Global(glob, {d})
  <1>1. d = DefOf(st) /\ lo.Uses = Uses(st) /\ lo.Callee = st.callee /\ d \in Symbols \cup {None}
    BY LineDef DEF Symbols
  <1>2. /\ stk2 = IF hit THEN new ELSE stk
        /\ hit => gnew \subseteq glob2
        /\ ~hit => glob2 = glob
    BY DEF Handled
  <1>3. ~Must(st) /\ st.callee \notin Criteria /\ Len(st.def) <= 1 /\ IsStatement(st)
    BY Assumption, ProperIs DEF Must, Known, Assumption, Plain
  <1>4. gdirty \in SUBSET Dotted
    BY DEF TypeInv
  <1>5. SomeDirty(fr, gdirty) => hit
    <2>1. fr.dirty \subseteq Last(stk).TaintSymbs \cup glob
      BY StackTop
    <2> HIDE DEF lo
    <2>q. QED
      BY <1>1, <1>4, <2>1, DirtyTouches
  <1> HIDE DEF lo, d, hit
  <1>6. /\ TopKept(stk, new) /\ Len(new) = n
        /\ {d} \ (Dotted \cup {None}) \subseteq new[n].TaintSymbs
        /\ glob \subseteq gnew /\ {d} \cap Dotted \subseteq gnew
    BY <1>1, InsertIs
  <1>7. TopKept(stk, stk)
    BY DEF TopKept, Kept
  <1> HIDE DEF new, gnew, st
  <1>8. TopKept(stk, stk2) /\ glob \subseteq glob2 /\ Len(stk2) = n
    BY <1>2, <1>6, <1>7
  <1>9. hit => Keeps(st, stk2[Len(stk2)], glob2)
    <2>1. Keeps(st, new[n], gnew)
      BY <1>1, <1>3, <1>6, KeepsIs
    <2>q. QED
      BY <1>2, <1>6, <2>1 DEF Keeps
  <1>10. OnTop(Ran(fr), stk2, call, glob2, gdirty)
    <2>1. SomeDirty(fr, gdirty) => Keeps(st, stk2[Len(stk2)], glob2)
      BY <1>5, <1>9
    <2>q. QED
      BY <1>3, <2>1, RanOnTop DEF st
  <1>q. QED
    BY <1>8, <1>10

LEMMA OtherEnds ==
    ASSUME TypeInv, NEW fr \in Proper, AtLine(fr, CtxStack, GlobalTaintSymbs),
           LineOther(fr, LineObject(fr, Stmt(fr)))
    PROVE  LineEnd(fr)
  <1> DEFINE st == Stmt(fr)
             lo == LineObject(fr, st)
             n == Len(CtxStack)
  <1>1. /\ Plain(fr, st, gdirty) /\ ~fr.got
        /\ InStep(fr, CtxStack[n], GlobalTaintSymbs) /\ gdirty \subseteq GlobalTaintSymbs
    BY DEF AtLine
  <1>2. lo.Callee = st.callee /\ lo.Ret = (st.op = "return")
    BY <1>1, LineDef
  <1>3. IsStack(CtxStack)
    BY DEF TypeInv, CtxTypes
  <1>4. ~Implicit(fr)
    <2>1. CurCtx.Func = fr.fn
      BY <1>1, <1>3, StackTop DEF CurCtx, InStep
    <2>q. QED
      BY <2>1 DEF Implicit
  <1>5. /\ st.callee = None /\ st.op # "return" /\ CallCtx' = CallCtx
        /\ Handled(CtxStack, GlobalTaintSymbs, lo, CtxStack', GlobalTaintSymbs')
    BY <1>2, <1>4 DEF LineOther, Handled
  <1>6. fr.dirty \subseteq CtxStack[n].TaintSymbs \cup GlobalTaintSymbs
    BY <1>1 DEF InStep
  <1>q. QED
    BY <1>1, <1>3, <1>5, <1>6, OtherOnTop DEF LineEnd
-----------------------------------------------------------------------------
\* As long as there is no mishap no thread but the first one runs.
LEMMA Alone ==
    ASSUME FrameInv, mishap = {}, NEW t \in Thread, Running(t)
    PROVE  t = Main
  BY DEF FrameInv, One, Running

LEMMA LineSetup ==
    ASSUME TypeInv, FrameInv, SyncInv, NEW t \in Thread, LineEvent(t), mishap' = {}
    PROVE  LET fs == frames[Main]
               gs == frames'[Main]
               n == Len(fs)
               fr == fs[n]
               lo == LineObject(fr, Stmt(fr))
           IN  /\ n \in Nat \ {0} /\ fs # <<>> /\ fr \in Proper /\ \A i \in 1 .. n : fs[i] \in Proper
               /\ Len(gs) = n /\ gs[n] = Ran(fr) /\ \A i \in 1 .. n - 1 : gs[i] = fs[i]
               /\ gdirty' = gdirty
               /\ InSync(fs, CtxStack, CallCtx, GlobalTaintSymbs, gdirty)
               /\ fr.stage = "line" /\ ~fr.got
               /\ Plain(fr, Stmt(fr), gdirty)
               /\ Known(Stmt(fr)) => PlainCall(fr, Stmt(fr), gdirty)
               /\ Early(fr) => PlainFirst(fr, Stmt(fr))
               /\ \/ LineIgnored(lo) \/ LineKnownCall(lo) \/ LineForeignCall(lo)
                  \/ LineReturn(lo) \/ LineOther(fr, lo)
  <1> DEFINE fs == frames[Main]
             gs == frames'[Main]
             n == Len(fs)
             fr == fs[n]
             st == Stmt(fr)
             lo == LineObject(fr, st)
  <1>1. AtStage(t, "line") /\ OnLine(t, Fr(t))
    BY DEF LineEvent
  <1>2. mishap = {} /\ Running(t)
    BY <1>1 DEF OnLine, AtStage
  <1>3. t = Main
    BY <1>2, Alone
  <1>4. FrameTypes /\ Main \in Thread
    BY Assumption DEF TypeInv, Assumption
  <1>5. /\ fs \in Seq(Proper) /\ fs # <<>> /\ n \in Nat \ {0}
        /\ Fr(Main) = fr /\ fr \in Proper
    BY <1>2, <1>3, <1>4, FrIs
  <1>6. fr.stage = "line"
    BY <1>1, <1>3, <1>5 DEF AtStage
  <1>7. /\ frames' = WithTop(Main, Ran(fr)) /\ gdirty' = gdirty
        /\ Mishaps(fr, st) = {}
    BY <1>1, <1>3, <1>5 DEF OnLine, Ran
  <1>8. \/ LineIgnored(lo) \/ LineKnownCall(lo) \/ LineForeignCall(lo)
        \/ LineReturn(lo) \/ LineOther(fr, lo)
    BY <1>3, <1>5 DEF LineEvent
  <1>9. InSync(fs, CtxStack, CallCtx, GlobalTaintSymbs, gdirty)
    BY <1>2, <1>5 DEF SyncInv
  <1>10. ~fr.got
    BY <1>6, <1>9 DEF InSync, OnTop
  <1>11. Len(gs) = n /\ gs[n] = Ran(fr) /\ \A i \in 1 .. n - 1 : gs[i] = fs[i]
    BY <1>2, <1>3, <1>4, <1>5, <1>7, RanIs, TopIs
  <1>12. IsStatement(st)
    BY <1>5, ProperIs
  <1>13. /\ Plain(fr, st, gdirty) /\ (Known(st) => PlainCall(fr, st, gdirty))
         /\ Early(fr) => PlainFirst(fr, st)
    BY <1>7, <1>12, NoMishaps
  <1>14. \A i \in 1 .. n : fs[i] \in Proper
    BY <1>5
  <1>q. QED
    BY <1>5, <1>6, <1>7, <1>8, <1>9, <1>10, <1>11, <1>13, <1>14

LEMMA LineSynced ==
    ASSUME TypeInv, FrameInv, SyncInv, NEW t \in Thread, LineEvent(t), mishap' = {},
           ~Early(frames[Main][Len(frames[Main])])
    PROVE  SyncInv'
  <1> DEFINE fs == frames[Main]
             gs == frames'[Main]
             n == Len(fs)
             fr == fs[n]
             lo == LineObject(fr, Stmt(fr))
  <1>1. /\ n \in Nat \ {0} /\ fr \in Proper
        /\ Len(gs) = n /\ gs[n] = Ran(fr) /\ \A i \in 1 .. n - 1 : gs[i] = fs[i]
        /\ gdirty' = gdirty
        /\ InSync(fs, CtxStack, CallCtx, GlobalTaintSymbs, gdirty)
        /\ fr.stage = "line" /\ ~fr.got
        /\ Plain(fr, Stmt(fr), gdirty)
        /\ Known(Stmt(fr)) => PlainCall(fr, Stmt(fr), gdirty)
        /\ \/ LineIgnored(lo) \/ LineKnownCall(lo) \/ LineForeignCall(lo)
           \/ LineReturn(lo) \/ LineOther(fr, lo)
    BY LineSetup
  <1>2. ~Early(fr) /\ n \in 1 .. n
    BY <1>1
  <1> HIDE DEF fs, gs, n
  <1>3. Synced(fs) = n
    BY <1>2 DEF Synced, n
  <1>4. /\ Len(CtxStack) = n /\ gdirty \subseteq GlobalTaintSymbs
        /\ InStep(fr, CtxStack[n], GlobalTaintSymbs)
    BY <1>1, <1>2, <1>3 DEF InSync
  <1>5. AtLine(fr, CtxStack, GlobalTaintSymbs)
    BY <1>1, <1>4 DEF AtLine
  <1>6. LineEnd(fr)
    BY <1>1, <1>5, IgnoredEnds, KnownCallEnds, ForeignEnds, ReturnEnds, OtherEnds
  <1>7. /\ Len(CtxStack') = n /\ \A i \in 1 .. n - 1 : CtxStack'[i] = CtxStack[i]
        /\ Kept(CtxStack[n], CtxStack'[n]) /\ GlobalTaintSymbs \subseteq GlobalTaintSymbs'
        /\ OnTop(Ran(fr), CtxStack', CallCtx', GlobalTaintSymbs', gdirty)
    BY <1>4, <1>6 DEF LineEnd, TopKept
  <1>8. /\ Ran(fr).fn = fr.fn /\ Ran(fr).begun /\ Ran(fr).dirty = fr.dirty
    BY <1>1, RanIs
  <1>9. ~Early(gs[n]) /\ gs[n].fn = fs[n].fn
    BY <1>1, <1>8 DEF Early
  <1>10. gs[n].dirty \subseteq CtxStack'[n].TaintSymbs \cup GlobalTaintSymbs'
    BY <1>1, <1>4, <1>7, <1>8 DEF InStep, Kept
  <1>11. /\ CtxStack'[n].Func = CtxStack[n].Func /\ CtxStack'[n].FuncDef = CtxStack[n].FuncDef
         /\ CtxStack'[n].Ret = CtxStack[n].Ret /\ gdirty \subseteq GlobalTaintSymbs'
         /\ OnTop(gs[n], CtxStack', CallCtx', GlobalTaintSymbs', gdirty)
    BY <1>1, <1>4, <1>7 DEF Kept
  <1>12. InSync(gs, CtxStack', CallCtx', GlobalTaintSymbs', gdirty)
    <2>1. ~Early(fs[n]) /\ Len(fs) = n
      BY <1>2 DEF n
    <2>q. QED
      BY <1>1, <1>7, <1>9, <1>10, <1>11, <2>1, TopSynced, SMTT(30)
  <1>q. QED
    BY <1>1, <1>12 DEF SyncInv, gs

\* The first line of a decorated function: it is one of another statement, and the
\* context prepared at the call waits for it.
LEMMA EarlySetup ==
    ASSUME TypeInv, FrameInv, SyncInv, NEW t \in Thread, LineEvent(t), mishap' = {},
           Early(frames[Main][Len(frames[Main])])
    PROVE  LET fs == frames[Main]
               n == Len(fs)
               m == n - 1
               fr == fs[n]
               lo == LineObject(fr, Stmt(fr))
           IN  /\ LineOther(fr, lo) /\ Implicit(fr) /\ PlainFirst(fr, Stmt(fr))
               /\ Len(CtxStack) = m /\ m \in Nat \ {0}
               /\ \A i \in 1 .. m : InStep(fs[i], CtxStack[i], GlobalTaintSymbs)
               /\ \A i \in 1 .. m : Calls(fs[i], CtxStack[i], fs[i + 1].fn) /\ fs[i].begun
               /\ \A i \in 1 .. m - 1 : CtxStack[i + 1].Ret = DefOf(Stmt(fs[i]))
               /\ gdirty \subseteq GlobalTaintSymbs
               /\ fr.dirty \subseteq Actual2Formal(CtxStack[m].CalleeLo, CtxStack, GlobalTaintSymbs)
               /\ Last(CtxStack) = CtxStack[m] /\ CtxStack[m].CalleeLo # None
               /\ CallCtx \in ContextRecord /\ CallCtx.Func = fr.fn /\ CallCtx.FuncDef = fr.fn
               /\ CallCtx.Ret = DefOf(Stmt(fs[m]))
  <1> DEFINE fs == frames[Main]
             n == Len(fs)
             m == n - 1
             fr == fs[n]
             st == Stmt(fr)
             lo == LineObject(fr, st)
  <1>1. /\ n \in Nat \ {0} /\ fr \in Proper
        /\ InSync(fs, CtxStack, CallCtx, GlobalTaintSymbs, gdirty)
        /\ Plain(fr, st, gdirty) /\ (Early(fr) => PlainFirst(fr, st))
        /\ \/ LineIgnored(lo) \/ LineKnownCall(lo) \/ LineForeignCall(lo)
           \/ LineReturn(lo) \/ LineOther(fr, lo)
    BY LineSetup
  <1>2. Early(fr) /\ PlainFirst(fr, st)
    BY <1>1
  <1>3. IsStack(CtxStack) /\ CallCtx \in ContextRecord \cup {None} /\ gdirty \in SUBSET Dotted
    BY DEF TypeInv, CtxTypes
  <1>4. /\ lo.Def = DefOf(st) /\ lo.Uses = Uses(st) /\ lo.Callee = st.callee
        /\ lo.Ret = (st.op = "return") /\ (lo.Def = None <=> st.def = <<>>)
    BY <1>1, LineDef
  <1>5. LineOther(fr, lo)
    <2>1. st.callee = None /\ st.op # "return" /\ (st.def # <<>> \/ Uses(st) # <<>>)
      BY <1>2 DEF PlainFirst
    <2>2. ~LineIgnored(lo) /\ ~LineForeignCall(lo) /\ ~LineReturn(lo)
      BY <1>4, <2>1 DEF LineIgnored, IsLiveObjValid, LineForeignCall, LineReturn
    <2>3. ~LineKnownCall(lo)
      BY <1>4, <2>1, Assumption DEF LineKnownCall, Assumption
    <2> HIDE DEF lo
    <2>q. QED
      BY <1>1, <2>2, <2>3
  <1> HIDE DEF fs, n
  <1>6. Synced(fs) = m
    BY <1>2 DEF Synced, n
  <1>7. Len(CtxStack) = m /\ m \in Nat \ {0} /\ Last(CtxStack) = CtxStack[m]
    BY <1>1, <1>3, <1>6, StackTop DEF InSync
  <1>8. /\ gdirty \subseteq GlobalTaintSymbs
        /\ \A i \in 1 .. m : InStep(fs[i], CtxStack[i], GlobalTaintSymbs)
        /\ \A i \in 1 .. m : Calls(fs[i], CtxStack[i], fs[i + 1].fn) /\ fs[i].begun
        /\ \A i \in 1 .. m - 1 : CtxStack[i + 1].Ret = DefOf(Stmt(fs[i]))
        /\ Prepared(fs[m], CallCtx, fr.fn)
        /\ fr.dirty \subseteq Actual2Formal(CtxStack[m].CalleeLo, CtxStack, GlobalTaintSymbs)
    BY <1>1, <1>6 DEF InSync, n
  <1>9. m \in 1 .. m /\ m + 1 = n /\ n # m
    BY <1>1, <1>7
  <1>10. /\ Calls(fs[m], CtxStack[m], fr.fn) /\ InStep(fs[m], CtxStack[m], GlobalTaintSymbs)
    BY <1>8, <1>9
  <1>11. /\ CallCtx \in ContextRecord /\ CallCtx.Func = fr.fn /\ CallCtx.FuncDef = fr.fn
         /\ CallCtx.Ret = DefOf(Stmt(fs[m])) /\ fr.fn # fs[m].fn
         /\ CtxStack[m].CalleeLo # None /\ CtxStack[m].CalleeLo.Callee = fr.fn
         /\ CtxStack[m].Func = fs[m].fn
    BY <1>2, <1>3, <1>8, <1>10 DEF Prepared, Calls, InStep, Early
  <1>12. Implicit(fr)
    BY <1>2, <1>7, <1>8, <1>11 DEF Implicit, CurCtx, Prepared, PlainFirst
  <1>q. QED
    BY <1>2, <1>5, <1>7, <1>8, <1>11, <1>12 DEF fs, n

\* The first line of a decorated function: its context is pushed now.
LEMMA EarlySynced ==
    ASSUME TypeInv, FrameInv, SyncInv, NEW t \in Thread, LineEvent(t), mishap' = {},
           Early(frames[Main][Len(frames[Main])])
    PROVE  SyncInv'
  <1> DEFINE fs == frames[Main]
             gs == frames'[Main]
             n == Len(fs)
             m == n - 1
             fr == fs[n]
             st == Stmt(fr)
             lo == LineObject(fr, st)
             stk == PushCtx(CtxStack, GlobalTaintSymbs, CallCtx, fr.fn)
  <1>1. /\ n \in Nat \ {0} /\ fr \in Proper
        /\ Len(gs) = n /\ gs[n] = Ran(fr) /\ \A i \in 1 .. m : gs[i] = fs[i]
        /\ gdirty' = gdirty
        /\ InSync(fs, CtxStack, CallCtx, GlobalTaintSymbs, gdirty)
        /\ ~fr.got /\ Plain(fr, st, gdirty) /\ (Early(fr) => PlainFirst(fr, st))
    BY LineSetup
  <1>2. Early(fr) /\ PlainFirst(fr, st)
    BY <1>1
  <1>3. IsStack(CtxStack) /\ CallCtx \in ContextRecord \cup {None} /\ gdirty \in SUBSET Dotted
    BY DEF TypeInv, CtxTypes
  <1>5. /\ LineOther(fr, lo) /\ Implicit(fr) /\ PlainFirst(fr, Stmt(fr))
        /\ Len(CtxStack) = m /\ m \in Nat \ {0}
        /\ \A i \in 1 .. m : InStep(fs[i], CtxStack[i], GlobalTaintSymbs)
        /\ \A i \in 1 .. m : Calls(fs[i], CtxStack[i], fs[i + 1].fn) /\ fs[i].begun
        /\ \A i \in 1 .. m - 1 : CtxStack[i + 1].Ret = DefOf(Stmt(fs[i]))
        /\ gdirty \subseteq GlobalTaintSymbs
        /\ fr.dirty \subseteq Actual2Formal(CtxStack[m].CalleeLo, CtxStack, GlobalTaintSymbs)
        /\ Last(CtxStack) = CtxStack[m] /\ CtxStack[m].CalleeLo # None
        /\ CallCtx \in ContextRecord /\ CallCtx.Func = fr.fn /\ CallCtx.FuncDef = fr.fn
        /\ CallCtx.Ret = DefOf(Stmt(fs[m]))
    BY EarlySetup
  <1> HIDE DEF fs, gs, n
  <1>9. m \in 1 .. m /\ m + 1 = n /\ n # m
    BY <1>1, <1>5
  <1>13. /\ Handled(stk, GlobalTaintSymbs, lo, CtxStack', GlobalTaintSymbs')
         /\ st.callee = None /\ st.op # "return"
    BY <1>2, <1>5 DEF LineOther, Handled, PlainFirst
  <1>14. /\ IsStack(stk) /\ Len(stk) = n /\ \A i \in 1 .. m : stk[i] = CtxStack[i]
         /\ stk[n].Func = fr.fn /\ stk[n].FuncDef = fr.fn /\ stk[n].Ret = DefOf(Stmt(fs[m]))
         /\ Actual2Formal(CtxStack[m].CalleeLo, CtxStack, GlobalTaintSymbs) \subseteq stk[n].TaintSymbs
    <2>1. LET a == CtxStack
              new == PushCtx(a, GlobalTaintSymbs, CallCtx, fr.fn)
          IN  /\ IsStack(new) /\ Len(new) = Len(a) + 1
              /\ \A i \in 1 .. Len(a) : new[i] = a[i]
              /\ new[Len(a) + 1].Func = CallCtx.Func /\ new[Len(a) + 1].FuncDef = CallCtx.FuncDef
              /\ new[Len(a) + 1].Ret = CallCtx.Ret
              /\ Last(a).CalleeLo # None =>
                   Actual2Formal(Last(a).CalleeLo, a, GlobalTaintSymbs) \subseteq new[Len(a) + 1].TaintSymbs
      <3> HIDE DEF fr
      <3>q. QED
        BY <1>3, <1>5, PushPrepared
    <2> HIDE DEF m, fr
    <2>q. QED
      BY <1>5, <1>9, <2>1 DEF stk
  <1> HIDE DEF stk, lo, st, m
  <1>15. /\ TopKept(stk, CtxStack') /\ GlobalTaintSymbs \subseteq GlobalTaintSymbs'
         /\ OnTop(Ran(fr), CtxStack', CallCtx', GlobalTaintSymbs', gdirty)
    <2>1. fr.dirty \subseteq stk[Len(stk)].TaintSymbs \cup GlobalTaintSymbs
      BY <1>5, <1>14
    <2>2. Plain(fr, Stmt(fr), gdirty) /\ Stmt(fr).callee = None /\ Stmt(fr).op # "return"
      BY <1>1, <1>13 DEF st
    <2>3. Handled(stk, GlobalTaintSymbs, LineObject(fr, Stmt(fr)), CtxStack', GlobalTaintSymbs')
      BY <1>13 DEF lo, st
    <2> HIDE DEF fr
    <2>q. QED
      BY <1>1, <1>5, <1>14, <2>1, <2>2, <2>3, OtherOnTop
  <1>16. /\ Ran(fr).fn = fr.fn /\ Ran(fr).begun /\ Ran(fr).dirty = fr.dirty
    BY <1>1, RanIs
  <1>17. /\ Len(CtxStack') = n /\ \A i \in 1 .. m : CtxStack'[i] = CtxStack[i]
         /\ CtxStack'[n].Func = fr.fn /\ CtxStack'[n].FuncDef = fr.fn
         /\ CtxStack'[n].Ret = DefOf(Stmt(fs[m]))
         /\ fr.dirty \subseteq CtxStack'[n].TaintSymbs
    <2>1. Len(CtxStack') = n /\ \A i \in 1 .. m : CtxStack'[i] = stk[i]
      BY <1>14, <1>15 DEF TopKept, m
    <2>2. Kept(stk[n], CtxStack'[n])
      BY <1>14, <1>15 DEF TopKept
    <2>q. QED
      BY <1>5, <1>14, <2>1, <2>2 DEF Kept
  <1>18. Synced(gs) = n
    BY <1>1, <1>16 DEF Synced, Early
  <1>19. \A i \in 1 .. n : i = n \/ i \in 1 .. m
    BY <1>5, <1>9
  <1>20. ASSUME NEW i \in 1 .. n
         PROVE  InStep(gs[i], CtxStack'[i], GlobalTaintSymbs')
    <2>1. CASE i = n
      BY <1>1, <1>16, <1>17, <2>1 DEF InStep
    <2>2. CASE i \in 1 .. m
      BY <1>1, <1>5, <1>15, <1>17, <2>2 DEF InStep
    <2>q. QED
      BY <1>19, <2>1, <2>2
  <1>21. ASSUME NEW i \in 1 .. m
         PROVE  /\ Calls(gs[i], CtxStack'[i], gs[i + 1].fn) /\ gs[i].begun
                /\ CtxStack'[i + 1].Ret = DefOf(Stmt(gs[i]))
    <2>1. gs[i] = fs[i] /\ CtxStack'[i] = CtxStack[i]
      BY <1>1, <1>17
    <2>2. CASE i = m
      BY <1>1, <1>5, <1>9, <1>16, <1>17, <2>1, <2>2
    <2>3. CASE i # m
      <3>1. i + 1 \in 1 .. m /\ i \in 1 .. m - 1
        BY <1>5, <2>3
      <3>2. gs[i + 1] = fs[i + 1] /\ CtxStack'[i + 1] = CtxStack[i + 1]
        BY <1>1, <1>17, <3>1
      <3>q. QED
        BY <1>5, <2>1, <3>1, <3>2
    <2>q. QED
      BY <2>2, <2>3
  <1>22. InSync(gs, CtxStack', CallCtx', GlobalTaintSymbs', gdirty)
    <2>1. gdirty \subseteq GlobalTaintSymbs'
      BY <1>5, <1>15
    <2>q. QED
      BY <1>1, <1>9, <1>15, <1>17, <1>18, <1>20, <1>21, <2>1 DEF InSync, m
  <1>q. QED
    BY <1>1, <1>22 DEF SyncInv, gs
-----------------------------------------------------------------------------
\* A frame that starts: what it is given is dirty.
Waits(fr) == [fr EXCEPT !.stage = "done"]

LEMMA WaitsIs ==
    ASSUME NEW fr \in Proper
    PROVE  /\ Waits(fr) \in Proper /\ Waits(fr).fn = fr.fn /\ Waits(fr).dirty = fr.dirty
           /\ Waits(fr).begun = fr.begun /\ Waits(fr).stage = "done" /\ Waits(fr).got = fr.got
           /\ Stmt(Waits(fr)) = Stmt(fr)
  <1>1. /\ Waits(fr) \in Proper /\ Waits(fr).fn = fr.fn /\ Waits(fr).dirty = fr.dirty
        /\ Waits(fr).begun = fr.begun /\ Waits(fr).stage = "done" /\ Waits(fr).got = fr.got
        /\ Waits(fr).pc = fr.pc
    BY DEF Waits, Proper, FrameRecord
  <1>q. QED
    BY <1>1 DEF Stmt

LEMMA EnterSetup ==
    ASSUME TypeInv, FrameInv, SyncInv, NEW t \in Thread, NEW f \in Func, Enter(t, f), mishap' = {}
    PROVE  LET fs == frames[Main]
               gs == frames'[Main]
               n == Len(fs)
               fr == fs[n]
               new == Frame(f, Given(fr, gdirty))
           IN  /\ n \in Nat \ {0} /\ fr \in Proper /\ gs # <<>>
               /\ Len(gs) = n + 1 /\ \A i \in 1 .. n - 1 : gs[i] = fs[i]
               /\ gs[n] = Waits(fr) /\ gs[n + 1] = new
               /\ gdirty' = gdirty
               /\ InSync(fs, CtxStack, CallCtx, GlobalTaintSymbs, gdirty)
               /\ fr.stage = "run" /\ f \in Defs \ Unnamed /\ Must(Stmt(fr)) /\ Stmt(fr).callee = f
  <1> DEFINE fs == frames[Main]
             gs == frames'[Main]
             n == Len(fs)
             fr == fs[n]
             st == Stmt(fr)
             old == Waits(fr)
             new == Frame(f, Args(t, f))
             b == Front(fs)
             b2 == Append(b, old)
  <1>1. AtStage(t, "run")
    BY DEF Enter
  <1>2. mishap = {} /\ Running(t)
    BY <1>1 DEF Enter, AtStage
  <1>3. t = Main
    BY <1>2, Alone
  <1>4. FrameTypes /\ Main \in Thread
    BY Assumption DEF TypeInv, Assumption
  <1>5. /\ fs \in Seq(Proper) /\ fs # <<>> /\ n \in Nat \ {0}
        /\ Fr(Main) = fr /\ fr \in Proper
        /\ b \in Seq(Proper) /\ Len(b) = n - 1 /\ \A i \in 1 .. n - 1 : b[i] = fs[i]
    BY <1>2, <1>3, <1>4, FrIs
  <1>6. /\ fr.stage = "run" /\ gdirty' = gdirty /\ f \in st.runs
        /\ Must(st) => f = st.callee
        /\ mishap' = IF st.callee = f /\ f \in Defs \ Unnamed THEN mishap ELSE mishap \cup {"implicit"}
    BY <1>1, <1>3, <1>5 DEF AtStage, Enter
  <1>7. f \in Defs \ Unnamed /\ Must(st) /\ st.callee = f
    BY <1>6 DEF Must, Known
  <1>8. InSync(fs, CtxStack, CallCtx, GlobalTaintSymbs, gdirty)
    BY <1>2, <1>5 DEF SyncInv
  <1>9. Args(t, f) = Given(fr, gdirty)
    BY <1>3, <1>5, <1>7 DEF Args, Given, Reads
  <1>10. old \in Proper /\ new \in Proper
    BY <1>5, ArgsAre, FrameIs, WaitsIs
  <1>11. frames' = [frames EXCEPT ![Main] = Append(b2, new)]
    <2>1. Fr(t) = Last(frames[t])
      BY DEF Fr
    <2>2. old = [Last(fs) EXCEPT !.stage = "done"]
      BY <1>3, <1>5, <2>1 DEF Waits
    <2>q. QED
      BY <1>3, <2>2 DEF Enter
  <1> HIDE DEF b, old, new, n, fs
  <1>12. /\ b2 \in Seq(Proper) /\ Len(b2) = Len(b) + 1
         /\ \A i \in 1 .. Len(b) + 1 : b2[i] = IF i <= Len(b) THEN b[i] ELSE old
    BY <1>5, <1>10, AppendProperties
  <1> DEFINE s == Append(b2, new)
  <1> HIDE DEF b2
  <1>13. /\ s \in Seq(Proper) /\ Len(s) = Len(b2) + 1
         /\ \A i \in 1 .. Len(b2) + 1 : s[i] = IF i <= Len(b2) THEN b2[i] ELSE new
    BY <1>10, <1>12, AppendProperties
  <1> HIDE DEF s
  <1>14. Len(b2) = n /\ Len(s) = n + 1 /\ Len(b) = n - 1
    BY <1>5, <1>12, <1>13
  <1>15. /\ \A i \in 1 .. n - 1 : i \in 1 .. n /\ i <= n - 1 /\ i \in 1 .. n + 1 /\ i <= n
         /\ n \in 1 .. n /\ ~(n <= n - 1) /\ n \in 1 .. n + 1 /\ n <= n
         /\ n + 1 \in 1 .. n + 1 /\ ~(n + 1 <= n) /\ n - 1 + 1 = n /\ n + 1 # 0
    BY <1>5
  <1>16. s[n + 1] = new /\ s[n] = old /\ \A i \in 1 .. n - 1 : s[i] = fs[i]
    BY <1>5, <1>12, <1>13, <1>14, <1>15
  <1>17. s # <<>>
    BY <1>13, <1>14, <1>15
  <1>18. gs = s
    BY <1>4, <1>11, <1>13, FramesSet DEF s
  <1>q. QED
    BY <1>5, <1>6, <1>7, <1>8, <1>9, <1>14, <1>16, <1>17, <1>18 DEF n, fs, old, new

LEMMA EnterSynced ==
    ASSUME TypeInv, FrameInv, SyncInv, NEW t \in Thread, NEW f \in Func, Enter(t, f), Called(f),
           mishap' = {}
    PROVE  SyncInv'
  <1> DEFINE fs == frames[Main]
             gs == frames'[Main]
             n == Len(fs)
             fr == fs[n]
             given == Given(fr, gdirty)
             new == Frame(f, given)
             glob == GlobalTaintSymbs
  <1>1. /\ n \in Nat \ {0} /\ fr \in Proper
        /\ Len(gs) = n + 1 /\ \A i \in 1 .. n - 1 : gs[i] = fs[i]
        /\ gs[n] = Waits(fr) /\ gs[n + 1] = new
        /\ gdirty' = gdirty
        /\ InSync(fs, CtxStack, CallCtx, glob, gdirty)
        /\ fr.stage = "run" /\ f \in Defs \ Unnamed /\ Must(Stmt(fr)) /\ Stmt(fr).callee = f
    BY EnterSetup
  <1>2. /\ new.fn = f /\ new.stage = "line" /\ ~new.got /\ ~new.begun /\ new.dirty = given
    BY DEF Frame
  <1>3. IsStack(CtxStack) /\ CallCtx \in ContextRecord \cup {None}
    BY DEF TypeInv, CtxTypes
  <1>4. OnTop(fr, CtxStack, CallCtx, glob, gdirty)
    BY <1>1 DEF InSync
  <1>5. fr.begun
    BY <1>1, <1>4 DEF OnTop
  <1>6. /\ Waits(fr).fn = fr.fn /\ Waits(fr).dirty = fr.dirty /\ Waits(fr).begun
        /\ Stmt(Waits(fr)) = Stmt(fr)
    BY <1>1, <1>5, WaitsIs
  <1> HIDE DEF new, given, glob
  <1>7. Synced(fs) = n /\ n \in 1 .. n
    BY <1>1, <1>5 DEF Synced, Early
  <1> HIDE DEF n, fs, gs
  <1>8. /\ Len(CtxStack) = n /\ gdirty \subseteq glob
        /\ \A i \in 1 .. n : InStep(fs[i], CtxStack[i], glob)
        /\ \A i \in 1 .. n - 1 : Calls(fs[i], CtxStack[i], fs[i + 1].fn) /\ fs[i].begun
        /\ \A i \in 1 .. n - 1 : CtxStack[i + 1].Ret = DefOf(Stmt(fs[i]))
    BY <1>1, <1>7 DEF InSync, n
  <1>9. /\ Calls(fr, CtxStack[n], f) /\ Prepared(fr, CallCtx, f)
        /\ given \subseteq Actual2Formal(CtxStack[n].CalleeLo, CtxStack, glob)
    BY <1>1, <1>4, <1>8 DEF OnTop, given
  <1>10. /\ Last(CtxStack) = CtxStack[n]
         /\ CtxStack[n].CalleeLo # None /\ CtxStack[n].CalleeLo.Callee = f
         /\ CallCtx \in ContextRecord /\ CallCtx # None /\ CallCtx.Func = f /\ CallCtx.FuncDef = f
         /\ CallCtx.Ret = DefOf(Stmt(fr))
    BY <1>3, <1>8, <1>9, StackTop DEF Calls, Prepared
  <1>11. Calls(gs[n], CtxStack[n], f) /\ Prepared(gs[n], CallCtx, f) /\ gs[n].begun
    BY <1>1, <1>6, <1>9 DEF Calls, Prepared
  <1>12. \A i \in 1 .. n : i = n \/ i \in 1 .. n - 1
    BY <1>1
  <1>13. ASSUME NEW i \in 1 .. n
         PROVE  InStep(gs[i], CtxStack[i], glob)
    <2>1. InStep(fs[i], CtxStack[i], glob)
      BY <1>8
    <2>2. CASE i = n
      BY <1>1, <1>6, <2>1, <2>2 DEF InStep
    <2>3. CASE i \in 1 .. n - 1
      BY <1>1, <2>1, <2>3
    <2>q. QED
      BY <1>12, <2>2, <2>3
  <1>14. ASSUME NEW i \in 1 .. n
         PROVE  Calls(gs[i], CtxStack[i], gs[i + 1].fn) /\ gs[i].begun
    <2>1. CASE i = n
      BY <1>1, <1>2, <1>11, <2>1
    <2>2. CASE i \in 1 .. n - 1
      <3>1. i + 1 = n \/ i + 1 \in 1 .. n - 1
        BY <1>1, <2>2
      <3>2. gs[i + 1].fn = fs[i + 1].fn
        BY <1>1, <1>6, <3>1
      <3>q. QED
        BY <1>1, <1>8, <2>2, <3>2
    <2>q. QED
      BY <1>12, <2>1, <2>2
  <1>15. \A i \in 1 .. n - 1 : CtxStack[i + 1].Ret = DefOf(Stmt(gs[i]))
    BY <1>1, <1>8
  <1>16. n + 1 # n /\ n + 1 - 1 = n /\ n + 1 \in 1 .. n + 1
    BY <1>1
  <1>17. CASE f \in Hidden
    <2>1. UNCHANGED <<CtxStack, CallCtx, GlobalTaintSymbs>>
      BY <1>17 DEF Called
    <2>2. Synced(gs) = n
      BY <1>1, <1>2, <1>16, <1>17 DEF Synced, Early
    <2>3. OnTop(new, CtxStack, CallCtx, glob, gdirty)
      BY <1>2 DEF OnTop
    <2>4. InSync(gs, CtxStack, CallCtx, glob, gdirty)
      BY <1>1, <1>2, <1>8, <1>9, <1>11, <1>13, <1>14, <1>15, <1>16, <2>2, <2>3 DEF InSync
    <2>q. QED
      BY <1>1, <2>1, <2>4 DEF SyncInv, gs, glob
  <1>18. CASE f \notin Hidden
    <2> DEFINE stk == PushCtx(CtxStack, GlobalTaintSymbs, CallCtx, f)
    <2>1. Pushes(CtxStack, CallCtx, f)
      BY <1>10 DEF Pushes, Consistent
    <2>2. CtxStack' = stk /\ CallCtx' = None /\ GlobalTaintSymbs' = glob
      BY <1>1, <1>10, <1>18, <2>1 DEF Called, CurCtx, glob
    <2>3. /\ IsStack(stk) /\ Len(stk) = Len(CtxStack) + 1
          /\ \A i \in 1 .. Len(CtxStack) : stk[i] = CtxStack[i]
          /\ stk[Len(CtxStack) + 1].Func = CallCtx.Func /\ stk[Len(CtxStack) + 1].FuncDef = CallCtx.FuncDef
          /\ stk[Len(CtxStack) + 1].Ret = CallCtx.Ret
          /\ Last(CtxStack).CalleeLo # None =>
               Actual2Formal(Last(CtxStack).CalleeLo, CtxStack, GlobalTaintSymbs)
                 \subseteq stk[Len(CtxStack) + 1].TaintSymbs
      BY <1>3, <1>10, PushPrepared
    <2> HIDE DEF stk
    <2>4. /\ Len(stk) = n + 1 /\ \A i \in 1 .. n : stk[i] = CtxStack[i]
          /\ stk[n + 1].Func = f /\ stk[n + 1].FuncDef = f /\ stk[n + 1].Ret = DefOf(Stmt(fr))
          /\ given \subseteq stk[n + 1].TaintSymbs
      BY <1>8, <1>9, <1>10, <2>3 DEF glob
    <2>5. Synced(gs) = n + 1
      BY <1>1, <1>2, <1>18 DEF Synced, Early
    <2>6. OnTop(new, stk, None, glob, gdirty)
      BY <1>2 DEF OnTop
    <2>7. ASSUME NEW i \in 1 .. n + 1
          PROVE  InStep(gs[i], stk[i], glob)
      <3>1. i = n + 1 \/ i \in 1 .. n
        BY <1>1
      <3>2. CASE i = n + 1
        BY <1>1, <1>2, <2>4, <3>2 DEF InStep
      <3>3. CASE i \in 1 .. n
        BY <1>13, <2>4, <3>3
      <3>q. QED
        BY <3>1, <3>2, <3>3
    <2>8. \A i \in 1 .. n : Calls(gs[i], stk[i], gs[i + 1].fn) /\ gs[i].begun
      BY <1>14, <2>4
    <2>9. ASSUME NEW i \in 1 .. n
          PROVE  stk[i + 1].Ret = DefOf(Stmt(gs[i]))
      <3>1. CASE i = n
        BY <1>1, <1>6, <2>4, <3>1
      <3>2. CASE i \in 1 .. n - 1
        <4>1. i + 1 \in 1 .. n
          BY <1>1, <3>2
        <4>q. QED
          BY <1>15, <2>4, <3>2, <4>1
      <3>q. QED
        BY <1>12, <3>1, <3>2
    <2>10. InSync(gs, stk, None, glob, gdirty)
      BY <1>1, <1>8, <1>16, <2>4, <2>5, <2>6, <2>7, <2>8, <2>9 DEF InSync
    <2>q. QED
      BY <1>1, <2>2, <2>10 DEF SyncInv, gs
  <1>q. QED
    BY <1>17, <1>18
-----------------------------------------------------------------------------
\* A frame that goes on when the one above it ended.
Resumed(fr, stage, got) == [fr EXCEPT !.stage = stage, !.got = got]

LEMMA ResumedIs ==
    ASSUME NEW fr \in Proper, NEW stage \in {"done", "failed"}, NEW got \in BOOLEAN
    PROVE  LET to == Resumed(fr, stage, got)
           IN  /\ to \in Proper /\ to.fn = fr.fn /\ to.dirty = fr.dirty /\ to.begun = fr.begun
               /\ to.stage = stage /\ to.got = got /\ Stmt(to) = Stmt(fr)
  <1> DEFINE to == Resumed(fr, stage, got)
  <1>1. /\ to \in Proper /\ to.fn = fr.fn /\ to.dirty = fr.dirty /\ to.begun = fr.begun
        /\ to.stage = stage /\ to.got = got /\ to.pc = fr.pc
    BY DEF Resumed, Proper, FrameRecord
  <1> HIDE DEF to
  <1>2. Stmt(to) = Stmt(fr)
    BY <1>1 DEF Stmt
  <1>q. QED
    BY <1>1, <1>2 DEF to

LEMMA LeaveIs ==
    ASSUME FrameTypes, NEW t \in Thread, Running(t), NEW stage \in {"done", "failed"},
           NEW got \in BOOLEAN, Leave(t, stage, got)
    PROVE  LET fs == frames[t]
               gs == frames'[t]
               n == Len(fs)
           IN  /\ n = 1 => gs = <<>>
               /\ n # 1 => /\ Len(gs) = n - 1 /\ gs[n - 1] = Resumed(fs[n - 1], stage, got)
                           /\ \A i \in 1 .. n - 2 : gs[i] = fs[i]
  <1> DEFINE fs == frames[t]
             gs == frames'[t]
             n == Len(fs)
             b == Front(fs)
             fr == [b[n - 1] EXCEPT !.stage = stage, !.got = got]
             s == IF n = 1 THEN <<>> ELSE Append(Front(b), fr)
  <1>1. frames' = [frames EXCEPT ![t] = s]
    BY DEF Leave
  <1>2. gs = s
    BY <1>1 DEF FrameTypes
  <1>3. /\ n \in Nat \ {0} /\ fs \in Seq(Proper) /\ b \in Seq(Proper) /\ Len(b) = n - 1
        /\ \A i \in 1 .. n - 1 : b[i] = fs[i]
    BY FrIs
  <1>4. CASE n # 1
    <2> HIDE DEF b, n, fs, gs
    <2>1. n - 1 \in 1 .. n - 1 /\ n - 1 \in Nat \ {0} /\ n - 1 - 1 = n - 2
      BY <1>3, <1>4
    <2>2. /\ Front(b) \in Seq(Proper) /\ Len(Front(b)) = n - 2
          /\ \A i \in 1 .. n - 2 : Front(b)[i] = b[i]
      <3>1. b # <<>>
        BY <1>3, <2>1
      <3>2. IsSeq(b)
        BY <1>3, SeqIsSeq
      <3>3. /\ Len(Front(b)) = Len(b) - 1
            /\ \A i \in 1 .. Len(b) - 1 : Front(b)[i] = b[i]
        BY <3>1, <3>2, FrontLast
      <3>4. Front(b) \in Seq(Proper)
        BY <1>3, <3>1 DEF Front
      <3>q. QED
        BY <1>3, <2>1, <3>3, <3>4
    <2> DEFINE d == Front(b)
    <2> HIDE DEF d
    <2>3. b[n - 1] = fs[n - 1] /\ b[n - 1] \in Proper
      BY <1>3, <2>1
    <2>4. fr = Resumed(fs[n - 1], stage, got) /\ fr \in Proper
      BY <2>3, ResumedIs DEF Resumed
    <2> HIDE DEF fr
    <2>5. gs = Append(d, fr)
      BY <1>2, <1>4 DEF d
    <2>6. /\ Len(gs) = Len(d) + 1 /\ \A i \in 1 .. Len(d) + 1 : gs[i] = IF i <= Len(d) THEN d[i] ELSE fr
      BY <2>2, <2>4, <2>5, AppendProperties DEF d
    <2>7. Len(d) = n - 2 /\ n - 2 + 1 = n - 1 /\ n - 2 \in Nat /\ ~(n - 1 <= n - 2)
      BY <1>3, <2>1, <2>2 DEF d
    <2>8. Len(gs) = n - 1 /\ gs[n - 1] = fr
      BY <2>1, <2>6, <2>7
    <2>9. ASSUME NEW i \in 1 .. n - 2
          PROVE  gs[i] = fs[i]
      <3>1. i \in 1 .. n - 1 /\ i <= n - 2
        BY <1>3, <1>4
      <3>2. gs[i] = d[i] /\ b[i] = fs[i]
        BY <1>3, <2>6, <2>7, <3>1
      <3>q. QED
        BY <2>2, <3>2 DEF d
    <2>q. QED
      BY <1>4, <2>4, <2>8, <2>9 DEF fs, gs, n
  <1>5. CASE n = 1
    BY <1>2, <1>5
  <1>q. QED
    BY <1>4, <1>5

\* What popping adds to the global symbols.
LEMMA BackGlobIs ==
    ASSUME NEW stk, IsStack(stk)
    PROVE  /\ GlobalTaintSymbs \subseteq BackGlob(stk)
           /\ RetSymb \cap Dotted \subseteq BackGlob(stk)
           /\ LET lo == stk[Len(stk)].CalleeLo
              IN  lo # None /\ lo.Callee \in Criteria => {lo.Def} \cap Dotted \subseteq BackGlob(stk)
  <1>1. Last(stk) = stk[Len(stk)]
    BY StackTop
  <1>q. QED
    BY <1>1 DEF BackGlob, PoppedGlob, Global

\* The frame on top ends and its context is popped.
LEMMA LeavingSynced ==
    ASSUME TypeInv, SyncInv, mishap = {}, Running(Main), CurCtx.Func # "main",
           Fr(Main).stage # "line",
           NEW stage \in {"done", "failed"}, NEW got \in BOOLEAN, Leave(Main, stage, got),
           got => stage = "done" /\ Fr(Main).stage = "leave" /\ Fr(Main).got,
           Returned, UNCHANGED <<gdirty, CallCtx>>
    PROVE  SyncInv'
  <1> DEFINE fs == frames[Main]
             gs == frames'[Main]
             n == Len(fs)
             m == n - 1
             fr == fs[n]
             glob == GlobalTaintSymbs
             stk == Front(CtxStack)
             new == Back(stk)
             gnew == BackGlob(stk)
  <1>1. FrameTypes /\ Main \in Thread /\ CtxTypes
    BY Assumption DEF TypeInv, Assumption
  <1>2. /\ fs \in Seq(Proper) /\ fs # <<>> /\ n \in Nat \ {0}
        /\ Fr(Main) = fr /\ fr \in Proper
    BY <1>1, FrIs
  <1>3. InSync(fs, CtxStack, CallCtx, glob, gdirty)
    BY <1>2 DEF SyncInv
  <1>4. /\ n = 1 => gs = <<>>
        /\ n # 1 => /\ Len(gs) = m /\ gs[m] = Resumed(fs[m], stage, got)
                    /\ \A i \in 1 .. n - 2 : gs[i] = fs[i]
    BY <1>1, LeaveIs
  <1>5. OnTop(fr, CtxStack, CallCtx, glob, gdirty)
    BY <1>3 DEF InSync
  <1>6. fr.begun
    BY <1>2, <1>5 DEF OnTop
  <1>7. Synced(fs) = n
    BY <1>6 DEF Synced, Early
  <1> HIDE DEF glob
  <1>8. CASE n = 1
    BY <1>4, <1>8 DEF SyncInv
  <1>9. CASE n # 1
    <2> HIDE DEF fs, gs, n
    <2>1. m \in Nat \ {0} /\ m \in 1 .. m /\ m + 1 = n /\ n - 2 = m - 1 /\ m \in 1 .. n /\ n > 1
      BY <1>2, <1>9
    <2>2. \A i \in 1 .. m : i = m \/ i \in 1 .. m - 1
      BY <2>1
    <2>3. /\ Len(CtxStack) = n /\ gdirty \subseteq glob
          /\ \A i \in 1 .. n : InStep(fs[i], CtxStack[i], glob)
          /\ \A i \in 1 .. m : Calls(fs[i], CtxStack[i], fs[i + 1].fn) /\ fs[i].begun
          /\ \A i \in 1 .. m : CtxStack[i + 1].Ret = DefOf(Stmt(fs[i]))
      BY <1>3, <1>7 DEF InSync, n
    <2>4. IsStack(CtxStack) /\ Last(CtxStack) = CtxStack[n]
      BY <1>1, <2>3, StackTop DEF CtxTypes
    <2>5. CtxStack' = new /\ GlobalTaintSymbs' = gnew
      <3>1. ~(Len(CtxStack) <= 1)
        BY <2>1, <2>3
      <3>q. QED
        BY <3>1 DEF Returned, Back, BackGlob
    <2>6. /\ IsStack(stk) /\ Len(stk) = m /\ \A i \in 1 .. m : stk[i] = CtxStack[i]
      <3>1. Len(CtxStack) > 1
        BY <2>1, <2>3
      <3>q. QED
        BY <2>3, <2>4, <3>1, FrontIs
    <2> HIDE DEF stk
    <2> DEFINE c == stk[m]
               d == new[m]
               cl == fs[m]
    <2>7. /\ Len(new) = m /\ \A i \in 1 .. m - 1 : new[i] = stk[i]
          /\ \E S \in SUBSET Symbols :
               /\ d = [c EXCEPT !.TaintSymbs = @ \cup S]
               /\ RetSymb \ (Dotted \cup {None}) \subseteq S
               /\ c.CalleeLo # None /\ c.CalleeLo.Callee \in Criteria =>
                    {c.CalleeLo.Def} \ (Dotted \cup {None}) \subseteq S
      <3> HIDE DEF new
      <3>1. /\ Len(Back(stk)) = Len(stk)
            /\ \A i \in 1 .. Len(stk) - 1 : Back(stk)[i] = stk[i]
            /\ \E S \in SUBSET Symbols :
                 /\ Back(stk)[Len(stk)] = [stk[Len(stk)] EXCEPT !.TaintSymbs = @ \cup S]
                 /\ RetSymb \ (Dotted \cup {None}) \subseteq S
                 /\ LET lo == stk[Len(stk)].CalleeLo
                    IN  lo # None /\ lo.Callee \in Criteria => {lo.Def} \ (Dotted \cup {None}) \subseteq S
        BY <1>1, <2>6, BackIs
      <3>q. QED
        BY <2>6, <3>1 DEF new
    <2>8. /\ glob \subseteq gnew /\ RetSymb \cap Dotted \subseteq gnew
          /\ c.CalleeLo # None /\ c.CalleeLo.Callee \in Criteria => {c.CalleeLo.Def} \cap Dotted \subseteq gnew
      BY <2>6, BackGlobIs DEF glob
    <2> HIDE DEF new, gnew
    <2>9. c \in ContextRecord /\ c = CtxStack[m]
      BY <2>1, <2>6 DEF IsStack
    <2> HIDE DEF c
    <2>10. /\ d.Func = c.Func /\ d.FuncDef = c.FuncDef /\ d.Ret = c.Ret /\ d.CalleeLo = c.CalleeLo
           /\ c.TaintSymbs \subseteq d.TaintSymbs /\ RetSymb \ (Dotted \cup {None}) \subseteq d.TaintSymbs
           /\ c.CalleeLo # None /\ c.CalleeLo.Callee \in Criteria =>
                {c.CalleeLo.Def} \ (Dotted \cup {None}) \subseteq d.TaintSymbs
      BY <2>7, <2>9 DEF ContextRecord
    <2> DEFINE to == Resumed(cl, stage, got)
               st == Stmt(cl)
    <2>11. cl \in Proper
      BY <1>2, <2>1 DEF n
    <2>12. /\ to.fn = cl.fn /\ to.dirty = cl.dirty /\ to.begun = cl.begun
           /\ to.stage = stage /\ to.got = got /\ Stmt(to) = st
      BY <2>11, ResumedIs
    <2>13. Calls(cl, c, fr.fn) /\ cl.begun /\ InStep(cl, c, glob) /\ CtxStack[n].Ret = DefOf(st)
      BY <2>1, <2>3, <2>9
    <2>14. gs[m] = to /\ to.begun
      BY <1>4, <1>9, <2>12, <2>13
    <2>15. Must(st) /\ Len(st.def) <= 1 /\ IsStatement(st)
           /\ c.CalleeLo # None /\ c.CalleeLo.Callee = st.callee /\ c.CalleeLo.Def = DefOf(st)
      BY <2>11, <2>13, ProperIs DEF Calls
    <2>16. got => RetSymb = {DefOf(st)}
      <3>1. got => CurCtx.RetTaint
        BY <1>2, <1>5, <2>3, <2>4 DEF OnTop, CurCtx
      <3>2. CurCtx.Ret = DefOf(st)
        BY <2>4, <2>13 DEF CurCtx
      <3>q. QED
        BY <3>1, <3>2 DEF RetSymb
    <2>17. got \/ st.callee \in Criteria => Keeps(st, d, gnew)
      <3>1. CASE got
        BY <2>8, <2>10, <2>15, <2>16, <3>1, KeepsIs
      <3>2. CASE st.callee \in Criteria
        BY <2>8, <2>10, <2>15, <3>2, KeepsIs
      <3>q. QED
        BY <3>1, <3>2
    <2> HIDE DEF to, st
    <2>18. OnTop(to, new, CallCtx, gnew, gdirty)
      BY <2>7, <2>12, <2>13, <2>15, <2>17 DEF OnTop
    <2>19. Synced(gs) = m
      BY <1>4, <1>9, <2>14 DEF Synced, Early
    <2>20. ASSUME NEW i \in 1 .. m
           PROVE  InStep(gs[i], new[i], gnew)
      <3>1. CASE i = m
        BY <2>8, <2>10, <2>12, <2>13, <2>14, <3>1 DEF InStep
      <3>2. CASE i \in 1 .. m - 1
        <4>1. gs[i] = fs[i] /\ new[i] = CtxStack[i] /\ i \in 1 .. n
          BY <1>4, <1>9, <2>1, <2>6, <2>7, <3>2
        <4>q. QED
          BY <2>3, <2>8, <4>1 DEF InStep
      <3>q. QED
        BY <2>2, <3>1, <3>2
    <2>21. ASSUME NEW i \in 1 .. m - 1
           PROVE  /\ Calls(gs[i], new[i], gs[i + 1].fn) /\ gs[i].begun
                  /\ new[i + 1].Ret = DefOf(Stmt(gs[i]))
      <3>1. i \in 1 .. m /\ i + 1 \in 1 .. m
        BY <2>1
      <3>2. gs[i] = fs[i] /\ new[i] = CtxStack[i]
        BY <1>4, <1>9, <2>1, <2>6, <2>7, <3>1
      <3>3. gs[i + 1].fn = fs[i + 1].fn /\ new[i + 1].Ret = CtxStack[i + 1].Ret
        <4>1. CASE i + 1 = m
          BY <2>9, <2>10, <2>12, <2>14, <4>1
        <4>2. CASE i + 1 \in 1 .. m - 1
          BY <1>4, <1>9, <2>1, <2>6, <2>7, <3>1, <4>2
        <4>q. QED
          BY <2>2, <3>1, <4>1, <4>2
      <3>q. QED
        BY <2>3, <3>1, <3>2, <3>3
    <2>22. InSync(gs, new, CallCtx, gnew, gdirty)
      <3>1. m # m - 1 /\ gdirty \subseteq gnew
        BY <2>1, <2>3, <2>8
      <3>q. QED
        BY <1>4, <1>9, <2>7, <2>14, <2>18, <2>19, <2>20, <2>21, <3>1 DEF InSync
    <2>q. QED
      BY <2>5, <2>22 DEF SyncInv, gs
  <1>q. QED
    BY <1>8, <1>9

LEMMA ReturnSynced ==
    ASSUME TypeInv, FrameInv, SyncInv, NEW t \in Thread, ReturnEvent(t) \/ RaiseEvent(t), mishap' = {}
    PROVE  SyncInv'
  <1>1. Running(t) /\ Fr(t).stage # "line" /\ Returned /\ UNCHANGED <<gdirty, CallCtx>>
    BY DEF ReturnEvent, RaiseEvent, AtStage
  <1>2. mishap = {} /\ CurCtx.Func # "main"
    BY DEF ReturnEvent, RaiseEvent
  <1>3. t = Main
    BY <1>1, <1>2, Alone
  <1>4. FrameTypes
    BY DEF TypeInv
  <1>5. CASE ReturnEvent(t)
    <2>1. Fr(t).got \in BOOLEAN
      BY <1>1, <1>4, FrIs DEF Proper, FrameRecord
    <2>2. Fr(t).stage = "leave" /\ Leave(t, "done", Fr(t).got)
      BY <1>5 DEF ReturnEvent, AtStage
    <2>q. QED
      BY <1>1, <1>2, <1>3, <2>1, <2>2, LeavingSynced
  <1>6. CASE RaiseEvent(t)
    <2>1. Leave(t, "failed", FALSE)
      BY <1>6 DEF RaiseEvent
    <2>q. QED
      BY <1>1, <1>2, <1>3, <2>1, LeavingSynced
  <1>q. QED
    BY <1>5, <1>6
-----------------------------------------------------------------------------
\* Steps the trace function is not called for.
LEMMA QuietSynced ==
    ASSUME TypeInv, SyncInv, mishap = {}, Running(Main),
           NEW to \in Proper, frames' = WithTop(Main, to),
           UNCHANGED <<CtxStack, CallCtx, GlobalTaintSymbs>>,
           LET fr == frames[Main][Len(frames[Main])]
               ctx == CtxStack[Len(CtxStack)]
           IN  /\ fr.begun /\ to.fn = fr.fn /\ to.begun
               /\ gdirty' \subseteq GlobalTaintSymbs
               /\ to.dirty \subseteq ctx.TaintSymbs \cup GlobalTaintSymbs
               /\ OnTop(to, CtxStack, CallCtx, GlobalTaintSymbs, gdirty')
    PROVE  SyncInv'
  <1> DEFINE fs == frames[Main]
             gs == frames'[Main]
             n == Len(fs)
             fr == fs[n]
  <1>1. FrameTypes /\ Main \in Thread
    BY Assumption DEF TypeInv, Assumption
  <1>2. n \in Nat \ {0} /\ fs # <<>>
    BY <1>1, FrIs
  <1>3. InSync(fs, CtxStack, CallCtx, GlobalTaintSymbs, gdirty)
    BY <1>2 DEF SyncInv
  <1>4. Len(gs) = n /\ gs[n] = to /\ \A i \in 1 .. n - 1 : gs[i] = fs[i]
    BY <1>1, TopIs
  <1>5. ~Early(fr) /\ ~Early(to)
    BY DEF Early
  <1>6. Synced(fs) = n
    BY <1>5 DEF Synced
  <1>7. Len(CtxStack) = n
    BY <1>3, <1>6 DEF InSync
  <1>8. /\ gs[n].fn = fr.fn /\ gs[n].dirty \subseteq CtxStack[n].TaintSymbs \cup GlobalTaintSymbs
        /\ OnTop(gs[n], CtxStack, CallCtx, GlobalTaintSymbs, gdirty') /\ ~Early(gs[n])
    BY <1>4, <1>5, <1>7
  <1> HIDE DEF fs, gs, n
  <1>9. PICK gd : gd = gdirty'
    OBVIOUS
  <1>10. InSync(gs, CtxStack, CallCtx, GlobalTaintSymbs, gd)
    <2>1. Len(fs) = n /\ ~Early(fs[n])
      BY <1>5 DEF n
    <2>2. gd \subseteq GlobalTaintSymbs /\ OnTop(gs[n], CtxStack, CallCtx, GlobalTaintSymbs, gd)
      BY <1>8, <1>9
    <2>q. QED
      BY <1>2, <1>3, <1>4, <1>7, <1>8, <2>1, <2>2, TopSynced
  <1>q. QED
    BY <1>9, <1>10 DEF SyncInv, gs

LEMMA QuietSetup ==
    ASSUME TypeInv, FrameInv, SyncInv, mishap = {}, NEW t \in Thread, Running(t), Fr(t).stage # "line"
    PROVE  LET fr == frames[Main][Len(frames[Main])]
               ctx == CtxStack[Len(CtxStack)]
           IN  /\ t = Main /\ Fr(t) = fr /\ fr \in Proper /\ fr.begun
               /\ IsStatement(Stmt(fr)) /\ Stmt(fr).spawns = None
               /\ InStep(fr, ctx, GlobalTaintSymbs) /\ gdirty \subseteq GlobalTaintSymbs
               /\ OnTop(fr, CtxStack, CallCtx, GlobalTaintSymbs, gdirty)
  <1> DEFINE fs == frames[Main]
             n == Len(fs)
             fr == fs[n]
  <1>1. FrameTypes /\ t = Main
    BY Alone DEF TypeInv
  <1>2. n \in Nat \ {0} /\ fs # <<>> /\ Fr(t) = fr /\ fr \in Proper
    BY <1>1, FrIs
  <1>3. InSync(fs, CtxStack, CallCtx, GlobalTaintSymbs, gdirty)
    BY <1>2 DEF SyncInv
  <1>4. OnTop(fr, CtxStack, CallCtx, GlobalTaintSymbs, gdirty)
    BY <1>3 DEF InSync
  <1>5. fr.begun /\ fr.stage \notin {"enter", "line"}
    BY <1>2, <1>4 DEF OnTop
  <1>6. Stmt(fr).spawns = None
    <2>1. Stack(frames[t], One) /\ One
      BY DEF FrameInv, One
    <2>q. QED
      BY <1>2, <1>5, <2>1 DEF Stack, Told, Running, Fr
  <1>7. IsStatement(Stmt(fr))
    BY <1>2, ProperIs
  <1> HIDE DEF fs, n
  <1>8. Synced(fs) = n /\ n \in 1 .. n
    BY <1>2, <1>5 DEF Synced, Early, n
  <1>9. InStep(fr, CtxStack[Len(CtxStack)], GlobalTaintSymbs) /\ gdirty \subseteq GlobalTaintSymbs
    BY <1>3, <1>8 DEF InSync
  <1>q. QED
    BY <1>1, <1>2, <1>4, <1>5, <1>6, <1>7, <1>9 DEF fs, n

LEMMA CatchSynced ==
    ASSUME TypeInv, FrameInv, SyncInv, NEW t \in Thread, Catch(t), mishap' = {}
    PROVE  SyncInv'
  <1> DEFINE fr == frames[Main][Len(frames[Main])]
             ctx == CtxStack[Len(CtxStack)]
             to == Goto(fr, fr.pc + 1)
  <1>1. /\ mishap = {} /\ Running(t) /\ Fr(t).stage = "failed" /\ frames' = WithTop(t, Goto(Fr(t), Fr(t).pc + 1))
        /\ UNCHANGED <<gdirty, CtxStack, CallCtx, GlobalTaintSymbs>>
    BY DEF Catch, AtStage, inspector
  <1>2. /\ t = Main /\ Fr(t) = fr /\ fr \in Proper /\ fr.begun
        /\ InStep(fr, ctx, GlobalTaintSymbs) /\ gdirty \subseteq GlobalTaintSymbs
        /\ OnTop(fr, CtxStack, CallCtx, GlobalTaintSymbs, gdirty)
    BY <1>1, QuietSetup
  <1> HIDE DEF fr, ctx
  <1>3. ~fr.got
    BY <1>1, <1>2 DEF OnTop
  <1>4. /\ to \in Proper /\ to.fn = fr.fn /\ to.begun /\ to.dirty = fr.dirty /\ ~to.got
        /\ to.stage \in {"line", "leave"}
    <2>1. to \in Proper
      BY <1>2, GotoTypes
    <2>q. QED
      BY <1>2, <1>3, <2>1 DEF Goto, Proper, FrameRecord
  <1> HIDE DEF to
  <1>5. OnTop(to, CtxStack, CallCtx, GlobalTaintSymbs, gdirty)
    BY <1>4 DEF OnTop
  <1>6. /\ frames' = WithTop(Main, to) /\ gdirty' = gdirty
        /\ to.dirty \subseteq ctx.TaintSymbs \cup GlobalTaintSymbs
    BY <1>1, <1>2, <1>4 DEF InStep, to
  <1>q. QED
    BY <1>1, <1>2, <1>4, <1>5, <1>6, QuietSynced DEF fr, ctx

LEMMA CTracesSynced ==
    ASSUME TypeInv, FrameInv, SyncInv, NEW t \in Thread, CTraces(t), mishap' = {}
    PROVE  SyncInv'
  <1> DEFINE fr == frames[Main][Len(frames[Main])]
             ctx == CtxStack[Len(CtxStack)]
             to == Waits(fr)
  <1>1. /\ mishap = {} /\ Running(t) /\ Fr(t).stage = "run" /\ ~Must(Stmt(Fr(t)))
        /\ frames' = WithTop(t, Waits(Fr(t)))
        /\ UNCHANGED <<gdirty, CtxStack, CallCtx, GlobalTaintSymbs>>
    BY DEF CTraces, AtStage, Waits
  <1>2. /\ t = Main /\ Fr(t) = fr /\ fr \in Proper /\ fr.begun
        /\ InStep(fr, ctx, GlobalTaintSymbs) /\ gdirty \subseteq GlobalTaintSymbs
        /\ OnTop(fr, CtxStack, CallCtx, GlobalTaintSymbs, gdirty)
    BY <1>1, QuietSetup
  <1>3. /\ to \in Proper /\ to.fn = fr.fn /\ to.begun /\ to.dirty = fr.dirty /\ to.stage = "done"
        /\ Stmt(to) = Stmt(fr)
    BY <1>2, WaitsIs
  <1> HIDE DEF fr, ctx, to
  <1>4. SomeDirty(to, gdirty) = SomeDirty(fr, gdirty)
    BY <1>3 DEF SomeDirty
  <1>5. fr.stage = "run" /\ ~Must(Stmt(fr))
    BY <1>1, <1>2
  <1>6. OnTop(to, CtxStack, CallCtx, GlobalTaintSymbs, gdirty)
    BY <1>2, <1>3, <1>4, <1>5 DEF OnTop
  <1>7. /\ frames' = WithTop(Main, to) /\ gdirty' = gdirty
        /\ to.dirty \subseteq ctx.TaintSymbs \cup GlobalTaintSymbs
    BY <1>1, <1>2, <1>3 DEF InStep, to
  <1>q. QED
    BY <1>1, <1>2, <1>3, <1>6, <1>7, QuietSynced DEF fr, ctx

LEMMA CompleteSynced ==
    ASSUME TypeInv, FrameInv, SyncInv, NEW t \in Thread, Complete(t), mishap' = {}
    PROVE  SyncInv'
  <1> DEFINE fr == frames[Main][Len(frames[Main])]
             ctx == CtxStack[Len(CtxStack)]
             st == Stmt(fr)
             glob == GlobalTaintSymbs
             after == Effect(fr, st)
             defs == Range(st.def) \cap Dotted
             nexts == IF st.op = "return"
                      THEN {[after EXCEPT !.stage = "leave", !.got = ReadsDirty(fr, st)]}
                      ELSE {Goto(after, pc) : pc \in {fr.pc + 1} \cup (IF st.op = "if" THEN {st.to} ELSE {})}
  <1>1. /\ mishap = {} /\ Running(t) /\ (Fr(t).stage = "done" \/ (Fr(t).stage = "run" /\ ~Must(Stmt(Fr(t)))))
        /\ UNCHANGED <<CtxStack, CallCtx, GlobalTaintSymbs>>
    BY DEF Complete, inspector
  <1>2. /\ t = Main /\ Fr(t) = fr /\ fr \in Proper /\ fr.begun
        /\ IsStatement(st) /\ st.spawns = None
        /\ InStep(fr, ctx, glob) /\ gdirty \subseteq glob
        /\ OnTop(fr, CtxStack, CallCtx, glob, gdirty)
    BY <1>1, QuietSetup
  <1>3. /\ gdirty' = (IF Result(fr, st) THEN gdirty \cup defs ELSE gdirty \ defs)
        /\ \E next \in nexts : frames' = WithTop(Main, next)
    <2> HIDE DEF fr
    <2>1. LET xr == Fr(t)
              xt == Stmt(xr)
              xafter == Effect(xr, xt)
              xs == IF xt.op = "return"
                    THEN {[xafter EXCEPT !.stage = "leave", !.got = ReadsDirty(xr, xt)]}
                    ELSE {Goto(xafter, pc) : pc \in {xr.pc + 1} \cup (IF xt.op = "if" THEN {xt.to} ELSE {})}
          IN  /\ gdirty' = IF Result(xr, xt) THEN gdirty \cup (Range(xt.def) \cap Dotted)
                           ELSE gdirty \ (Range(xt.def) \cap Dotted)
              /\ xt.spawns = None => \E next \in xs : frames' = WithTop(t, next)
      BY DEF Complete
    <2>q. QED
      BY <1>2, <2>1
  <1> HIDE DEF fr, ctx, glob, defs
  <1>4. SomeDirty(fr, gdirty) = ReadsDirty(fr, st)
    BY DEF SomeDirty, ReadsDirty, Reads
  <1> HIDE DEF st
  <1>5. fr.stage = "done" \/ (fr.stage = "run" /\ ~Must(st))
    BY <1>1, <1>2 DEF st
  <1>6. /\ ~Must(st) =>
             /\ st.callee \in Criteria \/ ReadsDirty(fr, st) => Keeps(st, ctx, glob)
             /\ st.op = "return" /\ ReadsDirty(fr, st) => ctx.RetTaint
        /\ Must(st) /\ (fr.got \/ st.callee \in Criteria) => Keeps(st, ctx, glob)
    BY <1>2, <1>4, <1>5 DEF OnTop, ctx, st
  <1>7. Result(fr, st) => Keeps(st, ctx, glob)
    BY <1>6 DEF Result
  <1>8. gdirty' \subseteq glob
    <2>1. Keeps(st, ctx, glob) => defs \subseteq glob
      BY DEF Keeps, defs
    <2>q. QED
      BY <1>2, <1>3, <1>7, <2>1
  <1>9. /\ after \in Proper /\ after.fn = fr.fn /\ after.pc = fr.pc /\ after.begun = fr.begun /\ ~after.got
        /\ after.dirty \subseteq ctx.TaintSymbs \cup glob
    <2>1. after \in Proper /\ after.fn = fr.fn /\ after.pc = fr.pc
      BY <1>2, EffectTypes DEF st
    <2>2. after.begun = fr.begun /\ ~after.got
      BY <1>2 DEF Effect, Proper, FrameRecord
    <2>3. after.dirty = IF Result(fr, st) THEN fr.dirty \cup (Range(st.def) \ Dotted)
                        ELSE fr.dirty \ Range(st.def)
      BY <1>2 DEF Effect, Proper, FrameRecord
    <2>4. Keeps(st, ctx, glob) => Range(st.def) \subseteq ctx.TaintSymbs \cup glob
      BY DEF Keeps
    <2>5. fr.dirty \subseteq ctx.TaintSymbs \cup glob
      BY <1>2 DEF InStep
    <2> HIDE DEF after
    <2>q. QED
      BY <1>7, <2>1, <2>2, <2>3, <2>4, <2>5
  <1>10. PICK to \in nexts : frames' = WithTop(Main, to)
    BY <1>3
  <1> HIDE DEF after
  <1>11. /\ to \in Proper /\ to.fn = fr.fn /\ to.begun /\ to.dirty = after.dirty
         /\ to.stage \in {"line", "leave"} /\ (to.stage = "line" => ~to.got)
         /\ to.got => st.op = "return" /\ ReadsDirty(fr, st)
    <2>1. CASE st.op = "return"
      <3>1. to = [after EXCEPT !.stage = "leave", !.got = ReadsDirty(fr, st)]
        BY <1>10, <2>1
      <3>2. ReadsDirty(fr, st) \in BOOLEAN
        BY DEF ReadsDirty
      <3>q. QED
        BY <1>2, <1>9, <2>1, <3>1, <3>2 DEF Proper, FrameRecord
    <2>2. CASE st.op # "return"
      <3>1. PICK pc : to = Goto(after, pc)
        BY <1>10, <2>2
      <3>2. to \in Proper
        BY <1>9, <3>1, GotoTypes
      <3>q. QED
        BY <1>2, <1>9, <3>1, <3>2 DEF Goto, Proper, FrameRecord
    <2>q. QED
      BY <2>1, <2>2
  <1>12. st.op = "return" => ~Must(st)
    BY <1>2, Assumption DEF IsStatement, Must, Known, Assumption
  <1>13. OnTop(to, CtxStack, CallCtx, glob, gdirty')
    BY <1>6, <1>11, <1>12 DEF OnTop, ctx
  <1>14. to.dirty \subseteq ctx.TaintSymbs \cup glob
    BY <1>9, <1>11
  <1> HIDE DEF nexts
  <1>q. QED
    BY <1>1, <1>2, <1>8, <1>10, <1>11, <1>13, <1>14, QuietSynced DEF fr, ctx, glob

LEMMA InitSynced ==
    ASSUME Init
    PROVE  SyncInv
  <1> DEFINE first == Frame(Top, {})
             ctx == Context(Top, None)
             fs == frames[Main]
  <1>1. /\ frames = [t \in Thread |-> IF t = Main THEN <<first>> ELSE <<>>]
        /\ CtxStack = <<ctx>>
        /\ gdirty = {} /\ CallCtx = None /\ GlobalTaintSymbs = {}
    BY DEF Init
  <1>2. /\ first.fn = Top /\ first.stage = "line" /\ ~first.got /\ first.dirty = {}
        /\ ctx.Func = Top /\ ctx.FuncDef = Top /\ Top \notin Hidden
    BY Assumption DEF Frame, Context, Assumption
  <1> HIDE DEF first, ctx
  <1>3. /\ fs = <<first>> /\ Len(fs) = 1 /\ fs[1] = first
        /\ Len(CtxStack) = 1 /\ CtxStack[1] = ctx
    BY <1>1, Assumption, OneSeq DEF Assumption
  <1> HIDE DEF fs
  <1>4. Synced(fs) = 1
    BY <1>2, <1>3 DEF Synced, Early
  <1>5. OnTop(first, CtxStack, CallCtx, GlobalTaintSymbs, gdirty)
    BY <1>2 DEF OnTop
  <1>6. InStep(first, ctx, GlobalTaintSymbs)
    BY <1>2 DEF InStep
  <1>7. InSync(fs, CtxStack, CallCtx, GlobalTaintSymbs, gdirty)
    <2>1. 1 # 1 - 1 /\ 1 .. 1 - 1 = {} /\ \A i \in 1 .. 1 : i = 1
      OBVIOUS
    <2>2. gdirty \subseteq GlobalTaintSymbs
      BY <1>1
    <2>q. QED
      BY <1>3, <1>4, <1>5, <1>6, <2>1, <2>2 DEF InSync
  <1>q. QED
    BY <1>7 DEF SyncInv, fs

LEMMA StepSynced ==
    ASSUME TypeInv, FrameInv, SyncInv, [Next]_vars
    PROVE  SyncInv'
  <1> SUFFICES ASSUME mishap' = {}
               PROVE  SyncInv'
    BY DEF SyncInv
  <1>1. ASSUME NEW t \in Thread, LineEvent(t)
        PROVE  SyncInv'
    BY <1>1, LineSynced, EarlySynced
  <1>2. ASSUME NEW t \in Thread, CallEvent(t)
        PROVE  SyncInv'
    BY <1>2, EnterSynced DEF CallEvent
  <1>3. ASSUME NEW t \in Thread, StartEvent(t)
        PROVE  FALSE
    <2>1. mishap = {} /\ Running(t) /\ Fr(t).stage = "enter"
      BY <1>3 DEF StartEvent, AtStage
    <2>2. OnTop(Fr(t), CtxStack, CallCtx, GlobalTaintSymbs, gdirty)
      BY <2>1, QuietSetup
    <2>q. QED
      BY <2>1, <2>2 DEF OnTop
  <1>4. ASSUME NEW t \in Thread, ReturnEvent(t) \/ RaiseEvent(t)
        PROVE  SyncInv'
    BY <1>4, ReturnSynced
  <1>5. ASSUME NEW t \in Thread, Complete(t) \/ Catch(t) \/ CTraces(t)
        PROVE  SyncInv'
    BY <1>5, CompleteSynced, CatchSynced, CTracesSynced
  <1>6. CASE Exit
    <2>1. /\ mishap' = mishap /\ frames' = frames /\ gdirty' = gdirty
          /\ UNCHANGED <<CtxStack, CallCtx, GlobalTaintSymbs>>
      BY <1>6 DEF Exit, program
    <2>q. QED
      BY <2>1 DEF SyncInv
  <1>7. CASE UNCHANGED vars
    BY <1>7 DEF vars, program, inspector, SyncInv
  <1>q. QED
    BY <1>1, <1>2, <1>3, <1>4, <1>5, <1>6, <1>7 DEF Next, Tracing

\* For all programs: as long as nothing happens that the inspector does not provide for,
\* its contexts are those of the frames and hold whatever holds data of a source.
THEOREM InspectorSound == Spec => []Sound
  <1> DEFINE Inv == TypeInv /\ OrderInv /\ SyncInv
  <1>1. Inv => Sound
    <2> SUFFICES ASSUME TypeInv, SyncInv, mishap = {}, frames[Main] # <<>>
                 PROVE  Sound
      BY DEF Sound
    <2> DEFINE fs == frames[Main]
               n == Len(fs)
               m == Synced(fs)
    <2>1. InSync(fs, CtxStack, CallCtx, GlobalTaintSymbs, gdirty)
      BY DEF SyncInv
    <2>2. FrameTypes /\ Main \in Thread
      BY Assumption DEF TypeInv, Assumption
    <2>3. /\ fs \in Seq(Proper) /\ n \in Nat \ {0} /\ Fr(Main) = fs[n] /\ Fr(Main) = Last(fs)
          /\ Front(fs) \in Seq(Proper) /\ Len(Front(fs)) = n - 1
          /\ \A i \in 1 .. n - 1 : Front(fs)[i] = fs[i]
      BY <2>2, FrIs DEF Running, Fr
    <2> HIDE DEF fs, n
    <2>4. Contexts = IF Early(fs[n]) THEN Front(fs) ELSE fs
      BY <2>3 DEF Contexts, Early, fs
    <2>5. /\ Contexts \in Seq(Proper) /\ Len(Contexts) = m /\ \A i \in 1 .. m : Contexts[i] = fs[i]
      BY <2>3, <2>4 DEF Synced, n
    <2> HIDE DEF m
    <2>6. /\ Len(CtxStack) = m /\ gdirty \subseteq GlobalTaintSymbs
          /\ \A i \in 1 .. m : InStep(fs[i], CtxStack[i], GlobalTaintSymbs)
      BY <2>1 DEF InSync, m
    <2>7. DOMAIN Contexts = 1 .. m
      BY <2>5
    <2>q. QED
      BY <2>5, <2>6, <2>7 DEF Sound, InStep
  <1>2. Init => Inv
    BY InitTypes, InitOrder, InitSynced
  <1>3. Inv /\ [Next]_vars => Inv'
    BY StepTypes, StepKeeps, StepSynced DEF OrderInv
  <1>q. QED
    BY <1>1, <1>2, <1>3, PTL DEF Spec
-----------------------------------------------------------------------------
(***************************************************************************)
(* What is due is sent.  Nothing that was sent or is held back is lost, so *)
(* it is enough that a line which reads what is dirty sends an event or    *)
(* holds it back, and that contexts in step with frames tell the function  *)
(* it ran in.                                                              *)
(***************************************************************************)
TracedInv == mishap = {} => due \subseteq Sent

LEMMA SentHas ==
    Sent = {<<m.fn, m.line>> : m \in Range(trace)}
             \cup (IF CacheMsg = None THEN {} ELSE {<<CacheMsg.fn, CacheMsg.line>>})
  BY DEF Sent

LEMMA SentGrows ==
    ASSUME IsSeq(trace), NEW e, IsSeq(e), NEW held, Send(e, held)
    PROVE  /\ Sent \subseteq Sent'
           /\ \A i \in 1 .. Len(e) : <<e[i].fn, e[i].line>> \in Sent'
           /\ held # None => <<held.fn, held.line>> \in Sent'
  <1> DEFINE s == trace \o Held
             all == s \o e
  <1>1. IsSeq(Held) /\ (CacheMsg # None => Len(Held) = 1 /\ Held[1] = CacheMsg)
    <2>1. CASE CacheMsg = None
      BY <2>1, EmptySeq DEF Held, IsSeq
    <2>2. CASE CacheMsg # None
      BY <2>2, OneSeq DEF Held
    <2>q. QED
      BY <2>1, <2>2
  <1>2. /\ IsSeq(s) /\ Len(s) = Len(trace) + Len(Held) /\ Len(trace) \in Nat /\ Len(Held) \in Nat
        /\ \A i \in 1 .. Len(trace) : s[i] = trace[i]
        /\ \A i \in 1 .. Len(Held) : s[Len(trace) + i] = Held[i]
    BY <1>1, ConcatSeq
  <1>3. trace' = all /\ CacheMsg' = held
    BY DEF Send
  <1> HIDE DEF s
  <1>4. /\ IsSeq(all) /\ Len(all) = Len(s) + Len(e) /\ Len(s) \in Nat /\ Len(e) \in Nat
        /\ \A i \in 1 .. Len(s) : all[i] = s[i]
        /\ \A i \in 1 .. Len(e) : all[Len(s) + i] = e[i]
    BY <1>2, ConcatSeq
  <1> HIDE DEF all
  <1>5. DOMAIN all = 1 .. Len(all) /\ DOMAIN trace = 1 .. Len(trace)
    BY <1>4 DEF IsSeq
  <1>6. \A i \in 1 .. Len(s) : s[i] \in Range(all)
    <2>1. \A i \in 1 .. Len(s) : i \in 1 .. Len(all)
      BY <1>4
    <2>q. QED
      BY <1>4, <1>5, <2>1 DEF Range
  <1>7. \A i \in 1 .. Len(e) : e[i] \in Range(all)
    <2>1. \A i \in 1 .. Len(e) : Len(s) + i \in 1 .. Len(all)
      BY <1>4
    <2>q. QED
      BY <1>4, <1>5, <2>1 DEF Range
  <1>8. Range(trace) \subseteq Range(all)
    <2>1. \A i \in 1 .. Len(trace) : i \in 1 .. Len(s)
      BY <1>2
    <2>q. QED
      BY <1>2, <1>5, <1>6, <2>1 DEF Range
  <1>9. ASSUME CacheMsg # None
        PROVE  CacheMsg \in Range(all)
    <2> DEFINE k == Len(trace)
               l == Len(Held)
    <2>1. k \in Nat /\ l = 1 /\ Len(s) = k + l /\ Held[1] = CacheMsg
      BY <1>1, <1>2, <1>9
    <2>2. \A i \in 1 .. l : s[k + i] = Held[i]
      BY <1>2
    <2> HIDE DEF k, l
    <2>3. k + 1 \in 1 .. Len(s) /\ 1 \in 1 .. l
      BY <2>1
    <2>4. s[k + 1] = CacheMsg
      BY <2>1, <2>2, <2>3
    <2>q. QED
      BY <1>6, <2>3, <2>4
  <1>10. Sent' = {<<m.fn, m.line>> : m \in Range(all)}
                   \cup (IF held = None THEN {} ELSE {<<held.fn, held.line>>})
    BY <1>3 DEF Sent
  <1>11. Sent \subseteq Sent'
    BY <1>8, <1>9, <1>10, SentHas
  <1>q. QED
    BY <1>7, <1>10, <1>11

\* An event sent last.
LEMMA LastOf ==
    ASSUME NEW d, IsSeq(d), NEW ev
    PROVE  LET e == d \o <<ev>>
           IN  IsSeq(e) /\ Len(d) + 1 \in 1 .. Len(e) /\ e[Len(d) + 1] = ev
  <1>1. PICK one : one = <<ev>>
    OBVIOUS
  <1>2. IsSeq(one) /\ Len(one) = 1 /\ one[1] = ev
    BY <1>1, OneSeq
  <1>3. /\ IsSeq(d \o one) /\ Len(d \o one) = Len(d) + Len(one)
        /\ Len(d) \in Nat /\ Len(one) \in Nat
        /\ \A i \in 1 .. Len(d) : (d \o one)[i] = d[i]
        /\ \A i \in 1 .. Len(one) : (d \o one)[Len(d) + i] = one[i]
    <2>1. IsSeq(d) /\ IsSeq(one)
      BY <1>2
    <2>q. QED
      BY <2>1, ConcatSeq
  <1> DEFINE e == d \o one
  <1> HIDE DEF e
  <1>4. IsSeq(e) /\ Len(e) = Len(d) + 1 /\ Len(d) \in Nat
        /\ \A i \in 1 .. Len(one) : e[Len(d) + i] = one[i]
    BY <1>2, <1>3 DEF e
  <1>5. Len(d) + 1 \in 1 .. Len(e) /\ 1 \in 1 .. Len(one)
    BY <1>2, <1>4
  <1>6. e[Len(d) + 1] = ev
    BY <1>2, <1>4, <1>5
  <1>q. QED
    BY <1>1, <1>4, <1>5, <1>6 DEF e

LEMMA LastSent ==
    ASSUME IsSeq(trace), NEW d, IsSeq(d), NEW ev, NEW held, Send(d \o <<ev>>, held)
    PROVE  <<ev.fn, ev.line>> \in Sent'
  <1> DEFINE e == d \o <<ev>>
  <1>1. IsSeq(e) /\ Len(d) + 1 \in 1 .. Len(e) /\ e[Len(d) + 1] = ev
    BY LastOf
  <1>2. Send(e, held)
    OBVIOUS
  <1> HIDE DEF e
  <1>q. QED
    BY <1>1, <1>2, SentGrows

LEMMA LineTells ==
    ASSUME TypeInv, NEW fr \in Proper, AtLine(fr, CtxStack, GlobalTaintSymbs), clock' \in Nat,
           SomeDirty(fr, gdirty), ~Must(Stmt(fr)),
           LET lo == LineObject(fr, Stmt(fr))
           IN  \/ LineIgnored(lo) \/ LineKnownCall(lo) \/ LineForeignCall(lo)
               \/ LineReturn(lo) \/ LineOther(fr, lo)
    PROVE  <<fr.fn, fr.pc>> \in Sent'
  <1> DEFINE st == Stmt(fr)
             lo == LineObject(fr, st)
             n == Len(CtxStack)
             glob == GlobalTaintSymbs
             none == <<>>
  <1>1. /\ Plain(fr, st, gdirty) /\ (Known(st) => PlainCall(fr, st, gdirty))
        /\ InStep(fr, CtxStack[n], glob) /\ gdirty \subseteq glob
    BY DEF AtLine
  <1>2. /\ IsLo(lo) /\ lo.Uses = Uses(st) /\ lo.Callee = st.callee /\ lo.LineNo = fr.pc
        /\ lo.Ret = (st.op = "return") /\ lo.Def \in Symbols \cup {None}
    BY <1>1, LineDef DEF IsLo
  <1>3. IsStack(CtxStack) /\ gdirty \in SUBSET Dotted /\ IsSeq(trace) /\ IsSeq(none)
    BY SeqIsSeq, EmptySeq DEF TypeInv, CtxTypes, SentTypes, IsSeq
  <1>4. Last(CtxStack) = CtxStack[n] /\ CtxStack[n].FuncDef = fr.fn
    BY <1>1, <1>3, StackTop DEF InStep
  <1> HIDE DEF lo, none
  <1>5. ASSUME NEW stk, NEW g, CtxStack[n].TaintSymbs \subseteq Last(stk).TaintSymbs, glob \subseteq g
        PROVE  /\ Touched(stk, g, lo) /\ lo.Uses # <<>>
               /\ st.op = "return" => IsInTainted(stk, g, lo.Uses[1])
    <2>1. fr.dirty \subseteq Last(stk).TaintSymbs \cup g /\ gdirty \subseteq g
      BY <1>1, <1>5 DEF InStep
    <2>q. QED
      BY <1>1, <1>2, <1>3, <2>1, DirtyTouches
  <1>6. /\ Touched(CtxStack, glob, lo) /\ lo.Uses # <<>>
        /\ st.op = "return" => IsInTainted(CtxStack, glob, lo.Uses[1])
    BY <1>4, <1>5
  <1>7. ~LineIgnored(lo)
    BY <1>6 DEF LineIgnored, IsLiveObjValid
  <1>8. ~LineKnownCall(lo)
    BY <1>1, <1>2 DEF LineKnownCall, PlainCall, Known
  <1>9. CASE LineForeignCall(lo)
    <2> DEFINE d == lo.Def
               crn == lo.Callee \in Criteria
               stk == IF crn THEN Local(CtxStack, {d}) ELSE CtxStack
               g == IF crn THEN Global(glob, {d}) ELSE glob
               hit == Touched(stk, g, lo)
               source == crn \/ IsSourceFunc(stk)
               ev == Event("CALL", stk, lo, source)
    <2>1. Send(none, IF crn \/ hit THEN ev ELSE None)
      BY <1>9 DEF LineForeignCall, none
    <2>2. /\ IsStack(stk) /\ Last(stk).FuncDef = fr.fn
          /\ CtxStack[n].TaintSymbs \subseteq Last(stk).TaintSymbs /\ glob \subseteq g
      <3> HIDE DEF d, glob, n
      <3>1. CASE crn
        <4>1. stk = Local(CtxStack, {d}) /\ g = Global(glob, {d})
          BY <3>1
        <4>q. QED
          BY <1>2, <1>3, <1>4, <4>1, InsertIs DEF TopKept, Kept, n, d
      <3>2. CASE ~crn
        <4>1. stk = CtxStack /\ g = glob
          BY <3>2
        <4>q. QED
          BY <1>3, <1>4, <4>1
      <3>q. QED
        BY <3>1, <3>2
    <2>3. source \in BOOLEAN
      BY DEF IsSourceFunc
    <2> HIDE DEF stk, g, crn, source
    <2>4. hit
      BY <1>5, <2>2
    <2>5. ev # None /\ ev.fn = fr.fn /\ ev.line = fr.pc
      BY <1>2, <2>2, <2>3, EventIs
    <2> HIDE DEF ev, hit
    <2>6. Send(none, ev)
      BY <2>1, <2>4
    <2>7. <<ev.fn, ev.line>> \in Sent'
      BY <1>3, <2>5, <2>6, SentGrows
    <2>q. QED
      BY <2>5, <2>7
  <1>10. CASE LineReturn(lo)
    <2> DEFINE ev == Event("RET", CtxStack, lo, FALSE)
               one == <<ev>>
    <2>1. Send(one, None)
      <3>1. IsInTainted(CtxStack, glob, lo.Uses[1])
        BY <1>2, <1>6, <1>10 DEF LineReturn
      <3>q. QED
        BY <1>10, <3>1 DEF LineReturn
    <2>2. ev.fn = fr.fn /\ ev.line = fr.pc
      BY <1>2, <1>4 DEF Event
    <2>3. one = none \o one
      BY OneSeq DEF none, IsSeq
    <2> HIDE DEF ev
    <2>4. Send(none \o <<ev>>, None)
      BY <2>1, <2>3
    <2>5. <<ev.fn, ev.line>> \in Sent'
      BY <1>3, <2>4, LastSent
    <2>q. QED
      BY <2>2, <2>5
  <1>11. CASE LineOther(fr, lo)
    <2> DEFINE type == IF lo.Br THEN "BR" ELSE "NR"
               source == IsSourceFunc(CtxStack)
               ev == Event(type, CtxStack, lo, source)
    <2>1. ~Implicit(fr)
      BY <1>1, <1>4 DEF Implicit, CurCtx, InStep
    <2>2. Send(none \o <<ev>>, None)
      <3> DEFINE stk == IF Implicit(fr) THEN PushCtx(CtxStack, glob, CallCtx, fr.fn) ELSE CtxStack
                 hit == Touched(stk, glob, lo)
                 entry == IF Implicit(fr) THEN <<Entry(stk, fr.fn)>> ELSE none
                 own == IF hit \/ Implicit(fr) THEN <<Event(type, stk, lo, IsSourceFunc(stk))>> ELSE none
      <3>1. Send(entry \o own, None)
        BY <1>11 DEF LineOther, none
      <3>2. stk = CtxStack
        BY <2>1
      <3>3. hit
        BY <1>6, <3>2
      <3>4. entry = none
        BY <2>1
      <3>5. own = <<ev>>
        <4> HIDE DEF hit
        <4>1. own = <<Event(type, stk, lo, IsSourceFunc(stk))>>
          BY <3>3
        <4> HIDE DEF stk, own, type
        <4>2. own = <<Event(type, CtxStack, lo, IsSourceFunc(CtxStack))>>
          BY <3>2, <4>1
        <4>q. QED
          BY <4>2 DEF own, type
      <3> HIDE DEF entry, own, ev
      <3>q. QED
        BY <3>1, <3>4, <3>5
    <2>3. ev.fn = fr.fn /\ ev.line = fr.pc
      BY <1>2, <1>4 DEF Event
    <2> HIDE DEF ev
    <2>4. <<ev.fn, ev.line>> \in Sent'
      BY <1>3, <2>2, LastSent
    <2>q. QED
      BY <2>3, <2>4
  <1>12. LineForeignCall(lo) \/ LineReturn(lo) \/ LineOther(fr, lo)
    BY <1>7, <1>8 DEF lo
  <1>q. QED
    BY <1>9, <1>10, <1>11, <1>12

\* The first line of a decorated function: its event follows that of its entry.
LEMMA EarlyTells ==
    ASSUME TypeInv, NEW fr \in Proper, clock' \in Nat, Implicit(fr), CallCtx # None,
           CallCtx.FuncDef = fr.fn, LineOther(fr, LineObject(fr, Stmt(fr)))
    PROVE  <<fr.fn, fr.pc>> \in Sent'
  <1> DEFINE st == Stmt(fr)
             lo == LineObject(fr, st)
             glob == GlobalTaintSymbs
             stk == PushCtx(CtxStack, glob, CallCtx, fr.fn)
             type == IF lo.Br THEN "BR" ELSE "NR"
             entry == <<Entry(stk, fr.fn)>>
             hit == Touched(stk, glob, lo)
             ev == Event(type, stk, lo, IsSourceFunc(stk))
  <1>1. IsStack(CtxStack) /\ CallCtx \in ContextRecord /\ IsSeq(trace)
    BY SeqIsSeq DEF TypeInv, CtxTypes, SentTypes
  <1>2. /\ IsStack(stk) /\ Last(stk).FuncDef = fr.fn
    <2>1. LET a == CtxStack
              new == PushCtx(a, GlobalTaintSymbs, CallCtx, fr.fn)
          IN  /\ IsStack(new) /\ Len(new) = Len(a) + 1
              /\ \A i \in 1 .. Len(a) : new[i] = a[i]
              /\ new[Len(a) + 1].Func = CallCtx.Func /\ new[Len(a) + 1].FuncDef = CallCtx.FuncDef
              /\ new[Len(a) + 1].Ret = CallCtx.Ret
              /\ Last(a).CalleeLo # None =>
                   Actual2Formal(Last(a).CalleeLo, a, GlobalTaintSymbs) \subseteq new[Len(a) + 1].TaintSymbs
      <3> HIDE DEF st, lo, glob, stk
      <3>q. QED
        BY <1>1, PushPrepared
    <2>q. QED
      BY <2>1, StackTop
  <1>3. Send(entry \o <<ev>>, None)
    BY DEF LineOther
  <1>4. IsSeq(entry)
    BY OneSeq
  <1>5. ev.fn = fr.fn /\ ev.line = fr.pc
    BY <1>2 DEF Event, LineObject
  <1> HIDE DEF entry, ev
  <1>6. <<ev.fn, ev.line>> \in Sent'
    BY <1>1, <1>3, <1>4, LastSent
  <1>q. QED
    BY <1>5, <1>6

LEMMA LineTraced ==
    ASSUME TypeInv, FrameInv, SyncInv, TracedInv, NEW t \in Thread, LineEvent(t)
    PROVE  TracedInv'
  <1> SUFFICES ASSUME mishap' = {}
               PROVE  due' \subseteq Sent'
    BY DEF TracedInv
  <1> DEFINE fs == frames[Main]
             n == Len(fs)
             fr == fs[n]
             st == Stmt(fr)
             lo == LineObject(fr, st)
  <1>1. /\ n \in Nat \ {0} /\ fr \in Proper
        /\ InSync(fs, CtxStack, CallCtx, GlobalTaintSymbs, gdirty)
        /\ fr.stage = "line" /\ ~fr.got
        /\ Plain(fr, st, gdirty) /\ (Known(st) => PlainCall(fr, st, gdirty))
        /\ \/ LineIgnored(lo) \/ LineKnownCall(lo) \/ LineForeignCall(lo)
           \/ LineReturn(lo) \/ LineOther(fr, lo)
    BY LineSetup
  <1>2. AtStage(t, "line") /\ OnLine(t, Fr(t))
    BY DEF LineEvent
  <1>3. mishap = {} /\ Running(t) /\ clock' \in Nat
    BY <1>2 DEF OnLine, AtStage, TypeInv
  <1>4. Fr(t) = fr
    <2>1. t = Main /\ FrameTypes
      BY <1>3, Alone DEF TypeInv
    <2>q. QED
      BY <1>3, <2>1, FrIs
  <1>5. due' = IF ReadsDirty(fr, st) /\ ~Must(st) THEN due \cup {<<fr.fn, fr.pc>>} ELSE due
    BY <1>2, <1>4 DEF OnLine
  <1>6. due \subseteq Sent
    BY <1>3 DEF TracedInv
  <1>7. IsSeq(trace)
    BY SeqIsSeq DEF TypeInv, SentTypes
  <1>8. Sent \subseteq Sent'
    <2>1. PICK e, held : Sends(e, held) /\ NoCalls(e)
      BY <1>1, LineSends
    <2>2. Send(e, held) /\ IsSeq(e)
      BY <2>1 DEF Sends, Now
    <2>q. QED
      BY <1>7, <2>2, SentGrows
  <1>9. ASSUME ReadsDirty(fr, st), ~Must(st)
        PROVE  <<fr.fn, fr.pc>> \in Sent'
    <2>1. SomeDirty(fr, gdirty)
      BY <1>9 DEF ReadsDirty, Reads, SomeDirty
    <2>2. CASE Early(fr)
      <3>1. LineOther(fr, lo) /\ Implicit(fr) /\ CallCtx \in ContextRecord /\ CallCtx.FuncDef = fr.fn
        BY <2>2, EarlySetup
      <3>2. CallCtx # None
        BY <3>1, Assumption DEF Assumption
      <3> HIDE DEF fr
      <3>q. QED
        BY <1>1, <1>3, <3>1, <3>2, EarlyTells
    <2>3. CASE ~Early(fr)
      <3> HIDE DEF fs, lo, st
      <3>1. Synced(fs) = n /\ n \in 1 .. n
        BY <1>1, <2>3 DEF Synced
      <3>2. /\ Len(CtxStack) = n /\ gdirty \subseteq GlobalTaintSymbs
            /\ InStep(fr, CtxStack[n], GlobalTaintSymbs)
        BY <1>1, <3>1 DEF InSync
      <3> HIDE DEF fr, n
      <3>3. AtLine(fr, CtxStack, GlobalTaintSymbs)
        BY <1>1, <3>2 DEF AtLine, st
      <3>q. QED
        BY <1>1, <1>3, <1>9, <2>1, <3>3, LineTells DEF st, lo
    <2>q. QED
      BY <2>2, <2>3
  <1>q. QED
    BY <1>5, <1>6, <1>8, <1>9

\* A step that sends something else, or nothing.
LEMMA OtherTraced ==
    ASSUME TracedInv, mishap' = {} => mishap = {}, due' = due, Sent \subseteq Sent'
    PROVE  TracedInv'
  BY DEF TracedInv

LEMMA SendsMore ==
    ASSUME TypeInv, NEW e, Sends(e, None)
    PROVE  Sent \subseteq Sent'
  BY SentGrows, SeqIsSeq DEF Sends, Now, TypeInv, SentTypes

LEMMA CTracesMore ==
    ASSUME TypeInv, NEW t \in Thread, CTraces(t)
    PROVE  Sent \subseteq Sent'
  <1>1. IsSeq(trace) /\ CacheMsg' = CacheMsg
    BY SeqIsSeq DEF TypeInv, SentTypes, CTraces
  <1>2. PICK ev : trace' = Append(trace, ev)
    BY DEF CTraces
  <1> DEFINE all == Append(trace, ev)
  <1>3. Range(trace) \subseteq Range(all)
    BY <1>1, AppendSeq DEF Range, IsSeq
  <1> HIDE DEF all
  <1>4. Sent' = {<<m.fn, m.line>> : m \in Range(all)}
                  \cup (IF CacheMsg = None THEN {} ELSE {<<CacheMsg.fn, CacheMsg.line>>})
    BY <1>1, <1>2 DEF Sent, all
  <1>q. QED
    BY <1>3, <1>4, SentHas

LEMMA StepTraced ==
    ASSUME TypeInv, FrameInv, SyncInv, TracedInv, [Next]_vars
    PROVE  TracedInv'
  <1>1. ASSUME NEW t \in Thread, LineEvent(t)
        PROVE  TracedInv'
    BY <1>1, LineTraced
  <1>2. ASSUME NEW t \in Thread, CallEvent(t)
        PROVE  TracedInv'
    <2>1. PICK f : Enter(t, f) /\ Called(f)
      BY <1>2 DEF CallEvent
    <2>2. due' = due /\ (mishap' = {} => mishap = {})
      BY <2>1 DEF Enter
    <2>q. QED
      BY <2>1, <2>2, CalledSends, SendsMore, OtherTraced
  <1>3. ASSUME NEW t \in Thread, StartEvent(t)
        PROVE  TracedInv'
    <2>1. due' = due /\ mishap' = mishap /\ Called(Fr(t).fn)
      BY <1>3 DEF StartEvent
    <2>q. QED
      BY <2>1, CalledSends, SendsMore, OtherTraced
  <1>4. ASSUME NEW t \in Thread, ReturnEvent(t) \/ RaiseEvent(t)
        PROVE  TracedInv'
    <2>1. due' = due /\ (mishap' = {} => mishap = {}) /\ Returned
      BY <1>4 DEF ReturnEvent, RaiseEvent
    <2>q. QED
      BY <2>1, ReturnedSends, SendsMore, OtherTraced
  <1>5. ASSUME NEW t \in Thread, CTraces(t)
        PROVE  TracedInv'
    <2>1. due' = due /\ mishap' = mishap
      BY <1>5 DEF CTraces
    <2>q. QED
      BY <1>5, <2>1, CTracesMore, OtherTraced
  <1>6. ASSUME NEW t \in Thread, Complete(t) \/ Catch(t)
        PROVE  TracedInv'
    <2>1. UNCHANGED <<due, mishap, trace, CacheMsg>>
      BY <1>6 DEF Complete, Catch, inspector
    <2>q. QED
      BY <2>1, OtherTraced DEF Sent
  <1>7. CASE Exit
    <2>1. due' = due /\ mishap' = mishap /\ Send(<<>>, None)
      BY <1>7 DEF Exit, program
    <2>2. Sends(<<>>, None)
      BY <2>1, NowNone DEF Sends
    <2>q. QED
      BY <2>1, <2>2, SendsMore, OtherTraced
  <1>8. CASE UNCHANGED vars
    <2>1. UNCHANGED <<due, mishap, trace, CacheMsg>>
      BY <1>8 DEF vars, program, inspector
    <2>q. QED
      BY <2>1, OtherTraced DEF Sent
  <1>q. QED
    BY <1>1, <1>2, <1>3, <1>4, <1>5, <1>6, <1>7, <1>8 DEF Next, Tracing

\* For all programs, under the same condition: the engine gets an event, with the right
\* function and line, for every line that reads data of a source; calls of known
\* functions are reported when they return.
THEOREM InspectorTraced == Spec => []Traced
  <1> DEFINE Inv == TypeInv /\ OrderInv /\ SyncInv /\ TracedInv
  <1>1. Inv => Traced
    BY DEF TracedInv, Traced
  <1>2. Init => Inv
    <2>1. Init => TracedInv
      BY DEF Init, TracedInv
    <2>q. QED
      BY <2>1, InitTypes, InitOrder, InitSynced
  <1>3. Inv /\ [Next]_vars => Inv'
    BY StepTypes, StepKeeps, StepSynced, StepTraced DEF OrderInv
  <1>q. QED
    BY <1>1, <1>2, <1>3, PTL DEF Spec
=============================================================================
