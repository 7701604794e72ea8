------------------------------ MODULE SdaProofs ------------------------------
(***************************************************************************)
(* Theorems about Sda for any programs and options.                        *)
(***************************************************************************)
EXTENDS Sda, FiniteSetTheorems, SequenceTheorems, TLAPS

(***************************************************************************)
(* The inductive invariant.  Frames below the top wait at a call that is   *)
(* no source: what the top returns is recorded there.                      *)
(***************************************************************************)
IsSeq(s) == s \in Seq(Range(s))

IsFsda(r) ==
    r \in [id : {r.id}, instNum : {r.instNum}, insts : {r.insts}, cst : {r.cst}, cache : {r.cache}]
IsFsdaMap(F) == F = [f \in DOMAIN F |-> F[f]] /\ \A f \in DOMAIN F : IsFsda(F[f])

Numbered(F) ==
    /\ \A f \in DOMAIN F : F[f].id \in 1 .. Cardinality(DOMAIN F)
    /\ \A f, g \in DOMAIN F : F[f].id = F[g].id => f = g

IdOf(n, i, k) == [fid |-> n, bid |-> i.bb, iid |-> k, ssd |-> IF IsSourceInst(i) THEN 1 ELSE 0]

\* Instruction v is recorded in r, the record of f, under its own number.
Recorded(f, r, v) ==
    \E k \in DOMAIN Fn(f).body :
        Fn(f).body[k].v = v /\ r.insts[v] = IdOf(r.id, Fn(f).body[k], k)

Records(F, S) ==
    /\ IsFsdaMap(F) /\ DOMAIN F \subseteq Defined(prog) /\ Numbered(F)
    /\ S = UNION {DOMAIN F[f].insts : f \in DOMAIN F}
    /\ \A f \in DOMAIN F : \A v \in DOMAIN F[f].insts : Recorded(f, F[f], v)

IsFrame(fr) ==
    fr \in [fn : {fr.fn}, in : {fr.in}, out : {fr.out}, lex : {fr.lex}, pc : {fr.pc},
           back : {fr.back}, fw : {fr.fw}, bits : {fr.bits}, before : {fr.before}]
InFunction(fr) ==
    /\ fr.fn \in Defined(prog)
    /\ fr.in \subseteq fr.out
    /\ fr.pc \in 0 .. Len(Fn(fr.fn).body) + 1
    /\ fr.back => fr.pc <= Len(Fn(fr.fn).body)
    /\ ~fr.back => fr.pc >= 1
Waiting(fr) ==
    LET i == Fn(fr.fn).body[fr.pc]
    IN  ~fr.back /\ fr.pc \in DOMAIN Fn(fr.fn).body /\ IsCall(i) /\ ~IsSourceInst(i)

Frames(F, st) ==
    /\ IsSeq(st)
    /\ \A k \in 1 .. Len(st) : st[k].fn \in DOMAIN F /\ IsFrame(st[k]) /\ InFunction(st[k])
    /\ \A k \in 1 .. Len(st) - 1 : Waiting(st[k])
    /\ \A j, k \in 1 .. Len(st) : st[j].fn = st[k].fn => j = k

Queued(P, q) == IsSeq(q) /\ IsInjective(q) /\ Range(q) \subseteq Defined(P)

Users ==
    /\ \A g \in DOMAIN m_GlvUse2Entry : m_GlvUse2Entry[g] \subseteq Defined(prog)
    /\ stack # <<>> => m_CurEntry \in Defined(prog)

TodoInv ==
    /\ IsSeq(todo)
    /\ \A P \in Range(todo) : P # NoProgram /\ WellFormed(P)
    /\ prog = NoProgram => stack = <<>>
    /\ prog # NoProgram => WellFormed(prog)

RecordInv == prog # NoProgram => Records(m_Func2Fsda, m_InstSet)
FrameInv == prog # NoProgram => Frames(m_Func2Fsda, stack)
EntryInv == prog # NoProgram => Queued(prog, m_EntryFQ) /\ Users

SdaInv == TodoInv /\ RecordInv /\ FrameInv /\ EntryInv
-----------------------------------------------------------------------------
(***************************************************************************)
(* Sequences and sets                                                      *)
(***************************************************************************)
LEMMA SeqIsSeq ==
    ASSUME NEW S, NEW s \in Seq(S)
    PROVE  IsSeq(s) /\ Range(s) \subseteq S
  BY SeqOfRange, RangeOfSeq DEF IsSeq

LEMMA SeqFacts ==
    ASSUME NEW s, IsSeq(s)
    PROVE  /\ Len(s) \in Nat /\ DOMAIN s = 1 .. Len(s)
           /\ s = <<>> <=> Len(s) = 0
           /\ \A k \in 1 .. Len(s) : s[k] \in Range(s)
           /\ \A x \in Range(s) : \E k \in 1 .. Len(s) : s[k] = x
  <1>1. Len(s) \in Nat /\ DOMAIN s = 1 .. Len(s)
    BY LenProperties DEF IsSeq
  <1>2. s = <<>> <=> Len(s) = 0
    BY EmptySeq DEF IsSeq
  <1>q. QED
    BY <1>1, <1>2 DEF Range

LEMMA DefinedFinite ==
    ASSUME NEW P, WellFormed(P)
    PROVE  IsFiniteSet(Defined(P))
  BY FS_Subset DEF WellFormed, Defined

LEMMA OrdersFacts ==
    ASSUME NEW S, IsFiniteSet(S), NEW q \in Orders(S)
    PROVE  IsSeq(q) /\ IsInjective(q) /\ Range(q) = S
  <1> DEFINE n == Cardinality(S)
  <1>1. n \in Nat
    BY FS_CardinalityType
  <1>2. q \in [1 .. n -> S] /\ Range(q) = S
    BY DEF Orders
  <1>3. IsFiniteSet(1 .. n) /\ Cardinality(1 .. n) = n
    BY <1>1, FS_Interval
  <1>4. q \in Surjection(1 .. n, S)
    BY <1>2 DEF Surjection, Range
  <1>5. q \in Injection(1 .. n, S)
    BY <1>3, <1>4, FS_SurjSameCardinalityImpliesInj
  <1>6. q \in Seq(S)
    BY <1>1, <1>2, SeqDef
  <1>q. QED
    BY <1>2, <1>5, <1>6, SeqIsSeq DEF Injection
-----------------------------------------------------------------------------
(***************************************************************************)
(* Records                                                                 *)
(***************************************************************************)
Kept(F, G) ==
    /\ DOMAIN G = DOMAIN F /\ IsFsdaMap(G)
    /\ \A f \in DOMAIN F : G[f].id = F[f].id /\ G[f].insts = F[f].insts

LEMMA KeptRecords ==
    ASSUME NEW F, NEW G, NEW S, Records(F, S), Kept(F, G)
    PROVE  Records(G, S)
  BY DEF Records, Kept, Numbered, Recorded

\* A record gets its number when its function is first met.
LEMMA GetFldaRecords ==
    ASSUME NEW F, NEW S, NEW f, Records(F, S), WellFormed(prog), f \in Defined(prog)
    PROVE  /\ Records(GetFlda(F, f), S)
           /\ DOMAIN GetFlda(F, f) = DOMAIN F \cup {f}
           /\ \A g \in DOMAIN F : GetFlda(F, f)[g] = F[g]
  <1>1. CASE f \in DOMAIN F
    BY <1>1 DEF GetFlda
  <1>2. CASE f \notin DOMAIN F
    <2> DEFINE G == GetFlda(F, f)
               n == Cardinality(DOMAIN F)
    <2>1. IsFiniteSet(DOMAIN F)
      BY DefinedFinite, FS_Subset DEF Records
    <2>2. n \in Nat /\ Cardinality(DOMAIN F \cup {f}) = n + 1
      BY <1>2, <2>1, FS_CardinalityType, FS_AddElement
    <2>3. G = Put(F, f, NewFsda(F))
      BY <1>2 DEF GetFlda
    <2> HIDE DEF G, n
    <2>4. /\ DOMAIN G = DOMAIN F \cup {f} /\ G[f] = NewFsda(F)
          /\ \A g \in DOMAIN F : G[g] = F[g]
          /\ G = [x \in DOMAIN G |-> G[x]]
      BY <1>2, <2>3 DEF Put
    <2>5. IsFsda(G[f]) /\ G[f].id = n + 1 /\ DOMAIN G[f].insts = {}
      BY <2>4 DEF IsFsda, NewFsda, n
    <2>6. IsFsdaMap(G) /\ DOMAIN G \subseteq Defined(prog)
      BY <2>4, <2>5 DEF IsFsdaMap, Records
    <2>7. Numbered(G)
      <3>1. \A g \in DOMAIN F : G[g].id \in 1 .. n
        BY <2>4 DEF Records, Numbered, n
      <3>2. Cardinality(DOMAIN G) = n + 1
        BY <2>2, <2>4
      <3>3. \A g \in DOMAIN G : G[g].id \in 1 .. n + 1
        BY <2>2, <2>4, <2>5, <3>1
      <3>4. \A g, h \in DOMAIN F : G[g].id = G[h].id => g = h
        BY <2>4 DEF Records, Numbered
      <3>5. \A g, h \in DOMAIN G : G[g].id = G[h].id => g = h
        BY <2>2, <2>4, <2>5, <3>1, <3>4
      <3>q. QED
        BY <3>2, <3>3, <3>5 DEF Numbered
    <2>8. S = UNION {DOMAIN G[g].insts : g \in DOMAIN G}
      <3>1. S = UNION {DOMAIN F[g].insts : g \in DOMAIN F}
        BY DEF Records
      <3>q. QED
        BY <2>4, <2>5, <3>1
    <2>9. \A g \in DOMAIN G : \A v \in DOMAIN G[g].insts : Recorded(g, G[g], v)
      BY <2>4, <2>5 DEF Records
    <2>q. QED
      BY <2>4, <2>6, <2>7, <2>8, <2>9 DEF Records, G
  <1>q. QED
    BY <1>1, <1>2 DEF Records

\* Select and the end of ProcessCall record the instruction they stand at.
LEMMA InsertRecords ==
    ASSUME NEW F, NEW S, NEW f, NEW k, NEW i, NEW ssd,
           Records(F, S), f \in DOMAIN F, k \in DOMAIN Fn(f).body, i = Fn(f).body[k],
           m_Func2Fsda[f].id = F[f].id, IsSourceInst(i) => ssd = 1, ~IsSourceInst(i) => ssd = 0
    PROVE  /\ Records(InsertInst(F, f, i, k, ssd), S \cup {i.v})
           /\ DOMAIN InsertInst(F, f, i, k, ssd) = DOMAIN F
  <1> DEFINE G == InsertInst(F, f, i, k, ssd)
             e == IdOf(F[f].id, i, k)
             T == Put(F[f].insts, i.v, e)
  <1>1. GetEventId(f, i, k, ssd) = e
    BY DEF GetEventId, IdOf
  <1>2. G = [F EXCEPT ![f] = [F[f] EXCEPT !.insts = T]]
    BY <1>1 DEF InsertInst
  <1>3. IsFsdaMap(F) /\ DOMAIN F \subseteq Defined(prog) /\ Numbered(F)
    BY DEF Records
  <1> HIDE DEF G, e, T
  <1>4. DOMAIN G = DOMAIN F /\ G = [g \in DOMAIN F |-> IF g = f THEN [F[f] EXCEPT !.insts = T] ELSE F[g]]
    BY <1>2, <1>3 DEF IsFsdaMap
  <1>5. /\ IsFsda(G[f]) /\ G[f].insts = T /\ G[f].id = F[f].id
    BY <1>3, <1>4 DEF IsFsdaMap, IsFsda
  <1>6. \A g \in DOMAIN F : g # f => G[g] = F[g]
    BY <1>4
  <1>7. IsFsdaMap(G)
    <2>1. \A g \in DOMAIN G : IsFsda(G[g])
      BY <1>3, <1>4, <1>5, <1>6 DEF IsFsdaMap
    <2>2. G = [g \in DOMAIN G |-> G[g]]
      BY <1>4
    <2>q. QED
      BY <2>1, <2>2 DEF IsFsdaMap
  <1>8. Numbered(G)
    BY <1>3, <1>4, <1>5, <1>6 DEF Numbered
  <1>9. /\ DOMAIN T = DOMAIN F[f].insts \cup {i.v} /\ T[i.v] = e
        /\ \A v \in DOMAIN F[f].insts : v # i.v => T[v] = F[f].insts[v]
    BY DEF T, Put
  <1>10. S \cup {i.v} = UNION {DOMAIN G[g].insts : g \in DOMAIN G}
    <2>1. S = UNION {DOMAIN F[g].insts : g \in DOMAIN F}
      BY DEF Records
    <2>q. QED
      BY <1>4, <1>5, <1>6, <1>9, <2>1
  <1>11. ASSUME NEW g \in DOMAIN G, NEW v \in DOMAIN G[g].insts
         PROVE  Recorded(g, G[g], v)
    <2>1. CASE g # f
      BY <1>4, <1>6, <2>1 DEF Records
    <2>2. CASE g = f /\ v = i.v
      <3>1. G[g].insts[v] = IdOf(G[g].id, Fn(g).body[k], k) /\ Fn(g).body[k].v = v
        BY <1>5, <1>9, <2>2 DEF e
      <3>q. QED
        BY <2>2, <3>1 DEF Recorded
    <2>3. CASE g = f /\ v # i.v
      <3>1. v \in DOMAIN F[f].insts /\ G[f].insts[v] = F[f].insts[v]
        BY <1>5, <1>9, <2>3
      <3>2. Recorded(f, F[f], v)
        BY <3>1 DEF Records
      <3>q. QED
        BY <1>5, <2>3, <3>1, <3>2 DEF Recorded
    <2>q. QED
      BY <2>1, <2>2, <2>3
  <1>q. QED
    BY <1>3, <1>4, <1>7, <1>8, <1>10, <1>11 DEF Records, G

LEMMA InstNumKept ==
    ASSUME NEW F, NEW f, NEW n, IsFsdaMap(F), f \in DOMAIN F
    PROVE  Kept(F, [F EXCEPT ![f].instNum = n])
  BY DEF Kept, IsFsdaMap, IsFsda

LEMMA CstKept ==
    ASSUME NEW F, NEW G, NEW f, NEW c, IsFsdaMap(F), f \in DOMAIN F, G = [F EXCEPT ![f].cst = c]
    PROVE  Kept(F, G)
  BY DEF Kept, IsFsdaMap, IsFsda

LEMMA CacheKept ==
    ASSUME NEW F, NEW G, NEW f, NEW c, IsFsdaMap(F), f \in DOMAIN F, G = [F EXCEPT ![f].cache = c]
    PROVE  Kept(F, G)
  BY DEF Kept, IsFsdaMap, IsFsda

-----------------------------------------------------------------------------
(***************************************************************************)
(* Frames                                                                  *)
(***************************************************************************)
LEMMA BodyIsSeq ==
    ASSUME NEW f \in Defined(prog), WellFormed(prog)
    PROVE  Len(Fn(f).body) \in Nat /\ DOMAIN Fn(f).body = 1 .. Len(Fn(f).body)
  BY LenProperties DEF WellFormed, Defined, Fn

LEMMA NewFrame ==
    ASSUME NEW f \in Defined(prog), NEW bits, WellFormed(prog)
    PROVE  LET fr == Frame(f, bits)
           IN  IsFrame(fr) /\ InFunction(fr) /\ fr.fn = f
  BY BodyIsSeq DEF Frame, IsFrame, InFunction

\* The frame behind its instruction, with more of its arguments tainted.
Behind(fr, to) ==
    /\ IsFrame(to) /\ to.fn = fr.fn /\ to.in = fr.in /\ fr.out \subseteq to.out
    /\ to.pc = fr.pc + 1 /\ to.back = fr.back

LEMMA BehindFrame ==
    ASSUME NEW fr, NEW to, InFunction(fr), WellFormed(prog),
           fr.pc \in DOMAIN Fn(fr.fn).body, ~fr.back, Behind(fr, to)
    PROVE  InFunction(to)
  <1>1. Len(Fn(fr.fn).body) \in Nat /\ fr.pc \in 1 .. Len(Fn(fr.fn).body)
    BY BodyIsSeq DEF InFunction
  <1>q. QED
    BY <1>1 DEF InFunction, Behind

LEMMA NoFrames ==
    ASSUME NEW F
    PROVE  Frames(F, <<>>)
  <1>1. IsSeq(<<>>) /\ Len(<<>>) = 0
    BY EmptySeq DEF IsSeq
  <1>q. QED
    BY <1>1 DEF Frames

LEMMA TopFrame ==
    ASSUME NEW F, NEW st, Frames(F, st), st # <<>>
    PROVE  LET fr == st[Len(st)]
           IN  /\ Len(st) \in Nat \ {0}
               /\ fr.fn \in DOMAIN F /\ IsFrame(fr) /\ InFunction(fr)
               /\ Last(st) = fr
  <1>1. Len(st) \in Nat \ {0}
    BY SeqFacts DEF Frames
  <1>q. QED
    BY <1>1 DEF Frames, Last

LEMMA SetTopFrames ==
    ASSUME NEW F, NEW G, NEW st, NEW fr, Frames(F, st), st # <<>>, DOMAIN F \subseteq DOMAIN G,
           IsFrame(fr), InFunction(fr), fr.fn = st[Len(st)].fn
    PROVE  LET to == [st EXCEPT ![Len(st)] = fr]
           IN  /\ Frames(G, to) /\ Len(to) = Len(st) /\ to[Len(st)] = fr /\ to # <<>>
               /\ \A k \in 1 .. Len(st) : to[k].fn = st[k].fn
  <1> DEFINE to == [st EXCEPT ![Len(st)] = fr]
             n == Len(st)
  <1>1. n \in Nat \ {0} /\ st[n].fn \in DOMAIN F
    BY TopFrame
  <1>2. st \in Seq(Range(st) \cup {fr})
    BY SeqMonotonic DEF Frames, IsSeq
  <1>3. to \in Seq(Range(st) \cup {fr}) /\ Len(to) = n /\ \A k \in 1 .. n : to[k] = IF k = n THEN fr ELSE st[k]
    BY <1>1, <1>2, ExceptSeq DEF n
  <1>4. IsSeq(to) /\ to # <<>>
    BY <1>1, <1>3, SeqIsSeq, SeqFacts
  <1> HIDE DEF to, n
  <1>5. /\ \A k \in 1 .. n : st[k].fn \in DOMAIN F /\ IsFrame(st[k]) /\ InFunction(st[k])
        /\ \A k \in 1 .. n - 1 : Waiting(st[k])
        /\ \A j, k \in 1 .. n : st[j].fn = st[k].fn => j = k
    BY DEF Frames, n
  <1>6. \A k \in 1 .. n : to[k].fn = st[k].fn
    BY <1>3 DEF n
  <1>7. \A k \in 1 .. n : to[k].fn \in DOMAIN G /\ IsFrame(to[k]) /\ InFunction(to[k])
    BY <1>3, <1>5, <1>6
  <1>8. \A k \in 1 .. n - 1 : Waiting(to[k])
    <2>1. \A k \in 1 .. n - 1 : k \in 1 .. n /\ k # n
      BY <1>1
    <2>q. QED
      BY <1>3, <1>5, <2>1
  <1>9. \A j, k \in 1 .. n : to[j].fn = to[k].fn => j = k
    BY <1>5, <1>6
  <1>10. Frames(G, to)
    BY <1>3, <1>4, <1>7, <1>8, <1>9 DEF Frames
  <1>q. QED
    <2>1. /\ Frames(G, to) /\ Len(to) = n /\ to[n] = fr /\ to # <<>>
          /\ \A k \in 1 .. n : to[k].fn = st[k].fn
      BY <1>1, <1>3, <1>4, <1>6, <1>10
    <2>q. QED
      BY <2>1 DEF to, n

LEMMA PushFrames ==
    ASSUME NEW F, NEW st, NEW fr, Frames(F, st), st # <<>> => Waiting(st[Len(st)]),
           fr.fn \in DOMAIN F, IsFrame(fr), InFunction(fr), \A k \in 1 .. Len(st) : st[k].fn # fr.fn
    PROVE  Frames(F, Append(st, fr))
  <1> DEFINE to == Append(st, fr)
             n == Len(st)
  <1>1. st \in Seq(Range(st) \cup {fr}) /\ n \in Nat
    BY SeqMonotonic, SeqFacts DEF Frames, IsSeq
  <1>2. /\ to \in Seq(Range(st) \cup {fr}) /\ Len(to) = n + 1
        /\ to[n + 1] = fr /\ \A k \in 1 .. n : to[k] = st[k]
    BY <1>1, AppendProperties
  <1>3. IsSeq(to)
    BY <1>2, SeqIsSeq
  <1>4. n > 0 => Waiting(st[n])
    BY SeqFacts DEF Frames
  <1> HIDE DEF to
  <1>5. \A k \in 1 .. n + 1 : to[k].fn \in DOMAIN F /\ IsFrame(to[k]) /\ InFunction(to[k])
    <2>1. \A k \in 1 .. n : st[k].fn \in DOMAIN F /\ IsFrame(st[k]) /\ InFunction(st[k])
      BY DEF Frames
    <2>2. \A k \in 1 .. n + 1 : k \in 1 .. n \/ k = n + 1
      BY <1>1
    <2>q. QED
      BY <1>2, <2>1, <2>2
  <1>6. \A k \in 1 .. n : Waiting(to[k])
    <2>1. \A k \in 1 .. n - 1 : Waiting(st[k])
      BY DEF Frames
    <2>2. \A k \in 1 .. n : k \in 1 .. n - 1 \/ (k = n /\ n > 0)
      BY <1>1
    <2>q. QED
      BY <1>2, <1>4, <2>1, <2>2
  <1>7. \A j, k \in 1 .. n + 1 : to[j].fn = to[k].fn => j = k
    <2>1. \A j, k \in 1 .. n : st[j].fn = st[k].fn => j = k
      BY DEF Frames
    <2>2. \A k \in 1 .. n + 1 : k \in 1 .. n \/ k = n + 1
      BY <1>1
    <2>q. QED
      BY <1>2, <2>1, <2>2
  <1>8. Len(to) - 1 = n
    BY <1>1, <1>2
  <1>q. QED
    BY <1>2, <1>3, <1>5, <1>6, <1>7, <1>8 DEF Frames, to

LEMMA PopFrames ==
    ASSUME NEW F, NEW st, Frames(F, st), st # <<>>
    PROVE  LET to == SubSeq(st, 1, Len(st) - 1)
           IN  Frames(F, to) /\ (to # <<>> => Waiting(to[Len(to)]))
  <1> DEFINE to == SubSeq(st, 1, Len(st) - 1)
             n == Len(st)
  <1>1. n \in Nat \ {0} /\ st \in Seq(Range(st))
    BY TopFrame DEF Frames, IsSeq
  <1> HIDE DEF n
  <1>2. to \in Seq(Range(st)) /\ Len(to) = n - 1 /\ \A k \in 1 .. n - 1 : to[k] = st[k]
    <2>1. 1 \in 1 .. n + 1 /\ n - 1 \in 1 - 1 .. n /\ n - 1 - 1 + 1 = n - 1
      BY <1>1
    <2>q. QED
      BY <1>1, <2>1, SubSeqProperties DEF n
  <1>3. IsSeq(to)
    BY <1>2, SeqIsSeq
  <1>4. /\ \A k \in 1 .. n : st[k].fn \in DOMAIN F /\ IsFrame(st[k]) /\ InFunction(st[k])
        /\ \A k \in 1 .. n - 1 : Waiting(st[k])
        /\ \A j, k \in 1 .. n : st[j].fn = st[k].fn => j = k
    BY DEF Frames, n
  <1> HIDE DEF to
  <1>5. Frames(F, to)
    <2>1. /\ \A k \in 1 .. n - 1 : k \in 1 .. n
          /\ \A k \in 1 .. n - 1 - 1 : k \in 1 .. n - 1
      BY <1>1
    <2>2. \A k \in 1 .. Len(to) : to[k].fn \in DOMAIN F /\ IsFrame(to[k]) /\ InFunction(to[k])
      BY <1>2, <1>4, <2>1
    <2>3. \A k \in 1 .. Len(to) - 1 : Waiting(to[k])
      BY <1>2, <1>4, <2>1
    <2>4. \A j, k \in 1 .. Len(to) : to[j].fn = to[k].fn => j = k
      BY <1>2, <1>4, <2>1
    <2>q. QED
      BY <1>3, <2>2, <2>3, <2>4 DEF Frames
  <1>6. to # <<>> => n - 1 \in 1 .. n - 1
    BY <1>1, <1>2, <1>3, SeqFacts
  <1>q. QED
    BY <1>1, <1>2, <1>4, <1>5, <1>6 DEF to, n
-----------------------------------------------------------------------------
(***************************************************************************)
(* Steps inside one program                                                *)
(***************************************************************************)
LEMMA SameProgram ==
    ASSUME TodoInv, UNCHANGED <<todo, prog>>, prog # NoProgram,
           Records(m_Func2Fsda', m_InstSet'), Frames(m_Func2Fsda', stack'), Queued(prog, m_EntryFQ'),
           \A g \in DOMAIN m_GlvUse2Entry' : m_GlvUse2Entry'[g] \subseteq Defined(prog),
           stack' # <<>> => m_CurEntry' \in Defined(prog)
    PROVE  SdaInv'
  <1>1. TodoInv'
    BY DEF TodoInv
  <1>2. RecordInv'
    BY DEF RecordInv, Records, Recorded, IdOf, Fn, IsSourceInst
  <1>3. FrameInv'
    BY DEF FrameInv, Frames, InFunction, Waiting, Fn, IsSourceInst
  <1>4. EntryInv'
    BY DEF EntryInv, Queued, Users
  <1>q. QED
    BY <1>1, <1>2, <1>3, <1>4 DEF SdaInv

LEMMA GetSub ==
    ASSUME NEW f, NEW k, NEW S, \A x \in DOMAIN f : f[x] \subseteq S
    PROVE  Get(f, k, {}) \subseteq S
  BY DEF Get

\* An instruction the forward walk has reached.
LEMMA AtInstFacts ==
    ASSUME SdaInv, NEW i \in Insts, AtInst(i)
    PROVE  LET f == Top.fn
           IN  /\ prog # NoProgram /\ WellFormed(prog) /\ stack # <<>>
               /\ Records(m_Func2Fsda, m_InstSet) /\ Frames(m_Func2Fsda, stack)
               /\ Queued(prog, m_EntryFQ) /\ Users /\ m_CurEntry \in Defined(prog)
               /\ f \in DOMAIN m_Func2Fsda /\ f \in Defined(prog)
               /\ IsFrame(Top) /\ InFunction(Top) /\ ~Top.back
               /\ Top.pc \in DOMAIN Fn(f).body /\ i = Fn(f).body[Top.pc]
               /\ i \in AllInsts(prog)
  <1>1. prog # NoProgram /\ stack # <<>> /\ WellFormed(prog) /\ i \in AllInsts(prog)
    BY DEF AtInst, SdaInv, TodoInv, Insts
  <1>2. /\ Records(m_Func2Fsda, m_InstSet) /\ Frames(m_Func2Fsda, stack)
        /\ Queued(prog, m_EntryFQ) /\ Users /\ m_CurEntry \in Defined(prog)
    BY <1>1 DEF SdaInv, RecordInv, FrameInv, EntryInv, Users
  <1>3. /\ Top.fn \in DOMAIN m_Func2Fsda /\ IsFrame(Top) /\ InFunction(Top) /\ ~Top.back
        /\ Top.pc <= Len(Fn(Top.fn).body) /\ i = Fn(Top.fn).body[Top.pc]
    BY <1>1, <1>2, TopFrame DEF AtInst, Top, Inst
  <1>4. Top.fn \in Defined(prog) /\ Top.pc \in 1 .. Len(Fn(Top.fn).body)
    BY <1>1, <1>3, BodyIsSeq DEF InFunction
  <1>q. QED
    BY <1>1, <1>2, <1>3, <1>4, BodyIsSeq

LEMMA UseGlobalsUsers ==
    ASSUME SdaInv, NEW i \in Insts, AtDecoded(i)
    PROVE  \A g \in DOMAIN m_GlvUse2Entry' : m_GlvUse2Entry'[g] \subseteq Defined(prog)
  <1>1. Users /\ m_CurEntry \in Defined(prog)
    BY AtInstFacts DEF AtDecoded
  <1>2. \A g : Get(m_GlvUse2Entry, g, {}) \subseteq Defined(prog)
    BY <1>1, GetSub DEF Users
  <1>3. PICK lvs :
           m_GlvUse2Entry' = [g \in DOMAIN m_GlvUse2Entry \cup lvs |->
               Get(m_GlvUse2Entry, g, {}) \cup IF g \in lvs THEN {m_CurEntry} ELSE {}]
    BY DEF AtDecoded, UseGlobals
  <1> DEFINE add(g) == IF g \in lvs THEN {m_CurEntry} ELSE {}
  <1>4. \A g : add(g) \subseteq Defined(prog)
    BY <1>1
  <1>q. QED
    BY <1>2, <1>3, <1>4

LEMMA TopAdvances ==
    ASSUME SdaInv, NEW i \in Insts, AtInst(i), NEW to, Behind(Top, to),
           NEW F, DOMAIN m_Func2Fsda \subseteq DOMAIN F
    PROVE  Frames(F, SetTop(to))
  <1>1. IsFrame(to) /\ InFunction(to) /\ to.fn = Top.fn
    BY AtInstFacts, BehindFrame DEF Behind
  <1>2. Frames(m_Func2Fsda, stack) /\ stack # <<>>
    BY AtInstFacts
  <1>q. QED
    BY <1>1, <1>2, SetTopFrames DEF Top, SetTop

LEMMA AdvanceBehind ==
    ASSUME NEW fr, IsFrame(fr)
    PROVE  /\ Behind(fr, Advance(fr))
           /\ \A lex : Behind(fr, [Advance(fr) EXCEPT !.lex = lex])
           /\ \A out : Behind(fr, [Advance(fr) EXCEPT !.out = @ \cup out])
           /\ \A lex, out : Behind(fr, [Advance(fr) EXCEPT !.lex = lex, !.out = @ \cup out])
  <1>1. Behind(fr, Advance(fr))
    BY DEF IsFrame, Advance, Behind
  <1>2. \A lex : Behind(fr, [Advance(fr) EXCEPT !.lex = lex])
    BY DEF IsFrame, Advance, Behind
  <1>3. \A out : Behind(fr, [Advance(fr) EXCEPT !.out = @ \cup out])
    BY DEF IsFrame, Advance, Behind
  <1>4. \A lex, out : Behind(fr, [Advance(fr) EXCEPT !.lex = lex, !.out = @ \cup out])
    BY DEF IsFrame, Advance, Behind
  <1>q. QED
    BY <1>1, <1>2, <1>3, <1>4

LEMMA SelectRecords ==
    ASSUME SdaInv, NEW i \in Insts, AtInst(i), NEW ssd,
           IsSourceInst(i) => ssd = 1, ~IsSourceInst(i) => ssd = 0, Select(i, ssd)
    PROVE  Records(m_Func2Fsda', m_InstSet') /\ DOMAIN m_Func2Fsda \subseteq DOMAIN m_Func2Fsda'
  <1>1. /\ Records(m_Func2Fsda, m_InstSet) /\ Top.fn \in DOMAIN m_Func2Fsda
        /\ Top.pc \in DOMAIN Fn(Top.fn).body /\ i = Fn(Top.fn).body[Top.pc]
    BY AtInstFacts
  <1>q. QED
    BY <1>1, InsertRecords DEF Select

LEMMA SkipInstKeeps ==
    ASSUME SdaInv, SkipInst
    PROVE  SdaInv'
  <1> PICK i \in Insts : AtInst(i)
    BY DEF SkipInst
  <1>1. Behind(Top, Advance(Top)) /\ stack' = SetTop(Advance(Top))
    BY AtInstFacts, AdvanceBehind DEF SkipInst
  <1>2. Frames(m_Func2Fsda', stack')
    BY <1>1, TopAdvances DEF SkipInst
  <1>q. QED
    BY <1>2, AtInstFacts, SameProgram DEF SkipInst, SdaInv, Users, entries, globals

LEMMA SourceInstKeeps ==
    ASSUME SdaInv, SourceInst
    PROVE  SdaInv'
  <1> PICK i \in Insts :
          /\ AtDecoded(i) /\ IsSourceInst(i) /\ Select(i, 1)
          /\ stack' = SetTop([Advance(Top) EXCEPT !.lex = @ \cup {i.v}])
    BY DEF SourceInst
  <1>1. AtInst(i)
    BY DEF AtDecoded
  <1>2. Records(m_Func2Fsda', m_InstSet') /\ DOMAIN m_Func2Fsda \subseteq DOMAIN m_Func2Fsda'
    BY <1>1, SelectRecords
  <1>3. Frames(m_Func2Fsda', stack')
    <2> DEFINE to == [Advance(Top) EXCEPT !.lex = @ \cup {i.v}]
    <2>1. Behind(Top, to)
      BY <1>1, AtInstFacts, AdvanceBehind
    <2>q. QED
      BY <1>1, <1>2, <2>1, TopAdvances
  <1>q. QED
    BY <1>1, <1>2, <1>3, AtInstFacts, UseGlobalsUsers, SameProgram DEF SourceInst, SdaInv, entries

LEMMA PassInstKeeps ==
    ASSUME SdaInv, PassInst
    PROVE  SdaInv'
  <1> PICK i \in Insts : AtDecoded(i)
    BY DEF PassInst
  <1>1. AtInst(i)
    BY DEF AtDecoded
  <1>2. Frames(m_Func2Fsda', stack')
    <2>1. Behind(Top, Advance(Top)) /\ stack' = SetTop(Advance(Top))
      BY <1>1, AtInstFacts, AdvanceBehind DEF PassInst
    <2>q. QED
      BY <1>1, <2>1, TopAdvances DEF PassInst
  <1>q. QED
    BY <1>1, <1>2, AtInstFacts, UseGlobalsUsers, SameProgram DEF PassInst, SdaInv, entries

LEMMA TaintRetKeeps ==
    ASSUME SdaInv, TaintRet
    PROVE  SdaInv'
  <1> PICK i \in Insts : AtDecoded(i) /\ i.op = "ret" /\ Select(i, 0)
    BY DEF TaintRet
  <1>1. AtInst(i) /\ ~IsSourceInst(i)
    BY DEF AtDecoded, IsSourceInst, IsCall
  <1>2. Records(m_Func2Fsda', m_InstSet') /\ DOMAIN m_Func2Fsda \subseteq DOMAIN m_Func2Fsda'
    BY <1>1, SelectRecords
  <1>3. Frames(m_Func2Fsda', stack')
    <2> DEFINE to == [Advance(Top) EXCEPT !.out = @ \cup {RET_NO}]
    <2>1. Behind(Top, to) /\ stack' = SetTop(to)
      BY <1>1, AtInstFacts, AdvanceBehind DEF TaintRet
    <2>q. QED
      BY <1>1, <1>2, <2>1, TopAdvances
  <1>q. QED
    BY <1>1, <1>2, <1>3, AtInstFacts, UseGlobalsUsers, SameProgram DEF TaintRet, SdaInv, entries

\* What the queue gets is not in it.
LEMMA AppendOrder ==
    ASSUME NEW P, NEW q, Queued(P, q), NEW S, S \subseteq Defined(P), S \cap Range(q) = {},
           WellFormed(P), NEW r \in Orders(S)
    PROVE  Queued(P, q \o r)
  <1>1. IsFiniteSet(S)
    BY DefinedFinite, FS_Subset
  <1>2. IsSeq(r) /\ IsInjective(r) /\ Range(r) = S
    BY <1>1, OrdersFacts
  <1>3. q \in Seq(Range(q) \cup S) /\ r \in Seq(Range(q) \cup S)
    BY <1>2, SeqMonotonic DEF Queued, IsSeq
  <1>4. /\ q \o r \in Seq(Range(q) \cup S) /\ Len(q \o r) = Len(q) + Len(r)
        /\ \A k \in 1 .. Len(q) + Len(r) : (q \o r)[k] = IF k <= Len(q) THEN q[k] ELSE r[k - Len(q)]
        /\ Range(q \o r) = Range(q) \cup Range(r)
    BY <1>3, ConcatProperties, RangeConcatenation
  <1>5. IsSeq(q \o r)
    BY <1>4, SeqIsSeq
  <1> DEFINE m == Len(q)
             n == Len(r)
             a == q \o r
  <1>6. /\ m \in Nat /\ DOMAIN q = 1 .. m /\ \A k \in 1 .. m : q[k] \in Range(q)
        /\ n \in Nat /\ DOMAIN r = 1 .. n /\ \A k \in 1 .. n : r[k] \in S
    BY <1>2, SeqFacts DEF Queued
  <1>7. DOMAIN a = 1 .. m + n
    BY <1>4, <1>5, SeqFacts
  <1> HIDE DEF m, n, a
  <1>8. ASSUME NEW k \in 1 .. m + n
        PROVE  \/ k \in 1 .. m /\ a[k] = q[k] /\ a[k] \in Range(q)
               \/ k - m \in 1 .. n /\ a[k] = r[k - m] /\ a[k] \in S
    <2>1. CASE k <= m
      BY <1>4, <1>6, <2>1 DEF m, n, a
    <2>2. CASE k > m
      <3>1. k - m \in 1 .. n /\ ~(k <= m)
        BY <1>6, <2>2
      <3>q. QED
        BY <1>4, <1>6, <3>1 DEF m, n, a
    <2>q. QED
      BY <1>6, <2>1, <2>2
  <1>9. ASSUME NEW j \in 1 .. m + n, NEW k \in 1 .. m + n, a[j] = a[k]
        PROVE  j = k
    <2>1. CASE a[j] \in Range(q)
      <3>1. j \in 1 .. m /\ k \in 1 .. m /\ q[j] = q[k]
        BY <1>8, <1>9, <2>1
      <3>q. QED
        BY <1>6, <3>1 DEF Queued, IsInjective
    <2>2. CASE a[j] \notin Range(q)
      <3>1. j - m \in 1 .. n /\ k - m \in 1 .. n /\ r[j - m] = r[k - m]
        BY <1>8, <1>9, <2>2
      <3>2. j - m = k - m
        BY <1>2, <1>6, <3>1 DEF IsInjective
      <3>q. QED
        BY <1>6, <3>2
    <2>q. QED
      BY <2>1, <2>2
  <1>10. IsInjective(a)
    BY <1>7, <1>9 DEF IsInjective
  <1>q. QED
    BY <1>2, <1>4, <1>5, <1>10 DEF Queued, a

LEMMA SingleOrder ==
    ASSUME NEW f
    PROVE  <<f>> \in Orders({f})
  <1>1. Cardinality({f}) = 1
    BY FS_Singleton
  <1>2. <<f>> \in [1 .. 1 -> {f}] /\ Range(<<f>>) = {f}
    BY DEF Range
  <1>q. QED
    BY <1>1, <1>2 DEF Orders

LEMMA InQueueQueued ==
    ASSUME NEW P, NEW q, Queued(P, q), NEW f \in Defined(P), WellFormed(P)
    PROVE  Queued(P, InQueue(q, f))
  <1>1. CASE f \in Range(q)
    BY <1>1 DEF InQueue
  <1>2. CASE f \notin Range(q)
    <2>1. Append(q, f) = q \o <<f>>
      BY AppendIsConcat DEF Queued, IsSeq
    <2>2. Queued(P, q \o <<f>>)
      <3>1. {f} \subseteq Defined(P) /\ {f} \cap Range(q) = {}
        BY <1>2
      <3>2. <<f>> \in Orders({f})
        BY SingleOrder
      <3>q. QED
        BY <3>1, <3>2, AppendOrder
    <2>q. QED
      BY <1>2, <2>1, <2>2 DEF InQueue
  <1>q. QED
    BY <1>1, <1>2

LEMMA AddGlvUseEntryQueued ==
    ASSUME NEW g, AddGlvUseEntry(g), Queued(prog, m_EntryFQ), Users, WellFormed(prog)
    PROVE  Queued(prog, m_EntryFQ')
  <1> DEFINE S == {e \in Get(m_GlvUse2Entry, g, {}) \ ({m_CurEntry} \cup Range(m_EntryFQ)) :
                      GetEntryExeNum(e) <= Cardinality(GlvUse(e))}
  <1>1. PICK q \in Orders(S) : m_EntryFQ' = m_EntryFQ \o q
    BY DEF AddGlvUseEntry
  <1>2. S \subseteq Defined(prog)
    BY GetSub DEF Users
  <1>3. S \cap Range(m_EntryFQ) = {}
    OBVIOUS
  <1> HIDE DEF S
  <1>q. QED
    BY <1>1, <1>2, <1>3, AppendOrder

LEMMA TaintInstKeeps ==
    ASSUME SdaInv, TaintInst
    PROVE  SdaInv'
  <1> PICK i \in Insts :
          /\ AtDecoded(i) /\ ~IsCall(i) /\ Select(i, 0)
          /\ stack' = SetTop([Advance(Top) EXCEPT
                                !.out = @ \cup CheckOutArgTaint(Top.fn, {GetDef(i)}),
                                !.lex = AddTaintValue(m_EqualVal', @, GetDef(i))])
          /\ \/ \E g : AddGlvUseEntry(g)
             \/ UNCHANGED m_EntryFQ
    BY DEF TaintInst
  <1>1. AtInst(i) /\ ~IsSourceInst(i)
    BY DEF AtDecoded, IsSourceInst
  <1>2. Records(m_Func2Fsda', m_InstSet') /\ DOMAIN m_Func2Fsda \subseteq DOMAIN m_Func2Fsda'
    BY <1>1, SelectRecords
  <1>3. Frames(m_Func2Fsda', stack')
    <2> DEFINE to == [Advance(Top) EXCEPT
                        !.out = @ \cup CheckOutArgTaint(Top.fn, {GetDef(i)}),
                        !.lex = AddTaintValue(m_EqualVal', @, GetDef(i))]
    <2>1. Behind(Top, to)
      BY <1>1, AtInstFacts DEF IsFrame, Advance, Behind
    <2>q. QED
      BY <1>1, <1>2, <2>1, TopAdvances
  <1>4. Queued(prog, m_EntryFQ')
    BY <1>1, AtInstFacts, AddGlvUseEntryQueued
  <1>q. QED
    BY <1>1, <1>2, <1>3, <1>4, AtInstFacts, UseGlobalsUsers, SameProgram DEF TaintInst, SdaInv
-----------------------------------------------------------------------------
(***************************************************************************)
(* Calls                                                                   *)
(***************************************************************************)
LEMMA AtCallFacts ==
    ASSUME SdaInv, NEW i \in Insts, AtCall(i)
    PROVE  /\ AtInst(i) /\ AtDecoded(i) /\ IsCall(i) /\ ~IsSourceInst(i) /\ Waiting(Top)
           /\ i.callee \in DOMAIN prog.fn \cup {NoFunc}
           /\ IsThreadCrt(i.callee) => i.ops[3] \in Defined(prog)
           /\ Kept(m_Func2Fsda, WithCst(i)) /\ Records(WithCst(i), m_InstSet)
  <1>1. AtInst(i) /\ AtDecoded(i) /\ IsCall(i) /\ ~IsSourceInst(i)
    BY DEF AtCall, AtDecoded
  <1>2. Waiting(Top)
    BY <1>1, AtInstFacts DEF Waiting
  <1>3. /\ i.callee \in DOMAIN prog.fn \cup {NoFunc}
        /\ IsThreadCrt(i.callee) => i.ops[3] \in Defined(prog)
    BY <1>1, AtInstFacts DEF WellFormed
  <1>4. Kept(m_Func2Fsda, WithCst(i))
    <2>1. IsFsdaMap(m_Func2Fsda) /\ Top.fn \in DOMAIN m_Func2Fsda
      BY <1>1, AtInstFacts DEF Records
    <2>2. \E c : WithCst(i) = [m_Func2Fsda EXCEPT ![Top.fn].cst = c]
      BY DEF WithCst, InsertCst
    <2>q. QED
      BY <2>1, <2>2, CstKept
  <1>5. Records(WithCst(i), m_InstSet)
    BY <1>1, <1>4, AtInstFacts, KeptRecords
  <1>q. QED
    BY <1>1, <1>2, <1>3, <1>4, <1>5

\* The frame that called takes the result and goes on behind its call.
LEMMA FinishCallKeeps ==
    ASSUME NEW F, NEW st, NEW fr, NEW i, NEW bits, NEW before, NEW out,
           FinishCall(F, st, i, bits, before, out), WellFormed(prog),
           Records(F, m_InstSet), Frames(F, st), st # <<>>, fr = Last(st),
           Waiting(fr), i = Fn(fr.fn).body[fr.pc], m_Func2Fsda[fr.fn].id = F[fr.fn].id
    PROVE  Records(m_Func2Fsda', m_InstSet') /\ Frames(m_Func2Fsda', stack') /\ stack' # <<>>
  <1> DEFINE callee == IF i.callee = NoFunc THEN {} ELSE {i.callee}
             noted(c) == [c EXCEPT !.out = out, !.callees = @ \cup callee]
             G == [F EXCEPT ![fr.fn].cst[i.v] = noted(@)]
  <1>1. fr = st[Len(st)] /\ fr.fn \in DOMAIN F /\ IsFrame(fr) /\ InFunction(fr)
    BY TopFrame
  <1>2. Kept(F, G)
    <2>1. IsFsdaMap(F)
      BY DEF Records
    <2>2. \E c : G = [F EXCEPT ![fr.fn].cst = c]
      OBVIOUS
    <2> HIDE DEF G
    <2>q. QED
      BY <1>1, <2>1, <2>2, CstKept
  <1> HIDE DEF G
  <1>3. /\ Records(G, m_InstSet) /\ DOMAIN G = DOMAIN F /\ G[fr.fn].id = F[fr.fn].id
    BY <1>1, <1>2, KeptRecords DEF Kept
  <1>4. Records(m_Func2Fsda', m_InstSet') /\ DOMAIN m_Func2Fsda' = DOMAIN F
    <2>1. \/ m_InstSet' = m_InstSet /\ m_Func2Fsda' = G
          \/ m_InstSet' = m_InstSet \cup {i.v} /\ m_Func2Fsda' = InsertInst(G, fr.fn, i, fr.pc, 0)
      <3>1. \/ m_InstSet' = m_InstSet /\ m_Func2Fsda' = G
            \/ m_InstSet' = m_InstSet \cup {i.v} /\ m_Func2Fsda' = InsertInst(G, Last(st).fn, i, Last(st).pc, 0)
        BY DEF FinishCall, G
      <3>q. QED
        BY <3>1
    <2>2. /\ fr.pc \in DOMAIN Fn(fr.fn).body /\ i = Fn(fr.fn).body[fr.pc] /\ ~IsSourceInst(i)
          /\ Records(G, m_InstSet) /\ fr.fn \in DOMAIN G
          /\ m_Func2Fsda[fr.fn].id = G[fr.fn].id
      BY <1>1, <1>3 DEF Waiting
    <2>3. /\ Records(InsertInst(G, fr.fn, i, fr.pc, 0), m_InstSet \cup {i.v})
          /\ DOMAIN InsertInst(G, fr.fn, i, fr.pc, 0) = DOMAIN G
      BY <2>2, InsertRecords
    <2>q. QED
      BY <1>3, <2>1, <2>3
  <1>5. Frames(m_Func2Fsda', stack') /\ stack' # <<>>
    <2>1. PICK lex, o : stack' = [st EXCEPT ![Len(st)] = [Advance(fr) EXCEPT !.lex = lex, !.out = @ \cup o]]
      BY DEF FinishCall
    <2> DEFINE to == [Advance(fr) EXCEPT !.lex = lex, !.out = @ \cup o]
    <2>2. Behind(fr, to)
      BY <1>1, AdvanceBehind
    <2> HIDE DEF to
    <2>3. IsFrame(to) /\ InFunction(to) /\ to.fn = fr.fn
      BY <1>1, <2>2, BehindFrame DEF Behind, Waiting
    <2>4. stack' = [st EXCEPT ![Len(st)] = to]
      BY <2>1 DEF to
    <2>5. DOMAIN F \subseteq DOMAIN m_Func2Fsda'
      BY <1>4
    <2>6. /\ Frames(m_Func2Fsda', [st EXCEPT ![Len(st)] = to])
          /\ [st EXCEPT ![Len(st)] = to] # <<>>
      BY <1>1, <2>3, <2>5, SetTopFrames
    <2>q. QED
      BY <2>4, <2>6
  <1>q. QED
    BY <1>4, <1>5

LEMMA CreateThreadKeeps ==
    ASSUME SdaInv, CreateThread
    PROVE  SdaInv'
  <1> PICK i \in Insts :
          /\ AtCall(i) /\ IsThreadCrt(i.callee) /\ m_Func2Fsda' = WithCst(i)
          /\ m_EntryFQ' = InQueue(m_EntryFQ, i.ops[3])
          /\ \E lex, o : stack' = SetTop([Advance(Top) EXCEPT !.lex = lex, !.out = @ \cup o])
    BY DEF CreateThread
  <1>1. /\ AtInst(i) /\ AtDecoded(i) /\ i.ops[3] \in Defined(prog)
        /\ Kept(m_Func2Fsda, WithCst(i)) /\ Records(WithCst(i), m_InstSet)
    BY AtCallFacts
  <1>2. Frames(m_Func2Fsda', stack')
    <2> PICK lex, o : stack' = SetTop([Advance(Top) EXCEPT !.lex = lex, !.out = @ \cup o])
      OBVIOUS
    <2> DEFINE to == [Advance(Top) EXCEPT !.lex = lex, !.out = @ \cup o]
    <2>1. Behind(Top, to)
      BY <1>1, AtInstFacts, AdvanceBehind
    <2>2. DOMAIN m_Func2Fsda \subseteq DOMAIN m_Func2Fsda'
      BY <1>1 DEF Kept
    <2>q. QED
      BY <1>1, <2>1, <2>2, TopAdvances
  <1>3. Queued(prog, m_EntryFQ')
    BY <1>1, AtInstFacts, InQueueQueued
  <1>q. QED
    BY <1>1, <1>2, <1>3, AtInstFacts, UseGlobalsUsers, SameProgram DEF CreateThread, SdaInv

LEMMA CallKnownKeeps ==
    ASSUME SdaInv, CallKnown
    PROVE  SdaInv'
  <1> PICK i \in Insts :
          /\ AtCall(i)
          /\ \E bits, before, out : FinishCall(WithCst(i), stack, i, bits, before, out)
    BY DEF CallKnown
  <1>1. /\ AtInst(i) /\ AtDecoded(i) /\ Waiting(Top)
        /\ Kept(m_Func2Fsda, WithCst(i)) /\ Records(WithCst(i), m_InstSet)
    BY AtCallFacts
  <1>2. /\ WellFormed(prog) /\ Frames(m_Func2Fsda, stack) /\ stack # <<>>
        /\ Top.fn \in DOMAIN m_Func2Fsda /\ i = Fn(Top.fn).body[Top.pc]
    BY <1>1, AtInstFacts
  <1>3. Last(stack) = Top
    BY <1>2, TopFrame DEF Top
  <1>4. Frames(WithCst(i), stack) /\ m_Func2Fsda[Top.fn].id = WithCst(i)[Top.fn].id
    BY <1>1, <1>2 DEF Frames, Kept
  <1>5. Records(m_Func2Fsda', m_InstSet') /\ Frames(m_Func2Fsda', stack')
    BY <1>1, <1>2, <1>3, <1>4, FinishCallKeeps
  <1>q. QED
    BY <1>1, <1>5, AtInstFacts, UseGlobalsUsers, SameProgram DEF CallKnown, SdaInv, entries

LEMMA CallEnterKeeps ==
    ASSUME SdaInv, CallEnter
    PROVE  SdaInv'
  <1> PICK i \in Insts :
          /\ AtCall(i) /\ ~IsKnown(i, CstIn(i))
          /\ m_Func2Fsda' = GetFlda(WithCst(i), i.callee)
          /\ stack' = Append(SetTop([Top EXCEPT !.bits = Bits, !.before = Cardinality(m_InstSet)]),
                             Frame(i.callee, CstIn(i)))
    BY DEF CallEnter
  <1>1. /\ AtInst(i) /\ AtDecoded(i) /\ Waiting(Top) /\ i.callee \in DOMAIN prog.fn \cup {NoFunc}
        /\ Kept(m_Func2Fsda, WithCst(i)) /\ Records(WithCst(i), m_InstSet)
    BY AtCallFacts
  <1>2. /\ WellFormed(prog) /\ Frames(m_Func2Fsda, stack) /\ stack # <<>> /\ IsFrame(Top) /\ InFunction(Top)
    BY <1>1, AtInstFacts
  <1>3. i.callee \in Defined(prog) /\ ~IsInStack(i.callee)
    BY <1>1 DEF IsKnown, Defined, Fn
  <1>4. /\ Records(m_Func2Fsda', m_InstSet)
        /\ i.callee \in DOMAIN m_Func2Fsda' /\ DOMAIN m_Func2Fsda \subseteq DOMAIN m_Func2Fsda'
    <2>1. /\ Records(GetFlda(WithCst(i), i.callee), m_InstSet)
          /\ DOMAIN GetFlda(WithCst(i), i.callee) = DOMAIN WithCst(i) \cup {i.callee}
      BY <1>1, <1>2, <1>3, GetFldaRecords
    <2>q. QED
      BY <1>1, <2>1 DEF Kept
  <1> DEFINE fr == [Top EXCEPT !.bits = Bits, !.before = Cardinality(m_InstSet)]
             st == SetTop(fr)
             to == Frame(i.callee, CstIn(i))
  <1>5. IsFrame(fr) /\ fr.fn = Top.fn /\ fr.in = Top.in /\ fr.out = Top.out /\ fr.pc = Top.pc /\ fr.back = Top.back
    BY <1>2 DEF IsFrame
  <1>6. IsFrame(to) /\ InFunction(to) /\ to.fn = i.callee
    BY <1>2, <1>3, NewFrame
  <1> HIDE DEF fr, to
  <1>7. InFunction(fr) /\ Waiting(fr)
    BY <1>1, <1>2, <1>5 DEF InFunction, Waiting
  <1>8. /\ Frames(m_Func2Fsda', st) /\ Len(st) = Len(stack) /\ st[Len(stack)] = fr
        /\ \A k \in 1 .. Len(stack) : st[k].fn = stack[k].fn
    BY <1>2, <1>4, <1>5, <1>7, SetTopFrames DEF SetTop, Top
  <1>9. \A k \in 1 .. Len(stack) : stack[k].fn # i.callee
    BY <1>2, <1>3, SeqFacts DEF IsInStack, Frames
  <1> HIDE DEF st
  <1>10. Frames(m_Func2Fsda', Append(st, to))
    BY <1>4, <1>6, <1>7, <1>8, <1>9, PushFrames
  <1>11. Frames(m_Func2Fsda', stack')
    BY <1>10 DEF st, to, fr
  <1>q. QED
    BY <1>1, <1>4, <1>11, AtInstFacts, UseGlobalsUsers, SameProgram DEF CallEnter, SdaInv, entries
-----------------------------------------------------------------------------
(***************************************************************************)
(* The walk back, and the end of ComputeFlda                               *)
(***************************************************************************)
LEMMA StackFacts ==
    ASSUME SdaInv, stack # <<>>
    PROVE  LET f == Top.fn
           IN  /\ prog # NoProgram /\ WellFormed(prog)
               /\ Records(m_Func2Fsda, m_InstSet) /\ Frames(m_Func2Fsda, stack)
               /\ Queued(prog, m_EntryFQ) /\ Users /\ m_CurEntry \in Defined(prog)
               /\ f \in DOMAIN m_Func2Fsda /\ f \in Defined(prog)
               /\ IsFrame(Top) /\ InFunction(Top)
               /\ Len(Fn(f).body) \in Nat /\ DOMAIN Fn(f).body = 1 .. Len(Fn(f).body)
  <1>1. prog # NoProgram /\ WellFormed(prog)
    BY DEF SdaInv, TodoInv
  <1>2. /\ Records(m_Func2Fsda, m_InstSet) /\ Frames(m_Func2Fsda, stack)
        /\ Queued(prog, m_EntryFQ) /\ Users /\ m_CurEntry \in Defined(prog)
    BY <1>1 DEF SdaInv, RecordInv, FrameInv, EntryInv, Users
  <1>3. Top.fn \in DOMAIN m_Func2Fsda /\ IsFrame(Top) /\ InFunction(Top)
    BY <1>2, TopFrame DEF Top
  <1>q. QED
    BY <1>1, <1>2, <1>3, BodyIsSeq DEF InFunction

LEMMA TopReplaced ==
    ASSUME SdaInv, stack # <<>>, NEW to, IsFrame(to), InFunction(to), to.fn = Top.fn,
           NEW F, DOMAIN m_Func2Fsda \subseteq DOMAIN F
    PROVE  Frames(F, SetTop(to))
  BY StackFacts, SetTopFrames DEF Top, SetTop

LEMMA EndForwardKeeps ==
    ASSUME SdaInv, EndForward
    PROVE  SdaInv'
  <1> DEFINE to == [Top EXCEPT !.back = TRUE, !.pc = @ - 1, !.fw = Cardinality(m_InstSet)]
  <1>1. stack # <<>> /\ ~Top.back /\ Top.pc > Len(Fn(Top.fn).body) /\ stack' = SetTop(to)
    BY DEF EndForward
  <1>2. Kept(m_Func2Fsda, m_Func2Fsda') /\ Records(m_Func2Fsda', m_InstSet')
    <2>1. Kept(m_Func2Fsda, m_Func2Fsda')
      BY <1>1, StackFacts, InstNumKept DEF EndForward, Records
    <2>q. QED
      BY <1>1, <2>1, StackFacts, KeptRecords DEF EndForward
  <1>3. /\ IsFrame(to) /\ to.fn = Top.fn /\ to.in = Top.in /\ to.out = Top.out
        /\ to.back = TRUE /\ to.pc = Top.pc - 1
    BY <1>1, StackFacts DEF IsFrame
  <1> HIDE DEF to
  <1>4. InFunction(to)
    BY <1>1, <1>3, StackFacts DEF InFunction
  <1>5. Frames(m_Func2Fsda', stack')
    BY <1>1, <1>2, <1>3, <1>4, TopReplaced DEF Kept
  <1>q. QED
    BY <1>1, <1>2, <1>5, StackFacts, SameProgram DEF EndForward, SdaInv, Users, entries, globals

LEMMA BackInstKeeps ==
    ASSUME SdaInv, BackInst
    PROVE  SdaInv'
  <1> DEFINE i == Inst
  <1>1. /\ stack # <<>> /\ Top.back /\ Top.pc > 1
        /\ \/ i.op \in {"load", "store", "gep", "bitcast"} /\ Select(i, 0)
           \/ UNCHANGED <<m_InstSet, m_Func2Fsda>>
    BY DEF BackInst
  <1>2. Top.pc \in DOMAIN Fn(Top.fn).body /\ i = Fn(Top.fn).body[Top.pc]
    BY <1>1, StackFacts DEF InFunction, Inst
  <1>3. Records(m_Func2Fsda', m_InstSet') /\ DOMAIN m_Func2Fsda \subseteq DOMAIN m_Func2Fsda'
    <2>1. CASE UNCHANGED <<m_InstSet, m_Func2Fsda>>
      BY <1>1, <2>1, StackFacts
    <2>2. CASE i.op \in {"load", "store", "gep", "bitcast"} /\ Select(i, 0)
      <3>1. ~IsSourceInst(i)
        BY <2>2 DEF IsSourceInst, IsCall
      <3> HIDE DEF i
      <3>q. QED
        BY <1>1, <1>2, <2>2, <3>1, StackFacts, InsertRecords, SMTT(40) DEF Select
    <2>q. QED
      BY <1>1, <2>1, <2>2
  <1>4. PICK to : stack' = SetTop(to) /\ IsFrame(to) /\ to.fn = Top.fn /\ to.in = Top.in
                  /\ Top.out \subseteq to.out /\ to.pc = Top.pc - 1 /\ to.back = Top.back
    <2> DEFINE step == [Top EXCEPT !.pc = @ - 1]
    <2>1. \/ stack' = SetTop(step)
          \/ \E lex, out : stack' = SetTop([step EXCEPT !.lex = lex, !.out = @ \cup out])
      BY DEF BackInst
    <2>2. /\ IsFrame(step) /\ step.fn = Top.fn /\ step.in = Top.in
          /\ step.out = Top.out /\ step.pc = Top.pc - 1 /\ step.back = Top.back
      BY <1>1, StackFacts DEF IsFrame
    <2>3. CASE stack' = SetTop(step)
      BY <2>2, <2>3
    <2>4. ASSUME NEW lex, NEW out, stack' = SetTop([step EXCEPT !.lex = lex, !.out = @ \cup out])
          PROVE  \E to : /\ stack' = SetTop(to) /\ IsFrame(to) /\ to.fn = Top.fn /\ to.in = Top.in
                         /\ Top.out \subseteq to.out /\ to.pc = Top.pc - 1 /\ to.back = Top.back
      <3> HIDE DEF step
      <3> DEFINE new == [step EXCEPT !.lex = lex, !.out = @ \cup out]
      <3>1. /\ IsFrame(new) /\ new.fn = step.fn /\ new.in = step.in
            /\ step.out \subseteq new.out /\ new.pc = step.pc /\ new.back = step.back
        BY <2>2 DEF IsFrame
      <3>2. stack' = SetTop(new)
        BY <2>4
      <3> HIDE DEF new
      <3>q. QED
        BY <2>2, <3>1, <3>2
    <2>q. QED
      BY <2>1, <2>3, <2>4
  <1>5. InFunction(to)
    BY <1>1, <1>4, StackFacts DEF InFunction
  <1>6. Frames(m_Func2Fsda', stack')
    BY <1>1, <1>3, <1>4, <1>5, TopReplaced
  <1>q. QED
    BY <1>1, <1>3, <1>6, StackFacts, SameProgram DEF BackInst, SdaInv, Users, entries, globals

LEMMA AgainKeeps ==
    ASSUME SdaInv, Again
    PROVE  SdaInv'
  <1> DEFINE to == [Top EXCEPT !.back = FALSE, !.pc = 1, !.lex = InitCriterions(Top.fn, Top.out, @)]
  <1>1. stack # <<>> /\ stack' = SetTop(to)
    BY DEF Again, EndBackward
  <1>2. /\ IsFrame(to) /\ to.fn = Top.fn /\ to.in = Top.in /\ to.out = Top.out
        /\ to.back = FALSE /\ to.pc = 1
    BY <1>1, StackFacts DEF IsFrame
  <1> HIDE DEF to
  <1>3. InFunction(to)
    BY <1>1, <1>2, StackFacts DEF InFunction
  <1>4. Frames(m_Func2Fsda', stack')
    BY <1>1, <1>2, <1>3, TopReplaced DEF Again
  <1>q. QED
    BY <1>1, <1>4, StackFacts, SameProgram DEF Again, SdaInv, Users, entries, globals

LEMMA ReturnKeeps ==
    ASSUME SdaInv, Return
    PROVE  SdaInv'
  <1> DEFINE F == UpdateSdsCache(m_Func2Fsda, Top.fn, Top.in, Top.out)
             st == SubSeq(stack, 1, Len(stack) - 1)
             fr == Last(st)
  <1>1. stack # <<>>
    BY DEF Return, EndBackward
  <1>2. \/ stack' = <<>> /\ m_Func2Fsda' = F /\ m_InstSet' = m_InstSet
        \/ st # <<>> /\ FinishCall(F, st, Fn(fr.fn).body[fr.pc], fr.bits, fr.before, Top.out)
    BY DEF Return
  <1>3. Kept(m_Func2Fsda, F)
    <2>1. \E c : F = [m_Func2Fsda EXCEPT ![Top.fn].cache = c]
      BY DEF UpdateSdsCache
    <2> HIDE DEF F
    <2>q. QED
      BY <1>1, <2>1, StackFacts, CacheKept DEF Records
  <1> HIDE DEF F
  <1>4. Records(F, m_InstSet)
    BY <1>1, <1>3, StackFacts, KeptRecords
  <1>5. Frames(F, st) /\ (st # <<>> => Waiting(st[Len(st)]))
    <2>1. Frames(F, stack)
      BY <1>1, <1>3, StackFacts DEF Frames, Kept
    <2>q. QED
      BY <1>1, <2>1, PopFrames
  <1> HIDE DEF st
  <1>6. CASE stack' = <<>> /\ m_Func2Fsda' = F /\ m_InstSet' = m_InstSet
    BY <1>1, <1>4, <1>6, NoFrames, StackFacts, SameProgram DEF Return, SdaInv, Users
  <1>7. CASE st # <<>> /\ FinishCall(F, st, Fn(fr.fn).body[fr.pc], fr.bits, fr.before, Top.out)
    <2>1. fr = st[Len(st)] /\ fr.fn \in DOMAIN F
      BY <1>5, <1>7, TopFrame
    <2>2. Waiting(fr) /\ m_Func2Fsda[fr.fn].id = F[fr.fn].id
      BY <1>3, <1>5, <1>7, <2>1 DEF Kept
    <2> HIDE DEF fr
    <2>3. Records(m_Func2Fsda', m_InstSet') /\ Frames(m_Func2Fsda', stack')
      BY <1>1, <1>4, <1>5, <1>7, <2>2, StackFacts, FinishCallKeeps DEF fr
    <2>q. QED
      BY <1>1, <2>3, StackFacts, SameProgram DEF Return, SdaInv, Users
  <1>q. QED
    BY <1>2, <1>6, <1>7
-----------------------------------------------------------------------------
(***************************************************************************)
(* Programs and entries                                                    *)
(***************************************************************************)
LEMMA TailFacts ==
    ASSUME NEW s, IsSeq(s), s # <<>>
    PROVE  /\ Head(s) \in Range(s) /\ IsSeq(Tail(s)) /\ Range(Tail(s)) \subseteq Range(s)
           /\ IsInjective(s) => IsInjective(Tail(s))
  <1>1. Len(s) \in Nat \ {0} /\ DOMAIN s = 1 .. Len(s)
    BY SeqFacts
  <1>2. /\ Head(s) = s[1] /\ Tail(s) \in Seq(Range(s)) /\ Len(Tail(s)) = Len(s) - 1
        /\ \A k \in 1 .. Len(Tail(s)) : Tail(s)[k] = s[k + 1]
    BY HeadTailProperties DEF IsSeq
  <1>3. IsSeq(Tail(s)) /\ Range(Tail(s)) \subseteq Range(s)
    BY <1>2, SeqIsSeq
  <1>4. Head(s) \in Range(s)
    BY <1>1, <1>2 DEF Range
  <1>5. DOMAIN Tail(s) = 1 .. Len(s) - 1
    BY <1>2, <1>3, SeqFacts
  <1>6. ASSUME IsInjective(s), NEW j \in DOMAIN Tail(s), NEW k \in DOMAIN Tail(s), Tail(s)[j] = Tail(s)[k]
        PROVE  j = k
    <2>1. j + 1 \in DOMAIN s /\ k + 1 \in DOMAIN s /\ s[j + 1] = s[k + 1]
      BY <1>1, <1>2, <1>5, <1>6
    <2>2. j + 1 = k + 1
      BY <1>6, <2>1 DEF IsInjective
    <2>q. QED
      BY <1>1, <1>5, <2>2
  <1>q. QED
    BY <1>3, <1>4, <1>6 DEF IsInjective

LEMMA RunPassesKeeps ==
    ASSUME SdaInv, RunPasses
    PROVE  SdaInv'
  <1> DEFINE P == Head(todo)
  <1>1. /\ stack' = <<>> /\ todo # <<>> /\ prog' = P /\ todo' = Tail(todo)
    BY DEF RunPasses, SdaInv, TodoInv
  <1>2. P # NoProgram /\ WellFormed(P)
    BY <1>1, TailFacts DEF SdaInv, TodoInv
  <1> HIDE DEF P
  <1>3. TodoInv'
    BY <1>1, <1>2, TailFacts DEF SdaInv, TodoInv
  <1>4. Queued(P, m_EntryFQ')
    <2>1. PICK q \in Orders(Entries(P)) :
              m_EntryFQ' = IF "main" \in Defined(P) THEN InQueue(q, "main") ELSE q
      BY DEF RunPasses, P
    <2>2. Entries(P) \subseteq Defined(P)
      BY DEF Entries, GetLibEntry, GetAPIEntry
    <2>3. Queued(P, q)
      BY <1>2, <2>2, DefinedFinite, FS_Subset, OrdersFacts DEF Queued
    <2>q. QED
      BY <1>2, <2>1, <2>3, InQueueQueued
  <1>5. m_Func2Fsda' = <<>> /\ m_InstSet' = {} /\ m_GlvUse2Entry' = <<>>
    BY DEF RunPasses
  <1>6. DOMAIN m_Func2Fsda' = {} /\ DOMAIN m_GlvUse2Entry' = {} /\ m_Func2Fsda' = [f \in {} |-> m_Func2Fsda'[f]]
    BY <1>5
  <1>7. RecordInv'
    BY <1>5, <1>6 DEF RecordInv, Records, IsFsdaMap, Numbered
  <1>8. FrameInv'
    BY <1>1, NoFrames DEF FrameInv, Frames
  <1>9. EntryInv'
    BY <1>1, <1>4, <1>6 DEF EntryInv, Users
  <1>q. QED
    BY <1>3, <1>7, <1>8, <1>9 DEF SdaInv

LEMMA DequeueFacts ==
    ASSUME SdaInv, NEW f, Dequeue(f)
    PROVE  /\ prog # NoProgram /\ WellFormed(prog) /\ stack = <<>> /\ f \in Defined(prog)
           /\ Records(m_Func2Fsda, m_InstSet) /\ Queued(prog, m_EntryFQ') /\ Users /\ m_CurEntry' = f
  <1>1. /\ prog # NoProgram /\ stack = <<>> /\ m_EntryFQ # <<>>
        /\ f = Head(m_EntryFQ) /\ m_EntryFQ' = Tail(m_EntryFQ) /\ m_CurEntry' = f
    BY DEF Dequeue
  <1>2. Records(m_Func2Fsda, m_InstSet) /\ Queued(prog, m_EntryFQ) /\ Users /\ WellFormed(prog)
    BY <1>1 DEF SdaInv, RecordInv, EntryInv, TodoInv
  <1>q. QED
    BY <1>1, <1>2, TailFacts DEF Queued

LEMMA DropEntryKeeps ==
    ASSUME SdaInv, DropEntry
    PROVE  SdaInv'
  <1> PICK f : Dequeue(f)
    BY DEF DropEntry
  <1>q. QED
    BY DequeueFacts, NoFrames, SameProgram DEF DropEntry, SdaInv, Users, globals

LEMMA RunEntryCachedKeeps ==
    ASSUME SdaInv, RunEntryCached
    PROVE  SdaInv'
  <1> PICK f : Dequeue(f)
    BY DEF RunEntryCached
  <1>q. QED
    BY DequeueFacts, NoFrames, SameProgram DEF RunEntryCached, SdaInv, Users, globals

LEMMA RunEntryKeeps ==
    ASSUME SdaInv, RunEntry
    PROVE  SdaInv'
  <1> PICK f : Dequeue(f) /\ m_Func2Fsda' = GetFlda(m_Func2Fsda, f)
               /\ \E bits : stack' = <<Frame(f, bits)>>
    BY DEF RunEntry
  <1> PICK bits : stack' = <<Frame(f, bits)>>
    OBVIOUS
  <1> DEFINE fr == Frame(f, bits)
  <1>1. Records(m_Func2Fsda', m_InstSet') /\ f \in DOMAIN m_Func2Fsda'
    <2>1. /\ Records(m_Func2Fsda, m_InstSet) /\ WellFormed(prog) /\ f \in Defined(prog)
          /\ m_InstSet' = m_InstSet
      BY DequeueFacts DEF RunEntry
    <2>2. Records(GetFlda(m_Func2Fsda, f), m_InstSet) /\ f \in DOMAIN GetFlda(m_Func2Fsda, f)
      BY <2>1, GetFldaRecords
    <2>q. QED
      BY <2>1, <2>2
  <1>2. IsFrame(fr) /\ InFunction(fr) /\ fr.fn = f
    BY DequeueFacts, NewFrame
  <1> HIDE DEF fr
  <1>3. Frames(m_Func2Fsda', Append(<<>>, fr))
    <2> DEFINE none == <<>>
    <2>1. /\ Frames(m_Func2Fsda', none) /\ (none # <<>> => Waiting(none[Len(none)]))
          /\ \A k \in 1 .. Len(none) : none[k].fn # fr.fn
      BY NoFrames
    <2>2. Frames(m_Func2Fsda', Append(none, fr))
      <3> HIDE DEF none
      <3>q. QED
        BY <1>1, <1>2, <2>1, PushFrames
    <2>q. QED
      BY <2>2
  <1>4. Append(<<>>, fr) = stack'
    BY DEF fr
  <1>5. Frames(m_Func2Fsda', stack')
    BY <1>3, <1>4
  <1>q. QED
    BY <1>1, <1>5, DequeueFacts, SameProgram DEF RunEntry, SdaInv, Users, globals

LEMMA DumpKeeps ==
    ASSUME SdaInv, Dump
    PROVE  SdaInv'
  <1>1. prog' = NoProgram /\ stack' = <<>> /\ todo' = todo
    BY DEF Dump, Analysed
  <1>2. TodoInv'
    BY <1>1 DEF SdaInv, TodoInv
  <1>q. QED
    BY <1>1, <1>2 DEF SdaInv, RecordInv, FrameInv, EntryInv
-----------------------------------------------------------------------------
(***************************************************************************)
(* Theorems                                                                *)
(***************************************************************************)
LEMMA InitSda ==
    ASSUME Init
    PROVE  SdaInv
  <1>1. prog = NoProgram /\ stack = <<>> /\ todo \in Session
    BY DEF Init
  <1>q. QED
    BY <1>1, SessionAssumption DEF SdaInv, TodoInv, RecordInv, FrameInv, EntryInv, IsSeq

LEMMA StepKeeps ==
    ASSUME SdaInv, [Next]_vars
    PROVE  SdaInv'
  <1>1. CASE RunPasses \/ RunEntry \/ RunEntryCached \/ DropEntry \/ Dump
    BY <1>1, RunPassesKeeps, RunEntryKeeps, RunEntryCachedKeeps, DropEntryKeeps, DumpKeeps
  <1>2. CASE Forward
    BY <1>2, SkipInstKeeps, SourceInstKeeps, PassInstKeeps, TaintRetKeeps, TaintInstKeeps,
       CreateThreadKeeps, CallKnownKeeps, CallEnterKeeps, EndForwardKeeps DEF Forward
  <1>3. CASE BackInst \/ Again \/ Return
    BY <1>3, BackInstKeeps, AgainKeeps, ReturnKeeps
  <1>4. CASE UNCHANGED vars
    <2>1. UNCHANGED <<todo, prog, m_EntryFQ, m_GlvUse2Entry, m_InstSet, m_Func2Fsda, m_CurEntry, stack>>
      BY <1>4 DEF vars, entries, globals
    <2>2. CASE prog = NoProgram
      BY <2>1, <2>2 DEF SdaInv, TodoInv, RecordInv, FrameInv, EntryInv
    <2>3. CASE prog # NoProgram
      BY <2>1, <2>3, SameProgram DEF SdaInv, RecordInv, FrameInv, EntryInv, Users
    <2>q. QED
      BY <2>2, <2>3
  <1>q. QED
    BY <1>1, <1>2, <1>3, <1>4 DEF Next

LEMMA SdaInvHolds == Spec => []SdaInv
  BY InitSda, StepKeeps, PTL DEF Spec

\* For all programs: queue, stack and records are about functions the program defines,
\* and every call of ComputeFlda stands at a position of its function.
THEOREM SdaTypes == Spec => []TypeOK
  <1>1. SdaInv => TypeOK
    <2> SUFFICES ASSUME SdaInv, prog # NoProgram
                 PROVE  TypeOK
      BY DEF TypeOK
    <2>1. Queued(prog, m_EntryFQ) /\ Records(m_Func2Fsda, m_InstSet) /\ Frames(m_Func2Fsda, stack)
      BY DEF SdaInv, EntryInv, RecordInv, FrameInv
    <2>2. m_InstSet \subseteq {i.v : i \in Insts}
      <3> SUFFICES ASSUME NEW v \in m_InstSet
                   PROVE  \E i \in Insts : v = i.v
        OBVIOUS
      <3>1. PICK f \in DOMAIN m_Func2Fsda : v \in DOMAIN m_Func2Fsda[f].insts
        BY <2>1 DEF Records
      <3>2. f \in Defined(prog) /\ \E k \in DOMAIN Fn(f).body : Fn(f).body[k].v = v
        BY <2>1, <3>1 DEF Records, Recorded
      <3>q. QED
        BY <3>2 DEF Insts, AllInsts, Defined, Fn, Range
    <2>3. \A k \in DOMAIN stack : k \in 1 .. Len(stack)
      BY <2>1, SeqFacts DEF Frames
    <2>4. \A k \in DOMAIN stack : stack[k].fn \in DOMAIN m_Func2Fsda /\ InFunction(stack[k])
      BY <2>1, <2>3 DEF Frames
    <2>q. QED
      BY <2>1, <2>2, <2>4 DEF TypeOK, Queued, Records, InFunction
  <1>q. QED
    BY <1>1, SdaInvHolds, PTL

\* No function is gone through again while a call of it is at work, however the
\* program recurs.
THEOREM NeverReentered == Spec => []NoReentry
  <1>1. SdaInv => NoReentry
    <2> SUFFICES ASSUME SdaInv
                 PROVE  NoReentry
      OBVIOUS
    <2>1. CASE prog = NoProgram
      <3>1. stack = <<>>
        BY <2>1 DEF SdaInv, TodoInv
      <3>q. QED
        BY <3>1 DEF NoReentry
    <2>2. CASE prog # NoProgram
      BY <2>2, SeqFacts DEF SdaInv, FrameInv, Frames, NoReentry
    <2>q. QED
      BY <2>1, <2>2
  <1>q. QED
    BY <1>1, SdaInvHolds, PTL

\* Whatever the walks select is recorded with its function under the number of its
\* position, and marked as a source exactly if it is one.
THEOREM RecordsAreRight == Spec => []SelectedRecorded
  <1>1. SdaInv => SelectedRecorded
    <2> SUFFICES ASSUME SdaInv, prog # NoProgram
                 PROVE  SelectedRecorded
      BY DEF SelectedRecorded
    <2>1. Records(m_Func2Fsda, m_InstSet)
      BY DEF SdaInv, RecordInv
    <2>2. ASSUME NEW f \in DOMAIN m_Func2Fsda, NEW v \in DOMAIN m_Func2Fsda[f].insts
          PROVE  \E k \in DOMAIN Fn(f).body :
                    /\ Fn(f).body[k].v = v
                    /\ m_Func2Fsda[f].insts[v] =
                          GetEventId(f, Fn(f).body[k], k, IF IsSourceInst(Fn(f).body[k]) THEN 1 ELSE 0)
      BY <2>1 DEF Records, Recorded, IdOf, GetEventId
    <2>q. QED
      BY <2>1, <2>2 DEF SelectedRecorded, Records, Numbered
  <1>q. QED
    BY <1>1, SdaInvHolds, PTL
-----------------------------------------------------------------------------
(***************************************************************************)
(* What starts untainted stays so.  P is the program and C a closed set of *)
(* its nodes: whatever the analysis takes for tainted is in C.             *)
(***************************************************************************)
In(P, C, f, v) == Node(P, f, v) \in C
AllIn(P, C, f, S) == \A v \in S : In(P, C, f, v)
Hit(P, C, f, i) == Touches(P, f, i) \cap C # {}

\* Taint bit b of function f stands for a parameter or a result in C.
BitIn(P, C, f, b) ==
    \/ \E n \in DOMAIN P.fn[f].args : b = ArgNo(n) /\ In(P, C, f, P.fn[f].args[n])
    \/ b = RET_NO /\ \E r \in Returns(P, f) : Hit(P, C, f, r)
GoesIn(P, C, f, in) ==
    \A n \in DOMAIN P.fn[f].args : ArgNo(n) \in in => In(P, C, f, P.fn[f].args[n])
ComesOut(P, C, f, in, out) == \A b \in out : b \in in \/ BitIn(P, C, f, b)

\* The bits of a call i in f stand for operands in C.
Given(P, C, f, i, in) ==
    \A b \in in : \E n \in DOMAIN Uses(P, i) : b = ArgNo(n) /\ In(P, C, f, Uses(P, i)[n])

ThreadEntries(P) == {i.ops[3] : i \in UNION {Creates(P, f) : f \in Defined(P)}}
EntryIn(P, C, e, in) ==
    /\ GoesIn(P, C, e, in)
    /\ e \in ThreadEntries(P) /\ in # {} => ThreadLink(P, e) \cap C # {}

EqualOk(P, eq) == \A v \in DOMAIN eq : <<v, eq[v]>> \in Equals(P)
AliasOk(P, C, alias) ==
    \A v \in DOMAIN alias :
        /\ v \in DOMAIN InitGlv(P) \cup {i.v : i \in AllInsts(P)}
        /\ ~IsLocal(P, v) /\ ~IsLocal(P, alias[v])
        /\ In(P, C, NoFunc, v) <=> In(P, C, NoFunc, alias[v])
LexOk(P, C, lex) == \A v \in lex : ~IsLocal(P, v) /\ In(P, C, NoFunc, v)
EntriesOk(P, C, bits) == \A e \in DOMAIN bits : EntryIn(P, C, e, bits[e])

IsCst(c) == c \in [in : {c.in}, out : {c.out}, callees : {c.callees}]
CstOk(P, C, f, cst) ==
    \A k \in DOMAIN P.fn[f].body :
        LET i == P.fn[f].body[k]
        IN  i.v \in DOMAIN cst => IsCst(cst[i.v]) /\ Given(P, C, f, i, cst[i.v].in)
CacheOk(P, C, f, cache) == \A in \in DOMAIN cache : ComesOut(P, C, f, in, cache[in])
SummariesOk(P, C, F) ==
    \A f \in DOMAIN F : CstOk(P, C, f, F[f].cst) /\ CacheOk(P, C, f, F[f].cache)

FrameOk(P, C, fr) ==
    /\ AllIn(P, C, fr.fn, fr.lex)
    /\ GoesIn(P, C, fr.fn, fr.in) /\ ComesOut(P, C, fr.fn, fr.in, fr.out)
\* Frame fr waits for the call whose frame is to.
Pending(P, C, fr, to) ==
    LET i == P.fn[fr.fn].body[fr.pc]
    IN  /\ i.callee = to.fn
        /\ fr.bits # {} => Hit(P, C, fr.fn, i)
        /\ Given(P, C, fr.fn, i, to.in)
StackOk(P, C, cur, st) ==
    /\ \A k \in 1 .. Len(st) : FrameOk(P, C, st[k])
    /\ \A k \in 1 .. Len(st) - 1 : Pending(P, C, st[k], st[k + 1])
    /\ st # <<>> => st[1].fn = cur /\ EntryIn(P, C, cur, st[1].in)

\* D are the functions that were gone through, S the selected instructions.
SelectedOk(P, C, D, S) ==
    \A f \in Defined(P) : \A k \in DOMAIN P.fn[f].body :
        LET i == P.fn[f].body[k]
        IN  i.v \in S => Hit(P, C, f, i) \/ (IsCall(i) /\ i.callee \in D)

ReachInv(C) ==
    prog # NoProgram /\ Closed(prog, C) =>
        /\ EqualOk(prog, m_EqualVal) /\ AliasOk(prog, C, m_GlvAlias) /\ LexOk(prog, C, m_GlvLexset)
        /\ EntriesOk(prog, C, m_EntryTaintBits) /\ SummariesOk(prog, C, m_Func2Fsda)
        /\ StackOk(prog, C, m_CurEntry, stack)
        /\ SelectedOk(prog, C, DOMAIN m_Func2Fsda, m_InstSet)
-----------------------------------------------------------------------------
(***************************************************************************)
(* Closed sets                                                             *)
(***************************************************************************)
LEMMA NodeGlobal ==
    ASSUME NEW P, NEW f, NEW g, NEW v, ~IsLocal(P, v)
    PROVE  Node(P, f, v) = Node(P, g, v)
  BY DEF Node

LEMMA InstIsGlobal ==
    ASSUME NEW P, WellFormed(P), NEW i \in AllInsts(P)
    PROVE  ~IsLocal(P, i.v)
  BY DEF WellFormed, IsLocal

LEMMA ValuesDiffer ==
    ASSUME NEW P, WellFormed(P), NEW f \in Defined(P), NEW g \in Defined(P),
           NEW j \in DOMAIN P.fn[f].body, NEW k \in DOMAIN P.fn[g].body,
           P.fn[f].body[j].v = P.fn[g].body[k].v
    PROVE  f = g /\ j = k
  BY DEF WellFormed

LEMMA BodyInsts ==
    ASSUME NEW P, NEW f \in Defined(P), NEW i \in Body(P, f)
    PROVE  i \in AllInsts(P)
  BY DEF Defined, Body, AllInsts

LEMMA BodyAt ==
    ASSUME NEW P, NEW f, NEW k \in DOMAIN P.fn[f].body
    PROVE  P.fn[f].body[k] \in Body(P, f)
  BY DEF Body, Range

LEMMA FunctionLinksIn ==
    ASSUME NEW P, NEW f \in Defined(P)
    PROVE  FunctionLinks(P, f) \subseteq Links(P)
  BY DEF Links

LEMMA ClosedLink ==
    ASSUME NEW P, NEW C, Closed(P, C), NEW L \in Links(P), NEW x \in L, x \in C
    PROVE  L \subseteq C
  BY DEF Closed

\* All values of an instruction are tainted when one is.
LEMMA TouchesClosed ==
    ASSUME NEW P, NEW C, Closed(P, C), NEW f \in Defined(P), NEW i \in Body(P, f), Hit(P, C, f, i)
    PROVE  /\ In(P, C, f, i.v) /\ AllIn(P, C, f, Range(Uses(P, i)))
           /\ GetDef(i) # NoValue => In(P, C, f, GetDef(i))
  <1>1. Touches(P, f, i) \in Links(P)
    BY DEF Links, FunctionLinks
  <1>2. Touches(P, f, i) \subseteq C
    BY <1>1, ClosedLink DEF Hit
  <1>q. QED
    BY <1>2 DEF Touches, In, AllIn

LEMMA TouchedHits ==
    ASSUME NEW P, NEW C, NEW f, NEW i, NEW v, In(P, C, f, v),
           v = i.v \/ v \in Range(Uses(P, i)) \/ (v = GetDef(i) /\ v # NoValue)
    PROVE  Hit(P, C, f, i)
  <1>1. Node(P, f, v) \in Touches(P, f, i)
    BY DEF Touches
  <1>q. QED
    BY <1>1 DEF Hit, In

LEMMA CallClosed ==
    ASSUME NEW P, NEW C, Closed(P, C), NEW f \in Defined(P), NEW i \in Body(P, f), IsCall(i),
           i.callee \in Defined(P)
    PROVE  /\ \A n \in DOMAIN Uses(P, i) \cap DOMAIN P.fn[i.callee].args :
                 In(P, C, f, Uses(P, i)[n]) <=> In(P, C, i.callee, P.fn[i.callee].args[n])
           /\ \A r \in Returns(P, i.callee) : Hit(P, C, i.callee, r) => In(P, C, f, i.v)
  <1>1. ArgLinks(P, f, i) \cup ResultLinks(P, f, i) \subseteq FunctionLinks(P, f)
    <2>1. i \in {j \in Calls(P, f) : j.callee \in Defined(P)}
      BY DEF Calls
    <2>q. QED
      BY <2>1 DEF FunctionLinks
  <1>2. FunctionLinks(P, f) \subseteq Links(P)
    BY FunctionLinksIn
  <1>3. ASSUME NEW n \in DOMAIN Uses(P, i) \cap DOMAIN P.fn[i.callee].args
        PROVE  In(P, C, f, Uses(P, i)[n]) <=> In(P, C, i.callee, P.fn[i.callee].args[n])
    <2> DEFINE x == Node(P, f, Uses(P, i)[n])
               y == Node(P, i.callee, P.fn[i.callee].args[n])
    <2>1. {x, y} \in Links(P)
      BY <1>1, <1>2 DEF ArgLinks
    <2> HIDE DEF x, y
    <2>2. x \in C <=> y \in C
      BY <2>1 DEF Closed
    <2>q. QED
      BY <2>2 DEF In, x, y
  <1>4. ASSUME NEW r \in Returns(P, i.callee), Hit(P, C, i.callee, r)
        PROVE  In(P, C, f, i.v)
    <2>1. {Node(P, f, i.v)} \cup Touches(P, i.callee, r) \in Links(P)
      BY <1>1, <1>2 DEF ResultLinks
    <2>q. QED
      BY <1>4, <2>1, ClosedLink DEF Hit, In
  <1>q. QED
    BY <1>3, <1>4

LEMMA CreateClosed ==
    ASSUME NEW P, NEW C, Closed(P, C), NEW f \in Defined(P), NEW i \in Body(P, f), IsCall(i),
           IsThreadCrt(i.callee)
    PROVE  /\ Hit(P, C, f, i) => In(P, C, f, i.ops[4])
           /\ In(P, C, f, i.ops[4]) => ThreadLink(P, i.ops[3]) \cap C # {}
           /\ ThreadLink(P, i.ops[3]) \cap C # {} => In(P, C, f, i.ops[4])
           /\ i.ops[3] \in ThreadEntries(P)
  <1>1. i \in Creates(P, f)
    BY DEF Creates, Calls
  <1>2. Touches(P, f, i) \cup {Node(P, f, i.ops[4])} \in Links(P)
    BY <1>1 DEF Links, FunctionLinks
  <1>3. i.ops[3] \in ThreadEntries(P)
    BY <1>1 DEF ThreadEntries
  <1>4. ThreadLink(P, i.ops[3]) \in Links(P)
    BY <1>3 DEF Links, ThreadEntries
  <1>5. Node(P, f, i.ops[4]) \in ThreadLink(P, i.ops[3])
    BY <1>1 DEF ThreadLink
  <1>q. QED
    BY <1>2, <1>3, <1>4, <1>5, ClosedLink DEF Hit, In

LEMMA ThreadClosed ==
    ASSUME NEW P, NEW C, Closed(P, C), NEW e \in ThreadEntries(P), ThreadLink(P, e) \cap C # {}
    PROVE  AllIn(P, C, e, Range(P.fn[e].args))
  <1>1. ThreadLink(P, e) \in Links(P)
    BY DEF Links, ThreadEntries
  <1>2. Arguments(P, e) \subseteq ThreadLink(P, e)
    BY DEF ThreadLink
  <1>q. QED
    BY <1>1, <1>2, ClosedLink DEF Arguments, AllIn, In

LEMMA SharedClosed ==
    ASSUME NEW P, NEW C, Closed(P, C), NEW f \in Defined(P), IsShared(P, f),
           NEW a \in Range(P.fn[f].args), In(P, C, f, a)
    PROVE  AllIn(P, C, f, Range(P.fn[f].args))
  <1>1. Arguments(P, f) \in Links(P)
    BY DEF Links
  <1>2. Node(P, f, a) \in Arguments(P, f)
    BY DEF Arguments
  <1>3. Arguments(P, f) \subseteq C
    BY <1>1, <1>2, ClosedLink DEF In
  <1>q. QED
    BY <1>3 DEF Arguments, AllIn, In

LEMMA EqualClosed ==
    ASSUME NEW P, NEW C, Closed(P, C), NEW f \in Defined(P), NEW v, NEW w, <<v, w>> \in Equals(P)
    PROVE  In(P, C, f, v) <=> In(P, C, f, w)
  <1> DEFINE x == Node(P, f, v)
             y == Node(P, f, w)
  <1>1. {x, y} \in Links(P)
    <2> DEFINE e == <<v, w>>
    <2>1. {Node(P, f, e[1]), Node(P, f, e[2])} \in Links(P)
      BY DEF Links
    <2>q. QED
      BY <2>1
  <1> HIDE DEF x, y
  <1>2. x \in C <=> y \in C
    BY <1>1 DEF Closed
  <1>q. QED
    BY <1>2 DEF In, x, y

LEMMA OriginsClosed ==
    ASSUME NEW P, NEW C, Closed(P, C)
    PROVE  /\ \A f \in Defined(P) : \A i \in Body(P, f) :
                 IsCall(i) /\ i.callee \in P.sources => In(P, C, f, i.v)
           /\ \A e \in Entries(P) : AllIn(P, C, e, Range(P.fn[e].args))
  <1>1. Origins(P) \subseteq C
    BY DEF Closed
  <1>2. ASSUME NEW f \in Defined(P), NEW i \in Body(P, f), IsCall(i), i.callee \in P.sources
        PROVE  Node(P, f, i.v) \in Origins(P)
    BY <1>2 DEF Origins, Calls
  <1>3. \A e \in Entries(P) : Arguments(P, e) \subseteq Origins(P)
    BY DEF Origins
  <1>q. QED
    BY <1>1, <1>2, <1>3 DEF Arguments, AllIn, In
-----------------------------------------------------------------------------
(***************************************************************************)
(* What the operators of the analysis keep inside of a closed set          *)
(***************************************************************************)
LEMMA DomainOfSeq ==
    ASSUME NEW s, s \in Seq(Range(s))
    PROVE  Len(s) \in Nat /\ DOMAIN s = 1 .. Len(s)
  BY LenProperties

LEMMA UseNumbers ==
    ASSUME NEW P, WellFormed(P), NEW i \in AllInsts(P), NEW n \in DOMAIN Uses(P, i)
    PROVE  n \in Nat \ {0} /\ Uses(P, i)[n] \in Range(Uses(P, i))
  <1>1. i.ops \in Seq(Range(i.ops))
    BY DEF WellFormed
  <1>2. Len(i.ops) \in Nat /\ DOMAIN i.ops = 1 .. Len(i.ops)
    BY <1>1, DomainOfSeq
  <1>3. ASSUME NEW m \in Int, m <= Len(i.ops)
        PROVE  DOMAIN SubSeq(i.ops, 1, m) \subseteq Nat \ {0}
    <2>1. \A k \in 1 .. m : i.ops[k] \in Range(i.ops)
      BY <1>2, <1>3 DEF Range
    <2>2. SubSeq(i.ops, 1, m) \in Seq(Range(i.ops))
      BY <2>1, SubSeqProperties
    <2>q. QED
      BY <2>2, LenProperties
  <1>4. DOMAIN First(i.ops) \subseteq Nat \ {0} /\ DOMAIN Actuals(i.ops) \subseteq Nat \ {0}
    <2> DEFINE first == IF i.ops = <<>> THEN 0 ELSE 1
               last == Len(i.ops) - 1
    <2>1. First(i.ops) = SubSeq(i.ops, 1, first) /\ Actuals(i.ops) = SubSeq(i.ops, 1, last)
      BY DEF First, Actuals
    <2>2. first \in Int /\ first <= Len(i.ops) /\ last \in Int /\ last <= Len(i.ops)
      BY <1>1, <1>2, EmptySeq
    <2> HIDE DEF first, last
    <2>q. QED
      BY <1>3, <2>1, <2>2
  <1>5. \A s : DOMAIN Bases(P, s) = DOMAIN s
    BY DEF Bases
  <1>6. DOMAIN <<>> = {}
    OBVIOUS
  <1>7. \/ Uses(P, i) = Bases(P, First(i.ops)) \/ Uses(P, i) = Bases(P, Actuals(i.ops))
        \/ Uses(P, i) = Bases(P, i.ops) \/ Uses(P, i) = <<>>
    BY DEF Uses
  <1>8. DOMAIN Uses(P, i) \subseteq Nat \ {0}
    BY <1>2, <1>4, <1>5, <1>6, <1>7
  <1>q. QED
    BY <1>8 DEF Range

LEMMA ArgNumbers ==
    ASSUME NEW P, WellFormed(P), NEW f \in Defined(P), NEW n \in DOMAIN P.fn[f].args
    PROVE  n \in Nat \ {0} /\ P.fn[f].args[n] \in Range(P.fn[f].args)
  <1>1. P.fn[f].args \in Seq(Range(P.fn[f].args))
    BY DEF WellFormed, Defined
  <1>q. QED
    BY <1>1, DomainOfSeq DEF Range

\* Bits that come out of a function stand for parameters in C, or came in.
LEMMA GoesInComesOut ==
    ASSUME NEW P, WellFormed(P), NEW C, NEW f \in Defined(P), NEW in, NEW out,
           GoesIn(P, C, f, in), ComesOut(P, C, f, in, out)
    PROVE  GoesIn(P, C, f, out)
  <1> SUFFICES ASSUME NEW n \in DOMAIN P.fn[f].args, ArgNo(n) \in out
               PROVE  In(P, C, f, P.fn[f].args[n])
    BY DEF GoesIn
  <1>1. n \in Nat \ {0} /\ \A m \in DOMAIN P.fn[f].args : m \in Nat \ {0}
    BY ArgNumbers
  <1>2. ArgNo(n) # RET_NO /\ \A m \in DOMAIN P.fn[f].args : ArgNo(n) = ArgNo(m) => n = m
    BY <1>1 DEF ArgNo, RET_NO
  <1>3. ArgNo(n) \in in \/ BitIn(P, C, f, ArgNo(n))
    BY DEF ComesOut
  <1>q. QED
    BY <1>2, <1>3 DEF BitIn, GoesIn

LEMMA EqualOkPut ==
    ASSUME NEW P, NEW eq, EqualOk(P, eq), NEW v, NEW w, <<v, w>> \in Equals(P)
    PROVE  EqualOk(P, Put(eq, v, w))
  BY DEF EqualOk, Put

LEMMA EqualOkProcess ==
    ASSUME prog # NoProgram, EqualOk(prog, m_EqualVal), NEW i \in AllInsts(prog)
    PROVE  EqualOk(prog, EqualProcess(i))
  <1> DEFINE def == GetDef(i)
  <1>1. ASSUME NEW w, <<def, w>> \in Equals(prog)
        PROVE  EqualOk(prog, Put(m_EqualVal, def, w))
    BY <1>1, EqualOkPut
  <1>2. CASE i.op = "bitcast"
    <2>1. <<def, Uses(prog, i)[1]>> \in Equals(prog)
      BY <1>2 DEF Equals
    <2>2. EqualProcess(i) = Put(m_EqualVal, def, Uses(prog, i)[1])
      BY <1>2 DEF EqualProcess
    <2>q. QED
      BY <1>1, <2>1, <2>2
  <1>3. CASE i.op # "bitcast" /\ def # NoValue /\ GetBaseAddr(prog, def) # def
    <2>1. <<def, GetBaseAddr(prog, def)>> \in Equals(prog)
      BY <1>3 DEF Equals
    <2>2. EqualProcess(i) = Put(m_EqualVal, def, GetBaseAddr(prog, def))
      BY <1>3 DEF EqualProcess
    <2>q. QED
      BY <1>1, <2>1, <2>2
  <1>4. CASE ~(i.op = "bitcast") /\ ~(i.op # "bitcast" /\ def # NoValue /\ GetBaseAddr(prog, def) # def)
    BY <1>4 DEF EqualProcess
  <1>q. QED
    BY <1>2, <1>3, <1>4

LEMMA AddTaintValueIn ==
    ASSUME NEW P, NEW C, Closed(P, C), NEW f \in Defined(P), NEW eq, EqualOk(P, eq),
           NEW lex, AllIn(P, C, f, lex), NEW v, v # NoValue => In(P, C, f, v)
    PROVE  AllIn(P, C, f, AddTaintValue(eq, lex, v))
  <1>1. CASE v = NoValue
    BY <1>1 DEF AddTaintValue
  <1>2. CASE v # NoValue /\ v \in DOMAIN eq
    <2>1. In(P, C, f, eq[v])
      BY <1>2, EqualClosed DEF EqualOk
    <2>q. QED
      BY <1>2, <2>1 DEF AddTaintValue, Get, AllIn
  <1>3. CASE v # NoValue /\ v \notin DOMAIN eq
    BY <1>3 DEF AddTaintValue, Get, AllIn
  <1>q. QED
    BY <1>1, <1>2, <1>3

LEMMA CheckOutArgTaintIn ==
    ASSUME NEW C, NEW f, NEW vals, AllIn(prog, C, f, vals)
    PROVE  \A b \in CheckOutArgTaint(f, vals) : BitIn(prog, C, f, b)
  BY DEF CheckOutArgTaint, BitIn, AllIn, Fn

LEMMA InitCriterionsIn ==
    ASSUME NEW C, NEW f, NEW bits, GoesIn(prog, C, f, bits), NEW lex, AllIn(prog, C, f, lex)
    PROVE  AllIn(prog, C, f, InitCriterions(f, bits, lex))
  BY DEF InitCriterions, AllIn, GoesIn, Fn

\* A value known to be tainted somewhere is tainted where it is used.
LEMMA GlobalIn ==
    ASSUME NEW P, NEW C, NEW lex, LexOk(P, C, lex), NEW v \in lex, NEW f
    PROVE  In(P, C, f, v)
  BY NodeGlobal DEF LexOk, In

LEMMA GetTaintedBitsGiven ==
    ASSUME prog # NoProgram, NEW C, Closed(prog, C), NEW f \in Defined(prog), NEW i,
           EqualOk(prog, m_EqualVal), LexOk(prog, C, m_GlvLexset), NEW lex, AllIn(prog, C, f, lex)
    PROVE  Given(prog, C, f, i, GetTaintedBits(i, lex))
  <1> DEFINE uses == Uses(prog, i)
  <1> SUFFICES ASSUME NEW n \in DOMAIN uses,
                      \/ uses[n] \in lex \cup m_GlvLexset
                      \/ uses[n] \in DOMAIN m_EqualVal /\ m_EqualVal[uses[n]] \in lex
               PROVE  In(prog, C, f, uses[n])
    BY DEF Given, GetTaintedBits
  <1> HIDE DEF uses
  <1>1. CASE uses[n] \in lex
    BY <1>1 DEF AllIn
  <1>2. CASE uses[n] \in m_GlvLexset
    BY <1>2, GlobalIn
  <1>3. CASE uses[n] \in DOMAIN m_EqualVal /\ m_EqualVal[uses[n]] \in lex
    BY <1>3, EqualClosed DEF EqualOk, AllIn
  <1>q. QED
    BY <1>1, <1>2, <1>3

LEMMA GivenHits ==
    ASSUME NEW P, NEW C, NEW f, NEW i, NEW in, Given(P, C, f, i, in), in # {}
    PROVE  Hit(P, C, f, i)
  <1>1. PICK n \in DOMAIN Uses(P, i) : In(P, C, f, Uses(P, i)[n])
    BY DEF Given
  <1>2. Uses(P, i)[n] \in Range(Uses(P, i))
    BY DEF Range
  <1>q. QED
    BY <1>1, <1>2, TouchedHits

\* A function all of whose entry's bits are in C may be given them.
LEMMA EntryComesOut ==
    ASSUME NEW P, WellFormed(P), NEW C, Closed(P, C), NEW e \in Defined(P), NEW in, NEW out,
           EntryIn(P, C, e, in), ComesOut(P, C, e, in, out)
    PROVE  EntryIn(P, C, e, out)
  <1>1. GoesIn(P, C, e, out)
    BY GoesInComesOut DEF EntryIn
  <1>2. ASSUME NEW b \in out, e \in ThreadEntries(P)
        PROVE  ThreadLink(P, e) \cap C # {}
    <2>1. CASE b \in in
      BY <1>2, <2>1 DEF EntryIn
    <2>2. CASE \E n \in DOMAIN P.fn[e].args : In(P, C, e, P.fn[e].args[n])
      <3>1. PICK n \in DOMAIN P.fn[e].args : In(P, C, e, P.fn[e].args[n])
        BY <2>2
      <3>2. Node(P, e, P.fn[e].args[n]) \in Arguments(P, e)
        BY ArgNumbers DEF Arguments
      <3>q. QED
        BY <3>1, <3>2 DEF In, ThreadLink
    <2>3. CASE \E r \in Returns(P, e) : Hit(P, C, e, r)
      BY <2>3 DEF Hit, ThreadLink
    <2>q. QED
      BY <2>1, <2>2, <2>3 DEF ComesOut, BitIn
  <1>q. QED
    BY <1>1, <1>2 DEF EntryIn

\* What an entry is run with.
LEMMA GetEntryTaintbitsIn ==
    ASSUME prog # NoProgram, WellFormed(prog), NEW C, Closed(prog, C), NEW e \in Defined(prog),
           EntriesOk(prog, C, m_EntryTaintBits), AliasOk(prog, C, m_GlvAlias),
           LexOk(prog, C, m_GlvLexset)
    PROVE  EntryIn(prog, C, e, GetEntryTaintbits(e))
  <1> DEFINE args == prog.fn[e].args
  <1>1. CASE IsEntryFunc(e)
    BY <1>1 DEF GetEntryTaintbits, IsEntryFunc, EntriesOk
  <1>2. CASE ~IsEntryFunc(e) /\ ~\E a \in Range(args) : IsInGlvSet(a) /\ m_GlvAlias[a] \in m_GlvLexset
    <2>1. GetEntryTaintbits(e) = {}
      BY <1>2 DEF GetEntryTaintbits, Fn
    <2>q. QED
      BY <2>1 DEF EntryIn, GoesIn
  <1>3. ASSUME NEW a \in Range(args), IsInGlvSet(a), m_GlvAlias[a] \in m_GlvLexset
        PROVE  EntryIn(prog, C, e, GetEntryTaintbits(e)) \/ IsEntryFunc(e)
    <2>1. a \in DOMAIN m_GlvAlias
      BY <1>3 DEF IsInGlvSet
    <2>2. a \notin {i.v : i \in AllInsts(prog)}
      <3> SUFFICES ASSUME NEW i \in AllInsts(prog), a = i.v
                   PROVE  FALSE
        OBVIOUS
      <3>1. PICK f \in Defined(prog) : i \in Range(prog.fn[f].body)
        BY DEF AllInsts, Defined
      <3>2. PICK j \in DOMAIN prog.fn[f].body : i = prog.fn[f].body[j]
        BY <3>1 DEF Range
      <3>3. prog.fn[f].body[j].v \notin Range(prog.fn[e].args)
        BY DEF WellFormed
      <3>q. QED
        BY <3>2, <3>3
    <2>3. IsShared(prog, e)
      BY <2>1, <2>2 DEF AliasOk, IsShared
    <2>4. In(prog, C, e, a)
      <3>1. ~IsLocal(prog, a) /\ In(prog, C, NoFunc, a)
        BY <1>3, <2>1 DEF AliasOk, LexOk
      <3>q. QED
        BY <3>1, NodeGlobal DEF In
    <2>5. AllIn(prog, C, e, Range(args))
      BY <2>3, <2>4, SharedClosed
    <2>6. GoesIn(prog, C, e, GetEntryTaintbits(e)) \/ IsEntryFunc(e)
      BY <2>5, ArgNumbers DEF GoesIn, AllIn
    <2>7. ThreadLink(prog, e) \cap C # {}
      <3>1. Node(prog, e, a) \in Arguments(prog, e)
        BY DEF Arguments
      <3>q. QED
        BY <2>4, <3>1 DEF In, ThreadLink
    <2>q. QED
      BY <2>6, <2>7 DEF EntryIn
  <1>q. QED
    BY <1>1, <1>2, <1>3
-----------------------------------------------------------------------------
(***************************************************************************)
(* Records, selected instructions and frames inside of a closed set        *)
(***************************************************************************)
SameSummary(r, s) == s.cst = r.cst /\ s.cache = r.cache

LEMMA SummariesChange ==
    ASSUME NEW P, NEW C, NEW F, SummariesOk(P, C, F), NEW G, NEW f \in DOMAIN F,
           DOMAIN G = DOMAIN F, \A g \in DOMAIN F : g # f => G[g] = F[g],
           CstOk(P, C, f, G[f].cst), CacheOk(P, C, f, G[f].cache)
    PROVE  SummariesOk(P, C, G)
  BY DEF SummariesOk

LEMMA SummariesSame ==
    ASSUME NEW P, NEW C, NEW F, SummariesOk(P, C, F), NEW G, DOMAIN G = DOMAIN F,
           \A g \in DOMAIN F : SameSummary(F[g], G[g])
    PROVE  SummariesOk(P, C, G)
  BY DEF SummariesOk, SameSummary

LEMMA InsertSame ==
    ASSUME NEW F, IsFsdaMap(F), NEW f \in DOMAIN F, NEW i, NEW k, NEW ssd
    PROVE  LET G == InsertInst(F, f, i, k, ssd)
           IN  DOMAIN G = DOMAIN F /\ \A g \in DOMAIN F : SameSummary(F[g], G[g])
  <1> DEFINE c == Put(F[f].insts, i.v, GetEventId(f, i, k, ssd))
  <1>1. InsertInst(F, f, i, k, ssd) = [F EXCEPT ![f].insts = c]
    BY DEF InsertInst
  <1> HIDE DEF c
  <1>q. QED
    BY <1>1 DEF IsFsdaMap, IsFsda, SameSummary

LEMMA InstNumSame ==
    ASSUME NEW F, IsFsdaMap(F), NEW f \in DOMAIN F, NEW n
    PROVE  LET G == [F EXCEPT ![f].instNum = n]
           IN  DOMAIN G = DOMAIN F /\ \A g \in DOMAIN F : SameSummary(F[g], G[g])
  BY DEF IsFsdaMap, IsFsda, SameSummary

LEMMA CstChange ==
    ASSUME NEW P, NEW C, NEW F, IsFsdaMap(F), SummariesOk(P, C, F), NEW f \in DOMAIN F,
           NEW c, CstOk(P, C, f, c)
    PROVE  LET G == [F EXCEPT ![f].cst = c]
           IN  SummariesOk(P, C, G) /\ DOMAIN G = DOMAIN F /\ G[f].cst = c
  <1> DEFINE G == [F EXCEPT ![f].cst = c]
  <1>1. DOMAIN G = DOMAIN F /\ \A g \in DOMAIN F : g # f => G[g] = F[g]
    OBVIOUS
  <1>2. G[f].cst = c /\ G[f].cache = F[f].cache
    BY DEF IsFsdaMap, IsFsda
  <1> HIDE DEF G
  <1>3. SummariesOk(P, C, G)
    BY <1>1, <1>2, SummariesChange DEF SummariesOk
  <1>q. QED
    BY <1>1, <1>2, <1>3 DEF G

LEMMA CacheChange ==
    ASSUME NEW P, NEW C, NEW F, IsFsdaMap(F), SummariesOk(P, C, F), NEW f \in DOMAIN F,
           NEW in, NEW out, ComesOut(P, C, f, in, out)
    PROVE  /\ SummariesOk(P, C, UpdateSdsCache(F, f, in, out))
           /\ DOMAIN UpdateSdsCache(F, f, in, out) = DOMAIN F
           /\ UpdateSdsCache(F, f, in, out)[f].cst = F[f].cst
  <1> DEFINE c == Put(F[f].cache, in, Get(F[f].cache, in, {}) \cup out)
             G == [F EXCEPT ![f].cache = c]
  <1>1. UpdateSdsCache(F, f, in, out) = G
    BY DEF UpdateSdsCache
  <1>2. CacheOk(P, C, f, F[f].cache)
    BY DEF SummariesOk
  <1>3. ComesOut(P, C, f, in, Get(F[f].cache, in, {}) \cup out)
    BY <1>2 DEF CacheOk, ComesOut, Get
  <1>4. CacheOk(P, C, f, c)
    BY <1>2, <1>3 DEF CacheOk, Put
  <1> HIDE DEF c
  <1>5. DOMAIN G = DOMAIN F /\ \A g \in DOMAIN F : g # f => G[g] = F[g]
    OBVIOUS
  <1>6. G[f].cache = c /\ G[f].cst = F[f].cst
    BY DEF IsFsdaMap, IsFsda
  <1> HIDE DEF G
  <1>7. SummariesOk(P, C, G)
    BY <1>4, <1>5, <1>6, SummariesChange DEF SummariesOk
  <1>q. QED
    BY <1>1, <1>5, <1>6, <1>7

LEMMA GetFldaOk ==
    ASSUME NEW P, NEW C, NEW F, SummariesOk(P, C, F), NEW f
    PROVE  SummariesOk(P, C, GetFlda(F, f)) /\ DOMAIN F \subseteq DOMAIN GetFlda(F, f)
           /\ f \in DOMAIN GetFlda(F, f)
  <1>1. CASE f \in DOMAIN F
    BY <1>1 DEF GetFlda
  <1>2. CASE f \notin DOMAIN F
    <2> DEFINE G == GetFlda(F, f)
    <2>1. DOMAIN G = DOMAIN F \cup {f} /\ G[f] = NewFsda(F) /\ \A g \in DOMAIN F : G[g] = F[g]
      BY <1>2 DEF GetFlda, Put
    <2> HIDE DEF G
    <2>2. G[f].cst = <<>> /\ G[f].cache = <<>>
      BY <2>1 DEF NewFsda
    <2>3. CstOk(P, C, f, G[f].cst) /\ CacheOk(P, C, f, G[f].cache)
      BY <2>2 DEF CstOk, CacheOk
    <2>q. QED
      BY <2>1, <2>3 DEF SummariesOk, G
  <1>q. QED
    BY <1>1, <1>2

LEMMA SelectedGrows ==
    ASSUME NEW P, WellFormed(P), NEW C, NEW D, NEW E, NEW S, SelectedOk(P, C, D, S), D \subseteq E,
           NEW f \in Defined(P), NEW k \in DOMAIN P.fn[f].body, NEW i, i = P.fn[f].body[k],
           Hit(P, C, f, i) \/ (IsCall(i) /\ i.callee \in E)
    PROVE  SelectedOk(P, C, E, S \cup {i.v})
  <1> SUFFICES ASSUME NEW g \in Defined(P), NEW j \in DOMAIN P.fn[g].body,
                      P.fn[g].body[j].v \in S \cup {i.v}
               PROVE  LET h == P.fn[g].body[j]
                      IN  Hit(P, C, g, h) \/ (IsCall(h) /\ h.callee \in E)
    BY DEF SelectedOk
  <1>1. CASE P.fn[g].body[j].v \in S
    BY <1>1 DEF SelectedOk
  <1>2. CASE P.fn[g].body[j].v = i.v
    <2>1. g = f /\ j = k
      BY <1>2, ValuesDiffer
    <2>q. QED
      BY <2>1
  <1>q. QED
    BY <1>1, <1>2

LEMMA SelectedMore ==
    ASSUME NEW P, NEW C, NEW D, NEW E, NEW S, SelectedOk(P, C, D, S), D \subseteq E
    PROVE  SelectedOk(P, C, E, S)
  BY DEF SelectedOk

LEMMA StackSet ==
    ASSUME NEW P, NEW C, NEW cur, NEW F, NEW st, Frames(F, st), st # <<>>, StackOk(P, C, cur, st),
           NEW fr, FrameOk(P, C, fr), fr.fn = st[Len(st)].fn, fr.in = st[Len(st)].in
    PROVE  LET to == [st EXCEPT ![Len(st)] = fr]
           IN  StackOk(P, C, cur, to) /\ Len(to) = Len(st) /\ to[Len(st)] = fr
  <1> DEFINE to == [st EXCEPT ![Len(st)] = fr]
             n == Len(st)
  <1>1. n \in Nat \ {0}
    BY TopFrame
  <1>2. st \in Seq(Range(st) \cup {fr})
    BY SeqMonotonic DEF Frames, IsSeq
  <1>3. to \in Seq(Range(st) \cup {fr}) /\ Len(to) = n /\ \A k \in 1 .. n : to[k] = IF k = n THEN fr ELSE st[k]
    BY <1>1, <1>2, ExceptSeq DEF n
  <1>4. fr.fn = st[n].fn /\ fr.in = st[n].in
    BY DEF n
  <1>5. /\ \A k \in 1 .. n : FrameOk(P, C, st[k])
        /\ \A k \in 1 .. n - 1 : Pending(P, C, st[k], st[k + 1])
        /\ st[1].fn = cur /\ EntryIn(P, C, cur, st[1].in)
    BY DEF StackOk, n
  <1> HIDE DEF to, n
  <1>6. \A k \in 1 .. n : FrameOk(P, C, to[k]) /\ to[k].fn = st[k].fn /\ to[k].in = st[k].in
    BY <1>3, <1>4, <1>5
  <1>7. ASSUME NEW k \in 1 .. n - 1
        PROVE  Pending(P, C, to[k], to[k + 1])
    <2>1. k \in 1 .. n /\ k # n /\ k + 1 \in 1 .. n
      BY <1>1
    <2>2. to[k] = st[k] /\ to[k + 1].fn = st[k + 1].fn /\ to[k + 1].in = st[k + 1].in
      BY <1>3, <1>6, <2>1
    <2>q. QED
      BY <1>5, <2>2 DEF Pending
  <1>8. to[1].fn = cur /\ EntryIn(P, C, cur, to[1].in)
    BY <1>1, <1>5, <1>6
  <1>9. to[n] = fr
    BY <1>1, <1>3
  <1>q. QED
    <2>1. StackOk(P, C, cur, to) /\ Len(to) = n
      BY <1>3, <1>6, <1>7, <1>8 DEF StackOk
    <2>q. QED
      BY <1>9, <2>1 DEF to, n

LEMMA StackPush ==
    ASSUME NEW P, NEW C, NEW cur, NEW st, IsSeq(st), st # <<>>, StackOk(P, C, cur, st),
           NEW fr, FrameOk(P, C, fr), Pending(P, C, st[Len(st)], fr)
    PROVE  StackOk(P, C, cur, Append(st, fr))
  <1> DEFINE to == Append(st, fr)
             n == Len(st)
  <1>1. st \in Seq(Range(st) \cup {fr}) /\ n \in Nat \ {0}
    BY SeqMonotonic, SeqFacts DEF IsSeq
  <1>2. Len(to) = n + 1 /\ to[n + 1] = fr /\ \A k \in 1 .. n : to[k] = st[k]
    BY <1>1, AppendProperties
  <1>3. /\ \A k \in 1 .. n : FrameOk(P, C, st[k])
        /\ \A k \in 1 .. n - 1 : Pending(P, C, st[k], st[k + 1])
        /\ st[1].fn = cur /\ EntryIn(P, C, cur, st[1].in) /\ Pending(P, C, st[n], fr)
    BY DEF StackOk
  <1> HIDE DEF to, n
  <1>4. \A k \in 1 .. n + 1 : FrameOk(P, C, to[k])
    <2>1. \A k \in 1 .. n + 1 : k \in 1 .. n \/ k = n + 1
      BY <1>1
    <2>q. QED
      BY <1>2, <1>3, <2>1
  <1>5. ASSUME NEW k \in 1 .. n
        PROVE  Pending(P, C, to[k], to[k + 1])
    <2>1. CASE k = n
      BY <1>1, <1>2, <1>3, <2>1
    <2>2. CASE k # n
      <3>1. k \in 1 .. n - 1 /\ k + 1 \in 1 .. n
        BY <1>1, <2>2
      <3>q. QED
        BY <1>2, <1>3, <3>1
    <2>q. QED
      BY <2>1, <2>2
  <1>6. Len(to) - 1 = n /\ to[1] = st[1]
    BY <1>1, <1>2
  <1>q. QED
    BY <1>2, <1>3, <1>4, <1>5, <1>6 DEF StackOk, to

LEMMA StackPop ==
    ASSUME NEW P, NEW C, NEW cur, NEW F, NEW st, Frames(F, st), st # <<>>, StackOk(P, C, cur, st)
    PROVE  LET to == SubSeq(st, 1, Len(st) - 1)
           IN  /\ StackOk(P, C, cur, to)
               /\ to # <<>> => Pending(P, C, to[Len(to)], st[Len(st)])
  <1> DEFINE to == SubSeq(st, 1, Len(st) - 1)
             n == Len(st)
  <1>1. n \in Nat \ {0} /\ st \in Seq(Range(st))
    BY TopFrame DEF Frames, IsSeq
  <1> HIDE DEF n
  <1>2. to \in Seq(Range(st)) /\ Len(to) = n - 1 /\ \A k \in 1 .. n - 1 : to[k] = st[k]
    <2>1. 1 \in 1 .. n + 1 /\ n - 1 \in 1 - 1 .. n /\ n - 1 - 1 + 1 = n - 1
      BY <1>1
    <2>q. QED
      BY <1>1, <2>1, SubSeqProperties DEF n
  <1>3. IsSeq(to)
    BY <1>2, SeqIsSeq
  <1>4. /\ \A k \in 1 .. n : FrameOk(P, C, st[k])
        /\ \A k \in 1 .. n - 1 : Pending(P, C, st[k], st[k + 1])
        /\ st[1].fn = cur /\ EntryIn(P, C, cur, st[1].in)
    BY DEF StackOk, n
  <1> HIDE DEF to
  <1>5. to # <<>> => n - 1 \in 1 .. n - 1 /\ 1 \in 1 .. n - 1
    BY <1>1, <1>2, <1>3, SeqFacts
  <1>6. \A k \in 1 .. n - 1 : FrameOk(P, C, to[k])
    <2>1. \A k \in 1 .. n - 1 : k \in 1 .. n
      BY <1>1
    <2>q. QED
      BY <1>2, <1>4, <2>1
  <1>7. \A k \in 1 .. n - 1 - 1 : Pending(P, C, to[k], to[k + 1])
    <2>1. \A k \in 1 .. n - 1 - 1 : k \in 1 .. n - 1 /\ k + 1 \in 1 .. n - 1
      BY <1>1
    <2>q. QED
      BY <1>2, <1>4, <2>1
  <1>8. to # <<>> => to[1].fn = cur /\ EntryIn(P, C, cur, to[1].in)
    BY <1>2, <1>4, <1>5
  <1>9. to # <<>> => Pending(P, C, to[Len(to)], st[n])
    <2>1. ASSUME to # <<>>
          PROVE  Pending(P, C, st[n - 1], st[n])
      <3>1. n - 1 + 1 = n
        BY <1>1
      <3>q. QED
        BY <1>4, <1>5, <2>1, <3>1
    <2>q. QED
      BY <1>2, <1>5, <2>1
  <1>q. QED
    <2>1. StackOk(P, C, cur, to)
      BY <1>2, <1>6, <1>7, <1>8 DEF StackOk
    <2>q. QED
      BY <1>9, <2>1 DEF to, n

\* The parts of ReachInv when C is closed.
Reached(P, C) ==
    /\ EqualOk(P, m_EqualVal) /\ AliasOk(P, C, m_GlvAlias) /\ LexOk(P, C, m_GlvLexset)
    /\ EntriesOk(P, C, m_EntryTaintBits) /\ SummariesOk(P, C, m_Func2Fsda)
    /\ StackOk(P, C, m_CurEntry, stack) /\ SelectedOk(P, C, DOMAIN m_Func2Fsda, m_InstSet)

After(C) ==
    /\ EqualOk(prog, m_EqualVal') /\ AliasOk(prog, C, m_GlvAlias') /\ LexOk(prog, C, m_GlvLexset')
    /\ EntriesOk(prog, C, m_EntryTaintBits') /\ SummariesOk(prog, C, m_Func2Fsda')
    /\ StackOk(prog, C, m_CurEntry', stack') /\ SelectedOk(prog, C, DOMAIN m_Func2Fsda', m_InstSet')

LEMMA ReachedStep ==
    ASSUME NEW C, UNCHANGED prog, ReachInv(C),
           prog # NoProgram /\ Closed(prog, C) /\ Reached(prog, C) => After(C)
    PROVE  ReachInv(C)'
  BY DEF ReachInv, Reached, After

\* At an instruction of the forward walk.
LEMMA AtInstReached ==
    ASSUME SdaInv, NEW C, Closed(prog, C), Reached(prog, C), NEW i \in Insts, AtInst(i)
    PROVE  LET f == Top.fn
           IN  /\ prog # NoProgram /\ WellFormed(prog) /\ stack # <<>>
               /\ f \in Defined(prog) /\ f \in DOMAIN m_Func2Fsda /\ IsFrame(Top)
               /\ Top.pc \in DOMAIN prog.fn[f].body /\ i = prog.fn[f].body[Top.pc]
               /\ i \in Body(prog, f) /\ i \in AllInsts(prog)
               /\ Frames(m_Func2Fsda, stack) /\ IsFsdaMap(m_Func2Fsda)
               /\ FrameOk(prog, C, Top)
               /\ Given(prog, C, f, i, Bits)
               /\ Bits # {} => Hit(prog, C, f, i)
  <1>1. /\ prog # NoProgram /\ WellFormed(prog) /\ stack # <<>>
        /\ Top.fn \in Defined(prog) /\ Top.fn \in DOMAIN m_Func2Fsda /\ IsFrame(Top)
        /\ Top.pc \in DOMAIN prog.fn[Top.fn].body /\ i = prog.fn[Top.fn].body[Top.pc]
        /\ Frames(m_Func2Fsda, stack) /\ IsFsdaMap(m_Func2Fsda) /\ i \in AllInsts(prog)
    BY AtInstFacts DEF Records, Fn
  <1>2. i \in Body(prog, Top.fn)
    BY <1>1, BodyAt
  <1>3. FrameOk(prog, C, Top)
    <2>1. Len(stack) \in Nat \ {0}
      BY <1>1, TopFrame
    <2>q. QED
      BY <2>1 DEF Reached, StackOk, Top
  <1>4. i = Inst
    BY DEF AtInst
  <1>5. Given(prog, C, Top.fn, i, Bits)
    BY <1>1, <1>3, <1>4, GetTaintedBitsGiven DEF Reached, FrameOk, Bits
  <1>6. Bits # {} => Hit(prog, C, Top.fn, i)
    BY <1>5, GivenHits
  <1>q. QED
    BY <1>1, <1>2, <1>3, <1>5, <1>6

LEMMA UseGlobalsReached ==
    ASSUME SdaInv, NEW C, Closed(prog, C), Reached(prog, C), NEW i \in Insts, AtDecoded(i)
    PROVE  AliasOk(prog, C, m_GlvAlias')
  <1> DEFINE f == Top.fn
             uses == Uses(prog, i)
  <1>1. AtInst(i) /\ AliasOk(prog, C, m_GlvAlias)
    BY DEF AtDecoded, Reached
  <1>2. f \in Defined(prog) /\ i \in Body(prog, f) /\ i \in AllInsts(prog) /\ WellFormed(prog)
    BY <1>1, AtInstReached
  <1>3. CASE UNCHANGED m_GlvAlias
    BY <1>1, <1>3
  <1>4. ASSUME NEW k \in DOMAIN uses, IsInGlvSet(uses[k]),
               m_GlvAlias' = Put(m_GlvAlias, i.v, m_GlvAlias[uses[k]])
        PROVE  AliasOk(prog, C, m_GlvAlias')
    <2> DEFINE u == uses[k]
               a == m_GlvAlias[u]
    <2>1. u \in Range(uses)
      BY DEF Range
    <2>2. ~IsLocal(prog, u) /\ ~IsLocal(prog, a) /\ (In(prog, C, NoFunc, u) <=> In(prog, C, NoFunc, a))
      BY <1>1, <1>4 DEF IsInGlvSet, AliasOk
    <2>3. ~IsLocal(prog, i.v)
      BY <1>2, InstIsGlobal
    <2> HIDE DEF a, u, uses
    <2>4. In(prog, C, f, i.v) <=> In(prog, C, f, u)
      BY <1>2, <2>1, TouchedHits, TouchesClosed DEF AllIn, uses
    <2>5. /\ In(prog, C, f, i.v) <=> In(prog, C, NoFunc, i.v)
          /\ In(prog, C, f, u) <=> In(prog, C, NoFunc, u)
      BY <2>2, <2>3, NodeGlobal DEF In
    <2>6. In(prog, C, NoFunc, i.v) <=> In(prog, C, NoFunc, a)
      BY <2>2, <2>4, <2>5
    <2>7. AliasOk(prog, C, Put(m_GlvAlias, i.v, a))
      BY <1>1, <1>2, <2>2, <2>3, <2>6 DEF AliasOk, Put
    <2>q. QED
      BY <1>4, <2>7 DEF a, u
  <1>5. \/ UNCHANGED m_GlvAlias
        \/ \E k \in DOMAIN uses : /\ IsInGlvSet(uses[k])
                                  /\ m_GlvAlias' = Put(m_GlvAlias, i.v, m_GlvAlias[uses[k]])
    BY DEF AtDecoded, UseGlobals
  <1>q. QED
    BY <1>3, <1>4, <1>5

LEMMA SetTopReached ==
    ASSUME SdaInv, stack # <<>>, NEW C, Reached(prog, C),
           NEW to, FrameOk(prog, C, to), to.fn = Top.fn, to.in = Top.in
    PROVE  /\ StackOk(prog, C, m_CurEntry, SetTop(to)) /\ Len(SetTop(to)) = Len(stack)
           /\ SetTop(to)[Len(stack)] = to
  BY StackFacts, StackSet DEF Reached, SetTop, Top

LEMMA SelectReached ==
    ASSUME SdaInv, stack # <<>>, NEW C, Reached(prog, C), NEW i, NEW ssd,
           Top.pc \in DOMAIN prog.fn[Top.fn].body, i = prog.fn[Top.fn].body[Top.pc],
           Hit(prog, C, Top.fn, i), Select(i, ssd)
    PROVE  /\ SummariesOk(prog, C, m_Func2Fsda')
           /\ SelectedOk(prog, C, DOMAIN m_Func2Fsda', m_InstSet')
  <1>1. /\ WellFormed(prog) /\ Top.fn \in Defined(prog) /\ Top.fn \in DOMAIN m_Func2Fsda
        /\ IsFsdaMap(m_Func2Fsda)
    BY StackFacts DEF Records
  <1>2. /\ SummariesOk(prog, C, m_Func2Fsda)
        /\ SelectedOk(prog, C, DOMAIN m_Func2Fsda, m_InstSet)
    BY DEF Reached
  <1>3. m_InstSet' = m_InstSet \cup {i.v} /\ m_Func2Fsda' = InsertInst(m_Func2Fsda, Top.fn, i, Top.pc, ssd)
    BY DEF Select
  <1>4. /\ DOMAIN m_Func2Fsda' = DOMAIN m_Func2Fsda
        /\ \A g \in DOMAIN m_Func2Fsda : SameSummary(m_Func2Fsda[g], m_Func2Fsda'[g])
    <2> DEFINE F == m_Func2Fsda
               f == Top.fn
               G == InsertInst(F, f, i, Top.pc, ssd)
    <2>1. DOMAIN G = DOMAIN F /\ \A g \in DOMAIN F : SameSummary(F[g], G[g])
      BY <1>1, InsertSame
    <2> HIDE DEF G
    <2>q. QED
      BY <1>3, <2>1 DEF G
  <1>5. SummariesOk(prog, C, m_Func2Fsda')
    BY <1>2, <1>4, SummariesSame
  <1>6. SelectedOk(prog, C, DOMAIN m_Func2Fsda, m_InstSet \cup {i.v})
    BY <1>1, <1>2, SelectedGrows
  <1>q. QED
    BY <1>3, <1>4, <1>5, <1>6

LEMMA AdvanceFields ==
    ASSUME NEW fr, IsFrame(fr)
    PROVE  LET to == Advance(fr)
           IN  /\ to.fn = fr.fn /\ to.in = fr.in /\ to.out = fr.out /\ to.lex = fr.lex
               /\ to \in [fn : {to.fn}, in : {to.in}, out : {to.out}, lex : {to.lex}, pc : {to.pc},
                          back : {to.back}, fw : {to.fw}, bits : {to.bits}, before : {to.before}]
  BY DEF IsFrame, Advance

LEMMA SkipInstReached ==
    ASSUME SdaInv, NEW C, Closed(prog, C), Reached(prog, C), SkipInst
    PROVE  After(C)
  <1> PICK i \in Insts : AtInst(i)
    BY DEF SkipInst
  <1>1. stack # <<>> /\ IsFrame(Top) /\ FrameOk(prog, C, Top)
    BY AtInstReached
  <1>2. FrameOk(prog, C, Advance(Top)) /\ Advance(Top).fn = Top.fn /\ Advance(Top).in = Top.in
    BY <1>1, AdvanceFields DEF FrameOk
  <1>3. StackOk(prog, C, m_CurEntry', stack')
    BY <1>1, <1>2, SetTopReached DEF SkipInst
  <1>q. QED
    BY <1>3 DEF SkipInst, After, Reached, entries, globals

LEMMA SourceInstReached ==
    ASSUME SdaInv, NEW C, Closed(prog, C), Reached(prog, C), SourceInst
    PROVE  After(C)
  <1>0. PICK i \in Insts :
          /\ AtDecoded(i) /\ IsSourceInst(i) /\ Select(i, 1)
          /\ stack' = SetTop([Advance(Top) EXCEPT !.lex = @ \cup {i.v}])
    BY DEF SourceInst
  <1> DEFINE to == [Advance(Top) EXCEPT !.lex = @ \cup {i.v}]
  <1>1. AtInst(i)
    BY <1>0 DEF AtDecoded
  <1>2. /\ stack # <<>> /\ IsFrame(Top) /\ FrameOk(prog, C, Top) /\ Top.fn \in Defined(prog)
        /\ Top.pc \in DOMAIN prog.fn[Top.fn].body /\ i = prog.fn[Top.fn].body[Top.pc]
        /\ i \in Body(prog, Top.fn)
    BY <1>1, AtInstReached
  <1>3. In(prog, C, Top.fn, i.v)
    BY <1>0, <1>2, OriginsClosed DEF IsSourceInst
  <1>4. Hit(prog, C, Top.fn, i)
    BY <1>3, TouchedHits
  <1>5. SummariesOk(prog, C, m_Func2Fsda') /\ SelectedOk(prog, C, DOMAIN m_Func2Fsda', m_InstSet')
    BY <1>0, <1>2, <1>4, SelectReached
  <1>6. to.fn = Top.fn /\ to.in = Top.in /\ to.out = Top.out /\ to.lex = Top.lex \cup {i.v}
    BY <1>2, AdvanceFields
  <1> HIDE DEF to
  <1>7. FrameOk(prog, C, to)
    <2>1. AllIn(prog, C, Top.fn, to.lex)
      BY <1>2, <1>3, <1>6 DEF FrameOk, AllIn
    <2>q. QED
      BY <1>2, <1>6, <2>1 DEF FrameOk
  <1>8. stack' = SetTop(to)
    BY <1>0 DEF to
  <1>9. StackOk(prog, C, m_CurEntry, stack')
    BY <1>2, <1>6, <1>7, <1>8, SetTopReached
  <1>10. AliasOk(prog, C, m_GlvAlias')
    BY <1>0, UseGlobalsReached
  <1>q. QED
    BY <1>5, <1>9, <1>10 DEF SourceInst, After, Reached, entries

LEMMA PassInstReached ==
    ASSUME SdaInv, NEW C, Closed(prog, C), Reached(prog, C), PassInst
    PROVE  After(C)
  <1> PICK i \in Insts :
          /\ AtDecoded(i)
          /\ m_EqualVal' = IF Bits = {} /\ ~prog.guardAll THEN m_EqualVal ELSE EqualProcess(i)
    BY DEF PassInst
  <1>1. AtInst(i)
    BY DEF AtDecoded
  <1>2. /\ prog # NoProgram /\ stack # <<>> /\ IsFrame(Top) /\ FrameOk(prog, C, Top)
        /\ i \in AllInsts(prog)
    BY <1>1, AtInstReached
  <1>3. FrameOk(prog, C, Advance(Top)) /\ Advance(Top).fn = Top.fn /\ Advance(Top).in = Top.in
    BY <1>2, AdvanceFields DEF FrameOk
  <1>4. StackOk(prog, C, m_CurEntry, stack')
    BY <1>2, <1>3, SetTopReached DEF PassInst
  <1>5. EqualOk(prog, m_EqualVal')
    BY <1>2, EqualOkProcess DEF Reached
  <1>6. AliasOk(prog, C, m_GlvAlias')
    BY UseGlobalsReached
  <1>q. QED
    BY <1>4, <1>5, <1>6 DEF PassInst, After, Reached, entries

LEMMA TaintRetReached ==
    ASSUME SdaInv, NEW C, Closed(prog, C), Reached(prog, C), TaintRet
    PROVE  After(C)
  <1>0. PICK i \in Insts :
          /\ AtDecoded(i) /\ i.op = "ret" /\ Bits # {} /\ Select(i, 0) /\ m_EqualVal' = EqualProcess(i)
    BY DEF TaintRet
  <1> DEFINE to == [Advance(Top) EXCEPT !.out = @ \cup {RET_NO}]
  <1>1. AtInst(i)
    BY <1>0 DEF AtDecoded
  <1>2. /\ prog # NoProgram /\ stack # <<>> /\ IsFrame(Top) /\ FrameOk(prog, C, Top)
        /\ Top.pc \in DOMAIN prog.fn[Top.fn].body /\ i = prog.fn[Top.fn].body[Top.pc]
        /\ i \in Body(prog, Top.fn) /\ i \in AllInsts(prog) /\ Hit(prog, C, Top.fn, i)
    BY <1>0, <1>1, AtInstReached
  <1>3. SummariesOk(prog, C, m_Func2Fsda') /\ SelectedOk(prog, C, DOMAIN m_Func2Fsda', m_InstSet')
    BY <1>0, <1>2, SelectReached
  <1>4. to.fn = Top.fn /\ to.in = Top.in /\ to.out = Top.out \cup {RET_NO} /\ to.lex = Top.lex
    BY <1>2, AdvanceFields
  <1>5. stack' = SetTop(to)
    BY DEF TaintRet
  <1> HIDE DEF to
  <1>6. FrameOk(prog, C, to)
    <2>1. AllIn(prog, C, Top.fn, to.lex)
      BY <1>2, <1>4 DEF FrameOk
    <2>2. \A b \in {RET_NO} : BitIn(prog, C, Top.fn, b)
      BY <1>0, <1>2 DEF BitIn, Returns
    <2>q. QED
      BY <1>2, <1>4, <2>1, <2>2 DEF FrameOk, ComesOut
  <1>7. StackOk(prog, C, m_CurEntry, stack')
    BY <1>2, <1>4, <1>5, <1>6, SetTopReached
  <1>8. EqualOk(prog, m_EqualVal') /\ AliasOk(prog, C, m_GlvAlias')
    BY <1>0, <1>2, EqualOkProcess, UseGlobalsReached DEF Reached
  <1>q. QED
    BY <1>3, <1>7, <1>8 DEF TaintRet, After, Reached, entries

\* No value of the program is NoValue.
LEMMA NoValueAlias ==
    ASSUME NEW P, WellFormed(P), NEW C, NEW alias, AliasOk(P, C, alias)
    PROVE  NoValue \notin DOMAIN alias
  <1>1. \A i \in AllInsts(P) : i.v # NoValue
    BY DEF WellFormed
  <1>2. NoValue \notin P.global /\ \A f \in DOMAIN P.fn : NoValue \notin Range(P.fn[f].args)
    BY DEF WellFormed
  <1>3. \A i \in AllInsts(P) : IsCall(i) /\ IsThreadCrt(i.callee) =>
            i.ops[3] \in DOMAIN P.fn /\ i.ops[4] # NoValue
    BY DEF WellFormed, Defined
  <1>4. NoValue \notin DOMAIN InitGlv(P)
    <2> DEFINE thrc == {i \in AllInsts(P) : IsCall(i) /\ IsThreadCrt(i.callee)}
               shared(i) == {i.ops[4]} \cup Range(P.fn[i.ops[3]].args)
               S == P.global \cup UNION {shared(i) : i \in thrc}
    <2>1. DOMAIN InitGlv(P) = {} \/ DOMAIN InitGlv(P) = S
      BY DEF InitGlv
    <2>2. \A i \in thrc : NoValue \notin shared(i)
      BY <1>2, <1>3
    <2>3. NoValue \notin S
      BY <1>2, <2>2
    <2>q. QED
      BY <2>1, <2>3
  <1>q. QED
    BY <1>1, <1>4 DEF AliasOk

\* The frame of the walk behind an instruction.
LEMMA TopGoesOn ==
    ASSUME SdaInv, stack # <<>>, NEW C, Reached(prog, C), IsFrame(Top), FrameOk(prog, C, Top),
           NEW lex, AllIn(prog, C, Top.fn, lex), NEW more, \A b \in more : BitIn(prog, C, Top.fn, b)
    PROVE  StackOk(prog, C, m_CurEntry,
                   SetTop([Advance(Top) EXCEPT !.lex = lex, !.out = @ \cup more]))
  <1> DEFINE to == [Advance(Top) EXCEPT !.lex = lex, !.out = @ \cup more]
  <1>1. to.fn = Top.fn /\ to.in = Top.in /\ to.out = Top.out \cup more /\ to.lex = lex
    BY AdvanceFields
  <1> HIDE DEF to
  <1>2. FrameOk(prog, C, to)
    BY <1>1 DEF FrameOk, ComesOut
  <1>3. StackOk(prog, C, m_CurEntry, SetTop(to))
    BY <1>1, <1>2, SetTopReached
  <1>q. QED
    BY <1>3 DEF to

LEMMA TaintInstReached ==
    ASSUME SdaInv, NEW C, Closed(prog, C), Reached(prog, C), TaintInst
    PROVE  After(C)
  <1>0. PICK i \in Insts :
          /\ AtDecoded(i) /\ Bits # {} /\ Select(i, 0) /\ m_EqualVal' = EqualProcess(i)
          /\ stack' = SetTop([Advance(Top) EXCEPT
                                !.out = @ \cup CheckOutArgTaint(Top.fn, {GetDef(i)}),
                                !.lex = AddTaintValue(m_EqualVal', @, GetDef(i))])
          /\ \/ UNCHANGED m_GlvLexset
             \/ /\ GetDef(i) \in DOMAIN m_GlvAlias'
                /\ m_GlvLexset' = m_GlvLexset \cup {m_GlvAlias'[GetDef(i)]}
    BY DEF TaintInst
  <1> DEFINE f == Top.fn
             def == GetDef(i)
             lex == AddTaintValue(m_EqualVal', Top.lex, def)
             more == CheckOutArgTaint(f, {def})
             to == [Advance(Top) EXCEPT !.lex = lex, !.out = @ \cup more]
  <1>1. AtInst(i)
    BY <1>0 DEF AtDecoded
  <1>2. /\ prog # NoProgram /\ WellFormed(prog) /\ stack # <<>> /\ IsFrame(Top)
        /\ FrameOk(prog, C, Top) /\ f \in Defined(prog)
        /\ Top.pc \in DOMAIN prog.fn[f].body /\ i = prog.fn[f].body[Top.pc]
        /\ i \in Body(prog, f) /\ i \in AllInsts(prog) /\ Hit(prog, C, f, i)
    BY <1>0, <1>1, AtInstReached
  <1>3. SummariesOk(prog, C, m_Func2Fsda') /\ SelectedOk(prog, C, DOMAIN m_Func2Fsda', m_InstSet')
    BY <1>0, <1>2, SelectReached
  <1>4. EqualOk(prog, m_EqualVal') /\ AliasOk(prog, C, m_GlvAlias')
    BY <1>0, <1>2, EqualOkProcess, UseGlobalsReached DEF Reached
  <1>5. def # NoValue => In(prog, C, f, def)
    BY <1>2, TouchesClosed
  <1>6. AllIn(prog, C, f, lex)
    BY <1>2, <1>4, <1>5, AddTaintValueIn DEF FrameOk
  <1>7. \A b \in more : BitIn(prog, C, f, b)
    <2>1. CASE def = NoValue
      <3>1. NoValue \notin Range(prog.fn[f].args)
        BY <1>2 DEF WellFormed, Defined
      <3>2. more = {}
        BY <2>1, <3>1 DEF CheckOutArgTaint, Range, Fn
      <3>q. QED
        BY <3>2
    <2>2. CASE def # NoValue
      <3>1. AllIn(prog, C, f, {def})
        BY <1>5, <2>2 DEF AllIn
      <3>q. QED
        BY <3>1, CheckOutArgTaintIn
    <2>q. QED
      BY <2>1, <2>2
  <1>8. stack' = SetTop(to)
    <2>1. Top.lex = Advance(Top).lex
      BY <1>2, AdvanceFields
    <2>2. [Advance(Top) EXCEPT !.out = @ \cup more, !.lex = AddTaintValue(m_EqualVal', @, def)] = to
      BY <1>2, <2>1 DEF IsFrame, Advance
    <2>q. QED
      BY <1>0, <2>2
  <1> HIDE DEF lex, more
  <1>9. StackOk(prog, C, m_CurEntry, stack')
    BY <1>2, <1>6, <1>7, <1>8, TopGoesOn
  <1>10. LexOk(prog, C, m_GlvLexset')
    <2>1. LexOk(prog, C, m_GlvLexset)
      BY DEF Reached
    <2>2. ASSUME def \in DOMAIN m_GlvAlias'
          PROVE  LET a == m_GlvAlias'[def] IN ~IsLocal(prog, a) /\ In(prog, C, NoFunc, a)
      <3>1. def # NoValue
        BY <1>2, <1>4, <2>2, NoValueAlias
      <3>2. ~IsLocal(prog, def) /\ In(prog, C, f, def)
        BY <1>4, <1>5, <2>2, <3>1 DEF AliasOk
      <3>3. In(prog, C, NoFunc, def)
        BY <3>2, NodeGlobal DEF In
      <3>q. QED
        BY <1>4, <2>2, <3>3 DEF AliasOk
    <2>q. QED
      BY <1>0, <2>1, <2>2 DEF LexOk
  <1>q. QED
    BY <1>3, <1>4, <1>9, <1>10 DEF TaintInst, After, Reached

\* What a call is given is noted before anything else happens to it.
LEMMA WithCstReached ==
    ASSUME SdaInv, NEW C, Closed(prog, C), Reached(prog, C), NEW i \in Insts, AtInst(i)
    PROVE  /\ SummariesOk(prog, C, WithCst(i)) /\ DOMAIN WithCst(i) = DOMAIN m_Func2Fsda
           /\ Given(prog, C, Top.fn, i, CstIn(i))
  <1> DEFINE f == Top.fn
             F == m_Func2Fsda
             old == Get(F[f].cst, i.v, [in |-> {}, out |-> {}, callees |-> {}])
             new == [old EXCEPT !.in = @ \cup Bits]
             c == Put(F[f].cst, i.v, new)
             G == [F EXCEPT ![f].cst = c]
  <1>1. /\ WellFormed(prog) /\ f \in Defined(prog) /\ f \in DOMAIN F /\ IsFsdaMap(F)
        /\ Top.pc \in DOMAIN prog.fn[f].body /\ i = prog.fn[f].body[Top.pc]
        /\ Given(prog, C, f, i, Bits)
    BY AtInstReached
  <1>2. SummariesOk(prog, C, F) /\ CstOk(prog, C, f, F[f].cst)
    BY <1>1 DEF Reached, SummariesOk
  <1>3. IsCst(old) /\ Given(prog, C, f, i, old.in)
    <2>1. CASE i.v \in DOMAIN F[f].cst
      BY <1>1, <1>2, <2>1 DEF CstOk, Get
    <2>2. CASE i.v \notin DOMAIN F[f].cst
      <3>1. old = [in |-> {}, out |-> {}, callees |-> {}]
        BY <2>2 DEF Get
      <3>q. QED
        BY <3>1 DEF IsCst, Given
    <2>q. QED
      BY <2>1, <2>2
  <1> HIDE DEF old
  <1>4. IsCst(new) /\ new.in = old.in \cup Bits
    BY <1>3 DEF IsCst
  <1> HIDE DEF new
  <1>5. Given(prog, C, f, i, new.in)
    BY <1>1, <1>3, <1>4 DEF Given
  <1>6. /\ DOMAIN c = DOMAIN F[f].cst \cup {i.v} /\ c[i.v] = new
        /\ \A v \in DOMAIN F[f].cst : v # i.v => c[v] = F[f].cst[v]
    <2> DEFINE cst == F[f].cst
    <2> HIDE DEF cst
    <2>q. QED
      BY DEF Put, cst
  <1> HIDE DEF c
  <1>7. CstOk(prog, C, f, c)
    <2> SUFFICES ASSUME NEW k \in DOMAIN prog.fn[f].body, prog.fn[f].body[k].v \in DOMAIN c
                 PROVE  LET j == prog.fn[f].body[k]
                        IN  IsCst(c[j.v]) /\ Given(prog, C, f, j, c[j.v].in)
      BY DEF CstOk
    <2>1. CASE prog.fn[f].body[k].v = i.v
      <3>1. k = Top.pc
        BY <1>1, <2>1, ValuesDiffer
      <3>q. QED
        BY <1>1, <1>4, <1>5, <1>6, <3>1
    <2>2. CASE prog.fn[f].body[k].v # i.v
      BY <1>2, <1>6, <2>2 DEF CstOk
    <2>q. QED
      BY <2>1, <2>2
  <1>8. SummariesOk(prog, C, G) /\ DOMAIN G = DOMAIN F /\ G[f].cst = c
    BY <1>1, <1>2, <1>7, CstChange
  <1>9. WithCst(i) = G
    BY DEF WithCst, InsertCst, c, new, old
  <1>10. CstIn(i) = new.in
    BY <1>6, <1>8, <1>9 DEF CstIn
  <1>q. QED
    BY <1>5, <1>8, <1>9, <1>10

LEMMA CreateThreadReached ==
    ASSUME SdaInv, NEW C, Closed(prog, C), Reached(prog, C), CreateThread
    PROVE  After(C)
  <1> DEFINE entry(i) == i.ops[3]
             shared(i) == CstIn(i) # {} \/ GetEntryTaintbits(entry(i)) # {}
             wider(i) == IF shared(i) THEN Top.lex \cup {i.ops[4]} ELSE Top.lex
             more(i) == IF Bits = {} THEN {} ELSE CheckOutArgTaint(Top.fn, wider(i))
  <1>0. PICK i \in Insts :
          /\ AtDecoded(i) /\ IsCall(i) /\ IsThreadCrt(i.callee)
          /\ m_EqualVal' = EqualProcess(i) /\ m_Func2Fsda' = WithCst(i)
          /\ m_EntryTaintBits' = IF CstIn(i) = {} THEN m_EntryTaintBits
                                 ELSE Put(m_EntryTaintBits, i.ops[3], {ArgNo(1)})
          /\ stack' = SetTop([Advance(Top) EXCEPT !.lex = wider(i), !.out = @ \cup more(i)])
    BY DEF CreateThread, AtCall
  <1> DEFINE f == Top.fn
             e == i.ops[3]
             lex == wider(i)
  <1>1. AtInst(i)
    BY <1>0 DEF AtDecoded
  <1>2. /\ prog # NoProgram /\ WellFormed(prog) /\ stack # <<>> /\ IsFrame(Top)
        /\ FrameOk(prog, C, Top) /\ f \in Defined(prog)
        /\ i \in Body(prog, f) /\ i \in AllInsts(prog)
    BY <1>1, AtInstReached
  <1>3. /\ SummariesOk(prog, C, m_Func2Fsda') /\ DOMAIN m_Func2Fsda' = DOMAIN m_Func2Fsda
        /\ Given(prog, C, f, i, CstIn(i))
    BY <1>0, <1>1, WithCstReached
  <1>4. EqualOk(prog, m_EqualVal') /\ AliasOk(prog, C, m_GlvAlias')
    BY <1>0, <1>2, EqualOkProcess, UseGlobalsReached DEF Reached
  <1>5. e \in Defined(prog)
    BY <1>0, <1>2 DEF WellFormed
  <1>6. EntryIn(prog, C, e, GetEntryTaintbits(e))
    BY <1>2, <1>5, GetEntryTaintbitsIn DEF Reached
  <1>7. /\ Hit(prog, C, f, i) => In(prog, C, f, i.ops[4])
        /\ In(prog, C, f, i.ops[4]) => ThreadLink(prog, e) \cap C # {}
        /\ ThreadLink(prog, e) \cap C # {} => In(prog, C, f, i.ops[4])
        /\ e \in ThreadEntries(prog)
    BY <1>0, <1>2, CreateClosed
  <1>8. CstIn(i) # {} => Hit(prog, C, f, i)
    BY <1>3, GivenHits
  <1>9. shared(i) => In(prog, C, f, i.ops[4])
    BY <1>6, <1>7, <1>8 DEF EntryIn
  <1>10. AllIn(prog, C, f, lex)
    BY <1>2, <1>9 DEF FrameOk, AllIn
  <1>11. \A b \in more(i) : BitIn(prog, C, f, b)
    BY <1>10, CheckOutArgTaintIn
  <1>12. StackOk(prog, C, m_CurEntry, stack')
    <2> HIDE DEF wider, more
    <2>q. QED
      BY <1>0, <1>2, <1>10, <1>11, TopGoesOn
  <1>13. EntriesOk(prog, C, m_EntryTaintBits')
    <2>1. EntriesOk(prog, C, m_EntryTaintBits)
      BY DEF Reached
    <2>2. ASSUME CstIn(i) # {}
          PROVE  EntryIn(prog, C, e, {ArgNo(1)})
      <3>1. ThreadLink(prog, e) \cap C # {}
        BY <1>7, <1>8, <2>2
      <3>2. AllIn(prog, C, e, Range(prog.fn[e].args))
        BY <1>7, <3>1, ThreadClosed
      <3>q. QED
        BY <1>2, <1>5, <3>1, <3>2, ArgNumbers DEF EntryIn, GoesIn, AllIn
    <2>q. QED
      BY <1>0, <2>1, <2>2 DEF EntriesOk, Put
  <1>q. QED
    BY <1>3, <1>4, <1>12, <1>13 DEF CreateThread, After, Reached

\* The bits a call comes back with stand for operands, or the result, in C.
Answers(P, C, f, i, out) ==
    /\ \A n \in DOMAIN Uses(P, i) : ArgNo(n) \in out => In(P, C, f, Uses(P, i)[n])
    /\ RET_NO \in out /\ GetDef(i) # NoValue => In(P, C, f, GetDef(i))

LEMMA HitAnswers ==
    ASSUME NEW P, NEW C, Closed(P, C), NEW f \in Defined(P), NEW i \in Body(P, f), Hit(P, C, f, i),
           NEW out
    PROVE  Answers(P, C, f, i, out)
  <1>1. /\ AllIn(P, C, f, Range(Uses(P, i)))
        /\ GetDef(i) # NoValue => In(P, C, f, GetDef(i))
    BY TouchesClosed
  <1>2. \A n \in DOMAIN Uses(P, i) : Uses(P, i)[n] \in Range(Uses(P, i))
    BY DEF Range
  <1>q. QED
    BY <1>1, <1>2 DEF Answers, AllIn

\* A call that is given bits in and whose function's summary has out for them.
LEMMA SummaryAnswers ==
    ASSUME NEW P, WellFormed(P), NEW C, Closed(P, C), NEW f \in Defined(P), NEW i \in Body(P, f),
           IsCall(i), i.callee \in Defined(P), NEW in, NEW out,
           Given(P, C, f, i, in), ComesOut(P, C, i.callee, in, out)
    PROVE  Answers(P, C, f, i, out)
  <1> DEFINE g == i.callee
  <1>1. CASE in # {}
    BY <1>1, GivenHits, HitAnswers
  <1>2. CASE in = {}
    <2>1. \A b \in out : BitIn(P, C, g, b)
      BY <1>2 DEF ComesOut
    <2>2. /\ \A n \in DOMAIN Uses(P, i) \cap DOMAIN P.fn[g].args :
                In(P, C, f, Uses(P, i)[n]) <=> In(P, C, g, P.fn[g].args[n])
          /\ \A r \in Returns(P, g) : Hit(P, C, g, r) => In(P, C, f, i.v)
      BY CallClosed
    <2>3. /\ \A n \in DOMAIN Uses(P, i) : n \in Nat \ {0}
          /\ \A n \in DOMAIN P.fn[g].args : n \in Nat \ {0}
      BY BodyInsts, UseNumbers, ArgNumbers
    <2>4. /\ \A m, n \in Nat \ {0} : ArgNo(m) = ArgNo(n) => m = n
          /\ \A n \in Nat \ {0} : ArgNo(n) # RET_NO
      BY DEF ArgNo, RET_NO
    <2>5. ASSUME NEW n \in DOMAIN Uses(P, i), ArgNo(n) \in out
          PROVE  In(P, C, f, Uses(P, i)[n])
      <3>1. PICK m \in DOMAIN P.fn[g].args : ArgNo(n) = ArgNo(m) /\ In(P, C, g, P.fn[g].args[m])
        BY <2>1, <2>3, <2>4, <2>5 DEF BitIn
      <3>2. m = n
        BY <2>3, <2>4, <3>1
      <3>q. QED
        BY <2>2, <3>1, <3>2
    <2>6. ASSUME RET_NO \in out, GetDef(i) # NoValue
          PROVE  In(P, C, f, GetDef(i))
      <3>1. In(P, C, f, i.v)
        BY <2>1, <2>2, <2>3, <2>4, <2>6 DEF BitIn
      <3>2. GetDef(i) = i.v
        BY <2>6 DEF GetDef, IsCall, Computes
      <3>q. QED
        BY <3>1, <3>2
    <2>q. QED
      BY <2>5, <2>6 DEF Answers
  <1>q. QED
    BY <1>1, <1>2

LEMMA CachedComesOut ==
    ASSUME NEW C, SummariesOk(prog, C, m_Func2Fsda), NEW f, NEW bits
    PROVE  ComesOut(prog, C, f, bits, Cached(f, bits))
  <1> DEFINE F == GetFlda(m_Func2Fsda, f)
  <1>1. CacheOk(prog, C, f, F[f].cache)
    BY GetFldaOk DEF SummariesOk
  <1> HIDE DEF F
  <1>2. ComesOut(prog, C, f, bits, Get(F[f].cache, bits, {}))
    BY <1>1 DEF CacheOk, Get, ComesOut
  <1>3. Cached(f, bits) = {} \/ Cached(f, bits) = Get(F[f].cache, bits, {})
    BY DEF Cached, GetSdsCache, F
  <1>q. QED
    BY <1>2, <1>3 DEF ComesOut

LEMMA OutBitsAnswers ==
    ASSUME WellFormed(prog), NEW C, Closed(prog, C), SummariesOk(prog, C, m_Func2Fsda),
           NEW f \in Defined(prog), NEW i \in Body(prog, f), IsCall(i),
           NEW in, Given(prog, C, f, i, in)
    PROVE  Answers(prog, C, f, i, OutBits(i, in))
  <1>1. CASE in # {}
    BY <1>1, GivenHits, HitAnswers
  <1>2. CASE in = {}
    <2>1. Answers(prog, C, f, i, {})
      BY DEF Answers
    <2>2. DefaultTaints(i, in) = {} /\ ComputeTaintBits(i.callee, in) = {}
      BY <1>2 DEF DefaultTaints, ComputeTaintBits
    <2>3. CASE OutBits(i, in) = {}
      BY <2>1, <2>3
    <2>4. CASE OutBits(i, in) = Cached(i.callee, in) /\ i.callee # NoFunc /\ ~Fn(i.callee).decl
      <3>1. i.callee \in Defined(prog)
        BY <2>4, BodyInsts DEF WellFormed, Defined, Fn
      <3>q. QED
        BY <2>4, <3>1, CachedComesOut, SummaryAnswers
    <2>5. \/ OutBits(i, in) = {}
          \/ OutBits(i, in) = Cached(i.callee, in) /\ i.callee # NoFunc /\ ~Fn(i.callee).decl
      BY <1>2, <2>2 DEF OutBits
    <2>q. QED
      BY <2>3, <2>4, <2>5
  <1>q. QED
    BY <1>1, <1>2

\* The frame that called takes the result: what it notes keeps what was given.
Noted(F, f, v, out, callee) ==
    LET noted(c) == [c EXCEPT !.out = out, !.callees = @ \cup callee]
    IN  [F EXCEPT ![f].cst[v] = noted(@)]

LEMMA AnswerNoted ==
    ASSUME NEW P, WellFormed(P), NEW C, NEW F, IsFsdaMap(F), SummariesOk(P, C, F), NEW f \in DOMAIN F,
           NEW v, NEW out, NEW callee
    PROVE  LET G == Noted(F, f, v, out, callee)
           IN  SummariesOk(P, C, G) /\ DOMAIN G = DOMAIN F /\ IsFsdaMap(G)
  <1> DEFINE cst == F[f].cst
             noted(r) == [r EXCEPT !.out = out, !.callees = @ \cup callee]
             new == noted(cst[v])
             c == [cst EXCEPT ![v] = new]
             G == [F EXCEPT ![f].cst = c]
  <1>1. IsCst(cst[v]) => IsCst(new) /\ new.in = cst[v].in
    BY DEF IsCst
  <1>2. CstOk(P, C, f, cst)
    BY DEF SummariesOk
  <1> HIDE DEF cst, new, noted
  <1>3. DOMAIN c = DOMAIN cst /\ \A x \in DOMAIN cst : c[x] = IF x = v THEN new ELSE cst[x]
    OBVIOUS
  <1> HIDE DEF c
  <1>4. CstOk(P, C, f, c)
    <2> SUFFICES ASSUME NEW k \in DOMAIN P.fn[f].body, P.fn[f].body[k].v \in DOMAIN c
                 PROVE  LET i == P.fn[f].body[k]
                        IN  IsCst(c[i.v]) /\ Given(P, C, f, i, c[i.v].in)
      BY DEF CstOk
    <2>1. LET i == P.fn[f].body[k] IN IsCst(cst[i.v]) /\ Given(P, C, f, i, cst[i.v].in)
      BY <1>2, <1>3 DEF CstOk
    <2>2. LET i == P.fn[f].body[k]
          IN  c[i.v] = cst[i.v] \/ (i.v = v /\ c[i.v] = new)
      BY <1>3
    <2>q. QED
      BY <1>1, <2>1, <2>2
  <1>5. SummariesOk(P, C, G) /\ DOMAIN G = DOMAIN F
    BY <1>4, CstChange
  <1>6. IsFsdaMap(G)
    BY CstKept DEF Kept
  <1>7. G = Noted(F, f, v, out, callee)
    BY DEF c, new, cst, noted, Noted
  <1>q. QED
    BY <1>5, <1>6, <1>7

LEMMA TopFrameOk ==
    ASSUME NEW P, NEW C, NEW cur, NEW F, NEW st, Frames(F, st), st # <<>>, StackOk(P, C, cur, st)
    PROVE  LET fr == st[Len(st)]
           IN  /\ Len(st) \in Nat \ {0} /\ fr.fn \in DOMAIN F /\ IsFrame(fr) /\ Last(st) = fr
               /\ FrameOk(P, C, fr)
  <1>1. Len(st) \in Nat \ {0}
    BY TopFrame
  <1>q. QED
    BY <1>1, TopFrame DEF StackOk

LEMMA InsertOk ==
    ASSUME NEW P, NEW C, NEW F, IsFsdaMap(F), SummariesOk(P, C, F), NEW f \in DOMAIN F,
           NEW i, NEW k, NEW ssd
    PROVE  LET G == InsertInst(F, f, i, k, ssd)
           IN  DOMAIN G = DOMAIN F /\ SummariesOk(P, C, G)
  <1> DEFINE G == InsertInst(F, f, i, k, ssd)
  <1>1. DOMAIN G = DOMAIN F /\ \A g \in DOMAIN F : SameSummary(F[g], G[g])
    BY InsertSame
  <1> HIDE DEF G
  <1>2. SummariesOk(P, C, G)
    BY <1>1, SummariesSame
  <1>q. QED
    BY <1>1, <1>2 DEF G

LEMMA NotedOk ==
    ASSUME NEW P, WellFormed(P), NEW C, NEW F, IsFsdaMap(F), SummariesOk(P, C, F), NEW f \in DOMAIN F,
           NEW v, NEW out, NEW callee, NEW i, NEW k
    PROVE  LET G == Noted(F, f, v, out, callee)
               H == InsertInst(G, f, i, k, 0)
           IN  /\ SummariesOk(P, C, G) /\ DOMAIN G = DOMAIN F
               /\ SummariesOk(P, C, H) /\ DOMAIN H = DOMAIN F
  <1> DEFINE G == Noted(F, f, v, out, callee)
             H == InsertInst(G, f, i, k, 0)
  <1>1. SummariesOk(P, C, G) /\ DOMAIN G = DOMAIN F /\ IsFsdaMap(G)
    BY AnswerNoted
  <1> HIDE DEF G
  <1>2. SummariesOk(P, C, H) /\ DOMAIN H = DOMAIN G
    BY <1>1, InsertOk
  <1> HIDE DEF H
  <1>q. QED
    BY <1>1, <1>2 DEF G, H

\* Frame fr is the last one of st and stands at instruction i.
StandsAt(st, fr, i) ==
    /\ fr = st[Len(st)] /\ fr.fn \in Defined(prog)
    /\ fr.pc \in DOMAIN prog.fn[fr.fn].body /\ i = prog.fn[fr.fn].body[fr.pc]

LEMMA FinishCallReached ==
    ASSUME WellFormed(prog), NEW C, Closed(prog, C), NEW F, NEW st, Frames(F, st), st # <<>>,
           IsFsdaMap(F), EqualOk(prog, m_EqualVal), LexOk(prog, C, m_GlvLexset),
           SummariesOk(prog, C, F), StackOk(prog, C, m_CurEntry, st),
           SelectedOk(prog, C, DOMAIN F, m_InstSet),
           NEW fr, NEW i, StandsAt(st, fr, i), NEW bits, NEW before, NEW out, FinishCall(F, st, i, bits, before, out),
           bits # {} \/ Cardinality(m_InstSet) > before =>
               Hit(prog, C, fr.fn, i) \/ (IsCall(i) /\ i.callee \in DOMAIN F),
           Answers(prog, C, fr.fn, i, out)
    PROVE  /\ LexOk(prog, C, m_GlvLexset') /\ SummariesOk(prog, C, m_Func2Fsda')
           /\ StackOk(prog, C, m_CurEntry, stack')
           /\ SelectedOk(prog, C, DOMAIN m_Func2Fsda', m_InstSet')
  <1>1. /\ Len(st) \in Nat \ {0} /\ fr.fn \in DOMAIN F /\ IsFrame(fr) /\ Last(st) = fr
        /\ FrameOk(prog, C, fr) /\ fr.fn \in Defined(prog)
    <2>1. LET to == st[Len(st)]
          IN  /\ Len(st) \in Nat \ {0} /\ to.fn \in DOMAIN F /\ IsFrame(to) /\ Last(st) = to
              /\ FrameOk(prog, C, to)
      BY TopFrameOk
    <2>q. QED
      BY <2>1 DEF StandsAt
  <1> DEFINE f == fr.fn
             uses == Uses(prog, i)
             args == {uses[n] : n \in {k \in DOMAIN uses : ArgNo(k) \in out}}
             lex == IF RET_NO \in out
                    THEN AddTaintValue(m_EqualVal, fr.lex \cup args, GetDef(i))
                    ELSE fr.lex \cup args
             more == IF bits = {} THEN {} ELSE CheckOutArgTaint(f, lex)
             callee == IF i.callee = NoFunc THEN {} ELSE {i.callee}
             G == Noted(F, f, i.v, out, callee)
             to == [Advance(fr) EXCEPT !.lex = lex, !.out = @ \cup more]
  <1>2. /\ m_GlvLexset' = m_GlvLexset \cup {a \in args : IsGlobalValue(a)}
        /\ stack' = [st EXCEPT ![Len(st)] = to]
        /\ \/ m_InstSet' = m_InstSet /\ m_Func2Fsda' = G
           \/ /\ bits # {} \/ Cardinality(m_InstSet) > before
              /\ m_InstSet' = m_InstSet \cup {i.v} /\ m_Func2Fsda' = InsertInst(G, f, i, fr.pc, 0)
    BY <1>1 DEF FinishCall, Noted
  <1>3. AllIn(prog, C, f, args)
    BY DEF Answers, AllIn
  <1>4. AllIn(prog, C, f, lex)
    <2>1. AllIn(prog, C, f, fr.lex \cup args)
      BY <1>1, <1>3 DEF FrameOk, AllIn
    <2> HIDE DEF args
    <2>2. ASSUME RET_NO \in out
          PROVE  AllIn(prog, C, f, AddTaintValue(m_EqualVal, fr.lex \cup args, GetDef(i)))
      BY <1>1, <2>1, <2>2, AddTaintValueIn DEF Answers
    <2>q. QED
      BY <2>1, <2>2
  <1>5. LexOk(prog, C, m_GlvLexset')
    <2> HIDE DEF args, lex, more, G, to
    <2> SUFFICES ASSUME NEW a \in args, IsGlobalValue(a)
                 PROVE  ~IsLocal(prog, a) /\ In(prog, C, NoFunc, a)
      BY <1>2 DEF LexOk
    <2>1. ~IsLocal(prog, a)
      BY DEF IsGlobalValue, IsLocal
    <2>2. Node(prog, f, a) \in C
      BY <1>3 DEF AllIn, In
    <2>3. Node(prog, f, a) = Node(prog, NoFunc, a)
      BY <2>1, NodeGlobal
    <2>q. QED
      BY <2>1, <2>2, <2>3 DEF In
  <1> HIDE DEF lex, args
  <1>6. \A b \in more : BitIn(prog, C, f, b)
    BY <1>4, CheckOutArgTaintIn
  <1> HIDE DEF more
  <1>7. to.fn = f /\ to.in = fr.in /\ to.out = fr.out \cup more /\ to.lex = lex
    BY <1>1, AdvanceFields
  <1> HIDE DEF to
  <1>8. FrameOk(prog, C, to)
    BY <1>1, <1>4, <1>6, <1>7 DEF FrameOk, ComesOut
  <1>9. StackOk(prog, C, m_CurEntry, stack')
    BY <1>2, <1>7, <1>8, StackSet DEF StandsAt
  <1>10. /\ SummariesOk(prog, C, G) /\ DOMAIN G = DOMAIN F
         /\ DOMAIN InsertInst(G, f, i, fr.pc, 0) = DOMAIN F
         /\ SummariesOk(prog, C, InsertInst(G, f, i, fr.pc, 0))
    <2> HIDE DEF callee
    <2>q. QED
      BY <1>1, NotedOk
  <1> HIDE DEF G
  <1>11. bits # {} \/ Cardinality(m_InstSet) > before =>
             SelectedOk(prog, C, DOMAIN F, m_InstSet \cup {i.v})
    <2> DEFINE D == DOMAIN F
    <2> HIDE DEF D
    <2>q. QED
      BY SelectedGrows DEF D, StandsAt
  <1>12. SummariesOk(prog, C, m_Func2Fsda') /\ SelectedOk(prog, C, DOMAIN m_Func2Fsda', m_InstSet')
    BY <1>2, <1>10, <1>11
  <1>q. QED
    BY <1>5, <1>9, <1>12

LEMMA RangeFinite ==
    ASSUME NEW S, IsFiniteSet(S), NEW T, NEW g \in [S -> T]
    PROVE  IsFiniteSet({g[x] : x \in S})
  <1> DEFINE R == {g[x] : x \in S}
  <1>1. g \in Surjection(S, R)
    BY DEF Surjection
  <1> HIDE DEF R
  <1>2. IsFiniteSet(R)
    BY <1>1, FS_Surjection
  <1>q. QED
    BY <1>2 DEF R

LEMMA InstsFinite ==
    ASSUME NEW P, WellFormed(P)
    PROVE  IsFiniteSet({i.v : i \in AllInsts(P)})
  <1> DEFINE D == Defined(P)
             body(f) == Range(P.fn[f].body)
             bodies == [f \in D |-> body(f)]
             insts == AllInsts(P)
             value == [i \in insts |-> i.v]
  <1>1. ASSUME NEW f \in D
        PROVE  IsFiniteSet(body(f))
    <2> DEFINE b == P.fn[f].body
    <2>1. b \in Seq(Range(b))
      BY DEF WellFormed, Defined
    <2>2. Len(b) \in Nat /\ DOMAIN b = 1 .. Len(b) /\ b \in [1 .. Len(b) -> Range(b)]
      BY <2>1, LenProperties
    <2>3. IsFiniteSet(1 .. Len(b))
      BY <2>2, FS_Interval
    <2>4. IsFiniteSet({b[k] : k \in 1 .. Len(b)})
      <3> HIDE DEF b
      <3>q. QED
        BY <2>2, <2>3, RangeFinite
    <2>q. QED
      BY <2>2, <2>4 DEF Range
  <1>2. IsFiniteSet({bodies[f] : f \in D})
    <2>1. bodies \in [D -> {body(f) : f \in D}]
      OBVIOUS
    <2> HIDE DEF bodies, D
    <2>q. QED
      BY <2>1, DefinedFinite, RangeFinite DEF D
  <1>3. insts = UNION {bodies[f] : f \in D}
    BY DEF AllInsts, Defined
  <1>4. IsFiniteSet(insts)
    <2>1. \A s \in {bodies[f] : f \in D} : IsFiniteSet(s)
      BY <1>1
    <2> HIDE DEF bodies, insts, D
    <2>q. QED
      BY <1>2, <1>3, <2>1, FS_UNION
  <1>5. IsFiniteSet({value[i] : i \in insts})
    <2> DEFINE T == {i.v : i \in insts}
    <2>1. value \in [insts -> T]
      OBVIOUS
    <2> HIDE DEF value, insts, T
    <2>q. QED
      BY <1>4, <2>1, RangeFinite
  <1>6. {value[i] : i \in insts} = {i.v : i \in AllInsts(P)}
    OBVIOUS
  <1>q. QED
    BY <1>5, <1>6

LEMMA InstSetFinite ==
    ASSUME SdaInv, prog # NoProgram
    PROVE  Cardinality(m_InstSet) \in Nat
  <1>1. Records(m_Func2Fsda, m_InstSet) /\ WellFormed(prog)
    BY DEF SdaInv, RecordInv, TodoInv
  <1>2. ASSUME NEW v \in m_InstSet
        PROVE  v \in {i.v : i \in AllInsts(prog)}
    <2>1. PICK f \in DOMAIN m_Func2Fsda : v \in DOMAIN m_Func2Fsda[f].insts
      BY <1>1 DEF Records
    <2>2. f \in Defined(prog) /\ Recorded(f, m_Func2Fsda[f], v)
      BY <1>1, <2>1 DEF Records
    <2>3. PICK k \in DOMAIN prog.fn[f].body : prog.fn[f].body[k].v = v
      BY <2>2 DEF Recorded, Fn
    <2>4. prog.fn[f].body[k] \in AllInsts(prog)
      BY <2>2, BodyAt, BodyInsts
    <2>q. QED
      BY <2>3, <2>4
  <1>q. QED
    BY <1>1, <1>2, InstsFinite, FS_Subset, FS_CardinalityType

LEMMA CallKnownReached ==
    ASSUME SdaInv, NEW C, Closed(prog, C), Reached(prog, C), CallKnown
    PROVE  After(C)
  <1>0. PICK i \in Insts :
          /\ AtCall(i)
          /\ FinishCall(WithCst(i), stack, i, Bits, Cardinality(m_InstSet), OutBits(i, CstIn(i)))
    BY DEF CallKnown
  <1> DEFINE f == Top.fn
             F == WithCst(i)
             n == Cardinality(m_InstSet)
             out == OutBits(i, CstIn(i))
  <1>1. AtInst(i) /\ AtDecoded(i) /\ IsCall(i) /\ Kept(m_Func2Fsda, F) /\ m_EqualVal' = EqualProcess(i)
    BY <1>0, AtCallFacts DEF AtCall
  <1>2. /\ prog # NoProgram /\ WellFormed(prog) /\ stack # <<>> /\ f \in Defined(prog)
        /\ i \in Body(prog, f) /\ i \in AllInsts(prog) /\ Frames(m_Func2Fsda, stack)
        /\ Bits # {} => Hit(prog, C, f, i)
    BY <1>1, AtInstReached
  <1>3. StandsAt(stack, Top, i)
    BY <1>1, AtInstReached DEF StandsAt, Top
  <1>4. /\ SummariesOk(prog, C, F) /\ DOMAIN F = DOMAIN m_Func2Fsda
        /\ Given(prog, C, f, i, CstIn(i))
    BY <1>1, WithCstReached
  <1>5. /\ EqualOk(prog, m_EqualVal) /\ LexOk(prog, C, m_GlvLexset)
        /\ StackOk(prog, C, m_CurEntry, stack) /\ SummariesOk(prog, C, m_Func2Fsda)
        /\ SelectedOk(prog, C, DOMAIN m_Func2Fsda, m_InstSet)
    BY DEF Reached
  <1>6. Answers(prog, C, f, i, out)
    BY <1>1, <1>2, <1>4, <1>5, OutBitsAnswers
  <1>7. Frames(F, stack) /\ IsFsdaMap(F)
    BY <1>1, <1>2, <1>4 DEF Frames, Kept
  <1>8. Bits # {} \/ Cardinality(m_InstSet) > n => Hit(prog, C, f, i) \/ (IsCall(i) /\ i.callee \in DOMAIN F)
    <2>1. n \in Nat
      BY <1>2, InstSetFinite
    <2>2. ~(n > n)
      <3> HIDE DEF n
      <3>q. QED
        BY <2>1
    <2>q. QED
      BY <1>2, <2>2
  <1>9. SelectedOk(prog, C, DOMAIN F, m_InstSet)
    BY <1>4, <1>5
  <1>10. FinishCall(F, stack, i, Bits, n, out)
    BY <1>0
  <1> HIDE DEF F, n, out
  <1>11. /\ LexOk(prog, C, m_GlvLexset') /\ SummariesOk(prog, C, m_Func2Fsda')
         /\ StackOk(prog, C, m_CurEntry, stack')
         /\ SelectedOk(prog, C, DOMAIN m_Func2Fsda', m_InstSet')
    BY <1>2, <1>3, <1>4, <1>5, <1>6, <1>7, <1>8, <1>9, <1>10, FinishCallReached
  <1>12. EqualOk(prog, m_EqualVal') /\ AliasOk(prog, C, m_GlvAlias')
    BY <1>1, <1>2, <1>5, EqualOkProcess, UseGlobalsReached
  <1>13. UNCHANGED <<m_EntryTaintBits, m_CurEntry>>
    BY DEF CallKnown, entries
  <1>q. QED
    BY <1>11, <1>12, <1>13 DEF After, Reached

\* The frame of a function that is called with bits in.
LEMMA NewFrameOk ==
    ASSUME NEW C, NEW f, NEW in, GoesIn(prog, C, f, in)
    PROVE  LET fr == Frame(f, in)
           IN  FrameOk(prog, C, fr) /\ fr.fn = f /\ fr.in = in
  <1>1. AllIn(prog, C, f, InitCriterions(f, in, {}))
    BY InitCriterionsIn DEF AllIn
  <1>q. QED
    BY <1>1 DEF Frame, FrameOk, ComesOut

LEMMA GivenGoesIn ==
    ASSUME NEW P, WellFormed(P), NEW C, Closed(P, C), NEW f \in Defined(P), NEW i \in Body(P, f),
           IsCall(i), i.callee \in Defined(P), NEW in, Given(P, C, f, i, in)
    PROVE  GoesIn(P, C, i.callee, in)
  <1> DEFINE g == i.callee
  <1> SUFFICES ASSUME NEW n \in DOMAIN P.fn[g].args, ArgNo(n) \in in
               PROVE  In(P, C, g, P.fn[g].args[n])
    BY DEF GoesIn
  <1>1. PICK m \in DOMAIN Uses(P, i) : ArgNo(n) = ArgNo(m) /\ In(P, C, f, Uses(P, i)[m])
    BY DEF Given
  <1>2. m \in Nat \ {0} /\ n \in Nat \ {0}
    BY BodyInsts, UseNumbers, ArgNumbers
  <1>3. m = n
    BY <1>1, <1>2 DEF ArgNo
  <1>4. \A k \in DOMAIN Uses(P, i) \cap DOMAIN P.fn[g].args :
            In(P, C, f, Uses(P, i)[k]) <=> In(P, C, g, P.fn[g].args[k])
    BY CallClosed
  <1>q. QED
    BY <1>1, <1>3, <1>4

LEMMA CallEnterReached ==
    ASSUME SdaInv, NEW C, Closed(prog, C), Reached(prog, C), CallEnter
    PROVE  After(C)
  <1>0. PICK i \in Insts :
          /\ AtCall(i) /\ ~IsKnown(i, CstIn(i))
          /\ m_Func2Fsda' = GetFlda(WithCst(i), i.callee)
          /\ stack' = Append(SetTop([Top EXCEPT !.bits = Bits, !.before = Cardinality(m_InstSet)]),
                             Frame(i.callee, CstIn(i)))
    BY DEF CallEnter
  <1> DEFINE f == Top.fn
             fr == [Top EXCEPT !.bits = Bits, !.before = Cardinality(m_InstSet)]
             to == Frame(i.callee, CstIn(i))
             st == SetTop(fr)
  <1>1. /\ AtInst(i) /\ AtDecoded(i) /\ IsCall(i) /\ i.callee \in DOMAIN prog.fn \cup {NoFunc}
        /\ m_EqualVal' = EqualProcess(i)
    BY <1>0, AtCallFacts DEF AtCall
  <1>2. /\ prog # NoProgram /\ WellFormed(prog) /\ stack # <<>> /\ f \in Defined(prog)
        /\ i \in Body(prog, f) /\ i \in AllInsts(prog) /\ Frames(m_Func2Fsda, stack)
        /\ Bits # {} => Hit(prog, C, f, i)
        /\ FrameOk(prog, C, Top) /\ IsFrame(Top) /\ i = prog.fn[f].body[Top.pc]
    BY <1>1, AtInstReached
  <1>3. i.callee \in Defined(prog)
    BY <1>0, <1>1 DEF IsKnown, Defined, Fn
  <1>4. /\ SummariesOk(prog, C, WithCst(i)) /\ DOMAIN WithCst(i) = DOMAIN m_Func2Fsda
        /\ Given(prog, C, f, i, CstIn(i))
    BY <1>1, WithCstReached
  <1>5. FrameOk(prog, C, to) /\ to.fn = i.callee /\ to.in = CstIn(i)
    <2>1. GoesIn(prog, C, i.callee, CstIn(i))
      BY <1>1, <1>2, <1>3, <1>4, GivenGoesIn
    <2>q. QED
      BY <2>1, NewFrameOk
  <1>6. /\ fr.fn = f /\ fr.in = Top.in /\ fr.out = Top.out /\ fr.lex = Top.lex /\ fr.pc = Top.pc
        /\ fr.bits = Bits
    BY <1>2 DEF IsFrame
  <1>7. stack' = Append(st, to)
    BY <1>0
  <1> HIDE DEF fr, to
  <1>8. FrameOk(prog, C, fr)
    BY <1>2, <1>6 DEF FrameOk
  <1>9. Pending(prog, C, fr, to)
    BY <1>2, <1>4, <1>5, <1>6 DEF Pending
  <1>10. StackOk(prog, C, m_CurEntry, st) /\ Len(st) = Len(stack) /\ st[Len(st)] = fr
    BY <1>2, <1>6, <1>8, SetTopReached
  <1>11. IsSeq(st) /\ st # <<>>
    <2>1. Len(stack) \in Nat \ {0} /\ stack \in Seq(Range(stack) \cup {fr})
      BY <1>2, TopFrame, SeqMonotonic DEF Frames, IsSeq
    <2>2. st \in Seq(Range(stack) \cup {fr})
      BY <2>1, ExceptSeq DEF SetTop
    <2> HIDE DEF st
    <2>q. QED
      BY <1>10, <2>1, <2>2, SeqIsSeq, SeqFacts
  <1> HIDE DEF st
  <1>12. StackOk(prog, C, m_CurEntry, stack')
    BY <1>5, <1>7, <1>9, <1>10, <1>11, StackPush
  <1>13. SummariesOk(prog, C, m_Func2Fsda') /\ DOMAIN m_Func2Fsda \subseteq DOMAIN m_Func2Fsda'
    BY <1>0, <1>4, GetFldaOk
  <1>14. SelectedOk(prog, C, DOMAIN m_Func2Fsda', m_InstSet)
    BY <1>13, SelectedMore DEF Reached
  <1>15. EqualOk(prog, m_EqualVal') /\ AliasOk(prog, C, m_GlvAlias')
    BY <1>1, <1>2, EqualOkProcess, UseGlobalsReached DEF Reached
  <1>q. QED
    BY <1>12, <1>13, <1>14, <1>15 DEF CallEnter, After, Reached, entries

LEMMA EndForwardReached ==
    ASSUME SdaInv, NEW C, Closed(prog, C), Reached(prog, C), EndForward
    PROVE  After(C)
  <1> DEFINE to == [Top EXCEPT !.back = TRUE, !.pc = @ - 1, !.fw = Cardinality(m_InstSet)]
             n == Top.pc - 1
             F == [m_Func2Fsda EXCEPT ![Top.fn].instNum = n]
  <1>1. stack # <<>> /\ stack' = SetTop(to) /\ m_Func2Fsda' = F
    BY DEF EndForward
  <1>2. Frames(m_Func2Fsda, stack) /\ IsFsdaMap(m_Func2Fsda) /\ Top.fn \in DOMAIN m_Func2Fsda /\ IsFrame(Top)
    BY <1>1, StackFacts DEF Records
  <1>3. FrameOk(prog, C, Top)
    BY <1>1, <1>2, TopFrameOk DEF Reached, Top
  <1>4. to.fn = Top.fn /\ to.in = Top.in /\ to.out = Top.out /\ to.lex = Top.lex
    BY <1>2 DEF IsFrame
  <1> HIDE DEF to
  <1>5. StackOk(prog, C, m_CurEntry, stack')
    BY <1>1, <1>3, <1>4, SetTopReached DEF FrameOk
  <1>6. SummariesOk(prog, C, F) /\ DOMAIN F = DOMAIN m_Func2Fsda
    <2> HIDE DEF n
    <2>1. DOMAIN F = DOMAIN m_Func2Fsda /\ \A g \in DOMAIN m_Func2Fsda : SameSummary(m_Func2Fsda[g], F[g])
      BY <1>2, InstNumSame
    <2> HIDE DEF F
    <2>2. SummariesOk(prog, C, F)
      BY <2>1, SummariesSame DEF Reached
    <2>q. QED
      BY <2>1, <2>2
  <1>q. QED
    BY <1>1, <1>5, <1>6 DEF EndForward, After, Reached, entries, globals

LEMMA BackInstReached ==
    ASSUME SdaInv, NEW C, Closed(prog, C), Reached(prog, C), BackInst
    PROVE  After(C)
  <1> DEFINE i == Inst
             f == Top.fn
             uses == Range(Uses(prog, i))
             hit == i.op \in {"load", "store", "gep", "bitcast"} /\ GetDef(i) \in Top.lex
             step == [Top EXCEPT !.pc = @ - 1]
             more == CheckOutArgTaint(f, uses)
             to == [step EXCEPT !.lex = @ \cup uses, !.out = @ \cup more]
  <1>1. /\ stack # <<>> /\ Top.back /\ Top.pc > 1
        /\ \/ hit /\ stack' = SetTop(to)
           \/ stack' = SetTop(step)
        /\ \/ hit /\ Select(i, 0)
           \/ UNCHANGED <<m_InstSet, m_Func2Fsda>>
    BY DEF BackInst
  <1>2. /\ WellFormed(prog) /\ Frames(m_Func2Fsda, stack) /\ f \in Defined(prog) /\ IsFrame(Top)
        /\ Top.pc \in DOMAIN prog.fn[f].body /\ i = prog.fn[f].body[Top.pc]
    BY <1>1, StackFacts DEF InFunction, Inst, Fn
  <1>3. i \in Body(prog, f) /\ i \in AllInsts(prog)
    BY <1>2, BodyAt, BodyInsts
  <1>4. FrameOk(prog, C, Top)
    BY <1>1, <1>2, TopFrameOk DEF Reached, Top
  <1>5. hit => Hit(prog, C, f, i)
    <2> SUFFICES ASSUME hit
                 PROVE  Hit(prog, C, f, i)
      OBVIOUS
    <2>1. GetDef(i) # NoValue
      <3>1. i.v # NoValue /\ (i.op = "store" => i.ops[2] # NoValue)
        BY <1>2, <1>3 DEF WellFormed
      <3>2. GetDef(i) = IF i.op = "store" THEN i.ops[2] ELSE i.v
        BY DEF GetDef, IsCall, Computes
      <3>q. QED
        BY <3>1, <3>2
    <2>2. In(prog, C, f, GetDef(i))
      BY <1>4 DEF FrameOk, AllIn
    <2>q. QED
      BY <2>1, <2>2, TouchedHits
  <1>6. hit => AllIn(prog, C, f, uses)
    BY <1>2, <1>3, <1>5, TouchesClosed
  <1>7. hit => \A b \in more : BitIn(prog, C, f, b)
    BY <1>6, CheckOutArgTaintIn
  <1>8. /\ step.fn = f /\ step.in = Top.in /\ step.out = Top.out /\ step.lex = Top.lex
        /\ to.fn = f /\ to.in = Top.in /\ to.out = Top.out \cup more /\ to.lex = Top.lex \cup uses
    <2>1. /\ IsFrame(step) /\ step.fn = f /\ step.in = Top.in /\ step.out = Top.out
          /\ step.lex = Top.lex
      BY <1>2 DEF IsFrame
    <2> HIDE DEF step, more, uses
    <2>2. to.fn = step.fn /\ to.in = step.in /\ to.out = step.out \cup more /\ to.lex = step.lex \cup uses
      BY <2>1 DEF IsFrame
    <2>q. QED
      BY <2>1, <2>2
  <1> HIDE DEF i, step, to, uses, more, hit
  <1>9. FrameOk(prog, C, step) /\ (hit => FrameOk(prog, C, to))
    <2>1. FrameOk(prog, C, step)
      BY <1>4, <1>8 DEF FrameOk
    <2>2. hit => FrameOk(prog, C, to)
      BY <1>4, <1>6, <1>7, <1>8 DEF FrameOk, ComesOut, AllIn
    <2>q. QED
      BY <2>1, <2>2
  <1>10. StackOk(prog, C, m_CurEntry, stack')
    BY <1>1, <1>8, <1>9, SetTopReached
  <1>11. SummariesOk(prog, C, m_Func2Fsda') /\ SelectedOk(prog, C, DOMAIN m_Func2Fsda', m_InstSet')
    <2>1. CASE UNCHANGED <<m_InstSet, m_Func2Fsda>>
      BY <2>1 DEF Reached
    <2>2. CASE hit /\ Select(i, 0)
      BY <1>1, <1>2, <1>5, <2>2, SelectReached
    <2>q. QED
      BY <1>1, <2>1, <2>2
  <1>q. QED
    BY <1>10, <1>11 DEF BackInst, After, Reached, entries, globals

LEMMA AgainReached ==
    ASSUME SdaInv, NEW C, Closed(prog, C), Reached(prog, C), Again
    PROVE  After(C)
  <1> DEFINE to == [Top EXCEPT !.back = FALSE, !.pc = 1, !.lex = InitCriterions(Top.fn, Top.out, @)]
  <1>1. stack # <<>> /\ stack' = SetTop(to)
    BY DEF Again, EndBackward
  <1>2. /\ WellFormed(prog) /\ Frames(m_Func2Fsda, stack) /\ Top.fn \in Defined(prog) /\ IsFrame(Top)
    BY <1>1, StackFacts
  <1>3. FrameOk(prog, C, Top)
    BY <1>1, <1>2, TopFrameOk DEF Reached, Top
  <1>4. /\ to.fn = Top.fn /\ to.in = Top.in /\ to.out = Top.out
        /\ to.lex = InitCriterions(Top.fn, Top.out, Top.lex)
    BY <1>2 DEF IsFrame
  <1>5. GoesIn(prog, C, Top.fn, Top.out)
    BY <1>2, <1>3, GoesInComesOut DEF FrameOk
  <1>6. AllIn(prog, C, Top.fn, to.lex)
    BY <1>3, <1>4, <1>5, InitCriterionsIn DEF FrameOk
  <1> HIDE DEF to
  <1>7. StackOk(prog, C, m_CurEntry, stack')
    BY <1>1, <1>3, <1>4, <1>6, SetTopReached DEF FrameOk
  <1>q. QED
    BY <1>7 DEF Again, After, Reached, entries, globals

\* No call is at work.
LEMMA NoStackOk ==
    ASSUME NEW P, NEW C, NEW cur
    PROVE  StackOk(P, C, cur, <<>>)
  BY DEF StackOk

LEMMA ReturnReached ==
    ASSUME SdaInv, NEW C, Closed(prog, C), Reached(prog, C), Return
    PROVE  After(C)
  <1> DEFINE F == UpdateSdsCache(m_Func2Fsda, Top.fn, Top.in, Top.out)
             st == SubSeq(stack, 1, Len(stack) - 1)
             to == Last(st)
             i == Fn(to.fn).body[to.pc]
  <1>1. /\ stack # <<>>
        /\ \/ st = <<>> /\ EndEntry(m_CurEntry, Top.out) /\ stack' = st /\ m_Func2Fsda' = F
              /\ UNCHANGED <<m_GlvLexset, m_InstSet>>
           \/ st # <<>> /\ FinishCall(F, st, i, to.bits, to.before, Top.out)
              /\ UNCHANGED m_EntryTaintBits
        /\ UNCHANGED <<m_GlvAlias, m_EqualVal, m_CurEntry>>
    BY DEF Return, EndBackward
  <1>2. /\ prog # NoProgram /\ WellFormed(prog) /\ Frames(m_Func2Fsda, stack) /\ IsFsdaMap(m_Func2Fsda)
        /\ Top.fn \in DOMAIN m_Func2Fsda /\ Top.fn \in Defined(prog)
    BY <1>1, StackFacts DEF Records
  <1>3. /\ EqualOk(prog, m_EqualVal) /\ AliasOk(prog, C, m_GlvAlias) /\ LexOk(prog, C, m_GlvLexset)
        /\ EntriesOk(prog, C, m_EntryTaintBits) /\ SummariesOk(prog, C, m_Func2Fsda)
        /\ StackOk(prog, C, m_CurEntry, stack)
        /\ SelectedOk(prog, C, DOMAIN m_Func2Fsda, m_InstSet)
    BY DEF Reached
  <1>4. FrameOk(prog, C, Top)
    BY <1>1, <1>2, <1>3, TopFrameOk DEF Top
  <1>5. /\ SummariesOk(prog, C, F) /\ DOMAIN F = DOMAIN m_Func2Fsda /\ IsFsdaMap(F)
    <2>1. SummariesOk(prog, C, F) /\ DOMAIN F = DOMAIN m_Func2Fsda
      BY <1>2, <1>3, <1>4, CacheChange DEF FrameOk
    <2>2. \E c : F = [m_Func2Fsda EXCEPT ![Top.fn].cache = c]
      BY DEF UpdateSdsCache
    <2> HIDE DEF F
    <2>q. QED
      BY <1>2, <2>1, <2>2, CacheKept DEF Kept
  <1> HIDE DEF F
  <1>6. /\ StackOk(prog, C, m_CurEntry, st)
        /\ st # <<>> => Pending(prog, C, st[Len(st)], Top)
    BY <1>1, <1>2, <1>3, StackPop DEF Top
  <1>7. Frames(F, st) /\ (st # <<>> => Waiting(st[Len(st)]))
    <2>1. Frames(F, stack)
      BY <1>2, <1>5 DEF Frames
    <2>q. QED
      BY <1>1, <2>1, PopFrames
  <1>8. CASE st = <<>> /\ EndEntry(m_CurEntry, Top.out) /\ stack' = st /\ m_Func2Fsda' = F
             /\ UNCHANGED <<m_GlvLexset, m_InstSet>>
    <2>1. Top.fn = m_CurEntry /\ EntryIn(prog, C, m_CurEntry, Top.in)
      <3>1. Len(stack) \in Nat \ {0} /\ stack \in Seq(Range(stack))
        BY <1>1, <1>2, TopFrame DEF Frames, IsSeq
      <3>2. Len(st) = Len(stack) - 1
        <4> DEFINE n == Len(stack)
        <4> HIDE DEF n
        <4>1. 1 \in 1 .. n + 1 /\ n - 1 \in 1 - 1 .. n /\ n - 1 - 1 + 1 = n - 1
          BY <3>1 DEF n
        <4>q. QED
          BY <3>1, <4>1, SubSeqProperties DEF n
      <3>3. Len(stack) = 1
        <4>1. Len(st) = 0
          <5> HIDE DEF st
          <5>q. QED
            BY <1>8
        <4> HIDE DEF st
        <4>q. QED
          BY <3>1, <3>2, <4>1
      <3>q. QED
        BY <1>1, <1>3, <3>3 DEF StackOk, Top
    <2>2. EntryIn(prog, C, m_CurEntry, Top.out)
      BY <1>2, <1>4, <2>1, EntryComesOut DEF FrameOk
    <2>3. EntriesOk(prog, C, m_EntryTaintBits')
      BY <1>3, <1>8, <2>2 DEF EndEntry, EntriesOk, Put
    <2> HIDE DEF st
    <2>4. StackOk(prog, C, m_CurEntry', stack')
      BY <1>8, NoStackOk
    <2>q. QED
      BY <1>1, <1>3, <1>5, <1>8, <2>3, <2>4 DEF After
  <1>9. CASE st # <<>> /\ FinishCall(F, st, i, to.bits, to.before, Top.out)
             /\ UNCHANGED m_EntryTaintBits
    <2>1. to = st[Len(st)] /\ to.fn \in Defined(prog)
      BY <1>5, <1>7, <1>9, TopFrame DEF InFunction
    <2>2. StandsAt(st, to, i) /\ IsCall(i)
      BY <1>7, <1>9, <2>1 DEF StandsAt, Waiting, Fn
    <2>3. i \in Body(prog, to.fn)
      BY <2>2, BodyAt DEF StandsAt
    <2>4. i.callee = Top.fn /\ Given(prog, C, to.fn, i, Top.in)
      BY <1>6, <1>9, <2>1 DEF Pending, Fn
    <2>5. Answers(prog, C, to.fn, i, Top.out)
      BY <1>2, <1>4, <2>1, <2>2, <2>3, <2>4, SummaryAnswers DEF FrameOk
    <2>6. IsCall(i) /\ i.callee \in DOMAIN F
      BY <1>2, <1>5, <2>2, <2>4
    <2>7. SelectedOk(prog, C, DOMAIN F, m_InstSet)
      BY <1>3, <1>5
    <2> HIDE DEF st, to, i
    <2>8. /\ LexOk(prog, C, m_GlvLexset') /\ SummariesOk(prog, C, m_Func2Fsda')
          /\ StackOk(prog, C, m_CurEntry, stack')
          /\ SelectedOk(prog, C, DOMAIN m_Func2Fsda', m_InstSet')
      BY <1>2, <1>3, <1>5, <1>6, <1>7, <1>9, <2>2, <2>5, <2>6, <2>7, FinishCallReached
    <2>q. QED
      BY <1>1, <1>3, <1>9, <2>8 DEF After
  <1>q. QED
    BY <1>1, <1>8, <1>9

LEMMA DropEntryReached ==
    ASSUME SdaInv, NEW C, Closed(prog, C), Reached(prog, C), DropEntry
    PROVE  After(C)
  <1>1. stack = <<>> /\ stack' = <<>>
    BY DEF DropEntry, Dequeue
  <1>2. StackOk(prog, C, m_CurEntry', stack')
    BY <1>1, NoStackOk
  <1>q. QED
    BY <1>2 DEF DropEntry, After, Reached, globals

LEMMA RunEntryCachedReached ==
    ASSUME SdaInv, NEW C, Closed(prog, C), Reached(prog, C), RunEntryCached
    PROVE  After(C)
  <1>0. PICK f : Dequeue(f) /\ EndEntry(f, Cached(f, GetEntryTaintbits(f)))
    BY DEF RunEntryCached
  <1>1. prog # NoProgram /\ WellFormed(prog) /\ f \in Defined(prog) /\ stack = <<>>
    BY <1>0, DequeueFacts
  <1>2. EntryIn(prog, C, f, GetEntryTaintbits(f))
    BY <1>1, GetEntryTaintbitsIn DEF Reached
  <1>3. ComesOut(prog, C, f, GetEntryTaintbits(f), Cached(f, GetEntryTaintbits(f)))
    BY CachedComesOut DEF Reached
  <1>4. EntryIn(prog, C, f, Cached(f, GetEntryTaintbits(f)))
    BY <1>1, <1>2, <1>3, EntryComesOut
  <1>5. EntriesOk(prog, C, m_EntryTaintBits')
    BY <1>0, <1>4 DEF EndEntry, EntriesOk, Put, Reached
  <1>6. StackOk(prog, C, m_CurEntry', stack')
    BY <1>1, NoStackOk DEF RunEntryCached
  <1>q. QED
    BY <1>5, <1>6 DEF RunEntryCached, After, Reached, globals

LEMMA RunEntryReached ==
    ASSUME SdaInv, NEW C, Closed(prog, C), Reached(prog, C), RunEntry
    PROVE  After(C)
  <1>0. PICK f : /\ Dequeue(f) /\ stack' = <<Frame(f, GetEntryTaintbits(f))>>
                 /\ m_Func2Fsda' = GetFlda(m_Func2Fsda, f)
    BY DEF RunEntry
  <1> DEFINE in == GetEntryTaintbits(f)
             fr == Frame(f, in)
  <1>1. prog # NoProgram /\ WellFormed(prog) /\ f \in Defined(prog) /\ m_CurEntry' = f
    BY <1>0, DequeueFacts
  <1>2. EntryIn(prog, C, f, in)
    BY <1>1, GetEntryTaintbitsIn DEF Reached
  <1>3. FrameOk(prog, C, fr) /\ fr.fn = f /\ fr.in = in
    BY <1>2, NewFrameOk DEF EntryIn
  <1> HIDE DEF fr, in
  <1>4. StackOk(prog, C, f, <<fr>>)
    BY <1>2, <1>3 DEF StackOk
  <1>5. StackOk(prog, C, m_CurEntry', stack')
    BY <1>0, <1>1, <1>4 DEF fr, in
  <1>6. SummariesOk(prog, C, m_Func2Fsda') /\ DOMAIN m_Func2Fsda \subseteq DOMAIN m_Func2Fsda'
    BY <1>0, GetFldaOk DEF Reached
  <1>7. SelectedOk(prog, C, DOMAIN m_Func2Fsda', m_InstSet)
    BY <1>6, SelectedMore DEF Reached
  <1>q. QED
    BY <1>5, <1>6, <1>7 DEF RunEntry, After, Reached, globals

\* The aliases a program begins with.
LEMMA InitGlvOk ==
    ASSUME NEW P, NEW C, Closed(P, C)
    PROVE  AliasOk(P, C, InitGlv(P))
  <1> DEFINE alias == InitGlv(P)
             thrc == {i \in AllInsts(P) : IsCall(i) /\ IsThreadCrt(i.callee)}
             shared(i) == {i.ops[4]} \cup Range(P.fn[i.ops[3]].args)
             later(i) == UNION {{b[n] : n \in {k \in DOMAIN b : \E m \in 1 .. k - 1 : b[m] = i}} :
                                   b \in {P.fn[f].body : f \in DOMAIN P.fn}}
             last(v) == {i \in thrc : v \in shared(i) /\ \A j \in thrc \cap later(i) : v \notin shared(j)}
             S == P.global \cup UNION {shared(i) : i \in thrc}
             given(v) == CHOOSE i \in last(v) : TRUE
  <1>1. \A v \in DOMAIN alias : alias[v] \in DOMAIN alias
    <2>1. CASE P.disGlobal
      BY <2>1 DEF InitGlv
    <2>2. CASE ~P.disGlobal
      <3>1. alias = [v \in S |-> IF last(v) = {} THEN v ELSE given(v).ops[4]]
        BY <2>2, Zenon DEF InitGlv
      <3>2. \A v : last(v) # {} => given(v) \in last(v)
        OBVIOUS
      <3>3. \A v : last(v) # {} => given(v) \in thrc /\ given(v).ops[4] \in shared(given(v))
        BY <3>2
      <3> HIDE DEF alias, given, last, shared, thrc
      <3>q. QED
        BY <3>1, <3>3
    <2>q. QED
      BY <2>1, <2>2
  <1>2. \A v \in DOMAIN alias : ~IsLocal(P, v)
    BY DEF IsLocal
  <1>3. ASSUME NEW v \in DOMAIN alias
        PROVE  In(P, C, NoFunc, v) <=> In(P, C, NoFunc, alias[v])
    <2> DEFINE x == Node(P, NoFunc, v)
               y == Node(P, NoFunc, alias[v])
    <2>1. {x, y} \in Links(P)
      BY DEF Links
    <2> HIDE DEF x, y
    <2>2. x \in C <=> y \in C
      BY <2>1 DEF Closed
    <2>q. QED
      BY <2>2 DEF In, x, y
  <1> HIDE DEF alias
  <1>q. QED
    BY <1>1, <1>2, <1>3 DEF AliasOk, alias

LEMMA RunPassesReached ==
    ASSUME SdaInv, NEW C, RunPasses
    PROVE  ReachInv(C)'
  <1> DEFINE P == Head(todo)
  <1>1. /\ stack' = <<>> /\ todo # <<>> /\ prog' = P
        /\ m_EntryTaintBits' = [f \in Entries(P) |-> AddEntryBits(P, f)]
        /\ m_GlvAlias' = InitGlv(P) /\ m_GlvLexset' = {} /\ m_EqualVal' = <<>>
        /\ m_InstSet' = {} /\ m_Func2Fsda' = <<>>
    BY DEF RunPasses, SdaInv, TodoInv
  <1>2. P # NoProgram /\ WellFormed(P)
    BY <1>1, TailFacts DEF SdaInv, TodoInv
  <1> HIDE DEF P
  <1> SUFFICES ASSUME Closed(P, C)
               PROVE  /\ EqualOk(P, m_EqualVal') /\ AliasOk(P, C, m_GlvAlias')
                      /\ LexOk(P, C, m_GlvLexset') /\ EntriesOk(P, C, m_EntryTaintBits')
                      /\ SummariesOk(P, C, m_Func2Fsda') /\ StackOk(P, C, m_CurEntry', stack')
                      /\ SelectedOk(P, C, DOMAIN m_Func2Fsda', m_InstSet')
    BY <1>1 DEF ReachInv
  <1>3. EqualOk(P, m_EqualVal') /\ SummariesOk(P, C, m_Func2Fsda')
    BY <1>1 DEF EqualOk, SummariesOk
  <1>4. LexOk(P, C, m_GlvLexset') /\ SelectedOk(P, C, DOMAIN m_Func2Fsda', m_InstSet')
    BY <1>1 DEF LexOk, SelectedOk
  <1>5. AliasOk(P, C, m_GlvAlias') /\ StackOk(P, C, m_CurEntry', stack')
    BY <1>1, InitGlvOk, NoStackOk
  <1>6. ASSUME NEW e \in Entries(P)
        PROVE  EntryIn(P, C, e, AddEntryBits(P, e))
    <2>1. e \in Defined(P) /\ AllIn(P, C, e, Range(P.fn[e].args))
      BY OriginsClosed DEF Entries, GetLibEntry, GetAPIEntry
    <2>2. \A n \in DOMAIN P.fn[e].args :
              /\ In(P, C, e, P.fn[e].args[n])
              /\ Node(P, e, P.fn[e].args[n]) \in Arguments(P, e)
      BY <1>2, <2>1, ArgNumbers DEF AllIn, Arguments
    <2>3. GoesIn(P, C, e, AddEntryBits(P, e))
      BY <2>2 DEF GoesIn
    <2>4. AddEntryBits(P, e) # {} => ThreadLink(P, e) \cap C # {}
      BY <2>2 DEF AddEntryBits, ThreadLink, In
    <2>q. QED
      BY <2>3, <2>4 DEF EntryIn
  <1>7. EntriesOk(P, C, m_EntryTaintBits')
    BY <1>1, <1>6 DEF EntriesOk
  <1>q. QED
    BY <1>3, <1>4, <1>5, <1>7

LEMMA StepReached ==
    ASSUME SdaInv, NEW C, ReachInv(C), [Next]_vars
    PROVE  ReachInv(C)'
  <1>1. CASE RunPasses
    BY <1>1, RunPassesReached
  <1>2. CASE Dump
    BY <1>2 DEF Dump, ReachInv
  <1>3. CASE Forward
    <2> SUFFICES ASSUME Closed(prog, C), Reached(prog, C)
                 PROVE  After(C)
      <3>1. UNCHANGED prog
        BY <1>3 DEF Forward, SkipInst, SourceInst, PassInst, TaintRet, TaintInst, CreateThread,
                    CallKnown, CallEnter, EndForward
      <3>q. QED
        BY <3>1, ReachedStep
    <2>q. QED
      BY <1>3, SkipInstReached, SourceInstReached, PassInstReached, TaintRetReached,
         TaintInstReached, CreateThreadReached, CallKnownReached, CallEnterReached,
         EndForwardReached DEF Forward
  <1>4. CASE RunEntry \/ RunEntryCached \/ DropEntry \/ BackInst \/ Again \/ Return
    <2> SUFFICES ASSUME Closed(prog, C), Reached(prog, C)
                 PROVE  After(C)
      <3>1. UNCHANGED prog
        BY <1>4 DEF RunEntry, RunEntryCached, DropEntry, BackInst, Again, Return
      <3>q. QED
        BY <3>1, ReachedStep
    <2>q. QED
      BY <1>4, RunEntryReached, RunEntryCachedReached, DropEntryReached, BackInstReached,
         AgainReached, ReturnReached
  <1>5. CASE UNCHANGED vars
    BY <1>5 DEF vars, entries, globals, ReachInv
  <1>q. QED
    BY <1>1, <1>2, <1>3, <1>4, <1>5 DEF Next

\* For all programs, and whatever closed set of values holds the sources and the
\* entries' arguments: an instruction none of whose values is in it is selected only
\* as a call of a function that was gone through.
THEOREM NothingElseSelected == Spec => []OnlyConnected
  <1> DEFINE Inv == \A C : ReachInv(C)
  <1>1. Init => Inv
    BY DEF Init, ReachInv
  <1>2. SdaInv /\ Inv /\ [Next]_vars => Inv'
    BY StepReached
  <1>3. Inv => OnlyConnected
    <2> SUFFICES ASSUME Inv, Analysed, Closed(prog, Reach(prog)),
                        NEW f \in Defined(prog), NEW k \in DOMAIN prog.fn[f].body, SelectedIn(f, k)
                 PROVE  LET i == prog.fn[f].body[k]
                        IN  \/ Touches(prog, f, i) \cap Reach(prog) # {}
                            \/ IsCall(i) /\ i.callee \in DOMAIN m_Func2Fsda
      BY DEF OnlyConnected, Fn
    <2>1. SelectedOk(prog, Reach(prog), DOMAIN m_Func2Fsda, m_InstSet)
      BY DEF ReachInv, Analysed
    <2>q. QED
      BY <2>1 DEF SelectedOk, SelectedIn, Fn, Hit
  <1>4. Spec => []Inv
    <2> HIDE DEF Inv
    <2>q. QED
      BY <1>1, <1>2, SdaInvHolds, PTL DEF Spec
  <1>q. QED
    <2> HIDE DEF Inv
    <2>q. QED
      BY <1>3, <1>4, PTL
=============================================================================
