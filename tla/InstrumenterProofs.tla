------------------------- MODULE InstrumenterProofs -------------------------
(***************************************************************************)
(* Theorems about Instrumenter for any modules and selections.             *)
(***************************************************************************)
EXTENDS Instrumenter, SequenceTheorems, NaturalsInduction, WellFoundedInduction, TLAPS

(***************************************************************************)
(* What is reported in front of an instruction: Placed(f, m, k) when the   *)
(* first m instructions of f are visited, Whole(f, k) when all are.        *)
(***************************************************************************)
Events(f, s) == FlattenSeq([n \in DOMAIN s |-> Reported(f, s[n])])
Dues(f, s) == FlattenSeq([n \in DOMAIN s |-> Owed(f, s[n])])

Placed(f, m, k) ==
    FlattenSeq([j \in 1 .. m |-> IF InstrumentSite(f, j) = k THEN Owed(f, j) ELSE <<>>])
Whole(f, k) == IF CallTrace THEN Owed(f, k) ELSE Placed(f, Len(Fn(f).body), k)

\* Own(f, k): of them, what k itself is traced by. Pend(f, k): what is due to the
\* instructions before k in its block and not yet traced when a run comes to k.
Own(f, k) == IF CallTrace \/ Fn(f).body[k].op = "ret" THEN Owed(f, k) ELSE <<>>
IsPhi(f, k) == Fn(f).body[k].op = "phi"
Target(f, k) == IF IsPhi(f, k) THEN FirstNonPhi(f, Fn(f).body[k].bb) ELSE k
Pend(f, k) == IF CallTrace THEN <<>> ELSE Placed(f, k - 1, Target(f, k))

\* The values an event can be reported by.
Reports(f) ==
    IF CallTrace THEN {Name(i) : i \in Range(Fn(f).body)}
    ELSE IF f \in DOMAIN m_Fname2Flda
         THEN {GetEventID(f, k) : k \in DOMAIN Fn(f).body}
         ELSE {}
-----------------------------------------------------------------------------
(***************************************************************************)
(* The inductive invariant                                                 *)
(***************************************************************************)
ModuleOK == ValidModule(mod)

TodoOK ==
    /\ IsInjective(todo)
    /\ phase = "load" \/ CallTrace => m_Fname2Flda = <<>>
    /\ phase # "visit" \/ CallTrace => todo = <<>> /\ InstID = 0
    /\ InstID > 0 => todo # <<>> /\ IsVisited(Func)
    /\ phase = "load" => \A f \in DOMAIN code : \A k \in DOMAIN code[f] : code[f][k] = <<>>

\* Every element of s is reported by values of R, if at all.
IsSeq(s) == s \in Seq(Range(s))
Reportable(f, s, R) == IsSeq(s) /\ \A n \in DOMAIN s : Reported(f, s[n]) \in Seq(R)
HooksOK == \A f \in DOMAIN code : \A k \in DOMAIN code[f] : Reportable(f, code[f][k], Reports(f))

\* In front of every instruction stands what was placed there.
PlacedOK ==
    phase # "load" =>
        \A f \in DOMAIN code : \A k \in DOMAIN code[f] :
            Events(f, code[f][k]) = IF f \notin Range(todo) THEN Whole(f, k)
                                    ELSE IF InstID > 0 /\ f = Func THEN Placed(f, InstID - 1, k)
                                    ELSE <<>>

IsEntry(f, h) == h.id = EventId(f, "FENTRY", 0)
EntryOK ==
    phase = "visit" =>
        \A f \in DOMAIN code :
            IsVisited(f) /\ f \notin Range(todo) => code[f][1] # <<>> /\ IsEntry(f, code[f][1][1])

MainOK ==
    phase \in {"run", "end"} /\ "main" \in DOMAIN code =>
        /\ code["main"][1] # <<>> /\ code["main"][1][1].kind = "init"
        /\ IsVisited("main") => Len(code["main"][1]) > 1 /\ IsEntry("main", code["main"][1][2])
        /\ \A k \in DOMAIN code["main"] : <<"main", k>> \in Ends =>
                code["main"][k] # <<>> /\ Last(code["main"][k]).kind = "exit"

\* A run has traced what was due, but for what waits in front of the next instruction.
TracedOK ==
    phase = "run" =>
        IF IsPhi(fn, pc)
        THEN Events(fn, hooks) = <<>> /\ Dues(fn, executed) = Events(fn, trace) \o Pend(fn, pc)
        ELSE Dues(fn, executed) \o Own(fn, pc) = Events(fn, trace) \o Events(fn, hooks)

\* The hooks of the first instruction come first, and those of the one at work last.
OrderOK ==
    phase \in {"run", "end"} =>
        /\ executed = <<>> => pc = 1 /\ trace \o hooks = code[fn][1]
        /\ executed # <<>> => /\ Len(code[fn][1]) <= Len(trace)
                              /\ \A n \in DOMAIN code[fn][1] : trace[n] = code[fn][1][n]
        /\ code[fn][pc] # <<>> =>
              IF hooks # <<>> THEN Last(hooks) = Last(code[fn][pc])
              ELSE trace # <<>> /\ Last(trace) = Last(code[fn][pc])
        /\ phase = "end" => hooks = <<>> /\ executed # <<>> /\ Last(executed) = pc
                            /\ (At.op \in Leaves \cup {"ret"} \/ IsExit(At))

RunTypes ==
    /\ IsSeq(executed)
    /\ phase \in {"load", "visit"} => trace = <<>> /\ executed = <<>> /\ hooks = <<>>
    /\ phase \in {"run", "end"} =>
          Reportable(fn, hooks, Reports(fn)) /\ Reportable(fn, trace, Reports(fn))

IInv ==
    /\ ModuleOK /\ TypeOK /\ TodoOK /\ HooksOK /\ PlacedOK /\ EntryOK /\ MainOK
    /\ RunTypes /\ TracedOK /\ OrderOK /\ RunTraced
-----------------------------------------------------------------------------
(***************************************************************************)
(* Induction over numbers                                                  *)
(***************************************************************************)
LEMMA LeastMember ==
    ASSUME NEW S, S \subseteq Nat, S # {}
    PROVE  \E i \in S : \A j \in S : i <= j
  <1> DEFINE Less == {p \in Nat \X Nat : p[1] < p[2]}
  <1>1. OpToRel(<, Nat) = Less
    BY Zenon DEF OpToRel
  <1>2. IsWellFoundedOn(Less, Nat)
    BY <1>1, NatLessThanWellFounded
  <1>3. PICK i \in S : \A j \in S : <<j, i>> \notin Less
    <2> HIDE DEF Less
    <2>q. QED
      BY <1>2, WFMin
  <1>4. ASSUME NEW j \in S, ~(i <= j)
        PROVE  FALSE
    <2>1. <<j, i>> \in Nat \X Nat /\ j < i
      BY <1>4
    <2>2. <<j, i>> \in Less
      BY <2>1
    <2>q. QED
      BY <1>3, <2>2
  <1>q. QED
    BY <1>4

\* Induction up to n.
LEMMA UpTo ==
    ASSUME NEW n \in Nat, NEW G, 0 \in G, \A m \in 1 .. n : m - 1 \in G => m \in G
    PROVE  \A m \in 0 .. n : m \in G
  <1> DEFINE Bad == {m \in 0 .. n : m \notin G}
  <1> SUFFICES ASSUME Bad # {} PROVE FALSE
    OBVIOUS
  <1>1. Bad \subseteq Nat
    OBVIOUS
  <1> HIDE DEF Bad
  <1>2. PICK m \in Bad : \A j \in Bad : m <= j
    BY <1>1, LeastMember
  <1>3. m \in 0 .. n /\ m \notin G /\ m # 0
    BY <1>2 DEF Bad
  <1>4. m \in 1 .. n /\ m - 1 \in 0 .. n /\ ~(m <= m - 1)
    BY <1>3
  <1>5. m - 1 \in G
    BY <1>2, <1>4 DEF Bad
  <1>q. QED
    BY <1>3, <1>4, <1>5
-----------------------------------------------------------------------------
(***************************************************************************)
(* FlattenSeq: the empty sequence, one more element, empty elements        *)
(***************************************************************************)
IsFlat(f, s, n) == f = [i \in 1 .. n |-> IF i = 1 THEN s[i] ELSE f[i - 1] \o s[i]]

LEMMA FlatExists ==
    ASSUME NEW S, NEW s \in Seq(Seq(S)), NEW n \in 0 .. Len(s)
    PROVE  \E f : IsFlat(f, s, n)
  <1> DEFINE N == Len(s)
             G == {m \in 0 .. N : \E f : IsFlat(f, s, m)}
  <1>1. N \in Nat
    OBVIOUS
  <1>2. 0 \in G
    <2>1. IsFlat(<<>>, s, 0)
      BY DEF IsFlat
    <2>q. QED
      BY <1>1, <2>1
  <1> HIDE DEF N
  <1>3. ASSUME NEW m \in 1 .. N, m - 1 \in G PROVE m \in G
    <2>1. PICK f : IsFlat(f, s, m - 1)
      BY <1>3
    <2>2. PICK g : g = [i \in 1 .. m |-> IF i < m THEN f[i]
                                         ELSE IF m = 1 THEN s[m] ELSE f[m - 1] \o s[m]]
      OBVIOUS
    <2>3. /\ \A i \in 1 .. m - 1 : g[i] = f[i]
          /\ g[m] = IF m = 1 THEN s[m] ELSE f[m - 1] \o s[m]
      <3>1. m \in 1 .. m /\ ~(m < m) /\ \A i \in 1 .. m - 1 : i \in 1 .. m /\ i < m
        BY <1>1
      <3>q. QED
        BY <2>2, <3>1
    <2>4. ASSUME NEW i \in 1 .. m
          PROVE  g[i] = IF i = 1 THEN s[i] ELSE g[i - 1] \o s[i]
      <3>1. CASE i = m
        <4>1. m # 1 => m - 1 \in 1 .. m - 1
          BY <1>1
        <4>q. QED
          BY <2>3, <3>1, <4>1
      <3>2. CASE i # m
        <4>1. i \in 1 .. m - 1 /\ (i # 1 => i - 1 \in 1 .. m - 1)
          BY <1>1, <3>2
        <4>2. f[i] = IF i = 1 THEN s[i] ELSE f[i - 1] \o s[i]
          BY <2>1, <4>1 DEF IsFlat
        <4>q. QED
          BY <2>3, <4>1, <4>2
      <3>q. QED
        BY <3>1, <3>2
    <2>5. IsFlat(g, s, m)
      BY <2>2, <2>4 DEF IsFlat
    <2>6. m \in 0 .. N
      BY <1>1
    <2>q. QED
      BY <2>5, <2>6
  <1>4. n \in G
    <2> HIDE DEF G
    <2>1. n \in 0 .. N
      BY DEF N
    <2>q. QED
      BY <1>1, <1>2, <1>3, <2>1, UpTo
  <1>q. QED
    BY <1>4

LEMMA FlatDef ==
    ASSUME NEW S, NEW s \in Seq(Seq(S)), s # <<>>
    PROVE  \E f : IsFlat(f, s, Len(s)) /\ FlattenSeq(s) = f[Len(s)]
  <1> DEFINE f == CHOOSE g : IsFlat(g, s, Len(s))
  <1>1. \E g : IsFlat(g, s, Len(s))
    <2>1. Len(s) \in 0 .. Len(s)
      OBVIOUS
    <2>q. QED
      BY <2>1, FlatExists
  <1>2. IsFlat(f, s, Len(s))
    BY <1>1
  <1>3. Len(s) # 0
    OBVIOUS
  <1>4. FlattenSeq(s) = f[Len(s)]
    BY <1>3 DEF FlattenSeq, IsFlat
  <1>q. QED
    BY <1>2, <1>4

LEMMA FlatEmpty == FlattenSeq(<<>>) = <<>>
  BY DEF FlattenSeq

\* Two sequences that begin alike are flattened alike, as far as they do.
LEMMA FlatSame ==
    ASSUME NEW S, NEW s \in Seq(Seq(S)), NEW t \in Seq(Seq(S)), Len(s) <= Len(t),
           \A j \in 1 .. Len(s) : s[j] = t[j],
           NEW f, IsFlat(f, s, Len(s)), NEW g, IsFlat(g, t, Len(t))
    PROVE  \A j \in 1 .. Len(s) : f[j] = g[j] /\ f[j] \in Seq(S)
  <1> DEFINE n == Len(s)
             G == {m \in 0 .. n : m = 0 \/ (f[m] = g[m] /\ f[m] \in Seq(S))}
  <1>1. 0 \in G
    OBVIOUS
  <1>2. ASSUME NEW m \in 1 .. n, m - 1 \in G PROVE m \in G
    <2>1. m \in 1 .. Len(s) /\ m \in 1 .. Len(t) /\ s[m] \in Seq(S) /\ s[m] = t[m]
      OBVIOUS
    <2>2. f[m] = IF m = 1 THEN s[m] ELSE f[m - 1] \o s[m]
      BY <2>1 DEF IsFlat
    <2>3. g[m] = IF m = 1 THEN t[m] ELSE g[m - 1] \o t[m]
      BY <2>1 DEF IsFlat
    <2>4. f[m] = g[m] /\ f[m] \in Seq(S)
      <3>1. CASE m = 1
        BY <2>1, <2>2, <2>3, <3>1
      <3>2. CASE m # 1
        <4>1. f[m - 1] = g[m - 1] /\ f[m - 1] \in Seq(S)
          BY <1>2, <3>2
        <4>q. QED
          BY <2>1, <2>2, <2>3, <3>2, <4>1, ConcatProperties
      <3>q. QED
        BY <3>1, <3>2
    <2>q. QED
      BY <2>4
  <1>3. \A m \in 0 .. n : m \in G
    <2>1. n \in Nat
      OBVIOUS
    <2> HIDE DEF G, n
    <2>q. QED
      BY <1>1, <1>2, <2>1, UpTo
  <1>q. QED
    BY <1>3

LEMMA FlatType ==
    ASSUME NEW S, NEW s \in Seq(Seq(S))
    PROVE  FlattenSeq(s) \in Seq(S)
  <1>1. CASE s = <<>>
    <2>1. FlattenSeq(s) = <<>>
      BY <1>1, FlatEmpty
    <2>q. QED
      BY <2>1
  <1>2. CASE s # <<>>
    <2>1. PICK f : IsFlat(f, s, Len(s)) /\ FlattenSeq(s) = f[Len(s)]
      BY <1>2, FlatDef
    <2>2. /\ Len(s) \in Nat /\ Len(s) \in 1 .. Len(s) /\ Len(s) <= Len(s)
          /\ \A j \in 1 .. Len(s) : s[j] = s[j]
      BY <1>2
    <2>3. \A j \in 1 .. Len(s) : f[j] = f[j] /\ f[j] \in Seq(S)
      BY <2>1, <2>2, FlatSame
    <2>q. QED
      BY <2>1, <2>2, <2>3
  <1>q. QED
    BY <1>1, <1>2

\* One element more.
LEMMA FlatNext ==
    ASSUME NEW S, NEW s \in Seq(Seq(S)), NEW t \in Seq(Seq(S)),
           Len(t) = Len(s) + 1, \A j \in 1 .. Len(s) : t[j] = s[j]
    PROVE  FlattenSeq(t) = FlattenSeq(s) \o t[Len(t)]
  <1>1. Len(s) \in Nat /\ t # <<>> /\ Len(t) \in 1 .. Len(t) /\ t[Len(t)] \in Seq(S)
    OBVIOUS
  <1>2. PICK g : IsFlat(g, t, Len(t)) /\ FlattenSeq(t) = g[Len(t)]
    BY <1>1, FlatDef
  <1>3. g[Len(t)] = IF Len(t) = 1 THEN t[Len(t)] ELSE g[Len(t) - 1] \o t[Len(t)]
    BY <1>1, <1>2 DEF IsFlat
  <1>4. CASE s = <<>>
    <2>1. FlattenSeq(s) \o t[Len(t)] = t[Len(t)]
      BY <1>1, <1>4, FlatEmpty, ConcatEmptySeq
    <2>q. QED
      BY <1>2, <1>3, <1>4, <2>1
  <1>5. CASE s # <<>>
    <2>1. PICK f : IsFlat(f, s, Len(s)) /\ FlattenSeq(s) = f[Len(s)]
      BY <1>5, FlatDef
    <2>2. Len(s) \in 1 .. Len(s)
      BY <1>5
    <2>3. f[Len(s)] = g[Len(s)]
      <3>1. /\ Len(s) <= Len(s) /\ Len(s) <= Len(t)
            /\ \A j \in 1 .. Len(s) : s[j] = t[j]
        BY <1>1
      <3>2. \A j \in 1 .. Len(s) : f[j] = g[j] /\ f[j] \in Seq(S)
        BY <1>2, <2>1, <3>1, FlatSame
      <3>q. QED
        BY <2>2, <3>2
    <2>4. Len(t) # 1 /\ Len(t) - 1 = Len(s)
      BY <1>1, <1>5
    <2>q. QED
      BY <1>2, <1>3, <2>1, <2>3, <2>4
  <1>q. QED
    BY <1>4, <1>5

LEMMA FlatAppend ==
    ASSUME NEW S, NEW s \in Seq(Seq(S)), NEW x \in Seq(S)
    PROVE  FlattenSeq(Append(s, x)) = FlattenSeq(s) \o x
  <1>1. /\ Append(s, x) \in Seq(Seq(S)) /\ Len(Append(s, x)) = Len(s) + 1
        /\ \A j \in 1 .. Len(s) : Append(s, x)[j] = s[j]
        /\ Append(s, x)[Len(s) + 1] = x
    BY AppendProperties
  <1>q. QED
    BY <1>1, FlatNext

\* Empty elements at the end make no difference.
LEMMA FlatPadded ==
    ASSUME NEW S, NEW s \in Seq(Seq(S)), NEW t \in Seq(Seq(S)), Len(s) <= Len(t),
           \A j \in 1 .. Len(s) : t[j] = s[j],
           \A j \in Len(s) + 1 .. Len(t) : t[j] = <<>>
    PROVE  FlattenSeq(t) = FlattenSeq(s)
  <1> DEFINE k == Len(s)
             n == Len(t) - k
             Part(m) == SubSeq(t, 1, k + m)
             G == {m \in 0 .. n : FlattenSeq(Part(m)) = FlattenSeq(s)}
  <1>1. k \in Nat /\ n \in Nat /\ Len(t) = k + n
    OBVIOUS
  <1>2. ASSUME NEW m \in 0 .. n
        PROVE  /\ Part(m) \in Seq(Seq(S)) /\ Len(Part(m)) = k + m
               /\ \A j \in 1 .. k + m : Part(m)[j] = t[j]
    <2>1. k + m \in 0 .. Len(t) /\ 1 \in 1 .. k + m + 1
      BY <1>1
    <2>q. QED
      BY <1>1, <2>1, SubSeqProperties
  <1>3. 0 \in G
    <2>1. 0 \in 0 .. n /\ k + 0 = k
      BY <1>1
    <2>2. Part(0) = s
      BY <1>2, <2>1, SeqEqual
    <2>q. QED
      BY <2>1, <2>2
  <1>4. ASSUME NEW m \in 1 .. n, m - 1 \in G PROVE m \in G
    <2>1. m \in 0 .. n /\ m - 1 \in 0 .. n /\ k + m = k + (m - 1) + 1
          /\ k + m \in 1 .. k + m /\ k + m \in k + 1 .. Len(t)
      BY <1>1
    <2> HIDE DEF Part, k, n
    <2>2. FlattenSeq(Part(m)) = FlattenSeq(Part(m - 1)) \o Part(m)[k + m]
      <3>1. /\ Part(m) \in Seq(Seq(S)) /\ Part(m - 1) \in Seq(Seq(S))
            /\ Len(Part(m)) = k + m /\ Len(Part(m - 1)) = k + (m - 1)
        BY <1>2, <2>1
      <3>2. \A j \in 1 .. k + (m - 1) : Part(m)[j] = Part(m - 1)[j]
        BY <1>1, <1>2, <2>1
      <3>3. /\ Len(Part(m)) = Len(Part(m - 1)) + 1
            /\ \A j \in 1 .. Len(Part(m - 1)) : Part(m)[j] = Part(m - 1)[j]
        BY <2>1, <3>1, <3>2
      <3>4. FlattenSeq(Part(m)) = FlattenSeq(Part(m - 1)) \o Part(m)[Len(Part(m))]
        BY <3>1, <3>3, FlatNext
      <3>q. QED
        BY <3>1, <3>4
    <2>3. Part(m)[k + m] = <<>>
      BY <1>2, <2>1 DEF k
    <2>4. FlattenSeq(Part(m - 1)) \in Seq(S)
      BY <1>2, <2>1, FlatType
    <2>5. FlattenSeq(Part(m)) = FlattenSeq(s)
      BY <1>4, <2>2, <2>3, <2>4, ConcatEmptySeq
    <2>q. QED
      BY <2>1, <2>5
  <1>5. n \in G
    <2> HIDE DEF G, n
    <2>1. n \in 0 .. n
      BY <1>1
    <2>q. QED
      BY <1>1, <1>3, <1>4, <2>1, UpTo
  <1>6. Part(n) = t
    <2>1. n \in 0 .. n
      BY <1>1
    <2> HIDE DEF Part, n, k
    <2>q. QED
      BY <1>1, <1>2, <2>1, SeqEqual
  <1>q. QED
    BY <1>5, <1>6

LEMMA FlatNothing ==
    ASSUME NEW S, NEW t \in Seq(Seq(S)), \A j \in 1 .. Len(t) : t[j] = <<>>
    PROVE  FlattenSeq(t) = <<>>
  <1> DEFINE e == <<>>
  <1>1. /\ e \in Seq(Seq(S)) /\ Len(e) = 0 /\ FlattenSeq(e) = <<>>
        /\ Len(t) \in Nat
    BY FlatEmpty
  <1> HIDE DEF e
  <1>2. /\ Len(e) <= Len(t) /\ \A j \in 1 .. Len(e) : t[j] = e[j]
        /\ \A j \in Len(e) + 1 .. Len(t) : t[j] = <<>>
    BY <1>1
  <1>q. QED
    BY <1>1, <1>2, FlatPadded
-----------------------------------------------------------------------------
(***************************************************************************)
(* Blocks                                                                  *)
(***************************************************************************)
LEMMA BodyIs ==
    ASSUME NEW b, NEW succ, ValidBody(b, succ)
    PROVE  /\ Len(b) \in Nat /\ Len(b) > 0 /\ DOMAIN b = 1 .. Len(b) /\ 1 \in DOMAIN b
           /\ b[1].op # "phi" /\ Len(b) \in DOMAIN b /\ b[Len(b)].op \in Terminators
           /\ \A k \in DOMAIN b : b[k].op \notin Terminators =>
                 k < Len(b) /\ k + 1 \in DOMAIN b /\ b[k + 1].bb = b[k].bb
  <1>1. b \in Seq(Range(b)) /\ b # <<>> /\ b[1].op # "phi"
    BY DEF ValidBody
  <1>2. Len(b) \in Nat /\ Len(b) > 0 /\ DOMAIN b = 1 .. Len(b)
    BY <1>1
  <1>3. \A k \in DOMAIN b : b[k].op \in Terminators <=> (k = Len(b) \/ b[k + 1].bb # b[k].bb)
    BY DEF ValidBody
  <1> HIDE DEF Terminators
  <1>q. QED
    BY <1>1, <1>2, <1>3

\* Every instruction is followed by one that leaves its block.
LEMMA BlockEnds ==
    ASSUME NEW b, NEW succ, ValidBody(b, succ), NEW k \in DOMAIN b
    PROVE  \E l \in DOMAIN b : k <= l /\ b[l].op \in Terminators /\ b[l].bb = b[k].bb
  <1> DEFINE S == {l \in DOMAIN b : k <= l /\ b[l].op \in Terminators}
  <1>1. /\ Len(b) \in Nat /\ Len(b) > 0 /\ DOMAIN b = 1 .. Len(b) /\ k \in Nat /\ k <= Len(b)
        /\ b[Len(b)].op \in Terminators /\ Len(b) \in DOMAIN b
    BY BodyIs
  <1>2. \A j \in DOMAIN b : b[j].op \notin Terminators => j + 1 \in DOMAIN b /\ b[j + 1].bb = b[j].bb
    BY BodyIs
  <1> HIDE DEF Terminators
  <1>3. PICK l \in S : \A j \in S : l <= j
    <2>1. Len(b) \in S /\ S \subseteq Nat
      BY <1>1
    <2> HIDE DEF S
    <2>q. QED
      BY <2>1, LeastMember
  <1>4. l \in DOMAIN b /\ l \in Nat /\ k <= l /\ b[l].op \in Terminators
    BY <1>1, <1>3
  <1> DEFINE n == l - k
             G == {m \in 0 .. n : b[k + m].bb = b[k].bb}
  <1>5. n \in Nat /\ l = k + n
    BY <1>1, <1>4
  <1>6. 0 \in G
    BY <1>1, <1>5
  <1>7. ASSUME NEW m \in 1 .. n, m - 1 \in G PROVE m \in G
    <2>1. k + (m - 1) \in DOMAIN b /\ k + m = (k + (m - 1)) + 1 /\ k <= k + (m - 1) /\ ~(l <= k + (m - 1))
      BY <1>1, <1>4, <1>5
    <2>2. b[k + (m - 1)].op \notin Terminators
      BY <1>3, <2>1
    <2>q. QED
      BY <1>2, <1>7, <2>1, <2>2
  <1>8. n \in G
    <2> HIDE DEF G, n
    <2>1. n \in 0 .. n
      BY <1>5
    <2>q. QED
      BY <1>5, <1>6, <1>7, <2>1, UpTo
  <1>q. QED
    BY <1>4, <1>5, <1>8

\* Before a PHI there are only PHIs in its block.
LEMMA PhisFirst ==
    ASSUME NEW b, NEW succ, ValidBody(b, succ), NEW k \in DOMAIN b, NEW j \in DOMAIN b,
           j <= k, b[j].bb = b[k].bb, b[k].op = "phi"
    PROVE  \A l \in j .. k : b[l].op = "phi" /\ b[l].bb = b[k].bb
  <1>1. /\ Len(b) \in Nat /\ DOMAIN b = 1 .. Len(b) /\ k \in Nat /\ j \in Nat /\ 1 <= j /\ k <= Len(b)
    BY BodyIs
  <1>2. \A l \in j .. k : b[l].bb = b[k].bb
    BY DEF ValidBody
  <1>3. \A l \in 2 .. Len(b) : b[l].op = "phi" /\ b[l - 1].bb = b[l].bb => b[l - 1].op = "phi"
    BY DEF ValidBody
  <1> DEFINE n == k - j
             G == {m \in 0 .. n : b[k - m].op = "phi"}
  <1>4. n \in Nat
    BY <1>1
  <1>5. 0 \in G
    BY <1>1, <1>4
  <1>6. ASSUME NEW m \in 1 .. n, m - 1 \in G PROVE m \in G
    <2>1. /\ k - (m - 1) \in 2 .. Len(b) /\ k - (m - 1) - 1 = k - m
          /\ k - (m - 1) \in j .. k /\ k - m \in j .. k
      BY <1>1, <1>4
    <2>q. QED
      BY <1>2, <1>3, <1>6, <2>1
  <1>7. \A m \in 0 .. n : m \in G
    <2> HIDE DEF G, n
    <2>q. QED
      BY <1>4, <1>5, <1>6, UpTo
  <1>8. ASSUME NEW l \in j .. k PROVE b[l].op = "phi"
    <2>1. k - l \in 0 .. n /\ k - (k - l) = l
      BY <1>1
    <2>q. QED
      BY <1>7, <2>1
  <1>q. QED
    BY <1>2, <1>8

\* GetFirstNonPHI finds the instruction it is named for.
LEMMA FirstNonPhiIs ==
    ASSUME NEW f, NEW succ, ValidBody(Fn(f).body, succ), NEW k \in DOMAIN Fn(f).body
    PROVE  LET b == Fn(f).body
               p == FirstNonPhi(f, b[k].bb)
           IN  /\ p \in DOMAIN b /\ b[p].bb = b[k].bb /\ b[p].op # "phi"
               /\ \A j \in 1 .. p - 1 : b[j].bb = b[k].bb => b[j].op = "phi"
  <1> DEFINE b == Fn(f).body
             S == {l \in DOMAIN b : b[l].bb = b[k].bb /\ b[l].op # "phi"}
             First1(p) == /\ b[p].bb = b[k].bb /\ b[p].op # "phi"
                          /\ \A j \in 1 .. p - 1 : b[j].bb = b[k].bb => b[j].op = "phi"
  <1>1. Len(b) \in Nat /\ DOMAIN b = 1 .. Len(b)
    BY BodyIs
  <1>2. S # {} /\ S \subseteq Nat
    <2>1. PICK l \in DOMAIN b : b[l].op \in Terminators /\ b[l].bb = b[k].bb
      <3> HIDE DEF b
      <3>1. ValidBody(b, succ) /\ k \in DOMAIN b
        BY DEF b
      <3>q. QED
        BY <3>1, BlockEnds
    <2>2. b[l].op # "phi"
      BY <2>1 DEF Terminators, Branches, Leaves
    <2>q. QED
      BY <1>1, <2>1, <2>2
  <1>3. PICK p \in S : \A j \in S : p <= j
    <2> HIDE DEF S
    <2>q. QED
      BY <1>2, LeastMember
  <1> HIDE DEF b
  <1>4. p \in DOMAIN b /\ First1(p)
    <2>1. \A j \in 1 .. p - 1 : j \in DOMAIN b /\ ~(p <= j)
      BY <1>1, <1>3
    <2>q. QED
      BY <1>3, <2>1
  <1>5. FirstNonPhi(f, b[k].bb) = CHOOSE q \in DOMAIN b : First1(q)
    BY DEF FirstNonPhi, b
  <1> HIDE DEF First1
  <1>6. LET q == CHOOSE q \in DOMAIN b : First1(q) IN q \in DOMAIN b /\ First1(q)
    BY <1>4
  <1>7. FirstNonPhi(f, b[k].bb) \in DOMAIN b /\ First1(FirstNonPhi(f, b[k].bb))
    BY <1>5, <1>6
  <1>q. QED
    BY <1>7 DEF First1, b
-----------------------------------------------------------------------------
(***************************************************************************)
(* Sites                                                                   *)
(***************************************************************************)
\* Of an instruction that does not leave its block, the site is behind it, and only
\* PHIs are in between.
LEMMA SiteBehind ==
    ASSUME NEW f, NEW succ, ValidBody(Fn(f).body, succ), NEW j \in DOMAIN Fn(f).body,
           Fn(f).body[j].op \notin Terminators
    PROVE  LET b == Fn(f).body
               s == InstrumentSite(f, j)
           IN  /\ s \in DOMAIN b /\ j < s /\ b[s].bb = b[j].bb /\ b[s].op # "phi"
               /\ \A l \in j + 1 .. s - 1 : b[l].op = "phi"
               /\ b[j + 1].op = "phi" => s = FirstNonPhi(f, b[j].bb)
               /\ b[j + 1].op # "phi" => s = j + 1
  <1> DEFINE b == Fn(f).body
             s == InstrumentSite(f, j)
             p == FirstNonPhi(f, b[j].bb)
  <1>1. /\ Len(b) \in Nat /\ DOMAIN b = 1 .. Len(b) /\ j \in Nat /\ 1 <= j /\ j < Len(b)
        /\ j + 1 \in DOMAIN b /\ b[j + 1].bb = b[j].bb
    BY BodyIs
  <1>2. b[j].op # "ret"
    BY DEF Terminators
  <1>3. s = IF b[j + 1].op = "phi" THEN p ELSE j + 1
    BY <1>1, <1>2 DEF InstrumentSite
  <1>4. CASE b[j + 1].op = "phi"
    <2>1. /\ p \in DOMAIN b /\ b[p].bb = b[j].bb /\ b[p].op # "phi"
          /\ \A l \in 1 .. p - 1 : b[l].bb = b[j].bb => b[l].op = "phi"
      BY FirstNonPhiIs
    <2>2. j < p
      <3> SUFFICES ASSUME p <= j PROVE FALSE
        BY <1>1, <2>1
      <3>1. p <= j + 1 /\ p \in p .. j + 1 /\ b[p].bb = b[j + 1].bb
        BY <1>1, <2>1
      <3> HIDE DEF p, b
      <3>2. ValidBody(b, succ)
        BY DEF b
      <3>3. \A l \in p .. j + 1 : b[l].op = "phi" /\ b[l].bb = b[j + 1].bb
        BY <1>1, <1>4, <2>1, <3>1, <3>2, PhisFirst
      <3>q. QED
        BY <2>1, <3>1, <3>3
    <2>3. ASSUME NEW l \in j + 1 .. p - 1 PROVE b[l].op = "phi"
      <3>1. l \in j .. p /\ l \in 1 .. p - 1
        BY <1>1, <2>1, <2>2
      <3>2. b[l].bb = b[j].bb
        BY <2>1, <3>1 DEF ValidBody
      <3>q. QED
        BY <2>1, <3>1, <3>2
    <2>q. QED
      BY <1>3, <1>4, <2>1, <2>2, <2>3
  <1>5. CASE b[j + 1].op # "phi"
    BY <1>1, <1>3, <1>5
  <1>q. QED
    BY <1>4, <1>5

LEMMA SiteOfRet ==
    ASSUME NEW f, NEW j, Fn(f).body[j].op = "ret"
    PROVE  InstrumentSite(f, j) = j
  BY DEF InstrumentSite

\* No site is a PHI.
LEMMA SiteIs ==
    ASSUME NEW f, NEW succ, ValidBody(Fn(f).body, succ), NEW j \in DOMAIN Fn(f).body
    PROVE  InstrumentSite(f, j) \in DOMAIN Fn(f).body /\ ~IsPhi(f, InstrumentSite(f, j))
  <1> DEFINE b == Fn(f).body
             p == FirstNonPhi(f, b[j].bb)
  <1>1. /\ Len(b) \in Nat /\ DOMAIN b = 1 .. Len(b) /\ b[Len(b)].op \in Terminators /\ Len(b) \in DOMAIN b
    BY BodyIs
  <1>2. p \in DOMAIN b /\ b[p].op # "phi"
    BY FirstNonPhiIs
  <1>3. j # Len(b) => j + 1 \in DOMAIN b
    BY <1>1
  <1>q. QED
    BY <1>1, <1>2, <1>3 DEF InstrumentSite, IsPhi, Terminators, Branches, Leaves

\* A PHI is traced where the one behind it is, if that is a PHI, and else in front of it.
LEMMA PhiTarget ==
    ASSUME NEW f, NEW succ, ValidBody(Fn(f).body, succ), NEW k \in DOMAIN Fn(f).body,
           Fn(f).body[k].op \notin Terminators, IsPhi(f, k)
    PROVE  InstrumentSite(f, k) = Target(f, k) /\ Target(f, k + 1) = Target(f, k)
  <1> DEFINE b == Fn(f).body
             p == FirstNonPhi(f, b[k].bb)
  <1>1. /\ Len(b) \in Nat /\ DOMAIN b = 1 .. Len(b) /\ k \in Nat /\ 1 <= k
        /\ k + 1 \in DOMAIN b /\ b[k + 1].bb = b[k].bb /\ b[k].op = "phi"
    BY BodyIs DEF IsPhi
  <1>2. CASE b[k + 1].op = "phi"
    BY <1>1, <1>2, SiteBehind DEF Target, IsPhi
  <1>3. CASE b[k + 1].op # "phi"
    <2>1. InstrumentSite(f, k) = k + 1 /\ Target(f, k + 1) = k + 1 /\ Target(f, k) = p
      BY <1>1, <1>3, SiteBehind DEF Target, IsPhi
    <2>2. /\ p \in DOMAIN b /\ b[p].bb = b[k].bb /\ b[p].op # "phi"
          /\ \A l \in 1 .. p - 1 : b[l].bb = b[k].bb => b[l].op = "phi"
      BY FirstNonPhiIs
    <2>3. p <= k + 1
      <3> SUFFICES ASSUME ~(p <= k + 1) PROVE FALSE
        OBVIOUS
      <3>1. k + 1 \in 1 .. p - 1
        BY <1>1, <2>2
      <3>q. QED
        BY <1>1, <1>3, <2>2, <3>1
    <2>4. ~(p <= k)
      <3> SUFFICES ASSUME p <= k PROVE FALSE
        OBVIOUS
      <3>1. p \in p .. k
        BY <1>1, <2>2
      <3> HIDE DEF p, b
      <3>2. ValidBody(b, succ) /\ k \in DOMAIN b
        BY DEF b
      <3>3. \A l \in p .. k : b[l].op = "phi" /\ b[l].bb = b[k].bb
        BY <1>1, <2>2, <3>2, PhisFirst
      <3>q. QED
        BY <2>2, <3>1, <3>3
    <2>q. QED
      BY <1>1, <2>1, <2>2, <2>3, <2>4
  <1>q. QED
    BY <1>2, <1>3

LEMMA NoPhiBehind ==
    ASSUME NEW f, NEW succ, ValidBody(Fn(f).body, succ), NEW k \in DOMAIN Fn(f).body,
           Fn(f).body[k].op \notin Terminators, ~IsPhi(f, k)
    PROVE  ~IsPhi(f, k + 1) /\ InstrumentSite(f, k) = k + 1
  <1> DEFINE b == Fn(f).body
  <1>1. /\ Len(b) \in Nat /\ DOMAIN b = 1 .. Len(b) /\ k \in Nat /\ 1 <= k
        /\ k + 1 \in DOMAIN b /\ b[k + 1].bb = b[k].bb /\ b[k].op # "phi"
    BY BodyIs DEF IsPhi
  <1>2. k + 1 \in 2 .. Len(b) /\ k + 1 - 1 = k
    BY <1>1
  <1>3. b[k + 1].op # "phi"
    <2>1. \A l \in 2 .. Len(b) : b[l].op = "phi" /\ b[l - 1].bb = b[l].bb => b[l - 1].op = "phi"
      BY DEF ValidBody
    <2> HIDE DEF b
    <2>q. QED
      BY <1>1, <1>2, <2>1
  <1>q. QED
    BY <1>3, SiteBehind DEF IsPhi
-----------------------------------------------------------------------------
(***************************************************************************)
(* What is placed in front of an instruction                               *)
(***************************************************************************)
LEMMA OwedType ==
    ASSUME NEW f, NEW k \in DOMAIN Fn(f).body
    PROVE  Owed(f, k) \in Seq(Reports(f))
  <1>1. CallTrace => Name(Fn(f).body[k]) \in Reports(f)
    BY DEF Reports, Range
  <1>2. ~CallTrace /\ IsVisited(f) => GetEventID(f, k) \in Reports(f)
    BY DEF Reports, IsVisited
  <1>q. QED
    BY <1>1, <1>2 DEF Owed, Due

\* What is traced elsewhere than at the instruction itself does not leave a block.
LEMMA OwedOp ==
    ASSUME NEW f, NEW k \in DOMAIN Fn(f).body, ~CallTrace, Owed(f, k) # <<>>
    PROVE  Fn(f).body[k].op = "ret" \/ Fn(f).body[k].op \notin Terminators
  BY DEF Owed, Due, Terminators

Places1(f, m, k) == [j \in 1 .. m |-> IF InstrumentSite(f, j) = k THEN Owed(f, j) ELSE <<>>]

LEMMA PlacedIs ==
    ASSUME NEW f, NEW succ, ValidBody(Fn(f).body, succ), NEW m \in 0 .. Len(Fn(f).body), NEW k
    PROVE  /\ Places1(f, m, k) \in Seq(Seq(Reports(f))) /\ Len(Places1(f, m, k)) = m
           /\ \A j \in 1 .. m : Places1(f, m, k)[j] =
                 IF InstrumentSite(f, j) = k THEN Owed(f, j) ELSE <<>>
           /\ Placed(f, m, k) = FlattenSeq(Places1(f, m, k))
           /\ Placed(f, m, k) \in Seq(Reports(f))
  <1>1. Len(Fn(f).body) \in Nat /\ DOMAIN Fn(f).body = 1 .. Len(Fn(f).body)
    BY BodyIs
  <1>2. \A j \in 1 .. m : Owed(f, j) \in Seq(Reports(f))
    BY <1>1, OwedType
  <1>3. /\ Places1(f, m, k) \in Seq(Seq(Reports(f))) /\ Len(Places1(f, m, k)) = m
        /\ \A j \in 1 .. m : Places1(f, m, k)[j] =
                 IF InstrumentSite(f, j) = k THEN Owed(f, j) ELSE <<>>
    BY <1>1, <1>2 DEF Places1
  <1>4. Placed(f, m, k) = FlattenSeq(Places1(f, m, k))
    BY DEF Placed, Places1
  <1>q. QED
    BY <1>3, <1>4, FlatType

LEMMA PlacedNext ==
    ASSUME NEW f, NEW succ, ValidBody(Fn(f).body, succ), NEW m \in 1 .. Len(Fn(f).body), NEW k
    PROVE  Placed(f, m, k) =
              Placed(f, m - 1, k) \o (IF InstrumentSite(f, m) = k THEN Owed(f, m) ELSE <<>>)
  <1> DEFINE s == Places1(f, m - 1, k)
             t == Places1(f, m, k)
  <1>1. /\ Len(Fn(f).body) \in Nat /\ m - 1 \in 0 .. Len(Fn(f).body) /\ m \in 0 .. Len(Fn(f).body)
        /\ m = (m - 1) + 1 /\ m \in 1 .. m
    BY BodyIs
  <1>2. /\ s \in Seq(Seq(Reports(f))) /\ Len(s) = m - 1 /\ Placed(f, m - 1, k) = FlattenSeq(s)
        /\ \A j \in 1 .. m - 1 : s[j] = IF InstrumentSite(f, j) = k THEN Owed(f, j) ELSE <<>>
    BY <1>1, PlacedIs
  <1>3. /\ t \in Seq(Seq(Reports(f))) /\ Len(t) = m /\ Placed(f, m, k) = FlattenSeq(t)
        /\ \A j \in 1 .. m : t[j] = IF InstrumentSite(f, j) = k THEN Owed(f, j) ELSE <<>>
    BY <1>1, PlacedIs
  <1> HIDE DEF s, t
  <1>4. Len(t) = Len(s) + 1 /\ \A j \in 1 .. Len(s) : t[j] = s[j]
    BY <1>1, <1>2, <1>3
  <1>5. FlattenSeq(t) = FlattenSeq(s) \o t[Len(t)]
    BY <1>2, <1>3, <1>4, FlatNext
  <1>q. QED
    BY <1>1, <1>2, <1>3, <1>5

LEMMA PlacedPadded ==
    ASSUME NEW f, NEW succ, ValidBody(Fn(f).body, succ), NEW m \in 0 .. Len(Fn(f).body),
           NEW n \in 0 .. Len(Fn(f).body), m <= n, NEW k,
           \A j \in m + 1 .. n : InstrumentSite(f, j) = k => Owed(f, j) = <<>>
    PROVE  Placed(f, n, k) = Placed(f, m, k)
  <1> DEFINE s == Places1(f, m, k)
             t == Places1(f, n, k)
  <1>1. Len(Fn(f).body) \in Nat
    BY BodyIs
  <1>2. /\ s \in Seq(Seq(Reports(f))) /\ Len(s) = m /\ Placed(f, m, k) = FlattenSeq(s)
        /\ \A j \in 1 .. m : s[j] = IF InstrumentSite(f, j) = k THEN Owed(f, j) ELSE <<>>
    BY PlacedIs
  <1>3. /\ t \in Seq(Seq(Reports(f))) /\ Len(t) = n /\ Placed(f, n, k) = FlattenSeq(t)
        /\ \A j \in 1 .. n : t[j] = IF InstrumentSite(f, j) = k THEN Owed(f, j) ELSE <<>>
    BY PlacedIs
  <1> HIDE DEF s, t
  <1>4. /\ Len(s) <= Len(t) /\ \A j \in 1 .. Len(s) : t[j] = s[j]
        /\ \A j \in Len(s) + 1 .. Len(t) : t[j] = <<>>
    BY <1>1, <1>2, <1>3
  <1>q. QED
    BY <1>2, <1>3, <1>4, FlatPadded

LEMMA PlacedNothing ==
    ASSUME NEW f, NEW succ, ValidBody(Fn(f).body, succ), NEW n \in 0 .. Len(Fn(f).body), NEW k,
           \A j \in 1 .. n : InstrumentSite(f, j) = k => Owed(f, j) = <<>>
    PROVE  Placed(f, n, k) = <<>>
  <1> DEFINE t == Places1(f, n, k)
  <1>1. /\ t \in Seq(Seq(Reports(f))) /\ Len(t) = n /\ Placed(f, n, k) = FlattenSeq(t)
        /\ \A j \in 1 .. n : t[j] = IF InstrumentSite(f, j) = k THEN Owed(f, j) ELSE <<>>
    BY PlacedIs
  <1> HIDE DEF t
  <1>2. \A j \in 1 .. Len(t) : t[j] = <<>>
    BY <1>1
  <1>q. QED
    BY <1>1, <1>2, FlatNothing
-----------------------------------------------------------------------------
(***************************************************************************)
(* What a run finds due in front of an instruction                         *)
(***************************************************************************)
LEMMA PendType ==
    ASSUME NEW f, NEW succ, ValidBody(Fn(f).body, succ), NEW k \in DOMAIN Fn(f).body
    PROVE  /\ Pend(f, k) \in Seq(Reports(f)) /\ Own(f, k) \in Seq(Reports(f))
           /\ Whole(f, k) \in Seq(Reports(f))
  <1>1. /\ Len(Fn(f).body) \in Nat /\ DOMAIN Fn(f).body = 1 .. Len(Fn(f).body)
        /\ k - 1 \in 0 .. Len(Fn(f).body) /\ Len(Fn(f).body) \in 0 .. Len(Fn(f).body)
    BY BodyIs
  <1>2. /\ Placed(f, k - 1, Target(f, k)) \in Seq(Reports(f))
        /\ Placed(f, Len(Fn(f).body), k) \in Seq(Reports(f))
    BY <1>1, PlacedIs
  <1>3. Owed(f, k) \in Seq(Reports(f))
    BY OwedType
  <1>q. QED
    BY <1>2, <1>3 DEF Pend, Own, Whole

LEMMA WholeIs ==
    ASSUME NEW f, NEW succ, ValidBody(Fn(f).body, succ), NEW k \in DOMAIN Fn(f).body
    PROVE  /\ ~IsPhi(f, k) => Whole(f, k) = Pend(f, k) \o Own(f, k)
           /\ IsPhi(f, k) => Whole(f, k) = <<>>
  <1> DEFINE b == Fn(f).body
             n == Len(b)
  <1>1. /\ n \in Nat /\ DOMAIN b = 1 .. n /\ k \in 1 .. n /\ k \in 0 .. n /\ n \in 0 .. n
        /\ k - 1 \in 0 .. n /\ k <= n
    BY BodyIs
  <1>2. CASE CallTrace
    <2>1. Owed(f, k) \in Seq(Reports(f))
      BY OwedType
    <2>2. IsPhi(f, k) => Owed(f, k) = <<>>
      BY <1>2 DEF IsPhi, Owed, Due, IsCall
    <2>q. QED
      BY <1>2, <2>1, <2>2, ConcatEmptySeq DEF Whole, Pend, Own
  <1>3. CASE ~CallTrace
    <2>1. CASE IsPhi(f, k)
      <3>1. \A j \in 1 .. n : InstrumentSite(f, j) = k => Owed(f, j) = <<>>
        BY <1>1, <2>1, SiteIs
      <3>2. Placed(f, n, k) = <<>>
        BY <1>1, <3>1, PlacedNothing
      <3>q. QED
        BY <1>3, <2>1, <3>2 DEF Whole
    <2>2. CASE ~IsPhi(f, k)
      <3>1. \A j \in k + 1 .. n : InstrumentSite(f, j) = k => Owed(f, j) = <<>>
        <4> SUFFICES ASSUME NEW j \in k + 1 .. n, Owed(f, j) # <<>>
                     PROVE  InstrumentSite(f, j) # k
          OBVIOUS
        <4>1. j \in DOMAIN b /\ j \in Nat /\ k < j
          BY <1>1
        <4>2. CASE b[j].op = "ret"
          BY <1>1, <4>1, <4>2, SiteOfRet
        <4>3. CASE b[j].op \notin Terminators
          <5>1. j < InstrumentSite(f, j) /\ InstrumentSite(f, j) \in DOMAIN b
            BY <4>1, <4>3, SiteBehind
          <5>q. QED
            BY <1>1, <4>1, <5>1
        <4>q. QED
          BY <1>3, <4>1, <4>2, <4>3, OwedOp
      <3>2. Placed(f, n, k) = Placed(f, k, k)
        BY <1>1, <3>1, PlacedPadded
      <3>3. Placed(f, k, k) =
              Placed(f, k - 1, k) \o (IF InstrumentSite(f, k) = k THEN Owed(f, k) ELSE <<>>)
        BY <1>1, PlacedNext
      <3>4. (IF InstrumentSite(f, k) = k THEN Owed(f, k) ELSE <<>>) = Own(f, k)
        <4>1. CASE b[k].op = "ret"
          BY <4>1, SiteOfRet DEF Own
        <4>2. CASE b[k].op \notin Terminators
          <5>1. k < InstrumentSite(f, k) /\ b[k].op # "ret"
            BY <4>2, SiteBehind DEF Terminators
          <5>q. QED
            BY <1>1, <1>3, <5>1 DEF Own
        <4>3. CASE b[k].op \in Terminators /\ b[k].op # "ret"
          <5>1. Owed(f, k) = <<>>
            BY <1>3, <4>3, OwedOp
          <5>q. QED
            BY <5>1 DEF Own
        <4>q. QED
          BY <4>1, <4>2, <4>3
      <3>q. QED
        BY <1>3, <2>2, <3>2, <3>3, <3>4 DEF Whole, Pend, Target
    <2>q. QED
      BY <2>1, <2>2
  <1>q. QED
    BY <1>2, <1>3

LEMMA PendNext ==
    ASSUME NEW f, NEW succ, ValidBody(Fn(f).body, succ), NEW k \in DOMAIN Fn(f).body,
           Fn(f).body[k].op \notin Terminators
    PROVE  /\ IsPhi(f, k) => Pend(f, k + 1) = Pend(f, k) \o Owed(f, k)
           /\ ~IsPhi(f, k) => Own(f, k) \o Pend(f, k + 1) = Owed(f, k)
  <1> DEFINE b == Fn(f).body
             n == Len(b)
  <1>1. /\ n \in Nat /\ DOMAIN b = 1 .. n /\ k \in 1 .. n /\ k \in 0 .. n /\ k - 1 \in 0 .. n
        /\ k + 1 - 1 = k /\ k + 1 \in DOMAIN b
    BY BodyIs
  <1>2. Owed(f, k) \in Seq(Reports(f)) /\ b[k].op # "ret"
    BY OwedType DEF Terminators
  <1>3. CASE CallTrace
    <2>2. IsPhi(f, k) => Owed(f, k) = <<>>
      BY <1>3 DEF IsPhi, Owed, Due, IsCall
    <2>q. QED
      BY <1>2, <1>3, <2>2, ConcatEmptySeq DEF Pend, Own
  <1>4. CASE ~CallTrace
    <2>1. CASE IsPhi(f, k)
      <3>1. InstrumentSite(f, k) = Target(f, k) /\ Target(f, k + 1) = Target(f, k)
        BY <2>1, PhiTarget
      <3>2. Placed(f, k, Target(f, k)) = Placed(f, k - 1, Target(f, k)) \o Owed(f, k)
        BY <1>1, <3>1, PlacedNext
      <3>q. QED
        BY <1>1, <1>4, <2>1, <3>1, <3>2 DEF Pend
    <2>2. CASE ~IsPhi(f, k)
      <3>1. Target(f, k + 1) = k + 1 /\ InstrumentSite(f, k) = k + 1
        BY <2>2, NoPhiBehind DEF Target
      <3>2. Placed(f, k, k + 1) = Placed(f, k - 1, k + 1) \o Owed(f, k)
        BY <1>1, <3>1, PlacedNext
      <3>3. ASSUME NEW j \in 1 .. k - 1, Owed(f, j) # <<>>
            PROVE  InstrumentSite(f, j) # k + 1
        <4>1. j \in DOMAIN b /\ j \in Nat /\ j < k
          BY <1>1
        <4>2. CASE b[j].op = "ret"
          BY <1>1, <4>1, <4>2, SiteOfRet
        <4>3. CASE b[j].op \notin Terminators
          <5> SUFFICES ASSUME InstrumentSite(f, j) = k + 1 PROVE FALSE
            OBVIOUS
          <5>1. k \in j + 1 .. InstrumentSite(f, j) - 1
            <6>1. j + 1 \in Nat /\ k <= k + 1 - 1 /\ j + 1 <= k
              BY <1>1, <4>1
            <6>q. QED
              BY <1>1, <6>1
          <5>2. b[k].op = "phi"
            BY <4>1, <4>3, <5>1, SiteBehind
          <5>q. QED
            BY <2>2, <5>2 DEF IsPhi
        <4>q. QED
          BY <1>4, <3>3, <4>1, <4>2, <4>3, OwedOp
      <3>4. Placed(f, k - 1, k + 1) = <<>>
        BY <1>1, <3>3, PlacedNothing
      <3>5. Own(f, k) = <<>> /\ Pend(f, k + 1) = Owed(f, k)
        BY <1>1, <1>2, <1>4, <3>1, <3>2, <3>4, ConcatEmptySeq DEF Own, Pend
      <3>q. QED
        BY <1>2, <2>2, <3>5, ConcatEmptySeq
    <2>q. QED
      BY <2>1, <2>2
  <1>q. QED
    BY <1>3, <1>4

\* Nothing is due where a block begins.
LEMMA PendStart ==
    ASSUME NEW f, NEW succ, ValidBody(Fn(f).body, succ), NEW s \in DOMAIN Fn(f).body,
           \A j \in 1 .. s - 1 : Fn(f).body[j].bb # Fn(f).body[s].bb
    PROVE  Pend(f, s) = <<>>
  <1> DEFINE b == Fn(f).body
             n == Len(b)
             T == Target(f, s)
  <1>1. /\ n \in Nat /\ DOMAIN b = 1 .. n /\ s \in 1 .. n /\ s - 1 \in 0 .. n
    BY BodyIs
  <1>2. T \in DOMAIN b /\ b[T].bb = b[s].bb
    BY FirstNonPhiIs DEF Target
  <1>3. ~(T < s)
    <2> SUFFICES ASSUME T < s PROVE FALSE
      OBVIOUS
    <2>1. T \in 1 .. s - 1
      BY <1>1, <1>2
    <2>q. QED
      BY <1>2, <2>1
  <1>4. CASE CallTrace
    BY <1>4 DEF Pend
  <1>5. CASE ~CallTrace
    <2>1. ASSUME NEW j \in 1 .. s - 1, Owed(f, j) # <<>>
          PROVE  InstrumentSite(f, j) # T
      <3>1. j \in DOMAIN b /\ j < s /\ b[j].bb # b[s].bb
        <4>1. j \in Nat /\ 1 <= j /\ j <= n /\ j < s
          BY <1>1
        <4>q. QED
          BY <1>1, <4>1
      <3>2. CASE b[j].op = "ret"
        BY <1>1, <1>3, <3>1, <3>2, SiteOfRet
      <3>3. CASE b[j].op \notin Terminators
        <4>1. b[InstrumentSite(f, j)].bb = b[j].bb
          BY <3>1, <3>3, SiteBehind
        <4>q. QED
          BY <1>2, <3>1, <4>1
      <3>q. QED
        BY <1>5, <2>1, <3>1, <3>2, <3>3, OwedOp
    <2>2. Placed(f, s - 1, T) = <<>>
      BY <1>1, <2>1, PlacedNothing
    <2>q. QED
      BY <1>5, <2>2 DEF Pend
  <1>q. QED
    BY <1>4, <1>5
-----------------------------------------------------------------------------
(***************************************************************************)
(* Hooks in a row                                                          *)
(***************************************************************************)
LEMMA SeqIs ==
    ASSUME NEW s, IsSeq(s)
    PROVE  Len(s) \in Nat /\ DOMAIN s = 1 .. Len(s) /\ (s = <<>> <=> Len(s) = 0)
  BY DEF IsSeq

LEMMA IsSeqOf ==
    ASSUME NEW S, NEW s \in Seq(S)
    PROVE  IsSeq(s)
  <1>1. Len(s) \in Nat /\ s = [j \in 1 .. Len(s) |-> s[j]]
    OBVIOUS
  <1>2. \A j \in 1 .. Len(s) : s[j] \in Range(s)
    BY DEF Range
  <1> HIDE DEF Range
  <1>q. QED
    BY <1>1, <1>2 DEF IsSeq

LEMMA AppendIs ==
    ASSUME NEW s, IsSeq(s), NEW x
    PROVE  /\ IsSeq(Append(s, x)) /\ Len(Append(s, x)) = Len(s) + 1 /\ Append(s, x) # <<>>
           /\ \A j \in 1 .. Len(s) : Append(s, x)[j] = s[j]
           /\ Append(s, x)[Len(s) + 1] = x /\ Last(Append(s, x)) = x
           /\ \A j \in DOMAIN Append(s, x) :
                 (j \in DOMAIN s /\ Append(s, x)[j] = s[j]) \/ Append(s, x)[j] = x
  <1> DEFINE S == Range(s) \cup {x}
             t == Append(s, x)
  <1>1. s \in Seq(S) /\ x \in S /\ Len(s) \in Nat /\ DOMAIN s = 1 .. Len(s)
    BY DEF IsSeq
  <1>2. /\ t \in Seq(S) /\ Len(t) = Len(s) + 1 /\ t[Len(s) + 1] = x /\ t # <<>>
        /\ \A j \in 1 .. Len(s) : t[j] = s[j]
    BY <1>1, AppendProperties
  <1> HIDE DEF t, S
  <1>3. IsSeq(t)
    BY <1>2, IsSeqOf
  <1>4. Last(t) = x
    BY <1>2 DEF Last
  <1>5. ASSUME NEW j \in DOMAIN t
        PROVE  (j \in DOMAIN s /\ t[j] = s[j]) \/ t[j] = x
    <2>1. j \in 1 .. Len(s) + 1
      BY <1>2
    <2>q. QED
      BY <1>1, <1>2, <2>1
  <1>q. QED
    BY <1>2, <1>3, <1>4, <1>5 DEF t

LEMMA ConsIs ==
    ASSUME NEW s, IsSeq(s), NEW x
    PROVE  LET t == Cons(x, s) IN
           /\ IsSeq(t) /\ Len(t) = Len(s) + 1 /\ t # <<>> /\ t[1] = x
           /\ \A j \in 1 .. Len(s) : t[j + 1] = s[j]
           /\ s # <<>> => Last(t) = Last(s)
           /\ \A j \in DOMAIN t : (j - 1 \in DOMAIN s /\ t[j] = s[j - 1]) \/ t[j] = x
  <1> DEFINE S == Range(s) \cup {x}
             t == Cons(x, s)
  <1>1. /\ s \in Seq(S) /\ <<x>> \in Seq(S) /\ Len(<<x>>) = 1 /\ <<x>>[1] = x
        /\ Len(s) \in Nat /\ DOMAIN s = 1 .. Len(s)
    BY DEF IsSeq
  <1>2. /\ t \in Seq(S) /\ Len(t) = 1 + Len(s)
        /\ \A j \in 1 .. 1 + Len(s) : t[j] = IF j <= 1 THEN <<x>>[j] ELSE s[j - 1]
    BY <1>1, ConcatProperties DEF Cons
  <1> HIDE DEF S, t
  <1>3. IsSeq(t)
    BY <1>2, IsSeqOf
  <1>4. t[1] = x /\ t # <<>> /\ DOMAIN t = 1 .. 1 + Len(s)
    BY <1>1, <1>2
  <1>5. ASSUME NEW j \in 1 .. Len(s) PROVE t[j + 1] = s[j]
    <2>1. j + 1 \in 1 .. 1 + Len(s) /\ ~(j + 1 <= 1) /\ j + 1 - 1 = j
      BY <1>1
    <2>q. QED
      BY <1>2, <2>1
  <1>6. ASSUME s # <<>> PROVE Last(t) = Last(s)
    <2>1. Len(s) \in 1 .. Len(s) /\ Len(t) = Len(s) + 1
      BY <1>1, <1>2, <1>6
    <2>q. QED
      BY <1>5, <2>1 DEF Last
  <1>7. ASSUME NEW j \in DOMAIN t
        PROVE  (j - 1 \in DOMAIN s /\ t[j] = s[j - 1]) \/ t[j] = x
    <2>1. j \in 1 .. 1 + Len(s) /\ (j # 1 => ~(j <= 1) /\ j - 1 \in 1 .. Len(s))
      BY <1>1, <1>4
    <2>q. QED
      BY <1>1, <1>2, <1>4, <2>1
  <1>q. QED
    BY <1>1, <1>2, <1>3, <1>4, <1>5, <1>6, <1>7 DEF t

LEMMA TailIs ==
    ASSUME NEW s, IsSeq(s), s # <<>>
    PROVE  /\ IsSeq(Tail(s)) /\ Len(Tail(s)) = Len(s) - 1 /\ Head(s) = s[1] /\ 1 \in DOMAIN s
           /\ \A j \in 1 .. Len(s) - 1 : Tail(s)[j] = s[j + 1] /\ j + 1 \in DOMAIN s
           /\ Tail(s) # <<>> => Last(Tail(s)) = Last(s)
           /\ Tail(s) = <<>> => Last(s) = Head(s)
           /\ s = Cons(Head(s), Tail(s))
  <1>1. s \in Seq(Range(s)) /\ Len(s) \in Nat /\ Len(s) > 0 /\ DOMAIN s = 1 .. Len(s)
    BY DEF IsSeq
  <1>2. /\ Tail(s) \in Seq(Range(s)) /\ Head(s) = s[1] /\ Len(Tail(s)) = Len(s) - 1
        /\ \A j \in 1 .. Len(Tail(s)) : Tail(s)[j] = s[j + 1]
    BY <1>1, HeadTailProperties
  <1>3. IsSeq(Tail(s))
    BY <1>2, IsSeqOf
  <1>4. \A j \in 1 .. Len(s) - 1 : Tail(s)[j] = s[j + 1] /\ j + 1 \in DOMAIN s
    BY <1>1, <1>2
  <1>5. ASSUME Tail(s) # <<>> PROVE Last(Tail(s)) = Last(s)
    <2>1. Len(Tail(s)) \in 1 .. Len(s) - 1 /\ Len(Tail(s)) + 1 = Len(s)
      BY <1>1, <1>2, <1>5
    <2>q. QED
      BY <1>4, <2>1 DEF Last
  <1>6. ASSUME Tail(s) = <<>> PROVE Last(s) = Head(s)
    <2>1. Len(Tail(s)) = 0
      BY <1>3, <1>6, SeqIs
    <2>2. Len(s) = 1
      <3> DEFINE n == Len(s)
                 m == Len(Tail(s))
      <3>1. n \in Nat /\ m = n - 1 /\ m = 0
        BY <1>1, <1>2, <2>1
      <3> HIDE DEF n, m
      <3>2. n = 1
        BY <3>1
      <3>q. QED
        BY <3>2 DEF n
    <2>q. QED
      BY <1>2, <2>2 DEF Last
  <1>7. s = Cons(Head(s), Tail(s))
    <2> DEFINE h == Head(s)
               r == Tail(s)
               t == Cons(h, r)
    <2>1. /\ IsSeq(t) /\ Len(t) = Len(r) + 1 /\ t[1] = h
          /\ \A j \in 1 .. Len(r) : t[j + 1] = r[j]
      <3>1. IsSeq(r)
        BY <1>3
      <3> HIDE DEF h, r
      <3>q. QED
        BY <3>1, ConsIs
    <2>2. Len(t) = Len(s) /\ DOMAIN t = 1 .. Len(s)
      BY <1>1, <1>2, <2>1, SeqIs
    <2> HIDE DEF t
    <2>3. ASSUME NEW j \in 1 .. Len(s) PROVE t[j] = s[j]
      <3>1. CASE j = 1
        BY <1>2, <2>1, <3>1
      <3>2. CASE j # 1
        <4>1. j - 1 \in 1 .. Len(r) /\ j - 1 + 1 = j /\ j - 1 \in 1 .. Len(s) - 1
          BY <1>1, <1>2, <3>2
        <4>q. QED
          BY <1>4, <2>1, <4>1
      <3>q. QED
        BY <3>1, <3>2
    <2>4. t \in Seq(Range(t)) /\ s \in Seq(Range(s))
      BY <1>1, <2>1 DEF IsSeq
    <2>5. t = [j \in 1 .. Len(s) |-> t[j]] /\ s = [j \in 1 .. Len(s) |-> s[j]]
      BY <1>1, <2>2, <2>4
    <2>6. t = s
      BY <2>3, <2>5
    <2>q. QED
      BY <2>6 DEF t
  <1>q. QED
    BY <1>1, <1>2, <1>3, <1>4, <1>5, <1>6, <1>7

LEMMA Concat3 ==
    ASSUME NEW S, NEW x \in Seq(S), NEW y \in Seq(S), NEW z \in Seq(S),
           NEW xy, xy = x \o y, NEW yz, yz = y \o z
    PROVE  xy \o z = x \o yz
  BY ConcatAssociative

Shifted(s, t) == Len(t) = Len(s) + 1 /\ \A j \in 1 .. Len(s) : t[j + 1] = s[j]

LEMMA FlatCons ==
    ASSUME NEW S, NEW s \in Seq(Seq(S)), NEW t \in Seq(Seq(S)), Shifted(s, t)
    PROVE  FlattenSeq(t) = t[1] \o FlattenSeq(s)
  <1> DEFINE n == Len(s)
             a(m) == SubSeq(s, 1, m)
             c(m) == SubSeq(t, 1, m + 1)
             G == {m \in 0 .. n : FlattenSeq(c(m)) = t[1] \o FlattenSeq(a(m))}
  <1>1. n \in Nat /\ t[1] \in Seq(S) /\ Len(t) = n + 1
    BY DEF Shifted
  <1>2. ASSUME NEW m \in 0 .. n
        PROVE  /\ a(m) \in Seq(Seq(S)) /\ Len(a(m)) = m /\ \A j \in 1 .. m : a(m)[j] = s[j]
               /\ c(m) \in Seq(Seq(S)) /\ Len(c(m)) = m + 1 /\ \A j \in 1 .. m + 1 : c(m)[j] = t[j]
    <2>1. 1 \in 1 .. m + 1 /\ m \in 0 .. Len(s) /\ 1 \in 1 .. m + 1 + 1 /\ m + 1 \in 0 .. Len(t)
      BY <1>1
    <2>q. QED
      BY <1>1, <2>1, SubSeqProperties
  <1> HIDE DEF a, c, n
  <1>3. 0 \in G
    <2>1. 0 \in 0 .. n
      BY <1>1
    <2>2. /\ a(0) \in Seq(Seq(S)) /\ Len(a(0)) = 0
          /\ c(0) \in Seq(Seq(S)) /\ Len(c(0)) = 1 /\ c(0)[1] = t[1]
      <3>1. /\ c(0) \in Seq(Seq(S)) /\ Len(c(0)) = 0 + 1 /\ \A j \in 1 .. 0 + 1 : c(0)[j] = t[j]
            /\ a(0) \in Seq(Seq(S)) /\ Len(a(0)) = 0
        BY <1>2, <2>1
      <3>2. 0 + 1 = 1 /\ 1 \in 1 .. 1
        OBVIOUS
      <3>q. QED
        BY <3>1, <3>2
    <2>6. a(0) = <<>>
      <3> DEFINE z == a(0)
      <3> HIDE DEF z
      <3>1. z \in Seq(Seq(S)) /\ Len(z) = 0
        BY <2>2 DEF z
      <3>2. z = <<>>
        BY <3>1
      <3>q. QED
        BY <3>2 DEF z
    <2>3. c(0) = Append(<<>>, t[1])
      <3> DEFINE z == c(0)
                 x == t[1]
      <3> HIDE DEF z, x
      <3>1. z \in Seq(Seq(S)) /\ Len(z) = 1 /\ z[1] = x
        BY <2>2 DEF z, x
      <3>2. z = <<x>>
        BY <3>1
      <3>3. Append(<<>>, x) = <<x>>
        OBVIOUS
      <3>q. QED
        BY <3>2, <3>3 DEF z, x
    <2>4. FlattenSeq(c(0)) = <<>> \o t[1]
      <3>1. <<>> \in Seq(Seq(S))
        OBVIOUS
      <3>q. QED
        BY <1>1, <2>3, <3>1, FlatAppend, FlatEmpty
    <2>5. FlattenSeq(c(0)) = t[1] \o <<>>
      BY <1>1, <2>4, ConcatEmptySeq
    <2>q. QED
      BY <2>1, <2>5, <2>6, FlatEmpty
  <1>4. ASSUME NEW m \in 1 .. n, m - 1 \in G PROVE m \in G
    <2>1. /\ m \in 0 .. n /\ m - 1 \in 0 .. n /\ m - 1 + 1 = m /\ m \in 1 .. m
          /\ m + 1 \in 1 .. m + 1
      BY <1>1
    <2>2. /\ a(m) \in Seq(Seq(S)) /\ a(m - 1) \in Seq(Seq(S)) /\ Len(a(m)) = Len(a(m - 1)) + 1
          /\ a(m)[Len(a(m))] = s[m] /\ \A j \in 1 .. Len(a(m - 1)) : a(m)[j] = a(m - 1)[j]
      <3>1. /\ a(m) \in Seq(Seq(S)) /\ Len(a(m)) = m /\ \A j \in 1 .. m : a(m)[j] = s[j]
        BY <1>2, <2>1
      <3>2. /\ a(m - 1) \in Seq(Seq(S)) /\ Len(a(m - 1)) = m - 1
            /\ \A j \in 1 .. m - 1 : a(m - 1)[j] = s[j]
        BY <1>2, <2>1
      <3>3. m = m - 1 + 1 /\ \A j \in 1 .. m - 1 : j \in 1 .. m
        BY <1>1
      <3>q. QED
        BY <2>1, <3>1, <3>2, <3>3
    <2>3. /\ c(m) \in Seq(Seq(S)) /\ c(m - 1) \in Seq(Seq(S)) /\ Len(c(m)) = Len(c(m - 1)) + 1
          /\ c(m)[Len(c(m))] = t[m + 1] /\ \A j \in 1 .. Len(c(m - 1)) : c(m)[j] = c(m - 1)[j]
      <3>1. /\ c(m) \in Seq(Seq(S)) /\ Len(c(m)) = m + 1 /\ \A j \in 1 .. m + 1 : c(m)[j] = t[j]
        BY <1>2, <2>1
      <3>2. /\ c(m - 1) \in Seq(Seq(S)) /\ Len(c(m - 1)) = m - 1 + 1
            /\ \A j \in 1 .. m - 1 + 1 : c(m - 1)[j] = t[j]
        BY <1>2, <2>1
      <3>3. \A j \in 1 .. m : j \in 1 .. m + 1
        BY <1>1
      <3>q. QED
        BY <2>1, <3>1, <3>2, <3>3
    <2>4. /\ FlattenSeq(a(m)) = FlattenSeq(a(m - 1)) \o s[m]
          /\ FlattenSeq(c(m)) = FlattenSeq(c(m - 1)) \o t[m + 1]
      <3>1. FlattenSeq(a(m)) = FlattenSeq(a(m - 1)) \o a(m)[Len(a(m))]
        BY <2>2, FlatNext
      <3>2. FlattenSeq(c(m)) = FlattenSeq(c(m - 1)) \o c(m)[Len(c(m))]
        BY <2>3, FlatNext
      <3>q. QED
        BY <2>2, <2>3, <3>1, <3>2
    <2>5. t[m + 1] = s[m] /\ s[m] \in Seq(S) /\ FlattenSeq(a(m - 1)) \in Seq(S)
      <3>1. m \in 1 .. Len(s)
        BY DEF n
      <3>2. t[m + 1] = s[m] /\ s[m] \in Seq(S)
        BY <3>1 DEF Shifted
      <3>q. QED
        BY <2>2, <3>2, FlatType
    <2>7. FlattenSeq(c(m - 1)) = t[1] \o FlattenSeq(a(m - 1))
      BY <1>4
    <2>6. FlattenSeq(c(m)) = t[1] \o FlattenSeq(a(m))
      <3>1. FlattenSeq(c(m - 1)) \o s[m] = t[1] \o FlattenSeq(a(m))
        <4> DEFINE x == t[1]
                   y == FlattenSeq(a(m - 1))
                   z == s[m]
                   xy == FlattenSeq(c(m - 1))
                   yz == FlattenSeq(a(m))
        <4>1. x \in Seq(S)
          BY <1>1
        <4>2. y \in Seq(S) /\ z \in Seq(S)
          BY <2>5
        <4>3. xy = x \o y
          BY <2>7
        <4>4. yz = y \o z
          BY <2>4
        <4> HIDE DEF x, y, z, xy, yz
        <4>5. xy \o z = x \o yz
          BY <4>1, <4>2, <4>3, <4>4, Concat3
        <4>q. QED
          BY <4>5 DEF x, z, xy, yz
      <3>2. FlattenSeq(c(m)) = FlattenSeq(c(m - 1)) \o s[m]
        BY <2>4, <2>5
      <3>q. QED
        BY <3>1, <3>2
    <2>q. QED
      BY <2>1, <2>6
  <1>5. n \in G
    <2> HIDE DEF G
    <2>1. n \in 0 .. n
      BY <1>1
    <2>q. QED
      BY <1>1, <1>3, <1>4, <2>1, UpTo
  <1>6. a(n) = s /\ c(n) = t
    <2>1. n \in 0 .. n
      BY <1>1
    <2>2. /\ a(n) \in Seq(Seq(S)) /\ Len(a(n)) = Len(s) /\ \A j \in 1 .. Len(s) : a(n)[j] = s[j]
          /\ c(n) \in Seq(Seq(S)) /\ Len(c(n)) = Len(t) /\ \A j \in 1 .. Len(t) : c(n)[j] = t[j]
      BY <1>1, <1>2, <2>1 DEF n
    <2>q. QED
      BY <2>2, SeqEqual
  <1>q. QED
    BY <1>5, <1>6
-----------------------------------------------------------------------------
Reps(f, s) == [n \in DOMAIN s |-> Reported(f, s[n])]

LEMMA EventsIs ==
    ASSUME NEW f, NEW R, NEW s, Reportable(f, s, R)
    PROVE  /\ Reps(f, s) \in Seq(Seq(R)) /\ Len(Reps(f, s)) = Len(s)
           /\ \A j \in 1 .. Len(s) : Reps(f, s)[j] = Reported(f, s[j])
           /\ Events(f, s) = FlattenSeq(Reps(f, s)) /\ Events(f, s) \in Seq(R)
  <1>1. Len(s) \in Nat /\ DOMAIN s = 1 .. Len(s)
    BY SeqIs DEF Reportable
  <1>2. /\ Reps(f, s) \in Seq(Seq(R)) /\ Len(Reps(f, s)) = Len(s)
        /\ \A j \in 1 .. Len(s) : Reps(f, s)[j] = Reported(f, s[j])
    BY <1>1 DEF Reportable, Reps
  <1>3. Events(f, s) = FlattenSeq(Reps(f, s))
    BY DEF Events, Reps
  <1>q. QED
    BY <1>2, <1>3, FlatType

LEMMA EventsEmpty ==
    ASSUME NEW f
    PROVE  Events(f, <<>>) = <<>>
  <1>1. [n \in DOMAIN <<>> |-> Reported(f, <<>>[n])] = <<>>
    OBVIOUS
  <1>q. QED
    BY <1>1, FlatEmpty DEF Events

LEMMA EventsAppend ==
    ASSUME NEW f, NEW R, NEW s, Reportable(f, s, R), NEW h, Reported(f, h) \in Seq(R)
    PROVE  /\ Reportable(f, Append(s, h), R)
           /\ Events(f, Append(s, h)) = Events(f, s) \o Reported(f, h)
  <1> DEFINE t == Append(s, h)
  <1>1. /\ IsSeq(t) /\ Len(t) = Len(s) + 1 /\ t[Len(s) + 1] = h
        /\ \A j \in 1 .. Len(s) : t[j] = s[j]
        /\ \A j \in DOMAIN t : (j \in DOMAIN s /\ t[j] = s[j]) \/ t[j] = h
    BY AppendIs DEF Reportable
  <1>2. Len(s) \in Nat
    BY SeqIs DEF Reportable
  <1> HIDE DEF t
  <1>3. Reportable(f, t, R)
    BY <1>1 DEF Reportable
  <1>4. /\ Reps(f, s) \in Seq(Seq(R)) /\ Len(Reps(f, s)) = Len(s) /\ Events(f, s) = FlattenSeq(Reps(f, s))
        /\ \A j \in 1 .. Len(s) : Reps(f, s)[j] = Reported(f, s[j])
    BY EventsIs
  <1>5. /\ Reps(f, t) \in Seq(Seq(R)) /\ Len(Reps(f, t)) = Len(t) /\ Events(f, t) = FlattenSeq(Reps(f, t))
        /\ \A j \in 1 .. Len(t) : Reps(f, t)[j] = Reported(f, t[j])
    BY <1>3, EventsIs
  <1>6. /\ \A j \in 1 .. Len(Reps(f, s)) : Reps(f, t)[j] = Reps(f, s)[j]
        /\ Reps(f, t)[Len(Reps(f, t))] = Reported(f, h) /\ Len(Reps(f, t)) = Len(Reps(f, s)) + 1
    BY <1>1, <1>2, <1>4, <1>5
  <1>7. FlattenSeq(Reps(f, t)) = FlattenSeq(Reps(f, s)) \o Reps(f, t)[Len(Reps(f, t))]
    BY <1>4, <1>5, <1>6, FlatNext
  <1>q. QED
    BY <1>3, <1>4, <1>5, <1>6, <1>7 DEF t

LEMMA EventsCons ==
    ASSUME NEW f, NEW R, NEW s, Reportable(f, s, R), NEW h, Reported(f, h) \in Seq(R)
    PROVE  /\ Reportable(f, Cons(h, s), R)
           /\ Events(f, Cons(h, s)) = Reported(f, h) \o Events(f, s)
  <1> DEFINE t == Cons(h, s)
  <1>1. /\ IsSeq(t) /\ Len(t) = Len(s) + 1 /\ t[1] = h
        /\ \A j \in 1 .. Len(s) : t[j + 1] = s[j]
        /\ \A j \in DOMAIN t : (j - 1 \in DOMAIN s /\ t[j] = s[j - 1]) \/ t[j] = h
    BY ConsIs DEF Reportable
  <1> HIDE DEF t
  <1>2. Len(s) \in Nat
    BY SeqIs DEF Reportable
  <1>3. Reportable(f, t, R)
    BY <1>1 DEF Reportable
  <1>4. /\ Reps(f, s) \in Seq(Seq(R)) /\ Len(Reps(f, s)) = Len(s) /\ Events(f, s) = FlattenSeq(Reps(f, s))
        /\ \A j \in 1 .. Len(s) : Reps(f, s)[j] = Reported(f, s[j])
    BY EventsIs
  <1>5. /\ Reps(f, t) \in Seq(Seq(R)) /\ Len(Reps(f, t)) = Len(t) /\ Events(f, t) = FlattenSeq(Reps(f, t))
        /\ \A j \in 1 .. Len(t) : Reps(f, t)[j] = Reported(f, t[j])
    BY <1>3, EventsIs
  <1>6. /\ \A j \in 1 .. Len(Reps(f, s)) : Reps(f, t)[j + 1] = Reps(f, s)[j]
        /\ Reps(f, t)[1] = Reported(f, h) /\ Len(Reps(f, t)) = Len(Reps(f, s)) + 1
    BY <1>1, <1>2, <1>4, <1>5
  <1>7. FlattenSeq(Reps(f, t)) = Reps(f, t)[1] \o FlattenSeq(Reps(f, s))
    BY <1>4, <1>5, <1>6, FlatCons DEF Shifted
  <1>q. QED
    BY <1>3, <1>4, <1>5, <1>6, <1>7 DEF t

LEMMA EventsHead ==
    ASSUME NEW f, NEW R, NEW s, Reportable(f, s, R), s # <<>>
    PROVE  /\ Reportable(f, Tail(s), R) /\ Reported(f, Head(s)) \in Seq(R)
           /\ Events(f, s) = Reported(f, Head(s)) \o Events(f, Tail(s))
  <1>1. /\ IsSeq(s) /\ IsSeq(Tail(s)) /\ Len(Tail(s)) = Len(s) - 1 /\ Head(s) = s[1] /\ 1 \in DOMAIN s
        /\ \A j \in 1 .. Len(s) - 1 : Tail(s)[j] = s[j + 1] /\ j + 1 \in DOMAIN s
        /\ s = Cons(Head(s), Tail(s))
    BY TailIs DEF Reportable
  <1>2. Reported(f, Head(s)) \in Seq(R)
    BY <1>1 DEF Reportable
  <1>3. \A j \in DOMAIN Tail(s) : Reported(f, Tail(s)[j]) \in Seq(R)
    <2>1. DOMAIN Tail(s) = 1 .. Len(s) - 1
      BY <1>1, SeqIs
    <2>q. QED
      BY <1>1, <2>1 DEF Reportable
  <1>4. Reportable(f, Tail(s), R)
    BY <1>1, <1>3 DEF Reportable
  <1>q. QED
    BY <1>1, <1>2, <1>4, EventsCons

LEMMA DuesAppend ==
    ASSUME NEW f, NEW s, IsSeq(s), \A n \in DOMAIN s : s[n] \in DOMAIN Fn(f).body,
           NEW k \in DOMAIN Fn(f).body
    PROVE  /\ Dues(f, s) \in Seq(Reports(f))
           /\ Dues(f, Append(s, k)) = Dues(f, s) \o Owed(f, k)
  <1> DEFINE R == Reports(f)
             D(x) == [n \in DOMAIN x |-> Owed(f, x[n])]
             t == Append(s, k)
  <1>1. /\ IsSeq(t) /\ Len(t) = Len(s) + 1 /\ t[Len(s) + 1] = k
        /\ \A j \in 1 .. Len(s) : t[j] = s[j]
        /\ \A j \in DOMAIN t : (j \in DOMAIN s /\ t[j] = s[j]) \/ t[j] = k
    BY AppendIs
  <1>2. Len(s) \in Nat /\ DOMAIN s = 1 .. Len(s) /\ DOMAIN t = 1 .. Len(t)
    BY <1>1, SeqIs
  <1> HIDE DEF t, R
  <1>3. /\ \A j \in DOMAIN s : Owed(f, s[j]) \in Seq(R)
        /\ \A j \in DOMAIN t : Owed(f, t[j]) \in Seq(R)
    BY <1>1, OwedType DEF R
  <1>4. /\ D(s) \in Seq(Seq(R)) /\ Len(D(s)) = Len(s) /\ \A j \in 1 .. Len(s) : D(s)[j] = Owed(f, s[j])
    BY <1>2, <1>3
  <1>5. /\ D(t) \in Seq(Seq(R)) /\ Len(D(t)) = Len(t) /\ \A j \in 1 .. Len(t) : D(t)[j] = Owed(f, t[j])
    BY <1>1, <1>2, <1>3
  <1>6. Dues(f, s) = FlattenSeq(D(s)) /\ Dues(f, t) = FlattenSeq(D(t))
    BY DEF Dues
  <1> HIDE DEF D
  <1>7. /\ \A j \in 1 .. Len(D(s)) : D(t)[j] = D(s)[j]
        /\ D(t)[Len(D(t))] = Owed(f, k) /\ Len(D(t)) = Len(D(s)) + 1
    BY <1>1, <1>2, <1>4, <1>5
  <1>8. FlattenSeq(D(t)) = FlattenSeq(D(s)) \o D(t)[Len(D(t))]
    BY <1>4, <1>5, <1>7, FlatNext
  <1>9. FlattenSeq(D(s)) \in Seq(R)
    BY <1>4, FlatType
  <1>q. QED
    BY <1>6, <1>7, <1>8, <1>9 DEF t, R
-----------------------------------------------------------------------------
(***************************************************************************)
(* What does not change with the module and the selection                  *)
(***************************************************************************)
given == <<mod, CallTrace, m_Fname2Flda>>

LEMMA FrameFn ==
    ASSUME UNCHANGED given
    PROVE  /\ \A f : Fn(f)' = Fn(f)
           /\ \A f : IsVisited(f)' <=> IsVisited(f)
           /\ \A f, bb : FirstNonPhi(f, bb)' = FirstNonPhi(f, bb)
           /\ \A f, k : InstrumentSite(f, k)' = InstrumentSite(f, k)
           /\ \A f, t, k : EventId(f, t, k)' = EventId(f, t, k)
           /\ \A f, k : GetEventID(f, k)' = GetEventID(f, k)
           /\ \A f, k : IsPhi(f, k)' <=> IsPhi(f, k)
  <1>1. mod' = mod /\ CallTrace' = CallTrace /\ m_Fname2Flda' = m_Fname2Flda
    BY DEF given
  <1>2. \A f : Fn(f)' = Fn(f)
    BY <1>1 DEF Fn
  <1>3. \A f : IsVisited(f)' <=> IsVisited(f)
    BY <1>1, <1>2 DEF IsVisited, IsDefined, ValidCheck
  <1>4. \A f, bb : FirstNonPhi(f, bb)' = FirstNonPhi(f, bb)
    BY <1>1, <1>2 DEF FirstNonPhi
  <1>5. \A f, k : InstrumentSite(f, k)' = InstrumentSite(f, k)
    BY <1>1, <1>2, <1>4 DEF InstrumentSite
  <1>6. \A f, t, k : EventId(f, t, k)' = EventId(f, t, k)
    BY <1>1 DEF EventId
  <1>7. \A f, k : IsPhi(f, k)' <=> IsPhi(f, k)
    BY <1>2 DEF IsPhi
  <1>8. \A f, k : GetEventID(f, k)' = GetEventID(f, k)
    BY <1>1, <1>2 DEF GetEventID
  <1>q. QED
    BY <1>2, <1>3, <1>4, <1>5, <1>6, <1>7, <1>8

LEMMA FrameOwed ==
    ASSUME UNCHANGED given
    PROVE  /\ \A f, k : Owed(f, k)' = Owed(f, k)
           /\ \A f, k : Own(f, k)' = Own(f, k)
           /\ \A f, h : Reported(f, h)' = Reported(f, h)
           /\ \A f : Reports(f)' = Reports(f)
  <1>1. mod' = mod /\ CallTrace' = CallTrace /\ m_Fname2Flda' = m_Fname2Flda
    BY DEF given
  <1>2. /\ \A f : Fn(f)' = Fn(f)
        /\ \A f : IsVisited(f)' <=> IsVisited(f)
        /\ \A f, k : InstrumentSite(f, k)' = InstrumentSite(f, k)
        /\ \A f, k : GetEventID(f, k)' = GetEventID(f, k)
    BY FrameFn
  <1>3. \A f, k : Dropped(f, k)' <=> Dropped(f, k)
    BY <1>2 DEF Dropped
  <1>4. \A f, k : Due(f, k)' <=> Due(f, k)
    BY <1>1, <1>2, <1>3 DEF Due, IsInstTainted
  <1>5. \A f, k : Owed(f, k)' = Owed(f, k)
    BY <1>1, <1>2, <1>4 DEF Owed
  <1>6. \A f, k : Own(f, k)' = Own(f, k)
    BY <1>1, <1>2, <1>5 DEF Own
  <1>7. \A f, h : IsEvent(f, h)' <=> IsEvent(f, h)
    BY <1>1, <1>2 DEF IsEvent
  <1>8. \A f, h : Reported(f, h)' = Reported(f, h)
    BY <1>1, <1>7 DEF Reported
  <1>9. \A f : Reports(f)' = Reports(f)
    BY <1>1, <1>2 DEF Reports
  <1>q. QED
    BY <1>5, <1>6, <1>8, <1>9

LEMMA Frame ==
    ASSUME UNCHANGED given
    PROVE  /\ \A f, s : Events(f, s)' = Events(f, s)
           /\ \A f, s : Dues(f, s)' = Dues(f, s)
           /\ \A f, s, R : Reportable(f, s, R)' <=> Reportable(f, s, R)
           /\ \A f, m, k : Placed(f, m, k)' = Placed(f, m, k)
           /\ \A f, k : Whole(f, k)' = Whole(f, k)
           /\ \A f, k : Pend(f, k)' = Pend(f, k)
  <1>1. mod' = mod /\ CallTrace' = CallTrace /\ m_Fname2Flda' = m_Fname2Flda
    BY DEF given
  <1>2. /\ \A f : Fn(f)' = Fn(f)
        /\ \A f, bb : FirstNonPhi(f, bb)' = FirstNonPhi(f, bb)
        /\ \A f, k : InstrumentSite(f, k)' = InstrumentSite(f, k)
        /\ \A f, k : IsPhi(f, k)' <=> IsPhi(f, k)
    BY FrameFn
  <1>3. /\ \A f, k : Owed(f, k)' = Owed(f, k)
        /\ \A f, h : Reported(f, h)' = Reported(f, h)
    BY FrameOwed
  <1>4. \A f, s : Events(f, s)' = Events(f, s)
    BY <1>3 DEF Events
  <1>5. \A f, s : Dues(f, s)' = Dues(f, s)
    BY <1>3 DEF Dues
  <1>6. \A f, s, R : Reportable(f, s, R)' <=> Reportable(f, s, R)
    BY <1>3 DEF Reportable
  <1>7. \A f, m, k : Placed(f, m, k)' = Placed(f, m, k)
    BY <1>2, <1>3 DEF Placed
  <1>8. \A f, k : Target(f, k)' = Target(f, k)
    BY <1>2 DEF Target
  <1>9. \A f, k : Whole(f, k)' = Whole(f, k)
    BY <1>1, <1>2, <1>3, <1>7 DEF Whole
  <1>10. \A f, k : Pend(f, k)' = Pend(f, k)
    BY <1>1, <1>7, <1>8 DEF Pend
  <1>q. QED
    BY <1>4, <1>5, <1>6, <1>7, <1>9, <1>10
-----------------------------------------------------------------------------
(***************************************************************************)
(* Consequences of the types                                               *)
(***************************************************************************)
LEMMA CodeIs ==
    ASSUME ModuleOK, TypeOK, NEW f \in DOMAIN code
    PROVE  /\ f \in DOMAIN mod.fn /\ ~Fn(f).decl /\ ValidBody(Fn(f).body, mod.succ)
           /\ DOMAIN code[f] = DOMAIN Fn(f).body /\ 1 \in DOMAIN code[f]
           /\ DOMAIN Fn(f).body = 1 .. Len(Fn(f).body) /\ Len(Fn(f).body) \in Nat
           /\ \A k \in DOMAIN code[f] : IsSeq(code[f][k])
  <1>1. f \in DOMAIN mod.fn /\ ~Fn(f).decl /\ DOMAIN code[f] = DOMAIN Fn(f).body
        /\ \A k \in DOMAIN code[f] : IsSeq(code[f][k])
    BY DEF TypeOK, IsSeq
  <1>2. ValidBody(Fn(f).body, mod.succ)
    BY <1>1 DEF ModuleOK, ValidModule, Fn
  <1>q. QED
    BY <1>1, <1>2, BodyIs

\* A function that is visited has a body.
LEMMA VisitedIs ==
    ASSUME ModuleOK, TypeOK, NEW f \in DOMAIN mod.fn
    PROVE  IsVisited(f) => f \in DOMAIN code
  BY DEF ModuleOK, ValidModule, TypeOK, IsVisited, IsDefined

\* The number of the next instruction may be 0 whatever is left to visit.
LEMMA NotBegun ==
    ASSUME ModuleOK, NEW t \in Seq(DOMAIN mod.fn)
    PROVE  0 \in 0 .. (IF t = <<>> THEN 0 ELSE Len(Fn(Head(t)).body) + 1)
  <1>1. CASE t = <<>>
    BY <1>1
  <1>2. CASE t # <<>>
    <2>1. Head(t) \in DOMAIN mod.fn
      BY <1>2
    <2>2. Fn(Head(t)).decl => Len(Fn(Head(t)).body) = 0
      BY <2>1 DEF ModuleOK, ValidModule, Fn
    <2>3. ~Fn(Head(t)).decl => ValidBody(Fn(Head(t)).body, mod.succ)
      BY <2>1 DEF ModuleOK, ValidModule, Fn
    <2>4. Len(Fn(Head(t)).body) \in Nat
      BY <2>2, <2>3, BodyIs
    <2>q. QED
      BY <1>2, <2>4
  <1>q. QED
    BY <1>1, <1>2
-----------------------------------------------------------------------------
(***************************************************************************)
(* What the pass leaves alone, and what a run leaves alone                 *)
(***************************************************************************)
LEMMA RunFrame ==
    ASSUME IInv, phase = "run", phase' \in {"run", "end"}, UNCHANGED <<mod, bin, CallTrace, state>>
    PROVE  ModuleOK' /\ TodoOK' /\ HooksOK' /\ PlacedOK' /\ EntryOK' /\ MainOK'
  <1>1. /\ mod' = mod /\ CallTrace' = CallTrace /\ m_Fname2Flda' = m_Fname2Flda /\ todo' = todo
        /\ InstID' = InstID /\ code' = code /\ m_ExitInsts' = m_ExitInsts /\ UNCHANGED given
    BY DEF state, given
  <1>2. ModuleOK'
    BY <1>1 DEF IInv, ModuleOK
  <1>3. TodoOK'
    <2>1. Func' = Func /\ (IsVisited(Func)' <=> IsVisited(Func))
      BY <1>1, FrameFn DEF Func
    <2>q. QED
      BY <1>1, <2>1 DEF IInv, TodoOK
  <1>4. HooksOK'
    BY <1>1, Frame, FrameOwed DEF IInv, HooksOK
  <1>5. PlacedOK'
    BY <1>1, Frame DEF IInv, PlacedOK, Func
  <1>6. EntryOK'
    BY DEF EntryOK
  <1>7. MainOK'
    BY <1>1, FrameFn DEF IInv, MainOK, IsEntry, Ends
  <1>q. QED
    BY <1>2, <1>3, <1>4, <1>5, <1>6, <1>7

LEMMA VisitFrame ==
    ASSUME IInv, phase \in {"load", "visit"}, phase' = "visit", UNCHANGED running
    PROVE  RunTypes' /\ TracedOK' /\ OrderOK' /\ RunTraced' /\ MainOK'
  <1>1. executed' = executed /\ trace' = trace /\ hooks' = hooks
    BY DEF running
  <1>q. QED
    BY <1>1 DEF IInv, RunTypes, TracedOK, OrderOK, RunTraced, MainOK, IsSeq

LEMMA InitIInv == Init => IInv
  <1> SUFFICES ASSUME Init PROVE IInv
    OBVIOUS
  <1>1. ModuleOK
    BY InputAssumption DEF Init, ModuleOK
  <1>2. TypeOK
    <2>1. \A f \in DOMAIN code : \A k \in DOMAIN code[f] : code[f][k] = <<>>
      BY DEF Init
    <2>2. DOMAIN code = {f \in DOMAIN mod.fn : ~Fn(f).decl}
          /\ \A f \in DOMAIN code : DOMAIN code[f] = DOMAIN Fn(f).body
      BY DEF Init, Fn
    <2>3. \A S : <<>> \in Seq(S)
      OBVIOUS
    <2>4. \A f \in DOMAIN code : \A k \in DOMAIN code[f] : code[f][k] \in Seq(Range(code[f][k]))
      BY <2>1, <2>3
    <2>5. /\ phase = "load" /\ CallTrace \in BOOLEAN /\ todo = <<>> /\ InstID = 0
          /\ m_ExitInsts = {} /\ executed = <<>>
      BY DEF Init
    <2>6. \A n \in DOMAIN executed : executed[n] \in DOMAIN Fn(fn).body
      BY <2>5
    <2>7. InstID \in 0 .. (IF todo = <<>> THEN 0 ELSE Len(Body) + 1)
      BY <2>5
    <2>q. QED
      BY <2>2, <2>3, <2>4, <2>5, <2>6, <2>7 DEF TypeOK
  <1>3. TodoOK
    BY DEF Init, TodoOK, IsInjective
  <1>4. HooksOK
    <2>1. \A f, R : Reportable(f, <<>>, R)
      BY DEF Reportable, IsSeq
    <2>q. QED
      BY <2>1 DEF Init, HooksOK
  <1>5. PlacedOK /\ EntryOK /\ MainOK /\ TracedOK /\ OrderOK /\ RunTraced
    BY DEF Init, PlacedOK, EntryOK, MainOK, TracedOK, OrderOK, RunTraced
  <1>6. RunTypes
    BY DEF Init, RunTypes, IsSeq
  <1>q. QED
    BY <1>1, <1>2, <1>3, <1>4, <1>5, <1>6 DEF IInv
-----------------------------------------------------------------------------
(***************************************************************************)
(* The functions to visit                                                  *)
(***************************************************************************)
LEMMA TodoTail ==
    ASSUME NEW D, NEW t \in Seq(D), t # <<>>, IsInjective(t)
    PROVE  /\ Head(t) \in D /\ Tail(t) \in Seq(D) /\ IsInjective(Tail(t))
           /\ Head(t) \in Range(t) /\ Head(t) \notin Range(Tail(t))
           /\ Range(Tail(t)) = Range(t) \ {Head(t)}
  <1>1. /\ IsSeq(t) /\ IsSeq(Tail(t)) /\ Len(Tail(t)) = Len(t) - 1 /\ Head(t) = t[1] /\ 1 \in DOMAIN t
        /\ \A j \in 1 .. Len(t) - 1 : Tail(t)[j] = t[j + 1] /\ j + 1 \in DOMAIN t
    BY IsSeqOf, TailIs
  <1>2. Len(t) \in Nat /\ DOMAIN t = 1 .. Len(t) /\ DOMAIN Tail(t) = 1 .. Len(t) - 1
    BY <1>1, SeqIs
  <1>3. Head(t) \in D /\ Tail(t) \in Seq(D)
    OBVIOUS
  <1>4. Head(t) \in Range(t)
    BY <1>1 DEF Range
  <1>5. \A i, j \in DOMAIN t : t[i] = t[j] => i = j
    BY DEF IsInjective
  <1>6. IsInjective(Tail(t))
    <2> SUFFICES ASSUME NEW i \in DOMAIN Tail(t), NEW j \in DOMAIN Tail(t), Tail(t)[i] = Tail(t)[j]
                 PROVE  i = j
      BY DEF IsInjective
    <2>1. t[i + 1] = t[j + 1] /\ i + 1 \in DOMAIN t /\ j + 1 \in DOMAIN t
      BY <1>1, <1>2
    <2>2. i + 1 = j + 1
      BY <1>5, <2>1
    <2>q. QED
      BY <1>2, <2>2
  <1>7. Head(t) \notin Range(Tail(t))
    <2> SUFFICES ASSUME NEW j \in DOMAIN Tail(t), Tail(t)[j] = Head(t) PROVE FALSE
      BY DEF Range
    <2>1. t[j + 1] = t[1] /\ j + 1 \in DOMAIN t
      BY <1>1, <1>2
    <2>2. j + 1 = 1
      BY <1>1, <1>5, <2>1
    <2>q. QED
      BY <1>2, <2>2
  <1>8. \A x \in Range(Tail(t)) : x \in Range(t)
    <2> SUFFICES ASSUME NEW j \in DOMAIN Tail(t) PROVE Tail(t)[j] \in Range(t)
      BY DEF Range
    <2>1. Tail(t)[j] = t[j + 1] /\ j + 1 \in DOMAIN t
      BY <1>1, <1>2
    <2>q. QED
      BY <2>1 DEF Range
  <1>9. ASSUME NEW x \in Range(t), x # Head(t) PROVE x \in Range(Tail(t))
    <2>1. PICK i \in DOMAIN t : t[i] = x
      BY DEF Range
    <2>2. i # 1
      BY <1>1, <1>9, <2>1
    <2>3. i - 1 \in 1 .. Len(t) - 1 /\ i - 1 + 1 = i
      BY <1>2, <2>2
    <2>4. Tail(t)[i - 1] = x /\ i - 1 \in DOMAIN Tail(t)
      BY <1>1, <1>2, <2>1, <2>3
    <2>q. QED
      BY <2>4 DEF Range
  <1>q. QED
    BY <1>3, <1>4, <1>6, <1>7, <1>8, <1>9

\* What is not visited is owed nothing.
LEMMA NotVisited ==
    ASSUME NEW f, ~IsVisited(f), ~CallTrace
    PROVE  \A k : Owed(f, k) = <<>>
  BY DEF Owed, Due

\* The types, when the pass changes but the hooks.
LEMMA TypeFrame ==
    ASSUME IInv, phase \in {"load", "visit"}, phase' = "visit", UNCHANGED running, UNCHANGED <<mod, CallTrace>>,
           todo' \in Seq(DOMAIN mod.fn),
           InstID' \in 0 .. (IF todo' = <<>> THEN 0 ELSE Len(Fn(Head(todo')).body) + 1),
           DOMAIN code' = DOMAIN code,
           \A f \in DOMAIN code : /\ DOMAIN code'[f] = DOMAIN code[f]
                                  /\ \A k \in DOMAIN code[f] : IsSeq(code'[f][k]),
           \A x \in m_ExitInsts' : x[1] \in DOMAIN code /\ x[2] \in DOMAIN Fn(x[1]).body
    PROVE  TypeOK'
  <1>1. mod' = mod /\ CallTrace' = CallTrace /\ executed' = <<>> /\ \A f : Fn(f)' = Fn(f)
    BY DEF IInv, RunTypes, running, Fn
  <1>2. /\ CallTrace \in BOOLEAN /\ DOMAIN code = {f \in DOMAIN mod.fn : ~Fn(f).decl}
        /\ \A f \in DOMAIN code : DOMAIN code[f] = DOMAIN Fn(f).body
    BY DEF IInv, TypeOK
  <1>3. \A n \in DOMAIN executed' : executed'[n] \in DOMAIN Fn(fn').body
    BY <1>1
  <1>4. Body' = Fn(Head(todo')).body
    BY <1>1 DEF Body, Func
  <1>q. QED
    BY <1>1, <1>2, <1>3, <1>4 DEF TypeOK, IsSeq

LEMMA SkipFunctionIInv ==
    ASSUME IInv, SkipFunction
    PROVE  IInv'
  <1> USE DEF IInv
  <1>1. /\ phase = "visit" /\ phase' = "visit" /\ todo # <<>> /\ InstID = 0 /\ ~IsVisited(Func)
        /\ todo' = Tail(todo) /\ mod' = mod /\ CallTrace' = CallTrace /\ m_Fname2Flda' = m_Fname2Flda
        /\ InstID' = 0 /\ code' = code /\ m_ExitInsts' = m_ExitInsts /\ UNCHANGED given
        /\ UNCHANGED running /\ UNCHANGED <<mod, CallTrace>> /\ ~CallTrace
    BY DEF SkipFunction, Visiting, given, TodoOK
  <1>2. /\ Func \in DOMAIN mod.fn /\ Tail(todo) \in Seq(DOMAIN mod.fn) /\ IsInjective(Tail(todo))
        /\ Func \in Range(todo) /\ Range(Tail(todo)) = Range(todo) \ {Func}
    BY <1>1, TodoTail DEF TypeOK, TodoOK, Func
  <1>3. ModuleOK'
    BY <1>1 DEF ModuleOK
  <1>4. TypeOK'
    <2>1. InstID' \in 0 .. (IF todo' = <<>> THEN 0 ELSE Len(Fn(Head(todo')).body) + 1)
      BY <1>1, <1>2, NotBegun
    <2>q. QED
      BY <1>1, <1>2, <2>1, TypeFrame DEF TypeOK, IsSeq
  <1>5. TodoOK'
    BY <1>1, <1>2 DEF TodoOK
  <1>6. HooksOK'
    BY <1>1, Frame, FrameOwed DEF HooksOK
  <1>7. PlacedOK'
    <2>1. ASSUME NEW f \in DOMAIN code, NEW k \in DOMAIN code[f]
          PROVE  Events(f, code[f][k]) = IF f \notin Range(todo') THEN Whole(f, k) ELSE <<>>
      <3>1. Events(f, code[f][k]) = IF f \notin Range(todo) THEN Whole(f, k) ELSE <<>>
        BY <1>1 DEF PlacedOK
      <3>2. CASE f = Func
        <4>1. ValidBody(Fn(f).body, mod.succ) /\ Len(Fn(f).body) \in Nat
          BY CodeIs
        <4>2. Placed(f, Len(Fn(f).body), k) = <<>>
          <5>1. Len(Fn(f).body) \in 0 .. Len(Fn(f).body)
            BY <4>1
          <5>q. QED
            BY <1>1, <3>2, <4>1, <5>1, NotVisited, PlacedNothing
        <4>q. QED
          BY <1>1, <1>2, <3>1, <3>2, <4>2 DEF Whole
      <3>3. CASE f # Func
        BY <1>1, <1>2, <3>1, <3>3
      <3>q. QED
        BY <3>2, <3>3
    <2>q. QED
      BY <1>1, <2>1, Frame DEF PlacedOK
  <1>8. EntryOK'
    <2>1. ASSUME NEW f \in DOMAIN code, IsVisited(f), f \notin Range(todo')
          PROVE  f \notin Range(todo)
      BY <1>1, <1>2, <2>1
    <2>q. QED
      BY <1>1, <2>1, FrameFn DEF EntryOK, IsEntry
  <1>9. RunTypes' /\ TracedOK' /\ OrderOK' /\ RunTraced' /\ MainOK'
    BY <1>1, VisitFrame
  <1>q. QED
    BY <1>3, <1>4, <1>5, <1>6, <1>7, <1>8, <1>9

LEMMA VisitInstIInv ==
    ASSUME IInv, VisitInst
    PROVE  IInv'
  <1> USE DEF IInv
  <1>1. /\ phase = "visit" /\ phase' = "visit" /\ todo # <<>> /\ InstID = 0 /\ IsVisited(Func)
        /\ todo' = todo /\ mod' = mod /\ CallTrace' = CallTrace /\ m_Fname2Flda' = m_Fname2Flda
        /\ InstID' = 1 /\ code' = code /\ UNCHANGED given
        /\ UNCHANGED running /\ UNCHANGED <<mod, CallTrace>> /\ ~CallTrace
    BY DEF VisitInst, Visiting, given, TodoOK
  <1>2. m_ExitInsts' = m_ExitInsts \cup {<<Func, k>> : k \in {l \in DOMAIN Body : IsExit(Body[l])}}
    BY DEF VisitInst
  <1>3. Func \in DOMAIN code /\ Func' = Func /\ (IsVisited(Func)' <=> IsVisited(Func))
    BY <1>1, VisitedIs, FrameFn DEF TypeOK, Func
  <1>4. ValidBody(Fn(Func).body, mod.succ) /\ Len(Fn(Func).body) \in Nat
    BY <1>3, CodeIs
  <1>5. ModuleOK'
    BY <1>1 DEF ModuleOK
  <1>6. TypeOK'
    <2>1. \A x \in m_ExitInsts' : x[1] \in DOMAIN code /\ x[2] \in DOMAIN Fn(x[1]).body
      BY <1>2, <1>3 DEF TypeOK, Body
    <2>2. InstID' \in 0 .. (IF todo' = <<>> THEN 0 ELSE Len(Fn(Head(todo')).body) + 1)
      BY <1>1, <1>4 DEF Func
    <2>3. /\ todo' \in Seq(DOMAIN mod.fn) /\ DOMAIN code' = DOMAIN code
          /\ \A f \in DOMAIN code : /\ DOMAIN code'[f] = DOMAIN code[f]
                                    /\ \A k \in DOMAIN code[f] : IsSeq(code'[f][k])
      BY <1>1 DEF TypeOK, IsSeq
    <2>q. QED
      BY <1>1, <2>1, <2>2, <2>3, TypeFrame
  <1>7. TodoOK'
    BY <1>1, <1>3 DEF TodoOK
  <1>8. HooksOK'
    BY <1>1, Frame, FrameOwed DEF HooksOK
  <1>9. PlacedOK'
    <2>1. ASSUME NEW k
          PROVE  Placed(Func, InstID' - 1, k) = <<>>
      <3>1. InstID' - 1 = 0 /\ 0 \in 0 .. Len(Fn(Func).body) /\ \A j \in 1 .. 0 : FALSE
        BY <1>1, <1>4
      <3>q. QED
        BY <1>4, <3>1, PlacedNothing
    <2>q. QED
      BY <1>1, <1>3, <2>1, Frame DEF PlacedOK
  <1>10. EntryOK'
    BY <1>1, FrameFn DEF EntryOK, IsEntry
  <1>11. RunTypes' /\ TracedOK' /\ OrderOK' /\ RunTraced' /\ MainOK'
    BY <1>1, VisitFrame
  <1>q. QED
    BY <1>5, <1>6, <1>7, <1>8, <1>9, <1>10, <1>11
-----------------------------------------------------------------------------
(***************************************************************************)
(* Hooks, and what they report                                             *)
(***************************************************************************)
Silent(f, h) == Reported(f, h) = <<>>

LEMMA SilentHooks ==
    ASSUME NEW f
    PROVE  /\ \A id, msg : \A kind \in {"IN", "OUT", "thread", "init", "exit"} :
                 Silent(f, Hook(kind, id, msg))
           /\ \A g, k, msg : ~CallTrace => Silent(f, Hook("trace", EventId(g, "FENTRY", k), msg))
  BY DEF Silent, Reported, IsEvent, Hook, EventId

\* The hook of an instruction reports what is owed to it.
LEMMA TrackIs ==
    ASSUME NEW f, ~CallTrace, IsVisited(f), NEW k, Traced(f, k), NEW msg
    PROVE  Reported(f, Hook("trace", GetEventID(f, k), msg)) = Owed(f, k)
  <1> DEFINE i == Fn(f).body[k]
             e == GetEventID(f, k)
             h == Hook("trace", e, msg)
  <1>1. SetEventType(i) # "FENTRY"
    BY DEF SetEventType
  <1>2. e.type = SetEventType(i) /\ e.iid = k
    BY DEF GetEventID
  <1> HIDE DEF e
  <1>3. h.kind = "trace" /\ h.id = e
    BY DEF Hook
  <1> HIDE DEF h
  <1>4. IsEvent(f, h) <=> i.op \notin Branches \cup Leaves
    BY <1>1, <1>2, <1>3 DEF IsEvent
  <1>5. Due(f, k) <=> i.op \notin Branches \cup Leaves
    BY DEF Due, Traced
  <1>q. QED
    BY <1>3, <1>4, <1>5 DEF Reported, Owed, e, h

LEMMA CallHookIs ==
    ASSUME NEW f, CallTrace, NEW k, Due(f, k), NEW id
    PROVE  Reported(f, Hook("CS", id, <<Name(Fn(f).body[k])>>)) = Owed(f, k)
  BY DEF Reported, IsEvent, Hook, Owed

Fits(f, H, R) == \A j \in DOMAIN H : Reportable(f, H[j], R)

LEMMA InsertBeforeIs ==
    ASSUME NEW f, NEW R, NEW H, NEW k \in DOMAIN H, Fits(f, H, R),
           NEW h, Reported(f, h) \in Seq(R)
    PROVE  LET G == InsertBefore(H, k, h)
           IN  /\ DOMAIN G = DOMAIN H /\ Fits(f, G, R)
               /\ \A j \in DOMAIN H \ {k} : G[j] = H[j]
               /\ Events(f, G[k]) = Events(f, H[k]) \o Reported(f, h)
  <1> DEFINE G == InsertBefore(H, k, h)
  <1>1. DOMAIN G = DOMAIN H /\ G[k] = Append(H[k], h) /\ \A j \in DOMAIN H \ {k} : G[j] = H[j]
    BY DEF InsertBefore
  <1> HIDE DEF G
  <1>2. Reportable(f, H[k], R)
    BY DEF Fits
  <1>3. Reportable(f, Append(H[k], h), R) /\ Events(f, Append(H[k], h)) = Events(f, H[k]) \o Reported(f, h)
    BY <1>2, EventsAppend
  <1>4. Fits(f, G, R)
    BY <1>1, <1>3 DEF Fits
  <1>q. QED
    BY <1>1, <1>3, <1>4 DEF G

LEMMA PrependSilent ==
    ASSUME NEW f, NEW R, NEW s, Reportable(f, s, R), NEW h, Silent(f, h)
    PROVE  Reportable(f, Cons(h, s), R) /\ Events(f, Cons(h, s)) = Events(f, s)
  <1>1. Reported(f, h) \in Seq(R)
    BY DEF Silent
  <1>2. Reportable(f, Cons(h, s), R) /\ Events(f, Cons(h, s)) = Reported(f, h) \o Events(f, s)
    BY <1>1, EventsCons
  <1>3. Events(f, s) \in Seq(R)
    BY EventsIs
  <1>q. QED
    BY <1>2, <1>3, ConcatEmptySeq DEF Silent

\* A silent hook in front of the others changes nothing that is reported.
LEMMA InsertFirstIs ==
    ASSUME NEW f, NEW R, NEW H, Fits(f, H, R), NEW bb,
           FirstNonPhi(f, bb) \in DOMAIN H, NEW h, Silent(f, h)
    PROVE  LET G == InsertFirst(f, H, bb, h)
               p == FirstNonPhi(f, bb)
           IN  /\ DOMAIN G = DOMAIN H /\ Fits(f, G, R)
               /\ \A j \in DOMAIN H : Events(f, G[j]) = Events(f, H[j])
               /\ G[p] = Cons(h, H[p]) /\ \A j \in DOMAIN H \ {p} : G[j] = H[j]
  <1> DEFINE G == InsertFirst(f, H, bb, h)
             p == FirstNonPhi(f, bb)
  <1>1. DOMAIN G = DOMAIN H /\ G[p] = Cons(h, H[p]) /\ \A j \in DOMAIN H \ {p} : G[j] = H[j]
    BY DEF InsertFirst
  <1> HIDE DEF G
  <1> HIDE DEF p
  <1>2. Reportable(f, H[p], R)
    BY DEF p, Fits
  <1>3. Reportable(f, G[p], R) /\ Events(f, G[p]) = Events(f, H[p])
    BY <1>1, <1>2, PrependSilent
  <1>6. Fits(f, G, R) /\ \A j \in DOMAIN H : Events(f, G[j]) = Events(f, H[j])
    BY <1>1, <1>3 DEF Fits
  <1>q. QED
    BY <1>1, <1>6 DEF G, p

\* So does one behind them.
LEMMA AppendSilent ==
    ASSUME NEW f, NEW R, NEW s, Reportable(f, s, R), NEW h, Silent(f, h)
    PROVE  Reportable(f, Append(s, h), R) /\ Events(f, Append(s, h)) = Events(f, s)
  <1>1. Reported(f, h) = <<>> /\ Reported(f, h) \in Seq(R)
    BY DEF Silent
  <1>2. Reportable(f, Append(s, h), R) /\ Events(f, Append(s, h)) = Events(f, s) \o Reported(f, h)
    BY <1>1, EventsAppend
  <1>3. Events(f, s) \in Seq(R)
    BY EventsIs
  <1>q. QED
    BY <1>1, <1>2, <1>3, ConcatEmptySeq

\* The entry of a function is its first instruction.
LEMMA EntryIs ==
    ASSUME NEW f, NEW succ, ValidBody(Fn(f).body, succ)
    PROVE  FirstNonPhi(f, Fn(f).body[1].bb) = 1
  <1> DEFINE b == Fn(f).body
             p == FirstNonPhi(f, b[1].bb)
  <1>1. Len(b) \in Nat /\ 1 \in DOMAIN b /\ DOMAIN b = 1 .. Len(b) /\ b[1].op # "phi"
    BY BodyIs
  <1>2. /\ p \in DOMAIN b /\ \A j \in 1 .. p - 1 : b[j].bb = b[1].bb => b[j].op = "phi"
    BY <1>1, FirstNonPhiIs
  <1>3. 1 \notin 1 .. p - 1
    BY <1>1, <1>2
  <1>q. QED
    BY <1>1, <1>2, <1>3
-----------------------------------------------------------------------------
(***************************************************************************)
(* The steps of the pass                                                   *)
(***************************************************************************)
\* The function at work, and its next instruction.
LEMMA AtWork ==
    ASSUME IInv, Visiting, InstID > 0
    PROVE  /\ ~CallTrace /\ Func \in DOMAIN code /\ IsVisited(Func) /\ InstID \in Nat
           /\ Func \in DOMAIN mod.fn /\ Func \in Range(todo)
           /\ todo \in Seq(DOMAIN mod.fn) /\ todo # <<>> /\ IsInjective(todo)
           /\ ValidBody(Fn(Func).body, mod.succ) /\ DOMAIN Body = 1 .. Len(Body) /\ Len(Body) \in Nat
           /\ InstID <= Len(Body) + 1 /\ Body = Fn(Func).body
           /\ \A k \in DOMAIN code[Func] : Events(Func, code[Func][k]) = Placed(Func, InstID - 1, k)
  <1> USE DEF IInv
  <1>1. todo \in Seq(DOMAIN mod.fn) /\ todo # <<>> /\ IsInjective(todo) /\ IsVisited(Func) /\ ~CallTrace
        /\ phase = "visit"
    BY DEF TypeOK, TodoOK, Visiting
  <1>2. Func \in DOMAIN mod.fn /\ Func \in Range(todo)
    BY <1>1, TodoTail DEF Func
  <1>3. Func \in DOMAIN code
    BY <1>1, <1>2, VisitedIs
  <1>4. /\ ValidBody(Fn(Func).body, mod.succ) /\ DOMAIN Fn(Func).body = 1 .. Len(Fn(Func).body)
        /\ Len(Fn(Func).body) \in Nat
    BY <1>3, CodeIs
  <1>5. InstID \in 0 .. Len(Body) + 1
    BY <1>1 DEF TypeOK
  <1>6. \A k \in DOMAIN code[Func] : Events(Func, code[Func][k]) = Placed(Func, InstID - 1, k)
    BY <1>1, <1>2, <1>3 DEF PlacedOK
  <1>q. QED
    BY <1>1, <1>2, <1>3, <1>4, <1>5, <1>6 DEF Body

LEMMA PassInstIInv ==
    ASSUME IInv, PassInst
    PROVE  IInv'
  <1> USE DEF IInv
  <1>1. /\ phase = "visit" /\ phase' = "visit" /\ todo' = todo /\ mod' = mod /\ CallTrace' = CallTrace
        /\ m_Fname2Flda' = m_Fname2Flda /\ InstID' = InstID + 1 /\ code' = code /\ UNCHANGED given
        /\ m_ExitInsts' = m_ExitInsts /\ UNCHANGED running /\ UNCHANGED <<mod, CallTrace>>
        /\ InstID \in 1 .. Len(Body) /\ ~Traced(Func, InstID) /\ Visiting
    BY DEF PassInst, Visiting, given
  <1>2. InstID > 0
    <2>1. InstID \in 0 .. (IF todo = <<>> THEN 0 ELSE Len(Body) + 1)
      BY DEF TypeOK
    <2>q. QED
      BY <1>1, <2>1
  <1>3. /\ ~CallTrace /\ Func \in DOMAIN code /\ IsVisited(Func) /\ InstID \in Nat
        /\ todo # <<>> /\ ValidBody(Fn(Func).body, mod.succ) /\ DOMAIN Body = 1 .. Len(Body)
        /\ Len(Body) \in Nat /\ Body = Fn(Func).body
        /\ \A k \in DOMAIN code[Func] : Events(Func, code[Func][k]) = Placed(Func, InstID - 1, k)
    BY <1>1, <1>2, AtWork
  <1>4. Func' = Func /\ (IsVisited(Func)' <=> IsVisited(Func))
    BY <1>1, FrameFn DEF Func
  <1>5. ModuleOK'
    BY <1>1 DEF ModuleOK
  <1>6. TypeOK'
    <2>1. InstID' \in 0 .. (IF todo' = <<>> THEN 0 ELSE Len(Fn(Head(todo')).body) + 1)
      BY <1>1, <1>3 DEF Func
    <2>2. /\ todo' \in Seq(DOMAIN mod.fn) /\ DOMAIN code' = DOMAIN code
          /\ \A f \in DOMAIN code : /\ DOMAIN code'[f] = DOMAIN code[f]
                                    /\ \A k \in DOMAIN code[f] : IsSeq(code'[f][k])
          /\ \A x \in m_ExitInsts' : x[1] \in DOMAIN code /\ x[2] \in DOMAIN Fn(x[1]).body
      BY <1>1 DEF TypeOK, IsSeq
    <2>q. QED
      BY <1>1, <2>1, <2>2, TypeFrame
  <1>7. TodoOK'
    BY <1>1, <1>3, <1>4 DEF TodoOK
  <1>8. HooksOK'
    BY <1>1, Frame, FrameOwed DEF HooksOK
  <1>9. PlacedOK'
    <2>1. Owed(Func, InstID) = <<>>
      BY <1>1, <1>3 DEF Owed, Due, Traced, Branches
    <2>2. ASSUME NEW k PROVE Placed(Func, InstID, k) = Placed(Func, InstID - 1, k)
      <3>1. Placed(Func, InstID, k) = Placed(Func, InstID - 1, k)
                \o (IF InstrumentSite(Func, InstID) = k THEN Owed(Func, InstID) ELSE <<>>)
        BY <1>1, <1>3, PlacedNext
      <3>2. Placed(Func, InstID - 1, k) \in Seq(Reports(Func))
        <4>1. InstID - 1 \in 0 .. Len(Fn(Func).body)
          BY <1>1, <1>3
        <4>q. QED
          BY <1>3, <4>1, PlacedIs
      <3>q. QED
        BY <2>1, <3>1, <3>2, ConcatEmptySeq
    <2>3. InstID' - 1 = InstID /\ InstID' > 0
      BY <1>1, <1>3
    <2>q. QED
      BY <1>1, <1>2, <1>4, <2>2, <2>3, Frame DEF PlacedOK
  <1>10. EntryOK'
    BY <1>1, FrameFn DEF EntryOK, IsEntry
  <1>11. RunTypes' /\ TracedOK' /\ OrderOK' /\ RunTraced' /\ MainOK'
    BY <1>1, VisitFrame
  <1>q. QED
    BY <1>5, <1>6, <1>7, <1>8, <1>9, <1>10, <1>11

LEMMA AddTrackIInv ==
    ASSUME IInv, AddTrack
    PROVE  IInv'
  <1> USE DEF IInv
  <1> DEFINE i == Body[InstID]
             h == Hook("trace", GetEventID(Func, InstID), GetInstrPara(Func, InstID))
             s == InstrumentSite(Func, InstID)
             H == code[Func]
             G == InsertBefore(H, s, h)
  <1>1. /\ phase = "visit" /\ phase' = "visit" /\ todo' = todo /\ mod' = mod /\ CallTrace' = CallTrace
        /\ m_Fname2Flda' = m_Fname2Flda /\ InstID' = InstID + 1 /\ UNCHANGED given
        /\ m_ExitInsts' = m_ExitInsts /\ UNCHANGED running /\ UNCHANGED <<mod, CallTrace>>
        /\ InstID \in 1 .. Len(Body) /\ Traced(Func, InstID) /\ Visiting
        /\ code' = [code EXCEPT ![Func] = G]
    BY DEF AddTrack, Visiting, given
  <1>2. InstID > 0
    <2>1. InstID \in 0 .. (IF todo = <<>> THEN 0 ELSE Len(Body) + 1)
      BY DEF TypeOK
    <2>q. QED
      BY <1>1, <2>1
  <1>3. /\ ~CallTrace /\ Func \in DOMAIN code /\ IsVisited(Func) /\ InstID \in Nat
        /\ todo # <<>> /\ ValidBody(Fn(Func).body, mod.succ) /\ DOMAIN Body = 1 .. Len(Body)
        /\ Len(Body) \in Nat /\ Body = Fn(Func).body /\ Func \in Range(todo)
        /\ \A k \in DOMAIN code[Func] : Events(Func, code[Func][k]) = Placed(Func, InstID - 1, k)
    BY <1>1, <1>2, AtWork
  <1>4. Func' = Func /\ (IsVisited(Func)' <=> IsVisited(Func))
    BY <1>1, FrameFn DEF Func
  <1>5. /\ DOMAIN code[Func] = DOMAIN Body /\ InstID \in DOMAIN Body
        /\ \A k \in DOMAIN code[Func] : Reportable(Func, code[Func][k], Reports(Func))
    BY <1>1, <1>3, CodeIs DEF HooksOK
  <1>6. s \in DOMAIN H
    BY <1>3, <1>5, SiteIs
  <1>7. Reported(Func, h) = Owed(Func, InstID) /\ Owed(Func, InstID) \in Seq(Reports(Func))
    BY <1>1, <1>3, <1>5, TrackIs, OwedType
  <1> HIDE DEF h, s, H, G
  <1>8. /\ DOMAIN G = DOMAIN H /\ \A j \in DOMAIN H : Reportable(Func, G[j], Reports(Func))
        /\ \A j \in DOMAIN H \ {s} : G[j] = H[j]
        /\ Events(Func, G[s]) = Events(Func, H[s]) \o Owed(Func, InstID)
    <2> DEFINE f == Func
               R == Reports(Func)
    <2>1. Fits(f, H, R) /\ Reported(f, h) \in Seq(R)
      BY <1>5, <1>7 DEF H, Fits
    <2> HIDE DEF f, R
    <2>2. /\ DOMAIN InsertBefore(H, s, h) = DOMAIN H /\ Fits(f, InsertBefore(H, s, h), R)
          /\ \A j \in DOMAIN H \ {s} : InsertBefore(H, s, h)[j] = H[j]
          /\ Events(f, InsertBefore(H, s, h)[s]) = Events(f, H[s]) \o Reported(f, h)
      BY <1>6, <2>1, InsertBeforeIs
    <2>q. QED
      BY <1>7, <2>2 DEF G, f, R, Fits
  <1>9. /\ DOMAIN code' = DOMAIN code /\ code'[Func] = G
        /\ \A f \in DOMAIN code \ {Func} : code'[f] = code[f]
    BY <1>1, <1>3
  <1>10. ModuleOK'
    BY <1>1 DEF ModuleOK
  <1>11. ASSUME NEW f \in DOMAIN code
         PROVE  /\ DOMAIN code'[f] = DOMAIN code[f]
                /\ \A k \in DOMAIN code[f] : Reportable(f, code'[f][k], Reports(f))
    <2>1. CASE f = Func
      BY <1>8, <1>9, <2>1 DEF H
    <2>2. CASE f # Func
      BY <1>9, <2>2 DEF HooksOK
    <2>q. QED
      BY <2>1, <2>2
  <1>12. TypeOK'
    <2>1. InstID' \in 0 .. (IF todo' = <<>> THEN 0 ELSE Len(Fn(Head(todo')).body) + 1)
      BY <1>1, <1>3 DEF Func
    <2>2. /\ todo' \in Seq(DOMAIN mod.fn)
          /\ \A x \in m_ExitInsts' : x[1] \in DOMAIN code /\ x[2] \in DOMAIN Fn(x[1]).body
      BY <1>1 DEF TypeOK
    <2>3. \A f \in DOMAIN code : /\ DOMAIN code'[f] = DOMAIN code[f]
                                 /\ \A k \in DOMAIN code[f] : IsSeq(code'[f][k])
      BY <1>11 DEF Reportable
    <2>q. QED
      BY <1>1, <1>9, <2>1, <2>2, <2>3, TypeFrame
  <1>13. TodoOK'
    BY <1>1, <1>3, <1>4 DEF TodoOK
  <1>14. HooksOK'
    BY <1>1, <1>9, <1>11, Frame, FrameOwed DEF HooksOK
  <1>15. PlacedOK'
    <2>1. ASSUME NEW k \in DOMAIN H PROVE Events(Func, G[k]) = Placed(Func, InstID, k)
      <3>1. Placed(Func, InstID, k) = Placed(Func, InstID - 1, k)
                \o (IF InstrumentSite(Func, InstID) = k THEN Owed(Func, InstID) ELSE <<>>)
        BY <1>1, <1>3, PlacedNext
      <3>2. Placed(Func, InstID - 1, k) \in Seq(Reports(Func))
        <4>1. InstID - 1 \in 0 .. Len(Fn(Func).body)
          BY <1>1, <1>3
        <4>q. QED
          BY <1>3, <4>1, PlacedIs
      <3>3. Events(Func, H[k]) = Placed(Func, InstID - 1, k)
        BY <1>3 DEF H
      <3>4. CASE s = k
        BY <1>8, <3>1, <3>3, <3>4 DEF s
      <3>5. CASE s # k
        <4>1. Placed(Func, InstID, k) = Placed(Func, InstID - 1, k)
          BY <3>1, <3>2, <3>5, ConcatEmptySeq DEF s
        <4>q. QED
          BY <1>8, <3>3, <3>5, <4>1
      <3>q. QED
        BY <3>4, <3>5
    <2>2. InstID' - 1 = InstID /\ InstID' > 0
      BY <1>1, <1>3
    <2>3. ASSUME NEW f \in DOMAIN code, NEW k \in DOMAIN code[f]
          PROVE  Events(f, code'[f][k]) = IF f \notin Range(todo') THEN Whole(f, k)
                                          ELSE IF f = Func THEN Placed(f, InstID, k) ELSE <<>>
      <3>1. CASE f = Func
        BY <1>1, <1>3, <1>9, <2>1, <3>1 DEF H
      <3>2. CASE f # Func
        BY <1>1, <1>9, <3>2 DEF PlacedOK
      <3>q. QED
        BY <3>1, <3>2
    <2>q. QED
      BY <1>1, <1>4, <1>9, <1>11, <2>2, <2>3, Frame DEF PlacedOK
  <1>16. EntryOK'
    BY <1>1, <1>3, <1>9, FrameFn DEF EntryOK, IsEntry
  <1>17. RunTypes' /\ TracedOK' /\ OrderOK' /\ RunTraced' /\ MainOK'
    BY <1>1, VisitFrame
  <1>q. QED
    BY <1>10, <1>12, <1>13, <1>14, <1>15, <1>16, <1>17

\* The hooks behind thread entries and at the entry of the function report nothing.
LEMMA ThrcIs ==
    ASSUME NEW f, NEW R, Fits(f, code[f], R)
    PROVE  LET G == InstrumThrc(f)
           IN  /\ DOMAIN G = DOMAIN code[f] /\ Fits(f, G, R)
               /\ \A k \in DOMAIN code[f] : Events(f, G[k]) = Events(f, code[f][k])
  <1> DEFINE G == InstrumThrc(f)
             H == code[f]
  <1>1. DOMAIN G = DOMAIN H
    BY DEF InstrumThrc
  <1>2. \A k \in DOMAIN H : G[k] = H[k] \/ \E id, msg : G[k] = Append(H[k], Hook("thread", id, msg))
    BY DEF InstrumThrc
  <1>3. ASSUME NEW k \in DOMAIN H PROVE Reportable(f, G[k], R) /\ Events(f, G[k]) = Events(f, H[k])
    <2> HIDE DEF G, H
    <2> DEFINE s == H[k]
    <2>1. Reportable(f, s, R)
      BY DEF H, Fits
    <2>2. CASE G[k] = s
      BY <2>1, <2>2
    <2>3. CASE \E id, msg : G[k] = Append(s, Hook("thread", id, msg))
      <3>1. PICK id, msg : G[k] = Append(s, Hook("thread", id, msg))
        BY <2>3
      <3>2. Silent(f, Hook("thread", id, msg))
        BY SilentHooks
      <3> HIDE DEF s
      <3>3. /\ Reportable(f, Append(s, Hook("thread", id, msg)), R)
            /\ Events(f, Append(s, Hook("thread", id, msg))) = Events(f, s)
        BY <2>1, <3>2, AppendSilent
      <3>q. QED
        BY <3>1, <3>3 DEF s
    <2>q. QED
      BY <1>2, <2>2, <2>3
  <1>q. QED
    BY <1>1, <1>3 DEF Fits

LEMMA CallTrackIs ==
    ASSUME NEW f, NEW succ, ValidBody(Fn(f).body, succ), NEW R, NEW H, DOMAIN H = DOMAIN Fn(f).body,
           Fits(f, H, R), ~CallTrace
    PROVE  LET G == AddCallTrack(f, H)
           IN  /\ DOMAIN G = DOMAIN H /\ Fits(f, G, R)
               /\ \A k \in DOMAIN H : Events(f, G[k]) = Events(f, H[k])
               /\ G[1] # <<>> /\ IsEntry(f, G[1][1])
  <1> DEFINE bb == Fn(f).body[1].bb
             h == Hook("trace", EventId(f, "FENTRY", 0), <<MSG_BEGIN, Variable(f, "F"), MSG_END>>)
             G == AddCallTrack(f, H)
  <1>1. FirstNonPhi(f, bb) = 1 /\ 1 \in DOMAIN H
    BY EntryIs, BodyIs
  <1>2. Silent(f, h) /\ h.id = EventId(f, "FENTRY", 0)
    BY SilentHooks DEF Hook
  <1>3. G = InsertFirst(f, H, bb, h)
    BY DEF AddCallTrack
  <1> HIDE DEF bb, h, G
  <1>4. FirstNonPhi(f, bb) \in DOMAIN H
    BY <1>1
  <1>5. /\ DOMAIN G = DOMAIN H /\ Fits(f, G, R) /\ \A j \in DOMAIN H : Events(f, G[j]) = Events(f, H[j])
        /\ G[1] = Cons(h, H[1])
    BY <1>1, <1>2, <1>3, <1>4, InsertFirstIs
  <1>6. IsSeq(H[1])
    BY <1>1 DEF Fits, Reportable
  <1>7. G[1] # <<>> /\ G[1][1] = h
    BY <1>5, <1>6, ConsIs
  <1>q. QED
    BY <1>2, <1>5, <1>7 DEF G, IsEntry

LEMMA EndFunctionIInv ==
    ASSUME IInv, EndFunction
    PROVE  IInv'
  <1> USE DEF IInv
  <1> DEFINE G == AddCallTrack(Func, InstrumThrc(Func))
             R == Reports(Func)
  <1>1. /\ phase = "visit" /\ phase' = "visit" /\ todo' = Tail(todo) /\ mod' = mod /\ CallTrace' = CallTrace
        /\ m_Fname2Flda' = m_Fname2Flda /\ InstID' = 0 /\ UNCHANGED given
        /\ m_ExitInsts' = m_ExitInsts /\ UNCHANGED running /\ UNCHANGED <<mod, CallTrace>>
        /\ InstID > Len(Body) /\ Visiting
        /\ code' = [code EXCEPT ![Func] = G]
    BY DEF EndFunction, Visiting, given
  <1>2. InstID > 0
    <2>1. todo # <<>> /\ InstID \in 0 .. (IF todo = <<>> THEN 0 ELSE Len(Body) + 1)
      BY <1>1 DEF TypeOK, Visiting
    <2>2. Func \in DOMAIN mod.fn
      BY <2>1 DEF TypeOK, Func
    <2>3. Fn(Func).decl => Len(Body) = 0
      BY <2>2 DEF ModuleOK, ValidModule, Fn, Body
    <2>4. ~Fn(Func).decl => ValidBody(Body, mod.succ)
      BY <2>2 DEF ModuleOK, ValidModule, Fn, Body
    <2>5. Len(Body) \in Nat
      BY <2>3, <2>4, BodyIs
    <2>q. QED
      BY <1>1, <2>1, <2>5
  <1>3. /\ ~CallTrace /\ Func \in DOMAIN code /\ IsVisited(Func) /\ InstID \in Nat
        /\ todo # <<>> /\ ValidBody(Fn(Func).body, mod.succ) /\ DOMAIN Body = 1 .. Len(Body)
        /\ Len(Body) \in Nat /\ Body = Fn(Func).body /\ InstID = Len(Body) + 1
        /\ \A k \in DOMAIN code[Func] : Events(Func, code[Func][k]) = Placed(Func, InstID - 1, k)
    <2>1. /\ ~CallTrace /\ Func \in DOMAIN code /\ IsVisited(Func) /\ InstID \in Nat
          /\ todo # <<>> /\ ValidBody(Fn(Func).body, mod.succ) /\ DOMAIN Body = 1 .. Len(Body)
          /\ Len(Body) \in Nat /\ Body = Fn(Func).body /\ InstID <= Len(Body) + 1
          /\ \A k \in DOMAIN code[Func] : Events(Func, code[Func][k]) = Placed(Func, InstID - 1, k)
      BY <1>1, <1>2, AtWork
    <2>2. InstID = Len(Body) + 1
      BY <1>1, <2>1
    <2>q. QED
      BY <2>1, <2>2
  <1>4. /\ Func \in DOMAIN mod.fn /\ Tail(todo) \in Seq(DOMAIN mod.fn) /\ IsInjective(Tail(todo))
        /\ Func \in Range(todo) /\ Func \notin Range(Tail(todo)) /\ Range(Tail(todo)) = Range(todo) \ {Func}
    BY <1>3, TodoTail DEF TypeOK, TodoOK, Func
  <1>5. DOMAIN code[Func] = DOMAIN Body /\ Fits(Func, code[Func], R)
    BY <1>3, CodeIs DEF HooksOK, Fits
  <1>6. /\ DOMAIN G = DOMAIN code[Func] /\ Fits(Func, G, R)
        /\ \A k \in DOMAIN code[Func] : Events(Func, G[k]) = Events(Func, code[Func][k])
        /\ G[1] # <<>> /\ IsEntry(Func, G[1][1])
    <2> DEFINE f == Func
               H == InstrumThrc(f)
    <2>1. Fits(f, code[f], R) /\ ValidBody(Fn(f).body, mod.succ) /\ DOMAIN code[f] = DOMAIN Fn(f).body
      BY <1>3, <1>5
    <2> HIDE DEF f, R
    <2>2. /\ DOMAIN H = DOMAIN code[f] /\ Fits(f, H, R)
          /\ \A k \in DOMAIN code[f] : Events(f, H[k]) = Events(f, code[f][k])
      BY <2>1, ThrcIs
    <2> HIDE DEF H
    <2>3. DOMAIN H = DOMAIN Fn(f).body
      BY <2>1, <2>2
    <2>4. /\ DOMAIN AddCallTrack(f, H) = DOMAIN H /\ Fits(f, AddCallTrack(f, H), R)
          /\ \A k \in DOMAIN H : Events(f, AddCallTrack(f, H)[k]) = Events(f, H[k])
          /\ AddCallTrack(f, H)[1] # <<>> /\ IsEntry(f, AddCallTrack(f, H)[1][1])
      BY <1>3, <2>1, <2>2, <2>3, CallTrackIs
    <2>5. G = AddCallTrack(f, H)
      BY DEF f, H
    <2> HIDE DEF G
    <2>6. /\ DOMAIN G = DOMAIN code[f] /\ Fits(f, G, R)
          /\ \A k \in DOMAIN code[f] : Events(f, G[k]) = Events(f, code[f][k])
          /\ G[1] # <<>> /\ IsEntry(f, G[1][1])
      BY <2>2, <2>4, <2>5
    <2>q. QED
      BY <2>6 DEF f
  <1> HIDE DEF G, R
  <1>7. /\ DOMAIN code' = DOMAIN code /\ code'[Func] = G
        /\ \A f \in DOMAIN code \ {Func} : code'[f] = code[f]
    BY <1>1, <1>3
  <1>8. ModuleOK'
    BY <1>1 DEF ModuleOK
  <1>9. ASSUME NEW f \in DOMAIN code
        PROVE  /\ DOMAIN code'[f] = DOMAIN code[f]
               /\ \A k \in DOMAIN code[f] : Reportable(f, code'[f][k], Reports(f))
    <2>1. CASE f = Func
      BY <1>6, <1>7, <2>1 DEF R, Fits
    <2>2. CASE f # Func
      BY <1>7, <2>2 DEF HooksOK
    <2>q. QED
      BY <2>1, <2>2
  <1>10. TypeOK'
    <2>1. InstID' \in 0 .. (IF todo' = <<>> THEN 0 ELSE Len(Fn(Head(todo')).body) + 1)
      BY <1>1, <1>4, NotBegun
    <2>2. /\ todo' \in Seq(DOMAIN mod.fn)
          /\ \A x \in m_ExitInsts' : x[1] \in DOMAIN code /\ x[2] \in DOMAIN Fn(x[1]).body
      BY <1>1, <1>4 DEF TypeOK
    <2>3. \A f \in DOMAIN code : /\ DOMAIN code'[f] = DOMAIN code[f]
                                 /\ \A k \in DOMAIN code[f] : IsSeq(code'[f][k])
      BY <1>9 DEF Reportable
    <2>q. QED
      BY <1>1, <1>7, <2>1, <2>2, <2>3, TypeFrame
  <1>11. TodoOK'
    BY <1>1, <1>3, <1>4 DEF TodoOK
  <1>12. HooksOK'
    BY <1>1, <1>7, <1>9, Frame, FrameOwed DEF HooksOK
  <1>13. PlacedOK'
    <2>1. ASSUME NEW f \in DOMAIN code, NEW k \in DOMAIN code[f]
          PROVE  Events(f, code'[f][k]) = IF f \notin Range(todo') THEN Whole(f, k) ELSE <<>>
      <3>1. CASE f = Func
        <4>1. InstID - 1 = Len(Fn(f).body)
          BY <1>3, <3>1
        <4>2. Events(f, code'[f][k]) = Placed(f, Len(Fn(f).body), k)
          BY <1>3, <1>6, <1>7, <3>1, <4>1
        <4>q. QED
          BY <1>1, <1>3, <1>4, <3>1, <4>2 DEF Whole
      <3>2. CASE f # Func
        BY <1>1, <1>4, <1>7, <3>2 DEF PlacedOK
      <3>q. QED
        BY <3>1, <3>2
    <2>q. QED
      BY <1>1, <1>7, <1>9, <2>1, Frame DEF PlacedOK
  <1>14. EntryOK'
    <2>1. ASSUME NEW f \in DOMAIN code, IsVisited(f), f \notin Range(todo')
          PROVE  code'[f][1] # <<>> /\ IsEntry(f, code'[f][1][1])
      <3>1. CASE f = Func
        BY <1>6, <1>7, <3>1
      <3>2. CASE f # Func
        BY <1>1, <1>4, <1>7, <2>1, <3>2 DEF EntryOK
      <3>q. QED
        BY <3>1, <3>2
    <2>q. QED
      BY <1>1, <1>7, <2>1, FrameFn DEF EntryOK, IsEntry
  <1>15. RunTypes' /\ TracedOK' /\ OrderOK' /\ RunTraced' /\ MainOK'
    BY <1>1, VisitFrame
  <1>q. QED
    BY <1>8, <1>10, <1>11, <1>12, <1>13, <1>14, <1>15

LEMMA NoHooks ==
    ASSUME NEW f
    PROVE  /\ Events(f, <<>>)' = <<>> /\ \A R : Reportable(f, <<>>, R)'
           /\ \A R : Reportable(f, <<>>, R)
  <1>1. [n \in DOMAIN <<>> |-> Reported(f, <<>>[n])'] = <<>>
    OBVIOUS
  <1>2. Events(f, <<>>)' = <<>>
    BY <1>1, FlatEmpty DEF Events
  <1>3. \A R : Reportable(f, <<>>, R)' /\ Reportable(f, <<>>, R)
    BY DEF Reportable, IsSeq
  <1>q. QED
    BY <1>2, <1>3

LEMMA LoadLdaBinIInv ==
    ASSUME IInv, LoadLdaBin
    PROVE  IInv'
  <1> USE DEF IInv
  <1>1. /\ phase = "load" /\ phase' = "visit" /\ todo' = mod.order /\ mod' = mod /\ CallTrace' = CallTrace
        /\ ~CallTrace /\ InstID' = 0 /\ m_ExitInsts' = m_ExitInsts /\ UNCHANGED running
        /\ UNCHANGED <<mod, CallTrace>> /\ code' = code
        /\ \A f \in DOMAIN code : \A k \in DOMAIN code[f] : code[f][k] = <<>>
    BY DEF LoadLdaBin, TodoOK
  <1>2. mod.order \in Seq(DOMAIN mod.fn) /\ IsInjective(mod.order) /\ Range(mod.order) = DOMAIN mod.fn
    BY DEF ModuleOK, ValidModule
  <1>3. \A f \in DOMAIN code : f \in Range(todo')
    BY <1>1, <1>2 DEF TypeOK
  <1>4. ModuleOK'
    BY <1>1 DEF ModuleOK
  <1>5. TypeOK'
    <2>1. InstID' \in 0 .. (IF todo' = <<>> THEN 0 ELSE Len(Fn(Head(todo')).body) + 1)
      BY <1>1, <1>2, NotBegun
    <2>q. QED
      BY <1>1, <1>2, <2>1, TypeFrame DEF TypeOK, IsSeq
  <1>6. TodoOK'
    BY <1>1, <1>2 DEF TodoOK
  <1>7. HooksOK'
    BY <1>1, NoHooks DEF HooksOK
  <1>8. PlacedOK'
    BY <1>1, <1>3, NoHooks DEF PlacedOK
  <1>9. EntryOK'
    BY <1>1, <1>3 DEF EntryOK
  <1>10. RunTypes' /\ TracedOK' /\ OrderOK' /\ RunTraced' /\ MainOK'
    BY <1>1, VisitFrame
  <1>q. QED
    BY <1>4, <1>5, <1>6, <1>7, <1>8, <1>9, <1>10

LEMMA TraceCallsIs ==
    ASSUME NEW f, NEW succ, ValidBody(Fn(f).body, succ), CallTrace,
           DOMAIN code[f] = DOMAIN Fn(f).body, \A k \in DOMAIN code[f] : code[f][k] = <<>>
    PROVE  LET G == TraceCalls(f)
           IN  /\ DOMAIN G = DOMAIN code[f] /\ Fits(f, G, Reports(f))
               /\ \A k \in DOMAIN code[f] : Events(f, G[k]) = Owed(f, k)
  <1> DEFINE b == Fn(f).body
             R == Reports(f)
             cs == [k \in DOMAIN b |->
                      IF IsCall(b[k]) /\ ~IsSkipped(b[k])
                      THEN Append(code[f][k], Hook("CS", NoEvent, <<Name(b[k])>>)) ELSE code[f][k]]
             in == InsertFirst(f, cs, b[1].bb, Hook("IN", NoEvent, <<f>>))
             out == InsertFirst(f, in, b[Len(b)].bb, Hook("OUT", NoEvent, <<f>>))
  <1>1. /\ Len(b) \in Nat /\ 1 \in DOMAIN b /\ Len(b) \in DOMAIN b /\ DOMAIN code[f] = DOMAIN b
        /\ FirstNonPhi(f, b[1].bb) \in DOMAIN b /\ FirstNonPhi(f, b[Len(b)].bb) \in DOMAIN b
    BY BodyIs, FirstNonPhiIs
  <1>2. Silent(f, Hook("IN", NoEvent, <<f>>)) /\ Silent(f, Hook("OUT", NoEvent, <<f>>))
    BY SilentHooks
  <1>3. ASSUME NEW k \in DOMAIN b PROVE Reportable(f, cs[k], R) /\ Events(f, cs[k]) = Owed(f, k)
    <2> DEFINE e == <<>>
               h == Hook("CS", NoEvent, <<Name(b[k])>>)
    <2>1. Reportable(f, e, R) /\ Events(f, e) = <<>> /\ code[f][k] = e
      BY <1>1, NoHooks, EventsEmpty
    <2>2. CASE Due(f, k)
      <3>1. Reported(f, h) = Owed(f, k) /\ Owed(f, k) \in Seq(R)
        BY <2>2, CallHookIs, OwedType
      <3>2. cs[k] = Append(e, h)
        BY <1>1, <2>1, <2>2 DEF Due
      <3> HIDE DEF e, h, R, cs
      <3>3. Reportable(f, Append(e, h), R) /\ Events(f, Append(e, h)) = Events(f, e) \o Reported(f, h)
        <4>1. Reportable(f, e, R)
          BY <2>1
        <4>2. Reported(f, h) \in Seq(R)
          BY <3>1
        <4>q. QED
          BY <4>1, <4>2, EventsAppend
      <3>4. Events(f, Append(e, h)) = Owed(f, k)
        BY <2>1, <3>1, <3>3, ConcatEmptySeq
      <3>q. QED
        BY <3>2, <3>3, <3>4
    <2>3. CASE ~Due(f, k)
      <3>1. cs[k] = e /\ Owed(f, k) = <<>>
        BY <1>1, <2>1, <2>3 DEF Due, Owed
      <3>q. QED
        BY <2>1, <3>1
    <2>q. QED
      BY <2>2, <2>3
  <1>4. TraceCalls(f) = out
    BY DEF TraceCalls
  <1>5. DOMAIN cs = DOMAIN b
    OBVIOUS
  <1> HIDE DEF cs, R
  <1>6. Fits(f, cs, R)
    BY <1>3, <1>5 DEF Fits
  <1>7. DOMAIN in = DOMAIN cs /\ Fits(f, in, R) /\ \A j \in DOMAIN cs : Events(f, in[j]) = Events(f, cs[j])
    <2>1. FirstNonPhi(f, b[1].bb) \in DOMAIN cs
      BY <1>1, <1>5
    <2>q. QED
      BY <1>2, <1>6, <2>1, InsertFirstIs
  <1> HIDE DEF in
  <1>8. DOMAIN out = DOMAIN in /\ Fits(f, out, R) /\ \A j \in DOMAIN in : Events(f, out[j]) = Events(f, in[j])
    <2>1. FirstNonPhi(f, b[Len(b)].bb) \in DOMAIN in
      BY <1>1, <1>5, <1>7
    <2>q. QED
      BY <1>2, <1>7, <2>1, InsertFirstIs
  <1> HIDE DEF out
  <1>q. QED
    BY <1>1, <1>3, <1>4, <1>5, <1>7, <1>8 DEF R

LEMMA InstrmCallTraceIInv ==
    ASSUME IInv, InstrmCallTrace
    PROVE  IInv'
  <1> USE DEF IInv
  <1>1. /\ phase = "load" /\ phase' = "visit" /\ todo' = <<>> /\ todo = <<>> /\ mod' = mod
        /\ CallTrace' = CallTrace /\ m_Fname2Flda' = m_Fname2Flda /\ m_Fname2Flda = <<>>
        /\ CallTrace /\ InstID' = 0 /\ m_ExitInsts' = m_ExitInsts /\ UNCHANGED running
        /\ UNCHANGED <<mod, CallTrace>> /\ UNCHANGED given
        /\ code' = [f \in DOMAIN code |-> TraceCalls(f)]
        /\ \A f \in DOMAIN code : \A k \in DOMAIN code[f] : code[f][k] = <<>>
    BY DEF InstrmCallTrace, TodoOK, given
  <1>2. ASSUME NEW f \in DOMAIN code
        PROVE  /\ DOMAIN code'[f] = DOMAIN code[f] /\ Fits(f, code'[f], Reports(f))
               /\ \A k \in DOMAIN code[f] : Events(f, code'[f][k]) = Owed(f, k)
    <2>1. ValidBody(Fn(f).body, mod.succ) /\ DOMAIN code[f] = DOMAIN Fn(f).body
      BY CodeIs
    <2>2. LET G == TraceCalls(f)
          IN  /\ DOMAIN G = DOMAIN code[f] /\ Fits(f, G, Reports(f))
              /\ \A k \in DOMAIN code[f] : Events(f, G[k]) = Owed(f, k)
      BY <1>1, <2>1, TraceCallsIs
    <2>q. QED
      BY <1>1, <2>2
  <1>3. DOMAIN code' = DOMAIN code
    BY <1>1
  <1>4. ModuleOK'
    BY <1>1 DEF ModuleOK
  <1>5. TypeOK'
    <2>1. InstID' \in 0 .. (IF todo' = <<>> THEN 0 ELSE Len(Fn(Head(todo')).body) + 1)
      BY <1>1
    <2>2. \A f \in DOMAIN code : /\ DOMAIN code'[f] = DOMAIN code[f]
                                 /\ \A k \in DOMAIN code[f] : IsSeq(code'[f][k])
      BY <1>2 DEF Fits, Reportable
    <2>3. /\ todo' \in Seq(DOMAIN mod.fn)
          /\ \A x \in m_ExitInsts' : x[1] \in DOMAIN code /\ x[2] \in DOMAIN Fn(x[1]).body
      BY <1>1 DEF TypeOK
    <2>q. QED
      BY <1>1, <1>3, <2>1, <2>2, <2>3, TypeFrame
  <1>6. TodoOK'
    BY <1>1 DEF TodoOK
  <1>7. HooksOK'
    <2>1. \A f \in DOMAIN code : \A k \in DOMAIN code'[f] : Reportable(f, code'[f][k], Reports(f))
      BY <1>2 DEF Fits
    <2>q. QED
      BY <1>1, <1>3, <2>1, Frame, FrameOwed DEF HooksOK
  <1>8. PlacedOK'
    <2>1. \A f \in DOMAIN code : \A k \in DOMAIN code'[f] :
              f \notin Range(todo') /\ Events(f, code'[f][k]) = Whole(f, k)
      BY <1>1, <1>2 DEF Whole, Range
    <2>q. QED
      BY <1>3, <1>1, <2>1, Frame DEF PlacedOK
  <1>9. EntryOK'
    <2>1. \A f : ~IsVisited(f)'
      BY <1>1 DEF IsVisited
    <2>q. QED
      BY <2>1 DEF EntryOK
  <1>10. RunTypes' /\ TracedOK' /\ OrderOK' /\ RunTraced' /\ MainOK'
    BY <1>1, VisitFrame
  <1>q. QED
    BY <1>4, <1>5, <1>6, <1>7, <1>8, <1>9, <1>10

\* The hooks of the begin and the end of the program report nothing, and stand where
\* they should.
LEMMA HookedIs ==
    ASSUME ModuleOK, TypeOK, HooksOK, "main" \in DOMAIN code
    PROVE  /\ DOMAIN Hooked = DOMAIN code
           /\ \A f \in DOMAIN code :
                 /\ DOMAIN Hooked[f] = DOMAIN code[f] /\ Fits(f, Hooked[f], Reports(f))
                 /\ \A k \in DOMAIN code[f] : Events(f, Hooked[f][k]) = Events(f, code[f][k])
           /\ Hooked["main"][1] # <<>> /\ Hooked["main"][1][1].kind = "init"
           /\ code["main"][1] # <<>> =>
                 Len(Hooked["main"][1]) > 1 /\ Hooked["main"][1][2] = code["main"][1][1]
           /\ \A k \in DOMAIN code["main"] : <<"main", k>> \in Ends =>
                 Hooked["main"][k] # <<>> /\ Last(Hooked["main"][k]).kind = "exit"
  <1> DEFINE bb == Fn("main").body[1].bb
             h == Hook("init", NoEvent, <<>>)
             x == Hook("exit", NoEvent, <<>>)
             M == InsertFirst("main", code["main"], bb, h)
             init == [code EXCEPT !["main"] = M]
  <1>1. /\ DOMAIN Hooked = DOMAIN code
        /\ \A f \in DOMAIN code : /\ DOMAIN Hooked[f] = DOMAIN code[f]
                                  /\ \A k \in DOMAIN code[f] :
                                        Hooked[f][k] = IF <<f, k>> \in Ends THEN Append(init[f][k], x) ELSE init[f][k]
    BY Zenon DEF Hooked
  <1>2. init["main"] = M /\ \A f \in DOMAIN code \ {"main"} : init[f] = code[f]
    OBVIOUS
  <1>3. h.kind = "init" /\ x.kind = "exit" /\ \A f : Silent(f, h) /\ Silent(f, x)
    BY SilentHooks DEF Hook
  <1>4. /\ FirstNonPhi("main", bb) = 1 /\ 1 \in DOMAIN code["main"]
        /\ Fits("main", code["main"], Reports("main")) /\ IsSeq(code["main"][1])
    BY CodeIs, EntryIs DEF HooksOK, Fits
  <1> HIDE DEF init, M, h, x, bb
  <1>5. /\ DOMAIN M = DOMAIN code["main"] /\ Fits("main", M, Reports("main"))
        /\ \A k \in DOMAIN code["main"] : Events("main", M[k]) = Events("main", code["main"][k])
        /\ M[1] = Cons(h, code["main"][1])
    <2> DEFINE H == code["main"]
               R == Reports("main")
    <2>1. M = InsertFirst("main", H, bb, h) /\ FirstNonPhi("main", bb) \in DOMAIN H /\ Fits("main", H, R)
          /\ Silent("main", h)
      BY <1>3, <1>4 DEF M
    <2> HIDE DEF H, R
    <2>2. /\ DOMAIN M = DOMAIN H /\ Fits("main", M, R) /\ \A j \in DOMAIN H : Events("main", M[j]) = Events("main", H[j])
          /\ M[1] = Cons(h, H[1])
      BY <1>4, <2>1, InsertFirstIs
    <2>q. QED
      BY <2>2 DEF H, R
  <1>6. ASSUME NEW f \in DOMAIN code, NEW k \in DOMAIN code[f]
        PROVE  Reportable(f, init[f][k], Reports(f)) /\ Events(f, init[f][k]) = Events(f, code[f][k])
    <2>1. CASE f = "main"
      BY <1>2, <1>5, <2>1 DEF Fits
    <2>2. CASE f # "main"
      BY <1>2, <2>2 DEF HooksOK
    <2>q. QED
      BY <2>1, <2>2
  <1>7. ASSUME NEW f \in DOMAIN code, NEW k \in DOMAIN code[f]
        PROVE  Reportable(f, Hooked[f][k], Reports(f)) /\ Events(f, Hooked[f][k]) = Events(f, code[f][k])
    <2> DEFINE s == init[f][k]
               R == Reports(f)
    <2>1. Reportable(f, s, R) /\ Events(f, s) = Events(f, code[f][k])
      BY <1>6
    <2>2. Hooked[f][k] = IF <<f, k>> \in Ends THEN Append(s, x) ELSE s
      BY <1>1
    <2> HIDE DEF s, R
    <2>3. Reportable(f, Append(s, x), R) /\ Events(f, Append(s, x)) = Events(f, s)
      BY <1>3, <2>1, AppendSilent
    <2>4. Reportable(f, Hooked[f][k], R) /\ Events(f, Hooked[f][k]) = Events(f, code[f][k])
      BY <2>1, <2>2, <2>3
    <2>q. QED
      BY <2>4 DEF R
  <1>8. \A f \in DOMAIN code : Fits(f, Hooked[f], Reports(f))
    BY <1>1, <1>7 DEF Fits
  <1>9. ASSUME NEW k \in DOMAIN code["main"]
        PROVE  /\ IsSeq(M[k]) /\ IsSeq(Append(M[k], x))
               /\ Hooked["main"][k] = IF <<"main", k>> \in Ends THEN Append(M[k], x) ELSE M[k]
               /\ Append(M[k], x) # <<>> /\ Last(Append(M[k], x)) = x
               /\ Len(Append(M[k], x)) = Len(M[k]) + 1 /\ Len(M[k]) \in Nat
               /\ \A j \in 1 .. Len(M[k]) : Append(M[k], x)[j] = M[k][j]
    <2>1. IsSeq(M[k])
      BY <1>5 DEF Fits, Reportable
    <2>2. Hooked["main"][k] = IF <<"main", k>> \in Ends THEN Append(M[k], x) ELSE M[k]
      BY <1>1, <1>2
    <2>q. QED
      BY <2>1, <2>2, AppendIs, SeqIs
  <1>10. \A k \in DOMAIN code["main"] : <<"main", k>> \in Ends =>
                 Hooked["main"][k] # <<>> /\ Last(Hooked["main"][k]).kind = "exit"
    BY <1>3, <1>9
  <1>11. /\ Len(M[1]) = Len(code["main"][1]) + 1 /\ M[1][1] = h /\ Len(code["main"][1]) \in Nat
         /\ M[1] # <<>>
         /\ \A j \in 1 .. Len(code["main"][1]) : M[1][j + 1] = code["main"][1][j]
    <2> DEFINE c == code["main"][1]
    <2>1. IsSeq(c) /\ M[1] = Cons(h, c)
      BY <1>4, <1>5
    <2> HIDE DEF c
    <2>2. /\ Len(M[1]) = Len(c) + 1 /\ M[1][1] = h /\ M[1] # <<>> /\ Len(c) \in Nat
          /\ \A j \in 1 .. Len(c) : M[1][j + 1] = c[j]
      BY <2>1, ConsIs, SeqIs
    <2>q. QED
      BY <2>2 DEF c
  <1>12. /\ Hooked["main"][1] # <<>> /\ Len(Hooked["main"][1]) >= Len(M[1]) /\ IsSeq(Hooked["main"][1])
         /\ \A j \in 1 .. Len(M[1]) : Hooked["main"][1][j] = M[1][j]
    <2> DEFINE m == M[1]
               a == Append(m, x)
               w == Hooked["main"][1]
    <2>1. /\ IsSeq(m) /\ IsSeq(a) /\ a # <<>> /\ Len(a) = Len(m) + 1 /\ Len(m) \in Nat /\ m # <<>>
          /\ \A j \in 1 .. Len(m) : a[j] = m[j]
      BY <1>4, <1>9, <1>11
    <2>2. w = a \/ w = m
      BY <1>4, <1>9
    <2> HIDE DEF m, a, w
    <2>3. w # <<>> /\ Len(w) >= Len(m) /\ IsSeq(w) /\ \A j \in 1 .. Len(m) : w[j] = m[j]
      BY <2>1, <2>2
    <2>q. QED
      BY <2>3 DEF m, w
  <1>13. Hooked["main"][1][1].kind = "init"
    <2>1. 1 \in 1 .. Len(M[1])
      BY <1>11
    <2>q. QED
      BY <1>3, <1>11, <1>12, <2>1
  <1>14. ASSUME code["main"][1] # <<>>
         PROVE  Len(Hooked["main"][1]) > 1 /\ Hooked["main"][1][2] = code["main"][1][1]
    <2>1. Len(code["main"][1]) # 0
      BY <1>4, <1>14, SeqIs
    <2>2. 1 \in 1 .. Len(code["main"][1]) /\ 1 + 1 = 2 /\ 2 \in 1 .. Len(M[1]) /\ Len(Hooked["main"][1]) > 1
      <3>1. Len(Hooked["main"][1]) \in Nat
        BY <1>12, SeqIs
      <3>q. QED
        BY <1>11, <1>12, <2>1, <3>1
    <2>q. QED
      BY <1>11, <1>12, <2>2
  <1>q. QED
    BY <1>1, <1>7, <1>8, <1>10, <1>12, <1>13, <1>14

LEMMA InitInstrumenterIInv ==
    ASSUME IInv, InitInstrumenter
    PROVE  IInv'
  <1> USE DEF IInv
  <1>1. /\ phase = "visit" /\ phase' = "run" /\ todo = <<>> /\ todo' = <<>> /\ mod' = mod
        /\ CallTrace' = CallTrace /\ m_Fname2Flda' = m_Fname2Flda /\ UNCHANGED given
        /\ m_ExitInsts' = m_ExitInsts /\ executed' = <<>> /\ trace' = <<>> /\ executed = <<>> /\ trace = <<>>
        /\ code' = IF "main" \in DOMAIN code THEN Hooked ELSE code
    BY DEF InitInstrumenter, given, RunTypes
  <1>2. PICK g \in DOMAIN code : fn' = g /\ pc' = 1 /\ hooks' = code'[g][1]
    BY DEF InitInstrumenter
  <1>3. InstID' = 0 /\ InstID = 0
    <2>1. InstID' = InstID /\ InstID \in 0 .. 0
      BY <1>1 DEF InitInstrumenter, TypeOK
    <2>q. QED
      BY <2>1
  <1>4. /\ DOMAIN code' = DOMAIN code
        /\ \A f \in DOMAIN code :
              /\ DOMAIN code'[f] = DOMAIN code[f] /\ Fits(f, code'[f], Reports(f))
              /\ \A k \in DOMAIN code[f] : Events(f, code'[f][k]) = Events(f, code[f][k])
    <2>1. CASE "main" \in DOMAIN code
      BY <1>1, <2>1, HookedIs
    <2>2. CASE "main" \notin DOMAIN code
      BY <1>1, <2>2 DEF HooksOK, Fits
    <2>q. QED
      BY <2>1, <2>2
  <1>5. \A f \in DOMAIN code : \A k \in DOMAIN code[f] : Events(f, code'[f][k]) = Whole(f, k)
    BY <1>1, <1>4 DEF PlacedOK, Range
  <1>6. ModuleOK'
    BY <1>1 DEF ModuleOK
  <1>7. /\ g \in DOMAIN code' /\ 1 \in DOMAIN code[g] /\ DOMAIN code[g] = DOMAIN Fn(g).body
        /\ ValidBody(Fn(g).body, mod.succ) /\ 1 \in DOMAIN Fn(g).body
    BY <1>4, CodeIs
  <1>8. TypeOK'
    <2>1. \A f : Fn(f)' = Fn(f)
      BY <1>1 DEF Fn
    <2>2. \A f \in DOMAIN code : \A k \in DOMAIN code'[f] : IsSeq(code'[f][k])
      BY <1>4 DEF Fits, Reportable
    <2>3. /\ CallTrace \in BOOLEAN /\ DOMAIN code = {f \in DOMAIN mod.fn : ~Fn(f).decl}
          /\ \A f \in DOMAIN code : DOMAIN code[f] = DOMAIN Fn(f).body
          /\ \A x \in m_ExitInsts : x[1] \in DOMAIN code /\ x[2] \in DOMAIN Fn(x[1]).body
          /\ todo \in Seq(DOMAIN mod.fn)
      BY DEF TypeOK
    <2>4. InstID' \in 0 .. (IF todo' = <<>> THEN 0 ELSE Len(Body') + 1)
      BY <1>1, <1>3
    <2>5. fn' \in DOMAIN code' /\ pc' \in DOMAIN Fn(fn').body
      BY <1>2, <1>7
    <2>6. \A n \in DOMAIN executed' : executed'[n] \in DOMAIN Fn(fn').body
      BY <1>1
    <2>7. \A f \in DOMAIN code' : DOMAIN code'[f] = DOMAIN Fn(f).body
      BY <1>4, <2>3
    <2>8. DOMAIN code' = {f \in DOMAIN mod'.fn : ~Fn(f)'.decl}
      BY <1>1, <1>4, <2>1, <2>3
    <2>9. /\ todo' \in Seq(DOMAIN mod'.fn) /\ CallTrace' \in BOOLEAN
          /\ \A x \in m_ExitInsts' : x[1] \in DOMAIN code' /\ x[2] \in DOMAIN Fn(x[1]).body
      BY <1>1, <1>4, <2>3
    <2>q. QED
      BY <1>1, <2>1, <2>2, <2>4, <2>5, <2>6, <2>7, <2>8, <2>9 DEF TypeOK, IsSeq
  <1>9. TodoOK'
    BY <1>1, <1>3 DEF TodoOK
  <1>10. HooksOK'
    BY <1>1, <1>4, Frame, FrameOwed DEF HooksOK, Fits
  <1>11. PlacedOK'
    BY <1>1, <1>4, <1>5, Frame DEF PlacedOK, Range
  <1>12. EntryOK'
    BY <1>1 DEF EntryOK
  <1>13. MainOK'
    <2> SUFFICES ASSUME "main" \in DOMAIN code PROVE MainOK'
      BY <1>4 DEF MainOK
    <2>1. code' = Hooked /\ DOMAIN code'["main"] = DOMAIN code["main"] /\ 1 \in DOMAIN code["main"]
      BY <1>1, <1>4, CodeIs
    <2>2. /\ code'["main"][1] # <<>> /\ code'["main"][1][1].kind = "init"
          /\ \A k \in DOMAIN code["main"] : <<"main", k>> \in Ends =>
                 code'["main"][k] # <<>> /\ Last(code'["main"][k]).kind = "exit"
      BY <2>1, HookedIs
    <2>3. IsVisited("main") => Len(code'["main"][1]) > 1 /\ IsEntry("main", code'["main"][1][2])
      <3>1. IsVisited("main") => code["main"][1] # <<>> /\ IsEntry("main", code["main"][1][1])
        BY <1>1 DEF EntryOK, Range
      <3>q. QED
        BY <2>1, <3>1, HookedIs
    <2>4. Ends' = Ends
      BY <1>1, FrameFn DEF Ends
    <2>q. QED
      BY <1>1, <2>1, <2>2, <2>3, <2>4, FrameFn DEF MainOK, IsEntry
  <1>14. Reportable(g, hooks', Reports(g)) /\ Events(g, hooks') = Whole(g, 1)
    BY <1>2, <1>4, <1>5, <1>7 DEF Fits
  <1>15. RunTypes'
    <2>1. Reportable(g, trace', Reports(g)) /\ IsSeq(executed')
      <3>1. Reportable(g, <<>>, Reports(g))
        BY NoHooks
      <3>2. IsSeq(<<>>)
        BY <3>1 DEF Reportable
      <3>q. QED
        BY <1>1, <3>1, <3>2
    <2>2. fn' = g /\ Reports(g)' = Reports(g) /\ phase' = "run"
      BY <1>1, <1>2, FrameOwed
    <2>q. QED
      BY <1>1, <1>14, <2>1, <2>2, Frame DEF RunTypes, IsSeq
  <1>16. TracedOK'
    <2>1. ~IsPhi(g, 1) /\ Pend(g, 1) = <<>>
      <3>1. \A j \in 1 .. 1 - 1 : Fn(g).body[j].bb # Fn(g).body[1].bb
        OBVIOUS
      <3>q. QED
        BY <1>7, <3>1, BodyIs, PendStart DEF IsPhi
    <2>2. Own(g, 1) \in Seq(Reports(g)) /\ Whole(g, 1) = Pend(g, 1) \o Own(g, 1)
      BY <1>7, <2>1, PendType, WholeIs
    <2>3. Events(g, hooks') = Own(g, 1)
      BY <1>14, <2>1, <2>2, ConcatEmptySeq
    <2>4. Dues(g, executed') = <<>> /\ Events(g, trace') = <<>>
      <3>1. [n \in DOMAIN <<>> |-> Owed(g, <<>>[n])] = <<>>
        OBVIOUS
      <3>q. QED
        BY <1>1, <3>1, FlatEmpty, EventsEmpty DEF Dues
    <2>5. Dues(g, executed') \o Own(g, 1) = Events(g, trace') \o Events(g, hooks')
      BY <2>3, <2>4
    <2>q. QED
      BY <1>1, <1>2, <2>1, <2>5, Frame, FrameFn, FrameOwed DEF TracedOK
  <1>17. OrderOK'
    <2>1. IsSeq(hooks')
      BY <1>14 DEF Reportable
    <2>2. <<>> \o hooks' = hooks'
      BY <2>1, ConcatEmptySeq DEF IsSeq
    <2>q. QED
      BY <1>1, <1>2, <2>2 DEF OrderOK
  <1>18. RunTraced'
    BY <1>1 DEF RunTraced
  <1>q. QED
    BY <1>6, <1>8, <1>9, <1>10, <1>11, <1>12, <1>13, <1>15, <1>16, <1>17, <1>18
-----------------------------------------------------------------------------
(***************************************************************************)
(* The steps of a run                                                      *)
(***************************************************************************)
\* The function that runs, and the instruction it is at.
LEMMA Running ==
    ASSUME IInv, phase = "run"
    PROVE  /\ fn \in DOMAIN code /\ pc \in DOMAIN Fn(fn).body /\ pc \in DOMAIN code[fn]
           /\ fn \in DOMAIN mod.fn /\ ValidBody(Fn(fn).body, mod.succ) /\ DOMAIN code[fn] = DOMAIN Fn(fn).body
           /\ 1 \in DOMAIN code[fn] /\ todo = <<>>
           /\ IsSeq(executed) /\ \A n \in DOMAIN executed : executed[n] \in DOMAIN Fn(fn).body
           /\ Reportable(fn, hooks, Reports(fn)) /\ Reportable(fn, trace, Reports(fn))
           /\ Events(fn, hooks) \in Seq(Reports(fn)) /\ Events(fn, trace) \in Seq(Reports(fn))
           /\ Dues(fn, executed) \in Seq(Reports(fn))
           /\ Dues(fn, Append(executed, pc)) = Dues(fn, executed) \o Owed(fn, pc)
           /\ \A k \in DOMAIN code[fn] : /\ Reportable(fn, code[fn][k], Reports(fn))
                                         /\ Events(fn, code[fn][k]) = Whole(fn, k)
  <1> USE DEF IInv
  <1>1. /\ fn \in DOMAIN code /\ pc \in DOMAIN Fn(fn).body
        /\ \A n \in DOMAIN executed : executed[n] \in DOMAIN Fn(fn).body
    BY DEF TypeOK
  <1>2. /\ fn \in DOMAIN mod.fn /\ ValidBody(Fn(fn).body, mod.succ) /\ DOMAIN code[fn] = DOMAIN Fn(fn).body
        /\ 1 \in DOMAIN code[fn]
    BY <1>1, CodeIs
  <1>3. todo = <<>>
    BY DEF TodoOK
  <1>4. IsSeq(executed) /\ Reportable(fn, hooks, Reports(fn)) /\ Reportable(fn, trace, Reports(fn))
    BY DEF RunTypes
  <1>5. Events(fn, hooks) \in Seq(Reports(fn)) /\ Events(fn, trace) \in Seq(Reports(fn))
    BY <1>4, EventsIs
  <1>6. /\ Dues(fn, executed) \in Seq(Reports(fn))
        /\ Dues(fn, Append(executed, pc)) = Dues(fn, executed) \o Owed(fn, pc)
    BY <1>1, <1>4, DuesAppend
  <1>7. \A k \in DOMAIN code[fn] : /\ Reportable(fn, code[fn][k], Reports(fn))
                                   /\ Events(fn, code[fn][k]) = Whole(fn, k)
    BY <1>1, <1>3 DEF HooksOK, PlacedOK, Range
  <1>q. QED
    BY <1>1, <1>2, <1>3, <1>4, <1>5, <1>6, <1>7

\* The types, when a run takes a step.
LEMMA RunTypeFrame ==
    ASSUME IInv, phase = "run", phase' \in {"run", "end"}, UNCHANGED <<mod, bin, CallTrace, state>>,
           fn' = fn, pc' \in DOMAIN Fn(fn).body,
           executed' = executed \/ executed' = Append(executed, pc)
    PROVE  TypeOK' /\ IsSeq(executed')
  <1> USE DEF IInv
  <1>1. /\ mod' = mod /\ CallTrace' = CallTrace /\ todo' = todo /\ InstID' = InstID /\ code' = code
        /\ m_ExitInsts' = m_ExitInsts
    BY DEF state
  <1>2. /\ \A f : Fn(f)' = Fn(f)
        /\ Body' = Body
    BY <1>1 DEF Fn, Body, Func
  <1>3. /\ fn \in DOMAIN code /\ pc \in DOMAIN Fn(fn).body /\ IsSeq(executed)
        /\ \A n \in DOMAIN executed : executed[n] \in DOMAIN Fn(fn).body
    BY Running
  <1>4. IsSeq(executed') /\ \A n \in DOMAIN executed' : executed'[n] \in DOMAIN Fn(fn).body
    <2>1. CASE executed' = executed
      BY <1>3, <2>1
    <2>2. CASE executed' = Append(executed, pc)
      BY <1>3, <2>2, AppendIs
    <2>q. QED
      BY <2>1, <2>2
  <1>5. /\ CallTrace \in BOOLEAN /\ todo \in Seq(DOMAIN mod.fn)
        /\ InstID \in 0 .. (IF todo = <<>> THEN 0 ELSE Len(Body) + 1)
        /\ DOMAIN code = {f \in DOMAIN mod.fn : ~Fn(f).decl}
        /\ \A f \in DOMAIN code : /\ DOMAIN code[f] = DOMAIN Fn(f).body
                                  /\ \A k \in DOMAIN code[f] : code[f][k] \in Seq(Range(code[f][k]))
        /\ \A x \in m_ExitInsts : x[1] \in DOMAIN code /\ x[2] \in DOMAIN Fn(x[1]).body
    BY DEF TypeOK
  <1>q. QED
    BY <1>1, <1>2, <1>3, <1>4, <1>5 DEF TypeOK

LEMMA Concat4 ==
    ASSUME NEW S, NEW x \in Seq(S), NEW y \in Seq(S), NEW z \in Seq(S)
    PROVE  (x \o y) \o z = x \o (y \o z) /\ x \o y \in Seq(S) /\ x \o <<>> = x /\ <<>> \o x = x
  BY ConcatAssociative, ConcatEmptySeq, ConcatProperties

LEMMA RunHookIInv ==
    ASSUME IInv, RunHook
    PROVE  IInv'
  <1> USE DEF IInv
  <1> DEFINE R == Reports(fn)
             h == Head(hooks)
             r == Tail(hooks)
  <1>1. /\ phase = "run" /\ phase' = "run" /\ hooks # <<>> /\ trace' = Append(trace, h) /\ hooks' = r
        /\ fn' = fn /\ pc' = pc /\ executed' = executed /\ UNCHANGED <<mod, bin, CallTrace, state>>
        /\ UNCHANGED given /\ code' = code
    BY DEF RunHook, state, given
  <1>2. ModuleOK' /\ TodoOK' /\ HooksOK' /\ PlacedOK' /\ EntryOK' /\ MainOK'
    BY <1>1, RunFrame
  <1>3. /\ fn \in DOMAIN code /\ pc \in DOMAIN Fn(fn).body /\ 1 \in DOMAIN code[fn]
        /\ Reportable(fn, hooks, R) /\ Reportable(fn, trace, R)
        /\ Events(fn, trace) \in Seq(R) /\ ValidBody(Fn(fn).body, mod.succ)
    BY <1>1, Running
  <1>4. TypeOK' /\ IsSeq(executed')
    BY <1>1, <1>3, RunTypeFrame
  <1>5. /\ Reportable(fn, r, R) /\ Reported(fn, h) \in Seq(R)
        /\ Events(fn, hooks) = Reported(fn, h) \o Events(fn, r)
    BY <1>1, <1>3, EventsHead
  <1>6. /\ Reportable(fn, Append(trace, h), R)
        /\ Events(fn, Append(trace, h)) = Events(fn, trace) \o Reported(fn, h)
    <2> HIDE DEF h, R
    <2>q. QED
      BY <1>3, <1>5, EventsAppend
  <1>7. Events(fn, r) \in Seq(R)
    <2> HIDE DEF r, R
    <2>q. QED
      BY <1>5, EventsIs
  <1>8. RunTypes'
    <2>1. Reports(fn)' = R
      BY <1>1, FrameOwed
    <2>q. QED
      BY <1>1, <1>4, <1>5, <1>6, <2>1, Frame DEF RunTypes
  <1>9. TracedOK'
    <2> DEFINE D == Dues(fn, executed)
               t == Events(fn, trace)
               e == Reported(fn, h)
               s == Events(fn, r)
    <2>1. Events(fn, trace') = t \o e /\ Events(fn, hooks') = s /\ Events(fn, hooks) = e \o s
      BY <1>1, <1>5, <1>6
    <2>2. t \in Seq(R) /\ e \in Seq(R) /\ s \in Seq(R)
      BY <1>3, <1>5, <1>7
    <2>3. CASE IsPhi(fn, pc)
      <3>1. e \o s = <<>> /\ D = t \o Pend(fn, pc)
        BY <1>1, <2>1, <2>3 DEF TracedOK
      <3> HIDE DEF t, e, s, R, D
      <3>2. e = <<>> /\ s = <<>>
        BY <2>2, <3>1
      <3>3. t \o e = t
        BY <2>2, <3>2, Concat4
      <3>4. Events(fn, hooks') = <<>> /\ D = Events(fn, trace') \o Pend(fn, pc)
        BY <2>1, <3>1, <3>2, <3>3
      <3>q. QED
        BY <1>1, <2>3, <3>4, Frame, FrameFn DEF TracedOK, D
    <2>4. CASE ~IsPhi(fn, pc)
      <3>1. D \o Own(fn, pc) = t \o (e \o s)
        BY <1>1, <2>1, <2>4 DEF TracedOK
      <3> HIDE DEF t, e, s, R, D
      <3>2. (t \o e) \o s = t \o (e \o s)
        BY <2>2, Concat4
      <3>3. D \o Own(fn, pc) = Events(fn, trace') \o Events(fn, hooks')
        BY <2>1, <3>1, <3>2
      <3>q. QED
        BY <1>1, <2>4, <3>3, Frame, FrameFn, FrameOwed DEF TracedOK, D
    <2>q. QED
      BY <2>3, <2>4
  <1>10. OrderOK'
    <2>1. /\ IsSeq(hooks) /\ IsSeq(trace) /\ IsSeq(r) /\ Len(hooks) \in Nat /\ Len(trace) \in Nat
      BY <1>3, <1>5, SeqIs DEF Reportable
    <2>2. /\ r # <<>> => Last(r) = Last(hooks)
          /\ r = <<>> => Last(hooks) = h
          /\ hooks = Cons(h, r)
      BY <1>1, <2>1, TailIs
    <2> HIDE DEF r, h
    <2>3. /\ trace' # <<>> /\ Last(trace') = h /\ Len(trace') = Len(trace) + 1
          /\ \A j \in 1 .. Len(trace) : trace'[j] = trace[j]
      BY <1>1, <2>1, AppendIs
    <2>4. trace' \o hooks' = trace \o hooks
      <3> DEFINE S == Range(trace) \cup Range(r) \cup {h}
      <3>1. trace \in Seq(S) /\ r \in Seq(S) /\ h \in S
        BY <2>1 DEF IsSeq
      <3> HIDE DEF S
      <3>2. Append(trace, h) = trace \o <<h>>
        BY <3>1
      <3>3. <<h>> \in Seq(S)
        BY <3>1
      <3>4. (trace \o <<h>>) \o r = trace \o (<<h>> \o r)
        BY <3>1, <3>3, Concat4
      <3>q. QED
        BY <1>1, <2>2, <3>2, <3>4 DEF Cons
    <2>5. /\ executed = <<>> => pc = 1 /\ trace \o hooks = code[fn][1]
          /\ executed # <<>> => /\ Len(code[fn][1]) <= Len(trace)
                                /\ \A n \in DOMAIN code[fn][1] : trace[n] = code[fn][1][n]
          /\ code[fn][pc] # <<>> => Last(hooks) = Last(code[fn][pc])
      BY <1>1 DEF OrderOK
    <2>6. IsSeq(code[fn][1])
      BY <1>3, Running, <1>1 DEF Reportable
    <2>7. executed # <<>> => /\ Len(code[fn][1]) <= Len(trace')
                             /\ \A n \in DOMAIN code[fn][1] : trace'[n] = code[fn][1][n]
      <3> SUFFICES ASSUME executed # <<>>
                   PROVE  /\ Len(code[fn][1]) <= Len(trace')
                          /\ \A n \in DOMAIN code[fn][1] : trace'[n] = code[fn][1][n]
        OBVIOUS
      <3>1. DOMAIN code[fn][1] = 1 .. Len(code[fn][1]) /\ Len(code[fn][1]) \in Nat
        BY <2>6, SeqIs
      <3>2. Len(code[fn][1]) <= Len(trace')
        BY <2>1, <2>3, <2>5, <3>1
      <3>3. \A n \in DOMAIN code[fn][1] : n \in 1 .. Len(trace)
        BY <2>1, <2>5, <3>1
      <3>q. QED
        BY <2>3, <2>5, <3>2, <3>3
    <2>8. code[fn][pc] # <<>> =>
              IF hooks' # <<>> THEN Last(hooks') = Last(code[fn][pc])
              ELSE trace' # <<>> /\ Last(trace') = Last(code[fn][pc])
      BY <1>1, <2>2, <2>3, <2>5
    <2>q. QED
      BY <1>1, <2>4, <2>5, <2>7, <2>8 DEF OrderOK
  <1>11. RunTraced'
    BY <1>1 DEF RunTraced
  <1>q. QED
    BY <1>2, <1>4, <1>8, <1>9, <1>10, <1>11

\* A run comes to the next instruction, with its hooks, and all that was due until then
\* is traced but for what waits there.
LEMMA Arrive ==
    ASSUME IInv, AtInst, NEW k \in DOMAIN Fn(fn).body, GoTo(k),
           Dues(fn, Append(executed, pc)) = Events(fn, trace) \o Pend(fn, k)
    PROVE  IInv'
  <1> USE DEF IInv
  <1> DEFINE R == Reports(fn)
  <1>1. /\ phase = "run" /\ phase' = "run" /\ hooks = <<>> /\ trace' = trace /\ hooks' = code[fn][k]
        /\ fn' = fn /\ pc' = k /\ executed' = Append(executed, pc) /\ UNCHANGED <<mod, bin, CallTrace, state>>
        /\ UNCHANGED given /\ code' = code
    BY DEF AtInst, GoTo, state, given
  <1>2. ModuleOK' /\ TodoOK' /\ HooksOK' /\ PlacedOK' /\ EntryOK' /\ MainOK'
    BY <1>1, RunFrame
  <1>3. /\ fn \in DOMAIN code /\ pc \in DOMAIN Fn(fn).body /\ 1 \in DOMAIN code[fn] /\ k \in DOMAIN code[fn]
        /\ Reportable(fn, trace, R) /\ Events(fn, trace) \in Seq(R) /\ ValidBody(Fn(fn).body, mod.succ)
        /\ Reportable(fn, code[fn][k], R) /\ Events(fn, code[fn][k]) = Whole(fn, k) /\ IsSeq(executed)
        /\ Reportable(fn, code[fn][1], R)
    BY <1>1, Running
  <1>4. TypeOK' /\ IsSeq(executed')
    BY <1>1, <1>3, RunTypeFrame
  <1>5. RunTypes'
    <2>1. Reports(fn)' = R
      BY <1>1, FrameOwed
    <2>q. QED
      BY <1>1, <1>3, <1>4, <2>1, Frame DEF RunTypes
  <1>6. TracedOK'
    <2> DEFINE D == Dues(fn, Append(executed, pc))
               t == Events(fn, trace)
               p == Pend(fn, k)
               o == Own(fn, k)
    <2>1. p \in Seq(R) /\ o \in Seq(R)
      BY <1>3, PendType
    <2>2. CASE IsPhi(fn, k)
      <3>1. Events(fn, hooks') = <<>>
        BY <1>1, <1>3, <2>2, WholeIs
      <3>2. Dues(fn, executed') = Events(fn, trace') \o Pend(fn, k)
        BY <1>1
      <3>q. QED
        BY <1>1, <2>2, <3>1, <3>2, Frame, FrameFn DEF TracedOK
    <2>3. CASE ~IsPhi(fn, k)
      <3>1. Events(fn, hooks') = p \o o
        BY <1>1, <1>3, <2>3, WholeIs
      <3>2. Dues(fn, executed') \o Own(fn, k) = Events(fn, trace') \o Events(fn, hooks')
        <4>1. D = t \o p /\ Dues(fn, executed') = D /\ Events(fn, trace') = t
          BY <1>1
        <4>2. (t \o p) \o o = t \o (p \o o)
          <5>1. t \in Seq(R)
            BY <1>3
          <5> HIDE DEF t, p, o, R
          <5>q. QED
            BY <2>1, <5>1, Concat4
        <4> HIDE DEF t, p, D
        <4>q. QED
          BY <3>1, <4>1, <4>2 DEF o
      <3>q. QED
        BY <1>1, <2>3, <3>2, Frame, FrameFn, FrameOwed DEF TracedOK
    <2>q. QED
      BY <2>2, <2>3
  <1>7. OrderOK'
    <2>1. executed' # <<>>
      BY <1>1, <1>3, AppendIs
    <2>2. IsSeq(trace) /\ IsSeq(code[fn][1]) /\ IsSeq(code[fn][k])
      BY <1>3 DEF Reportable
    <2>3. /\ executed = <<>> => trace \o <<>> = code[fn][1]
          /\ executed # <<>> => /\ Len(code[fn][1]) <= Len(trace)
                                /\ \A n \in DOMAIN code[fn][1] : trace[n] = code[fn][1][n]
      BY <1>1 DEF OrderOK
    <2>4. /\ Len(code[fn][1]) <= Len(trace)
          /\ \A n \in DOMAIN code[fn][1] : trace[n] = code[fn][1][n]
      <3>1. CASE executed = <<>>
        <4>1. trace \o <<>> = trace
          BY <2>2, ConcatEmptySeq DEF IsSeq
        <4>2. trace = code[fn][1] /\ Len(trace) \in Nat
          BY <2>2, <2>3, <3>1, <4>1, SeqIs
        <4>q. QED
          BY <4>2
      <3>2. CASE executed # <<>>
        BY <2>3, <3>2
      <3>q. QED
        BY <3>1, <3>2
    <2>q. QED
      BY <1>1, <2>1, <2>4 DEF OrderOK
  <1>8. RunTraced'
    BY <1>1 DEF RunTraced
  <1>q. QED
    BY <1>2, <1>4, <1>5, <1>6, <1>7, <1>8

LEMMA RunInstIInv ==
    ASSUME IInv, RunInst
    PROVE  IInv'
  <1> USE DEF IInv
  <1> DEFINE R == Reports(fn)
             D == Dues(fn, executed)
             t == Events(fn, trace)
             p == Pend(fn, pc)
             o == Own(fn, pc)
             w == Owed(fn, pc)
             p1 == Pend(fn, pc + 1)
  <1>1. AtInst /\ phase = "run" /\ hooks = <<>> /\ At.op \notin Terminators /\ GoTo(pc + 1)
    BY DEF RunInst, AtInst
  <1>2. /\ pc \in DOMAIN Fn(fn).body /\ ValidBody(Fn(fn).body, mod.succ)
        /\ Dues(fn, Append(executed, pc)) = D \o w
        /\ t \in Seq(R) /\ D \in Seq(R)
    BY <1>1, Running
  <1>3. pc + 1 \in DOMAIN Fn(fn).body
    BY <1>1, <1>2, BodyIs DEF At
  <1>4. /\ p \in Seq(R) /\ o \in Seq(R) /\ p1 \in Seq(R) /\ w \in Seq(R)
    BY <1>2, <1>3, PendType, OwedType
  <1>5. /\ IsPhi(fn, pc) => p1 = p \o w
        /\ ~IsPhi(fn, pc) => o \o p1 = w
    BY <1>1, <1>2, PendNext DEF At
  <1>6. D \o w = t \o p1
    <2>1. CASE IsPhi(fn, pc)
      <3>1. D = t \o p
        BY <1>1, <2>1 DEF TracedOK
      <3>2. t \in Seq(R) /\ p \in Seq(R) /\ w \in Seq(R)
        BY <1>2, <1>4
      <3> HIDE DEF R, D, t, p, o, w, p1
      <3>3. (t \o p) \o w = t \o (p \o w)
        BY <3>2, Concat4
      <3>q. QED
        BY <1>5, <2>1, <3>1, <3>3
    <2>2. CASE ~IsPhi(fn, pc)
      <3>1. D \o o = t \o Events(fn, <<>>)
        BY <1>1, <2>2 DEF TracedOK
      <3>2. Events(fn, <<>>) = <<>>
        BY EventsEmpty
      <3> HIDE DEF R, D, t, p, o, w, p1
      <3>3. t \o <<>> = t
        BY <1>2, <1>4, Concat4
      <3>4. D \in Seq(R) /\ o \in Seq(R) /\ p1 \in Seq(R)
        BY <1>2, <1>4
      <3>5. (D \o o) \o p1 = D \o (o \o p1)
        BY <3>4, Concat4
      <3>q. QED
        BY <1>5, <2>2, <3>1, <3>2, <3>3, <3>5
    <2>q. QED
      BY <2>1, <2>2
  <1>q. QED
    BY <1>1, <1>2, <1>3, <1>6, Arrive

\* A branch goes to where a block begins.
LEMMA BlockStartIs ==
    ASSUME NEW f, f = fn, NEW succ, ValidBody(Fn(f).body, succ), NEW bb \in Blocks(Fn(f).body)
    PROVE  LET b == Fn(f).body
               s == BlockStart(bb)
           IN  s \in DOMAIN b /\ b[s].bb = bb /\ \A j \in 1 .. s - 1 : b[j].bb # bb
  <1> DEFINE b == Fn(f).body
             S == {l \in DOMAIN b : b[l].bb = bb}
             First2(s) == b[s].bb = bb /\ \A j \in 1 .. s - 1 : b[j].bb # bb
  <1>1. Len(b) \in Nat /\ DOMAIN b = 1 .. Len(b)
    BY BodyIs
  <1>2. S \subseteq Nat /\ S # {}
    BY <1>1 DEF Blocks
  <1>3. PICK s \in S : \A j \in S : s <= j
    <2> HIDE DEF S
    <2>q. QED
      BY <1>2, LeastMember
  <1>4. \A j \in 1 .. s - 1 : b[j].bb # bb
    <2> SUFFICES ASSUME NEW j \in 1 .. s - 1, b[j].bb = bb PROVE FALSE
      OBVIOUS
    <2>1. j \in 1 .. Len(b) /\ ~(s <= j)
      BY <1>1
    <2>q. QED
      BY <1>1, <1>3, <2>1
  <1>5. \E l \in DOMAIN b : First2(l)
    BY <1>3, <1>4
  <1>6. BlockStart(bb) = CHOOSE l \in DOMAIN b : First2(l)
    BY DEF BlockStart
  <1> HIDE DEF b
  <1>7. BlockStart(bb) \in DOMAIN b /\ First2(BlockStart(bb))
    <2> HIDE DEF First2
    <2>q. QED
      BY <1>5, <1>6
  <1>q. QED
    BY <1>7 DEF b

\* What leaves a block and is due is its own: nothing waits for it behind.
LEMMA OwnIs ==
    ASSUME NEW f, NEW k \in DOMAIN Fn(f).body, Fn(f).body[k].op \in Terminators
    PROVE  ~IsPhi(f, k) /\ Own(f, k) = Owed(f, k)
  <1>1. ~IsPhi(f, k)
    BY DEF IsPhi, Terminators, Branches, Leaves
  <1>2. CASE CallTrace \/ Fn(f).body[k].op = "ret"
    BY <1>1, <1>2 DEF Own
  <1>3. CASE ~CallTrace /\ Fn(f).body[k].op # "ret"
    BY <1>1, <1>3, OwedOp DEF Own
  <1>q. QED
    BY <1>1, <1>2, <1>3

LEMMA RunBranchIInv ==
    ASSUME IInv, RunBranch
    PROVE  IInv'
  <1> USE DEF IInv
  <1> DEFINE R == Reports(fn)
             D == Dues(fn, executed)
             t == Events(fn, trace)
  <1>1. AtInst /\ phase = "run" /\ hooks = <<>> /\ At.op \in Branches
    BY DEF RunBranch, AtInst
  <1>2. PICK bb \in mod.succ[At.v] : GoTo(BlockStart(bb))
    BY DEF RunBranch
  <1>3. /\ pc \in DOMAIN Fn(fn).body /\ ValidBody(Fn(fn).body, mod.succ)
        /\ Dues(fn, Append(executed, pc)) = D \o Owed(fn, pc)
        /\ t \in Seq(R) /\ D \in Seq(R)
    BY <1>1, Running
  <1>4. bb \in Blocks(Fn(fn).body)
    BY <1>1, <1>3 DEF ValidBody, At
  <1> DEFINE s == BlockStart(bb)
  <1>5. /\ s \in DOMAIN Fn(fn).body /\ Fn(fn).body[s].bb = bb
        /\ \A j \in 1 .. s - 1 : Fn(fn).body[j].bb # bb
    BY <1>3, <1>4, BlockStartIs
  <1> HIDE DEF s
  <1>6. Pend(fn, s) = <<>>
    BY <1>3, <1>5, PendStart
  <1>7. ~IsPhi(fn, pc) /\ Own(fn, pc) = Owed(fn, pc)
    BY <1>1, <1>3, OwnIs DEF At, Terminators
  <1>8. D \o Owed(fn, pc) = t \o Pend(fn, s)
    BY <1>1, <1>6, <1>7, EventsEmpty DEF TracedOK
  <1>q. QED
    BY <1>1, <1>2, <1>3, <1>5, <1>8, Arrive DEF s

LEMMA RunEndIInv ==
    ASSUME IInv, RunEnd
    PROVE  IInv'
  <1> USE DEF IInv
  <1> DEFINE R == Reports(fn)
             D == Dues(fn, executed)
             t == Events(fn, trace)
  <1>1. /\ AtInst /\ phase = "run" /\ phase' = "end" /\ hooks = <<>> /\ hooks' = hooks /\ trace' = trace
        /\ fn' = fn /\ pc' = pc /\ executed' = Append(executed, pc) /\ UNCHANGED <<mod, bin, CallTrace, state>>
        /\ UNCHANGED given /\ code' = code /\ mod' = mod
    BY DEF RunEnd, AtInst, state, given
  <1>2. ModuleOK' /\ TodoOK' /\ HooksOK' /\ PlacedOK' /\ EntryOK' /\ MainOK'
    BY <1>1, RunFrame
  <1>3. /\ fn \in DOMAIN code /\ pc \in DOMAIN Fn(fn).body /\ 1 \in DOMAIN code[fn]
        /\ Reportable(fn, hooks, R) /\ Reportable(fn, trace, R) /\ t \in Seq(R)
        /\ Dues(fn, Append(executed, pc)) = D \o Owed(fn, pc)
        /\ IsSeq(executed) /\ Reportable(fn, code[fn][1], R)
    BY <1>1, Running
  <1>4. TypeOK' /\ IsSeq(executed')
    BY <1>1, <1>3, RunTypeFrame
  <1>5. RunTypes'
    <2>1. Reports(fn)' = R
      BY <1>1, FrameOwed
    <2>q. QED
      BY <1>1, <1>3, <1>4, <2>1, Frame DEF RunTypes
  <1>6. TracedOK'
    BY <1>1 DEF TracedOK
  <1>7. executed' # <<>> /\ Last(executed') = pc
    BY <1>1, <1>3, AppendIs
  <1>8. OrderOK'
    <2>2. IsSeq(trace) /\ IsSeq(code[fn][1])
      BY <1>3 DEF Reportable
    <2>3. /\ executed = <<>> => trace \o <<>> = code[fn][1]
          /\ executed # <<>> => /\ Len(code[fn][1]) <= Len(trace)
                                /\ \A n \in DOMAIN code[fn][1] : trace[n] = code[fn][1][n]
          /\ code[fn][pc] # <<>> => trace # <<>> /\ Last(trace) = Last(code[fn][pc])
      BY <1>1 DEF OrderOK
    <2>4. /\ Len(code[fn][1]) <= Len(trace)
          /\ \A n \in DOMAIN code[fn][1] : trace[n] = code[fn][1][n]
      <3>1. CASE executed = <<>>
        <4>1. trace \o <<>> = trace
          BY <2>2, ConcatEmptySeq DEF IsSeq
        <4>2. trace = code[fn][1] /\ Len(trace) \in Nat
          BY <2>2, <2>3, <3>1, <4>1, SeqIs
        <4>q. QED
          BY <4>2
      <3>2. CASE executed # <<>>
        BY <2>3, <3>2
      <3>q. QED
        BY <3>1, <3>2
    <2>5. (At.op \in Leaves \cup {"ret"} \/ IsExit(At))'
      <3>1. At' = At
        BY <1>1 DEF At, Fn
      <3>q. QED
        BY <3>1 DEF RunEnd, IsExit
    <2>q. QED
      BY <1>1, <1>7, <2>3, <2>4, <2>5 DEF OrderOK
  <1>9. RunTraced'
    <2> SUFFICES ASSUME Fn(fn).body[pc].op = "ret"
                 PROVE  Events(fn, trace') = Dues(fn, executed')
      <3>1. /\ Fn(fn)' = Fn(fn) /\ Events(fn, trace)' = Events(fn, trace')
            /\ Dues(fn, executed)' = Dues(fn, executed')
        BY <1>1, FrameFn, Frame
      <3>2. (Fn(fn).body[Last(executed)].op)' = Fn(fn).body[pc].op
        BY <1>1, <1>7, <3>1
      <3>q. QED
        BY <3>1, <3>2 DEF RunTraced, Events, Dues
    <2>1. ~IsPhi(fn, pc) /\ Own(fn, pc) = Owed(fn, pc)
      BY <1>3, OwnIs DEF Terminators
    <2>2. D \o Own(fn, pc) = t \o Events(fn, <<>>)
      BY <1>1, <2>1 DEF TracedOK
    <2>3. Events(fn, <<>>) = <<>>
      BY EventsEmpty
    <2>4. t \o <<>> = t
      <3> HIDE DEF t, R
      <3>q. QED
        BY <1>3, Concat4
    <2>q. QED
      BY <1>1, <1>3, <2>1, <2>2, <2>3, <2>4
  <1>q. QED
    BY <1>2, <1>4, <1>5, <1>6, <1>8, <1>9
-----------------------------------------------------------------------------
(***************************************************************************)
(* The theorems                                                            *)
(***************************************************************************)
LEMMA StepIInv ==
    ASSUME IInv, [Next]_vars
    PROVE  IInv'
  <1>1. CASE LoadLdaBin
    BY <1>1, LoadLdaBinIInv
  <1>2. CASE InstrmCallTrace
    BY <1>2, InstrmCallTraceIInv
  <1>3. CASE SkipFunction
    BY <1>3, SkipFunctionIInv
  <1>4. CASE VisitInst
    BY <1>4, VisitInstIInv
  <1>5. CASE PassInst
    BY <1>5, PassInstIInv
  <1>6. CASE AddTrack
    BY <1>6, AddTrackIInv
  <1>7. CASE EndFunction
    BY <1>7, EndFunctionIInv
  <1>8. CASE InitInstrumenter
    BY <1>8, InitInstrumenterIInv
  <1>9. CASE RunHook
    BY <1>9, RunHookIInv
  <1>10. CASE RunInst
    BY <1>10, RunInstIInv
  <1>11. CASE RunBranch
    BY <1>11, RunBranchIInv
  <1>12. CASE RunEnd
    BY <1>12, RunEndIInv
  <1>13. CASE UNCHANGED vars
    <2>1. /\ mod' = mod /\ CallTrace' = CallTrace /\ m_Fname2Flda' = m_Fname2Flda /\ todo' = todo
          /\ InstID' = InstID /\ code' = code /\ m_ExitInsts' = m_ExitInsts /\ UNCHANGED given
          /\ phase' = phase /\ fn' = fn /\ pc' = pc /\ hooks' = hooks /\ executed' = executed
          /\ trace' = trace
      BY <1>13 DEF vars, state, running, given
    <2>2. Func' = Func /\ Body' = Body /\ At' = At
      BY <2>1 DEF Func, Body, At, Fn
    <2> USE DEF IInv
    <2>3. ModuleOK' /\ TypeOK' /\ TodoOK'
      BY <2>1, <2>2, FrameFn DEF ModuleOK, TypeOK, TodoOK
    <2>4. HooksOK' /\ PlacedOK'
      BY <2>1, <2>2, Frame, FrameOwed DEF HooksOK, PlacedOK
    <2>5. EntryOK' /\ MainOK'
      BY <2>1, FrameFn DEF EntryOK, MainOK, IsEntry, Ends
    <2>6. RunTypes' /\ TracedOK'
      BY <2>1, Frame, FrameFn, FrameOwed DEF RunTypes, TracedOK
    <2>7. OrderOK'
      BY <2>1, <2>2 DEF OrderOK, IsExit
    <2>8. RunTraced'
      <3>1. /\ Fn(fn)' = Fn(fn) /\ Events(fn, trace)' = Events(fn, trace)
            /\ Dues(fn, executed)' = Dues(fn, executed)
        BY <2>1, FrameFn, Frame
      <3>q. QED
        BY <2>1, <3>1 DEF RunTraced, Events, Dues
    <2>q. QED
      BY <2>3, <2>4, <2>5, <2>6, <2>7, <2>8
  <1>q. QED
    BY <1>1, <1>2, <1>3, <1>4, <1>5, <1>6, <1>7, <1>8, <1>9, <1>10, <1>11, <1>12, <1>13
       DEF Next, Visit, Run

LEMMA ExitIsReported == IInv => ExitReported
  <1> SUFFICES ASSUME IInv, phase = "end", fn = "main"
               PROVE  /\ trace[1].kind = "init"
                      /\ IsVisited(fn) => trace[2].id = EventId(fn, "FENTRY", 0)
                      /\ (Last(executed) = Len(Fn(fn).body) /\ At.op # "resume")
                            \/ <<fn, Last(executed)>> \in m_ExitInsts => Last(trace).kind = "exit"
    BY DEF ExitReported
  <1> USE DEF IInv
  <1> DEFINE first == code["main"][1]
             b == Fn(fn).body
  <1>1. fn \in DOMAIN code /\ pc \in DOMAIN b
    BY DEF TypeOK
  <1>2. ValidBody(b, mod.succ) /\ DOMAIN code[fn] = DOMAIN b /\ 1 \in DOMAIN code[fn] /\ IsSeq(first)
    BY <1>1, CodeIs
  <1>3. Len(first) \in Nat /\ DOMAIN first = 1 .. Len(first) /\ (first = <<>> <=> Len(first) = 0)
    BY <1>2, SeqIs
  <1>4. /\ first # <<>> /\ first[1].kind = "init"
        /\ IsVisited("main") => Len(first) > 1 /\ IsEntry("main", first[2])
        /\ \A k \in DOMAIN code["main"] : <<"main", k>> \in Ends =>
                code["main"][k] # <<>> /\ Last(code["main"][k]).kind = "exit"
    BY <1>1 DEF MainOK
  <1>5. /\ executed # <<>> /\ hooks = <<>> /\ Last(executed) = pc
        /\ At.op \in Leaves \cup {"ret"} \/ IsExit(At)
        /\ \A n \in DOMAIN first : trace[n] = first[n]
        /\ code[fn][pc] # <<>> => Last(trace) = Last(code[fn][pc])
    BY DEF OrderOK
  <1>6. trace[1].kind = "init"
    BY <1>3, <1>4, <1>5
  <1>7. IsVisited(fn) => trace[2].id = EventId(fn, "FENTRY", 0)
    BY <1>3, <1>4, <1>5 DEF IsEntry
  <1>8. ASSUME (Last(executed) = Len(b) /\ At.op # "resume") \/ <<fn, Last(executed)>> \in m_ExitInsts
        PROVE  Last(trace).kind = "exit"
    <2>1. CASE Last(executed) = Len(b) /\ At.op # "resume"
      <3>1. At.op \in Terminators
        BY <1>2, <1>5, <2>1, BodyIs DEF At
      <3>2. At.op \in {"ret", "unreachable"}
        BY <1>5, <2>1, <3>1 DEF IsExit, Terminators, Branches, Leaves
      <3>3. <<"main", pc>> \in Ends
        BY <1>5, <2>1, <3>2 DEF Ends, At
      <3>q. QED
        BY <1>1, <1>2, <1>4, <1>5, <3>3
    <2>2. CASE <<fn, Last(executed)>> \in m_ExitInsts
      <3>1. <<"main", pc>> \in Ends
        BY <1>5, <2>2 DEF Ends
      <3>q. QED
        BY <1>1, <1>2, <1>4, <1>5, <3>1
    <2>q. QED
      BY <1>8, <2>1, <2>2
  <1>q. QED
    BY <1>6, <1>7, <1>8

\* Whatever the module and the selection: hooks are only put in front of the
\* instructions of functions that have a body, VisitFunction begins every function at
\* its first instruction, and a run of a rewritten function stays in its body.
THEOREM InstrumenterTypeOK == Spec => []TypeOK
  <1>1. IInv => TypeOK
    BY DEF IInv
  <1>q. QED
    BY <1>1, InitIInv, StepIInv, PTL DEF Spec

\* A run of a rewritten function that returns has traced its selected instructions, each
\* as often as it ran and in that order, and a run of main is reported as begun before
\* and as ended after all it traces: for every module LLVM's verifier lets pass, every
\* selection, and runs of any length.
THEOREM InstrumenterTraceWhole == Spec => []TraceWhole
  <1>1. IInv => TraceWhole
    BY ExitIsReported DEF IInv, TraceWhole
  <1>q. QED
    BY <1>1, InitIInv, StepIInv, PTL DEF Spec
=============================================================================
