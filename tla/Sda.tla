--------------------------------- MODULE Sda ---------------------------------
(***************************************************************************)
(* The symbolic dependence analysis (Sda.h): from the entry functions on,  *)
(* it selects the instructions that data of a source can reach.  A function*)
(* is gone through forwards and backwards in turn until that selects       *)
(* nothing more; what it does to the taint of its arguments is kept in a   *)
(* summary; entries that use a global which becomes tainted run again.     *)
(*                                                                         *)
(* A set of taint bits is the set of their numbers: 1 is the result, n + 1 *)
(* the argument n.                                                         *)
(***************************************************************************)
EXTENDS LLVMInst, FiniteSetsExt, SequencesExt

CONSTANTS
    Session,        \* sequences of programs, with the options of their runs:
                    \* sources, guardAll, disGlobal, lib (summaries of functions)
    MAX_ITERATE,    \* globals of an entry that are counted
    Reach(_),       \* what could be tainted in a program (OnlyConnected)
    NoProgram

RET_NO == 1
ArgNo(n) == n + 1

VARIABLES
    todo, prog,     \* the programs to analyse and the one at work
    m_EntryFQ,      \* entries to run, none of them twice
    m_EntryTaintBits, m_EntryExeNum, m_Entry2GlvUse, m_GlvUse2Entry,
    m_GlvAlias,     \* values that stand for a global or for shared memory
    m_GlvLexset,    \* tainted globals
    m_EqualVal,     \* values that stand for the address they were made from
    m_InstSet,      \* selected instructions
    m_Func2Fsda,    \* function -> [id, instNum, insts, cst, cache]
    m_CurEntry,
    stack,          \* calls of ComputeFlda that have not returned
    bin             \* LdaBin.bin: its header's FuncNum and the functions

entries == <<m_EntryFQ, m_EntryTaintBits, m_EntryExeNum>>
globals == <<m_Entry2GlvUse, m_GlvUse2Entry, m_GlvAlias, m_GlvLexset>>
vars == <<todo, prog, entries, globals, m_EqualVal, m_InstSet, m_Func2Fsda, m_CurEntry, stack, bin>>

Put(f, k, v) == [x \in DOMAIN f \cup {k} |-> IF x = k THEN v ELSE f[x]]
Get(f, k, d) == IF k \in DOMAIN f THEN f[k] ELSE d
Fn(f) == prog.fn[f]
Top == stack[Len(stack)]
Inst == Fn(Top.fn).body[Top.pc]
SetTop(fr) == [stack EXCEPT ![Len(stack)] = fr]
-----------------------------------------------------------------------------
(***************************************************************************)
(* Globals and values                                                      *)
(***************************************************************************)
IsThreadCrt(f) == f = "pthread_create"
AllInsts(P) == UNION {Range(P.fn[f].body) : f \in {g \in DOMAIN P.fn : ~P.fn[g].decl}}

\* What is passed to a thread, and the parameters of its entry, are shared and
\* stand for what is passed: the last creation in a function that has the value
\* counts, and any function may come last.
InitGlv(P) ==
    LET thrc == {i \in AllInsts(P) : IsCall(i) /\ IsThreadCrt(i.callee)}
        shared(i) == {i.ops[4]} \cup Range(P.fn[i.ops[3]].args)
        later(i) == UNION {{b[n] : n \in {k \in DOMAIN b : \E m \in 1 .. k - 1 : b[m] = i}} :
                              b \in {P.fn[f].body : f \in DOMAIN P.fn}}
        last(v) == {i \in thrc : v \in shared(i) /\ \A j \in thrc \cap later(i) : v \notin shared(j)}
    IN  IF P.disGlobal THEN <<>>
        ELSE [v \in P.global \cup UNION {shared(i) : i \in thrc} |->
                 IF last(v) = {} THEN v ELSE (CHOOSE i \in last(v) : TRUE).ops[4]]

IsInGlvSet(v) == v \in DOMAIN m_GlvAlias
IsGlobalValue(v) == v \in prog.global \cup DOMAIN prog.fn
IsActiveFields(i) == i.v \notin prog.inactive
IsSourceInst(i) == IsCall(i) /\ i.callee \in prog.sources

AddTaintValue(eq, lex, v) == IF v = NoValue THEN lex ELSE lex \cup {Get(eq, v, v)}

GetTaintedBits(i, lex) ==
    LET uses == Uses(prog, i)
    IN  {ArgNo(n) : n \in {k \in DOMAIN uses :
            \/ uses[k] \in lex \cup m_GlvLexset
            \/ uses[k] \in DOMAIN m_EqualVal /\ m_EqualVal[uses[k]] \in lex}}

CheckOutArgTaint(f, vals) ==
    LET args == Fn(f).args
    IN  {ArgNo(n) : n \in {k \in DOMAIN args :
            args[k] \in (prog.ptr \ prog.readonly) \cap vals}}

EqualProcess(i) ==
    LET def == GetDef(i)
    IN  CASE i.op = "bitcast" -> Put(m_EqualVal, def, Uses(prog, i)[1])
          [] i.op # "bitcast" /\ def # NoValue /\ GetBaseAddr(prog, def) # def
                              -> Put(m_EqualVal, def, GetBaseAddr(prog, def))
          [] OTHER            -> m_EqualVal

InitCriterions(f, bits, lex) ==
    lex \cup {Fn(f).args[n] : n \in {k \in DOMAIN Fn(f).args : ArgNo(k) \in bits}}
-----------------------------------------------------------------------------
(***************************************************************************)
(* The functions' records                                                  *)
(***************************************************************************)
NewFsda(F) ==
    [id |-> Cardinality(DOMAIN F) + 1, instNum |-> 0, insts |-> <<>>, cst |-> <<>>,
     cache |-> <<>>]
GetFlda(F, f) == IF f \in DOMAIN F THEN F ELSE Put(F, f, NewFsda(F))

GetEventId(f, i, iid, ssd) ==
    [fid |-> m_Func2Fsda[f].id, bid |-> i.bb, iid |-> iid, ssd |-> ssd]
InsertInst(F, f, i, iid, ssd) ==
    [F EXCEPT ![f].insts = Put(@, i.v, GetEventId(f, i, iid, ssd))]
InsertCst(F, f, i, bits) ==
    LET old == Get(F[f].cst, i.v, [in |-> {}, out |-> {}, callees |-> {}])
    IN  [F EXCEPT ![f].cst = Put(@, i.v, [old EXCEPT !.in = @ \cup bits])]

\* 0 stands for "no summary yet".
\* Mutant: a summary answers for all arguments.
GetSdsCache_AnyBits(f, bits) ==
    UNION Range(GetFlda(m_Func2Fsda, f)[f].cache)
GetSdsCache(f, bits) ==
    Get(GetFlda(m_Func2Fsda, f)[f].cache, bits, {})
UpdateSdsCache(F, f, in, out) ==
    [F EXCEPT ![f].cache = Put(@, in, Get(@, in, {}) \cup out)]
-----------------------------------------------------------------------------
(***************************************************************************)
(* Entries                                                                 *)
(***************************************************************************)
\* Mutant: an entry can be in the queue twice.
InQueue_Twice(q, f) == Append(q, f)
InQueue(q, f) == IF f \in Range(q) THEN q ELSE Append(q, f)

\* Functions that no call names: what libraries offer (GetLibEntry) ...
GetCalledFunc(P) == {i.callee : i \in {j \in AllInsts(P) : IsCall(j)}}
Defined(P) == {f \in DOMAIN P.fn : ~P.fn[f].decl}
GetLibEntry(P) == Defined(P) \ (GetCalledFunc(P) \cup DOMAIN P.lib \cup {"main"})
\* ... or, when not all of the program is guarded, those the criterion names.
GetAPIEntry(P) == Defined(P) \cap P.sources
Entries(P) == IF P.guardAll THEN GetLibEntry(P) ELSE GetAPIEntry(P)
\* What LLVM guarantees: calls name functions of the program; an instruction is a
\* value of its own, no constant, parameter or other instruction; parameters and
\* operands are values, which NoValue is not. Of what threads run ProcEntry
\* asserts it is a function; here it is one the program defines.
WellFormed(P) ==
    /\ IsFiniteSet(DOMAIN P.fn) /\ NoValue \notin P.global
    /\ \A f \in DOMAIN P.fn : /\ P.fn[f].args \in Seq(Range(P.fn[f].args))
                            /\ P.fn[f].body \in Seq(Range(P.fn[f].body))
                            /\ NoValue \notin Range(P.fn[f].args)
    /\ \A i \in AllInsts(P) : IsCall(i) =>
          /\ i.callee \in DOMAIN P.fn \cup {NoFunc}
          /\ IsThreadCrt(i.callee) => i.ops[3] \in Defined(P) /\ i.ops[4] # NoValue
    /\ \A i \in AllInsts(P) :
          /\ i.v \notin P.const /\ i.v # NoValue /\ i.ops \in Seq(Range(i.ops))
          /\ i.op = "store" => i.ops[2] # NoValue
    /\ \A f, g \in Defined(P) : \A j \in DOMAIN P.fn[f].body :
          /\ P.fn[f].body[j].v \notin Range(P.fn[g].args)
          /\ \A k \in DOMAIN P.fn[g].body :
                P.fn[f].body[j].v = P.fn[g].body[k].v => f = g /\ j = k
ASSUME SessionAssumption ==
    \A s \in Session : s \in Seq(Range(s)) /\ \A P \in Range(s) : P # NoProgram /\ WellFormed(P)

AddEntryBits(P, f) == {ArgNo(n) : n \in DOMAIN P.fn[f].args}
IsEntryFunc(f) == f \in DOMAIN m_EntryTaintBits

GetEntryTaintbits(f) ==
    IF IsEntryFunc(f) THEN m_EntryTaintBits[f]
    ELSE IF \E a \in Range(Fn(f).args) : IsInGlvSet(a) /\ m_GlvAlias[a] \in m_GlvLexset
    THEN {ArgNo(1)} ELSE {}

GetEntryExeNum(f) == Get(m_EntryExeNum, f, 0)
GlvUse(f) == Get(m_Entry2GlvUse, f, {})

\* The order of a set of functions is that of their addresses.
Orders(S) == {q \in [1 .. Cardinality(S) -> S] : Range(q) = S}

\* The other entries that use global g run again, each at most once more than it
\* uses globals.
AddGlvUseEntry(g) ==
    \E q \in Orders({e \in Get(m_GlvUse2Entry, g, {}) \ ({m_CurEntry} \cup Range(m_EntryFQ)) :
                        GetEntryExeNum(e) <= Cardinality(GlvUse(e))}) :
        m_EntryFQ' = m_EntryFQ \o q

Frame(f, bits) ==
    [fn |-> f, in |-> bits, out |-> bits, lex |-> InitCriterions(f, bits, {}),
     pc |-> 1, back |-> FALSE, fw |-> 0, bits |-> {}, before |-> 0]

-----------------------------------------------------------------------------
Init ==
    /\ todo \in Session /\ prog = NoProgram
    /\ m_EntryFQ = <<>> /\ m_EntryTaintBits = <<>> /\ m_EntryExeNum = <<>>
    /\ m_Entry2GlvUse = <<>> /\ m_GlvUse2Entry = <<>> /\ m_GlvAlias = <<>> /\ m_GlvLexset = {}
    /\ m_EqualVal = <<>> /\ m_InstSet = {} /\ m_Func2Fsda = <<>>
    /\ m_CurEntry = NoFunc /\ stack = <<>>
    /\ bin = [FuncNum |-> 0, recs |-> <<>>]

\* RunPasses: the analysis of the next program begins with its entries.
RunPasses ==
    LET P == Head(todo)
    IN  /\ prog = NoProgram /\ todo # <<>>
        /\ prog' = P /\ todo' = Tail(todo)
        /\ \E q \in Orders(Entries(P)) :
              m_EntryFQ' = IF "main" \in Defined(P) THEN InQueue(q, "main") ELSE q
        /\ m_EntryTaintBits' = [f \in Entries(P) |-> AddEntryBits(P, f)]
        /\ m_EntryExeNum' = <<>> /\ m_Entry2GlvUse' = <<>> /\ m_GlvUse2Entry' = <<>>
        /\ m_GlvAlias' = InitGlv(P) /\ m_GlvLexset' = {} /\ m_EqualVal' = <<>>
        /\ m_InstSet' = {} /\ m_Func2Fsda' = <<>> /\ m_CurEntry' = NoFunc
        /\ UNCHANGED <<stack, bin>>

\* Compute takes an entry from the queue, and drops one that ran often enough.
Dequeue(f) ==
    /\ prog # NoProgram /\ stack = <<>> /\ m_EntryFQ # <<>>
    /\ f = Head(m_EntryFQ)
    /\ m_EntryFQ' = Tail(m_EntryFQ)
    /\ m_CurEntry' = f

RanOften(f) == GetEntryExeNum(f) > Cardinality(GlvUse(f)) + 1

DropEntry ==
    /\ \E f \in Range(m_EntryFQ) : Dequeue(f) /\ RanOften(f)
    /\ UNCHANGED <<todo, prog, m_EntryTaintBits, m_EntryExeNum, globals, m_EqualVal,
                   m_InstSet, m_Func2Fsda, stack, bin>>

\* What ComputeFlda returns at once: an entry is never looked up.
Cached(f, bits) == IF IsEntryFunc(f) THEN {} ELSE GetSdsCache(f, bits)

EndEntry(f, out) ==
    /\ m_EntryTaintBits' = Put(m_EntryTaintBits, f, out)
    /\ m_EntryExeNum' = Put(m_EntryExeNum, f, GetEntryExeNum(f) + 1)

RunEntry ==
    /\ \E f \in Range(m_EntryFQ) :
          /\ Dequeue(f) /\ ~RanOften(f)
          /\ Cached(f, GetEntryTaintbits(f)) = {}
          /\ stack' = <<Frame(f, GetEntryTaintbits(f))>>
          /\ m_Func2Fsda' = GetFlda(m_Func2Fsda, f)
    /\ UNCHANGED <<todo, prog, m_EntryTaintBits, m_EntryExeNum, globals, m_EqualVal,
                   m_InstSet, bin>>

RunEntryCached ==
    /\ \E f \in Range(m_EntryFQ) :
          /\ Dequeue(f) /\ ~RanOften(f)
          /\ Cached(f, GetEntryTaintbits(f)) # {}
          /\ EndEntry(f, Cached(f, GetEntryTaintbits(f)))
    /\ UNCHANGED <<todo, prog, globals, m_EqualVal, m_InstSet, m_Func2Fsda, stack, bin>>
-----------------------------------------------------------------------------
(***************************************************************************)
(* ForwardDeduce, an instruction at a time                                 *)
(***************************************************************************)
Advance(fr) == [fr EXCEPT !.pc = @ + 1]

\* An instruction that uses a global or shared value stands for it from then on.
UseGlobals(i) ==
    LET uses == Uses(prog, i)
        glv  == {k \in DOMAIN uses : IsInGlvSet(uses[k])}
        lvs  == {m_GlvAlias[uses[k]] : k \in glv}
        count(acc, u) == IF Cardinality(acc) < MAX_ITERATE THEN acc \cup {m_GlvAlias[u]} ELSE acc
    IN  /\ \/ glv = {} /\ UNCHANGED m_GlvAlias
           \/ \E k \in glv : /\ \A j \in glv : j <= k
                            /\ m_GlvAlias' = Put(m_GlvAlias, i.v, m_GlvAlias[uses[k]])
        /\ m_GlvUse2Entry' = [g \in DOMAIN m_GlvUse2Entry \cup lvs |->
               Get(m_GlvUse2Entry, g, {}) \cup IF g \in lvs THEN {m_CurEntry} ELSE {}]
        /\ m_Entry2GlvUse' = IF glv = {} THEN m_Entry2GlvUse
               ELSE Put(m_Entry2GlvUse, m_CurEntry,
                        FoldLeft(count, GlvUse(m_CurEntry), SelectSeq(uses, IsInGlvSet)))

Bits == GetTaintedBits(Inst, Top.lex)

Insts == IF prog = NoProgram THEN {} ELSE AllInsts(prog)

AtInst(i) ==
    /\ stack # <<>> /\ ~Top.back /\ Top.pc <= Len(Fn(Top.fn).body)
    /\ i = Inst

AtDecoded(i) == AtInst(i) /\ ~IsSkipped(i) /\ UseGlobals(i)

\* Mutant: positions are counted from 0.
Select_Zero(i, ssd) ==
    /\ m_InstSet' = m_InstSet \cup {i.v}
    /\ m_Func2Fsda' = InsertInst(m_Func2Fsda, Top.fn, i, Top.pc - 1, ssd)
Select(i, ssd) ==
    /\ m_InstSet' = m_InstSet \cup {i.v}
    /\ m_Func2Fsda' = InsertInst(m_Func2Fsda, Top.fn, i, Top.pc, ssd)

SkipInst ==
    /\ \E i \in Insts : AtInst(i) /\ IsSkipped(i)
    /\ stack' = SetTop(Advance(Top))
    /\ UNCHANGED <<todo, prog, entries, globals, m_EqualVal, m_InstSet, m_Func2Fsda,
                   m_CurEntry, bin>>

SourceInst ==
    /\ \E i \in Insts :
          /\ AtDecoded(i) /\ IsSourceInst(i)
          /\ Select(i, 1)
          /\ stack' = SetTop([Advance(Top) EXCEPT !.lex = @ \cup {i.v}])
    /\ UNCHANGED <<todo, prog, entries, m_GlvLexset, m_EqualVal, m_CurEntry, bin>>

\* Instructions no taint reaches, and comparisons, casts and fields that are not
\* followed, are passed over; but what they make equal is kept.
PassInst ==
    /\ \E i \in Insts :
          /\ AtDecoded(i) /\ ~IsSourceInst(i)
          /\ \/ Bits = {} /\ (prog.guardAll => ~IsCall(i))
             \/ Bits # {} /\ (i.op \in {"icmp", "bitcast"} \/ ~IsActiveFields(i))
          /\ m_EqualVal' = IF Bits = {} /\ ~prog.guardAll THEN m_EqualVal ELSE EqualProcess(i)
    /\ stack' = SetTop(Advance(Top))
    /\ UNCHANGED <<todo, prog, entries, m_GlvLexset, m_InstSet, m_Func2Fsda, m_CurEntry, bin>>

TaintRet ==
    /\ \E i \in Insts :
          /\ AtDecoded(i) /\ i.op = "ret" /\ Bits # {}
          /\ Select(i, 0)
          /\ m_EqualVal' = EqualProcess(i)
    /\ stack' = SetTop([Advance(Top) EXCEPT !.out = @ \cup {RET_NO}])
    /\ UNCHANGED <<todo, prog, entries, m_GlvLexset, m_CurEntry, bin>>

\* The default: the result is tainted, and the global it stands for.
TaintInst ==
    /\ \E i \in Insts :
          /\ AtDecoded(i) /\ Bits # {}
          /\ ~IsCall(i) /\ i.op \notin {"ret", "icmp", "bitcast"} /\ IsActiveFields(i)
          /\ Select(i, 0)
          /\ m_EqualVal' = EqualProcess(i)
          /\ stack' = SetTop([Advance(Top) EXCEPT
                                !.out = @ \cup CheckOutArgTaint(Top.fn, {GetDef(i)}),
                                !.lex = AddTaintValue(m_EqualVal', @, GetDef(i))])
          /\ IF GetDef(i) \in DOMAIN m_GlvAlias'
             THEN /\ m_GlvLexset' = m_GlvLexset \cup {m_GlvAlias'[GetDef(i)]}
                  /\ AddGlvUseEntry(m_GlvAlias'[GetDef(i)])
             ELSE UNCHANGED <<m_GlvLexset, m_EntryFQ>>
    /\ UNCHANGED <<todo, prog, m_EntryTaintBits, m_EntryExeNum, m_CurEntry, bin>>
-----------------------------------------------------------------------------
(***************************************************************************)
(* Calls                                                                   *)
(***************************************************************************)
AtCall(i) ==
    /\ AtDecoded(i) /\ IsCall(i) /\ ~IsSourceInst(i)
    /\ Bits # {} \/ prog.guardAll
    /\ m_EqualVal' = EqualProcess(i)

WithCst(i) == InsertCst(m_Func2Fsda, Top.fn, i, Bits)
CstIn(i) == WithCst(i)[Top.fn].cst[i.v].in

\* ProcEntry: the function a thread is created with is an entry.
CreateThread ==
    /\ \E i \in Insts :
          LET entry  == i.ops[3]
              shared == CstIn(i) # {} \/ GetEntryTaintbits(entry) # {}
              lex    == IF shared THEN Top.lex \cup {i.ops[4]} ELSE Top.lex
          IN  /\ AtCall(i) /\ IsThreadCrt(i.callee)
              /\ m_Func2Fsda' = WithCst(i)
              /\ m_EntryFQ' = InQueue(m_EntryFQ, entry)
              /\ m_EntryTaintBits' = IF CstIn(i) = {} THEN m_EntryTaintBits
                                     ELSE Put(m_EntryTaintBits, entry, {ArgNo(1)})
              /\ stack' = SetTop([Advance(Top) EXCEPT
                     !.lex = lex,
                     !.out = @ \cup IF Bits = {} THEN {} ELSE CheckOutArgTaint(Top.fn, lex)])
    /\ UNCHANGED <<todo, prog, m_EntryExeNum, m_GlvLexset, m_InstSet, m_CurEntry, bin>>

\* Mutant: recursion is not noticed.
IsInStack_Never(f) == FALSE
IsInStack(f) == \E k \in DOMAIN stack : stack[k].fn = f

\* Pointers that go in come out tainted, and so does the result.
\* Mutant: calls without a tainted argument taint as well.
DefaultTaints_Always(i, bits) ==
    {ArgNo(n) : n \in {k \in DOMAIN Uses(prog, i) : Uses(prog, i)[k] \in prog.ptr}}
    \cup IF i.callee # NoFunc /\ ~Fn(i.callee).void THEN {RET_NO} ELSE {}
DefaultTaints(i, bits) ==
    LET uses == Uses(prog, i)
    IN  IF bits = {} THEN {}
        ELSE {ArgNo(n) : n \in {k \in DOMAIN uses : ~IsConst(prog, uses[k]) /\ uses[k] \in prog.ptr}}
             \cup IF i.callee # NoFunc /\ ~Fn(i.callee).void THEN {RET_NO} ELSE {}

ComputeTaintBits(f, bits) == IF prog.lib[f].in \cap bits # {} THEN prog.lib[f].out ELSE {}

\* Does ExeFunction know what the call does without going through the function?
IsKnown(i, bits) ==
    i.callee # NoFunc => \/ Fn(i.callee).decl
                         \/ IsInStack(i.callee)
                         \/ i.callee \in DOMAIN prog.lib
                         \/ Cached(i.callee, bits) # {}

OutBits(i, bits) ==
    CASE i.callee = NoFunc                               -> DefaultTaints(i, bits)
      [] i.callee # NoFunc /\ ~Fn(i.callee).decl /\ IsInStack(i.callee) -> bits
      [] i.callee \in DOMAIN prog.lib /\ (Fn(i.callee).decl \/ ~IsInStack(i.callee))
                                                         -> ComputeTaintBits(i.callee, bits)
      [] i.callee # NoFunc /\ Fn(i.callee).decl          -> DefaultTaints(i, bits)
      [] OTHER                                           -> Cached(i.callee, bits)

\* The rest of ExeFunction, ProcessCall and the call's case of ForwardDeduce, in
\* the frames st whose last is the caller's: bits are those of the call.
FinishCall(F, st, i, bits, before, out) ==
    LET fr     == Last(st)
        uses   == Uses(prog, i)
        args   == {uses[n] : n \in {k \in DOMAIN uses : ArgNo(k) \in out}}
        lex    == IF RET_NO \in out
                  THEN AddTaintValue(m_EqualVal, fr.lex \cup args, GetDef(i))
                  ELSE fr.lex \cup args
        callee == IF i.callee = NoFunc THEN {} ELSE {i.callee}
        noted(c) == [c EXCEPT !.out = out, !.callees = @ \cup callee]
        G      == [F EXCEPT ![fr.fn].cst[i.v] = noted(@)]
        chosen == bits # {} \/ Cardinality(m_InstSet) > before
    IN  /\ m_GlvLexset' = m_GlvLexset \cup {a \in args : IsGlobalValue(a)}
        /\ stack' = [st EXCEPT ![Len(st)] = [Advance(fr) EXCEPT
               !.lex = lex,
               !.out = @ \cup IF bits = {} THEN {} ELSE CheckOutArgTaint(fr.fn, lex)]]
        /\ m_InstSet' = IF chosen THEN m_InstSet \cup {i.v} ELSE m_InstSet
        /\ m_Func2Fsda' = IF chosen THEN InsertInst(G, fr.fn, i, fr.pc, 0) ELSE G

CallKnown ==
    /\ \E i \in Insts :
          /\ AtCall(i) /\ ~IsThreadCrt(i.callee) /\ IsKnown(i, CstIn(i))
          /\ FinishCall(WithCst(i), stack, i, Bits, Cardinality(m_InstSet), OutBits(i, CstIn(i)))
    /\ UNCHANGED <<todo, prog, entries, m_CurEntry, bin>>

CallEnter ==
    /\ \E i \in Insts :
          /\ AtCall(i) /\ ~IsThreadCrt(i.callee) /\ ~IsKnown(i, CstIn(i))
          /\ m_Func2Fsda' = GetFlda(WithCst(i), i.callee)
          /\ stack' = Append(SetTop([Top EXCEPT !.bits = Bits, !.before = Cardinality(m_InstSet)]),
                             Frame(i.callee, CstIn(i)))
    /\ UNCHANGED <<todo, prog, entries, m_GlvLexset, m_InstSet, m_CurEntry, bin>>
-----------------------------------------------------------------------------
(***************************************************************************)
(* BackwardDeduce, and the end of ComputeFlda                              *)
(***************************************************************************)
\* Mutant: the number of selected instructions is not taken again.
EndForward_Stale ==
    /\ stack # <<>> /\ ~Top.back /\ Top.pc > Len(Fn(Top.fn).body)
    /\ m_Func2Fsda' = [m_Func2Fsda EXCEPT ![Top.fn].instNum = Top.pc - 1]
    /\ stack' = SetTop([Top EXCEPT !.back = TRUE, !.pc = @ - 1])
    /\ UNCHANGED <<todo, prog, entries, globals, m_EqualVal, m_InstSet, m_CurEntry, bin>>
EndForward ==
    /\ stack # <<>> /\ ~Top.back /\ Top.pc > Len(Fn(Top.fn).body)
    /\ m_Func2Fsda' = [m_Func2Fsda EXCEPT ![Top.fn].instNum = Top.pc - 1]
    /\ stack' = SetTop([Top EXCEPT !.back = TRUE, !.pc = @ - 1, !.fw = Cardinality(m_InstSet)])
    /\ UNCHANGED <<todo, prog, entries, globals, m_EqualVal, m_InstSet, m_CurEntry, bin>>

\* What a tainted value was loaded from, stored from or computed from is tainted;
\* the first instruction is not looked at.
BackInst ==
    LET i    == Inst
        uses == Range(Uses(prog, i))
        hit  == i.op \in {"load", "store", "gep", "bitcast"} /\ GetDef(i) \in Top.lex
        step == [Top EXCEPT !.pc = @ - 1]
    IN  /\ stack # <<>> /\ Top.back /\ Top.pc > 1
        /\ stack' = SetTop(IF hit THEN [step EXCEPT !.lex = @ \cup uses,
                                               !.out = @ \cup CheckOutArgTaint(Top.fn, uses)]
                           ELSE step)
        /\ IF hit /\ i.v \notin m_InstSet THEN Select(i, 0)
           ELSE UNCHANGED <<m_InstSet, m_Func2Fsda>>
        /\ UNCHANGED <<todo, prog, entries, globals, m_EqualVal, m_CurEntry, bin>>

EndBackward == stack # <<>> /\ Top.back /\ Top.pc <= 1

Grew == Cardinality(m_InstSet) # Top.fw

Again ==
    /\ EndBackward /\ Grew
    /\ stack' = SetTop([Top EXCEPT !.back = FALSE, !.pc = 1,
                                   !.lex = InitCriterions(Top.fn, Top.out, @)])
    /\ UNCHANGED <<todo, prog, entries, globals, m_EqualVal, m_InstSet, m_Func2Fsda,
                   m_CurEntry, bin>>

Return ==
    LET F  == UpdateSdsCache(m_Func2Fsda, Top.fn, Top.in, Top.out)
        st == SubSeq(stack, 1, Len(stack) - 1)
        to == Last(st)
    IN  /\ EndBackward /\ ~Grew
        /\ IF st = <<>>
           THEN /\ EndEntry(m_CurEntry, Top.out)
                /\ stack' = st /\ m_Func2Fsda' = F
                /\ UNCHANGED <<m_GlvLexset, m_InstSet>>
           ELSE /\ FinishCall(F, st, Fn(to.fn).body[to.pc], to.bits, to.before, Top.out)
                /\ UNCHANGED <<m_EntryTaintBits, m_EntryExeNum>>
        /\ UNCHANGED <<todo, prog, m_EntryFQ, m_Entry2GlvUse, m_GlvUse2Entry, m_GlvAlias,
                       m_EqualVal, m_CurEntry, bin>>

\* Dump: a file that is there already is copied behind a header with the new
\* number of functions, in the order of their addresses.
Analysed == prog # NoProgram /\ stack = <<>> /\ m_EntryFQ = <<>>
Record(f) == [name |-> f, id |-> m_Func2Fsda[f].id, num |-> m_Func2Fsda[f].instNum,
              insts |-> Range(m_Func2Fsda[f].insts), cst |-> m_Func2Fsda[f].cst]

Dump ==
    /\ Analysed
    /\ bin' = [FuncNum |-> bin.FuncNum + Cardinality(DOMAIN m_Func2Fsda),
               recs |-> bin.recs \o SetToSeq({Record(f) : f \in DOMAIN m_Func2Fsda})]
    /\ prog' = NoProgram
    /\ UNCHANGED <<todo, entries, globals, m_EqualVal, m_InstSet, m_Func2Fsda, m_CurEntry, stack>>

Forward ==
    SkipInst \/ SourceInst \/ PassInst \/ TaintRet \/ TaintInst \/ CreateThread
    \/ CallKnown \/ CallEnter \/ EndForward

Next ==
    \/ RunPasses \/ RunEntry \/ RunEntryCached \/ DropEntry
    \/ Forward \/ BackInst \/ Again \/ Return
    \/ Dump

Spec == Init /\ [][Next]_vars /\ WF_vars(Next)
-----------------------------------------------------------------------------
\* Queue, stack and records are about functions the program defines; a call of
\* ComputeFlda never loses a taint it was given, and its position is in the function.
TypeOK ==
    prog # NoProgram =>
        /\ IsInjective(m_EntryFQ) /\ Range(m_EntryFQ) \subseteq Defined(prog)
        /\ DOMAIN m_Func2Fsda \subseteq Defined(prog)
        /\ m_InstSet \subseteq {i.v : i \in Insts}
        /\ \A k \in DOMAIN stack :
              /\ stack[k].fn \in DOMAIN m_Func2Fsda
              /\ stack[k].in \subseteq stack[k].out
              /\ stack[k].pc \in 0 .. Len(Fn(stack[k].fn).body) + 1

\* No function is gone through again while a call of it is still at work
\* (m_RunStack): a recursive program would keep ComputeFlda busy for ever.
NoReentry ==
    \A j, k \in DOMAIN stack : stack[j].fn = stack[k].fn => j = k

\* What is selected is recorded with the function it stands in, under the number
\* of its position and its block, whichever walk selected it, and marked as a
\* source exactly if it is one; functions have numbers of their own. The pass finds
\* the instructions by these numbers.
SelectedRecorded ==
    prog # NoProgram =>
        /\ m_InstSet = UNION {DOMAIN m_Func2Fsda[f].insts : f \in DOMAIN m_Func2Fsda}
        /\ \A f, g \in DOMAIN m_Func2Fsda : m_Func2Fsda[f].id = m_Func2Fsda[g].id => f = g
        /\ \A f \in DOMAIN m_Func2Fsda : \A v \in DOMAIN m_Func2Fsda[f].insts :
              \E k \in DOMAIN Fn(f).body :
                 /\ Fn(f).body[k].v = v
                 /\ m_Func2Fsda[f].insts[v] =
                       GetEventId(f, Fn(f).body[k], k, IF IsSourceInst(Fn(f).body[k]) THEN 1 ELSE 0)

Followed(i) ==
    /\ ~IsSkipped(i) /\ i.op \notin {"icmp", "bitcast"} /\ IsActiveFields(i)
    /\ ~(IsCall(i) /\ IsThreadCrt(i.callee))
SelectedIn(f, k) == Fn(f).body[k].v \in m_InstSet

\* When the analysis ends, an instruction that uses what an earlier selected one
\* of its function defined is selected as well: walking back never selects
\* a definition whose later uses stay behind.
FlowSelected ==
    Analysed =>
        \A f \in DOMAIN m_Func2Fsda : \A j, k \in DOMAIN Fn(f).body :
            LET def == Fn(f).body[j]
                use == Fn(f).body[k]
            IN  /\ j < k /\ SelectedIn(f, j) /\ GetDef(def) # NoValue
                /\ IsCall(def) => IsSourceInst(def)
                /\ GetBaseAddr(prog, GetDef(def)) \in Range(Uses(prog, use))
                /\ Followed(use)
                => SelectedIn(f, k)

Callees(S) == {i.callee : i \in UNION {Range(Fn(f).body) : f \in S}} \cap Defined(prog)
Recursive(f) ==
    LET wider(g, S) == S \cup Callees(S)
    IN  f \in FoldSet(wider, Callees({f}), Defined(prog))

\* A function that is called with a tainted argument has the instructions that use
\* this argument selected, even when a summary answered the call; recursive
\* functions excepted, whose inner calls are not gone through.
CallsFollowed ==
    Analysed =>
        \A f \in DOMAIN m_Func2Fsda : \A k \in DOMAIN Fn(f).body :
            LET i == Fn(f).body[k]
                g == i.callee
            IN  (i.v \in DOMAIN m_Func2Fsda[f].cst /\ g \in Defined(prog) \ DOMAIN prog.lib
                    /\ ~Recursive(g)) =>
                \A n \in DOMAIN Fn(g).args : \A l \in DOMAIN Fn(g).body :
                    /\ ArgNo(n) \in m_Func2Fsda[f].cst[i.v].in
                    /\ Fn(g).args[n] \in Range(Uses(prog, Fn(g).body[l]))
                    /\ Followed(Fn(g).body[l])
                    => SelectedIn(g, l)

\* An entry that uses a global which a selected instruction of another entry writes
\* has the uses selected, whichever of the two ran first (AddGlvUseEntry).
GlobalUsesSelected ==
    Analysed =>
        \A e, f \in DOMAIN m_EntryTaintBits : \A g \in DOMAIN m_GlvAlias :
            (e # f /\ \E k \in DOMAIN Fn(f).body : SelectedIn(f, k) /\ GetDef(Fn(f).body[k]) = g) =>
                \A k \in DOMAIN Fn(e).body :
                    g \in Range(Uses(prog, Fn(e).body[k])) => SelectedIn(e, k)

\* At the end tainted data has been followed inside functions, into the functions
\* called, and from one entry to another through globals.
DataFollowed == FlowSelected /\ CallsFollowed /\ GlobalUsesSelected

(***************************************************************************)
(* What could be tainted at all, whatever the order of instructions and    *)
(* calls: what a source or an argument of an entry is linked with.  The    *)
(* values of a function are linked by its instructions; walking back a     *)
(* constant is tainted like any operand, and stands for itself in the      *)
(* whole function, but in no other.                                        *)
(***************************************************************************)
IsLocal(P, v) == v \in P.const \ (P.global \cup DOMAIN P.fn \cup DOMAIN InitGlv(P))
Node(P, f, v) == <<IF IsLocal(P, v) THEN f ELSE NoFunc, v>>
Body(P, f) == Range(P.fn[f].body)
Arguments(P, f) == {Node(P, f, v) : v \in Range(P.fn[f].args)}
Touches(P, f, i) ==
    {Node(P, f, v) : v \in {i.v} \cup Range(Uses(P, i)) \cup ({GetDef(i)} \ {NoValue})}
Returns(P, f) == {r \in Body(P, f) : r.op = "ret"}
Calls(P, f) == {i \in Body(P, f) : IsCall(i)}
Creates(P, f) == {i \in Calls(P, f) : IsThreadCrt(i.callee)}

\* Instructions link their values, calls the arguments and the result, a thread's
\* creation what is given to it.
ArgLinks(P, f, i) ==
    {{Node(P, f, Uses(P, i)[n]), Node(P, i.callee, P.fn[i.callee].args[n])} :
        n \in DOMAIN Uses(P, i) \cap DOMAIN P.fn[i.callee].args}
ResultLinks(P, f, i) ==
    {{Node(P, f, i.v)} \cup Touches(P, i.callee, r) : r \in Returns(P, i.callee)}
FunctionLinks(P, f) ==
    {Touches(P, f, i) : i \in Body(P, f)}
    \cup (UNION {ArgLinks(P, f, i) \cup ResultLinks(P, f, i) :
               i \in {j \in Calls(P, f) : j.callee \in Defined(P)}})
    \cup {Touches(P, f, i) \cup {Node(P, f, i.ops[4])} : i \in Creates(P, f)}

\* Whatever ProcEntry is given for an entry, and whatever taints the entry, taints
\* both; and of a function with a shared parameter the first one is tainted.
ThreadLink(P, e) ==
    Arguments(P, e)
    \cup (UNION {Touches(P, e, r) : r \in Returns(P, e)})
    \cup UNION {{Node(P, f, i.ops[4]) : i \in {j \in Creates(P, f) : j.ops[3] = e}} : f \in Defined(P)}
IsShared(P, f) == Range(P.fn[f].args) \cap DOMAIN InitGlv(P) # {}

\* What EqualProcess can make equal.
Equals(P) ==
    {<<GetDef(i), Uses(P, i)[1]>> : i \in {j \in AllInsts(P) : j.op = "bitcast"}}
    \cup {<<GetDef(i), GetBaseAddr(P, GetDef(i))>> : i \in {j \in AllInsts(P) : GetDef(j) # NoValue}}

Links(P) ==
    (UNION {FunctionLinks(P, f) : f \in Defined(P)})
    \cup {ThreadLink(P, e) : e \in {i.ops[3] : i \in UNION {Creates(P, f) : f \in Defined(P)}}}
    \cup {Arguments(P, f) : f \in {g \in Defined(P) : IsShared(P, g)}}
    \cup {{Node(P, NoFunc, v), Node(P, NoFunc, InitGlv(P)[v])} : v \in DOMAIN InitGlv(P)}
    \cup {{Node(P, f, e[1]), Node(P, f, e[2])} : f \in Defined(P), e \in Equals(P)}
Origins(P) ==
    (UNION {{Node(P, f, i.v) : i \in {j \in Calls(P, f) : j.callee \in P.sources}} : f \in Defined(P)})
    \cup (UNION {Arguments(P, e) : e \in Entries(P)})
Closed(P, C) == Origins(P) \subseteq C /\ \A L \in Links(P) : L \cap C # {} => L \subseteq C

\* Nothing is selected outside of a closed set, the least one at best, but calls of
\* functions that were gone through: what starts untainted stays so.
OnlyConnected ==
    Analysed /\ Closed(prog, Reach(prog)) =>
        \A f \in Defined(prog) : \A k \in DOMAIN Fn(f).body :
            LET i == Fn(f).body[k]
            IN  SelectedIn(f, k) =>
                    \/ Touches(prog, f, i) \cap Reach(prog) # {}
                    \/ IsCall(i) /\ i.callee \in DOMAIN m_Func2Fsda

\* The analysis of every program ends: entries that taint each other's globals,
\* recursion and threads that create threads do not keep it at work.
Terminates == <>(todo = <<>> /\ prog = NoProgram)
=============================================================================
