---------------------------- MODULE Instrumenter ----------------------------
(***************************************************************************)
(* The instrumentation pass (Instrumenter.h): behind every selected        *)
(* instruction it inserts a call that traces it, and hooks for the entry of*)
(* functions, the creation of threads, and the begin and end of the        *)
(* program. The rewritten functions are then run, to see what they trace.  *)
(***************************************************************************)
EXTENDS LLVMInst, EventMsg, FiniteSetsExt

CONSTANTS
    Input,          \* pairs of a module and the records of LdaBin.bin
    MAX_STEPS       \* instructions of a run

\* A module has two fields more: order, the sequence of its functions, and succ,
\* the blocks a branch may go to; other is the set of values whose types cannot be written.
VARIABLES
    mod, bin,
    CallTrace,      \* FULL_INSTRUMENTATION: trace the calls only
    m_Fname2Flda,   \* function -> what LdaBin.bin says of it
    todo,           \* functions to visit; the first is at work
    InstID,         \* next instruction of the function at work; 0: not begun
    code,           \* function -> number of an instruction -> the hooks in front of it
    m_ExitInsts,    \* pairs of a function and a number
    phase,          \* "load", "visit", "run", "end"
    fn, pc,         \* the instruction a run is at ...
    hooks,          \* ... the hooks left in front of it ...
    executed,       \* ... the numbers of the instructions behind it ...
    trace           \* ... and of the hooks

state == <<m_Fname2Flda, todo, InstID, code, m_ExitInsts>>
running == <<fn, pc, hooks, executed, trace>>
vars == <<mod, bin, CallTrace, phase, state, running>>

Fn(f) == mod.fn[f]
Func == Head(todo)
Body == Fn(Func).body
-----------------------------------------------------------------------------
(***************************************************************************)
(* What the verifier of LLVM holds every module to, as far as the pass     *)
(* depends on it: blocks are not interleaved and end with the one          *)
(* instruction that leaves them, PHIs come first, the entry has none, and  *)
(* a branch stays in its function.                                         *)
(***************************************************************************)
Branches == {"br", "switch", "invoke"}
Leaves == {"resume", "unreachable"}
Terminators == Branches \cup Leaves \cup {"ret"}

Blocks(b) == {b[k].bb : k \in DOMAIN b}
ValidBody(b, succ) ==
    /\ b \in Seq(Range(b)) /\ b # <<>> /\ b[1].op # "phi"
    /\ \A j, k \in DOMAIN b : b[j].bb = b[k].bb => \A l \in j .. k : b[l].bb = b[j].bb
    /\ \A k \in DOMAIN b :
          b[k].op \in Terminators <=> (k = Len(b) \/ b[k + 1].bb # b[k].bb)
    /\ \A k \in 2 .. Len(b) :
          b[k].op = "phi" /\ b[k - 1].bb = b[k].bb => b[k - 1].op = "phi"
    /\ \A k \in DOMAIN b : b[k].op \in Branches => succ[b[k].v] \subseteq Blocks(b)

ValidModule(m) ==
    /\ m.order \in Seq(DOMAIN m.fn) /\ IsInjective(m.order) /\ Range(m.order) = DOMAIN m.fn
    /\ NoFunc \notin DOMAIN m.fn
    /\ \A f \in DOMAIN m.fn : m.fn[f].decl \in BOOLEAN
    /\ \A f \in DOMAIN m.fn : IF m.fn[f].decl THEN m.fn[f].body = <<>>
                               ELSE ValidBody(m.fn[f].body, m.succ)

ASSUME InputAssumption == \A in \in Input : ValidModule(in[1])
-----------------------------------------------------------------------------
(***************************************************************************)
(* LdaBin.bin                                                              *)
(***************************************************************************)
\* Records of functions that have the same name become one, with the number of the
\* first, but each instruction keeps the event id of the last record that selects it.
AddFlda(F, r) ==
    LET old == IF r.name \in DOMAIN F THEN F[r.name]
               ELSE [id |-> r.id, num |-> r.num, blocks |-> r.blocks, insts |-> <<>>, cst |-> <<>>]
        ids == [k \in r.insts |-> r.id]
        new == [old EXCEPT !.insts = ids @@ @, !.cst = r.cst @@ @]
    IN  (r.name :> new) @@ F

IsInstTainted(f, iid) == iid \in DOMAIN m_Fname2Flda[f].insts
ValidCheck(f) ==
    /\ Len(Fn(f).body) = m_Fname2Flda[f].num
    /\ Cardinality(Blocks(Fn(f).body)) = m_Fname2Flda[f].blocks
-----------------------------------------------------------------------------
(***************************************************************************)
(* Messages                                                                *)
(***************************************************************************)
IsGlv(v) == v \in mod.global \cup DOMAIN mod.fn

\* AddVarFormat: values of other types than integers, floats and pointers are not written.
VarOf(v) ==
    CASE v \in mod.other -> <<>>
      [] v \notin mod.other /\ IsGlv(v) -> <<Variable(v, "G")>>
      [] v \notin mod.other /\ ~IsGlv(v) -> <<Variable(v, IF v \in mod.ptr THEN "P" ELSE "U")>>
VarsOf(s) == FlattenSeq([k \in DOMAIN s |-> VarOf(s[k])])

SetEventType(i) ==
    CASE i.op = "gep" -> "GEP" [] IsAdd(i) -> "ADD" [] IsMul(i) -> "MUL" [] IsDiv(i) -> "DIV"
      [] i.op = "ret" -> "RET" [] IsCall(i) -> "CALL" [] i.op = "br" -> "BR"
      [] OTHER -> "NR"

IsDefined(f) == f # NoFunc /\ ~Fn(f).decl

\* The formal parameters of a call: the bit looked at only moves on when a
\* parameter is listed, so the first that is not ends the list; pointers never are.
Integers(args, n) == {m \in 1 .. n : args[m] \notin mod.ptr}
Listed(args, in) ==
    {n \in Integers(args, Len(args)) :
        \A bit \in 2 .. Cardinality(Integers(args, n)) + 1 : bit \in in}
Formals(i, in) ==
    LET args == Fn(i.callee).args
    IN  FlattenSeq([n \in DOMAIN args |-> IF n \in Listed(args, in) THEN <<args[n]>> ELSE <<>>])

\* What the call defines: its result and the arguments it taints, those that went in
\* tainted excepted if the function is known.
OutBits(i, cst) == IF IsDefined(i.callee) THEN cst.out \ cst.in ELSE cst.out
OutArgs(i, cst) == {n \in DOMAIN PassUses(mod, i) : n + 1 \in OutBits(i, cst)}
RetTainted(i, cst) == 1 \in OutBits(i, cst) /\ GetDef(i) # NoValue

Result(i, cst) ==
    IF ~RetTainted(i, cst) THEN <<>>
    ELSE Append(VarOf(GetDef(i)), IF OutBits(i, cst) = {1} THEN MSG_DF ELSE MSG_MT)

Argument(i, cst, n) ==
    (IF n = Min(OutArgs(i, cst)) THEN <<>> ELSE <<MSG_MT>>) \o VarOf(PassUses(mod, i)[n])
Arguments(i, cst) ==
    FlattenSeq([n \in DOMAIN PassUses(mod, i) |->
                    IF n \in OutArgs(i, cst) THEN Argument(i, cst, n) ELSE <<>>])

\* Mutant: no comma between the definitions.
Outputs_NoComma(i, cst) ==
    LET uses == PassUses(mod, i)
    IN  FlattenSeq([n \in DOMAIN uses |-> IF n \in OutArgs(i, cst) THEN VarOf(uses[n]) ELSE <<>>])
        \o (IF OutArgs(i, cst) = {} THEN <<>> ELSE <<MSG_DF>>)

\* A bit behind the last argument ends the list without the = that would close it.
Outputs(i, cst) ==
    Arguments(i, cst)
    \o (IF OutArgs(i, cst) = {} \/ (\E b \in OutBits(i, cst) : b - 1 > Len(PassUses(mod, i)))
        THEN <<>> ELSE <<MSG_DF>>)

Name(i) == Variable(IF i.callee = NoFunc THEN "PtsCall" ELSE i.callee, "F")

HasFormals(i, cst) == IsDefined(i.callee) /\ cst.in # {}
CallHead(i, cst) ==
    IF HasFormals(i, cst)
    THEN <<Name(i), MSG_FP_L>> \o VarsOf(Formals(i, cst.in)) \o <<MSG_FP_R, MSG_MT>>
    ELSE <<Name(i), MSG_MT>>

DefFormat(i) == IF GetDef(i) = NoValue THEN <<>> ELSE Append(VarOf(GetDef(i)), MSG_DF)

\* A constant is passed over, and with it the comma.
UseFormat(i) ==
    LET uses == PassUses(mod, i)
    IN  FlattenSeq([n \in DOMAIN uses |->
            IF IsConst(mod, uses[n]) THEN <<>>
            ELSE VarOf(uses[n]) \o (IF n = Len(uses) THEN <<>> ELSE <<MSG_MT>>)])

HasCst(f, iid) == iid \in DOMAIN m_Fname2Flda[f].cst
Cst(f, iid) == m_Fname2Flda[f].cst[iid]

GetInstrPara(f, iid) ==
    LET i    == Fn(f).body[iid]
        left == CASE IsCall(i) /\ HasCst(f, iid) ->
                        CallHead(i, Cst(f, iid)) \o Result(i, Cst(f, iid)) \o Outputs(i, Cst(f, iid))
                  [] IsCall(i) /\ ~HasCst(f, iid) -> <<Name(i), MSG_MT>> \o DefFormat(i)
                  [] ~IsCall(i)                   -> DefFormat(i)
    IN  Write(<<MSG_BEGIN>> \o left \o UseFormat(i) \o <<MSG_END>>)
-----------------------------------------------------------------------------
(***************************************************************************)
(* Hooks: inserted calls [kind, id, msg]. H is the hooks of a function.    *)
(***************************************************************************)
Hook(kind, id, msg) == [kind |-> kind, id |-> id, msg |-> msg]
EventId(f, type, iid) == [fid |-> m_Fname2Flda[f].id, type |-> type, iid |-> iid]
GetEventID(f, iid) ==
    [fid |-> m_Fname2Flda[f].insts[iid], type |-> SetEventType(Fn(f).body[iid]), iid |-> iid]
NoEvent == [fid |-> 0, type |-> "NONE", iid |-> 0]

\* GetFirstNonPHI: the first instruction of a block that is no PHI.
FirstNonPhi(f, bb) ==
    LET b == Fn(f).body
    IN  CHOOSE k \in DOMAIN b : /\ b[k].bb = bb /\ b[k].op # "phi"
                                /\ \A j \in 1 .. k - 1 : b[j].bb = bb => b[j].op = "phi"

InsertBefore(H, k, hook) == [H EXCEPT ![k] = Append(@, hook)]
\* In front of the hooks that are there: they are no PHIs.
InsertFirst(f, H, bb, hook) == [H EXCEPT ![FirstNonPhi(f, bb)] = Cons(hook, @)]

\* Mutant: returns are traced like the rest.
InstrumentSite_NoRet(f, iid) ==
    LET b == Fn(f).body
    IN  IF iid = Len(b) THEN iid
        ELSE IF b[iid + 1].op = "phi" THEN FirstNonPhi(f, b[iid].bb) ELSE iid + 1

\* The instruction an event is traced in front of: the next one of the function, or
\* the first of the block that is no PHI; a return is traced before it runs.
InstrumentSite(f, iid) ==
    LET b == Fn(f).body
    IN  IF iid = Len(b) \/ b[iid].op = "ret" THEN iid
        ELSE IF b[iid + 1].op = "phi" THEN FirstNonPhi(f, b[iid].bb) ELSE iid + 1
-----------------------------------------------------------------------------
Init ==
    /\ \E in \in Input : mod = in[1] /\ bin = in[2]
    /\ CallTrace \in BOOLEAN
    /\ m_Fname2Flda = <<>> /\ todo = <<>> /\ InstID = 0 /\ m_ExitInsts = {}
    /\ code = [f \in {g \in DOMAIN mod.fn : ~mod.fn[g].decl} |->
                  [k \in DOMAIN mod.fn[f].body |-> <<>>]]
    /\ phase = "load"
    /\ fn = NoFunc /\ pc = 0 /\ hooks = <<>> /\ executed = <<>> /\ trace = <<>>

LoadLdaBin ==
    /\ phase = "load" /\ ~CallTrace
    /\ m_Fname2Flda' = FoldLeft(AddFlda, <<>>, bin)
    /\ todo' = mod.order
    /\ phase' = "visit"
    /\ UNCHANGED <<mod, bin, CallTrace, InstID, code, m_ExitInsts, running>>

\* InstrmCallTrace: every call, and the first and the last block of every function.
TraceCalls(f) ==
    LET b  == Fn(f).body
        cs == [k \in DOMAIN b |->
                  IF IsCall(b[k]) /\ ~IsSkipped(b[k])
                  THEN Append(code[f][k], Hook("CS", NoEvent, <<Name(b[k])>>)) ELSE code[f][k]]
        in == InsertFirst(f, cs, b[1].bb, Hook("IN", NoEvent, <<f>>))
    IN  InsertFirst(f, in, b[Len(b)].bb, Hook("OUT", NoEvent, <<f>>))

InstrmCallTrace ==
    /\ phase = "load" /\ CallTrace
    /\ code' = [f \in DOMAIN code |-> TraceCalls(f)]
    /\ phase' = "visit"
    /\ UNCHANGED <<mod, bin, CallTrace, m_Fname2Flda, todo, InstID, m_ExitInsts, running>>
-----------------------------------------------------------------------------
(***************************************************************************)
(* VisitFunction                                                           *)
(***************************************************************************)
Visiting == phase = "visit" /\ todo # <<>>
IsVisited(f) == IsDefined(f) /\ f \in DOMAIN m_Fname2Flda /\ ValidCheck(f)

SkipFunction ==
    /\ Visiting /\ InstID = 0 /\ ~IsVisited(Func)
    /\ todo' = Tail(todo)
    /\ UNCHANGED <<mod, bin, CallTrace, phase, m_Fname2Flda, InstID, code, m_ExitInsts, running>>

\* VisitInst: numbers the instructions, finds the ends of the program.
IsExit(i) == i.op = "call" /\ i.callee = "exit"
VisitInst ==
    /\ Visiting /\ InstID = 0 /\ IsVisited(Func)
    /\ InstID' = 1
    /\ m_ExitInsts' = m_ExitInsts \cup {<<Func, k>> : k \in {l \in DOMAIN Body : IsExit(Body[l])}}
    /\ UNCHANGED <<mod, bin, CallTrace, phase, m_Fname2Flda, todo, code, running>>

\* No call can stand in front of a landing pad: the event is lost.
Dropped(f, iid) ==
    LET b == Fn(f).body
    IN  iid < Len(b) /\ b[iid].op # "ret" /\ b[InstrumentSite(f, iid)].op = "landingpad"
Traced(f, iid) == IsInstTainted(f, iid) /\ Fn(f).body[iid].op # "invoke" /\ ~Dropped(f, iid)

PassInst ==
    /\ Visiting /\ InstID \in 1 .. Len(Body) /\ ~Traced(Func, InstID)
    /\ InstID' = InstID + 1
    /\ UNCHANGED <<mod, bin, CallTrace, phase, m_Fname2Flda, todo, code, m_ExitInsts, running>>

AddTrack ==
    /\ Visiting /\ InstID \in 1 .. Len(Body) /\ Traced(Func, InstID)
    /\ code' = [code EXCEPT ![Func] =
                    InsertBefore(@, InstrumentSite(Func, InstID),
                                 Hook("trace", GetEventID(Func, InstID), GetInstrPara(Func, InstID)))]
    /\ InstID' = InstID + 1
    /\ UNCHANGED <<mod, bin, CallTrace, phase, m_Fname2Flda, todo, m_ExitInsts, running>>

\* InstrumThrc behind every pthread_create, then AddCallTrack at the entry; the pass
\* asserts that something comes behind.
IsThreadEntry(i) == IsCall(i) /\ i.callee = "pthread_create"
InstrumThrc(f) ==
    [k \in DOMAIN code[f] |->
        IF k > 1 /\ IsThreadEntry(Fn(f).body[k - 1])
        THEN Append(code[f][k], Hook("thread", EventId(f, "THRC", k - 1), <<Fn(f).body[k - 1].ops[3]>>))
        ELSE code[f][k]]
AddCallTrack(f, H) ==
    InsertFirst(f, H, Fn(f).body[1].bb,
                Hook("trace", EventId(f, "FENTRY", 0), <<MSG_BEGIN, Variable(f, "F"), MSG_END>>))

\* Mutant: the next function is begun where this one ended.
EndFunction_NoReset ==
    /\ Visiting /\ InstID > Len(Body) /\ ~IsThreadEntry(Body[Len(Body)])
    /\ code' = [code EXCEPT ![Func] = AddCallTrack(Func, InstrumThrc(Func))]
    /\ todo' = Tail(todo)
    /\ UNCHANGED <<mod, bin, CallTrace, phase, InstID, m_Fname2Flda, m_ExitInsts, running>>

EndFunction ==
    /\ Visiting /\ InstID > Len(Body) /\ ~IsThreadEntry(Body[Len(Body)])
    /\ code' = [code EXCEPT ![Func] = AddCallTrack(Func, InstrumThrc(Func))]
    /\ todo' = Tail(todo) /\ InstID' = 0
    /\ UNCHANGED <<mod, bin, CallTrace, phase, m_Fname2Flda, m_ExitInsts, running>>

\* InitInstrumenter: the module with main sets the trace up, and ends it before every
\* exit found and at the end of main's last block.
Ends ==
    LET b == Fn("main").body
    IN  m_ExitInsts \cup
        (IF b[Len(b)].op \in {"ret", "unreachable"} THEN {<<"main", Len(b)>>} ELSE {})
Hooked ==
    LET init == [code EXCEPT !["main"] =
                    InsertFirst("main", @, Fn("main").body[1].bb, Hook("init", NoEvent, <<>>))]
    IN  [f \in DOMAIN code |-> [k \in DOMAIN code[f] |->
            IF <<f, k>> \in Ends THEN Append(init[f][k], Hook("exit", NoEvent, <<>>)) ELSE init[f][k]]]

InitInstrumenter ==
    /\ phase = "visit" /\ todo = <<>>
    /\ code' = IF "main" \in DOMAIN code THEN Hooked ELSE code
    /\ phase' = "run"
    /\ \E f \in DOMAIN code : fn' = f /\ pc' = 1 /\ hooks' = code'[f][1]
    /\ UNCHANGED <<mod, bin, CallTrace, m_Fname2Flda, todo, InstID, m_ExitInsts, executed, trace>>
-----------------------------------------------------------------------------
(***************************************************************************)
(* A run of one rewritten function                                         *)
(***************************************************************************)
At == Fn(fn).body[pc]
AtInst == phase = "run" /\ hooks = <<>>
BlockStart(bb) ==
    CHOOSE k \in DOMAIN Fn(fn).body : /\ Fn(fn).body[k].bb = bb
                                      /\ \A j \in 1 .. k - 1 : Fn(fn).body[j].bb # bb

RunHook ==
    /\ phase = "run" /\ hooks # <<>>
    /\ trace' = Append(trace, Head(hooks)) /\ hooks' = Tail(hooks)
    /\ UNCHANGED <<mod, bin, CallTrace, phase, state, fn, pc, executed>>

GoTo(k) ==
    /\ executed' = Append(executed, pc)
    /\ pc' = k /\ hooks' = code[fn][k]
    /\ UNCHANGED <<mod, bin, CallTrace, phase, state, fn, trace>>

RunInst == AtInst /\ At.op \notin Terminators /\ ~IsExit(At) /\ GoTo(pc + 1)

RunBranch ==
    /\ AtInst /\ At.op \in Branches /\ Len(executed) < MAX_STEPS
    /\ \E bb \in mod.succ[At.v] : GoTo(BlockStart(bb))

RunEnd ==
    /\ AtInst /\ (At.op \in Leaves \cup {"ret"} \/ IsExit(At))
    /\ executed' = Append(executed, pc) /\ phase' = "end"
    /\ UNCHANGED <<mod, bin, CallTrace, state, fn, pc, hooks, trace>>

Visit == SkipFunction \/ VisitInst \/ PassInst \/ AddTrack \/ EndFunction
Run == RunHook \/ RunInst \/ RunBranch \/ RunEnd
Next == LoadLdaBin \/ InstrmCallTrace \/ Visit \/ InitInstrumenter \/ Run

Spec == Init /\ [][Next]_vars
-----------------------------------------------------------------------------
\* Rewriting only adds hooks to the instructions there are, functions are visited one
\* by one from their first instruction, and a run stays in its function.
TypeOK ==
    /\ phase \in {"load", "visit", "run", "end"} /\ CallTrace \in BOOLEAN
    /\ todo \in Seq(DOMAIN mod.fn)
    /\ InstID \in 0 .. (IF todo = <<>> THEN 0 ELSE Len(Body) + 1)
    /\ DOMAIN code = {f \in DOMAIN mod.fn : ~Fn(f).decl}
    /\ \A f \in DOMAIN code : /\ DOMAIN code[f] = DOMAIN Fn(f).body
                              /\ \A k \in DOMAIN code[f] : code[f][k] \in Seq(Range(code[f][k]))
    /\ \A x \in m_ExitInsts : x[1] \in DOMAIN code /\ x[2] \in DOMAIN Fn(x[1]).body
    /\ phase \in {"run", "end"} => fn \in DOMAIN code /\ pc \in DOMAIN Fn(fn).body
    /\ \A n \in DOMAIN executed : executed[n] \in DOMAIN Fn(fn).body

Tracing == Visiting /\ InstID \in 1 .. Len(Body) /\ Traced(Func, InstID)

\* What an instruction defines: its result, or what the call taints that was not
\* tainted before.
Definitions(f, iid) ==
    LET i == Fn(f).body[iid]
        result == IF GetDef(i) = NoValue THEN <<>> ELSE <<GetDef(i)>>
        uses == PassUses(mod, i)
    IN  IF ~IsCall(i) \/ ~HasCst(f, iid) THEN result
        ELSE (IF RetTainted(i, Cst(f, iid)) THEN result ELSE <<>>)
             \o FlattenSeq([n \in DOMAIN uses |->
                    IF n \in OutArgs(i, Cst(f, iid)) THEN <<uses[n]>> ELSE <<>>])
Operands(i) == Range(PassUses(mod, i)) \ mod.const

\* What is written of the instruction before its uses.
Places(f, iid) ==
    LET i == Fn(f).body[iid]
    IN  (IF IsCall(i) /\ HasCst(f, iid) /\ HasFormals(i, Cst(f, iid))
         THEN Formals(i, Cst(f, iid).in) ELSE <<>>) \o Definitions(f, iid)
Twice(s) == {s[j] : j \in {k \in DOMAIN s : \E l \in DOMAIN s : l # k /\ s[l] = s[k]}}
Thrice(s) ==
    \E j, k, l \in DOMAIN s : j # k /\ k # l /\ j # l /\ s[j] = s[k] /\ s[k] = s[l]

\* Values whose type can be written, none of them three times before the uses, in a
\* call of as many arguments as its summary knows.
Plain(f, iid) ==
    LET i == Fn(f).body[iid]
    IN  /\ ({GetDef(i)} \cup Range(PassUses(mod, i))) \cap mod.other = {}
        /\ ~Thrice(Places(f, iid))
        /\ IsCall(i) /\ HasCst(f, iid) =>
              OutBits(i, Cst(f, iid)) \subseteq 1 .. Len(PassUses(mod, i)) + 1

Message(f, iid) == DecodeEventMsg(SetEventType(Fn(f).body[iid]), GetInstrPara(f, iid))
Defined(def) ==
    FlattenSeq([k \in DOMAIN def |-> IF def[k].type \in {"F", "A"} THEN <<>> ELSE <<def[k].name>>])

\* What the engine decodes from a message is what the instruction defines and uses:
\* the function called, the definitions in their order, and every operand that is no
\* constant, unless it is there twice before the uses.
RoundTrip ==
    (Tracing /\ Plain(Func, InstID)) =>
        LET i == Body[InstID]
            msg == Message(Func, InstID)
        IN  /\ IsCall(i) => msg.Def[1] = Name(i)
            /\ Defined(msg.Def) = Definitions(Func, InstID)
            /\ {msg.Use[k].name : k \in DOMAIN msg.Use}
                  = Operands(i) \ Twice(Places(Func, InstID))

\* A function that returns has traced its selected instructions, each as often as it
\* ran and in the order they ran in; those that leave a block excepted, whose event
\* stands in the block behind them, and those whose event is dropped.
Due(f, k) ==
    LET i == Fn(f).body[k]
    IN  IF CallTrace THEN IsCall(i) /\ ~IsSkipped(i)
        ELSE IsVisited(f) /\ IsInstTainted(f, k) /\ ~Dropped(f, k) /\ i.op \notin Branches \cup Leaves
Owed(f, k) ==
    IF ~Due(f, k) THEN <<>>
    ELSE IF CallTrace THEN <<Name(Fn(f).body[k])>>
    ELSE <<GetEventID(f, k)>>

IsEvent(f, h) ==
    IF CallTrace THEN h.kind = "CS"
    ELSE /\ h.kind = "trace" /\ h.id.type # "FENTRY"
         /\ Fn(f).body[h.id.iid].op \notin Branches \cup Leaves
Reported(f, h) ==
    IF ~IsEvent(f, h) THEN <<>> ELSE IF CallTrace THEN h.msg ELSE <<h.id>>

RunTraced ==
    (phase = "end" /\ Fn(fn).body[Last(executed)].op = "ret") =>
        FlattenSeq([n \in DOMAIN trace |-> Reported(fn, trace[n])])
            = FlattenSeq([n \in DOMAIN executed |-> Owed(fn, executed[n])])

\* A run of main sets the trace up before it traces anything, enters main before
\* anything else happens there, and ends the trace last; unless it returns from
\* another block than its last, or calls exit in a function that was not visited.
ExitReported ==
    (phase = "end" /\ fn = "main") =>
        /\ trace[1].kind = "init"
        /\ IsVisited(fn) => trace[2].id = EventId(fn, "FENTRY", 0)
        /\ (Last(executed) = Len(Fn(fn).body) /\ At.op # "resume") \/ <<fn, Last(executed)>> \in m_ExitInsts =>
                Last(trace).kind = "exit"

\* A run is traced as a whole: no event lost, repeated or out of order between a
\* beginning and an end that are reported.
TraceWhole == RunTraced /\ ExitReported
=============================================================================
