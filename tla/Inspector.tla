----------------------------- MODULE Inspector ------------------------------
(***************************************************************************)
(* Inspector.py: the trace function of the Python side.  CPython calls it   *)
(* before each line, when a frame is entered and when it is left.  The      *)
(* inspector keeps a stack of contexts of its own beside the stack of       *)
(* frames, with the symbols it holds tainted in each, and sends an event    *)
(* for every line that handles one.                                         *)
(*                                                                         *)
(* A program is a set of functions with bodies of abstract statements.      *)
(* Beside the inspector the model keeps what is really tainted: per frame   *)
(* in "dirty", for attributes of classes in "gdirty".  The inspector has    *)
(* no access to either.  One call of the trace function is one step: the    *)
(* model does not let threads change places inside it.                      *)
(***************************************************************************)
EXTENDS Integers, SequencesExt, FiniteSetsExt

CONSTANTS
    Func,       \* functions with a syntax tree; modules and lambdas too
    Body,       \* the statements of each
    Params,     \* FuncDef.Paras of each
    Unnamed,    \* those whose call event is not at a def: modules, lambdas
    Hidden,     \* those whose call event is at a line without statement: decorated
    Methods,    \* those found by a name that is not their own: C.f
    Within,     \* pairs of names of which one contains the other
    Defs,       \* the names GetFuncDef finds
    Criteria,   \* the names whose result is a source
    SrcArgs,    \* the arguments of a callee that are sources, or None
    Dotted,     \* symbols with a dot in them: attributes, by class
    ClassOf,    \* the class of the object a variable holds, or None
    Thread, Main, Top,  \* the threads, the first one and what it executes
    None,
    MaxDepth    \* bound of the model: frames of a thread

Name == DOMAIN ClassOf \cup Dotted
Symbols == Name \cup ({ClassOf[v] : v \in DOMAIN ClassOf} \ {None})

\* What the inspector keeps of a call statement, a context, and an event.
LiveObject ==
    [Def : Symbols \cup {None}, Uses : Seq(Symbols \cup {None}), UseClf : Symbols \cup {None},
     Callee : Defs, Ret : BOOLEAN, Br : BOOLEAN, LineNo : Nat]
ContextRecord ==
    [Func : Defs \cup {Top}, FuncDef : Defs \cup {Top}, TaintSymbs : SUBSET Symbols,
     Ret : Symbols \cup {None}, RetTaint : BOOLEAN, CalleeLo : LiveObject \cup {None}]
EventRecord ==
    [type : {"FENTRY", "NR", "BR", "RET", "CALL", "C"}, fn : STRING \cup {None}, line : Nat,
     callee : STRING \cup {None}, def : Symbols \cup {None}, uses : Seq(Symbols \cup {None}),
     source : BOOLEAN, at : Nat]

\* Statements are simple, which Python rewriting sees to: at most one call in
\* each, and a variable or a constant after return.
IsStatement(st) ==
    /\ st.def \in Seq(Name) /\ st.use \in Seq(Name \cup {None})
    /\ st.via \in {"name", "object", "module"}
    /\ st.via = "object" => st.recv \in DOMAIN ClassOf /\ ClassOf[st.recv] # None
    /\ st.callee \in STRING \cup {None} /\ (st.callee = None => st.via = "name")
    /\ st.op = "return" => st.callee = None /\ st.def = <<>> /\ Len(st.use) <= 1
    /\ st.runs \subseteq Func /\ st.spawns \in Func \cup {None}

Assumption ==
    /\ Unnamed \cup Hidden \cup Methods \cup Defs \cup {Top} \subseteq Func /\ Func \subseteq STRING
    /\ Main \in Thread /\ Top \notin Hidden
    /\ DOMAIN Body = Func
    /\ \A f \in Func : Body[f] \in Seq(Range(Body[f])) /\ Body[f] # <<>>
    /\ \A f \in Func : \A i \in DOMAIN Body[f] : IsStatement(Body[f][i])
    /\ \A f \in Func : Params[f] \in Seq(DOMAIN ClassOf)
    /\ Dotted \cap DOMAIN ClassOf = {} /\ None \notin Name \cup Func \cup Criteria
    /\ None \notin LiveObject /\ None \notin ContextRecord /\ None \notin EventRecord
ASSUME Assumption

VARIABLES
    frames,             \* the frames of each thread, the running one last
    gdirty,             \* the attributes that really hold data of a source
    mishap,             \* what happened that the inspector does not provide for
    due,                \* the lines that read data of a source when they ran
    clock,              \* lines executed so far
    CtxStack, CallCtx, GlobalTaintSymbs, CacheMsg,   \* members of Inspector
    trace,              \* what PyTrace and C sent to the queue
    status              \* "running", "exited", "raised" by the trace function

program == <<frames, gdirty, mishap, due, clock>>
inspector == <<CtxStack, CallCtx, GlobalTaintSymbs, CacheMsg, trace, status>>
vars == <<program, inspector>>
-----------------------------------------------------------------------------
(* Live objects: what a statement defines and uses, as the handlers of      *)
(* line events see it.                                                      *)
MaxUses == 3

Bound(fr, v) == v \in fr.bound /\ ClassOf[v] # None

\* PyEvent.SetRealDef: a variable that holds an object counts as its class.
RealDef(fr, v) == IF v \notin Dotted /\ Bound(fr, v) THEN ClassOf[v] ELSE v

\* LE_call puts the class before the arguments, None when it is a module, and
\* leaves out constants.
Actuals(st) ==
    CASE st.via = "module" -> <<None>>
      [] st.via = "object" -> <<ClassOf[st.recv]>>
      [] OTHER -> <<>>
Variables(use) ==
    LET upto[i \in 0 .. Len(use)] ==
          IF i = 0 THEN <<>>
          ELSE IF use[i] = None THEN upto[i - 1] ELSE Append(upto[i - 1], use[i])
    IN  upto[Len(use)]
Uses(st) ==
    LET all == Actuals(st) \o Variables(st.use)
    IN  SubSeq(all, 1, Min({Len(all), MaxUses}))

UseClf(fr, st) ==
    LET objects == {i \in DOMAIN st.use : st.use[i] \notin Dotted \cup {None} /\ Bound(fr, st.use[i])}
    IN  IF objects = {} THEN None ELSE ClassOf[st.use[Min(objects)]]

LineObject(fr, st) ==
    [Def |-> IF st.def = <<>> THEN None ELSE RealDef(fr, st.def[1]),
     Uses |-> Uses(st), UseClf |-> UseClf(fr, st), Callee |-> st.callee,
     Ret |-> st.op = "return", Br |-> st.op = "if", LineNo |-> fr.pc]

\* What a call event uses: the parameters, the class in place of self.
ParamObject(f) ==
    LET paras == Params[f]
        self(i) == i = 1 /\ f \in Methods
        objects == {i \in DOMAIN paras : ~self(i) /\ ClassOf[paras[i]] # None}
    IN  [Def |-> None,
         Uses |-> [i \in 1 .. Min({Len(paras), MaxUses}) |->
                     IF self(i) THEN ClassOf[paras[i]] ELSE paras[i]],
         UseClf |-> IF objects = {} THEN None ELSE ClassOf[paras[Min(objects)]],
         Callee |-> None, Ret |-> FALSE, Br |-> FALSE, LineNo |-> 0]
-----------------------------------------------------------------------------
(* Contexts and taint, as functions of a stack of contexts and a set of     *)
(* global symbols.                                                          *)
Context(fn, ret) ==
    [Func |-> fn, FuncDef |-> fn, TaintSymbs |-> {}, Ret |-> ret,
     RetTaint |-> FALSE, CalleeLo |-> None]

CurCtx == Last(CtxStack)

\* Inspector.InsertSymb, for a set of symbols.
Local(stk, S) == [stk EXCEPT ![Len(stk)].TaintSymbs = @ \cup (S \ (Dotted \cup {None}))]
Global(glob, S) == glob \cup (S \cap Dotted)

\* The field-insensitive test repeats the field-sensitive one.
IsInTainted(stk, glob, s) == s \in Last(stk).TaintSymbs \cup glob

\* Mutant: one position off.
Actual2Formal_Shifted(lo, stk, glob) ==
    LET paras == Params[lo.Callee]
    IN  {paras[i] : i \in {j \in 2 .. Min({Len(lo.Uses), Len(paras)}) :
                             IsInTainted(stk, glob, lo.Uses[j - 1])}}

\* The caller's taint mapped to the callee's parameters, position by position.
Actual2Formal(lo, stk, glob) ==
    LET paras == Params[lo.Callee]
        args  == SrcArgs[lo.Callee]
        hit(i) == IF args = None THEN IsInTainted(stk, glob, lo.Uses[i]) ELSE args[i]
    IN  {paras[i] : i \in {j \in 1 .. Min({Len(lo.Uses), Len(paras)}) : hit(j)}}

Consistent(fn, callee) == fn = callee \/ {<<fn, callee>>, <<callee, fn>>} \cap Within # {}

\* Mutant: a fresh context also for names without a definition.
Pushes_Any(stk, call, fn) ==
    call = None \/ Last(stk).CalleeLo = None \/ Consistent(fn, Last(stk).CalleeLo.Callee)

\* PushCtx: the stack after it.  With no context prepared the callee gets a
\* fresh one; with one prepared for another name nothing happens.
Pushes(stk, call, fn) ==
    IF call = None THEN fn \in Defs
    ELSE Last(stk).CalleeLo = None \/ Consistent(fn, Last(stk).CalleeLo.Callee)
PushCtx(stk, glob, call, fn) ==
    LET lo == Last(stk).CalleeLo
    IN  IF call = None THEN Append(stk, Context(fn, None))
        ELSE Local(Append(stk, call),
                   IF lo = None THEN {} ELSE Actual2Formal(lo, stk, glob))

\* Propogate: is the line traced, and which symbols become tainted.
IsSourceFunc(stk) == Last(stk).Func \in Criteria
\* Mutant: only the first use is looked at.
Touched_First(stk, glob, lo) ==
    IsSourceFunc(stk) \/ (lo.Uses # <<>> /\ IsInTainted(stk, glob, lo.Uses[1]))

Touched(stk, glob, lo) ==
    IsSourceFunc(stk) \/ \E i \in DOMAIN lo.Uses : IsInTainted(stk, glob, lo.Uses[i])
Class(stk, lo) == IF IsSourceFunc(stk) THEN {} ELSE {lo.UseClf} \ {None}

Event(type, stk, lo, source) ==
    [type |-> type, fn |-> Last(stk).FuncDef, line |-> lo.LineNo,
     callee |-> lo.Callee, def |-> lo.Def, uses |-> lo.Uses, source |-> source, at |-> clock']
Entry(stk, fn) ==
    [type |-> "FENTRY", fn |-> fn, line |-> 0, callee |-> fn, def |-> None,
     uses |-> <<>>, source |-> FALSE, at |-> clock']
-----------------------------------------------------------------------------
(* Sending.  The event of a call of foreign code is held back in CacheMsg   *)
(* and goes out before whatever the trace function does next.               *)
Held == IF CacheMsg = None THEN <<>> ELSE <<CacheMsg>>
\* Mutant: what is held back goes out after the events of the next line.
Send_HeldLast(events, held) ==
    /\ trace' = trace \o events \o Held
    /\ CacheMsg' = held

Send(events, held) ==
    /\ trace' = trace \o Held \o events
    /\ CacheMsg' = held
-----------------------------------------------------------------------------
(* The running program.                                                     *)
Frame(f, dirty) ==
    [fn |-> f, pc |-> 1, stage |-> "line", bound |-> Range(Params[f]),
     dirty |-> dirty, got |-> FALSE, begun |-> FALSE]
Running(t) == frames[t] # <<>>
Fr(t) == Last(frames[t])
Stmt(fr) == Body[fr.fn][fr.pc]
AtStage(t, stage) == Running(t) /\ Fr(t).stage = stage
WithTop(t, fr) == [frames EXCEPT ![t] = Append(Front(@), fr)]

Known(st) == st.callee \in Defs
Must(st) == Known(st) /\ st.callee \in st.runs
Reads(fr, s) == s \in fr.dirty \cup gdirty
\* The arguments of a call as the callee gets them.
Passed(st) == (IF st.via = "object" THEN <<st.recv>> ELSE <<>>) \o st.use
ReadsDirty(fr, st) == \E i \in DOMAIN Passed(st) : Reads(fr, Passed(st)[i])

\* What the statement does that the inspector does not see or misreads.
Mishaps(fr, st) ==
    {m \in {"many uses", "targets", "object", "shifted", "unmarked", "hidden", "bare", "namesake",
            "threads"} :
        CASE m = "many uses" -> Len(Actuals(st) \o st.use) > MaxUses
          [] m = "targets" -> Len(st.def) > 1
          [] m = "object" -> \/ \E i \in DOMAIN st.def : RealDef(fr, st.def[i]) # st.def[i]
                             \/ st.via = "object" /\ Reads(fr, st.recv)
          [] m = "shifted" -> Known(st) /\ (st.via = "module" \/ None \in Range(st.use))
          [] m = "unmarked" -> /\ Known(st) /\ SrcArgs[st.callee] # None
                               /\ \E i \in DOMAIN Passed(st) :
                                    Reads(fr, Passed(st)[i]) /\ ~SrcArgs[st.callee][i]
          [] m = "hidden" -> \/ /\ ~fr.begun /\ fr.fn \in Hidden
                                /\ \/ st.callee # None \/ st.op = "return" \/ fr.fn \in Methods
                                   \/ st.def = <<>> /\ Uses(st) = <<>>
                             \/ Known(st) /\ st.callee \in Hidden /\ st.callee = fr.fn
          [] m = "bare" -> Known(st) /\ st.def = <<>> /\ Uses(st) = <<>>
          [] m = "namesake" -> Known(st) /\ ~Must(st)
          [] m = "threads" -> st.spawns # None}

\* What a line event does to the program's side; fr is the frame.
OnLine(t, fr) ==
    /\ clock' = clock + 1
    /\ mishap' = mishap \cup Mishaps(fr, Stmt(fr))
    /\ due' = IF ReadsDirty(fr, Stmt(fr)) /\ ~Must(Stmt(fr)) THEN due \cup {<<fr.fn, fr.pc>>}
              ELSE due
    /\ frames' = WithTop(t, [fr EXCEPT !.stage = "run", !.begun = TRUE])
    /\ UNCHANGED <<gdirty, status>>

IsLiveObjValid(lo) == lo.Def # None \/ lo.Uses # <<>>

\* IsLiveObjValid fails: the trace function only sends what it holds.
LineIgnored(lo) ==
    /\ ~IsLiveObjValid(lo)
    /\ Send(<<>>, None)
    /\ UNCHANGED <<CtxStack, CallCtx, GlobalTaintSymbs>>

\* SetCallCtx: a function with a definition is about to be called.
LineKnownCall(lo) ==
    /\ IsLiveObjValid(lo) /\ lo.Callee \in Defs
    /\ CallCtx' = Context(lo.Callee, lo.Def)
    /\ CtxStack' = [CtxStack EXCEPT ![Len(CtxStack)].CalleeLo = lo]
    /\ Send(<<>>, None)
    /\ UNCHANGED GlobalTaintSymbs

\* A call of anything else: its definition is tainted by a source or a tainted
\* argument, and its event is held back.
LineForeignCall(lo) ==
    LET crn == lo.Callee \in Criteria
        stk == IF crn THEN Local(CtxStack, {lo.Def}) ELSE CtxStack
        glob == IF crn THEN Global(GlobalTaintSymbs, {lo.Def}) ELSE GlobalTaintSymbs
        hit == Touched(stk, glob, lo)
    IN  /\ IsLiveObjValid(lo) /\ lo.Callee \notin Defs \cup {None}
        /\ CallCtx' = None
        /\ CtxStack' = IF hit THEN Local(stk, {lo.Def}) ELSE stk
        /\ GlobalTaintSymbs' = IF hit THEN Global(glob, {lo.Def}) \cup Class(stk, lo) ELSE glob
        /\ Send(<<>>, IF crn \/ hit THEN Event("CALL", stk, lo, crn \/ IsSourceFunc(stk)) ELSE None)

\* return with a variable: RetTaint says whether it is tainted.
LineReturn(lo) ==
    LET hit == IsInTainted(CtxStack, GlobalTaintSymbs, lo.Uses[1])
    IN  /\ IsLiveObjValid(lo) /\ lo.Callee = None /\ lo.Ret
        /\ CtxStack' = [CtxStack EXCEPT ![Len(CtxStack)].RetTaint = hit]
        /\ Send(IF hit THEN <<Event("RET", CtxStack, lo, FALSE)>> ELSE <<>>, None)
        /\ UNCHANGED <<CallCtx, GlobalTaintSymbs>>

\* Any other line.  When it is the first one seen of the function just called, its
\* context is pushed here ("implicit call").
Implicit(fr) ==
    /\ CallCtx # None /\ CurCtx.CalleeLo # None
    /\ fr.fn = CurCtx.CalleeLo.Callee /\ fr.fn # CurCtx.Func /\ fr.fn \notin Methods
LineOther(fr, lo) ==
    LET stk == IF Implicit(fr) THEN PushCtx(CtxStack, GlobalTaintSymbs, CallCtx, fr.fn)
               ELSE CtxStack
        hit == Touched(stk, GlobalTaintSymbs, lo)
        type == IF lo.Br THEN "BR" ELSE "NR"
    IN  /\ IsLiveObjValid(lo) /\ lo.Callee = None /\ ~lo.Ret
        /\ CallCtx' = IF Implicit(fr) THEN None ELSE CallCtx
        /\ CtxStack' = IF hit THEN Local(stk, {lo.Def}) ELSE stk
        /\ GlobalTaintSymbs' =
             IF hit THEN Global(GlobalTaintSymbs, {lo.Def}) \cup Class(stk, lo)
             ELSE GlobalTaintSymbs
        /\ Send((IF Implicit(fr) THEN <<Entry(stk, fr.fn)>> ELSE <<>>)
                  \o (IF hit \/ Implicit(fr) THEN <<Event(type, stk, lo, IsSourceFunc(stk))>>
                      ELSE <<>>), None)

LineEvent(t) ==
    /\ status # "raised"
    /\ AtStage(t, "line")
    /\ LET fr == Fr(t)
           lo == LineObject(fr, Stmt(fr))
       IN  /\ OnLine(t, fr)
           /\ \/ LineIgnored(lo) \/ LineKnownCall(lo) \/ LineForeignCall(lo)
              \/ LineReturn(lo) \/ LineOther(fr, lo)
-----------------------------------------------------------------------------
(* A call event: the program enters f, called by the current statement or   *)
(* from inside it.                                                          *)
Args(t, f) ==
    LET st == Stmt(Fr(t))
    IN  {Params[f][i] : i \in {j \in DOMAIN Params[f] :
           /\ st.callee = f /\ j \in DOMAIN Passed(st)
           /\ Reads(Fr(t), Passed(st)[j]) \/ (SrcArgs[f] # None /\ SrcArgs[f][j])}}

Enter(t, f) ==
    /\ status # "raised"
    /\ AtStage(t, "run")
    /\ Len(frames[t]) < MaxDepth
    /\ f \in Stmt(Fr(t)).runs
    /\ Must(Stmt(Fr(t))) => f = Stmt(Fr(t)).callee
    /\ frames' = [frames EXCEPT ![t] =
                    Append(Append(Front(@), [Last(@) EXCEPT !.stage = "done"]), Frame(f, Args(t, f)))]
    /\ mishap' = IF Stmt(Fr(t)).callee = f /\ f \in Defs \ Unnamed THEN mishap ELSE mishap \cup {"implicit"}
    /\ UNCHANGED <<gdirty, due, clock>>

\* What the trace function does on the call event of f.
Called(f) ==
    IF f \in Hidden THEN
        /\ Send(<<>>, None)
        /\ UNCHANGED <<CtxStack, CallCtx, GlobalTaintSymbs, status>>
    ELSE IF f \in Unnamed THEN
        /\ Send(IF IsSourceFunc(CtxStack)
                THEN <<[Entry(CtxStack, CurCtx.FuncDef) EXCEPT
                              !.type = "NR", !.callee = None, !.source = TRUE]>>
                ELSE <<>>, None)
        /\ UNCHANGED <<CtxStack, CallCtx, GlobalTaintSymbs, status>>
    ELSE IF CurCtx.CalleeLo # None THEN
        LET push == Pushes(CtxStack, CallCtx, f)
            stk == IF push THEN PushCtx(CtxStack, GlobalTaintSymbs, CallCtx, f) ELSE CtxStack
        IN  /\ CtxStack' = stk
            /\ CallCtx' = IF push THEN None ELSE CallCtx
            /\ Send(IF push /\ CallCtx # None
                    THEN <<[Entry(stk, f) EXCEPT !.fn = Last(stk).FuncDef]>> ELSE <<>>, None)
            /\ UNCHANGED <<GlobalTaintSymbs, status>>
    ELSE IF f \in Defs THEN
        LET stk == [CtxStack EXCEPT ![Len(CtxStack)].FuncDef = f]
            lo == ParamObject(f)
            hit == Touched(stk, GlobalTaintSymbs, lo)
        IN  /\ CtxStack' = stk
            /\ GlobalTaintSymbs' =
                 IF hit THEN GlobalTaintSymbs \cup Class(stk, lo) ELSE GlobalTaintSymbs
            /\ Send(<<Entry(stk, f)>>
                      \o (IF hit THEN <<Event("NR", stk, lo, IsSourceFunc(stk))>> ELSE <<>>), None)
            /\ UNCHANGED <<CallCtx, status>>
    ELSE \* GetFuncDef gives None and FuncDef.Id raises inside the trace function
        /\ status' = "raised"
        /\ Send(<<>>, None)
        /\ UNCHANGED <<CtxStack, CallCtx, GlobalTaintSymbs>>

CallEvent(t) == \E f \in Func : Enter(t, f) /\ Called(f)

\* The call event of the function a new thread begins with.
StartEvent(t) ==
    /\ status # "raised"
    /\ AtStage(t, "enter")
    /\ frames' = WithTop(t, [Fr(t) EXCEPT !.stage = "line"])
    /\ UNCHANGED <<gdirty, mishap, due, clock>>
    /\ Called(Fr(t).fn)
-----------------------------------------------------------------------------
(* A return event, after a return, the last statement or an exception.      *)
(* PopCtx sends the event of the call-site with the taint the caller has    *)
(* then; RetTaint carries over to what the call defines.                    *)
RetSymb == IF CurCtx.RetTaint THEN {CurCtx.Ret} ELSE {}

PoppedTo(stk) ==
    LET lo == Last(stk).CalleeLo
    IN  IF lo # None /\ lo.Callee \in Criteria THEN Local(stk, {lo.Def}) ELSE stk
PoppedGlob(stk) ==
    LET lo == Last(stk).CalleeLo
    IN  IF lo # None /\ lo.Callee \in Criteria THEN Global(GlobalTaintSymbs, {lo.Def})
        ELSE GlobalTaintSymbs

CallSite(stk) ==
    LET lo == Last(stk).CalleeLo
        formals == Actual2Formal(lo, stk, GlobalTaintSymbs)
        source == lo.Callee \in Criteria \/ SrcArgs[lo.Callee] # None
    IN  IF lo = None THEN <<>>
        ELSE <<[Event("CALL", stk, lo, source) EXCEPT
                  !.uses = IF formals = {} THEN <<>> ELSE lo.Uses]>>

Returned ==
    LET stk == Front(CtxStack)
    IN  IF CurCtx.Func = "main" THEN
            /\ Send(<<>>, None)
            /\ UNCHANGED <<CtxStack, GlobalTaintSymbs>>
        ELSE IF Len(CtxStack) <= 1 THEN
            /\ CtxStack' = Local(CtxStack, RetSymb)
            /\ GlobalTaintSymbs' = Global(GlobalTaintSymbs, RetSymb)
            /\ Send(<<>>, None)
        ELSE
            /\ CtxStack' = Local(PoppedTo(stk), RetSymb)
            /\ GlobalTaintSymbs' = Global(PoppedGlob(stk), RetSymb)
            /\ Send(CallSite(stk), None)

\* The frame ends and its caller goes on: with the value, or with the exception.
Leave(t, stage, got) ==
    frames' = [frames EXCEPT ![t] =
                 IF Len(@) = 1 THEN <<>>
                 ELSE Append(Front(Front(@)), [Front(@)[Len(@) - 1] EXCEPT !.stage = stage, !.got = got])]

ReturnEvent(t) ==
    /\ status # "raised"
    /\ AtStage(t, "leave")
    /\ UNCHANGED <<gdirty, due, clock, CallCtx, status>>
    /\ Leave(t, "done", Fr(t).got)
    /\ Returned
    /\ mishap' = IF CurCtx.Func = "main" THEN mishap \cup {"main"} ELSE mishap

\* An exception leaves the frame; the caller catches it or lets it pass.
RaiseEvent(t) ==
    /\ status # "raised"
    /\ Running(t) /\ Fr(t).stage \in {"run", "failed"} /\ Len(frames[t]) > 1
    /\ Fr(t).stage = "run" => Stmt(Fr(t)).callee # None /\ ~Must(Stmt(Fr(t)))
    /\ UNCHANGED <<gdirty, due, clock, CallCtx, status>>
    /\ Leave(t, "failed", FALSE)
    /\ Returned
    /\ mishap' = IF CurCtx.Func = "main" THEN mishap \cup {"main"} ELSE mishap
-----------------------------------------------------------------------------
(* Steps of the program the trace function is not called for.               *)

Result(fr, st) ==
    IF Must(st) THEN fr.got \/ st.callee \in Criteria
    ELSE st.callee \in Criteria \/ ReadsDirty(fr, st)
Effect(fr, st) ==
    LET defs == Range(st.def)
    IN  [fr EXCEPT !.bound = @ \cup (defs \ Dotted), !.got = FALSE,
           !.dirty = IF Result(fr, st) THEN @ \cup (defs \ Dotted) ELSE @ \ defs]
Goto(fr, pc) == IF pc \in DOMAIN Body[fr.fn] THEN [fr EXCEPT !.pc = pc, !.stage = "line"]
                ELSE [fr EXCEPT !.stage = "leave"]

\* The statement takes effect and the frame goes on; a return keeps its value.
Complete(t) ==
    /\ status # "raised"
    /\ Running(t)
    /\ \/ Fr(t).stage = "done"
       \/ Fr(t).stage = "run" /\ ~Must(Stmt(Fr(t)))
    /\ LET fr == Fr(t)
           st == Stmt(fr)
           after == Effect(fr, st)
           defs == Range(st.def) \cap Dotted
           nexts == IF st.op = "return"
                    THEN {[after EXCEPT !.stage = "leave", !.got = ReadsDirty(fr, st)]}
                    ELSE {Goto(after, pc) : pc \in {fr.pc + 1} \cup (IF st.op = "if" THEN {st.to} ELSE {})}
       IN  /\ gdirty' = IF Result(fr, st) THEN gdirty \cup defs ELSE gdirty \ defs
           /\ \E next \in nexts :
                IF st.spawns = None THEN frames' = WithTop(t, next)
                ELSE \E u \in Thread \ {t} :
                       /\ frames[u] = <<>>
                       /\ frames' = [WithTop(t, next) EXCEPT ![u] = <<[Frame(st.spawns, {}) EXCEPT !.stage = "enter"]>>]
    /\ UNCHANGED <<mishap, due, clock, inspector>>

\* The frame catches the exception and goes on behind the statement.
Catch(t) ==
    /\ status # "raised"
    /\ AtStage(t, "failed")
    /\ frames' = WithTop(t, Goto(Fr(t), Fr(t).pc + 1))
    /\ UNCHANGED <<gdirty, mishap, due, clock, inspector>>

\* Instrumented C code, called by the statement, sends an event.
CTraces(t) ==
    /\ status # "raised"
    /\ AtStage(t, "run")
    /\ Stmt(Fr(t)).c /\ ~Must(Stmt(Fr(t)))
    /\ frames' = WithTop(t, [Fr(t) EXCEPT !.stage = "done"])
    /\ trace' = Append(trace, [type |-> "C", fn |-> Stmt(Fr(t)).callee, line |-> 0,
                               callee |-> None, def |-> None, uses |-> <<>>,
                               source |-> FALSE, at |-> clock])
    /\ UNCHANGED <<gdirty, mishap, due, clock, CtxStack, CallCtx, GlobalTaintSymbs, CacheMsg, status>>

\* __exit__: the first thread is done; what is held back goes out.
Exit ==
    /\ status = "running"
    /\ frames[Main] = <<>>
    /\ status' = "exited"
    /\ Send(<<>>, None)
    /\ UNCHANGED <<program, CtxStack, CallCtx, GlobalTaintSymbs>>

\* __init__ and __enter__.
Init ==
    /\ frames = [t \in Thread |-> IF t = Main THEN <<Frame(Top, {})>> ELSE <<>>]
    /\ gdirty = {} /\ mishap = {} /\ due = {} /\ clock = 0
    /\ CtxStack = <<Context(Top, None)>>
    /\ CallCtx = None /\ GlobalTaintSymbs = {} /\ CacheMsg = None
    /\ trace = <<[type |-> "FENTRY", fn |-> Top, line |-> 0, callee |-> Top, def |-> None,
                  uses |-> <<>>, source |-> FALSE, at |-> 0]>>
    /\ status = "running"

Tracing(t) == LineEvent(t) \/ CallEvent(t) \/ StartEvent(t) \/ ReturnEvent(t) \/ RaiseEvent(t)
Next ==
    \/ \E t \in Thread : Tracing(t) \/ Complete(t) \/ Catch(t) \/ CTraces(t)
    \/ Exit
Spec == Init /\ [][Next]_vars
-----------------------------------------------------------------------------
\* A frame of the program, at a statement of its function.
FrameRecord ==
    [fn : Func, pc : Nat, stage : {"enter", "line", "run", "done", "failed", "leave"},
     bound : SUBSET DOMAIN ClassOf, dirty : SUBSET DOMAIN ClassOf, got : BOOLEAN, begun : BOOLEAN]

\* Types; the stack of contexts is never empty, contexts are of functions that have a
\* definition, and nothing but the event of a call is ever held back.
TypeOK ==
    /\ frames \in [Thread -> Seq(FrameRecord)]
    /\ \A t \in Thread : \A i \in DOMAIN frames[t] : frames[t][i].pc \in DOMAIN Body[frames[t][i].fn]
    /\ gdirty \subseteq Dotted
    /\ clock \in Nat
    /\ CtxStack \in Seq(ContextRecord) /\ CtxStack # <<>>
    /\ CallCtx \in ContextRecord \cup {None}
    /\ GlobalTaintSymbs \subseteq Symbols
    /\ trace \in Seq(EventRecord)
    /\ CacheMsg = None \/ (CacheMsg \in EventRecord /\ CacheMsg.type = "CALL")
    /\ status \in {"running", "exited", "raised"}

\* The frames that have a context: all but that of a decorated function before its
\* first line.
Contexts ==
    LET fs == frames[Main]
    IN  IF fs # <<>> /\ Last(fs).fn \in Hidden /\ ~Last(fs).begun THEN Front(fs) ELSE fs

\* As long as every function is entered from a call statement that names it, and
\* nothing else the inspector does not provide for happens, the stack of contexts
\* follows the stack of frames (PushCtx and PopCtx, through recursion, implicit
\* pushes and exceptions), and whatever holds data of a source is held tainted in the
\* context of its frame.
Sound ==
    mishap = {} /\ frames[Main] # <<>> =>
        /\ Len(CtxStack) = Len(Contexts)
        /\ \A i \in DOMAIN Contexts :
             /\ CtxStack[i].Func = Contexts[i].fn /\ CtxStack[i].FuncDef = Contexts[i].fn
             /\ Contexts[i].dirty \subseteq CtxStack[i].TaintSymbs \cup GlobalTaintSymbs
        /\ gdirty \subseteq GlobalTaintSymbs

\* Under the same condition the engine gets an event for every line that read data of
\* a source, with the function and the line it ran in; calls of known functions are
\* reported when they return (SdaAnalysis, Tracing).
Sent == {<<e.fn, e.line>> : e \in Range(trace) \cup (IF CacheMsg = None THEN {} ELSE {CacheMsg})}
Traced == mishap = {} => due \subseteq Sent

\* Events go out in the order of what they report, whatever happens, although those
\* of foreign calls are held back (CacheMsg). As long as there is one thread, those of
\* the C code a call runs go before it, not only those of later lines behind it:
\* DifGraph counts on a call's event behind its callee's.
Ordered ==
    LET all == trace \o Held
    IN  \A i \in 1 .. Len(all) - 1 :
          /\ all[i].at <= all[i + 1].at
          /\ "threads" \notin mishap /\ all[i].type = "CALL" /\ all[i + 1].type = "C"
                => all[i].at < all[i + 1].at
=============================================================================
