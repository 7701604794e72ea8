# PolyCruise: specifications, model checking and proofs

PolyCruise follows data from *sources* to *sinks* through programs written in
Python and C. Before the program runs, a static analysis selects the
instructions of its C part that such data can reach, and a compiler pass inserts
tracing calls behind them; when it runs, a trace function does the same for the
Python part. The traced program sends events through a queue in shared memory to
an *engine*, another process, which builds a graph of the information flow event
by event and, after each event, follows what is tainted and asks plugins whether
a sink has been reached.

This directory holds TLA+ modules for that pipeline, the configurations that
check them with TLC, and theorems checked with TLAPS. `PROJECT.json` lists
components, runs, mutants, theorems, hazards, and for each definition the lines
of code it models.

    tlc -config EventQueue_two.cfg MCEventQueue.tla     # check a run
    tlapm EventQueueProofs.tla                          # check proofs

## 1. Inventory

### The system's parts

    C sources -- clang --> bitcode --> ModuleSet --> SDA --> LdaBin.bin
                              |                                  |
                              +------> instrumentation pass <----+
                                                |
    Python program --- PyInspect --+            v                shared memory
                                   +-> PyTrace --> TRC_* --> [ event queue ] --> EventProcess
    C library with tracing calls --+                                                |
                                                                                DifEngine
                                                                                    |
                         memory database  <---- tables of nodes, edges, ... ---- graph
                                                                                    |
                                                            detectors <-- VisitDifg (plugins)
                                                                                    |
                                                                        reports at exit

| Part | Code | State | Operations | Model |
|---|---|---|---|---|
| Module set | `SDA/lib/ModuleSet.cpp` | loaded modules, the file `FUNC_MODULE`, maps between declarations and definitions | `PreProcess`, `loadModules`, `InitModuleSet`, `LoadModuleOnDemand`, `BuildFuncMap` | `ModuleSet` |
| Static analysis (SDA) | `SDA/include/Sda.h` | queue of entries, tainted values, globals, summaries, selected instructions, `LdaBin.bin` | `Compute`, `ComputeFlda`, `ForwardDeduce`, `BackwardDeduce`, `ProcessCall`, `Dump` | `LLVMInst`, `Sda` |
| Instrumentation | `SDIpass/Instrumenter.h` | records read from `LdaBin.bin`, the rewritten code | `LoadLdaBin`, `VisitInst`, `AddTrack`, `InstrmCallTrace` | `Instrumenter` |
| Event ids, messages | `Event.h`, `EventMsg.c` | none | writing and decoding of messages | `EventMsg` |
| Python inspector | `PyInspect/Inspector.py`, `HandleEvent.py`, `PyEvent.py` | stack of contexts, tainted symbols, `CallCtx`, `CacheMsg` | the trace function on call, line, return and exception | `Inspector` |
| Python bridge | `PyTrace/PyTrace.c` | none of its own | starts the trace, forwards an event | steps of `EventQueue`'s producers |
| Event queue | `Queue.c`, `DynTrace.c`, `DynInit.c`, `Main.c` | list of slots, `Hindex`, `Tindex`, `Exit`, a flag per slot; `g_TraceSt` per process; `CrossFlag` | `TRC_trace*`, `TRC_Start/Stop/exit`, `EventProcess`, signal handler | `EventQueue` |
| Queue segment | `Queue.c:19-113, 238-263`, `DynInit.c` | the shared segment, what is attached to it | `InitQueue`, `DelQueue`, start of the engine | planned |
| Information-flow graph | `DifEngine.c`, `Graph.c` | a graph per thread, tables of functions, globals, shared variables, thread creations, sources | `DifEngine`, `InsertNode2Graph` and its edge rules | `DifGraph` |
| Plugin visit | `Plugins.c` | `VisitCache`, a visit bit per node, `DetSinks` | `VisitDifg`, `ProcSource`, `InvokePlugins`, `GetFuncName` | `VisitDifg`, `DifGraph` |
| Memory database | `DbCore.c` | per table: units of rows, idle and busy lists, hash pails | `CreateDataByKey`, `QueryDataByKey`, `QueryDataByID`, `QueryDataNum` | `MemDb` |
| Exit reports | `Plugins.c:474-729`, `List.c` | a second visit bit | `CheckCases`, `GenSsPath` | planned |
| Detectors | `vPlugins/*/source` | none | predicates over two nodes | constant `Sinks` |
| Graph output | `GraphViz.c` | none | writes the graph | no: output only |
| Python rewriting | `PyInspect/AstRewriter.py` ... | none | source to source | no: pure |
| Task pool | `MultiTask.*` | a queue and a status per worker | `Run`, `Wait` | no: nothing creates one |

### How they interact, and what is hard

* **Module set and SDA.** A run with `-pre` writes which file defines which
  function; a later run reads that, and files may have been compiled anew in
  between. Functions are gone through while the list of modules they are in
  grows at its end.
* **SDA** alternates between a forward and a backward walk of a function until
  neither selects anything more. Calls start walks of the callee or are answered
  by summaries made before; functions may be recursive; entries that use a
  global another entry taints are put back into the queue that is being
  emptied. All of that has to end, and has to have followed the data when it does.
* **SDA and pass** agree on instructions by number only: the position of the
  instruction in its function, counted by each for itself, up in one walk and
  down in the other, over skipped instructions too. `LdaBin.bin` carries the
  numbers from one program to the other and collects several analyses.
* **Pass and engine** agree on messages: sequences without length or tags, in
  which the place of `=` decides what a definition is. And the pass inserts code
  between instructions that may not be torn apart (PHIs, landing pads,
  branches), in functions that may end anywhere.
* **Inspector and interpreter.** The interpreter tells of calls, lines and
  returns; the inspector guesses from names which call a frame belongs to, and
  keeps contexts beside the frames. The message of a call of foreign code is held
  back until the next event, so that the events of that C code go before it:
  `DifGraph` hangs a call on what its callee has returned.
* **Traced threads and engine** share the queue and nothing else. Every
  operation of `Queue.c` takes `process_lock`, but `MacroDef.h` defines that as
  a *read* lock and nobody takes it for writing: it excludes no one. So each
  memory access of a producer may meet any access of another producer or of the
  engine. Processes end without warning (`exit (0)` on a full queue, crashes),
  and the engine must still not take half-written events and must stop.
* **The engine** is one thread. `DifEngine` and the visit after it never
  interleave with each other, but the *order* in which events of different
  threads arrive is free: a thread's first event can arrive before that of its
  creation, and reading may be traced before writing, because an instruction and
  its tracing call are not one step.
* **`DifEngine`** drops an event it has seen before in the thread. Loops and
  second calls therefore add nothing, and what the first pass found must do.
* **The visit** is incremental. `VisitCache` and visit bits survive from event
  to event; a pass is bounded by the length the list had at its start while the
  pass extends it; whether to go round again depends on the kind of edge.
* **Tables** grow while addresses of their rows are held all over the engine;
  ids are handed out by one rule and resolved by another.

### What makes each part correct

* Modules: whatever a loaded module declares and the file knows is loaded, none
  twice; declarations and definitions find each other by name; loading ends.
* SDA: it ends; it never re-enters a function it is in; it follows data inside
  functions, through calls and between entries; it selects nothing unconnected
  to a source; it records what it selects under the numbers the pass uses.
* Pass: it only adds; a message decodes to what the instruction defines and
  uses; a run traces what it executed, in order, between a reported begin and end.
* Inspector: contexts follow the frames; what holds data of a source is held
  tainted; every line that reads it is reported, and in order.
* Queue: events leave in the order their slots were reserved, once each, and
  complete; a slot has one writer; every completed event is analysed in the
  end, and the engine stops after an exit, not before the queue is drained.
* Graph: local data comes from the latest definition; calls hang on the returns
  of their callees, threads on their creation; nothing but creation and memory
  joins threads; an instruction that read tainted data is found.
* Visit: marks nothing that is not tainted, shows a node to the plugins once,
  leaves nothing behind but what is known to lag, and ends.
* Database: a table is a map from keys to the last row created for each, and
  enumerates its rows.

`PROJECT.json` lists under "hazards" the places where these can go wrong, with
the properties that watch them; where none does, the note says why.

## 2. Plan

Done, in this order:

1. `EventFifo`, `EventQueue`, `EventQueueProofs`: the concurrent core.
2. `TaintSpread`, `VisitDifg`, `VisitDifgProofs`: following taint over any graph.
3. `DifGraph`, `DifGraphProofs`, which compose `VisitDifg`: where edges come from.
4. `KeyTable`, `MemDb`, `MemDbProofs`: the tables under all of it.
5. `ModuleSet`, `ModuleSetProofs`: what is analysed.
6. `LLVMInst`, `Sda`, `SdaProofs`: the static analysis.
7. `EventMsg`, `Instrumenter`, `InstrumenterProofs`: what the traced program sends.
8. `Inspector`, `InspectorProofs`: the Python side.

Left, the most important first:

9. *More of DifGraph proved*: `TaintFound` on top of `LocalFlow`, with an invariant
   that ties the list of a thread's nodes to what the program last assigned.
   Programs with two sources in two threads and with recursion.
10. `SsPath`: `CheckCases` and `GenSsPath` over any graph and list of sinks. The
    path of a sink should not depend on the sinks before it; the bit in
    `VisitBits` that is never reset says that it does.
11. `QueueSegment`: `GetQueueMemory`, `InitQueue`, `DelQueue` and the engine's
    start by several processes, with crashes and the next session; composed with
    `EventQueue`'s `Init` as the state it must reach.

## 3. Modules

### ModuleSet

One action for each function that is gone through. `disk` holds the files, as
sequences of functions defined or declared; `FUNC_MODULE` is the file of the last
`-pre` run. `Recompile` changes a file while no analysis runs.

| Code | Model |
|---|---|
| `-pre`: `PreProcess` | `PreProcess` |
| `ModuleManage`, `loadModules`, reading `FUNC_MODULE` | `loadModules` |
| `InitModuleSet`: a function that needs nothing; one whose module is loaded; that write behind the array | `InitKnown`, `LoadModuleOnDemand`, `LoadBehindArray` |
| `loadOneModule`: a file that is gone or no bitcode, `exit (0)` | `LoadGivenFails`, `LoadOnDemandFails` (at any load) |
| the loop over modules, whose bound the body moves | `NextModule` |
| `BuildFuncMap` and its two parts | `BuildFuncMap`, `BuildFuncDeclToDefMap`, `BuildFuncDefToDeclMap` |
| `GetDefinition`, `GetDeclaration`, `GetFunction` | operators of these names |
| a second `main`: `assert`; end of the array; a file that does not load | phases "abort", "overflow", "exit" |

### LLVMInst and Sda

`LLVMInst` gives an instruction to both sides of `LdaBin.bin`: what it defines and
uses, which instructions are passed over, what the base of an address is. A
program is a record: functions with bodies, globals, pointers, constants.

`Sda` goes through functions an instruction per action. `stack` holds the calls
of `ComputeFlda` that have not returned, with position (`pc`), direction
(`back`), tainted values (`lex`) and the taint of the arguments on the way in and
out. A set of taint bits is the set of their numbers.

| Code | Model |
|---|---|
| `Compute`: the loop over `m_EntryFQ` | `RunEntry`, `RunEntryCached`, `DropEntry`, `EndEntry` |
| `AddGlvUseEntry`, `InQueue`, `DeQueue` | operators of these names, `Dequeue` |
| `ForwardDeduce`: skipped, source, untainted, return, other instruction | `SkipInst`, `SourceInst`, `PassInst`, `TaintRet`, `TaintInst` |
| `ProcessCall`, `ExeFunction`: answered at once, or gone into | `CallKnown`, `CallEnter`; `FinishCall` is what follows |
| thread creation: the entry is queued | `CreateThread` |
| end of a walk, `BackwardDeduce`, once more, return | `EndForward`, `BackInst`, `EndBackward`, `Again`, `Return` |
| `m_RunStack` | `IsInStack` over `stack` |
| summaries of functions | field `cache` of `m_Func2Fsda`; `lib` for those of libraries |
| `Dump`, which appends to `LdaBin.bin` | `Dump`, `bin` |

The options `disGlobal` and `guardAll` and the list of sources are fields of the
program. `Session` is a sequence of programs, for `LdaBin.bin` outlives each.

`OnlyConnected` bounds what is selected by a set of values, `Reach`, that holds the
results of sources and the arguments of entries and is closed under `Links`: values
of one instruction, arguments and results of a call, what a thread is given, globals
and the pointers that stand for them, what `EqualProcess` makes equal. `Reach` is any such set; `MCReach`
computes the least one, which says the most. A value is a node of the
program (`Node`), but a constant is one of each function: `BackwardDeduce` taints
all operands of what it selects, so that after a `store` of 0 into a tainted slot 0 itself
is tainted, and so is whatever else of this function uses 0. The
program `Zeros` of `MCSda` shows it: `Reach` without constants is too small for it.

### EventMsg and Instrumenter

`EventMsg` holds both ends of a message, `AppendFormat` and `AddVarFormat` of the pass
(`Write` is what stands in the buffer when marks and variables are appended to it) and
the decoders of the engine. A message is a sequence of marks and variables;
what the engine's parser does to text that has marks in unexpected places (a name
cut off, a `=` glued to one) is done to the sequence. `IsNameExist` looks for a name as
text; in the model no name is the end of another.

`Instrumenter` visits functions an instruction at a time and then *runs* one of
the rewritten functions, so that properties can speak of what a run traces. The code
of a function is its body as it was, and `code`: for every instruction the hooks that
stand in front of it. What the pass depends on of the IR is `ValidModule`, rules of
LLVM's verifier: blocks are contiguous and end with the one instruction that leaves
them, PHIs come first in a block and never in the entry, and branches stay in their
function.

| Code | Model |
|---|---|
| `LoadLdaBin`; records of the same name joined, an instruction with the id of the last | `LoadLdaBin`, `AddFlda`, `GetEventID` |
| `VisitFunction`: declared, no record, `ValidCheck` fails | `SkipFunction`, `IsVisited` |
| `VisitInst` | `VisitInst` |
| an instruction that is not selected; selected | `PassInst`; `AddTrack` |
| where its event goes (lines 1107 to 1122) | `InstrumentSite`, `Dropped` |
| `GetInstrPara` and the formats under it | `GetInstrPara`, `DefFormat`, `UseFormat`, `Outputs`, `Formals`, ... |
| hooks of a thread's creation, of a function's entry, of `main` and exits | `InstrumThrc`, `AddCallTrack`, `EndFunction`, `Ends`, `Hooked`, `InitInstrumenter` |
| `FULL_INSTRUMENTATION`: calls only | `InstrmCallTrace`, `TraceCalls` |
| a run of the code (outside the repository) | `RunHook`, `RunInst`, `RunBranch`, `RunEnd` |

`TraceWhole` leaves out what the pass does: the event of a branch or an invocation
stands in the block behind it, that of a PHI before a landing pad is dropped, an exit
is reported where it was found, and a `resume` that leaves `main` is no end.

### Inspector

A program is a set of functions with abstract statements: what is defined and
used, who is called and by what means, what is returned, where an `if` goes. One
call of the trace function is one step. Beside the inspector the model keeps
what is *really* tainted, per frame in `dirty` and for attributes in `gdirty`; the
lines that read it in `due`; and `clock`, the number of lines executed. No action
of the inspector reads them.

| Code | Model |
|---|---|
| `Tracing` on "line", by kind of statement; `SdaAnalysis` | `LineEvent`, made of `LineIgnored`, `LineKnownCall`, `LineForeignCall`, `LineReturn`, `LineOther` |
| on "call", where parameters are uses when no call was announced; a thread's first | `CallEvent`, `StartEvent`, `ParamObject` |
| on "return"; with an exception | `ReturnEvent`, `RaiseEvent` |
| `PushCtx`, `PopCtx`, `CallCtx`, `CtxStack`, `GlobalTaintSymbs` | operators and variables of these names (`PoppedTo`, `PoppedGlob`) |
| `CacheMsg` | `CacheMsg`; `Send` puts it before the events of the next step |
| `__enter__`, `__exit__` | `Init`, `Exit` |
| the statement itself, an exception caught, C code's own events (outside the repository) | `Complete`, `Catch`, `CTraces` |

What the inspector does not provide for is recorded in `mishap`: a statement with
more than three uses ("many uses") or several targets ("targets"), a tainted
object as receiver or an object as target ("object"), arguments that no longer
match their parameters ("shifted"), a tainted argument where the criteria list
others as sources ("unmarked"), a decorated function whose first line calls,
returns or handles no symbol, that is a method, found by a name other than its own
(`Methods`), or that calls itself ("hidden"), a call with neither arguments nor
target ("bare"), one of a name that has a definition but runs something else
("namesake"), a function that is entered though the statement does not name it
("implicit"), one called main that returns ("main"), a second thread ("threads"). `Sound` and `Traced` are stated for behaviours without;
`Ordered` and `TypeOK` for all.

### EventFifo and EventQueue

`EventFifo` states what `Queue.h` calls a "FIFO Queue" for entries that are
reserved first and completed later. It promises this while `intact` holds.

`EventQueue` has one action per memory access that another process can observe. One
is wider: `FillNode` writes the text, the thread id and the event id of a node
together, which nobody looks at before the flag unless a hazard (below) has struck.

| Code | Model |
|---|---|
| `Q->Hindex`, `Tindex`, `Exit`, `MaxNodeNum` | variables of the same names |
| `QNode.Flag`; message, thread and event id of a node | `Flag`; `QBuf`, an event `<<thread, call number>>` |
| `InQueue`: full test; `Tindex++` as a load and a store; `Flag = FALSE`; wrap test; wrap | `TRC_trace`, `LoadTindex`, `StoreTindex`, `ClearFlag`, `TestWrap`, `WrapTindex` |
| the rest of `TRC_trace`, `TRC_trace0`, `TRC_thread` | `FillNode`, `SetFlag` |
| `g_TraceSt` and its users | `TraceSt`, `Untraced`, `TRC_Start`, `TRC_Stop` |
| "Queue Full" and `exit (0)`; a process that dies | `ProcessEnds` |
| `EventProcess` | `QueueGetExit`, `QueueSize`, `FrontQueue`, `TestFlag`, `TestCross` (the test of `CrossFlag` and, while it is down, of the node's event id), `Analyse` (the node is read again for `DifEngine`), `OutQueue`, `OutWrap` |
| `TRC_exit`; the signal handler of `Main.c` | `TRC_exit`, `Signal` |

The queue does not always keep the promise. Four *hazards* break it, and the
history variable `hazard` records them as they strike: two threads inside
`InQueue` ("overlap"), the last free slot handed out ("overrun"), a slot
accepted by the flag of its previous event ("stale"), a process killed while it
owns a slot ("kill"). Properties say what holds until then, and which of them
survive which hazard; `queue_stale` shows that the code
reaches one of them. No action
reads a history variable.

`taken` is what `EventProcess` removed, as it found it when it first read the node's
id; `analysed` is what `DifEngine` was given. While `CrossFlag` is down the id is read
at `DynInit.c:32` and again at line 37, and after a hazard a producer may rewrite the
slot in between. So `AnalysedFromCrossing` says always *which* calls of `DifEngine`
there are, and only until a hazard that they are given the events found.

### TaintSpread and VisitDifg

`TaintSpread` is what may be reported: a node is reached over one edge of the
flow from a source or a node reached before, while the graph grows.

`VisitDifg` is `VisitDifg`, `ProcSource` and `GetLastVisit`, one edge per step.
`cache`, `visited`, `srcNum`, `left`, `pos`, `nxt`, `change` are `VisitCache`, the
visit bits, `SrcNum`, `NodeNum`, `Last`, `LE`, `ListChange`; `invoked` is the calls of
`InvokePlugins`. The graph grows by a node per event in any way `Grows` allows
(`Insert`, which has no bound); `DifEngine` is the same as a choice TLC can
enumerate, and the theorem `BoundedIsOpen` says so.

### DifGraph

`DifGraph` replaces the arbitrary growth by what `DifEngine` does. It runs small
programs: `Control` is their control flow over `Point`s (an instruction in a
calling context), `Args` the arguments passed at calls, `Info` the decoded message
of each event, `Addr` the address a name stands for. The program keeps its own
account of what is tainted (`dirty`, and `due`, the nodes that read it), to which the
engine has no access. A thread takes two steps for a point: the instruction
(`Execute`, or `Create`), which changes `dirty` and `due`, and the tracing call behind
it (`TRC_trace`, in `DifEngine` or `Repeat`); `todo` holds the point in between, and
other threads execute and trace there. The event of a call follows those of its
callee, as the instrumentation has it.

| Code | Model |
|---|---|
| `DifEngine`; an event met before | `DifEngine`; `Repeat` |
| `InsertNode2Graph` with `AddCallEdge`, `AddThreadEdge`, `IsNodeDD`, `AddInterCfEdge`, `AddRetEdge`, `AddGlvAccessEdge`, `AddSharePropagateEdge` | operators of these names or `Definers`, `FormalUser`, `LocalEdges`; `InEdges` and `OutEdges` put them together in the order of the code |
| tables of globals, shared variables, thread creations, functions, sources | `glv`, `share`, `thr` and `thrcNode`, `FDifG` and `order`, `sources` |
| `VisitDifg`, `InvokePlugins`, `GetFuncName` | instance `V` of module `VisitDifg`; `engine` becomes "aborted" at the assertion and "hung" in the endless loop |
| an instruction; `pthread_create`; end of a thread, id used again | `Execute`; `Create`; `ThreadEnds` (outside the repository) |
| the call of `TRC_trace` behind an instruction | `TRC_trace`, at the moment `InQueue` gives it its slot |

Tracing and the engine's treatment of the event are one step: the queue is first
in, first out and the engine sends nothing back. The instruction before it is not in
that step, so the events of two threads may come in another order than their accesses
to memory, and that of a new thread may overtake that of its creation. Where the code
traces ahead of the instruction (a line of Python, a return) the model traces
behind it; inside a thread this is the same, and in the programs given to TLC such
instructions touch what belongs to their thread only.

The engine does not provide for some things, and the history variable `mishap`
records them: an instruction "repeated", a creation "overtaken", a second one of
"sources", "id reused", memory "dirty when passed" to a thread, and "raced": an
instruction that writes what another thread's instruction, executed and not yet
traced, has touched, or touches what that has written. `TaintFound` is stated for
behaviours without mishap; the hazards name them all. Without "raced" it fails: a
thread stores data of a source, another loads it and is traced first, and the
edge between them is never made.

`MCDifGraph` has two programs in one run (`Both`): a Python function that calls C
two deep, and one that sets a global and calls C where a thread races its creator over
shared memory. `LocalFlow` joins what holds inside a thread, `ThreadFlow` what holds
between threads: an edge comes from a creation or from an address both events name,
and 0, which stands for no address (the global's name is read as 0), joins
nothing. Inside a thread data comes from the latest definition, and a call hangs on the return of its callee.
Both have the exceptions the code makes. `IsNodeDD` lets a node satisfy one use
only, so where a line defines two variables that a later one uses, an older
definition of the second is linked as well: `Reaches` asks that whatever defines the
variable in between is linked too, for another use. And `Returns` compares
functions, so a call of a function by itself has no edge from the return:
`AfterReturn` leaves it out.

### KeyTable and MemDb

`KeyTable` is a map from keys to rows. `MemDb` is one table: units and the order
in which `db_FormatDataNode` links their rows, `db_GetIdleNode`, the doubly linked
list of busy rows with the pointers `db_MoveNode2BusyEnd` mends, pails as sequences
(newest first), and ids with both of their rules. The engine's one thread is the
only user; it deletes no row (`DeleteDataByID` has no caller).

`QueryDataByID` has the outcomes of `db_ID2Node` apart: a row, `NoRow` for an id it
refuses, `Fault` where it dereferences the end of the list of units, `Stray` where
the address lies before a unit, `Abort` where its assertion fails. `IdsEnumerate` is
stated for a table of one unit, the full one included: each id but the last of the
unit leads to the row that was created with it, and the last, once there is such a
row, to a NULL dereference (`DbCore.c:170`). In a larger table ids lead to rows
of the wrong unit, and nothing is claimed.

## 4. Runs

| Run | Distinct states | What it shows |
|---|---|---|
| `modules_load` | 348 000 | Three files in any of four states, compiled anew between `-pre` and the analysis, one module beyond those given: loading ends (`Loads`), has then loaded what the file knows (`Closed`), nothing twice (`TypeOK`), and maps declarations to definitions of their name (`MapsAgree`). |
| `sda_programs` | 61 000 | 1806 sessions of small programs, alone or one after the other: the analysis ends (`Terminates`), enters no function it is in (`NoReentry`), records under the right numbers (`SelectedRecorded`), follows data (`DataFollowed`) and selects nothing unconnected (`OnlyConnected`). |
| `instrument` | 119 000 | Functions rewritten and run: functions are begun at their first instruction and runs stay in them (`TypeOK`), messages decode to what instructions define and use (`RoundTrip`), runs are traced whole and in order (`TraceWhole`), in both modes. |
| `inspector` | 77 000 | A Python program with a case for each rule, an exception at any foreign call and a second thread: contexts follow frames and taint is held (`Sound`), lines that read it are reported (`Traced`), in order (`Ordered`). |
| `queue_one` | 14 000 | One thread, three slots, seven calls, so the list is gone round twice, every second event of Python: events due before the exit are taken before the engine stops (`DueBeforeStop`), `DifEngine` gets exactly those from the first Python event on (`AnalysedFromCrossing`), every reserved event is taken (`ReservedIsTaken`) and an exit ends the engine (`ExitStopsEngine`). |
| `queue_two` | 271 000 | Two processes, a list that can fill, one that may be killed at any step, one that starts and stops tracing: implements `EventFifo` until a hazard strikes (`FifoUntilHazard`), one writer per slot (`OwnSlotUntilHazard`), and no slot outside the list, through overruns and stale flags (`SlotInList`). |
| `queue_stale` | | Finding: `Tindex` is advanced before the slot's old flag is cleared, so on the second lap an old event can be taken again in place of a new one (`ThreadOrder`). |
| `graph_programs` | 3 500 | The two programs described above: `TaintFound`, `LocalFlow`, `ThreadFlow`, and `DifEngine` implements the growth the visit's theorems assume (`Visited`). |
| `graph_sources` | | Finding: the data of a second source is not followed (`SourcesVisited`). |
| `graph_sink` | | Finding: a sink whose flow is completed by another thread fails the assertion in `GetFuncName` (`FuncFound`). |
| `visit_three` | 513 000 | All graphs of three nodes with up to two edges per event, in all orders of arrival: `SoundTaint`, `InvokedOnce`, `CoveredExpanded`, `OnlyReturnsLag`, `Settles`. |
| `memdb_grow` | 23 000 | Three keys, two in one pail, two units of three rows: `IsKeyTable`, `BusyIsList`, `IdsEnumerate`. |

`CHECK_DEADLOCK FALSE` is said throughout: programs and analyses end, the engine
stops, and the growth of tables and graphs is bounded by the constants.

### Bounds

* `modules_load`: three files are the least with a chain (one given, one loaded for
  it, one loaded for that); `MAX_MODULE_NUM = 1` puts the end of the array within
  reach of that chain. The four contents differ in what decides the code's
  branches: a `main`, a second `main`, a name declared in one and defined in another.
* `sda_programs`: every `main` of four instructions over one stack slot that calls
  once or twice, with two versions of a callee, one of them recursive; all pairs of
  entries that copy between their argument and two globals, with and without
  `disGlobal`; threads that get a slot tainted before, after or never, threads
  that create threads; fields, casts, calls through pointers, summaries of library
  functions, `guardAll` off; two programs one after the other. `MAX_ITERATE = 2`
  stands for the 8 of the code: with two globals none goes uncounted.
* `instrument`: every body of two instructions out of an alphabet of sixteen with
  six summaries of their calls (messages), and a `main` with a loop over two
  PHIs that returns, exits or creates a thread, beside a function with an
  invocation and its unwind block, and one whose unwind block begins with a PHI, with records that are missing, stale or there
  twice (runs). `MAX_STEPS = 12` lets the loop be gone round twice before the end.
* `inspector`: one program, whose control is free (branches, exceptions, which
  function a foreign call runs, and when the thread starts). `MaxDepth = 4` lets a
  recursive function be entered three times; `FewMishaps` cuts behaviours in which more than two kinds of mishap have
  happened.
* `NodeNum = 3`: fewer slots leave no state between empty and full. Seven calls
  make two laps, which is what the stale flag and both wraps need. `UntilHazard`
  and `UntilStray` cut behaviours at the first state in which the properties no
  longer promise anything; the state itself is checked.
* `MaxEvents = 2` with two threads: four events over three slots fill the list
  and wrap it.
* `MaxEdges = 2`, three nodes, `Kinds = OneKind`: an edge has one kind in the run.
  Cycles, joins, self-feeding lists and return edges behind data edges all fit
  in three nodes; edges of several kinds are covered by the theorems.
* The programs of `DifGraph` have 5 to 13 instructions in one or two threads.
  Programs are given, not enumerated: what holds of every program is the
  business of proofs.
* `MaxDataNum = 3`, `MaxUnits = 2`: a list of three is the least with a middle row,
  and six rows of three keys include repeated keys in both units.

The theorems of section 5 have none of these bounds.

### Fairness

`EventQueue!FairSpec` is weakly fair to the engine, which polls without
blocking, and to a thread that is inside `TRC_trace`, which waits for nothing
there. Nobody is obliged to trace, to stop, or to exit. `queue_one` lets no process
be killed, since a killed producer holds up the engine for good; that is a
hazard of the code. `VisitDifg!FairSpec` is weakly fair to the visit, `Sda!Spec` to
the analysis and `ModuleSet!Spec` to loading: each is a loop of one thread that
waits for nobody. Nobody is obliged to start an analysis or to compile a file. No
liveness is stated of `DifGraph`, `MemDb`, `Instrumenter` and `Inspector`.

## 5. Proofs

Every theorem holds for all values of the constants that satisfy the assumptions
`QueueAssumption`, `VisitAssumption`, `ProgramAssumption`, `TableAssumption`,
`ModuleAssumption`, `SessionAssumption`, `InputAssumption` and `Inspector`'s `Assumption`; the runs evaluate them.
`InputAssumption` says that modules keep the rules of LLVM's verifier. The last says what a program is: functions with bodies that are not empty, of
statements as rewriting leaves them (`IsStatement`), and that None is nothing else.

**EventQueueProofs.** `TypeCorrect`, `SlotsInList`, `SlotsOwnedOnce`,
`DrainedBeforeStop`, `QueueIsFifo`. The type invariant alone is not inductive: that
the wrap test keeps `Tindex` in range depends on there being one thread inside
`InQueue`, which holds only until "overlap" or "kill". So the invariant is
layered. `TypeInv` bounds what holds always; `SlotInv` what holds of the thread
inside `InQueue` until somebody overlaps it; `ListInv` describes the slots in use
until any hazard: owners are distinct, slots between head and tail are owned or
complete, others are neither, and the engine's place agrees with the head. The
refinement then shows that a step is a reservation, a completion, a delivery or
a stutter of `EventFifo`; each hazard makes `intact` false.

`AnalysedIsSuffix` has two parts. `CrossInv` says that `DifEngine` was called for
what the engine took, less a number of events at the front, none of which is of
Python; it needs the types only and holds whatever the slots contain. `SameInv` says
that it was given those very events; the slot is read twice, so this rests on
`ListInv` (nobody fills the accepted slot) and ends at the first hazard.

**VisitDifgProofs.** The theorems are about `OpenSpec`, a graph
that grows without bounds. The invariant adds to the types that a list of edges
is the list of the edges `kind` has (`GraphInv`), that the cache holds sources and
marked nodes only (`CacheInv`), where a pass stands (`PcInv`), that what it has
behind it is followed (`DoneInv`), that without a change it adds to the cache
over return edges only (`LagInv`), and that plugins saw marked nodes only, each
once (`MarkedInv`). `VisitIsSound` refines `TaintSpread`, `SpreadIsTainted` says that
whatever `TaintSpread` reaches lies in every set that contains the sources and is closed
under flow, and `MarksAreTainted` joins the two.

**DifGraphProofs.** `ThreadsLinkedRight`, for every program. An edge from another
thread can come from three tables, and the invariant says what their rows are:
rows of `thr` are creations in the graph (`ThrInv`), because a thread has made another
just if the instruction it has yet to trace does so (`TodoInv`), the row of an address is an
event that defines a variable there (`GlvInv`), and `thrcNode` is empty until the
first event of its thread (`OrderInv`) and keeps its value from then on, so an edge
from it stays right. `EdgeInv` says that no other thread has an edge into an
event not yet met.

`DifGraphVisited` joins the two modules: a step of `DifGraph` is a step of
`VisitDifg!OpenSpec` or leaves its variables alone. What has to be shown is that
`InsertNode2Graph` only ever grows the graph as `Insert` does: every new edge
has the new node at one end and a node of the graph at the other, and no list of
edges gets an entry twice. Sources and targets of edges come from all five
tables, so `GrowInv` says of each that it holds nodes of the graph, and of a
thread's list that it holds each of its events once; lemmas about `Part`, which
selects from a list by position, say that a selection repeats nothing. With that,
what is proved of any graph that grows holds of this one: types
(`DifGraphTypes`), plugins invoked once and a covered cache (`DifGraphVisits`),
and `DifGraphSound`: the engine marks nothing to which no data flows, over
the edges `DifEngine` made, from a source.

`DifGraphLocalFlow` is about the edges inside a thread. Lists of nodes only grow and
a pair of old nodes gets no new edge, so what was explained stays explained
(`ReachesKept`, `UndefinedKept`), and it is enough to look at the new node
(`NewLatest`). `Definers` goes back through the events of its function and
ticks uses off. `DefinersMatch` shows that the recursive function does so at every
position, and `DefinersFacts` that what is ticked off only grows on the way: an event
behind a definer that defines the same variable had met the use unticked, so it is
linked itself, and was given another use. `FuncPlaces` carries this from the list of a
function to that of the thread. For returns `PointInv` says that a thread stands
at the point its last event came from, until one is dropped as a repetition; so
what `AfterReturn` says of the program's control is true of the thread's list.

**MemDbProofs.** `TableTypes`, `IdsReachEveryRow`, `TableIsKeyTable`, `BusyListKept`. The invariant: idle
rows are the last of the newest unit in order, all others are busy (`IdleInv`),
the number of busy rows follows from that (`NumInv`), and chains hold busy rows
(`ChainInv`). That a row is new when it is handed out is a consequence, and with
it the lookups of other keys are untouched. For the list, `LinkInv` says that there
is a sequence of the busy rows, each once, which the pointers link in both
directions from `hdr` to `tail`: a new row is its new last element, and
`db_MoveNode2BusyEnd` moves one element to the end, whether it was the first, the
last or the only one. That walking the pointers from the head goes through this
sequence is what `BusyIsList` says.

**ModuleSetProofs.** `ModuleTypes`, `LoadingCloses`, `MapsAreRight`. That no module is
loaded twice follows from the guard only while the list of paths is injective
from the start (`PathInv`). `Closed` at the end needs to be known of a part: the
functions listed are exactly those before the place the loop is at, whichever
modules have been appended meanwhile (`PlaceInv`, `FuncsInv`), and none of them is
missing its module (`ClosedInv`). `MapInv` says that the two maps come from one
choice of a definition for each name.

**SdaProofs.** `SdaTypes`, `NeverReentered`, `RecordsAreRight`, `NothingElseSelected`, for every session of
well-formed programs: finitely many functions, calls of functions the program
knows or of none it can name, threads whose entries are defined. The invariant of the first three has four parts. `TodoInv`: programs are well formed.
`RecordInv`: functions are numbered 1, 2, ..., and what is selected is what is
recorded, under the number of its position. `FrameInv`: every frame stands inside
its function, and those below the top wait at a call that is no source: it is
this that lets `FinishCall`, which runs when the callee is gone, record the call
as what it is. `EntryInv`: the queue and the users of globals are functions the
program defines. No frame is ever pushed for a function on the stack.

`NothingElseSelected` is proved for every closed set `C` at once: `ReachInv(C)` says
that all taint there is lies in `C`: equal values and globals' pointers are linked
(`EqualOk`, `AliasOk`), tainted globals, entries, summaries, frames and selected
instructions are in `C` (`LexOk`, `EntriesOk`, `SummariesOk`, `StackOk`,
`SelectedOk`). Summaries make it hard, for they are bits and not values: that a
bit is set means something about the argument with its number, in the function
called and in the caller. `GoesIn` and `ComesOut` say it of a function: bits that
go in are of arguments in `C`, and bits come out only of arguments in `C` or, the
result, of a return that touches `C`. `Answers` carries this through
`ExeFunction` to the caller, over the links of the call. The assumption on programs
grew with the proof: instructions are values of their own, or a bit of
`m_Func2Fsda` kept under one of them would be of another, and parameters and the
address of a `store` are values.

**InstrumenterProofs.** `InstrumenterTypeOK`, `InstrumenterTraceWhole`, for every module
the verifier lets pass, every selection, both modes, and runs of any length
(`MAX_STEPS` is any value). Events are compared as flattened sequences, so the module
begins with lemmas about `FlattenSeq`: one more element, one element in front, empty
elements. The invariant then has two halves.

What stands where: `PlacedOK` says that the hooks in front of instruction `k`
report exactly `Placed(f, m, k)`, the events, in order, of those of the first `m`
instructions whose `InstrumentSite` is `k`; when the function is done this is
`Whole(f, k)`. Hooks that report no instruction (entries, threads, begin and end) may be
put anywhere between them (`SilentHooks`), and `EntryOK` and `MainOK` say where those
are: the entry before anything else of the function, the begin of `main` before
that, the end behind all others.

What a run owes: an event is traced in front of the *next* instruction, or, before
PHIs, in front of the first that is none, except that of a return. So in the middle of
a block something may be due that is not traced yet, which is why `RunTraced` is not
inductive. `Pend(f, k)` is what is due to the instructions before `k` in its block
when a run comes to `k`, and `Own(f, k)` what `k` itself is traced by. `TracedOK`: at a
PHI, what is due is what is traced and `Pend`; elsewhere, with the own events of the
instruction, what is traced and what the hooks left will report. Three lemmas carry it
over a step: `WholeIs` (the hooks of an instruction report `Pend` and then `Own`, and
none stand at a PHI), `PendNext` (behind an instruction that stays in its block its
event is pending) and `PendStart` (nothing is pending where a block begins: no event
leaves its block). They rest on blocks being contiguous and PHIs coming first. A run
may enter at any function and branch to any successor as often as it likes.
`OrderOK` keeps what was traced first and what last, for the begin and the end.

**InspectorProofs.** `EventsOrdered`, `InspectorTypes`, `InspectorSound`,
`InspectorTraced`. That a message held back does not go out late
is not inductive by itself. `TraceInv` says that the trace is in the order of time
and a message held back was made by the line that is running; `QuietInv` that no call of
this moment has been *sent* while the statement of the last line runs, which is
when C code reports; and `FrameInv` that nobody but the first thread runs as long
as no thread was started, and that frames below the top are past their line.

`Sound` relates the frames of the interpreter to the contexts the inspector
guesses, and is far from inductive: what a context must hold depends on where its
frame stands. `SyncInv` says so for all frames at once. Every frame below the top is
at a call its context knows, with the definition the call will have, and the
context above remembers that definition as its `Ret`, for it is there that
`PopCtx` finds it (`Calls`). The frame on top is described stage by stage (`OnTop`):
while a call is about to enter, `CallCtx` is prepared for that function and
`Actual2Formal` will taint every parameter that is given dirty data; when a statement
has run, what it defines is held if it read dirty data; when a value is to be
returned that is dirty, `RetTaint` is set. A decorated function that has not run its
first line has a frame and no context (`Early`), and the context prepared waits
for it. That all uses of a line are looked at rests on lemmas about live objects: the
uses of `LE_call` are the arguments without the constants, in order (`UsesMatch`,
`UsesCover`), which is where the mishaps "many uses" and "shifted" are needed.

`Traced` follows from both: nothing sent or held back is lost (`SentGrows`), a line
that reads dirty data finds it tainted in the context on top, so that it is not
passed over (`LineTells`), and the event carries that context's function, which is
the frame's.

**Checked by TLC only.**

* Liveness (`ReservedIsTaken`, `ExitStopsEngine`, `Settles`, `Terminates`, `Loads`) is
  out of the prover's reach.
* `TaintFound` of `DifGraph` does not hold of every program the assumption admits: it
  needs calls and returns that nest, and a definition of every variable before its
  use. The programs of the run have both.
* `DataFollowed` of `Sda`, the converse of `OnlyConnected`, says that a walk has
  missed nothing when it ends; for a function that calls itself, or is answered from
  a summary, this depends on the order in which functions were gone through.
* `RoundTrip` of `Instrumenter`: what is written to a message and what is decoded from
  it are computed by recursive functions over sequences of any length, and a proof
  would be an induction over them, token by token, for each of the forms a message has.

## 6. Findings

Three runs expect a violation, and each is a disagreement of the code with what
the repository says of it: `queue_stale` (`Queue.h:5` calls the queue a FIFO),
`graph_sources` (`Plugins.c:448`: "Visit all sources") and `graph_sink`
(`Plugins.c:295` asserts that the function of a sink is found). What else goes
wrong, and is promised nowhere, is listed as a hazard or is a mishap of a model.

## 7. What is not modelled

Section 1 names the parts and section 2 what is planned. Beyond those:

* LLVM IR and Python syntax. Instructions are records of what the code asks them
  for, statements of what the trace function is told; the parsing of Python and
  the rewriting of modules are left out, and so are graph output, plugin
  configuration, detectors and benchmarks.
* Text: messages are sequences of decoded values, ids are records. That `strncpy`
  may cut a message off, that a name of a Python global is read as a hexadecimal
  number, and that fields of an id are shifted without a mask, are hazards.
* `FULL_INSTRUMENTATION` in the engine, where `TRC_trace` writes a log and bypasses
  the queue; the pass's part of that mode is in `Instrumenter`.
* In SDA: reading function summaries from XML, `LoadFuncSet`, whose call is
  commented out, and points-to sets, which the analysis does not use. A crash
  while `LdaBin.bin` is rewritten is a hazard.
* In the inspector: `TracingFull`, the switch for a single case, and a change of
  threads in the middle of the trace function.
* Field insensitivity in the engine: `IsFieldSensitive` is constantly true, so the
  map from derived to base addresses is written and not read.
* Writes behind `UseMap` when an event has more than eight uses, and behind the
  array of modules.
* The task pool: nothing creates one.
