------------------------------ MODULE ModuleSet ------------------------------
(***************************************************************************)
(* The modules an analysis works on (ModuleSet.cpp).  A run with -pre      *)
(* writes the file FUNC_MODULE, which says where each function is defined; *)
(* a later run reads it and loads, while it goes through the functions of  *)
(* the modules it has, those that define what they only declare.           *)
(*                                                                         *)
(* Modules may be compiled anew between the two runs, so the file may name *)
(* a module that no longer defines the function.                           *)
(***************************************************************************)
EXTENDS Naturals, Sequences, SequencesExt, FiniteSets

CONSTANTS
    Path,           \* bitcode files
    Name,           \* names of functions
    Main,           \* "main"
    Contents,       \* the states a file can be in: sequences of functions
    MAX_MODULE_NUM, \* modules that can be loaded on demand
    NoFunc

Symbol == [name : Name, decl : BOOLEAN]

ASSUME ModuleAssumption ==
    /\ IsFiniteSet(Path)
    /\ Contents \subseteq Seq(Symbol)
    /\ NoFunc \notin Nat \X Nat
    /\ MAX_MODULE_NUM \in Nat

VARIABLES
    disk,           \* per file: its functions
    FUNC_MODULE,    \* the file of the last -pre run: name -> file
    funcToModule,   \* m_FuncToModule
    paths,          \* m_ModulePathVec; m_ModuleNum is its length
    room,           \* length of the array m_Modules
    cur,            \* module and function InitModuleSet is at
    funcs,          \* m_FuncVector: a set, functions are <<module, index>>
    entry,          \* m_EntryFunc
    declToDef, defToDecls, \* m_FunDeclToDefMap, m_FunDefToDeclsMap
    phase           \* "off", "init", "abort", "overflow", "exit", "done"

run == <<funcToModule, paths, room, cur, funcs, entry, declToDef, defToDecls>>
vars == <<disk, FUNC_MODULE, run, phase>>

Sym(f) == disk[paths[f[1]]][f[2]]
Defs == {f \in funcs : ~Sym(f).decl}
Decls == {f \in funcs : Sym(f).decl}
-----------------------------------------------------------------------------
Init ==
    /\ disk \in [Path -> Contents]
    /\ FUNC_MODULE = <<>>
    /\ funcToModule = <<>> /\ paths = <<>> /\ room = 0 /\ cur = <<1, 1>>
    /\ funcs = {} /\ entry = NoFunc /\ declToDef = <<>> /\ defToDecls = <<>>
    /\ phase = "off"

\* A name that several modules define keeps the last line, on reading.
DefinersIn(ps, n) ==
    {i \in 1 .. Len(ps) : \E s \in Range(disk[ps[i]]) : s.name = n /\ ~s.decl}
LastIn(S) == CHOOSE i \in S : \A j \in S : j <= i

PreProcess(ps) ==
    /\ phase = "off"
    /\ FUNC_MODULE' = [n \in {m \in Name : DefinersIn(ps, m) # {}} |->
                          ps[LastIn(DefinersIn(ps, n))]]
    /\ UNCHANGED <<disk, run, phase>>

Recompile(p) ==
    /\ phase = "off"
    /\ \E c \in Contents : disk' = [disk EXCEPT ![p] = c]
    /\ UNCHANGED <<FUNC_MODULE, run, phase>>

\* The constructor: the file is read, the modules named on the command line
\* are loaded.
loadModules(ps) ==
    /\ phase = "off"
    /\ funcToModule' = FUNC_MODULE
    /\ paths' = ps /\ room' = Len(ps) + MAX_MODULE_NUM
    /\ phase' = "init"
    /\ UNCHANGED <<disk, FUNC_MODULE, cur, funcs, entry, declToDef, defToDecls>>

\* loadOneModule ends the program when a file is gone or is no bitcode, be it a
\* file of the command line (in a -pre run that changes nothing) ...
LoadFails ==
    /\ phase' = "exit"
    /\ UNCHANGED <<disk, FUNC_MODULE, run>>
LoadGivenFails == phase = "off" /\ LoadFails
-----------------------------------------------------------------------------
AtFunction == phase = "init" /\ cur[1] <= Len(paths) /\ cur[2] <= Len(disk[paths[cur[1]]])

\* Has LoadModuleOnDemand something to load?
IsModuleExist_Never(p) == FALSE
IsModuleExist(p) == p \in Range(paths)
OnDemand(s) ==
    /\ s.decl
    /\ s.name \in DOMAIN funcToModule
    /\ ~IsModuleExist(funcToModule[s.name])

AddFunction(s) ==
    /\ funcs' = funcs \cup {cur}
    /\ cur' = <<cur[1], cur[2] + 1>>
    /\ entry' = IF s.name = Main THEN cur ELSE entry
    \* assert(m_EntryFunc == NULL && "multiple entrys?")
    /\ phase' = IF s.name = Main /\ entry # NoFunc THEN "abort" ELSE phase
    /\ UNCHANGED <<disk, FUNC_MODULE, funcToModule, room, declToDef, defToDecls>>

InitKnown ==
    LET s == Sym(cur)
    IN  /\ AtFunction /\ ~OnDemand(s)
        /\ AddFunction(s)
        /\ UNCHANGED paths

\* LoadModuleOnDemand writes to the array without looking at its length.
LoadModuleOnDemand ==
    LET s == Sym(cur)
    IN  /\ AtFunction /\ OnDemand(s) /\ Len(paths) < room
        /\ paths' = Append(paths, funcToModule[s.name])
        /\ AddFunction(s)

\* ... or one that is loaded on demand.
LoadOnDemandFails ==
    /\ AtFunction /\ OnDemand(Sym(cur)) /\ Len(paths) < room
    /\ LoadFails

LoadBehindArray ==
    /\ AtFunction /\ OnDemand(Sym(cur)) /\ Len(paths) >= room
    /\ phase' = "overflow"
    /\ UNCHANGED <<disk, FUNC_MODULE, run>>

\* The loop runs over the modules there were at its start ...
NextModule_Fixed ==
    /\ phase = "init" /\ cur[1] <= Len(paths) /\ cur[2] > Len(disk[paths[cur[1]]])
    /\ cur' = <<IF cur[1] >= room - MAX_MODULE_NUM THEN Len(paths) + 1 ELSE cur[1] + 1, 1>>
    /\ UNCHANGED <<disk, FUNC_MODULE, funcToModule, paths, room, funcs, entry,
                   declToDef, defToDecls, phase>>

\* ... or does not advance.
NextModule_Stay ==
    /\ phase = "init" /\ cur[1] <= Len(paths) /\ cur[2] > Len(disk[paths[cur[1]]])
    /\ cur' = <<cur[1], 1>>
    /\ UNCHANGED <<disk, FUNC_MODULE, funcToModule, paths, room, funcs, entry,
                   declToDef, defToDecls, phase>>

NextModule ==
    /\ phase = "init" /\ cur[1] <= Len(paths) /\ cur[2] > Len(disk[paths[cur[1]]])
    /\ cur' = <<cur[1] + 1, 1>>
    /\ UNCHANGED <<disk, FUNC_MODULE, funcToModule, paths, room, funcs, entry,
                   declToDef, defToDecls, phase>>
-----------------------------------------------------------------------------
DefAndDeclName == {Sym(f).name : f \in Defs} \cap {Sym(f).name : f \in Decls}

\* Sets of functions are ordered by address: any of several definitions of a
\* name may be the one that is kept.
BuildFuncDeclToDefMap_AnyName ==
    \E def \in [DefAndDeclName -> Defs] :
        declToDef' = [d \in {f \in Decls : Sym(f).name \in DefAndDeclName} |->
                         def[Sym(d).name]]

BuildFuncDeclToDefMap ==
    \E def \in [DefAndDeclName -> Defs] :
        /\ \A n \in DefAndDeclName : Sym(def[n]).name = n
        /\ declToDef' = [d \in {f \in Decls : Sym(f).name \in DefAndDeclName} |->
                            def[Sym(d).name]]

BuildFuncDefToDeclMap ==
    defToDecls' = [d \in {f \in Defs : Sym(f).name \in DefAndDeclName} |->
                      {f \in Decls : Sym(f).name = Sym(d).name}]

BuildFuncMap ==
    /\ phase = "init" /\ cur[1] > Len(paths)
    /\ BuildFuncDeclToDefMap
    /\ BuildFuncDefToDeclMap
    /\ phase' = "done"
    /\ UNCHANGED <<disk, FUNC_MODULE, funcToModule, paths, room, cur, funcs, entry>>

\* What the analyses ask the set for.
GetDefinition(f) == IF f \in DOMAIN declToDef THEN declToDef[f] ELSE NoFunc
GetDeclaration(d) == defToDecls[d]
\* The first module that defines the name.
GetFunction(n) ==
    LET S == DefinersIn(paths, n)
        i == CHOOSE j \in S : \A k \in S : j <= k
        s == disk[paths[i]]
    IN  IF S = {} THEN NoFunc
        ELSE <<i, CHOOSE k \in DOMAIN s : s[k].name = n /\ ~s[k].decl>>

InitModuleSet ==
    \/ InitKnown \/ LoadModuleOnDemand \/ LoadOnDemandFails \/ LoadBehindArray
    \/ NextModule \/ BuildFuncMap

\* -dir names a directory: every file once, in some order.
Given == {ps \in UNION {[1 .. n -> Path] : n \in 1 .. Cardinality(Path)} : IsInjective(ps)}

Next ==
    \/ \E ps \in Given : PreProcess(ps) \/ loadModules(ps)
    \/ \E p \in Path : Recompile(p)
    \/ LoadGivenFails
    \/ InitModuleSet

Spec == Init /\ [][Next]_vars /\ WF_vars(InitModuleSet)
-----------------------------------------------------------------------------
Func == (1 .. Cardinality(Path)) \X Nat

\* Types; no module is loaded twice, by whatever way the functions that are missing
\* lead to it, and none behind the end of the array unnoticed.
TypeOK ==
    /\ disk \in [Path -> Contents]
    /\ \A n \in DOMAIN FUNC_MODULE : n \in Name /\ FUNC_MODULE[n] \in Path
    /\ \A n \in DOMAIN funcToModule : n \in Name /\ funcToModule[n] \in Path
    /\ paths \in Seq(Path) /\ room \in Nat
    /\ IsInjective(paths) /\ Len(paths) <= room
    /\ cur \in Nat \X Nat
    /\ funcs \subseteq Func
    /\ entry \in Func \cup {NoFunc}
    /\ phase \in {"off", "init", "abort", "overflow", "exit", "done"}

\* When the set is complete, every module that FUNC_MODULE names for a function
\* some loaded module declares is loaded too, those loaded on the way included.
Closed ==
    phase = "done" =>
        \A i \in 1 .. Len(paths) : \A s \in Range(disk[paths[i]]) :
            s.decl /\ s.name \in DOMAIN funcToModule
                => funcToModule[s.name] \in Range(paths)

\* GetDefinition finds a definition of every declaration of which one is loaded,
\* under the name of the declaration, and GetDeclaration of it finds its way back;
\* it finds one when and only when GetFunction finds one by name.
MapsAgree ==
    phase = "done" =>
        \A f \in Decls :
            LET d == GetDefinition(f)
            IN  /\ d = NoFunc <=> GetFunction(Sym(f).name) = NoFunc
                /\ d # NoFunc => /\ d \in Defs
                                /\ Sym(d).name = Sym(f).name
                                /\ f \in GetDeclaration(d)

\* Loading on demand comes to an end, although it adds to the list of modules it
\* goes through.
Loads == phase = "init" ~> phase \in {"abort", "overflow", "exit", "done"}
=============================================================================
