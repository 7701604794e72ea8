--------------------------- MODULE ModuleSetProofs ---------------------------
(***************************************************************************)
(* Theorems about ModuleSet for any files, names and contents.             *)
(***************************************************************************)
EXTENDS ModuleSet, FiniteSetTheorems, SequenceTheorems, WellFoundedInduction, TLAPS

(***************************************************************************)
(* The inductive invariant.  InitModuleSet goes through the functions of   *)
(* the modules in order, so what it has collected is what lies before cur, *)
(* and nothing before cur is missing a module.                             *)
(***************************************************************************)
IsFuncMap(F) == \A n \in DOMAIN F : n \in Name /\ F[n] \in Path

FileInv ==
    /\ disk \in [Path -> Contents]
    /\ IsFuncMap(FUNC_MODULE) /\ IsFuncMap(funcToModule)
    /\ phase \in {"off", "init", "abort", "overflow", "exit", "done"}

PathInv ==
    /\ paths \in Seq(Path) /\ room \in Nat
    /\ IsInjective(paths) /\ Len(paths) <= room

FuncOf(i) == DOMAIN disk[paths[i]]

PlaceInv ==
    /\ cur \in Nat \X Nat /\ cur[1] >= 1 /\ cur[2] >= 1
    /\ phase = "off" => paths = <<>> /\ funcs = {} /\ cur = <<1, 1>>
    /\ phase = "init" /\ cur[1] > Len(paths) => cur[2] = 1
    /\ phase = "done" => cur[1] > Len(paths)

FuncsInv ==
    /\ funcs \subseteq (1 .. Len(paths)) \X Nat
    /\ entry \in funcs \cup {NoFunc}
    /\ phase \in {"init", "done"} =>
         \A i \in 1 .. Len(paths) : \A k \in Nat :
            <<i, k>> \in funcs <=> k \in FuncOf(i) /\ (i < cur[1] \/ (i = cur[1] /\ k < cur[2]))

IsClosed(f) ==
    Sym(f).decl /\ Sym(f).name \in DOMAIN funcToModule
        => funcToModule[Sym(f).name] \in Range(paths)
ClosedInv == phase \in {"init", "done"} => \A f \in funcs : IsClosed(f)

MapInv == phase = "done" => \E def \in [DefAndDeclName -> Defs] :
    /\ \A n \in DefAndDeclName : Sym(def[n]).name = n
    /\ declToDef = [d \in {f \in Decls : Sym(f).name \in DefAndDeclName} |-> def[Sym(d).name]]
    /\ defToDecls = [d \in {f \in Defs : Sym(f).name \in DefAndDeclName} |->
                        {f \in Decls : Sym(f).name = Sym(d).name}]

IInv == FileInv /\ PathInv /\ PlaceInv /\ FuncsInv /\ ClosedInv /\ MapInv
-----------------------------------------------------------------------------
\* A set of naturals has a least and, if bounded, a greatest member.
LEMMA LeastMember ==
    ASSUME NEW S, S \subseteq Nat, S # {}
    PROVE  \E i \in S : \A j \in S : i <= j
  <1> DEFINE Less == {p \in Nat \X Nat : p[1] < p[2]}
  <1>1. OpToRel(<, Nat) = Less
    BY Zenon DEF OpToRel
  <1>2. IsWellFoundedOn(Less, Nat)
    BY <1>1, NatLessThanWellFounded
  <1>3. PICK i \in S : \A j \in S : <<j, i>> \notin Less
    <2> HIDE DEF Less
    <2>q. QED
      BY <1>2, WFMin
  <1>4. ASSUME NEW j \in S, ~(i <= j)
        PROVE  FALSE
    <2>1. <<j, i>> \in Nat \X Nat /\ j < i
      BY <1>4
    <2>2. <<j, i>> \in Less
      BY <2>1
    <2>q. QED
      BY <1>3, <2>2
  <1>q. QED
    BY <1>4

LEMMA GreatestMember ==
    ASSUME NEW b \in Nat, NEW S, S \subseteq 0 .. b, S # {}
    PROVE  \E i \in S : \A j \in S : j <= i
  <1> DEFINE T == {b - i : i \in S}
  <1>0. PICK s \in S : TRUE
    OBVIOUS
  <1>1. T \subseteq Nat /\ b - s \in T
    OBVIOUS
  <1>2. PICK t \in T : \A u \in T : t <= u
    BY <1>1, LeastMember
  <1>3. PICK i \in S : t = b - i
    OBVIOUS
  <1>4. ASSUME NEW j \in S
        PROVE  j <= i
    <2>1. b - j \in T
      OBVIOUS
    <2>2. b - i <= b - j
      BY <2>1, <1>2, <1>3
    <2>3. i \in 0 .. b /\ j \in 0 .. b
      OBVIOUS
    <2>q. QED
      BY <2>2, <2>3
  <1>q. QED
    BY <1>4

\* A sequence without repetition is not longer than the set is large.
LEMMA NoLongerThanPath ==
    ASSUME NEW ps \in Seq(Path), IsInjective(ps)
    PROVE  Len(ps) <= Cardinality(Path)
  <1>1. ps \in Injection(1 .. Len(ps), Path)
    BY DEF Injection
  <1>2. Len(ps) \in Nat /\ 1 \in Int /\ Len(ps) \in Int
    OBVIOUS
  <1>3. IsFiniteSet(1 .. Len(ps)) /\ Cardinality(1 .. Len(ps)) = Len(ps)
    <2>1. /\ IsFiniteSet(1 .. Len(ps))
          /\ Cardinality(1 .. Len(ps)) = IF 1 > Len(ps) THEN 0 ELSE Len(ps) - 1 + 1
      BY <1>2, FS_Interval
    <2>q. QED
      BY <1>2, <2>1
  <1>q. QED
    BY <1>1, <1>3, FS_Injection, ModuleAssumption
-----------------------------------------------------------------------------
LEMMA ContentsTyped ==
    ASSUME FileInv, PathInv, NEW i \in 1 .. Len(paths)
    PROVE  disk[paths[i]] \in Seq(Symbol)
  BY ModuleAssumption DEF FileInv, PathInv

LEMMA InitInv == Init => IInv
  <1> SUFFICES ASSUME Init PROVE IInv
    OBVIOUS
  <1> USE DEF Init
  <1>1. FileInv
    BY DEF FileInv, IsFuncMap
  <1>2. PathInv
    BY DEF PathInv, IsInjective
  <1>3. PlaceInv /\ FuncsInv /\ ClosedInv /\ MapInv
    BY DEF PlaceInv, FuncsInv, ClosedInv, MapInv
  <1>q. QED
    BY <1>1, <1>2, <1>3 DEF IInv

\* What a -pre run writes names files.
LEMMA PreProcessInv ==
    ASSUME IInv, NEW ps \in Given, PreProcess(ps)
    PROVE  IInv'
  <1> USE DEF IInv, PreProcess, run
  <1>1. PICK m \in 1 .. Cardinality(Path) : ps \in [1 .. m -> Path]
    BY DEF Given
  <1>2. Len(ps) = m /\ m \in Nat
    BY <1>1
  <1>3. ASSUME NEW n \in Name, DefinersIn(ps, n) # {}
        PROVE  ps[LastIn(DefinersIn(ps, n))] \in Path
    <2> DEFINE S == DefinersIn(ps, n)
    <2>1. S \subseteq 1 .. m
      BY <1>2 DEF DefinersIn
    <2> HIDE DEF S, IInv, PreProcess, run
    <2>2. S \subseteq 0 .. m
      BY <2>1, <1>2
    <2>3. S # {}
      BY <1>3 DEF S
    <2>4. \E i \in S : \A j \in S : j <= i
      BY <2>2, <2>3, <1>2, GreatestMember
    <2>5. LastIn(S) \in S
      BY <2>4 DEF LastIn
    <2>q. QED
      BY <2>1, <2>5, <1>1 DEF S
  <1>4. FileInv'
    BY <1>3 DEF FileInv, IsFuncMap
  <1>5. PathInv'
    BY DEF PathInv
  <1>6. PlaceInv' /\ FuncsInv' /\ ClosedInv' /\ MapInv'
    BY DEF PlaceInv, FuncsInv, ClosedInv, MapInv
  <1>q. QED
    BY <1>4, <1>5, <1>6

LEMMA RecompileInv ==
    ASSUME IInv, NEW p \in Path, Recompile(p)
    PROVE  IInv'
  <1> USE DEF IInv, Recompile, run
  <1>1. FileInv' /\ PathInv'
    BY DEF FileInv, PathInv
  <1>2. PlaceInv' /\ FuncsInv' /\ ClosedInv' /\ MapInv'
    BY DEF PlaceInv, FuncsInv, ClosedInv, MapInv
  <1>q. QED
    BY <1>1, <1>2

LEMMA LoadModulesInv ==
    ASSUME IInv, NEW ps \in Given, loadModules(ps)
    PROVE  IInv'
  <1> USE DEF IInv, loadModules
  <1>1. PICK m \in 1 .. Cardinality(Path) : ps \in [1 .. m -> Path] /\ IsInjective(ps)
    BY DEF Given
  <1>2. Len(ps) = m /\ m \in Nat /\ ps \in Seq(Path)
    BY <1>1
  <1>3. FileInv'
    BY DEF FileInv
  <1>4. PathInv'
    BY <1>1, <1>2, ModuleAssumption DEF PathInv
  <1>5. PlaceInv'
    BY DEF PlaceInv
  <1>6. FuncsInv'
    <2>1. \A i \in 1 .. Len(ps) : DOMAIN disk[ps[i]] \in SUBSET (Nat \ {0})
      BY <1>2, ModuleAssumption DEF FileInv
    <2>2. cur' = <<1, 1>> /\ funcs' = {} /\ entry' = entry /\ paths' = ps /\ disk' = disk
      BY DEF PlaceInv
    <2>3. \A i \in 1 .. Len(ps) : \A k \in Nat :
             ~(k \in DOMAIN disk[ps[i]] /\ (i < 1 \/ (i = 1 /\ k < 1)))
      BY <2>1, <1>2
    <2>4. entry' = NoFunc
      BY <2>2 DEF PlaceInv, FuncsInv
    <2>q. QED
      BY <2>2, <2>3, <2>4 DEF FuncsInv, FuncOf
  <1>7. ClosedInv' /\ MapInv'
    BY DEF PlaceInv, ClosedInv, MapInv
  <1>q. QED
    BY <1>3, <1>4, <1>5, <1>6, <1>7
-----------------------------------------------------------------------------
\* A function is added, and the list of modules may grow by the one it asks for.
LEMMA CollectInv ==
    ASSUME IInv, AtFunction, AddFunction(Sym(cur)),
           paths' \in Seq(Path), Len(paths) <= Len(paths'), Len(paths') <= room,
           \A i \in 1 .. Len(paths) : paths'[i] = paths[i],
           IsInjective(paths'),
           Sym(cur).decl /\ Sym(cur).name \in DOMAIN funcToModule
               => funcToModule[Sym(cur).name] \in Range(paths')
    PROVE  IInv'
  <1> USE DEF IInv, AddFunction, AtFunction
  <1>1. /\ cur \in Nat \X Nat /\ cur = <<cur[1], cur[2]>>
        /\ cur[1] \in 1 .. Len(paths) /\ cur[2] \in Nat /\ cur[2] >= 1
        /\ cur' = <<cur[1], cur[2] + 1>> /\ funcs' = funcs \cup {cur}
        /\ Len(paths) \in Nat /\ Len(paths') \in Nat
        /\ disk' = disk
    BY DEF PlaceInv, PathInv
  <1>2. /\ FuncOf(cur[1]) = 1 .. Len(disk[paths[cur[1]]])
        /\ Len(disk[paths[cur[1]]]) \in Nat
        /\ cur[2] \in FuncOf(cur[1])
    BY <1>1, ContentsTyped DEF FuncOf
  <1>3. FileInv'
    BY DEF FileInv
  <1>4. PathInv'
    BY DEF PathInv
  <1>5. PlaceInv'
    BY <1>1 DEF PlaceInv
  <1>6. funcs' \subseteq (1 .. Len(paths')) \X Nat /\ entry' \in funcs' \cup {NoFunc}
    BY <1>1 DEF FuncsInv
  <1>7. ASSUME phase' \in {"init", "done"}, NEW i \in 1 .. Len(paths'), NEW k \in Nat
        PROVE  <<i, k>> \in funcs' <=>
                 k \in FuncOf(i)' /\ (i < cur'[1] \/ (i = cur'[1] /\ k < cur'[2]))
    <2>1. <<i, k>> \in funcs' <=> <<i, k>> \in funcs \/ (i = cur[1] /\ k = cur[2])
      BY <1>1
    <2>2. CASE i \in 1 .. Len(paths)
      <3>1. FuncOf(i)' = FuncOf(i)
        BY <1>1, <2>2 DEF FuncOf
      <3>2. <<i, k>> \in funcs <=>
              k \in FuncOf(i) /\ (i < cur[1] \/ (i = cur[1] /\ k < cur[2]))
        BY <2>2 DEF FuncsInv
      <3>q. QED
        BY <1>1, <1>2, <2>1, <2>2, <3>1, <3>2
    <2>3. CASE i > Len(paths)
      <3>1. <<i, k>> \notin funcs
        BY <2>3, <1>1 DEF FuncsInv
      <3>q. QED
        BY <1>1, <2>1, <2>3, <3>1
    <2>q. QED
      BY <2>2, <2>3, <1>1
  <1>8. FuncsInv'
    BY <1>6, <1>7 DEF FuncsInv
  <1>9. ASSUME NEW f \in funcs'
        PROVE  IsClosed(f)'
    <2>1. f \in (1 .. Len(paths)) \X Nat
      BY <1>1 DEF FuncsInv
    <2>2. Sym(f)' = Sym(f) /\ funcToModule' = funcToModule
      BY <2>1, <1>1 DEF Sym
    <2>3. Range(paths) \subseteq Range(paths')
      <3>1. /\ paths \in Seq(Path) /\ paths' \in Seq(Path) /\ Len(paths) <= Len(paths')
            /\ \A i \in 1 .. Len(paths) : paths'[i] = paths[i]
        BY DEF PathInv
      <3> HIDE DEF IInv, AddFunction, AtFunction
      <3>2. \A i \in 1 .. Len(paths) : i \in DOMAIN paths'
        BY <3>1, <1>1
      <3>q. QED
        BY <3>1, <3>2 DEF Range
    <2>4. CASE f = cur
      BY <2>2, <2>4 DEF IsClosed
    <2>5. CASE f \in funcs
      BY <2>2, <2>3, <2>5 DEF IsClosed, ClosedInv
    <2>q. QED
      BY <2>4, <2>5, <1>1
  <1>10. ClosedInv' /\ MapInv'
    BY <1>9 DEF ClosedInv, MapInv
  <1>q. QED
    BY <1>3, <1>4, <1>5, <1>8, <1>10

LEMMA InitKnownInv ==
    ASSUME IInv, InitKnown
    PROVE  IInv'
  <1> USE DEF InitKnown
  <1>1. /\ paths' \in Seq(Path) /\ Len(paths) <= Len(paths') /\ Len(paths') <= room
        /\ \A i \in 1 .. Len(paths) : paths'[i] = paths[i]
        /\ IsInjective(paths')
    BY DEF IInv, PathInv
  <1>2. Sym(cur).decl /\ Sym(cur).name \in DOMAIN funcToModule
           => funcToModule[Sym(cur).name] \in Range(paths')
    BY DEF OnDemand, IsModuleExist
  <1>q. QED
    BY <1>1, <1>2, CollectInv

LEMMA LoadModuleOnDemandInv ==
    ASSUME IInv, LoadModuleOnDemand
    PROVE  IInv'
  <1> USE DEF LoadModuleOnDemand
  <1> DEFINE p == funcToModule[Sym(cur).name]
  <1>1. p \in Path /\ p \notin Range(paths) /\ paths \in Seq(Path) /\ room \in Nat
        /\ IsInjective(paths)
    BY DEF IInv, PathInv, FileInv, IsFuncMap, OnDemand, IsModuleExist
  <1>2. /\ paths' = Append(paths, p) /\ paths' \in Seq(Path)
        /\ Len(paths') = Len(paths) + 1 /\ Len(paths) \in Nat /\ Len(paths) < room
        /\ \A i \in 1 .. Len(paths) : paths'[i] = paths[i]
        /\ paths'[Len(paths) + 1] = p
    BY <1>1
  <1>3. IsInjective(paths')
    <2> SUFFICES ASSUME NEW a \in 1 .. Len(paths) + 1, NEW b \in 1 .. Len(paths) + 1,
                        paths'[a] = paths'[b]
                 PROVE  a = b
      BY <1>2 DEF IsInjective
    <2>1. \A i \in 1 .. Len(paths) : paths'[i] # p
      BY <1>1, <1>2 DEF Range
    <2>2. \A i, j \in 1 .. Len(paths) : paths[i] = paths[j] => i = j
      BY <1>1 DEF IsInjective
    <2>q. QED
      BY <2>1, <2>2, <1>2
  <1>4. p \in Range(paths')
    BY <1>2 DEF Range
  <1>q. QED
    BY <1>2, <1>1, <1>3, <1>4, CollectInv

LEMMA LoadBehindArrayInv ==
    ASSUME IInv, LoadBehindArray
    PROVE  IInv'
  <1> USE DEF IInv, LoadBehindArray, run, AtFunction
  <1>1. FileInv' /\ PathInv' /\ PlaceInv'
    BY DEF FileInv, PathInv, PlaceInv
  <1>2. FuncsInv' /\ ClosedInv' /\ MapInv'
    BY DEF FuncsInv, ClosedInv, MapInv
  <1>q. QED
    BY <1>1, <1>2

LEMMA LoadFailsInv ==
    ASSUME IInv, LoadFails
    PROVE  IInv'
  <1> USE DEF IInv, LoadFails, run
  <1>1. FileInv' /\ PathInv' /\ PlaceInv'
    BY DEF FileInv, PathInv, PlaceInv
  <1>2. FuncsInv' /\ ClosedInv' /\ MapInv'
    BY DEF FuncsInv, ClosedInv, MapInv
  <1>q. QED
    BY <1>1, <1>2

\* The end of a module: what lies before cur is the same.
LEMMA NextModuleInv ==
    ASSUME IInv, NextModule
    PROVE  IInv'
  <1> USE DEF IInv, NextModule
  <1>1. /\ cur \in Nat \X Nat /\ cur[1] \in 1 .. Len(paths) /\ cur[2] \in Nat
        /\ cur' = <<cur[1] + 1, 1>> /\ Len(paths) \in Nat /\ paths' = paths /\ disk' = disk
        /\ funcs' = funcs /\ phase = "init" /\ phase' = "init"
    BY DEF PlaceInv, PathInv
  <1>2. FileInv' /\ PathInv' /\ PlaceInv'
    BY <1>1 DEF FileInv, PathInv, PlaceInv
  <1>3. ASSUME NEW i \in 1 .. Len(paths), NEW k \in Nat
        PROVE  <<i, k>> \in funcs <=>
                 k \in FuncOf(i) /\ (i < cur[1] + 1 \/ (i = cur[1] + 1 /\ k < 1))
    <2>1. /\ FuncOf(i) = 1 .. Len(disk[paths[i]]) /\ Len(disk[paths[i]]) \in Nat
      BY ContentsTyped DEF FuncOf
    <2>2. <<i, k>> \in funcs <=>
              k \in FuncOf(i) /\ (i < cur[1] \/ (i = cur[1] /\ k < cur[2]))
      BY <1>1 DEF FuncsInv
    <2>3. i = cur[1] /\ k \in FuncOf(i) => k < cur[2]
      BY <2>1, <1>1
    <2>q. QED
      BY <1>1, <2>1, <2>2, <2>3
  <1>4. FuncsInv'
    <2>1. entry' = entry /\ \A i \in 1 .. Len(paths) : FuncOf(i)' = FuncOf(i)
      BY <1>1 DEF FuncOf
    <2>2. cur'[1] = cur[1] + 1 /\ cur'[2] = 1
      BY <1>1
    <2>q. QED
      BY <1>1, <1>3, <2>1, <2>2 DEF FuncsInv
  <1>5. ClosedInv' /\ MapInv'
    BY DEF ClosedInv, IsClosed, Sym, MapInv
  <1>q. QED
    BY <1>2, <1>4, <1>5

LEMMA BuildFuncMapInv ==
    ASSUME IInv, BuildFuncMap
    PROVE  IInv'
  <1> USE DEF IInv, BuildFuncMap
  <1>1. FileInv' /\ PathInv' /\ PlaceInv'
    BY DEF FileInv, PathInv, PlaceInv
  <1>2. FuncsInv' /\ ClosedInv'
    BY DEF FuncsInv, FuncOf, ClosedInv, IsClosed, Sym
  <1>3. MapInv'
    <2>1. /\ \A f : Sym(f)' = Sym(f)
          /\ Defs' = Defs /\ Decls' = Decls /\ DefAndDeclName' = DefAndDeclName
      BY DEF Sym, Defs, Decls, DefAndDeclName
    <2>2. PICK def \in [DefAndDeclName -> Defs] :
             /\ \A n \in DefAndDeclName : Sym(def[n]).name = n
             /\ declToDef' = [d \in {f \in Decls : Sym(f).name \in DefAndDeclName} |-> def[Sym(d).name]]
      BY DEF BuildFuncDeclToDefMap
    <2>3. defToDecls' = [d \in {f \in Defs : Sym(f).name \in DefAndDeclName} |->
                            {f \in Decls : Sym(f).name = Sym(d).name}]
      BY DEF BuildFuncDefToDeclMap
    <2>4. \E map \in [DefAndDeclName' -> Defs'] :
             /\ \A n \in DefAndDeclName' : Sym(map[n])' = Sym(map[n]) /\ Sym(map[n]).name = n
             /\ declToDef' = [d \in {f \in Decls' : Sym(f).name \in DefAndDeclName'} |-> map[Sym(d).name]]
      BY <2>1, <2>2
    <2>q. QED
      BY <2>1, <2>3, <2>4 DEF MapInv
  <1>q. QED
    BY <1>1, <1>2, <1>3

LEMMA StepInv == IInv /\ [Next]_vars => IInv'
  <1> SUFFICES ASSUME IInv, [Next]_vars PROVE IInv'
    OBVIOUS
  <1>1. CASE \E ps \in Given : PreProcess(ps) \/ loadModules(ps)
    BY <1>1, PreProcessInv, LoadModulesInv
  <1>2. CASE \E p \in Path : Recompile(p)
    BY <1>2, RecompileInv
  <1>3. CASE InitModuleSet
    BY <1>3, InitKnownInv, LoadModuleOnDemandInv, LoadFailsInv, LoadBehindArrayInv,
       NextModuleInv, BuildFuncMapInv DEF InitModuleSet, LoadOnDemandFails
  <1>4. CASE LoadGivenFails
    BY <1>4, LoadFailsInv DEF LoadGivenFails
  <1>5. CASE UNCHANGED vars
    <2> USE <1>5 DEF vars, run, IInv
    <2>1. FileInv' /\ PathInv' /\ PlaceInv'
      BY DEF FileInv, PathInv, PlaceInv
    <2>2. FuncsInv' /\ ClosedInv'
      BY DEF FuncsInv, FuncOf, ClosedInv, IsClosed, Sym
    <2>3. /\ \A f : Sym(f)' = Sym(f)
          /\ Defs' = Defs /\ Decls' = Decls /\ DefAndDeclName' = DefAndDeclName
      BY DEF Sym, Defs, Decls, DefAndDeclName
    <2>4. MapInv'
      <3>1. MapInv /\ UNCHANGED <<phase, declToDef, defToDecls>>
        OBVIOUS
      <3> HIDE <1>5 DEF vars, run, IInv
      <3> SUFFICES ASSUME phase' = "done"
                   PROVE  \E def \in [DefAndDeclName' -> Defs'] :
                            /\ \A n \in DefAndDeclName' : Sym(def[n])'.name = n
                            /\ declToDef' = [d \in {f \in Decls' : Sym(f)'.name \in DefAndDeclName'} |->
                                                def[Sym(d)'.name]]
                            /\ defToDecls' = [d \in {f \in Defs' : Sym(f)'.name \in DefAndDeclName'} |->
                                                 {f \in Decls' : Sym(f)'.name = Sym(d)'.name}]
        BY Zenon DEF MapInv
      <3>2. PICK def \in [DefAndDeclName -> Defs] :
               /\ \A n \in DefAndDeclName : Sym(def[n]).name = n
               /\ declToDef = [d \in {f \in Decls : Sym(f).name \in DefAndDeclName} |-> def[Sym(d).name]]
               /\ defToDecls = [d \in {f \in Defs : Sym(f).name \in DefAndDeclName} |->
                                   {f \in Decls : Sym(f).name = Sym(d).name}]
        BY <3>1 DEF MapInv
      <3>3. /\ \A n \in DefAndDeclName' : Sym(def[n])'.name = n
            /\ declToDef' = [d \in {f \in Decls' : Sym(f)'.name \in DefAndDeclName'} |->
                                def[Sym(d)'.name]]
            /\ defToDecls' = [d \in {f \in Defs' : Sym(f)'.name \in DefAndDeclName'} |->
                                 {f \in Decls' : Sym(f)'.name = Sym(d)'.name}]
        BY <3>1, <3>2, <2>3
      <3>q. QED
        BY <2>3, <3>2, <3>3
    <2>q. QED
      BY <2>1, <2>2, <2>4
  <1>q. QED
    BY <1>1, <1>2, <1>3, <1>4, <1>5 DEF Next
-----------------------------------------------------------------------------
LEMMA InvHolds == Spec => []IInv
  BY InitInv, StepInv, PTL DEF Spec

\* Every variable keeps its type; no module is loaded twice, and the array of modules
\* is not overrun unnoticed (loadOneModule, LoadModuleOnDemand).
THEOREM ModuleTypes == Spec => []TypeOK
  <1>1. IInv => TypeOK
    <2> SUFFICES ASSUME IInv PROVE TypeOK
      OBVIOUS
    <2> USE DEF IInv
    <2>1. Len(paths) <= Cardinality(Path) /\ Len(paths) \in Nat
      BY NoLongerThanPath DEF PathInv
    <2>2. Cardinality(Path) \in Nat
      BY ModuleAssumption, FS_CardinalityType
    <2>3. (1 .. Len(paths)) \X Nat \subseteq Func
      BY <2>1, <2>2 DEF Func
    <2>q. QED
      BY <2>3 DEF TypeOK, FileInv, IsFuncMap, PathInv, PlaceInv, FuncsInv
  <1>q. QED
    BY <1>1, InvHolds, PTL

\* At the end of InitModuleSet funcs is all there is in the modules.
LEMMA AllCollected ==
    ASSUME IInv, phase = "done", NEW i \in 1 .. Len(paths), NEW k \in DOMAIN disk[paths[i]]
    PROVE  <<i, k>> \in funcs
  <1>1. k \in Nat
    BY ContentsTyped DEF IInv
  <1>2. i < cur[1]
    BY DEF IInv, PlaceInv, PathInv
  <1>q. QED
    BY <1>1, <1>2 DEF IInv, FuncsInv, FuncOf

\* Loading on demand is complete: no module is missing that FUNC_MODULE knows to define
\* what a loaded one declares (InitModuleSet).
THEOREM LoadingCloses == Spec => []Closed
  <1>1. IInv => Closed
    <2> SUFFICES ASSUME IInv, phase = "done", NEW i \in 1 .. Len(paths),
                        NEW s \in Range(disk[paths[i]])
                 PROVE  s.decl /\ s.name \in DOMAIN funcToModule
                            => funcToModule[s.name] \in Range(paths)
      BY DEF Closed
    <2>1. PICK k \in DOMAIN disk[paths[i]] : s = disk[paths[i]][k]
      BY DEF Range
    <2>2. <<i, k>> \in funcs
      BY AllCollected
    <2>3. Sym(<<i, k>>) = s
      BY <2>1 DEF Sym
    <2>q. QED
      BY <2>2, <2>3 DEF IInv, ClosedInv, IsClosed
  <1>q. QED
    BY <1>1, InvHolds, PTL

\* What InitModuleSet maps declarations to are definitions of their name, and every
\* declaration of which some module has a definition is mapped (BuildFuncMap,
\* GetDefinition, GetFunction).
THEOREM MapsAreRight == Spec => []MapsAgree
  <1>1. IInv => MapsAgree
    <2> SUFFICES ASSUME IInv, phase = "done", NEW f \in Decls
                 PROVE  LET d == GetDefinition(f)
                        IN  /\ d = NoFunc <=> GetFunction(Sym(f).name) = NoFunc
                            /\ d # NoFunc => /\ d \in Defs
                                             /\ Sym(d).name = Sym(f).name
                                             /\ f \in GetDeclaration(d)
      BY DEF MapsAgree
    <2> DEFINE n == Sym(f).name
               S == DefinersIn(paths, n)
    <2>1. PICK def \in [DefAndDeclName -> Defs] :
             /\ \A m \in DefAndDeclName : Sym(def[m]).name = m
             /\ declToDef = [d \in {g \in Decls : Sym(g).name \in DefAndDeclName} |-> def[Sym(d).name]]
             /\ defToDecls = [d \in {g \in Defs : Sym(g).name \in DefAndDeclName} |->
                                 {g \in Decls : Sym(g).name = Sym(d).name}]
      BY DEF IInv, MapInv
    <2>2. funcs \subseteq (1 .. Len(paths)) \X Nat /\ paths \in Seq(Path)
      BY DEF IInv, FuncsInv, PathInv
    <2>3. \A d \in Defs : d \in Nat \X Nat /\ d # NoFunc
      BY <2>2, ModuleAssumption DEF Defs
    <2>4. n \in DefAndDeclName <=> \E d \in Defs : Sym(d).name = n
      BY DEF DefAndDeclName
    <2>5. (\E d \in Defs : Sym(d).name = n) => S # {}
      <3> SUFFICES ASSUME NEW d \in Defs, Sym(d).name = n
                   PROVE  S # {}
        OBVIOUS
      <3>1. PICK i \in 1 .. Len(paths), k \in Nat : d = <<i, k>>
        BY <2>2 DEF Defs
      <3>2. k \in DOMAIN disk[paths[i]]
        BY <3>1 DEF Defs, IInv, FuncsInv, FuncOf
      <3>3. disk[paths[i]][k] \in Range(disk[paths[i]])
        BY <3>2 DEF Range
      <3>4. disk[paths[i]][k].name = n /\ ~disk[paths[i]][k].decl
        BY <3>1 DEF Defs, Sym
      <3>q. QED
        BY <3>3, <3>4 DEF DefinersIn
    <2>6. ASSUME S # {}
          PROVE  GetFunction(n) \in Defs /\ Sym(GetFunction(n)).name = n
      <3> DEFINE i == CHOOSE j \in S : \A k \in S : j <= k
                 k == CHOOSE k \in DOMAIN disk[paths[i]] : disk[paths[i]][k].name = n /\ ~disk[paths[i]][k].decl
      <3>1. S \subseteq 1 .. Len(paths) /\ S \subseteq Nat
        BY DEF DefinersIn
      <3>2. \E j \in S : \A m \in S : j <= m
        BY <2>6, <3>1, LeastMember
      <3>3. i \in S
        BY <3>2
      <3>4. PICK s \in Range(disk[paths[i]]) : s.name = n /\ ~s.decl
        BY <3>3 DEF DefinersIn
      <3>5. \E m \in DOMAIN disk[paths[i]] : disk[paths[i]][m].name = n /\ ~disk[paths[i]][m].decl
        BY <3>4 DEF Range
      <3>6. /\ k \in DOMAIN disk[paths[i]]
            /\ disk[paths[i]][k].name = n /\ ~disk[paths[i]][k].decl
        BY <3>5
      <3>7. <<i, k>> \in funcs
        BY <3>1, <3>3, <3>6, AllCollected
      <3>8. GetFunction(n) = <<i, k>>
        BY <2>6 DEF GetFunction
      <3>9. Sym(<<i, k>>) = disk[paths[i]][k]
        BY DEF Sym
      <3> HIDE DEF i, k
      <3>q. QED
        BY <3>6, <3>7, <3>8, <3>9 DEF Defs
    <2>7. S = {} => GetFunction(n) = NoFunc
      BY DEF GetFunction
    <2>8. GetFunction(n) = NoFunc <=> n \notin DefAndDeclName
      BY <2>3, <2>4, <2>5, <2>6, <2>7
    <2>9. CASE n \in DefAndDeclName
      <3>1. GetDefinition(f) = def[n] /\ def[n] \in Defs /\ Sym(def[n]).name = n
        BY <2>1, <2>9 DEF GetDefinition
      <3>2. f \in GetDeclaration(def[n])
        BY <2>1, <2>9, <3>1 DEF GetDeclaration
      <3>q. QED
        BY <2>3, <2>8, <2>9, <3>1, <3>2
    <2>10. CASE n \notin DefAndDeclName
      <3>1. GetDefinition(f) = NoFunc
        BY <2>1, <2>10 DEF GetDefinition
      <3>q. QED
        BY <2>8, <2>10, <3>1
    <2>q. QED
      BY <2>9, <2>10
  <1>q. QED
    BY <1>1, InvHolds, PTL
=============================================================================
