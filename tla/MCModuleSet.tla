----------------------------- MODULE MCModuleSet -----------------------------
(***************************************************************************)
(* Instances of ModuleSet for TLC.                                         *)
(***************************************************************************)
EXTENDS ModuleSet

Def(n) == [name |-> n, decl |-> FALSE]
Decl(n) == [name |-> n, decl |-> TRUE]

\* A program, a library, a library built on another, and the library with a test
\* program in it.
Programs == {<<Decl("g"), Def("main")>>, <<Def("f")>>, <<Decl("f"), Def("g")>>,
             <<Def("f"), Decl("g"), Def("main")>>}
=============================================================================
