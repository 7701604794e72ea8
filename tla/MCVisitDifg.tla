----------------------------- MODULE MCVisitDifg -----------------------------
(***************************************************************************)
(* Instances of VisitDifg for TLC.                                         *)
(***************************************************************************)
EXTENDS VisitDifg

\* An edge for each of the tests of ProcSource, and one that passes none.
OneKind == {{"DIF"}, {"RET"}, {"CF"}}
=============================================================================
