------------------------------- MODULE MCMemDb -------------------------------
(***************************************************************************)
(* Instances of MemDb for TLC.                                             *)
(***************************************************************************)
EXTENDS MemDb, TLC

CONSTANTS k1, k2, k3, p1, p2

\* Two of the keys share a pail.
Colliding == k1 :> p1 @@ k2 :> p1 @@ k3 :> p2
=============================================================================
