------------------------------ MODULE MCStore -------------------------------
(* Store with two daemons, one of them with two threads. *)
EXTENDS Store, TLC

CONSTANTS d1, d2, a1, a2, b1

MCHome == (a1 :> d1) @@ (a2 :> d1) @@ (b1 :> d2)
=============================================================================
