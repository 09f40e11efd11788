----------------------------- MODULE MCSession ------------------------------
(***************************************************************************)
(* Two connections that may share an id: the first sends up to two         *)
(* messages, the second only greets, so that their callbacks interleave.   *)
(***************************************************************************)
EXTENDS Session

CONSTANTS s1, s2

MCSessions == {s1, s2}
MCMaxMsgs == [s \in MCSessions |-> IF s = s1 THEN 2 ELSE 0]
=============================================================================
