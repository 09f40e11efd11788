------------------------------- MODULE MCDbt --------------------------------
(***************************************************************************)
(* One SQL table opened at startup and one hitlist that is walked.         *)
(***************************************************************************)
EXTENDS Dbt, TLC

CONSTANTS tuple, hitlist

MCStatic == {tuple}
MCDynamic == {hitlist}
MCInterval == (tuple :> 2) @@ (hitlist :> 1)
=============================================================================
