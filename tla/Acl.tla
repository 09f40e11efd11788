-------------------------------- MODULE Acl ---------------------------------
(***************************************************************************)
(* The ACL interpreter of mopherd (acl.c): acl() walks the rules of a      *)
(* table, jump and call walk another table recursively, and acl_match      *)
(* records the rule that decided in the acl_* symbols of the connection.   *)
(*                                                                         *)
(* The C call stack is explicit: a frame is an invocation of acl().  What  *)
(* an expression evaluates to, and what an action handler answers, is an   *)
(* input: expressions read symbols, call modules and assign variables.     *)
(***************************************************************************)
EXTENDS Integers, Sequences

CONSTANTS
  Tables,       \* names of tables
  Rules,        \* rules an ACL is made of
  MaxRules,     \* bound: rules of a table
  Stages,       \* milter stages, ordered like the MS_ bits
  StageTable,   \* the table named like a stage
  Allowed,      \* ah_stages of an action
  MaxRecursion, \* MAX_RECURSION
  MaxEvals      \* bound: evaluations of a connection

Terminal == {"continue", "reject", "discard", "accept", "tempfail"}
Action == Terminal \cup {"none", "return", "jump", "call", "set", "log", "mod", "pipe",
                       "greylist", "tarpit"}

\* acl_rule_t with its action and reply; Reply is the class of the reply code.
Reply == {"none", "4", "5"}
Rule == [type: Action, target: Tables, reply: Reply]

ASSUME RulesAssumption == Rules \subseteq Rule /\ MaxRules \in Nat
ASSUME StagesAssumption == Stages \subseteq Nat \ {0} /\ StageTable \in [Stages -> Tables]
ASSUME AllowedAssumption == Allowed \in [Action -> SUBSET Stages]
ASSUME LimitAssumption == MaxRecursion \in Nat \ {0, 1} /\ MaxEvals \in Nat

VARIABLES
  acl,          \* acl_tables, as read at startup; an unknown table has no rules
  stage,        \* the milter stage under evaluation, 0 before the first
  stack,        \* the invocations of acl(): table and number of the current rule
  mode,         \* idle, eval (at a rule) or ret (acl() returned ret)
  ret,
  sym,          \* acl_matched, acl_stage_matched, acl_rule and acl_response
  smtp,         \* the reply set with smfi_setreply, sent with the answer
  last,         \* history: the last finished evaluation
  evals

vars == <<acl, stage, stack, mode, ret, sym, smtp, last, evals>>

Response == Terminal \cup {"none", "error", "greylist"}

\* milter_init_stage calls acl_match with nothing matched.
NoMatchYet == [matched |-> FALSE, stage |-> 0, table |-> "", rule |-> 0, response |-> "none"]

\* acl_read: any ACL of the bound's size.
Acls == [Tables -> UNION {[1..n -> Rules] : n \in 0..MaxRules}]

Init ==
  /\ acl \in Acls
  /\ stage = 0
  /\ stack = <<>>
  /\ mode = "idle"
  /\ ret = "none"
  /\ sym = NoMatchYet
  /\ smtp = "none"
  /\ last = [stage |-> 0, action |-> "none", before |-> 0, smtp |-> "none"]
  /\ evals = 0

Top == stack[Len(stack)]
CurrentRule == acl[Top.table][Top.i]
AtRule == mode = "eval" /\ Top.i <= Len(acl[Top.table])

\* acl() is entered: it fails at the recursion limit.
Enter(t) ==
  IF Len(stack) + 1 >= MaxRecursion
  THEN mode' = "ret" /\ ret' = "error" /\ UNCHANGED stack
  ELSE mode' = "eval" /\ ret' = "none" /\ stack' = Append(stack, [table |-> t, i |-> 1])

\* acl() returns.
Return(r) ==
  /\ stack' = SubSeq(stack, 1, Len(stack) - 1)
  /\ mode' = "ret"
  /\ ret' = r

\* Mutant of Advance: the position in the list of rules is lost.
AdvanceRestarts ==
  /\ stack' = [stack EXCEPT ![Len(stack)].i = 1]
  /\ mode' = "eval"
  /\ ret' = "none"

\* The next rule of the table.
Advance ==
  /\ stack' = [stack EXCEPT ![Len(stack)].i = @ + 1]
  /\ mode' = "eval"
  /\ ret' = "none"

\* Mutant of Match: a later match of the stage replaces the first.
MatchOverrides(s, r) ==
  [matched |-> TRUE, stage |-> s, table |-> Top.table, rule |-> Top.i, response |-> r]

\* acl_match: the first match in a stage, if the stage is later than that of the
\* match on record.
Match(s, r) ==
  IF sym.stage >= s /\ sym.matched THEN sym
  ELSE [matched |-> TRUE, stage |-> s, table |-> Top.table, rule |-> Top.i, response |-> r]

\* acl_set_reply: the reply is set, refused (the rule fails) or not for this action.
ReplyCheck(code, r) ==
  IF code = "none" THEN "skip"
  ELSE CASE r = "reject" -> IF code = "5" THEN "set" ELSE "fail"
         [] r \in {"tempfail", "greylist"} -> IF code = "4" THEN "set" ELSE "fail"
         [] OTHER -> "skip"

\* The action of the current rule answered r: acl() goes on or returns.
Respond(r) ==
  LET check == ReplyCheck(CurrentRule.reply, r) IN
  /\ UNCHANGED <<acl, stage, last, evals>>
  /\ \/ /\ r = "none" /\ Advance /\ UNCHANGED <<sym, smtp>>
     \/ /\ r = "return" /\ Return("none") /\ UNCHANGED <<sym, smtp>>
     \/ /\ r = "error" /\ Return("error") /\ UNCHANGED <<sym, smtp>>
     \/ /\ r \in Response \ {"none", "error"}
        /\ check # "fail"
        /\ Return(r)
        /\ sym' = Match(stage, r)
        /\ smtp' = IF check = "set" THEN CurrentRule.reply ELSE smtp
     \/ /\ r \in Response \ {"none", "error"}
        /\ CurrentRule.reply # "none"     \* refused, or its expressions fail
        /\ Return("error")
        /\ UNCHANGED <<sym, smtp>>

\* milter_acl is called in stage s.
Begin(s) ==
  /\ mode = "idle"
  /\ evals < MaxEvals
  /\ evals' = evals + 1
  /\ stage' = s
  /\ last' = [last EXCEPT !.before = sym.stage]
  /\ Enter(StageTable[s])
  /\ UNCHANGED <<acl, sym, smtp>>

\* No rule of the table is left.
NoMatch ==
  /\ mode = "eval"
  /\ Top.i > Len(acl[Top.table])
  /\ Return("none")
  /\ UNCHANGED <<acl, stage, sym, smtp, last, evals>>

\* exp_is_true: the rule does not apply ...
ExpFalse ==
  /\ AtRule
  /\ Advance
  /\ UNCHANGED <<acl, stage, sym, smtp, last, evals>>

\* ... or its expression fails.
ExpFails ==
  /\ AtRule
  /\ Return("error")
  /\ UNCHANGED <<acl, stage, sym, smtp, last, evals>>

\* The action is not allowed at this stage.
BadStage ==
  /\ AtRule
  /\ stage \notin Allowed[CurrentRule.type]
  /\ Return("error")
  /\ UNCHANGED <<acl, stage, sym, smtp, last, evals>>

\* What a handler may answer; actions without a handler answer themselves.
Answers(type) ==
  CASE type \in Terminal \cup {"none", "return"} -> {type}
    [] type \in {"set", "log", "mod", "pipe"} -> {"none", "error"}
    [] type = "greylist" -> {"none", "greylist", "error"}
    [] type = "tarpit" -> {"none", "tempfail", "error"}
    [] OTHER -> {}

\* The rule applies and its action answers r.
Act(r) ==
  /\ AtRule
  /\ stage \in Allowed[CurrentRule.type]
  /\ r \in Answers(CurrentRule.type)
  /\ Respond(r)

\* acl_jump and acl_call walk another table.
Descend ==
  /\ AtRule
  /\ CurrentRule.type \in {"jump", "call"}
  /\ stage \in Allowed[CurrentRule.type]
  /\ Enter(CurrentRule.target)
  /\ UNCHANGED <<acl, stage, sym, smtp, last, evals>>

\* Mutant of Resumed: a jump without a match goes on like a call.
ResumedUnchanged(type, r) == r

\* acl_jump turns the absence of a match into continue, acl_call does not.
Resumed(type, r) == IF type = "jump" /\ r = "none" THEN "continue" ELSE r

\* They return to the acl() that called them.
Ascend ==
  /\ mode = "ret"
  /\ stack # <<>>
  /\ Respond(Resumed(CurrentRule.type, ret))

\* The outermost acl() has returned to milter_acl.
Finish ==
  /\ mode = "ret"
  /\ stack = <<>>
  /\ mode' = "idle"
  /\ ret' = "none"
  /\ smtp' = "none"
  /\ last' = [stage |-> stage, action |-> ret, before |-> last.before, smtp |-> smtp]
  /\ UNCHANGED <<acl, stage, stack, sym, evals>>

Step ==
  \/ NoMatch
  \/ ExpFalse
  \/ ExpFails
  \/ BadStage
  \/ \E r \in Response \cup {"return"} : Act(r)
  \/ Descend
  \/ Ascend
  \/ Finish

Next ==
  \/ \E s \in Stages : Begin(s)
  \/ Step

\* The thread of the connection runs: an evaluation that can take a step takes one.
Spec == Init /\ [][Next]_vars /\ WF_vars(Step)

(***************************************************************************)
(* Properties                                                              *)
(***************************************************************************)

Decisive == Response \ {"none", "error"}

\* What is left of an evaluation explains its answer, however deep the rule that gave it
\* was.  The SMTP reply is of the answer's class, unless the evaluation failed after
\* setting it.  When the stage is later than that of the last match, the acl_* symbols
\* hold the answer and its rule: not a call on the way to it, and a jump only if nothing
\* matched in the table it led to.
AnswerExplained ==
  mode = "idle" =>
    /\ last.smtp = "5" => last.action \in {"reject", "error"}
    /\ last.smtp = "4" => last.action \in {"tempfail", "greylist", "error"}
    /\ last.action \in Decisive /\ last.before < last.stage =>
         /\ sym.stage = last.stage
         /\ sym.response = last.action
         /\ LET type == acl[sym.table][sym.rule].type IN
              /\ type # "call"
              /\ type = "jump" => last.action = "continue"

\* "stop the evaluation of any remaining rules" (mopherd.acl(5)): the rule after a jump
\* that was taken is never reached, whatever happens in the other table.
JumpIsFinal ==
  [][\A k \in 1..Len(stack) :
       /\ k < Len(stack) \/ mode = "ret"
       /\ acl[stack[k].table][stack[k].i].type = "jump"
       => k > Len(stack') \/ stack'[k].i = stack[k].i]_vars

\* Every evaluation ends, circular jumps and calls included.
EvaluationEnds == mode # "idle" ~> mode = "idle"
=============================================================================
