----------------------------- MODULE AclProofs ------------------------------
(***************************************************************************)
(* For any ACL, any stages and any recursion limit: a jump that was taken  *)
(* is final (JumpIsFinal), and what an evaluation leaves behind explains   *)
(* its answer (AnswerExplained).                                           *)
(*                                                                         *)
(* And of what an ACL computes with: the registered domain of any name     *)
(* under any rule file (RegdomAgrees), blobs of any length read back from  *)
(* their text, and the networks of IPv6 addresses.                         *)
(***************************************************************************)
EXTENDS Acl, Regdom, Base64, Address, SequenceTheorems, WellFoundedInduction, TLAPS

Frame == [table: Tables, i: Nat \ {0}]
Level == Stages \cup {0}

TypeInv ==
  /\ acl \in [Tables -> Seq(Rules)]
  /\ stage \in Level
  /\ stack \in Seq(Frame)
  /\ mode \in {"idle", "eval", "ret"}
  /\ ret \in Response
  /\ sym \in [matched: BOOLEAN, stage: Level, table: Tables \cup {""}, rule: Nat,
              response: Response]
  /\ smtp \in Reply
  /\ last \in [stage: Level, action: Response, before: Level, smtp: Reply]
  /\ mode = "eval" => stack # <<>>
  /\ mode # "idle" => stage \in Stages

\* The reply that was set fits the answer r.
Fits(reply, r) ==
  /\ reply = "5" => r = "reject"
  /\ reply = "4" => r \in {"tempfail", "greylist"}

\* The symbols m name the answer r of stage s and a rule that gave it.
Recorded(m, s, r) ==
  /\ m.matched
  /\ m.stage = s
  /\ m.response = r
  /\ acl[m.table][m.rule].type # "call"
  /\ acl[m.table][m.rule].type = "jump" => r = "continue"

\* What holds on the way: as long as nothing has matched the evaluation has left no
\* trace; once something has, the trace is that of the answer on its way up.
AnswerInv ==
  /\ mode = "eval" \/ (mode = "ret" /\ ret = "none") =>
       smtp = "none" /\ sym.stage = last.before
  /\ mode = "ret" /\ ret \in Decisive =>
       Fits(smtp, ret) /\ (last.before < stage => Recorded(sym, stage, ret))
  /\ mode = "idle" => smtp = "none" /\ AnswerExplained

IInv == TypeInv /\ AnswerInv

(***************************************************************************)
(* The stack                                                               *)
(***************************************************************************)

\* The frame on top, and the rule it is at.
LEMMA TopFrame ==
  ASSUME TypeInv, stack # <<>>
  PROVE  Len(stack) \in Nat \ {0} /\ Top \in Frame
<1>1. stack \in Seq(Frame)
  BY DEF TypeInv
<1>2. Len(stack) \in Nat \ {0}
  BY <1>1, EmptySeq
<1>3. Len(stack) \in 1..Len(stack)
  BY <1>2
<1>4. stack[Len(stack)] \in Frame
  BY <1>1, <1>3, ElementOfSeq
<1> QED  BY <1>2, <1>4 DEF Top

\* The rule an evaluation stands at is a rule of its table.
LEMMA CurrentRuleType ==
  ASSUME TypeInv, AtRule
  PROVE  stack # <<>> /\ CurrentRule \in Rule
<1>1. stack # <<>> /\ Top \in Frame
  BY TopFrame DEF TypeInv, AtRule
<1>2. acl[Top.table] \in Seq(Rules)
  BY <1>1 DEF TypeInv, Frame
<1>3. Len(acl[Top.table]) \in Nat
  BY <1>2, LenProperties
<1>4. Top.i \in 1..Len(acl[Top.table])
  BY <1>1, <1>3 DEF AtRule, Frame
<1>5. acl[Top.table][Top.i] \in Rules
  BY <1>2, <1>4, ElementOfSeq
<1> QED  BY <1>1, <1>5, RulesAssumption DEF CurrentRule

\* A return drops the top frame, the next rule changes nothing below it, and a
\* recursion leaves all frames alone.
LEMMA ReturnStack ==
  ASSUME TypeInv, stack # <<>>, NEW r, Return(r)
  PROVE  /\ stack' \in Seq(Frame) /\ Len(stack') = Len(stack) - 1
         /\ \A k \in 1..(Len(stack) - 1) : stack'[k] = stack[k]
<1> DEFINE n == Len(stack) - 1
<1>1. n \in Nat /\ n + 1 = Len(stack) /\ \A k \in 1..n : k \in 1..Len(stack)
  BY TopFrame
<1>2. \A k \in 1..n : stack[k] \in Frame
  <2>1. stack \in Seq(Frame)
    BY DEF TypeInv
  <2> QED  BY <1>1, <2>1, ElementOfSeq
<1>3. stack' = SubSeq(stack, 1, n)
  BY DEF Return
<1> HIDE DEF n
<1>4. /\ SubSeq(stack, 1, n) \in Seq(Frame)
      /\ Len(SubSeq(stack, 1, n)) = IF 1 <= n THEN n - 1 + 1 ELSE 0
      /\ \A k \in 1..(n - 1 + 1) : SubSeq(stack, 1, n)[k] = stack[1 + k - 1]
  BY <1>1, <1>2, SubSeqProperties
<1>5. Len(stack') = n /\ \A k \in 1..n : stack'[k] = stack[k]
  BY <1>1, <1>3, <1>4
<1> QED  BY <1>3, <1>4, <1>5 DEF n

\* acl() going on to the next rule moves only the innermost evaluation.
LEMMA AdvanceStack ==
  ASSUME TypeInv, stack # <<>>, Advance
  PROVE  /\ stack' \in Seq(Frame) /\ Len(stack') = Len(stack)
         /\ \A k \in 1..(Len(stack) - 1) : stack'[k] = stack[k]
<1> DEFINE n == Len(stack)
           f == [stack[n] EXCEPT !.i = @ + 1]
<1>1. n \in 1..Len(stack) /\ stack[n] \in Frame
  BY TopFrame DEF Top
<1>2. f \in Frame
  BY <1>1 DEF Frame
<1>3. stack' = [stack EXCEPT ![n] = f]
  BY DEF Advance
<1> HIDE DEF f, n
<1>4. /\ stack' \in Seq(Frame) /\ Len(stack') = Len(stack)
      /\ \A j \in 1..Len(stack) : stack'[j] = IF j = n THEN f ELSE stack[j]
  <2>1. stack \in Seq(Frame)
    BY DEF TypeInv
  <2> QED  BY <1>1, <1>2, <1>3, <2>1, ExceptSeq
<1>5. Len(stack) \in Nat
  BY TopFrame
<1> QED  BY <1>4, <1>5 DEF n

\* acl() called on a table leaves the evaluations that called it as they are.
LEMMA EnterStack ==
  ASSUME TypeInv, NEW t \in Tables, Enter(t)
  PROVE  /\ stack' \in Seq(Frame) /\ Len(stack') >= Len(stack)
         /\ \A k \in 1..Len(stack) : stack'[k] = stack[k]
         /\ mode' = "eval" => stack' # <<>>
<1> DEFINE f == [table |-> t, i |-> 1]
<1>1. f \in Frame
  BY DEF Frame
<1>2. stack \in Seq(Frame)
  BY DEF TypeInv
<1>6. Len(stack) \in Nat
  BY <1>2, LenProperties
<1>3. (stack' = stack /\ mode' = "ret") \/ (stack' = Append(stack, f) /\ mode' = "eval")
  BY DEF Enter
<1> HIDE DEF f
<1>4. CASE stack' = stack /\ mode' = "ret"
  BY <1>2, <1>4, <1>6
<1>5. CASE stack' = Append(stack, f)
  BY <1>1, <1>2, <1>5, <1>6, AppendProperties
<1> QED  BY <1>3, <1>4, <1>5

(***************************************************************************)
(* The steps                                                               *)
(***************************************************************************)

\* Stages are numbers, so acl_match can compare them.
LEMMA LevelsAreNumbers == Level \subseteq Nat /\ Stages \subseteq Level /\ 0 \in Level
BY StagesAssumption DEF Level

\* acl_set_reply accepts only replies of the answer's class.
LEMMA ReplyFits ==
  ASSUME NEW code, NEW r, ReplyCheck(code, r) = "set"
  PROVE  code \in {"4", "5"} /\ Fits(code, r)
BY DEF ReplyCheck, Fits

\* acl_match records the current rule, unless the answer is on record already.
LEMMA MatchRecords ==
  ASSUME TypeInv, stack # <<>>, stage \in Stages, NEW r \in Response,
         last.before < stage =>
           \/ Recorded(sym, stage, r)
           \/ /\ sym.stage = last.before
              /\ CurrentRule.type # "call"
              /\ CurrentRule.type = "jump" => r = "continue"
  PROVE  /\ Match(stage, r) \in [matched: BOOLEAN, stage: Level, table: Tables \cup {""},
                                 rule: Nat, response: Response]
         /\ last.before < stage => Recorded(Match(stage, r), stage, r)
<1> DEFINE new == [matched |-> TRUE, stage |-> stage, table |-> Top.table, rule |-> Top.i,
                   response |-> r]
<1>1. Top.table \in Tables /\ Top.i \in Nat
  BY TopFrame DEF Frame
<1>2. stage \in Nat /\ sym.stage \in Nat /\ stage \in Level
  BY LevelsAreNumbers DEF TypeInv
<1>3. new \in [matched: BOOLEAN, stage: Level, table: Tables \cup {""}, rule: Nat,
               response: Response]
  BY <1>1, <1>2
<1>4. /\ new.matched /\ new.stage = stage /\ new.response = r
      /\ acl[new.table][new.rule] = CurrentRule
  BY DEF CurrentRule
<1>5. Match(stage, r) = IF sym.stage >= stage /\ sym.matched THEN sym ELSE new
  BY DEF Match
<1> HIDE DEF new
<1>6. ASSUME last.before < stage
      PROVE  Recorded(Match(stage, r), stage, r)
  <2>1. CASE Recorded(sym, stage, r)
    BY <1>2, <1>5, <2>1 DEF Recorded
  <2>2. CASE /\ sym.stage = last.before
             /\ CurrentRule.type # "call"
             /\ CurrentRule.type = "jump" => r = "continue"
    <3>1. Match(stage, r) = new
      BY <1>2, <1>5, <1>6, <2>2
    <3> QED  BY <1>4, <2>2, <3>1 DEF Recorded
  <2> QED  BY <1>6, <2>1, <2>2
<1> QED  BY <1>3, <1>5, <1>6 DEF TypeInv

\* An action or a recursion has answered r.
LEMMA RespondStep ==
  ASSUME IInv, stack # <<>>, mode # "idle", NEW r \in Response \cup {"return"}, Respond(r),
         r \in {"none", "return"} => smtp = "none" /\ sym.stage = last.before,
         r \in Decisive => Fits(smtp, r),
         r \in Decisive /\ last.before < stage =>
           \/ Recorded(sym, stage, r)
           \/ /\ sym.stage = last.before
              /\ CurrentRule.type # "call"
              /\ CurrentRule.type = "jump" => r = "continue"
  PROVE  IInv'
<1>1. TypeInv /\ stage \in Stages /\ acl' = acl /\ stage' = stage /\ last' = last
  BY DEF IInv, TypeInv, Respond
<1>2. CASE r = "none" /\ Advance /\ sym' = sym /\ smtp' = smtp
  <2>1. stack' \in Seq(Frame) /\ stack' # <<>>
    <3>1. stack' \in Seq(Frame) /\ Len(stack') = Len(stack) /\ Len(stack) \in Nat \ {0}
      BY <1>1, <1>2, AdvanceStack, TopFrame
    <3> QED  BY <3>1, EmptySeq
  <2>2. TypeInv'
    BY <1>1, <1>2, <2>1 DEF TypeInv, Advance, Response
  <2>3. AnswerInv'
    BY <1>1, <1>2 DEF AnswerInv, Advance, Decisive
  <2> QED  BY <2>2, <2>3 DEF IInv
<1>3. ASSUME NEW q \in {"none", "error"}, Return(q), sym' = sym, smtp' = smtp,
             q = "none" => r = "return"
      PROVE  IInv'
  <2>1. stack' \in Seq(Frame)
    BY <1>1, <1>3, ReturnStack
  <2>2. TypeInv'
    BY <1>1, <1>3, <2>1 DEF TypeInv, Return, Response
  <2>3. AnswerInv'
    BY <1>1, <1>3 DEF AnswerInv, Return, Decisive
  <2> QED  BY <2>2, <2>3 DEF IInv
<1>4. CASE /\ r \in Decisive
           /\ Return(r)
           /\ sym' = Match(stage, r)
           /\ smtp' = IF ReplyCheck(CurrentRule.reply, r) = "set" THEN CurrentRule.reply
                      ELSE smtp
  <2>1. stack' \in Seq(Frame)
    BY <1>1, <1>4, ReturnStack
  <2>2. /\ sym' \in [matched: BOOLEAN, stage: Level, table: Tables \cup {""}, rule: Nat,
                     response: Response]
        /\ last.before < stage => Recorded(sym', stage, r)
    BY <1>1, <1>4, MatchRecords DEF Decisive
  <2>3. smtp' \in Reply /\ Fits(smtp', r)
    BY <1>1, <1>4, ReplyFits DEF TypeInv, Reply
  <2>4. TypeInv'
    BY <1>1, <1>4, <2>1, <2>2, <2>3 DEF TypeInv, Return, Decisive
  <2>5. ret' = r /\ mode' = "ret" /\ r # "none"
    BY <1>4 DEF Return, Decisive
  <2>6. Fits(smtp', ret') /\ (last'.before < stage' => Recorded(sym', stage', ret'))
    BY <1>1, <2>2, <2>3, <2>5
  <2>7. AnswerInv'
    BY <1>1, <2>5, <2>6 DEF AnswerInv, Recorded
  <2> QED  BY <2>4, <2>7 DEF IInv
<1> QED  BY <1>2, <1>3, <1>4 DEF Respond, Decisive

\* milter_acl enters the table of its stage.
LEMMA BeginStep ==
  ASSUME IInv, NEW s \in Stages, Begin(s)
  PROVE  IInv'
<1> DEFINE new == [last EXCEPT !.before = sym.stage]
<1>1. TypeInv /\ AnswerInv /\ mode = "idle" /\ smtp = "none"
  BY DEF IInv, AnswerInv, Begin
<1>2. /\ stack' \in Seq(Frame)
      /\ mode' = "eval" => stack' # <<>>
      /\ mode' \in {"eval", "ret"} /\ ret' = IF mode' = "eval" THEN "none" ELSE "error"
  <2>1. StageTable[s] \in Tables /\ Enter(StageTable[s])
    BY StagesAssumption DEF Begin
  <2>2. mode' \in {"eval", "ret"} /\ ret' = IF mode' = "eval" THEN "none" ELSE "error"
    BY <2>1 DEF Enter
  <2> QED  BY <1>1, <2>1, <2>2, EnterStack
<1>3. /\ new \in [stage: Level, action: Response, before: Level, smtp: Reply]
      /\ new.before = sym.stage
  BY <1>1 DEF TypeInv
<1>4. acl' = acl /\ stage' = s /\ last' = new /\ sym' = sym /\ smtp' = smtp
  BY DEF Begin
<1> HIDE DEF new
<1>5. TypeInv'
  BY <1>1, <1>2, <1>3, <1>4, LevelsAreNumbers DEF TypeInv, Response
<1>6. AnswerInv'
  BY <1>1, <1>2, <1>3, <1>4 DEF AnswerInv, Decisive
<1> QED  BY <1>5, <1>6 DEF IInv

\* Steps in a rule that neither answer nor match.
LEMMA QuietStep ==
  ASSUME IInv, mode = "eval",
         UNCHANGED <<acl, stage, sym, smtp, last, evals>>,
         Advance \/ Return("none") \/ Return("error")
  PROVE  IInv'
<1>1. TypeInv /\ AnswerInv /\ stack # <<>>
  BY DEF IInv, TypeInv
<1>2. /\ stack' \in Seq(Frame)
      /\ (mode' = "eval" /\ ret' = "none" /\ stack' # <<>>) \/ mode' = "ret"
      /\ ret' \in {"none", "error"}
  <2>1. CASE Advance
    <3>1. stack' \in Seq(Frame) /\ Len(stack') = Len(stack) /\ Len(stack) \in Nat \ {0}
      BY <1>1, <2>1, AdvanceStack, TopFrame
    <3> QED  BY <2>1, <3>1, EmptySeq DEF Advance
  <2>2. CASE Return("none") \/ Return("error")
    <3>1. stack' \in Seq(Frame)
      BY <1>1, <2>2, ReturnStack
    <3> QED  BY <2>2, <3>1 DEF Return
  <2> QED  BY <2>1, <2>2
<1>3. TypeInv'
  BY <1>1, <1>2 DEF TypeInv, Response
<1>4. AnswerInv'
  BY <1>1, <1>2 DEF AnswerInv, Decisive
<1> QED  BY <1>3, <1>4 DEF IInv

\* An action answers.
LEMMA ActStep ==
  ASSUME IInv, NEW r \in Response \cup {"return"}, Act(r)
  PROVE  IInv'
<1>1. TypeInv /\ AnswerInv /\ stack # <<>> /\ mode = "eval"
  BY DEF IInv, TypeInv, Act, AtRule
<1>2. smtp = "none" /\ sym.stage = last.before
  BY <1>1 DEF AnswerInv
<1>3. CurrentRule.type \notin {"jump", "call"}
  BY DEF Act, Answers, Terminal
<1>4. Fits(smtp, r)
  BY <1>2 DEF Fits
<1> QED  BY <1>1, <1>2, <1>3, <1>4, RespondStep DEF Act

\* A jump or a call enters another table.
LEMMA DescendStep ==
  ASSUME IInv, Descend
  PROVE  IInv'
<1>1. TypeInv /\ AnswerInv /\ mode = "eval"
  BY DEF IInv, Descend, AtRule
<1>2. CurrentRule.target \in Tables
  BY <1>1, CurrentRuleType DEF Descend, Rule
<1>3. /\ stack' \in Seq(Frame)
      /\ mode' = "eval" => stack' # <<>>
      /\ mode' \in {"eval", "ret"} /\ ret' = IF mode' = "eval" THEN "none" ELSE "error"
  <2>1. mode' \in {"eval", "ret"} /\ ret' = IF mode' = "eval" THEN "none" ELSE "error"
    BY DEF Descend, Enter
  <2> QED  BY <1>1, <1>2, <2>1, EnterStack DEF Descend
<1>4. TypeInv'
  BY <1>1, <1>3 DEF TypeInv, Descend, Response
<1>5. AnswerInv'
  BY <1>1, <1>3 DEF AnswerInv, Descend, Decisive
<1> QED  BY <1>4, <1>5 DEF IInv

\* It returns to its rule.
LEMMA AscendStep ==
  ASSUME IInv, Ascend
  PROVE  IInv'
<1> DEFINE r == Resumed(CurrentRule.type, ret)
<1>1. TypeInv /\ AnswerInv /\ mode = "ret" /\ stack # <<>> /\ Respond(r)
  BY DEF IInv, Ascend
<1>2. ret \in Response
  BY <1>1 DEF TypeInv
<1>3. CASE ret = "none"
  <2>1. smtp = "none" /\ sym.stage = last.before
    BY <1>1, <1>3 DEF AnswerInv
  <2>2. \/ CurrentRule.type = "jump" /\ r = "continue"
        \/ CurrentRule.type # "jump" /\ r = "none"
    BY <1>3 DEF Resumed
  <2>3. r \in Response /\ Fits(smtp, r) /\ (r \in Decisive => CurrentRule.type = "jump")
        /\ (CurrentRule.type = "jump" => r = "continue")
    BY <2>1, <2>2 DEF Fits, Decisive, Response, Terminal
  <2> HIDE DEF r
  <2> QED  BY <1>1, <2>1, <2>3, RespondStep
<1>4. CASE ret # "none"
  <2>1. r = ret /\ r \in Response /\ r \notin {"none", "return"}
    BY <1>2, <1>4 DEF Resumed, Response, Terminal
  <2>2. /\ r \in Decisive => Fits(smtp, r)
        /\ r \in Decisive /\ last.before < stage => Recorded(sym, stage, r)
    BY <1>1, <2>1 DEF AnswerInv
  <2> HIDE DEF r
  <2> QED  BY <1>1, <2>1, <2>2, RespondStep
<1> QED  BY <1>3, <1>4

\* milter_acl gets the answer.
LEMMA FinishStep ==
  ASSUME IInv, Finish
  PROVE  IInv'
<1> DEFINE new == [stage |-> stage, action |-> ret, before |-> last.before, smtp |-> smtp]
<1>1. TypeInv /\ AnswerInv /\ mode = "ret"
  BY DEF IInv, Finish
<1>2. /\ new \in [stage: Level, action: Response, before: Level, smtp: Reply]
      /\ new.stage = stage /\ new.action = ret /\ new.before = last.before
      /\ new.smtp = smtp
  BY <1>1 DEF TypeInv
<1>3. last' = new /\ mode' = "idle" /\ ret' = "none" /\ smtp' = "none"
      /\ acl' = acl /\ stage' = stage /\ stack' = stack /\ sym' = sym
  BY DEF Finish
<1> HIDE DEF new
<1>4. TypeInv'
  BY <1>1, <1>2, <1>3 DEF TypeInv, Response, Reply
<1>5. ret \in {"none", "error"} \cup Decisive
  BY <1>1 DEF TypeInv, Decisive
<1>6. /\ new.smtp = "5" => new.action \in {"reject", "error"}
      /\ new.smtp = "4" => new.action \in {"tempfail", "greylist", "error"}
  BY <1>1, <1>2, <1>5 DEF AnswerInv, Fits
<1>7. new.action \in Decisive /\ new.before < new.stage => Recorded(sym, new.stage, new.action)
  BY <1>1, <1>2 DEF AnswerInv
<1>8. AnswerExplained'
  BY <1>3, <1>6, <1>7 DEF AnswerExplained, Recorded
<1>9. AnswerInv'
  BY <1>3, <1>8 DEF AnswerInv, Decisive
<1> QED  BY <1>4, <1>9 DEF IInv

\* The invariant holds before the first evaluation ...
LEMMA Start ==
  ASSUME Init
  PROVE  IInv
<1>1. acl \in [Tables -> Seq(Rules)]
  <2>1. \A n \in 0..MaxRules : [1..n -> Rules] \subseteq Seq(Rules)
    BY SeqDef, RulesAssumption
  <2> QED  BY <2>1 DEF Init, Acls
<1>2. stack \in Seq(Frame)
  BY EmptySeq DEF Init
<1>3. /\ sym \in [matched: BOOLEAN, stage: Level, table: Tables \cup {""}, rule: Nat,
                  response: Response]
      /\ last \in [stage: Level, action: Response, before: Level, smtp: Reply]
  BY LevelsAreNumbers DEF Init, NoMatchYet, Response, Reply
<1>4. TypeInv
  BY <1>1, <1>2, <1>3, LevelsAreNumbers DEF Init, TypeInv, Response, Reply
<1>5. AnswerInv
  BY DEF Init, AnswerInv, AnswerExplained, Decisive
<1> QED  BY <1>4, <1>5 DEF IInv

\* ... and every step preserves it.
LEMMA Keeps ==
  ASSUME IInv, [Next]_vars
  PROVE  IInv'
<1>1. ASSUME NEW s \in Stages, Begin(s) PROVE IInv'
  BY <1>1, BeginStep
<1>2. CASE NoMatch \/ ExpFalse \/ ExpFails \/ BadStage
  BY <1>2, QuietStep DEF NoMatch, ExpFalse, ExpFails, BadStage, AtRule
<1>3. ASSUME NEW r \in Response \cup {"return"}, Act(r) PROVE IInv'
  BY <1>3, ActStep
<1>4. CASE Descend
  BY <1>4, DescendStep
<1>5. CASE Ascend
  BY <1>5, AscendStep
<1>6. CASE Finish
  BY <1>6, FinishStep
<1>7. CASE UNCHANGED vars
  <2>1. TypeInv'
    BY <1>7 DEF vars, IInv, TypeInv
  <2>2. AnswerInv'
    BY <1>7 DEF vars, IInv, AnswerInv, AnswerExplained, Recorded
  <2> QED  BY <2>1, <2>2 DEF IInv
<1> QED  BY <1>1, <1>2, <1>3, <1>4, <1>5, <1>6, <1>7 DEF Next, Step

\* The inductive invariant holds in every reachable state.
LEMMA Inductive == Spec => []IInv
<1>1. Init => IInv
  BY Start
<1>2. IInv /\ [Next]_vars => IInv'
  BY Keeps
<1> QED  BY <1>1, <1>2, PTL DEF Spec

(***************************************************************************)
(* The theorems                                                            *)
(***************************************************************************)

\* However deep jumps and calls nest, the reply and the acl_* symbols a finished
\* evaluation leaves behind are those of its answer.
THEOREM AnswersAreExplained == Spec => []AnswerExplained
<1>1. IInv => AnswerExplained
  BY DEF IInv, AnswerInv, AnswerExplained
<1> QED  BY <1>1, Inductive, PTL

\* The frame of a jump that was taken never moves on to the next rule: it stays until
\* acl() returns from it.
THEOREM JumpsAreFinal == Spec => JumpIsFinal
<1> DEFINE Final ==
      \A k \in 1..Len(stack) :
        /\ k < Len(stack) \/ mode = "ret"
        /\ acl[stack[k].table][stack[k].i].type = "jump"
        => k > Len(stack') \/ stack'[k].i = stack[k].i
<1>1. ASSUME IInv, Next
      PROVE  Final
  <2>1. TypeInv /\ Len(stack) \in Nat
    BY <1>1, LenProperties DEF IInv, TypeInv
  <2>2. ASSUME stack # <<>>, \E r : Return(r)
        PROVE  Final
    BY <2>1, <2>2, ReturnStack
  <2>3. ASSUME stack # <<>>, Advance, mode = "ret" => CurrentRule.type # "jump"
        PROVE  Final
    BY <2>1, <2>3, AdvanceStack DEF CurrentRule, Top
  <2>4. ASSUME NEW t \in Tables, Enter(t)
        PROVE  Final
    BY <2>1, <2>4, EnterStack
  <2>5. ASSUME NEW s \in Stages, Begin(s) PROVE Final
    BY <2>4, <2>5, StagesAssumption DEF Begin
  <2>6. CASE NoMatch \/ ExpFalse \/ ExpFails \/ BadStage
    BY <2>1, <2>2, <2>3, <2>6 DEF NoMatch, ExpFalse, ExpFails, BadStage, AtRule, TypeInv
  <2>7. ASSUME NEW r \in Response \cup {"return"}, Act(r) PROVE Final
    BY <2>1, <2>2, <2>3, <2>7 DEF Act, Respond, AtRule, TypeInv
  <2>8. CASE Descend
    BY <2>1, <2>4, <2>8, CurrentRuleType DEF Descend, Rule
  <2>9. CASE Ascend
    <3>1. CurrentRule.type = "jump" => Resumed(CurrentRule.type, ret) # "none"
      BY DEF Resumed
    <3> QED  BY <2>2, <2>3, <2>9, <3>1 DEF Ascend, Respond
  <2>10. CASE Finish
    BY <2>10 DEF Finish
  <2> QED  BY <1>1, <2>5, <2>6, <2>7, <2>8, <2>9, <2>10 DEF Next, Step
<1>2. IInv /\ [Next]_vars => [Final]_vars
  BY <1>1
<1> QED  BY <1>2, Inductive, PTL DEF Spec, JumpIsFinal

(***************************************************************************)
(* Registered domains                                                      *)
(***************************************************************************)

\* The least of a set of natural numbers.
LEMMA LeastOf ==
  ASSUME NEW S, S \subseteq Nat, S # {}
  PROVE  Min(S) \in S /\ \A y \in S : Min(S) <= y
  <1> DEFINE Less == {ss \in Nat \X Nat : ss[1] < ss[2]}
  <1>1. OpToRel(<, Nat) = Less
    BY Zenon DEF OpToRel
  <1>2. IsWellFoundedOn(Less, Nat)
    BY <1>1, NatLessThanWellFounded, Zenon
  <1>3. PICK x \in S : \A y \in S : ~ (<<y, x>> \in Less)
    BY <1>2, WFMin, Zenon
  <1>4. ASSUME NEW y \in S PROVE x <= y
    <2>1. SUFFICES ASSUME y < x PROVE FALSE
      OBVIOUS
    <2>2. <<y, x>> \in Nat \X Nat /\ <<y, x>>[1] < <<y, x>>[2]
      BY <2>1
    <2>3. <<y, x>> \in Less
      BY <2>2, Zenon
    <2>4. QED
      BY <1>3, <2>3
  <1>5. QED
    BY <1>4, Zenon DEF Min

\* The greatest of a set of numbers, if one of them is.
LEMMA MaxIs ==
  ASSUME NEW S, S \subseteq Int, NEW m \in S, \A y \in S : y <= m
  PROVE  Max(S) = m
  <1>1. \A y \in S : m >= y
    OBVIOUS
  <1>2. \A x \in S : (\A y \in S : x >= y) => x = m
    OBVIOUS
  <1>3. QED
    BY <1>1, <1>2, Zenon DEF Max

\* t is the suffix of a name that begins at its label i.
IsAt(t, name, i, L) ==
  /\ t \in Seq(L) /\ Len(name) \in Nat /\ i \in 1..Len(name)
  /\ Len(t) = Len(name) - i + 1
  /\ \A k \in 1..(Len(name) - i + 1) : t[k] = name[i + k - 1]

\* A suffix of a name.
LEMMA SuffixIs ==
  ASSUME NEW L, NEW name \in Seq(L), NEW i \in DOMAIN name
  PROVE  IsAt(Suffix(name, i), name, i, L)
  <1>1. Len(name) \in Nat /\ DOMAIN name = 1..Len(name)
    OBVIOUS
  <1>2. QED
    BY <1>1 DEF Suffix, IsAt

\* Places in a suffix of a suffix.
Place(i, j, d, r, q) ==
  /\ d \in 1..r /\ r - d + 1 = q
  /\ \A k \in 1..q : d + k - 1 \in 1..r /\ i + (d + k - 1) - 1 = j + k - 1

LEMMA Places ==
  ASSUME NEW n \in Nat, NEW i \in 1..n, NEW j \in 1..n, i <= j
  PROVE  Place(i, j, j - i + 1, n - i + 1, n - j + 1)
  BY DEF Place

\* Of two suffixes of a name the later one is a suffix of the earlier one.
LEMMA SuffixOfSuffix ==
  ASSUME NEW L, NEW name \in Seq(L), NEW i \in DOMAIN name, NEW j \in DOMAIN name, i <= j
  PROVE  EndsWith(Suffix(name, i), Suffix(name, j))
  <1> DEFINE s == Suffix(name, i)
             t == Suffix(name, j)
             d == j - i + 1
             u == Suffix(s, d)
  <1>1. IsAt(s, name, i, L) /\ IsAt(t, name, j, L)
    BY SuffixIs, Zenon
  <1> HIDE DEF s, t
  <1>2. /\ Len(name) \in Nat /\ i \in 1..Len(name) /\ j \in 1..Len(name)
        /\ s \in Seq(L) /\ t \in Seq(L)
        /\ Len(s) = Len(name) - i + 1 /\ Len(t) = Len(name) - j + 1
    BY <1>1, Zenon DEF IsAt
  <1>3. /\ d \in 1..Len(s) /\ Len(s) - d + 1 = Len(t)
        /\ \A k \in 1..Len(t) : /\ d + k - 1 \in 1..Len(s)
                                /\ i + (d + k - 1) - 1 = j + k - 1
    <2>1. Place(i, j, d, Len(s), Len(t))
      BY <1>2, Places, Zenon
    <2>2. QED
      BY <2>1, Zenon DEF Place
  <1> HIDE DEF d
  <1>4. d \in DOMAIN s
    <2>1. DOMAIN s = 1..Len(s)
      BY <1>2, LenProperties, Zenon
    <2>2. QED
      BY <1>3, <2>1, Zenon
  <1>5. IsAt(u, s, d, L)
    BY <1>2, <1>4, SuffixIs, Zenon
  <1> HIDE DEF u
  <1>6. u \in Seq(L) /\ Len(u) = Len(t)
    BY <1>3, <1>5, Zenon DEF IsAt
  <1>7. ASSUME NEW k \in 1..Len(t) PROVE u[k] = t[k]
    <2>1. u[k] = s[d + k - 1]
      BY <1>3, <1>5, Zenon DEF IsAt
    <2>2. s[d + k - 1] = name[i + (d + k - 1) - 1]
      BY <1>1, <1>2, <1>3, Zenon DEF IsAt
    <2>3. t[k] = name[j + k - 1]
      BY <1>1, <1>2, Zenon DEF IsAt
    <2>4. QED
      BY <2>1, <2>2, <2>3, <1>3, Zenon
  <1>8. u = t
    BY <1>2, <1>6, <1>7, SeqEqual, Zenon
  <1>9. QED
    BY <1>4, <1>8, Zenon DEF EndsWith, u, s, t

\* The lines of a rule file.
RuleLines(L) == [kind : {"normal", "wildcard", "exception"}, name : Seq(L) \ {<<>>}]

\* l is the rule of the longest suffix of the name, the one at i.
Longest(lines, name, l, i) ==
  /\ l \in lines /\ i \in DOMAIN name /\ l.name = Suffix(name, i)
  /\ Len(name) \in Nat /\ i \in 1..Len(name) /\ Len(l.name) = Len(name) - i + 1
  /\ \A m \in lines : m # l /\ EndsWith(name, m.name) =>
       /\ Len(m.name) \in Nat /\ Len(m.name) < Len(l.name)
       /\ EndsWith(l.name, m.name)

\* No longer suffix than the one at i is in the table.
NoneBefore(lines, name, i) ==
  \A j \in DOMAIN name : Suffix(name, j) \in DOMAIN Table(lines) => i <= j

\* The first suffix that the table holds is that of the longest rule.
LEMMA HitIs ==
  ASSUME NEW L, NEW lines, lines \subseteq RuleLines(L), Loads(lines),
         NEW name \in Seq(L), NEW l \in lines, NEW i \in DOMAIN name, l.name = Suffix(name, i),
         NoneBefore(lines, name, i)
  PROVE  Longest(lines, name, l, i) /\ Table(lines)[Suffix(name, i)] = l.kind
  <1>1. DOMAIN Table(lines) = {m.name : m \in lines}
    BY Zenon DEF Table
  <1>2. Table(lines)[Suffix(name, i)] = l.kind
    <2>1. \A m \in lines : m.name = l.name => m = l
      BY Zenon DEF Loads
    <2>2. (CHOOSE m \in lines : m.name = l.name) = l
      BY <2>1, Zenon
    <2>3. QED
      BY <2>2, Zenon DEF Table
  <1>3. IsAt(Suffix(name, i), name, i, L)
    BY SuffixIs, Zenon
  <1>4. ASSUME NEW m \in lines, m # l, EndsWith(name, m.name)
        PROVE  /\ Len(m.name) \in Nat /\ Len(m.name) < Len(l.name)
               /\ EndsWith(l.name, m.name)
    <2>1. PICK j \in DOMAIN name : m.name = Suffix(name, j)
      BY <1>4, Zenon DEF EndsWith
    <2>2. i <= j
      BY <2>1, <1>1, Zenon DEF NoneBefore
    <2>3. i # j
      BY <2>1, <1>4, Zenon DEF Loads
    <2>4. IsAt(Suffix(name, j), name, j, L)
      BY SuffixIs, Zenon
    <2>5. /\ Len(name) \in Nat /\ i \in 1..Len(name) /\ j \in 1..Len(name)
          /\ Len(l.name) = Len(name) - i + 1 /\ Len(m.name) = Len(name) - j + 1
      BY <1>3, <2>1, <2>4, Zenon DEF IsAt
    <2>6. Len(m.name) \in Nat /\ Len(m.name) < Len(l.name)
      BY <2>2, <2>3, <2>5
    <2>7. EndsWith(l.name, m.name)
      BY <2>1, <2>2, SuffixOfSuffix, Zenon
    <2>8. QED
      BY <2>6, <2>7, Zenon
  <1>5. QED
    BY <1>2, <1>3, <1>4, Zenon DEF Longest, IsAt

\* The labels a rule matches.
LEMMA LabelsAre ==
  ASSUME NEW m, Len(m.name) \in Nat
  PROVE  /\ Labels(m) \in Nat /\ Len(m.name) <= Labels(m) /\ Labels(m) <= Len(m.name) + 1
         /\ m.kind = "wildcard" => Labels(m) = Len(m.name) + 1
         /\ m.kind # "wildcard" => Labels(m) = Len(m.name)
  <1>1. CASE m.kind = "wildcard"
    BY <1>1 DEF Labels
  <1>2. CASE m.kind # "wildcard"
    BY <1>2 DEF Labels
  <1>3. QED
    BY <1>1, <1>2, Zenon

\* The reference, by the length of the public suffix.
LEMMA ReferenceIs ==
  ASSUME NEW lines, NEW name, NEW n, PublicSuffixLength(lines, name) = n
  PROVE  Reference(lines, name)
           = IF n < Len(name) THEN Suffix(name, Len(name) - n) ELSE NoDomain
  BY Zenon DEF Reference

\* The longest rule is an exception, which prevails.
LEMMA ExceptionPrevails ==
  ASSUME NEW lines, NEW name, NEW l, NEW i, Longest(lines, name, l, i), l.kind = "exception"
  PROVE  PublicSuffixLength(lines, name) = Len(name) - i
  <1> DEFINE matching == {m \in lines : Matches(m, name)}
             exceptions == {m \in matching : m.kind = "exception"}
             S == {Labels(m) : m \in exceptions}
  <1>1. /\ l \in lines /\ Len(name) \in Nat /\ i \in 1..Len(name)
        /\ Len(l.name) = Len(name) - i + 1 /\ EndsWith(name, l.name)
    BY Zenon DEF Longest, EndsWith
  <1>2. Labels(l) = Len(name) - i + 1
    BY <1>1 DEF Labels
  <1>3. Labels(l) <= Len(name)
    BY <1>1, <1>2
  <1>4. l \in exceptions
    BY <1>1, <1>3, Zenon DEF Matches
  <1>5. ASSUME NEW m \in exceptions PROVE Labels(m) \in Int /\ Labels(m) <= Labels(l)
    <2>1. CASE m = l
      BY <2>1, <1>1, <1>2
    <2>2. CASE m # l
      <3>1. Len(m.name) \in Nat /\ Len(m.name) < Len(l.name)
        BY <2>2, Zenon DEF Longest, Matches
      <3>2. m.kind = "exception"
        OBVIOUS
      <3>3. Labels(m) = Len(m.name)
        BY <3>1, <3>2 DEF Labels
      <3>4. QED
        BY <3>1, <3>3, <1>1, <1>2
    <2>3. QED
      BY <2>1, <2>2, Zenon
  <1>6. Max(S) = Labels(l)
    <2>1. S \subseteq Int /\ Labels(l) \in S /\ \A y \in S : y <= Labels(l)
      BY <1>4, <1>5, Zenon
    <2>2. QED
      BY <2>1, MaxIs, Zenon
  <1>7. PublicSuffixLength(lines, name) = Max(S) - 1
    BY <1>4, Zenon DEF PublicSuffixLength
  <1>8. QED
    BY <1>1, <1>2, <1>6, <1>7

\* The longest rule is no exception and no exception is below it: it has most labels.
LEMMA LongestPrevails ==
  ASSUME NEW lines, NEW name, NEW l, NEW i, Longest(lines, name, l, i), l.kind # "exception",
         Matches(l, name), \A m \in lines : Matches(m, name) => m.kind # "exception"
  PROVE  PublicSuffixLength(lines, name) = Labels(l)
  <1> DEFINE matching == {m \in lines : Matches(m, name)}
             S == {Labels(m) : m \in matching} \cup {1}
  <1>1. /\ l \in matching /\ Len(name) \in Nat /\ i \in 1..Len(name)
        /\ Len(l.name) = Len(name) - i + 1
    BY Zenon DEF Longest
  <1>2. Len(l.name) \in Nat /\ Len(l.name) >= 1
    BY <1>1
  <1>3. Labels(l) \in Int /\ 1 <= Labels(l) /\ Len(l.name) <= Labels(l)
    <2>1. Labels(l) \in Nat /\ Len(l.name) <= Labels(l)
      BY <1>2, LabelsAre, Zenon
    <2>2. QED
      BY <1>2, <2>1
  <1>4. ASSUME NEW m \in matching PROVE Labels(m) \in Int /\ Labels(m) <= Labels(l)
    <2>1. CASE m = l
      BY <2>1, <1>3
    <2>2. CASE m # l
      <3>1. Len(m.name) \in Nat /\ Len(m.name) < Len(l.name)
        BY <2>2, Zenon DEF Longest, Matches
      <3>2. Labels(m) \in Nat /\ Labels(m) <= Len(m.name) + 1
        BY <3>1, LabelsAre, Zenon
      <3>3. QED
        BY <3>1, <3>2, <1>2, <1>3
    <2>3. QED
      BY <2>1, <2>2, Zenon
  <1>5. Max(S) = Labels(l)
    <2>1. \A y \in S : y \in Int /\ y <= Labels(l)
      BY <1>3, <1>4
    <2>2. S \subseteq Int /\ Labels(l) \in S /\ \A y \in S : y <= Labels(l)
      BY <2>1, <1>1, Zenon
    <2>3. QED
      BY <2>2, MaxIs, Zenon
  <1>6. PublicSuffixLength(lines, name) = Max(S)
    <2>1. {m \in matching : m.kind = "exception"} = {}
      BY Zenon
    <2>2. QED
      BY <2>1, Zenon DEF PublicSuffixLength
  <1>7. QED
    BY <1>5, <1>6, Zenon

\* regdom stops at the first suffix that the table holds, and yet finds the registered
\* domain of publicsuffix.org, for every rule file that loads and every name, but for
\* the two cases that RegdomAgrees names.
THEOREM RegisteredDomains ==
  ASSUME NEW L, NEW lines, lines \subseteq RuleLines(L), Loads(lines),
         NEW name \in Seq(L), name # <<>>
  PROVE  RegdomAgrees(lines, name, RegisteredDomain(Table(lines), name))
  <1> DEFINE table == Table(lines)
             n == Len(name)
             hits == {i \in DOMAIN name : Suffix(name, i) \in DOMAIN table}
             answer == RegisteredDomain(table, name)
  <1> SUFFICES RegdomAgrees(lines, name, answer)
    OBVIOUS
  <1>1. n \in Nat /\ n >= 1 /\ DOMAIN name = 1..n
    OBVIOUS
  <1>2. DOMAIN table = {m.name : m \in lines}
    BY Zenon DEF Table
  <1>3. CASE hits = {}
    <2>1. answer = Before(name, n)
      BY <1>3, Zenon DEF RegisteredDomain
    <2>2. {m \in lines : Matches(m, name)} = {}
      BY <1>2, <1>3, Zenon DEF Matches, EndsWith
    <2>3. PublicSuffixLength(lines, name) = 1
      <3>1. PublicSuffixLength(lines, name) = Max({1})
        BY <2>2 DEF PublicSuffixLength
      <3>2. QED
        <4>1. {1} \subseteq Int /\ 1 \in {1} /\ \A y \in {1} : y <= 1
          OBVIOUS
        <4>2. Max({1}) = 1
          BY <4>1, MaxIs, Zenon
        <4>3. QED
          BY <3>1, <4>2, Zenon
    <2>4. Before(name, n) = IF 1 < n THEN Suffix(name, n - 1) ELSE NoDomain
      BY <1>1 DEF Before
    <2>5. QED
      BY <2>1, <2>3, <2>4, ReferenceIs, Zenon DEF RegdomAgrees
  <1>4. CASE hits # {}
    <2> DEFINE i == Min(hits)
    <2>1. i \in hits /\ \A j \in hits : i <= j
      <3>1. hits \subseteq Nat
        BY <1>1
      <3>2. QED
        BY <1>4, <3>1, LeastOf, Zenon
    <2>2. PICK l \in lines : l.name = Suffix(name, i)
      BY <1>2, <2>1, Zenon
    <2>3. Longest(lines, name, l, i) /\ table[Suffix(name, i)] = l.kind
      <3>1. i \in DOMAIN name /\ NoneBefore(lines, name, i)
        BY <2>1, Zenon DEF NoneBefore
      <3> HIDE DEF i
      <3>2. Longest(lines, name, l, i) /\ Table(lines)[Suffix(name, i)] = l.kind
        BY <2>2, <3>1, HitIs
      <3>3. QED
        BY <3>2, Zenon
    <2>4. /\ l.kind = "exception" => answer = Suffix(name, i)
          /\ l.kind = "normal" => answer = Before(name, i)
          /\ l.kind = "wildcard" => answer = IF i > 1 THEN Before(name, i - 1) ELSE NoDomain
      <3>1. answer = IF l.kind = "exception" THEN Suffix(name, i)
                     ELSE IF l.kind = "wildcard"
                          THEN IF i > 1 THEN Before(name, i - 1) ELSE NoDomain
                     ELSE Before(name, i)
        BY <1>4, <2>3, Zenon DEF RegisteredDomain
      <3> HIDE DEF i, answer
      <3>2. QED
        BY <3>1
    <2> HIDE DEF i, answer, table, hits
    <2>5. /\ i \in 1..n /\ Len(l.name) = n - i + 1 /\ Len(l.name) \in Nat
          /\ EndsWith(name, l.name) /\ l.kind \in {"normal", "wildcard", "exception"}
          /\ l = [kind |-> l.kind, name |-> l.name]
      <3>1. i \in 1..n /\ Len(l.name) = n - i + 1 /\ EndsWith(name, l.name)
        BY <2>3, Zenon DEF Longest, EndsWith
      <3>2. l \in RuleLines(L)
        OBVIOUS
      <3>3. /\ l.kind \in {"normal", "wildcard", "exception"}
            /\ l = [kind |-> l.kind, name |-> l.name]
        BY <3>2 DEF RuleLines
      <3>4. Len(l.name) \in Nat
        BY <3>1, <1>1
      <3>5. QED
        BY <3>1, <3>3, <3>4, Zenon
    <2>6. CASE l.kind = "exception"
      <3>1. answer = Suffix(name, i)
        BY <2>4, <2>6, Zenon
      <3>2. PublicSuffixLength(lines, name) = n - i
        BY <2>3, <2>6, ExceptionPrevails, Zenon
      <3>3. n - i < n /\ n - (n - i) = i
        BY <1>1, <2>5
      <3>4. QED
        BY <3>1, <3>2, <3>3, ReferenceIs, Zenon DEF RegdomAgrees
    <2>7. ASSUME l.kind # "exception", Matches(l, name), NEW m \in lines, Matches(m, name),
                 m.kind = "exception"
          PROVE  RegdomAgrees(lines, name, answer)
      <3>1. m # l
        BY <2>7, Zenon
      <3>2. EndsWith(l.name, m.name)
        BY <2>3, <2>7, <3>1, Zenon DEF Longest, Matches
      <3>3. QED
        BY <2>7, <3>1, <3>2, Zenon DEF RegdomAgrees
    <2>8. ASSUME l.kind # "exception", Matches(l, name),
                 answer = IF Labels(l) < n THEN Suffix(name, n - Labels(l)) ELSE NoDomain
          PROVE  RegdomAgrees(lines, name, answer)
      <3>1. CASE \A m \in lines : Matches(m, name) => m.kind # "exception"
        <4>1. PublicSuffixLength(lines, name) = Labels(l)
          BY <2>3, <2>8, <3>1, LongestPrevails, Zenon
        <4>2. QED
          BY <2>8, <4>1, ReferenceIs, Zenon DEF RegdomAgrees
      <3>2. QED
        BY <2>7, <2>8, <3>1, Zenon
    <2>9. CASE l.kind = "wildcard"
      <3>1. answer = IF i > 1 THEN Before(name, i - 1) ELSE NoDomain
        BY <2>4, <2>9, Zenon
      <3>2. Labels(l) = n - i + 2
        <4>1. Labels(l) = Len(l.name) + 1
          BY <2>5, <2>9, LabelsAre, Zenon
        <4>2. QED
          BY <1>1, <2>5, <4>1
      <3>3. CASE i > 1
        <4>1. Labels(l) <= n
          BY <1>1, <2>5, <3>2, <3>3
        <4>2. Matches(l, name)
          BY <4>1, <2>5, Zenon DEF Matches
        <4>3. answer = IF Labels(l) < n THEN Suffix(name, n - Labels(l)) ELSE NoDomain
          <5>1. (Labels(l) < n <=> i - 1 > 1) /\ n - Labels(l) = (i - 1) - 1
            BY <1>1, <2>5, <3>2
          <5>2. QED
            BY <3>1, <3>3, <5>1 DEF Before
        <4>4. QED
          BY <2>8, <2>9, <4>2, <4>3, Zenon
      <3>4. CASE ~ (i > 1)
        <4>1. i = 1 /\ answer = NoDomain
          BY <2>5, <3>1, <3>4
        <4>2. Suffix(name, 1) = name
          BY <1>1 DEF Suffix
        <4>3. l = [kind |-> "wildcard", name |-> name]
          BY <2>2, <2>5, <2>9, <4>1, <4>2, Zenon
        <4>4. QED
          BY <4>1, <4>3, Zenon DEF RegdomAgrees
      <3>5. QED
        BY <3>3, <3>4, Zenon
    <2>10. CASE l.kind = "normal"
      <3>1. answer = Before(name, i)
        BY <2>4, <2>10, Zenon
      <3>2. Labels(l) = n - i + 1
        <4>1. Labels(l) = Len(l.name)
          BY <2>5, <2>10, LabelsAre
        <4>2. QED
          BY <1>1, <2>5, <4>1
      <3>3. (Labels(l) < n <=> i > 1) /\ n - Labels(l) = i - 1 /\ Labels(l) <= n
        BY <1>1, <2>5, <3>2
      <3>4. Matches(l, name)
        BY <3>3, <2>5, Zenon DEF Matches
      <3>5. answer = IF Labels(l) < n THEN Suffix(name, n - Labels(l)) ELSE NoDomain
        BY <3>1, <3>3 DEF Before
      <3>6. QED
        BY <2>8, <2>10, <3>4, <3>5, Zenon
    <2>11. QED
      BY <2>5, <2>6, <2>9, <2>10, Zenon
  <1>5. QED
    BY <1>3, <1>4, Zenon

(***************************************************************************)
(* Text of a blob                                                          *)
(***************************************************************************)

\* The lesser and the greater of two numbers.
LEMMA OfTwo ==
  ASSUME NEW a \in Int, NEW b \in Int
  PROVE  /\ a <= b => Min({a, b}) = a /\ Max({a, b}) = b
         /\ b <= a => Min({a, b}) = b /\ Max({a, b}) = a
  <1>1. ASSUME NEW c \in {a, b}, c <= a, c <= b PROVE Min({a, b}) = c
    <2>1. \A y \in {a, b} : c <= y
      BY <1>1
    <2>2. \A x \in {a, b} : (\A y \in {a, b} : x <= y) => x = c
      BY <1>1
    <2>3. QED
      BY <2>1, <2>2, Zenon DEF Min
  <1>2. ASSUME NEW c \in {a, b}, c >= a, c >= b PROVE Max({a, b}) = c
    <2>1. {a, b} \subseteq Int /\ \A y \in {a, b} : y <= c
      BY <1>2
    <2>2. QED
      BY <2>1, MaxIs, Zenon
  <1>3. ASSUME a <= b PROVE Min({a, b}) = a /\ Max({a, b}) = b
    BY <1>1, <1>2, <1>3
  <1>4. ASSUME b <= a PROVE Min({a, b}) = b /\ Max({a, b}) = a
    BY <1>1, <1>2, <1>4
  <1>5. QED
    BY <1>3, <1>4, Zenon

\* Three bytes as one number, and a sextet.
Words == {T \in Nat : T < 2^24}
Six == {x \in Nat : x < 2^6}

LEMMA Powers ==
  /\ 2^24 = 16777216 /\ 2^18 = 262144 /\ 2^16 = 65536 /\ 2^12 = 4096
  /\ 2^8 = 256 /\ 2^6 = 64 /\ 2^0 = 1
  BY SMT

LEMMA Ranges ==
  /\ \A T : T \in Words <=> T \in Int /\ 0 <= T /\ T < 16777216
  /\ \A x : x \in Six <=> x \in Int /\ 0 <= x /\ x < 64
  /\ \A x : x \in Octet <=> x \in Int /\ 0 <= x /\ x < 256
  <1>1. \A T : T \in Words <=> T \in Int /\ 0 <= T /\ T < 16777216
    BY Powers, SMT DEF Words
  <1>2. \A x : x \in Six <=> x \in Int /\ 0 <= x /\ x < 64
    BY Powers, SMT DEF Six
  <1>3. \A x : x \in Octet <=> x \in Int /\ 0 <= x /\ x < 256
    BY Powers, SMT DEF Octet
  <1>4. QED
    BY <1>1, <1>2, <1>3, SMT

LEMMA ZeroByte == 0 \in Octet
  BY Ranges, SMT

\* The sextets of three bytes, and the bytes of four sextets.
LEMMA Sextets ==
  ASSUME NEW T \in Words
  PROVE  /\ (T \div 2^18) % 2^6 \in Six /\ (T \div 2^12) % 2^6 \in Six
         /\ (T \div 2^6) % 2^6 \in Six /\ T % 2^6 \in Six
         /\ ((T \div 2^18) % 2^6) * 2^18 + ((T \div 2^12) % 2^6) * 2^12
              + ((T \div 2^6) % 2^6) * 2^6 + (T % 2^6) = T
         /\ T \div 2^0 = T
  <1>1. T \in Int /\ 0 <= T /\ T < 16777216
    BY Ranges, SMT
  <1>2. ((T \div 262144) % 64) * 262144 + ((T \div 4096) % 64) * 4096
          + ((T \div 64) % 64) * 64 + (T % 64) = T
    BY <1>1, SMT
  <1>3. /\ (T \div 262144) % 64 \in Six /\ (T \div 4096) % 64 \in Six
        /\ (T \div 64) % 64 \in Six /\ T % 64 \in Six
    BY <1>1, Ranges, SMT
  <1>4. T \div 1 = T
    BY <1>1, SMT
  <1>5. QED
    BY <1>1, <1>2, <1>3, <1>4, Powers, SMT

IsWord(T, a, b, c) ==
  /\ T \in Words
  /\ (T \div 2^16) % 2^8 = a /\ (T \div 2^8) % 2^8 = b /\ T % 2^8 = c
  /\ c = 0 => T % 2^6 = 0
  /\ b = 0 /\ c = 0 => (T \div 2^6) % 2^6 = 0

LEMMA Bytes ==
  ASSUME NEW a \in Octet, NEW b \in Octet, NEW c \in Octet
  PROVE  IsWord(a * 2^16 + b * 2^8 + c, a, b, c)
  <1> DEFINE T == a * 2^16 + b * 2^8 + c
  <1>1. /\ a \in Int /\ 0 <= a /\ a < 256 /\ b \in Int /\ 0 <= b /\ b < 256
        /\ c \in Int /\ 0 <= c /\ c < 256
    BY Ranges, SMT
  <1>2. T = a * 65536 + b * 256 + c
    BY <1>1, Powers, SMT
  <1> HIDE DEF T
  <1>3. T \in Words
    BY <1>1, <1>2, Ranges, SMT
  <1>4. (T \div 65536) % 256 = a /\ (T \div 256) % 256 = b /\ T % 256 = c
    BY <1>1, <1>2, SMT
  <1>5. c = 0 => T % 64 = 0
    BY <1>1, <1>2, SMT
  <1>6. b = 0 /\ c = 0 => (T \div 64) % 64 = 0
    BY <1>1, <1>2, SMT
  <1>7. IsWord(T, a, b, c)
    BY <1>3, <1>4, <1>5, <1>6, Powers, SMT DEF IsWord
  <1>8. QED
    BY <1>7, Zenon DEF T

\* The groups of three bytes, and the '=' that fill the last.
LEMMA Groups ==
  ASSUME NEW n \in Nat
  PROVE  LET q == (n + 2) \div 3 IN
         /\ q \in Nat /\ Pads(n) \in 0..2 /\ n = 3 * q - Pads(n)
         /\ EncSize(n) = 4 * q /\ (n >= 1 => q >= 1)
  BY DEF Pads, EncSize

\* A byte of the blob, or 0 after its end.
LEMMA ByteAt ==
  ASSUME NEW src \in Seq(Octet), NEW i
  PROVE  At(src, i) \in Octet /\ (i \in 1..Len(src) => At(src, i) = src[i])
         /\ (i \notin 1..Len(src) => At(src, i) = 0)
  <1>1. DOMAIN src = 1..Len(src) /\ \A j \in DOMAIN src : src[j] \in Octet
    OBVIOUS
  <1>2. QED
    BY <1>1, ZeroByte, Zenon DEF At

\* Three bytes as a number.
LEMMA TripleIs ==
  ASSUME NEW src \in Seq(Octet), NEW k \in Nat
  PROVE  /\ Triple(src, k) \in Words
         /\ (Triple(src, k) \div 2^16) % 2^8 = At(src, 3 * k + 1)
         /\ (Triple(src, k) \div 2^8) % 2^8 = At(src, 3 * k + 2)
         /\ Triple(src, k) % 2^8 = At(src, 3 * k + 3)
         /\ At(src, 3 * k + 3) = 0 => Triple(src, k) % 2^6 = 0
         /\ At(src, 3 * k + 2) = 0 /\ At(src, 3 * k + 3) = 0
              => (Triple(src, k) \div 2^6) % 2^6 = 0
  <1> DEFINE a == At(src, 3 * k + 1)
             b == At(src, 3 * k + 2)
             c == At(src, 3 * k + 3)
             T == Triple(src, k)
  <1>1. a \in Octet /\ b \in Octet /\ c \in Octet
    BY ByteAt, Zenon
  <1>2. T = a * 2^16 + b * 2^8 + c
    BY Zenon DEF Triple
  <1> HIDE DEF a, b, c, T
  <1>3. IsWord(T, a, b, c)
    BY <1>1, <1>2, Bytes, Zenon
  <1>4. QED
    BY <1>3, Zenon DEF IsWord, a, b, c, T

\* The sextet in place r of a group.
Digit(T, r) == Shift(T, 18 - 6 * r) % 2^6

LEMMA Digits ==
  ASSUME NEW T \in Words
  PROVE  /\ Digit(T, 2) = (T \div 2^6) % 2^6 /\ Digit(T, 3) = T % 2^6
         /\ \A r \in 0..3 : Digit(T, r) \in Six
         /\ Digit(T, 0) * 2^18 + Digit(T, 1) * 2^12 + Digit(T, 2) * 2^6 + Digit(T, 3) = T
  <1>1. 18 - 6 * 0 = 18 /\ 18 - 6 * 1 = 12 /\ 18 - 6 * 2 = 6 /\ 18 - 6 * 3 = 0
    OBVIOUS
  <1>2. T \div 2^0 = T
    BY Sextets, Zenon
  <1>3. /\ Digit(T, 0) = (T \div 2^18) % 2^6 /\ Digit(T, 1) = (T \div 2^12) % 2^6
        /\ Digit(T, 2) = (T \div 2^6) % 2^6 /\ Digit(T, 3) = T % 2^6
    BY <1>1, <1>2, Zenon DEF Digit, Shift
  <1>4. \A r \in 0..3 : r = 0 \/ r = 1 \/ r = 2 \/ r = 3
    OBVIOUS
  <1>5. Digit(T, 0) \in Six /\ Digit(T, 1) \in Six /\ Digit(T, 2) \in Six /\ Digit(T, 3) \in Six
    BY <1>3, Sextets, Zenon
  <1>6. \A r \in 0..3 : Digit(T, r) \in Six
    BY <1>4, <1>5, Zenon
  <1>7. Digit(T, 0) * 2^18 + Digit(T, 1) * 2^12 + Digit(T, 2) * 2^6 + Digit(T, 3) = T
    BY <1>3, Sextets, Zenon
  <1>8. QED
    BY <1>3, <1>6, <1>7, Zenon

\* The characters of a text; '=' is none of the sextets.
Chars == Six \cup {Pad}

LEMMA PadIs ==
  Pad \notin Six /\ \A x \in Six : ~ (x >= 64)
  BY Ranges, SMT DEF Pad

\* The text of a blob.
IsText(text, src, q) ==
  /\ text \in Seq(Chars) /\ Len(text) = 4 * q /\ DOMAIN text = 1..(4 * q)
  /\ \A j \in 1..(4 * q) :
       /\ j > 4 * q - Pads(Len(src)) => text[j] = Pad
       /\ ~ (j > 4 * q - Pads(Len(src))) =>
            /\ text[j] = Digit(Triple(src, (j - 1) \div 4), (j - 1) % 4)
            /\ text[j] \in Six

LEMMA TextIs ==
  ASSUME NEW src \in Seq(Octet), NEW q, q = (Len(src) + 2) \div 3
  PROVE  IsText(Encode(src), src, q)
  <1> DEFINE text == Encode(src)
             pads == Pads(Len(src))
             V(j) == IF j > 4 * q - pads THEN Pad
                     ELSE Digit(Triple(src, (j - 1) \div 4), (j - 1) % 4)
  <1>1. q \in Nat /\ EncSize(Len(src)) = 4 * q
    BY Groups
  <1>2. text = [j \in 1..(4 * q) |-> V(j)]
    BY <1>1, Zenon DEF Encode, Digit
  <1> HIDE DEF text, pads
  <1>3. ASSUME NEW j \in 1..(4 * q)
        PROVE  Digit(Triple(src, (j - 1) \div 4), (j - 1) % 4) \in Six
    <2>1. (j - 1) \div 4 \in Nat /\ (j - 1) % 4 \in 0..3
      BY <1>1
    <2>2. Triple(src, (j - 1) \div 4) \in Words
      BY <2>1, TripleIs, Zenon
    <2>3. QED
      BY <2>1, <2>2, Digits, Zenon
  <1>4. \A j \in 1..(4 * q) : V(j) \in Chars
    <2>1. Six \subseteq Chars /\ Pad \in Chars
      BY PadIs, Zenon DEF Chars
    <2>2. QED
      BY <1>3, <2>1, Zenon
  <1>5. text \in [1..(4 * q) -> Chars] /\ DOMAIN text = 1..(4 * q)
    BY <1>2, <1>4, Zenon
  <1>6. text \in Seq(Chars) /\ Len(text) = 4 * q
    BY <1>1, <1>5
  <1>7. \A j \in 1..(4 * q) : text[j] = V(j)
    BY <1>2, Zenon
  <1>8. QED
    BY <1>3, <1>5, <1>6, <1>7, Zenon DEF IsText, text, pads

\* base64_decode counts the '=' that base64_encode wrote.
LEMMA PaddingIs ==
  ASSUME NEW src \in Seq(Octet), Len(src) >= 1, NEW q, q = (Len(src) + 2) \div 3,
         NEW text, IsText(text, src, q)
  PROVE  Padding(text) = Pads(Len(src)) /\ DecSize(text) = Len(src) /\ Kept(text) = 4 * q
  <1> DEFINE p == Pads(Len(src))
             end == 4 * q - p
             S == {0} \cup {i \in DOMAIN text : text[i] # Pad}
  <1>1. Len(src) \in Nat
    OBVIOUS
  <1>2. q \in Nat /\ q >= 1 /\ p \in 0..2 /\ Len(src) = 3 * q - p
    BY <1>1, Groups
  <1>3. Len(text) = 4 * q /\ DOMAIN text = 1..(4 * q)
    BY Zenon DEF IsText
  <1> HIDE DEF p
  <1>4. end \in 1..(4 * q) /\ ~ (end > 4 * q - p) /\ end \in Int
    BY <1>2
  <1>5. end \in S
    <2>1. text[end] \in Six
      BY <1>4, Zenon DEF IsText, p
    <2>2. text[end] # Pad
      BY <2>1, PadIs, Zenon
    <2>3. QED
      BY <1>3, <1>4, <2>2, Zenon
  <1>6. \A y \in S : y \in Int /\ y <= end
    <2>1. ASSUME NEW y \in DOMAIN text, text[y] # Pad PROVE y \in Int /\ y <= end
      <3>1. ~ (y > 4 * q - p)
        BY <1>3, <2>1, Zenon DEF IsText, p
      <3>2. QED
        BY <1>2, <1>3, <3>1
    <2>2. QED
      BY <1>4, <2>1
  <1>7. Max(S) = end
    <2>1. S \subseteq Int /\ \A y \in S : y <= end
      BY <1>6, Zenon
    <2>2. QED
      BY <1>5, <2>1, MaxIs, Zenon
  <1>8. Padding(text) = p
    <2>1. Padding(text) = 4 * q - end
      BY <1>3, <1>7, Zenon DEF Padding
    <2>2. QED
      BY <1>2, <2>1
  <1>9. Min({p, 2}) = p /\ Max({0, p - 2}) = 0
    <2>1. p \in Int /\ p <= 2 /\ p - 2 \in Int /\ p - 2 <= 0 /\ 0 \in Int /\ 2 \in Int
      BY <1>2
    <2>2. QED
      BY <2>1, OfTwo, Zenon
  <1>10. DecSize(text) = Len(src)
    <2>1. DecSize(text) = ((4 * q) \div 4) * 3 - p
      BY <1>3, <1>8, <1>9, Zenon DEF DecSize
    <2>2. QED
      BY <1>2, <2>1
  <1>11. Kept(text) = 4 * q
    <2>1. Kept(text) = 4 * q - 0
      BY <1>3, <1>8, <1>9, Zenon DEF Kept
    <2>2. QED
      BY <1>2, <2>1
  <1>12. QED
    BY <1>8, <1>10, <1>11, Zenon DEF p

\* base64_decode finds every sextet, also the ones that '=' stands for: they are 0.
LEMMA SextetIs ==
  ASSUME NEW src \in Seq(Octet), Len(src) >= 1, NEW q, q = (Len(src) + 2) \div 3,
         NEW text, IsText(text, src, q), Kept(text) = 4 * q, NEW i \in 1..(4 * q)
  PROVE  Sextet(text, i) = Digit(Triple(src, (i - 1) \div 4), (i - 1) % 4)
  <1> DEFINE p == Pads(Len(src))
             k == (i - 1) \div 4
             r == (i - 1) % 4
             T == Triple(src, k)
  <1>1. Len(src) \in Nat
    OBVIOUS
  <1>2. q \in Nat /\ q >= 1 /\ p \in 0..2 /\ Len(src) = 3 * q - p
    BY <1>1, Groups
  <1>3. k \in Nat /\ r \in 0..3
    BY <1>2
  <1>4. CASE ~ (i > 4 * q - p)
    <2>1. text[i] = Digit(T, r) /\ text[i] \in Six
      BY <1>4, Zenon DEF IsText
    <2>2. text[i] # Pad
      BY <2>1, PadIs, Zenon
    <2>3. QED
      BY <2>1, <2>2, Zenon DEF Sextet, Zero
  <1>5. CASE i > 4 * q - p
    <2> HIDE DEF p, k, r, T
    <2>1. ASSUME NEW j \in i..(4 * q) PROVE j > 4 * q - 2 /\ text[j] = Pad
      <3>1. j \in 1..(4 * q) /\ j > 4 * q - p /\ j > 4 * q - 2
        BY <1>2, <1>5, <2>1
      <3>2. QED
        BY <3>1, Zenon DEF IsText, p
    <2>2. i \in i..(4 * q)
      BY <1>2
    <2>3. Sextet(text, i) = 0
      BY <2>1, <2>2, Zenon DEF Sextet, Zero
    <2>4. /\ k = q - 1
          /\ 3 * k + 3 \notin 1..Len(src)
          /\ r = 3 \/ (r = 2 /\ 3 * k + 2 \notin 1..Len(src))
      BY <1>2, <1>5 DEF k, r
    <2>5. At(src, 3 * k + 3) = 0
      BY <2>4, ByteAt, Zenon
    <2>6. /\ T \in Words
          /\ At(src, 3 * k + 3) = 0 => T % 2^6 = 0
          /\ At(src, 3 * k + 2) = 0 /\ At(src, 3 * k + 3) = 0 => (T \div 2^6) % 2^6 = 0
      BY <1>3, TripleIs, Zenon DEF T
    <2>7. CASE r = 3
      BY <2>3, <2>5, <2>6, <2>7, Digits, Zenon DEF k, r, T
    <2>8. CASE r = 2 /\ 3 * k + 2 \notin 1..Len(src)
      <3>1. At(src, 3 * k + 2) = 0
        BY <2>8, ByteAt, Zenon
      <3>2. QED
        BY <2>3, <2>5, <2>6, <2>8, <3>1, Digits, Zenon DEF k, r, T
    <2>9. QED
      BY <2>4, <2>7, <2>8, Zenon
  <1>6. QED
    BY <1>4, <1>5, Zenon

\* Four sextets are the three bytes they were made of.
LEMMA QuadIs ==
  ASSUME NEW src \in Seq(Octet), Len(src) >= 1, NEW q, q = (Len(src) + 2) \div 3,
         NEW text, IsText(text, src, q), Kept(text) = 4 * q, NEW k \in 0..(q - 1)
  PROVE  Quad(text, k) = Triple(src, k)
  <1> DEFINE T == Triple(src, k)
  <1>1. Len(src) \in Nat
    OBVIOUS
  <1>2. q \in Nat /\ k \in Nat
    BY <1>1, Groups
  <1>3. /\ 4 * k + 1 \in 1..(4 * q) /\ ((4 * k + 1) - 1) \div 4 = k /\ ((4 * k + 1) - 1) % 4 = 0
        /\ 4 * k + 2 \in 1..(4 * q) /\ ((4 * k + 2) - 1) \div 4 = k /\ ((4 * k + 2) - 1) % 4 = 1
        /\ 4 * k + 3 \in 1..(4 * q) /\ ((4 * k + 3) - 1) \div 4 = k /\ ((4 * k + 3) - 1) % 4 = 2
        /\ 4 * k + 4 \in 1..(4 * q) /\ ((4 * k + 4) - 1) \div 4 = k /\ ((4 * k + 4) - 1) % 4 = 3
    BY <1>2
  <1>4. \A i \in 1..(4 * q) : Sextet(text, i) = Digit(Triple(src, (i - 1) \div 4), (i - 1) % 4)
    BY SextetIs, Zenon
  <1>5. Sextet(text, 4 * k + 1) = Digit(T, 0) /\ Sextet(text, 4 * k + 2) = Digit(T, 1)
    <2>1. Sextet(text, 4 * k + 1) = Digit(T, 0)
      BY <1>3, <1>4, Zenon
    <2>2. Sextet(text, 4 * k + 2) = Digit(T, 1)
      BY <1>3, <1>4, Zenon
    <2>3. QED
      BY <2>1, <2>2, Zenon
  <1>6. Sextet(text, 4 * k + 3) = Digit(T, 2) /\ Sextet(text, 4 * k + 4) = Digit(T, 3)
    <2>1. Sextet(text, 4 * k + 3) = Digit(T, 2)
      BY <1>3, <1>4, Zenon
    <2>2. Sextet(text, 4 * k + 4) = Digit(T, 3)
      BY <1>3, <1>4, Zenon
    <2>3. QED
      BY <2>1, <2>2, Zenon
  <1>7. T \in Words
    BY <1>2, TripleIs, Zenon
  <1>8. Quad(text, k)
          = Digit(T, 0) * 2^18 + Digit(T, 1) * 2^12 + Digit(T, 2) * 2^6 + Digit(T, 3)
    BY <1>5, <1>6, Zenon DEF Quad
  <1> HIDE DEF T
  <1>9. Quad(text, k) = T
    BY <1>7, <1>8, Digits, Zenon
  <1>10. QED
    BY <1>9, Zenon DEF T

\* A byte of the blob, from the group it is in.
LEMMA ByteBack ==
  ASSUME NEW src \in Seq(Octet), NEW j \in 1..Len(src)
  PROVE  Shift(Triple(src, (j - 1) \div 3), 16 - 8 * ((j - 1) % 3)) % 2^8 = src[j]
  <1> DEFINE k == (j - 1) \div 3
             r == (j - 1) % 3
             T == Triple(src, k)
  <1>1. Len(src) \in Nat
    OBVIOUS
  <1>2. k \in Nat /\ (r = 0 \/ r = 1 \/ r = 2) /\ j = 3 * k + r + 1
    BY <1>1
  <1> HIDE DEF k, r
  <1>3. /\ T \in Words
        /\ (T \div 2^16) % 2^8 = At(src, 3 * k + 1)
        /\ (T \div 2^8) % 2^8 = At(src, 3 * k + 2)
        /\ T % 2^8 = At(src, 3 * k + 3)
    <2>1. T \in Words
      BY <1>2, TripleIs, Zenon
    <2>2. QED
      BY <1>2, <2>1, TripleIs, Zenon
  <1> HIDE DEF T
  <1>4. At(src, j) = src[j]
    BY ByteAt, Zenon
  <1>5. 16 - 8 * 0 = 16 /\ 16 - 8 * 1 = 8 /\ 16 - 8 * 2 = 0
    OBVIOUS
  <1>6. Shift(T, 16) = T \div 2^16 /\ Shift(T, 8) = T \div 2^8 /\ Shift(T, 0) = T
    <2>1. T \div 2^0 = T
      BY <1>3, Sextets, Zenon
    <2>2. QED
      BY <2>1, Zenon DEF Shift
  <1>7. CASE r = 0
    <2>1. j = 3 * k + 1
      BY <1>2, <1>7
    <2>2. QED
      BY <1>3, <1>4, <1>5, <1>6, <1>7, <2>1, Zenon DEF k, r, T
  <1>8. CASE r = 1
    <2>1. j = 3 * k + 2
      BY <1>2, <1>8
    <2>2. QED
      BY <1>3, <1>4, <1>5, <1>6, <1>8, <2>1, Zenon DEF k, r, T
  <1>9. CASE r = 2
    <2>1. j = 3 * k + 3
      BY <1>2, <1>9
    <2>2. QED
      BY <1>3, <1>4, <1>5, <1>6, <1>9, <2>1, Zenon DEF k, r, T
  <1>10. QED
    BY <1>2, <1>7, <1>8, <1>9, Zenon

\* A blob of any length that blob_dump wrote as text is read back by blob_scan as it was.
THEOREM BlobsRoundTrip ==
  ASSUME NEW src \in Seq(Octet)
  PROVE  Decode(Encode(src)).len = Len(src) /\ Scanned(Decode(Encode(src))) = src
  <1> DEFINE text == Encode(src)
             n == Len(src)
             q == (n + 2) \div 3
             d == Decode(text)
  <1> SUFFICES d.len = n /\ Scanned(d) = src
    OBVIOUS
  <1>1. n \in Nat /\ DOMAIN src = 1..n
    OBVIOUS
  <1>2. IsText(text, src, q)
    BY TextIs, Zenon
  <1>3. CASE n = 0
    <2>1. src = <<>> /\ q = 0
      BY <1>1, <1>3
    <2>2. text = <<>>
      <3>1. text \in Seq(Chars) /\ Len(text) = 4 * 0
        BY <1>2, <2>1, Zenon DEF IsText
      <3> HIDE DEF text
      <3>2. QED
        BY <3>1
    <2>3. d = [len |-> 0, bytes |-> <<>>]
      BY <2>2, Zenon DEF Decode, Decoded
    <2> HIDE DEF d
    <2>4. d.len = 0 /\ d.bytes = <<>>
      BY <2>3
    <2>5. Scanned(d) = <<>>
      BY <2>4 DEF Scanned
    <2>6. QED
      BY <1>3, <2>1, <2>4, <2>5, Zenon
  <1>4. CASE n >= 1
    <2> HIDE DEF text
    <2>1. DecSize(text) = n /\ Kept(text) = 4 * q
      BY <1>2, <1>4, PaddingIs, Zenon
    <2>2. q \in Nat /\ q >= 1 /\ n <= 3 * q
      <3>1. q \in Nat /\ Pads(n) \in 0..2 /\ n = 3 * q - Pads(n)
        BY <1>1, Groups, Zenon
      <3> HIDE DEF n, q
      <3>2. QED
        BY <1>4, <3>1
    <2>3. text # <<>>
      <3>1. Len(text) = 4 * q
        BY <1>2, Zenon DEF IsText
      <3>2. QED
        BY <2>2, <3>1
    <2>4. ASSUME NEW i \in 1..(4 * q) PROVE ~ (Sextet(text, i) >= 64)
      <3>1. (i - 1) \div 4 \in Nat /\ (i - 1) % 4 \in 0..3
        BY <2>2
      <3>2. Triple(src, (i - 1) \div 4) \in Words
        BY <3>1, TripleIs, Zenon
      <3>3. Sextet(text, i) \in Six
        <4>1. Sextet(text, i) = Digit(Triple(src, (i - 1) \div 4), (i - 1) % 4)
          BY <1>2, <1>4, <2>1, SextetIs, Zenon
        <4>2. QED
          BY <3>1, <3>2, <4>1, Digits, Zenon
      <3>4. QED
        BY <3>3, PadIs, Zenon
    <2> DEFINE written == Min({n + 1, ((4 * q) \div 4) * 3})
               bytes == [j \in 1..written |->
                           Shift(Quad(text, (j - 1) \div 3), 16 - 8 * ((j - 1) % 3)) % 2^8]
    <2>5. (4 * q) % 4 = 0
      BY <2>2
    <2>6. d = [len |-> n, bytes |-> bytes]
      BY <2>1, <2>3, <2>4, <2>5, Zenon DEF Decode, Decoded
    <2>7. written \in Nat /\ n <= written
      <3>1. n + 1 \in Int /\ ((4 * q) \div 4) * 3 \in Int /\ ((4 * q) \div 4) * 3 = 3 * q
        BY <1>1, <2>2
      <3>2. CASE n + 1 <= 3 * q
        <4>1. written = n + 1
          BY <3>1, <3>2, OfTwo, Zenon
        <4>2. QED
          BY <1>1, <4>1
      <3>3. CASE 3 * q <= n + 1
        <4>1. written = 3 * q
          BY <3>1, <3>3, OfTwo, Zenon
        <4>2. QED
          BY <2>2, <4>1
      <3>4. QED
        BY <1>1, <2>2, <3>2, <3>3
    <2> HIDE DEF d, written, q, n
    <2>8. d.len = n /\ d.bytes = bytes
      BY <2>6
    <2>9. ASSUME NEW j \in 1..n PROVE bytes[j] = src[j]
      <3>1. j \in 1..written /\ (j - 1) \div 3 \in 0..(q - 1)
        BY <1>1, <2>2, <2>7
      <3>2. bytes[j] = Shift(Quad(text, (j - 1) \div 3), 16 - 8 * ((j - 1) % 3)) % 2^8
        BY <3>1, Zenon
      <3>3. Quad(text, (j - 1) \div 3) = Triple(src, (j - 1) \div 3)
        BY <1>2, <1>4, <2>1, <3>1, QuadIs, Zenon DEF q, n
      <3>4. QED
        BY <3>2, <3>3, ByteBack, Zenon DEF n
    <2>10. DOMAIN bytes = 1..written
      OBVIOUS
    <2> HIDE DEF bytes
    <2>11. SubSeq(bytes, 1, n) = [j \in 1..n |-> bytes[j]]
      BY <1>1
    <2>12. [j \in 1..n |-> bytes[j]] = [j \in 1..n |-> src[j]]
      BY <2>9, Zenon
    <2>13. src = [j \in 1..n |-> src[j]]
      BY <1>1
    <2>14. Scanned(d) = src
      BY <2>8, <2>11, <2>12, <2>13, Zenon DEF Scanned
    <2>15. QED
      BY <2>8, <2>14, Zenon DEF n
  <1>5. QED
    BY <1>1, <1>3, <1>4

\* The greatest of some places of a text.
LEMMA GreatestOf ==
  ASSUME NEW n \in Nat, NEW S, S \subseteq 0..n, 0 \in S
  PROVE  Max(S) \in 0..n
  <1> DEFINE back == {k \in Nat : n - k \in S}
             m == n - Min(back)
  <1>1. back \subseteq Nat /\ back # {}
    <2>1. n \in Nat /\ n - n \in S
      OBVIOUS
    <2>2. QED
      BY <2>1, Zenon
  <1>2. Min(back) \in back /\ \A k \in back : Min(back) <= k
    BY <1>1, LeastOf, Zenon
  <1>3. Min(back) \in Nat /\ m \in S
    BY <1>2
  <1>4. ASSUME NEW y \in S PROVE y <= m
    <2>1. y \in 0..n /\ n - y \in Nat /\ n - (n - y) = y
      OBVIOUS
    <2>2. n - y \in back
      BY <2>1, Zenon
    <2>3. Min(back) <= n - y
      BY <1>2, <2>2, Zenon
    <2> HIDE DEF back
    <2>4. QED
      BY <1>3, <2>1, <2>3
  <1>5. S \subseteq Int
    OBVIOUS
  <1>6. Max(S) = m
    BY <1>3, <1>4, <1>5, MaxIs, Zenon
  <1>7. QED
    BY <1>3, <1>6, Zenon

\* Whatever the text, the bytes that base64_decode says it decoded have been written,
\* unless more than two '=' end the text.
THEOREM DecodesAreWritten ==
  ASSUME NEW C, NEW s \in Seq(C), Padding(s) <= 2
  PROVE  Decode(s).len <= Len(Decode(s).bytes)
  <1> DEFINE n == Len(s)
             p == Padding(s)
             d == Decode(s)
             places == {0} \cup {i \in DOMAIN s : s[i] # Pad}
  <1>1. n \in Nat /\ DOMAIN s = 1..n
    OBVIOUS
  <1>2. p \in Nat /\ p <= n
    <2>1. places \subseteq 0..n /\ 0 \in places
      BY <1>1
    <2>2. Max(places) \in 0..n
      BY <1>1, <2>1, GreatestOf, Zenon
    <2>3. p = n - Max(places)
      BY Zenon DEF Padding
    <2> HIDE DEF p, places
    <2>4. QED
      BY <1>1, <2>2, <2>3
  <1> HIDE DEF p, n
  <1>3. p <= 2 /\ Min({p, 2}) = p /\ Max({0, p - 2}) = 0
    <2>1. p <= 2
      BY Zenon DEF p
    <2>2. p \in Int /\ p <= 2 /\ p - 2 \in Int /\ p - 2 <= 0 /\ 0 \in Int /\ 2 \in Int
      BY <1>2, <2>1
    <2>3. QED
      BY <2>1, <2>2, OfTwo, Zenon
  <1>4. DecSize(s) = (n \div 4) * 3 - p /\ Kept(s) = n
    <2>1. DecSize(s) = (n \div 4) * 3 - p /\ Kept(s) = n - 0
      BY <1>3, Zenon DEF DecSize, Kept, p, n
    <2>2. QED
      BY <1>1, <2>1
  <1>5. ASSUME d.len = 0 \/ d.len = -1, d.bytes = <<>> PROVE d.len <= Len(d.bytes)
    <2>1. Len(<<>>) = 0
      OBVIOUS
    <2> HIDE DEF d
    <2>2. QED
      BY <1>5, <2>1
  <1>6. CASE s = <<>>
    <2>1. d = [len |-> 0, bytes |-> <<>>]
      BY <1>6, Zenon DEF Decode, Decoded
    <2> HIDE DEF d
    <2>2. QED
      BY <2>1, <1>5 DEF d
  <1>7. CASE s # <<>> /\ (Kept(s) % 4 # 0 \/ \E i \in 1..Kept(s) : Sextet(s, i) >= 64)
    <2>1. d = [len |-> -1, bytes |-> <<>>]
      BY <1>7, Zenon DEF Decode, Decoded, Failed
    <2> HIDE DEF d
    <2>2. QED
      BY <2>1, <1>5 DEF d
  <1>8. CASE s # <<>> /\ Kept(s) % 4 = 0 /\ ~ \E i \in 1..Kept(s) : Sextet(s, i) >= 64
    <2> DEFINE written == Min({DecSize(s) + 1, (Kept(s) \div 4) * 3})
               bytes == [j \in 1..written |->
                           Shift(Quad(s, (j - 1) \div 3), 16 - 8 * ((j - 1) % 3)) % 2^8]
    <2>1. d = [len |-> DecSize(s), bytes |-> bytes]
      BY <1>8, Zenon DEF Decode, Decoded
    <2>2. n >= 4 /\ n % 4 = 0
      <3>1. n # 0
        BY <1>1, <1>8 DEF n
      <3>2. n % 4 = 0
        BY <1>4, <1>8, Zenon
      <3>3. QED
        BY <1>1, <3>1, <3>2
    <2>3. /\ DecSize(s) + 1 \in Int /\ (Kept(s) \div 4) * 3 \in Int /\ DecSize(s) \in Nat
          /\ DecSize(s) <= (Kept(s) \div 4) * 3
      BY <1>1, <1>2, <1>3, <1>4, <2>2
    <2>4. written \in Nat /\ DecSize(s) <= written
      <3> DEFINE size == DecSize(s) + 1
                 whole == (Kept(s) \div 4) * 3
      <3>1. size \in Int /\ whole \in Int
        BY <2>3, Zenon
      <3> HIDE DEF size, whole
      <3>2. (size <= whole => Min({size, whole}) = size) /\ (whole <= size => Min({size, whole}) = whole)
        BY <3>1, OfTwo, Zenon
      <3>3. written = size \/ written = whole
        <4>1. size <= whole \/ whole <= size
          BY <3>1
        <4>2. QED
          BY <3>2, <4>1, Zenon DEF size, whole
      <3> HIDE DEF written
      <3>4. QED
        BY <2>3, <3>3 DEF size, whole
    <2> HIDE DEF d, written
    <2>5. d.len = DecSize(s) /\ d.bytes = bytes
      BY <2>1
    <2>6. Len(bytes) = written
      BY <2>4
    <2> HIDE DEF bytes
    <2>7. QED
      BY <2>4, <2>5, <2>6 DEF d
  <1>9. QED
    BY <1>6, <1>7, <1>8, Zenon

(***************************************************************************)
(* IPv6 prefixes                                                           *)
(***************************************************************************)

\* A byte of eight bits, its bit t from the left, and what util_addr_prefix leaves of it
\* when l host bits are to go, counted from the right end of the byte.
Small(x) == x \in Int /\ 0 <= x /\ x < 256
BitOf(x, t) == (x \div 2^(7 - t)) % 2
ClearByte(x, l) == IF l <= 0 THEN x ELSE IF l > 8 THEN 0 ELSE x - (x % 2^l)

\* The first h bits of two bytes are the same.
Agree(x, y, h) == \A t \in 0..7 : t < h => BitOf(x, t) = BitOf(y, t)

LEMMA PowersOfByte ==
  /\ 2^0 = 1 /\ 2^1 = 2 /\ 2^2 = 4 /\ 2^3 = 8 /\ 2^4 = 16 /\ 2^5 = 32 /\ 2^6 = 64
  /\ 2^7 = 128 /\ 2^8 = 256
  BY SMT

LEMMA BitsAre ==
  ASSUME NEW x \in Int
  PROVE  /\ BitOf(x, 0) = (x \div 128) % 2 /\ BitOf(x, 1) = (x \div 64) % 2
         /\ BitOf(x, 2) = (x \div 32) % 2 /\ BitOf(x, 3) = (x \div 16) % 2
         /\ BitOf(x, 4) = (x \div 8) % 2 /\ BitOf(x, 5) = (x \div 4) % 2
         /\ BitOf(x, 6) = (x \div 2) % 2 /\ BitOf(x, 7) = x % 2
  <1>1. x \div 1 = x
    BY SMT
  <1>2. BitOf(x, 0) = (x \div 128) % 2
    BY SMT DEF BitOf
  <1>3. BitOf(x, 1) = (x \div 64) % 2
    BY SMT DEF BitOf
  <1>4. BitOf(x, 2) = (x \div 32) % 2
    BY SMT DEF BitOf
  <1>5. BitOf(x, 3) = (x \div 16) % 2
    BY SMT DEF BitOf
  <1>6. BitOf(x, 4) = (x \div 8) % 2
    BY SMT DEF BitOf
  <1>7. BitOf(x, 5) = (x \div 4) % 2
    BY SMT DEF BitOf
  <1>8. BitOf(x, 6) = (x \div 2) % 2
    BY SMT DEF BitOf
  <1>9. BitOf(x, 7) = x % 2
    BY <1>1, SMT DEF BitOf
  <1>10. QED
    BY <1>2, <1>3, <1>4, <1>5, <1>6, <1>7, <1>8, <1>9, Zenon

LEMMA OctetIs == \A x \in Octet : Small(x)
  BY PowersOfByte, SMT DEF Octet, Small

\* Agreement on the first bits, bit by bit.
Same(x, y, h) ==
  /\ 0 < h => (x \div 128) % 2 = (y \div 128) % 2
  /\ 1 < h => (x \div 64) % 2 = (y \div 64) % 2
  /\ 2 < h => (x \div 32) % 2 = (y \div 32) % 2
  /\ 3 < h => (x \div 16) % 2 = (y \div 16) % 2
  /\ 4 < h => (x \div 8) % 2 = (y \div 8) % 2
  /\ 5 < h => (x \div 4) % 2 = (y \div 4) % 2
  /\ 6 < h => (x \div 2) % 2 = (y \div 2) % 2
  /\ 7 < h => x % 2 = y % 2

LEMMA AgreeIs ==
  ASSUME NEW x \in Int, NEW y \in Int, NEW h \in Int
  PROVE  Agree(x, y, h) <=> Same(x, y, h)
  <1>1. 0..7 = {0, 1, 2, 3, 4, 5, 6, 7}
    OBVIOUS
  <1>2. Agree(x, y, h) <=>
          /\ 0 < h => BitOf(x, 0) = BitOf(y, 0)
          /\ 1 < h => BitOf(x, 1) = BitOf(y, 1)
          /\ 2 < h => BitOf(x, 2) = BitOf(y, 2)
          /\ 3 < h => BitOf(x, 3) = BitOf(y, 3)
          /\ 4 < h => BitOf(x, 4) = BitOf(y, 4)
          /\ 5 < h => BitOf(x, 5) = BitOf(y, 5)
          /\ 6 < h => BitOf(x, 6) = BitOf(y, 6)
          /\ 7 < h => BitOf(x, 7) = BitOf(y, 7)
    BY <1>1, Zenon DEF Agree
  <1>3. QED
    <2>1. /\ BitOf(x, 0) = (x \div 128) % 2 /\ BitOf(x, 1) = (x \div 64) % 2
          /\ BitOf(x, 2) = (x \div 32) % 2 /\ BitOf(x, 3) = (x \div 16) % 2
          /\ BitOf(x, 4) = (x \div 8) % 2 /\ BitOf(x, 5) = (x \div 4) % 2
          /\ BitOf(x, 6) = (x \div 2) % 2 /\ BitOf(x, 7) = x % 2
      BY BitsAre, Zenon
    <2>2. /\ BitOf(y, 0) = (y \div 128) % 2 /\ BitOf(y, 1) = (y \div 64) % 2
          /\ BitOf(y, 2) = (y \div 32) % 2 /\ BitOf(y, 3) = (y \div 16) % 2
          /\ BitOf(y, 4) = (y \div 8) % 2 /\ BitOf(y, 5) = (y \div 4) % 2
          /\ BitOf(y, 6) = (y \div 2) % 2 /\ BitOf(y, 7) = y % 2
      BY BitsAre, Zenon
    <2>3. QED
      BY <1>2, <2>1, <2>2 DEF Same

\* Two bytes without their last l bits are the same exactly when their first bits are.
LEMMA HighBits ==
  ASSUME NEW x \in Int, NEW y \in Int, 0 <= x, x < 256, 0 <= y, y < 256
  PROVE  /\ x = y <=> Same(x, y, 8)
         /\ x - (x % 2) = y - (y % 2) <=> Same(x, y, 7)
         /\ x - (x % 4) = y - (y % 4) <=> Same(x, y, 6)
         /\ x - (x % 8) = y - (y % 8) <=> Same(x, y, 5)
         /\ x - (x % 16) = y - (y % 16) <=> Same(x, y, 4)
         /\ x - (x % 32) = y - (y % 32) <=> Same(x, y, 3)
         /\ x - (x % 64) = y - (y % 64) <=> Same(x, y, 2)
         /\ x - (x % 128) = y - (y % 128) <=> Same(x, y, 1)
         /\ x - (x % 256) = y - (y % 256) <=> Same(x, y, 0)
  <1> DEFINE E0 == x = y
             E1 == x - (x % 2) = y - (y % 2)
             E2 == x - (x % 4) = y - (y % 4)
             E3 == x - (x % 8) = y - (y % 8)
             E4 == x - (x % 16) = y - (y % 16)
             E5 == x - (x % 32) = y - (y % 32)
             E6 == x - (x % 64) = y - (y % 64)
             E7 == x - (x % 128) = y - (y % 128)
             E8 == x - (x % 256) = y - (y % 256)
             B0 == (x \div 128) % 2 = (y \div 128) % 2
             B1 == (x \div 64) % 2 = (y \div 64) % 2
             B2 == (x \div 32) % 2 = (y \div 32) % 2
             B3 == (x \div 16) % 2 = (y \div 16) % 2
             B4 == (x \div 8) % 2 = (y \div 8) % 2
             B5 == (x \div 4) % 2 = (y \div 4) % 2
             B6 == (x \div 2) % 2 = (y \div 2) % 2
             B7 == x % 2 = y % 2
  <1>1. E8
    BY SMT
  <1>2. E7 <=> E8 /\ B0
    BY SMT
  <1>3. E6 <=> E7 /\ B1
    BY SMT
  <1>4. E5 <=> E6 /\ B2
    BY SMT
  <1>5. E4 <=> E5 /\ B3
    BY SMT
  <1>6. E3 <=> E4 /\ B4
    BY SMT
  <1>7. E2 <=> E3 /\ B5
    BY SMT
  <1>8. E1 <=> E2 /\ B6
    BY SMT
  <1>9. E0 <=> E1 /\ B7
    BY SMT
  <1>10. \A h : Same(x, y, h) <=>
          /\ 0 < h => B0
          /\ 1 < h => B1
          /\ 2 < h => B2
          /\ 3 < h => B3
          /\ 4 < h => B4
          /\ 5 < h => B5
          /\ 6 < h => B6
          /\ 7 < h => B7
    BY Zenon DEF Same
  <1> HIDE DEF E0, E1, E2, E3, E4, E5, E6, E7, E8, B0, B1, B2, B3, B4, B5, B6, B7
  <1>11. E8 <=> Same(x, y, 0)
    BY <1>1, <1>10
  <1>12. E7 <=> Same(x, y, 1)
    BY <1>1, <1>2, <1>10
  <1>13. E6 <=> Same(x, y, 2)
    BY <1>1, <1>2, <1>3, <1>10
  <1>14. E5 <=> Same(x, y, 3)
    BY <1>1, <1>2, <1>3, <1>4, <1>10
  <1>15. E4 <=> Same(x, y, 4)
    BY <1>1, <1>2, <1>3, <1>4, <1>5, <1>10
  <1>16. E3 <=> Same(x, y, 5)
    BY <1>1, <1>2, <1>3, <1>4, <1>5, <1>6, <1>10
  <1>17. E2 <=> Same(x, y, 6)
    BY <1>1, <1>2, <1>3, <1>4, <1>5, <1>6, <1>7, <1>10
  <1>18. E1 <=> Same(x, y, 7)
    BY <1>1, <1>2, <1>3, <1>4, <1>5, <1>6, <1>7, <1>8, <1>10
  <1>19. E0 <=> Same(x, y, 8)
    BY <1>1, <1>2, <1>3, <1>4, <1>5, <1>6, <1>7, <1>8, <1>9, <1>10
  <1>20. QED
    BY <1>11, <1>12, <1>13, <1>14, <1>15, <1>16, <1>17, <1>18, <1>19, Zenon
    DEF E0, E1, E2, E3, E4, E5, E6, E7, E8

\* What is left of two bytes is the same exactly when their other bits are, and what is
\* left of a byte agrees with it.
KeptByte(x, y, z, w, h) == (z = w <=> Agree(x, y, h)) /\ Agree(z, x, h)

LEMMA ClearByteKeeps ==
  ASSUME NEW x, NEW y, Small(x), Small(y), NEW l \in Int
  PROVE  KeptByte(x, y, ClearByte(x, l), ClearByte(y, l), 8 - l)
  <1> DEFINE z == ClearByte(x, l)
             w == ClearByte(y, l)
             G == (z = w <=> Agree(x, y, 8 - l)) /\ Agree(z, x, 8 - l)
  <1>1. /\ x \in Int /\ 0 <= x /\ x < 256
        /\ y \in Int /\ 0 <= y /\ y < 256 /\ 8 - l \in Int
    BY DEF Small
  <1> SUFFICES G
    BY Zenon DEF KeptByte
  <1> HIDE DEF z, w
  <1>2. CASE l <= 0
    <2>1. z = x /\ w = y
      BY <1>2 DEF z, w, ClearByte
    <2>2. \A t \in 0..7 : t < 8 - l /\ t < 8
      BY <1>2
    <2>3. Agree(x, y, 8 - l) <=> Agree(x, y, 8)
      BY <2>2, Zenon DEF Agree
    <2>4. x = y <=> Agree(x, y, 8)
      BY <1>1, HighBits, AgreeIs
    <2>5. Agree(x, x, 8 - l)
      BY Zenon DEF Agree
    <2>6. QED
      BY <2>1, <2>3, <2>4, <2>5, Zenon
  <1>3. CASE l > 8
    <2>1. z = 0 /\ w = 0
      BY <1>3 DEF z, w, ClearByte
    <2>2. \A t \in 0..7 : ~ (t < 8 - l)
      BY <1>3
    <2>3. Agree(x, y, 8 - l) /\ Agree(z, x, 8 - l)
      BY <2>2, Zenon DEF Agree
    <2>4. QED
      BY <2>1, <2>3, Zenon
  <1>4. CASE l = 1
    <2>1. z = x - (x % 2) /\ w = y - (y % 2) /\ 8 - l = 7
      BY <1>4, PowersOfByte DEF z, w, ClearByte
    <2>2. z \in Int /\ 0 <= z /\ z < 256
      BY <1>1, <2>1, SMT
    <2>3. z = w <=> Agree(x, y, 7)
      BY <1>1, <2>1, HighBits, AgreeIs
    <2>4. Agree(z, x, 7)
      <3>1. z - (z % 2) = x - (x % 2)
        BY <1>1, <2>1, SMT
      <3>2. QED
        BY <1>1, <2>2, <3>1, HighBits, AgreeIs
    <2>5. QED
      BY <2>1, <2>3, <2>4, Zenon
  <1>5. CASE l = 2
    <2>1. z = x - (x % 4) /\ w = y - (y % 4) /\ 8 - l = 6
      BY <1>5, PowersOfByte DEF z, w, ClearByte
    <2>2. z \in Int /\ 0 <= z /\ z < 256
      BY <1>1, <2>1, SMT
    <2>3. z = w <=> Agree(x, y, 6)
      BY <1>1, <2>1, HighBits, AgreeIs
    <2>4. Agree(z, x, 6)
      <3>1. z - (z % 4) = x - (x % 4)
        BY <1>1, <2>1, SMT
      <3>2. QED
        BY <1>1, <2>2, <3>1, HighBits, AgreeIs
    <2>5. QED
      BY <2>1, <2>3, <2>4, Zenon
  <1>6. CASE l = 3
    <2>1. z = x - (x % 8) /\ w = y - (y % 8) /\ 8 - l = 5
      BY <1>6, PowersOfByte DEF z, w, ClearByte
    <2>2. z \in Int /\ 0 <= z /\ z < 256
      BY <1>1, <2>1, SMT
    <2>3. z = w <=> Agree(x, y, 5)
      BY <1>1, <2>1, HighBits, AgreeIs
    <2>4. Agree(z, x, 5)
      <3>1. z - (z % 8) = x - (x % 8)
        BY <1>1, <2>1, SMT
      <3>2. QED
        BY <1>1, <2>2, <3>1, HighBits, AgreeIs
    <2>5. QED
      BY <2>1, <2>3, <2>4, Zenon
  <1>7. CASE l = 4
    <2>1. z = x - (x % 16) /\ w = y - (y % 16) /\ 8 - l = 4
      BY <1>7, PowersOfByte DEF z, w, ClearByte
    <2>2. z \in Int /\ 0 <= z /\ z < 256
      BY <1>1, <2>1, SMT
    <2>3. z = w <=> Agree(x, y, 4)
      BY <1>1, <2>1, HighBits, AgreeIs
    <2>4. Agree(z, x, 4)
      <3>1. z - (z % 16) = x - (x % 16)
        BY <1>1, <2>1, SMT
      <3>2. QED
        BY <1>1, <2>2, <3>1, HighBits, AgreeIs
    <2>5. QED
      BY <2>1, <2>3, <2>4, Zenon
  <1>8. CASE l = 5
    <2>1. z = x - (x % 32) /\ w = y - (y % 32) /\ 8 - l = 3
      BY <1>8, PowersOfByte DEF z, w, ClearByte
    <2>2. z \in Int /\ 0 <= z /\ z < 256
      BY <1>1, <2>1, SMT
    <2>3. z = w <=> Agree(x, y, 3)
      BY <1>1, <2>1, HighBits, AgreeIs
    <2>4. Agree(z, x, 3)
      <3>1. z - (z % 32) = x - (x % 32)
        BY <1>1, <2>1, SMT
      <3>2. QED
        BY <1>1, <2>2, <3>1, HighBits, AgreeIs
    <2>5. QED
      BY <2>1, <2>3, <2>4, Zenon
  <1>9. CASE l = 6
    <2>1. z = x - (x % 64) /\ w = y - (y % 64) /\ 8 - l = 2
      BY <1>9, PowersOfByte DEF z, w, ClearByte
    <2>2. z \in Int /\ 0 <= z /\ z < 256
      BY <1>1, <2>1, SMT
    <2>3. z = w <=> Agree(x, y, 2)
      BY <1>1, <2>1, HighBits, AgreeIs
    <2>4. Agree(z, x, 2)
      <3>1. z - (z % 64) = x - (x % 64)
        BY <1>1, <2>1, SMT
      <3>2. QED
        BY <1>1, <2>2, <3>1, HighBits, AgreeIs
    <2>5. QED
      BY <2>1, <2>3, <2>4, Zenon
  <1>10. CASE l = 7
    <2>1. z = x - (x % 128) /\ w = y - (y % 128) /\ 8 - l = 1
      BY <1>10, PowersOfByte DEF z, w, ClearByte
    <2>2. z \in Int /\ 0 <= z /\ z < 256
      BY <1>1, <2>1, SMT
    <2>3. z = w <=> Agree(x, y, 1)
      BY <1>1, <2>1, HighBits, AgreeIs
    <2>4. Agree(z, x, 1)
      <3>1. z - (z % 128) = x - (x % 128)
        BY <1>1, <2>1, SMT
      <3>2. QED
        BY <1>1, <2>2, <3>1, HighBits, AgreeIs
    <2>5. QED
      BY <2>1, <2>3, <2>4, Zenon
  <1>11. CASE l = 8
    <2>1. z = x - (x % 256) /\ w = y - (y % 256) /\ 8 - l = 0
      BY <1>11, PowersOfByte DEF z, w, ClearByte
    <2>2. z \in Int /\ 0 <= z /\ z < 256
      BY <1>1, <2>1, SMT
    <2>3. z = w <=> Agree(x, y, 0)
      BY <1>1, <2>1, HighBits, AgreeIs
    <2>4. Agree(z, x, 0)
      <3>1. z - (z % 256) = x - (x % 256)
        BY <1>1, <2>1, SMT
      <3>2. QED
        BY <1>1, <2>2, <3>1, HighBits, AgreeIs
    <2>5. QED
      BY <2>1, <2>3, <2>4, Zenon
  <1>12. l <= 0 \/ l > 8 \/ l = 1 \/ l = 2 \/ l = 3 \/ l = 4 \/ l = 5 \/ l = 6 \/ l = 7 \/ l = 8
    OBVIOUS
  <1>13. QED
    BY <1>2, <1>3, <1>4, <1>5, <1>6, <1>7, <1>8, <1>9, <1>10, <1>11, <1>12, Zenon

\* A bit of an address, in its byte.
LEMMA BitIs ==
  ASSUME ByteBits = 8, NEW a, NEW j \in Int
  PROVE  Bit(a, j) = BitOf(a.bytes[((j - 1) \div 8) + 1], (j - 1) % 8)
  <1>1. 8 - 1 - ((j - 1) % 8) = 7 - ((j - 1) % 8)
    OBVIOUS
  <1>2. QED
    BY <1>1, Zenon DEF Bit, BitOf

\* The first h bits of two addresses, byte by byte.
SameBits(f, g, h) == \A i \in 1..Width6 : Agree(f[i], g[i], h - 8 * (i - 1))

LEMMA SameIs ==
  ASSUME ByteBits = 8, Width6 \in Nat, NEW a, NEW b, a.family = 6, b.family = 6,
         NEW prefix, NEW h \in Int, h = Min({prefix, Width6 * 8}), h <= Width6 * 8
  PROVE  SameNetwork(a, b, prefix) <=> SameBits(a.bytes, b.bytes, h)
  <1>1. Bits(a) = Width6 * 8
    <2>1. a.family # 4
      OBVIOUS
    <2>2. QED
      BY <2>1, Zenon DEF Bits, Width
  <1>2. SameNetwork(a, b, prefix) <=> \A j \in 1..h : Bit(a, j) = Bit(b, j)
    BY <1>1, Zenon DEF SameNetwork
  <1>3. \A j \in 1..h : j \in Int
    OBVIOUS
  <1>4. ASSUME \A j \in 1..h : Bit(a, j) = Bit(b, j), NEW i \in 1..Width6, NEW t \in 0..7,
               t < h - 8 * (i - 1)
        PROVE  BitOf(a.bytes[i], t) = BitOf(b.bytes[i], t)
    <2> DEFINE j == 8 * (i - 1) + t + 1
    <2>1. j \in 1..h /\ ((j - 1) \div 8) + 1 = i /\ (j - 1) % 8 = t
      BY <1>4
    <2> HIDE DEF j
    <2>2. Bit(a, j) = BitOf(a.bytes[i], t) /\ Bit(b, j) = BitOf(b.bytes[i], t)
      BY <1>3, <2>1, BitIs, Zenon
    <2>3. QED
      BY <1>4, <2>1, <2>2, Zenon
  <1>5. ASSUME SameBits(a.bytes, b.bytes, h), NEW j \in 1..h
        PROVE  Bit(a, j) = Bit(b, j)
    <2> DEFINE i == ((j - 1) \div 8) + 1
               t == (j - 1) % 8
    <2>1. i \in 1..Width6 /\ t \in 0..7 /\ t < h - 8 * (i - 1)
      OBVIOUS
    <2>2. Bit(a, j) = BitOf(a.bytes[i], t) /\ Bit(b, j) = BitOf(b.bytes[i], t)
      BY <1>3, BitIs, Zenon
    <2> HIDE DEF i, t
    <2>3. QED
      BY <1>5, <2>1, <2>2, Zenon DEF SameBits, Agree
  <1>6. QED
    BY <1>2, <1>4, <1>5, Zenon DEF SameBits, Agree

\* The byte loop of util_addr_prefix, byte by byte.
LEMMA ClearedIs ==
  ASSUME ByteBits = 8, Width6 \in Nat, NEW f, f \in [1..Width6 -> Octet], NEW bits \in Int
  PROVE  Cleared(f, bits) = [i \in 1..Width6 |-> ClearByte(f[i], bits - (Width6 - i) * 8)]
  <1>1. Len(f) = Width6 /\ DOMAIN f = 1..Width6
    OBVIOUS
  <1>2. QED
    BY <1>1, Zenon DEF Cleared, ClearByte

\* Of w bytes the first h bits are the ones that are left when the last bits are cleared.
Counted(w, h, bits) ==
  /\ h \in Int /\ bits \in Int /\ h <= w * 8
  /\ bits <= 0 => h = w * 8
  /\ bits > 0 => \A i \in 1..w : \/ 8 - (bits - (w - i) * 8) = h - 8 * (i - 1)
                                 \/ 8 - (bits - (w - i) * 8) <= 0 /\ h - 8 * (i - 1) <= 0

LEMMA LeftAndRight ==
  ASSUME NEW w \in Nat \ {0}, NEW prefix \in Int
  PROVE  Counted(w, Min({prefix, w * 8}), Min({w * 8 - prefix, w * 8}))
  <1> DEFINE n == w * 8
             h == Min({prefix, n})
             bits == Min({n - prefix, n})
  <1>1. n \in Int /\ n - prefix \in Int
    OBVIOUS
  <1>2. /\ prefix <= n => h = prefix
        /\ n <= prefix => h = n
        /\ n - prefix <= n => bits = n - prefix
        /\ n <= n - prefix => bits = n
    <2> HIDE DEF n
    <2>1. (prefix <= n => h = prefix) /\ (n <= prefix => h = n)
      BY <1>1, OfTwo, Zenon
    <2>2. (n - prefix <= n => bits = n - prefix) /\ (n <= n - prefix => bits = n)
      BY <1>1, OfTwo, Zenon
    <2>3. QED
      BY <2>1, <2>2, Zenon
  <1> HIDE DEF h, bits
  <1>3. CASE prefix < 0
    <2>1. h = prefix /\ bits = n
      BY <1>2, <1>3
    <2>2. Counted(w, h, bits)
      BY <1>3, <2>1 DEF Counted
    <2>3. QED
      BY <2>2, Zenon DEF h, bits
  <1>4. CASE 0 <= prefix
    <2>1. bits = n - prefix /\ (prefix <= n => h = prefix) /\ (n <= prefix => h = n)
      BY <1>2, <1>4
    <2>2. Counted(w, h, bits)
      BY <1>4, <2>1 DEF Counted
    <2>3. QED
      BY <2>2, Zenon DEF h, bits
  <1>5. prefix < 0 \/ 0 <= prefix
    OBVIOUS
  <1>6. QED
    BY <1>3, <1>4, <1>5, Zenon

LEMMA AgreeBeyond ==
  ASSUME NEW x, NEW y, NEW h \in Int, h <= 0
  PROVE  Agree(x, y, h)
  <1>1. \A t \in 0..7 : ~ (t < h)
    OBVIOUS
  <1>2. QED
    BY <1>1, Zenon DEF Agree

\* An IPv6 address of 8 bits a byte.
Address6 == [family : {6}, bytes : [1..Width6 -> Octet]]

\* util_addr_prefix on an IPv6 address.
LEMMA Networks6 ==
  ASSUME NEW a \in Address6, NEW prefix, NEW bits, ByteBits = 8,
         bits = Min({Width6 * 8 - prefix, Width6 * 8})
  PROVE  /\ bits <= 0 => Networks(a, prefix) = {a}
         /\ ~ (bits <= 0) => Networks(a, prefix) = {[a EXCEPT !.bytes = Cleared(@, bits)]}
  <1>1. a.family # 4
    BY DEF Address6
  <1>2. Bits(a) = Width6 * 8
    BY <1>1, Zenon DEF Bits, Width
  <1>3. QED
    BY <1>1, <1>2, Zenon DEF Networks

\* What a / n leaves of an IPv6 address.
Left6(a, bits) == [family |-> 6, bytes |-> Cleared(a.bytes, bits)]

\* Two IPv6 hosts are given the same address by a / n exactly when their first n bits
\* agree, and what they are given is in their network: for every n, negative ones and
\* ones beyond the address included, and for addresses of any number of bytes.
THEOREM NetworksOf6 ==
  ASSUME ByteBits = 8, Width6 \in Nat \ {0},
         NEW a \in Address6, NEW b \in Address6, NEW prefix \in Int
  PROVE  /\ Networks(a, prefix) = Networks(b, prefix) <=> SameNetwork(a, b, prefix)
         /\ \A c \in Networks(a, prefix) : SameNetwork(c, a, prefix)
  <1> DEFINE n == Width6 * 8
             h == Min({prefix, n})
             bits == Min({n - prefix, n})
             left(i) == bits - (Width6 - i) * 8
  <1>1. Counted(Width6, h, bits)
    BY LeftAndRight, Zenon
  <1>2. h \in Int /\ bits \in Int /\ h <= Width6 * 8
    BY <1>1, Zenon DEF Counted
  <1>3. /\ a.family = 6 /\ b.family = 6 /\ a.bytes \in [1..Width6 -> Octet]
        /\ b.bytes \in [1..Width6 -> Octet] /\ Width6 \in Nat
        /\ a = [family |-> 6, bytes |-> a.bytes] /\ b = [family |-> 6, bytes |-> b.bytes]
    BY DEF Address6
  <1>4. \A c, d : c.family = 6 /\ d.family = 6 =>
          (SameNetwork(c, d, prefix) <=> SameBits(c.bytes, d.bytes, h))
    BY <1>2, <1>3, SameIs, Zenon
  <1>5. \A i \in 1..Width6 : Small(a.bytes[i]) /\ Small(b.bytes[i])
    <2>1. \A i \in 1..Width6 : a.bytes[i] \in Octet /\ b.bytes[i] \in Octet
      BY <1>3, Zenon
    <2>2. QED
      BY <2>1, OctetIs, Zenon
  <1>6. /\ bits <= 0 => Networks(a, prefix) = {a} /\ Networks(b, prefix) = {b}
        /\ ~ (bits <= 0) => /\ Networks(a, prefix) = {Left6(a, bits)}
                            /\ Networks(b, prefix) = {Left6(b, bits)}
    <2>1. \A c \in {a, b} : [c EXCEPT !.bytes = Cleared(@, bits)] = Left6(c, bits)
      BY <1>3 DEF Left6
    <2>2. /\ bits <= 0 => Networks(a, prefix) = {a}
          /\ ~ (bits <= 0) => Networks(a, prefix) = {[a EXCEPT !.bytes = Cleared(@, bits)]}
      BY Networks6, Zenon
    <2>3. /\ bits <= 0 => Networks(b, prefix) = {b}
          /\ ~ (bits <= 0) => Networks(b, prefix) = {[b EXCEPT !.bytes = Cleared(@, bits)]}
      BY Networks6, Zenon
    <2> HIDE DEF bits
    <2>4. QED
      BY <2>1, <2>2, <2>3, Zenon
  <1> HIDE DEF h, bits
  <1>7. CASE bits <= 0
    <2>1. \A i \in 1..Width6 : 8 <= h - 8 * (i - 1) /\ h - 8 * (i - 1) \in Int
      <3>1. h = Width6 * 8
        BY <1>1, <1>7, Zenon DEF Counted
      <3>2. QED
        BY <3>1
    <2>2. \A i \in 1..Width6 :
            Agree(a.bytes[i], b.bytes[i], h - 8 * (i - 1)) <=> a.bytes[i] = b.bytes[i]
      <3>1. SUFFICES ASSUME NEW i \in 1..Width6
                     PROVE  Agree(a.bytes[i], b.bytes[i], h - 8 * (i - 1))
                              <=> a.bytes[i] = b.bytes[i]
        OBVIOUS
      <3> DEFINE l == 8 - (h - 8 * (i - 1))
      <3>2. l \in Int /\ l <= 0 /\ 8 - l = h - 8 * (i - 1)
        BY <2>1
      <3> HIDE DEF l
      <3>3. ClearByte(a.bytes[i], l) = ClearByte(b.bytes[i], l)
              <=> Agree(a.bytes[i], b.bytes[i], 8 - l)
        BY <1>5, <3>2, ClearByteKeeps, Zenon DEF KeptByte
      <3>4. QED
        BY <3>2, <3>3, Zenon DEF ClearByte
    <2>3. SameBits(a.bytes, b.bytes, h) <=> a.bytes = b.bytes
      <3>1. (\A i \in 1..Width6 : a.bytes[i] = b.bytes[i]) <=> a.bytes = b.bytes
        BY <1>3
      <3>2. QED
        BY <2>2, <3>1, Zenon DEF SameBits
    <2>4. a = b <=> a.bytes = b.bytes
      BY <1>3, Zenon
    <2>5. SameBits(a.bytes, a.bytes, h)
      BY Zenon DEF SameBits, Agree
    <2>6. QED
      BY <1>3, <1>4, <1>6, <1>7, <2>3, <2>4, <2>5
  <1>8. CASE ~ (bits <= 0)
    <2> DEFINE f == Cleared(a.bytes, bits)
               g == Cleared(b.bytes, bits)
    <2>1. /\ f = [i \in 1..Width6 |-> ClearByte(a.bytes[i], left(i))]
          /\ g = [i \in 1..Width6 |-> ClearByte(b.bytes[i], left(i))]
      BY <1>2, <1>3, ClearedIs, Zenon
    <2>2. ASSUME NEW i \in 1..Width6, NEW x, NEW y
          PROVE  Agree(x, y, 8 - left(i)) <=> Agree(x, y, h - 8 * (i - 1))
      <3>1. bits > 0 /\ 8 - left(i) \in Int /\ h - 8 * (i - 1) \in Int
        BY <1>2, <1>8
      <3>2. \/ 8 - left(i) = h - 8 * (i - 1)
            \/ 8 - left(i) <= 0 /\ h - 8 * (i - 1) <= 0
        BY <1>1, <3>1, Zenon DEF Counted
      <3>3. QED
        BY <3>1, <3>2, AgreeBeyond, Zenon
    <2>3. \A i \in 1..Width6 : left(i) \in Int
      BY <1>2
    <2>4. ASSUME NEW i \in 1..Width6
          PROVE  /\ f[i] = g[i] <=> Agree(a.bytes[i], b.bytes[i], h - 8 * (i - 1))
                 /\ Agree(f[i], a.bytes[i], h - 8 * (i - 1))
      <3>1. f[i] = ClearByte(a.bytes[i], left(i)) /\ g[i] = ClearByte(b.bytes[i], left(i))
        BY <2>1, Zenon
      <3> HIDE DEF f, g, left
      <3>2. /\ f[i] = g[i] <=> Agree(a.bytes[i], b.bytes[i], 8 - left(i))
            /\ Agree(f[i], a.bytes[i], 8 - left(i))
        <4>1. left(i) \in Int /\ Small(a.bytes[i]) /\ Small(b.bytes[i])
          BY <1>5, <2>3, Zenon
        <4>2. KeptByte(a.bytes[i], b.bytes[i], f[i], g[i], 8 - left(i))
          BY <3>1, <4>1, ClearByteKeeps, Zenon
        <4>3. QED
          BY <4>2, Zenon DEF KeptByte
      <3>3. QED
        BY <2>2, <3>2, Zenon
    <2>5. f = g <=> \A i \in 1..Width6 : f[i] = g[i]
      <3>1. (\A i \in 1..Width6 : f[i] = g[i]) => f = g
        <4> HIDE DEF left
        <4>1. f = [i \in 1..Width6 |-> f[i]] /\ g = [i \in 1..Width6 |-> g[i]]
          BY <2>1
        <4> HIDE DEF f, g
        <4>2. QED
          BY <4>1
      <3>2. QED
        BY <3>1, Zenon
    <2> HIDE DEF f, g
    <2>6. (f = g <=> SameBits(a.bytes, b.bytes, h)) /\ SameBits(f, a.bytes, h)
      BY <2>4, <2>5, Zenon DEF SameBits
    <2>7. /\ Left6(a, bits).family = 6 /\ Left6(a, bits).bytes = f
          /\ Left6(b, bits).family = 6 /\ Left6(b, bits).bytes = g
          /\ Left6(a, bits) = Left6(b, bits) <=> f = g
      BY DEF Left6, f, g
    <2>8. SameNetwork(Left6(a, bits), a, prefix)
      BY <1>3, <1>4, <2>6, <2>7, Zenon
    <2>9. Left6(a, bits) = Left6(b, bits) <=> SameNetwork(a, b, prefix)
      BY <1>3, <1>4, <2>6, <2>7, Zenon
    <2>10. QED
      BY <1>6, <1>8, <2>8, <2>9
  <1>9. QED
    BY <1>7, <1>8, Zenon
=============================================================================
