-------------------------------- MODULE Exp ---------------------------------
(***************************************************************************)
(* Evaluation of ACL expressions (exp.c) over typed values (var.c): what   *)
(* the operators compute, which operands they evaluate at all, and who     *)
(* frees a value.                                                          *)
(*                                                                         *)
(* exp_eval returns a pointer.  It points to a constant, to a symbol or    *)
(* variable in the mailspec, where it is borrowed until somebody replaces  *)
(* the entry, or to a temporary that is marked VF_EXP_FREE and belongs to  *)
(* the caller.  The model gives every pointer its owner, so that a use or  *)
(* a release of what is no longer there is seen.                           *)
(*                                                                         *)
(* Left out: floats, addresses and blobs.  A string is a sequence of       *)
(* atoms, of which all but two are single characters.                      *)
(***************************************************************************)
EXTENDS Integers, Sequences, SequencesExt

\* The order of var_type_t.
Rank == [list |-> 2, int |-> 4, str |-> 7]

Value(type, null, n, s, items) ==
  [t |-> type, null |-> null, n |-> n, s |-> s, items |-> items]
IntVal(n) == Value("int", FALSE, n, <<>>, <<>>)
StrVal(s) == Value("str", FALSE, 0, s, <<>>)
ListVal(items) == Value("list", FALSE, 0, <<>>, items)
NullOf(type) == Value(type, TRUE, 0, <<>>, <<>>)

\* A pointer: who owns what it points to, which instance of it, and the value.
Pointer(owner, id, v) == [owner |-> owner, id |-> id, v |-> v]
NULL == Pointer("nobody", 0, NullOf("int"))
Static(v) == Pointer("static", 0, v)
EXP_EMPTY == Static(NullOf("int"))
EXP_TRUE == Static(IntVal(1))
EXP_FALSE == Static(IntVal(0))

(***************************************************************************)
(* The store: the variable $v and the symbol of an AS_NOCACHE callback     *)
(* with their instances, temporaries, and what went wrong.                 *)
(***************************************************************************)

EmptyStore ==
  [var |-> NullOf("int"), varId |-> 0, hitId |-> 0,
   temps |-> 0, freed |-> {}, bad |-> {}]

\* A pointer and the store after the evaluation that returned it.
Result(p, s) == [p |-> p, s |-> s]

Alive(s, p) ==
  CASE p.owner = "variable" -> p.id = s.varId
    [] p.owner = "uncached" -> p.id = s.hitId
    [] p.owner = "temp" -> p.id \notin s.freed
    [] OTHER -> TRUE

\* The data of p is read.
Use(s, p) == IF Alive(s, p) THEN s ELSE [s EXCEPT !.bad = @ \cup {"used after free"}]

NewTemp(s, v) == Result(Pointer("temp", s.temps + 1, v), [s EXCEPT !.temps = @ + 1])

RECURSIVE Free(_, _)

\* exp_free: only temporaries, and the items of a temporary list.
Free(s, p) ==
  IF p = NULL THEN s
  ELSE IF ~ Alive(s, p) THEN [s EXCEPT !.bad = @ \cup {"used after free"}]
  ELSE IF p.owner # "temp" THEN s
  ELSE LET items == FoldLeft(Free, s, p.v.items)
       IN  [items EXCEPT !.freed = @ \cup {p.id}]

(***************************************************************************)
(* Values: var_true, var_cast_copy, var_compare                            *)
(***************************************************************************)

True(v) ==
  ~ v.null /\ CASE v.t = "int" -> v.n # 0
                [] v.t = "str" -> v.s \notin {<<>>, <<"0">>}
                [] v.t = "list" -> v.items # <<>>

\* True, false and null, as the manual has it.
Truth(v) == IF v.null THEN "null" ELSE IF True(v) THEN "true" ELSE "false"

CastFails == Value("fails", TRUE, 0, <<>>, <<>>)
Incomparable == 2
Position(seq, x) == CHOOSE i \in DOMAIN seq : seq[i] = x
Digits == <<"0", "1", "2", "3", "4", "5", "6", "7", "8", "9">>

\* var_as_int: strtol; var_as_string: var_dump_data.
Cast(type, v) ==
  IF v.t = type THEN v
  ELSE IF v.null THEN NullOf(type)
  ELSE CASE type = "str" -> StrVal(IF v.t = "int" THEN <<Digits[v.n + 1]>> ELSE <<"(list)">>)
         [] type = "int" /\ v.t = "str" ->
              IntVal(IF v.s # <<>> /\ v.s[1] \in ToSet(Digits)
                  THEN Position(Digits, v.s[1]) - 1 ELSE 0)
         [] OTHER -> CastFails

MaxType(a, b) == IF Rank[a.t] > Rank[b.t] THEN a.t ELSE b.t

\* The order of the characters.
Atoms == <<"(list)", "(null)">> \o Digits \o <<"a">>

RECURSIVE Strcmp(_, _)
Strcmp(a, b) ==
  IF a = b THEN 0
  ELSE IF a = <<>> THEN -1
  ELSE IF b = <<>> THEN 1
  ELSE IF a[1] = b[1] THEN Strcmp(Tail(a), Tail(b))
  ELSE IF Position(Atoms, a[1]) < Position(Atoms, b[1]) THEN -1 ELSE 1

\* Mutant of VarCompare: the right operand is always the one that is converted.
VarCompareLeft(a, b) ==
  LET r == Cast(a.t, b) IN
  IF r = CastFails \/ a.t = "list" THEN Incomparable
  ELSE IF a.t = "str" THEN Strcmp(a.s, r.s)
  ELSE IF a.n = r.n THEN 0 ELSE IF a.n < r.n THEN -1 ELSE 1

\* -1, 0 or 1, in the larger of the two types.
VarCompare(a, b) ==
  LET type == MaxType(a, b)
      l == Cast(type, a)
      r == Cast(type, b)
  IN  IF CastFails \in {l, r} \/ type = "list" THEN Incomparable
      ELSE IF type = "str" THEN Strcmp(l.s, r.s)
      ELSE IF l.n = r.n THEN 0 ELSE IF l.n < r.n THEN -1 ELSE 1

(***************************************************************************)
(* Operators of evaluated operands.  What they return is static, NULL or   *)
(* a temporary; their operands are released by exp_eval_operation.         *)
(***************************************************************************)

\* Which results of var_compare make the operator true.
Holds == [lt |-> {-1}, le |-> {-1, 0}, eq |-> {0}, ne |-> {-1, 1}, ge |-> {0, 1}, gt |-> {1}]

Compare(op, s, l, r) ==
  IF l.v.null \/ r.v.null THEN Result(EXP_EMPTY, s)
  ELSE LET cmp == VarCompare(l.v, r.v)
       IN  Result(IF cmp = Incomparable THEN NULL
                  ELSE IF cmp \in Holds[op] THEN EXP_TRUE ELSE EXP_FALSE,
                  Use(Use(s, l), r))

\* The items the walk of a list reaches: a failed item is a NULL that ends it.
Reached(items) ==
  LET ends == {i \in DOMAIN items : items[i] = NULL}
  IN  IF ends = {} THEN items ELSE SubSeq(items, 1, Min(ends) - 1)

\* The items at which the walk of exp_eval_in ends: one that equals l, a null, which is
\* compared like any other and its data read, and a first one that cannot be compared,
\* since cmp is what it was after a failed comparison, and unset at the first.
Stops(l, items) ==
  {i \in DOMAIN items :
     items[i].v.null \/ VarCompare(l.v, items[i].v) \in (IF i = 1 THEN {0, Incomparable} ELSE {0})}

\* The walk ends at an item.
StopAt(s, l, item) ==
  IF item.v.null THEN Result(NULL, [s EXCEPT !.bad = @ \cup {"null dereferenced"}])
  ELSE IF VarCompare(l.v, item.v) = 0 THEN Result(EXP_TRUE, s)
  ELSE Result(NULL, [s EXCEPT !.bad = @ \cup {"unset value read"}])

Walk(s, l, items, stops) ==
  IF stops = {} THEN Result(EXP_FALSE, FoldLeft(Use, s, items))
  ELSE StopAt(FoldLeft(Use, s, SubSeq(items, 1, Min(stops))), l, items[Min(stops)])

\* exp_eval_in.
In(s, l, r) ==
  IF l.v.null \/ r.v.null THEN Result(EXP_EMPTY, s)
  ELSE IF r.v.t # "list" THEN Result(NULL, s)
  ELSE LET items == Reached(r.v.items) IN Walk(Use(Use(s, l), r), l, items, Stops(l, items))

\* exp_eval_regex, for patterns without special characters: ~ and !~.
Regex(op, s, l, r) ==
  LET str == Cast("str", l.v).s
      pattern == Cast("str", r.v).s
      match == \E i \in 1 .. Len(str) + 1 : IsPrefix(pattern, SubSeq(str, i, Len(str)))
  IN  IF l.v.null \/ r.v.null THEN Result(EXP_EMPTY, s)
      ELSE Result(IF match = (op = "~") THEN EXP_TRUE ELSE EXP_FALSE, Use(Use(s, l), r))

\* exp_math_int and exp_math_string: a null string is concatenated as "(null)".
Add(s, l, r) ==
  IF l.t = "int"
  THEN IF l.null \/ r.null THEN Result(EXP_EMPTY, s) ELSE NewTemp(s, IntVal(l.n + r.n))
  ELSE IF l.t = "str"
  THEN NewTemp(s, StrVal((IF l.null THEN <<"(null)">> ELSE l.s)
                      \o (IF r.null THEN <<"(null)">> ELSE r.s)))
  ELSE Result(NULL, s)

(***************************************************************************)
(* exp_eval.  An expression is <<"leaf", x>> or <<operator, operands>>.     *)
(***************************************************************************)

\* exp_eval_variable: borrowed from the mailspec.
Variable(s) ==
  IF s.varId = 0 THEN EXP_EMPTY ELSE Pointer("variable", s.varId, s.var)

\* acl_symbol_get for AS_NOCACHE: the callback replaces the value at every evaluation.
Uncached(s) == Result(Pointer("uncached", s.hitId + 1, IntVal(1)), [s EXCEPT !.hitId = @ + 1])

\* exp_eval_macro: a copy of what the MTA sent.
Macro(s) == NewTemp(s, StrVal(<<"a">>))

\* A constant, a null symbol, a symbol that fails, the variable, an uncached symbol, a
\* macro.
Leaf(x, s) ==
  CASE x = "0" -> Result(Static(IntVal(0)), s)
    [] x = "null" -> Result(EXP_EMPTY, s)
    [] x = "fails" -> Result(NULL, s)
    [] x = "$v" -> Result(Variable(s), s)
    [] x = "hit" -> Uncached(s)
    [] x = "{m}" -> Macro(s)

\* exp_isset of the uncached symbol: nothing is evaluated.
IsSet(s) == Result(IF s.hitId > 0 THEN EXP_TRUE ELSE EXP_FALSE, s)

\* acl_variable_assign: a copy takes the place of the old value, which is freed.
VariableAssign(s, p) ==
  LET used == Use(s, p)
  IN  [used EXCEPT !.var = p.v, !.varId = @ + 1]

\* exp_assign: the value of an assignment is the value assigned, not the copy.
Assign(v) == IF v.p = NULL THEN v ELSE Result(v.p, VariableAssign(v.s, v.p))

\* exp_eval_list: the list is a temporary, its items belong to whom they belonged.
ListOf(s, items) == NewTemp(s, ListVal(items))

\* exp_eval_function_simple, for a function of one integer: the argument is converted in
\* a copy, which is gone after the call.
Simply(s, args) ==
  LET given == IF Len(args) = 1 /\ args[1] # NULL THEN Cast("int", args[1].v) ELSE NullOf("int")
      used == FoldLeft(Use, s, Reached(args))
  IN  IF Len(args) # 1 \/ given = CastFails THEN Result(NULL, used)
      ELSE IF given.null THEN Result(EXP_EMPTY, used)
      ELSE NewTemp(used, IntVal(1 - (given.n % 2)))

\* Mutant of Call: a function that fails leaves its arguments to nobody.
CallLeaks(a) ==
  LET args == IF a.p.v.t = "list" /\ ~ a.p.v.null THEN a.p.v.items ELSE <<a.p>>
      r == Simply(Use(a.s, a.p), args)
  IN  IF a.p = NULL \/ r.p = NULL THEN Result(NULL, r.s) ELSE Result(r.p, Free(r.s, a.p))

\* exp_eval_function: a list is spread over the parameters, the arguments are released.
Call(a) ==
  LET args == IF a.p.v.t = "list" /\ ~ a.p.v.null THEN a.p.v.items ELSE <<a.p>>
      r == Simply(Use(a.s, a.p), args)
  IN  IF a.p = NULL THEN a ELSE Result(r.p, Free(r.s, a.p))

\* An arithmetic operator: the smaller type is converted, the original released.
Math(s, l, r) ==
  LET type == MaxType(l.v, r.v)
      cl == Cast(type, l.v)
      cr == Cast(type, r.v)
      used == Use(Use(s, l), r)
      freed == Free(Free(used, l), r)
  IN  IF NULL \in {l, r} THEN Result(EXP_EMPTY, Free(Free(s, l), r))
      ELSE IF CastFails \in {cl, cr} THEN Result(NULL, freed)
      ELSE Add(freed, cl, cr)

RECURSIVE Eval(_, _)

\* Mutant of Bool: the right operand of AND is returned as that of OR is.
BoolPerl(op, e, s) ==
  LET a == Eval(e[1], s)
      left == Truth(a.p.v)
      b == Eval(e[2], Free(Use(a.s, a.p), a.p))
  IN  IF a.p = NULL THEN a
      ELSE IF left = (IF op = "or" THEN "true" ELSE "false") THEN Result(a.p, Use(a.s, a.p))
      ELSE b

\* exp_bool: short circuits, and OR returns an operand.
Bool(op, e, s) ==
  LET a == Eval(e[1], s)
      left == Truth(a.p.v)
      freed == Free(Use(a.s, a.p), a.p)
      b == Eval(e[2], freed)
      right == Truth(b.p.v)
  IN  IF a.p = NULL THEN a
      ELSE IF op = "or" /\ left = "true" THEN Result(a.p, Use(a.s, a.p))
      ELSE IF op = "and" /\ left = "false" THEN Result(EXP_FALSE, freed)
      ELSE IF b.p = NULL \/ op = "or" THEN Result(b.p, Use(b.s, b.p))
      ELSE Result(IF right = "false" THEN EXP_FALSE
                  ELSE IF "null" \in {left, right} THEN EXP_EMPTY ELSE EXP_TRUE,
                  Free(Use(b.s, b.p), b.p))

\* exp_not.
Not(a) ==
  IF a.p.v.null THEN Result(EXP_EMPTY, a.s)
  ELSE Result(IF True(a.p.v) THEN EXP_FALSE ELSE EXP_TRUE, Free(Use(a.s, a.p), a.p))

\* exp_is_null releases the operand, and exp_eval_operation does so again.
IsNull(a) ==
  Result(IF a.p.v.null THEN EXP_TRUE ELSE EXP_FALSE, Free(Free(a.s, a.p), a.p))

\* The result r of an operator, its operands released.
Released(r, l, right) == Result(r.p, Free(Free(r.s, l), right))

\* exp_eval_operation with two operands: both are evaluated, and released afterwards.
Operation(op, a, b) ==
  CASE op = "+" -> Math(b.s, a.p, b.p)
    [] op = "in" -> Released(In(b.s, a.p, b.p), a.p, b.p)
    [] op = "~" -> Released(Regex(op, b.s, a.p, b.p), a.p, b.p)
    [] OTHER -> Released(Compare(op, b.s, a.p, b.p), a.p, b.p)

\* exp_eval_ternary_condition: the condition is released before the branch is evaluated.
Ternary(a, yes, no) ==
  IF a.p = NULL THEN a ELSE Eval(IF True(a.p.v) THEN yes ELSE no, Free(Use(a.s, a.p), a.p))

\* exp_eval.
Eval(e, s) ==
  LET op == e[1]
      a == Eval(e[2], s)
      b == Eval(e[3], a.s)
  IN  CASE op = "leaf" -> Leaf(e[2], s)
        [] op = "," -> ListOf(b.s, <<a.p, b.p>>)
        [] op = "not" -> Not(a)
        [] op = "isnull" -> IsNull(a)
        [] op = "isset" -> IsSet(s)
        [] op = "f" -> Call(a)
        [] op = "=" -> Assign(Eval(e[3], s))
        [] op \in {"and", "or"} -> Bool(op, Tail(e), s)
        [] op = "?" -> Ternary(a, e[3], e[4])
        [] OTHER -> Operation(op, a, b)

\* What an evaluation says, its value released.
Judged(r) ==
  [is |-> IF r.p = NULL THEN "fails" ELSE Truth(r.p.v), s |-> Free(Use(r.s, r.p), r.p)]

\* exp_is_true: -1, or the truth of the value.
IsTrue(e, s) == Judged(Eval(e, s))
=============================================================================
