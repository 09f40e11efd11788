------------------------------- MODULE MCPure -------------------------------
(***************************************************************************)
(* The algorithms of mopherd that keep no state of their own, each run on  *)
(* every input of a small set: expressions, registered domains, packed     *)
(* records, base64 and address prefixes.  A behaviour picks a task, and    *)
(* answers it.  An expression is evaluated twice, as two ACL rules of one  *)
(* session do, because the first evaluation may leave a variable behind.   *)
(***************************************************************************)
EXTENDS Exp, Regdom, Pack, Base64, Address, FiniteSets

VARIABLES task, store, before, answer, rounds

vars == <<task, store, before, answer, rounds>>

(***************************************************************************)
(* Expressions: every operator over every leaf, and nested once.           *)
(***************************************************************************)

V == <<"leaf", "$v">>
Leaves == {<<"leaf", x>> : x \in {"0", "{m}", "null", "fails", "$v", "hit"}}
Hit == <<"leaf", "hit">>
Unary(E) == {<<op, x>> : op \in {"not", "isnull", "f"}, x \in E} \cup {<<"=", V, x>> : x \in E}
Operators == {"+", "lt", "eq", "~", "and", "or", "in", ","}
TwoSided(E, F) == {<<op, x, y>> : op \in Operators, x \in E, y \in F}
Simple == {<<"isset", Hit>>} \cup Unary(Leaves) \cup TwoSided(Leaves, Leaves)
Expressions ==
  Leaves \cup Simple \cup Unary(Simple) \cup TwoSided(Simple, Leaves) \cup TwoSided(Leaves, Simple)
    \cup {<<"?", x, y, V>> : x \in Simple, y \in {<<"leaf", "0">>, Hit}}

(***************************************************************************)
(* Domain names of up to four labels; up to three rules.                   *)
(***************************************************************************)

Names == BoundedSeq({"c", "k"}, 4) \ {<<>>}
Lines == [kind : {"normal", "wildcard", "exception"}, name : BoundedSeq({"c", "k"}, 3) \ {<<>>}]
RuleFiles ==
  {lines \in UNION {kSubset(k, {l \in Lines : Last(l.name) = "k"}) : k \in 0 .. 3} :
     /\ Loads(lines)
     \* The list has no exception without the wildcard it is an exception from.
     /\ \A l \in lines : l.kind = "exception" =>
          [kind |-> "wildcard", name |-> Tail(l.name)] \in lines}

(***************************************************************************)
(* Records of a greylist-like scheme, two at a time.                       *)
(***************************************************************************)

Scheme == <<[type |-> "string", key |-> TRUE], [type |-> "string", key |-> TRUE],
            [type |-> "int", key |-> FALSE], [type |-> "string", key |-> FALSE]>>
Strings == {<<"string", s>> : s \in BoundedSeq({"x"}, 2)}
Records == Strings \X Strings \X {Null, <<"int", "x">>} \X (Strings \cup {Null})

(***************************************************************************)
(* Bytes at the edges of the sextets, and texts that may be no base64.     *)
(***************************************************************************)

Blobs == BoundedSeq({0, 3, 128, 255}, 4)
Texts == {t \in BoundedSeq({5, Pad, Other}, 8) : t = <<>> \/ t[1] # Pad}

Addresses == UNION {[family : {f}, bytes : [1 .. Width([family |-> f]) -> 0 .. Byte - 1]] : f \in {4, 6}}

Prefixed == -1 .. Max({Width4, Width6}) * ByteBits + 1

Init ==
  /\ \/ \E e \in Expressions : task = [about |-> "expression", exp |-> e]
     \/ \E f \in RuleFiles, n \in Names : task = [about |-> "domain", lines |-> f, name |-> n]
     \/ \E q, r \in Records : task = [about |-> "record", one |-> q, other |-> r]
     \/ \E b \in Blobs : task = [about |-> "blob", bytes |-> b]
     \/ \E t \in Texts : task = [about |-> "text", text |-> t]
     \/ \E a, b \in Addresses, n \in Prefixed :
          /\ a.family = b.family
          /\ task = [about |-> "prefix", one |-> a, other |-> b, prefix |-> n]
  /\ store = EmptyStore /\ before = EmptyStore
  /\ answer = "none" /\ rounds = 0

Evaluate ==
  /\ task.about = "expression" /\ rounds < 2
  /\ \E r \in {IsTrue(task.exp, store)} : store' = r.s /\ answer' = r.is
  /\ before' = store
  /\ rounds' = rounds + 1
  /\ UNCHANGED task

Compute ==
  /\ task.about # "expression" /\ rounds = 0
  /\ answer' = CASE task.about = "domain" -> RegisteredDomain(Table(task.lines), task.name)
                 [] task.about = "record" -> <<Pack(Scheme, task.one), Pack(Scheme, task.other)>>
                 [] task.about = "blob" -> Encode(task.bytes)
                 [] task.about = "text" -> Decode(task.text)
                 [] task.about = "prefix" -> <<Networks(task.one, task.prefix),
                                               Networks(task.other, task.prefix)>>
  /\ rounds' = 1
  /\ UNCHANGED <<task, store, before>>

Next == Evaluate \/ Compute
Spec == Init /\ [][Next]_vars

Answered(about) == task.about = about /\ rounds > 0

(***************************************************************************)
(* Expressions                                                             *)
(***************************************************************************)

RECURSIVE LeavesOf(_), PartsOf(_)
LeavesOf(e) == IF e[1] = "leaf" THEN <<e[2]>> ELSE FlattenSeq([i \in 1 .. Len(e) - 1 |-> LeavesOf(e[i + 1])])
PartsOf(e) == {e} \cup (IF e[1] = "leaf" THEN {} ELSE UNION {PartsOf(e[i]) : i \in 2 .. Len(e)})
Times(e, x) == Cardinality({i \in DOMAIN LeavesOf(e) : LeavesOf(e)[i] = x})
Uses(e, op) == \E p \in PartsOf(e) : p[1] = op

\* The expressions whose operands the evaluator does not keep apart: it releases a
\* computed operand of IS NULL twice; it reads the first of two values of an uncached
\* symbol after the second replaced it, and a variable after its assignment replaced it;
\* and it compares with whatever a list of an `in` holds.
Entangled(e) ==
  \/ \E p \in PartsOf(e) : p[1] = "isnull" /\ (p[2][1] # "leaf" \/ p[2][2] = "{m}")
  \/ ~ Uses(e, "isset") /\ Times(e, "hit") > 1
  \/ Uses(e, "=") /\ Times(e, "$v") > 1
  \/ Uses(e, "in") /\ Uses(e, ",")

\* Every evaluation leaves no temporary behind and never touches a value that is gone:
\* VF_EXP_FREE and exp_free hand each temporary to exactly one caller, through every
\* operator, early return and error path, unless the expression is one of the Entangled.
MemorySafe ==
  Answered("expression") =>
    \/ store.bad = {} /\ store.freed = 1 .. store.temps
    \/ Entangled(task.exp)

\* AND and OR are the minimum and the maximum of false < null < true, as the truth
\* tables of the manual have it, with one exception that exp_bool makes: null OR false
\* is false.  What decides on the left keeps the right operand from being evaluated.
KleeneLogic ==
  LET e == task.exp
      left == IsTrue(e[2], before)
      right == IsTrue(e[3], left.s)
      value == [false |-> 0, null |-> 1, true |-> 2]
      Least(a, b) == IF value[a] < value[b] THEN a ELSE b
      Most(a, b) == IF value[a] > value[b] THEN a ELSE b
      decides == IF e[1] = "or" THEN "true" ELSE "false"
  IN  (Answered("expression") /\ e[1] \in {"and", "or"} /\ store.bad = {}) =>
        IF left.is = decides THEN answer = decides /\ store = left.s
        ELSE IF "fails" \in {left.is, right.is} THEN answer = "fails"
        ELSE IF e[1] = "and" THEN answer = Least(left.is, right.is)
        ELSE IF <<left.is, right.is>> = <<"null", "false">> THEN answer = "false"
        ELSE answer = Most(left.is, right.is)

\* Of less, equal and greater exactly one holds between two values of any types, and
\* the answer does not depend on which of them is written first: var_compare converts
\* to the larger type whichever side it is on.  Without both values there is no answer.
ComparisonsAgree ==
  LET e == task.exp
      Is(op, x, y) == IsTrue(<<op, x, y>>, before).is
      Pure(x) == ~ Uses(x, "=") /\ Times(x, "hit") = 0
  IN  (Answered("expression") /\ e[1] = "lt" /\ store.bad = {} /\ Pure(e)) =>
        LET said == [op \in {"lt", "eq", "gt"} |-> Is(op, e[2], e[3])]
        IN  /\ \/ \E op \in DOMAIN said : \A o \in DOMAIN said :
                     said[o] = IF o = op THEN "true" ELSE "false"
               \/ \A o \in DOMAIN said : said[o] = "null"
               \/ \A o \in DOMAIN said : said[o] = "fails"
            /\ said.lt = Is("gt", e[3], e[2])
            /\ said.eq = Is("eq", e[3], e[2])

(***************************************************************************)
(* Domains, records, blobs, addresses                                      *)
(***************************************************************************)

\* regdom finds the registered domain of publicsuffix.org although it stops at the first
\* suffix the table holds, with two exceptions: the name a wildcard hangs below
\* (kobe.jp of *.kobe.jp) is given none, and below an exception a longer rule would win.
RegdomIsReference ==
  Answered("domain") => RegdomAgrees(task.lines, task.name, answer)

\* A record read back is the record written, null fields included, and the driver's
\* match of two packed keys, which compares only as far as the first one reaches,
\* finds a record exactly under its own key.
PackRoundTrip ==
  Answered("record") =>
    /\ Unpack(Scheme, answer[1]) = task.one
    /\ Match(answer[1], answer[2]) <=>
         \A i \in DOMAIN Scheme : Scheme[i].key => task.one[i] = task.other[i]

\* A blob written as text is read back as it was; and whatever the text, the bytes
\* base64_decode says it decoded have been written, unless more than two '=' end it.
Base64RoundTrip ==
  /\ Answered("blob") =>
       LET d == Decode(answer) IN d.len = Len(task.bytes) /\ Scanned(d) = task.bytes
  /\ Answered("text") => answer.len <= Len(answer.bytes) \/ Padding(task.text) > 2

\* Two hosts of one family are given the same address by a / n exactly when their first n
\* bits agree, and the result is one of that network: for every n with IPv6, and for
\* n > 0 with IPv4, where 1 << 32 has no defined value.
PrefixIsNetwork ==
  (Answered("prefix") /\ (task.one.family = 6 \/ task.prefix > 0)) =>
    /\ answer[1] = answer[2] <=> SameNetwork(task.one, task.other, task.prefix)
    /\ \A a \in answer[1] : SameNetwork(a, task.one, task.prefix) /\ Compared(a, task.one) <= 0
=============================================================================
