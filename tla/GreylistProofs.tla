--------------------------- MODULE GreylistProofs ---------------------------
(***************************************************************************)
(* Proofs about Greylist, for any set of connections, tuples and rules.    *)
(***************************************************************************)
EXTENDS Greylist, FiniteSetTheorems, TLAPS

USE RulesAssumption, TuplesAssumption, ConfAssumption, BoundAssumption,
    ConnsAssumption, NoRecordAssumption


(***************************************************************************)
(* What the operators on records return                                    *)
(***************************************************************************)

\* The stand-ins between calls are a tuple and a rule.
LEMMA AnyoneType == Anyone \in Tuples /\ AnyRule \in Rules
  BY DEF Anyone, AnyRule

\* greylist_add stores a well-typed record that has passed nothing yet.
LEMMA NewRecordFacts ==
  ASSUME NEW g \in Rules, NEW r \in Int
  PROVE  /\ NewRecord(g, r) \in Record
         /\ NewRecord(g, r).created = r
         /\ NewRecord(g, r).passed = 0
  BY DEF NewRecord, Prop, Record, Rule

\* Refreshing keeps the times and the number of passed messages.
LEMMA RefreshedFacts ==
  ASSUME NEW r \in Record, NEW g \in Rules, NEW b \in BOOLEAN
  PROVE  /\ Refreshed(r, g, b) \in Record
         /\ Refreshed(r, g, b).created = r.created
         /\ Refreshed(r, g, b).passed = r.passed
         /\ Refreshed(r, g, b).connections >= r.connections
         /\ Refreshed(r, g, b).delay = Prop(g, "delay", g.delay, r.delay)
         /\ Refreshed(r, g, b).attempts = Prop(g, "attempts", g.attempts, r.attempts)
  <1> g \in Rule
    OBVIOUS
  <1> DEFINE deadline == Prop(g, "deadline", g.deadline, r.deadline)
             delay == Prop(g, "delay", g.delay, r.delay)
             attempts == Prop(g, "attempts", g.attempts, r.attempts)
             visa == Prop(g, "visa", g.visa, r.visa)
             connections == IF b THEN r.connections ELSE r.connections + 1
  <1>1. /\ deadline \in Nat /\ delay \in Nat /\ attempts \in Nat
        /\ visa \in Nat /\ connections \in Nat /\ connections >= r.connections
    BY DEF Prop, Record, Rule
  <1> HIDE DEF deadline, delay, attempts, visa, connections
  <1>2. Refreshed(r, g, b) = [r EXCEPT !.deadline = deadline, !.delay = delay,
                                       !.attempts = attempts, !.visa = visa,
                                       !.connections = connections]
    BY DEF Refreshed, deadline, delay, attempts, visa, connections
  <1>3. /\ Refreshed(r, g, b) \in Record
        /\ Refreshed(r, g, b).created = r.created
        /\ Refreshed(r, g, b).passed = r.passed
        /\ Refreshed(r, g, b).connections = connections
        /\ Refreshed(r, g, b).delay = delay
        /\ Refreshed(r, g, b).attempts = attempts
    BY <1>1, <1>2, Zenon DEF Record
  <1>4. QED
    BY <1>1, <1>3 DEF delay, attempts

\* The record of a message let through.
LEMMA PassedRecordFacts ==
  ASSUME NEW r \in Record, NEW t \in Int, NEW b \in BOOLEAN
  PROVE  /\ PassedRecord(r, t, b) \in Record
         /\ PassedRecord(r, t, b).created = r.created
         /\ PassedRecord(r, t, b).passed = IF b THEN r.passed ELSE r.passed + 1
         /\ Passes(r, t) => Earned(PassedRecord(r, t, b))
  <1> DEFINE e == t + r.visa
             p == IF b THEN r.passed ELSE r.passed + 1
             n == [r EXCEPT !.expire = e, !.updated = t, !.passed = p]
  <1>1. e \in Int /\ p \in Nat
    BY DEF Record
  <1>2. PassedRecord(r, t, b) = n
    BY DEF PassedRecord
  <1> HIDE DEF e, p, n
  <1>3. /\ n \in Record
        /\ n.expire = e /\ n.updated = t /\ n.passed = p
        /\ n.created = r.created /\ n.delay = r.delay /\ n.visa = r.visa
        /\ n.connections = r.connections /\ n.attempts = r.attempts
    BY <1>1, Zenon DEF n, Record
  <1>4. Passes(r, t) => Earned(n)
    BY <1>3 DEF Passes, Earned, e, Record
  <1>5. QED
    BY <1>2, <1>3, <1>4 DEF p

\* The record of a deferred message.
LEMMA DeferredRecordFacts ==
  ASSUME NEW r \in Record, NEW t \in Int
  PROVE  /\ DeferredRecord(r, t) \in Record
         /\ DeferredRecord(r, t).created = r.created
         /\ DeferredRecord(r, t).passed = 0
  <1> DEFINE e == r.created + r.deadline
             z == 0
  <1>1. e \in Int /\ z \in Nat /\ z = 0
    BY DEF Record
  <1>2. DeferredRecord(r, t) = [r EXCEPT !.expire = e, !.passed = z, !.updated = t]
    BY DEF DeferredRecord
  <1> HIDE DEF e, z
  <1>3. QED
    BY <1>1, <1>2, Zenon DEF Record

\* The record greylist_pass stores.
LEMMA OperatorRecordFacts ==
  ASSUME NEW r \in Record, NEW t \in Int
  PROVE  /\ OperatorRecord(r, t) \in Record
         /\ OperatorRecord(r, t).passed = r.passed
  <1> DEFINE c == t - r.delay
             e == t + r.visa
             n == r.attempts
  <1>1. c \in Int /\ e \in Int /\ n \in Nat
    BY DEF Record
  <1>2. OperatorRecord(r, t) = [r EXCEPT !.created = c, !.connections = n,
                                         !.expire = e, !.updated = t]
    BY DEF OperatorRecord
  <1> HIDE DEF c, e, n
  <1>3. QED
    BY <1>1, <1>2, Zenon DEF Record

(***************************************************************************)
(* Type correctness                                                        *)
(***************************************************************************)

\* The record under examination keeps its creation time and passed messages.
LEMMA ExaminedFacts ==
  ASSUME TypeOK, NEW c \in Conns, rec[c] # NoRecord
  PROVE  /\ rec[c] \in Record
         /\ Examined(c) \in Record
         /\ Examined(c).created = rec[c].created
         /\ Examined(c).passed = rec[c].passed
         /\ Examined(c).connections >= rec[c].connections
         /\ "delay" \notin gl[c].flags => Examined(c).delay = rec[c].delay
         /\ "attempts" \notin gl[c].flags => Examined(c).attempts = rec[c].attempts
  <1>1. rec[c] \in Record /\ gl[c] \in Rules
    BY DEF TypeOK
  <1> DEFINE b == RcptOf[cur[c]] \in connCounted[c]
             e == Refreshed(rec[c], gl[c], b)
  <1>2. b \in BOOLEAN /\ Examined(c) = e
    BY DEF Examined
  <1> HIDE DEF b
  <1>3. /\ e \in Record /\ e.created = rec[c].created /\ e.passed = rec[c].passed
        /\ e.connections >= rec[c].connections
        /\ e.delay = Prop(gl[c], "delay", gl[c].delay, rec[c].delay)
        /\ e.attempts = Prop(gl[c], "attempts", gl[c].attempts, rec[c].attempts)
    BY <1>1, <1>2, RefreshedFacts
  <1> HIDE DEF e
  <1>4. QED
    BY <1>1, <1>2, <1>3 DEF Prop

\* Leaving a call keeps the types of the call's variables.
LEMMA LeaveType ==
  ASSUME TypeOK, NEW c \in Conns, NEW v \in Verdict, NEW d \in Nat, Leave(c, v, d)
  PROVE  /\ pc' \in [Conns -> {"closed", "idle", "get", "decide"}]
         /\ gl' \in [Conns -> Rules] /\ cur' \in [Conns -> Tuples]
         /\ todo' \in [Conns -> Seq(Tuples)]
         /\ rec' \in [Conns -> Record \cup {NoRecord}]
         /\ maxDelay' \in [Conns -> Nat] /\ delayed' \in [Conns -> Nat]
         /\ verdict' \in Verdict
  BY AnyoneType DEF Leave, TypeOK

\* Going on with the next recipient keeps them too.
LEMMA ProceedType ==
  ASSUME TypeOK, NEW c \in Conns, NEW d \in Nat, Proceed(c, d)
  PROVE  /\ pc' \in [Conns -> {"closed", "idle", "get", "decide"}]
         /\ gl' \in [Conns -> Rules] /\ cur' \in [Conns -> Tuples]
         /\ todo' \in [Conns -> Seq(Tuples)]
         /\ rec' \in [Conns -> Record \cup {NoRecord}]
         /\ maxDelay' \in [Conns -> Nat] /\ delayed' \in [Conns -> Nat]
         /\ verdict' \in Verdict
  <1> DEFINE longest == Larger(d, maxDelay[c])
  <1>1. longest \in Nat
    BY DEF Larger, TypeOK
  <1>2. CASE todo[c] = <<>>
    <2>1. Leave(c, "pass", longest) /\ "pass" \in Verdict
      BY <1>2 DEF Proceed, Verdict
    <2>2. QED
      BY <1>1, <2>1, LeaveType
  <1>3. CASE todo[c] # <<>>
    <2>1. todo[c] \in Seq(Tuples)
      BY DEF TypeOK
    <2>2. Head(todo[c]) \in Tuples /\ Tail(todo[c]) \in Seq(Tuples)
      BY <1>3, <2>1
    <2>3. /\ pc' = [pc EXCEPT ![c] = "get"]
          /\ cur' = [cur EXCEPT ![c] = Head(todo[c])]
          /\ todo' = [todo EXCEPT ![c] = Tail(todo[c])]
          /\ maxDelay' = [maxDelay EXCEPT ![c] = longest]
          /\ rec' = [rec EXCEPT ![c] = NoRecord]
          /\ verdict' = "none"
          /\ gl' = gl /\ delayed' = delayed
      BY <1>3 DEF Proceed
    <2> HIDE DEF longest
    <2>4. maxDelay' \in [Conns -> Nat]
      BY <1>1, <2>3 DEF TypeOK
    <2>5. cur' \in [Conns -> Tuples] /\ todo' \in [Conns -> Seq(Tuples)]
      BY <2>2, <2>3 DEF TypeOK
    <2>6. QED
      BY <2>3, <2>4, <2>5 DEF TypeOK, Verdict
  <1>4. QED
    BY <1>2, <1>3

\* Entering greylist() for a non-empty list of recipients.
LEMMA EnterType ==
  ASSUME TypeOK, NEW c \in Conns, NEW g \in Rules, NEW ts \in Seq(Tuples), ts # <<>>,
         Enter(c, g, ts)
  PROVE  TypeOK'
  <1>1. Head(ts) \in Tuples /\ Tail(ts) \in Seq(Tuples)
    OBVIOUS
  <1>2. QED
    BY <1>1 DEF Enter, TypeOK, Verdict, table, counted

\* Every step keeps the types.
LEMMA StepType ==
  ASSUME TypeOK, [Next]_vars
  PROVE  TypeOK'
  <1>1. ASSUME NEW c \in Conns, Connect(c) PROVE TypeOK'
    BY <1>1 DEF Connect, TypeOK, table, counted, Verdict
  <1>2. ASSUME NEW c \in Conns, NEW g \in Rules, NEW t \in Tuples, GreylistRcpt(c, g, t)
        PROVE  TypeOK'
    <2>1. <<t>> \in Seq(Tuples) /\ <<t>> # <<>>
      OBVIOUS
    <2>2. QED
      BY <1>2, <2>1, EnterType, Zenon DEF GreylistRcpt
  <1>3. ASSUME NEW c \in Conns, NEW g \in Rules, NEW n \in 1..MaxRcpts,
               GreylistMessage(c, g, n)
        PROVE  TypeOK'
    <2>1. PICK ts \in [1..n -> Tuples] : Enter(c, g, ts)
      BY <1>3 DEF GreylistMessage
    <2>2. ts \in Seq(Tuples) /\ Len(ts) = n
      BY n \in Nat
    <2>3. QED
      BY <2>1, <2>2, EnterType
  <1>4. ASSUME NEW c \in Conns, Lookup(c) PROVE TypeOK'
    BY <1>4 DEF Lookup, TypeOK, table, session, counted, Verdict
  <1>5. ASSUME NEW c \in Conns, Ignore(c) PROVE TypeOK'
    <2>1. Proceed(c, 0)
      BY <1>5 DEF Ignore
    <2>2. QED
      BY <1>5, <2>1, ProceedType, Zenon DEF Ignore, TypeOK, table, counted
  <1>6. ASSUME NEW c \in Conns, Add(c) PROVE TypeOK'
    <2>1. Leave(c, "defer", maxDelay[c]) /\ "defer" \in Verdict /\ maxDelay[c] \in Nat
      BY <1>6 DEF Add, Verdict, TypeOK
    <2>2. cur[c] \in Tuples /\ gl[c] \in Rules /\ received[c] \in Int
      BY DEF TypeOK
    <2>3. NewRecord(gl[c], received[c]) \in Record
      BY <2>2, NewRecordFacts
    <2>4. db' \in [Tuples -> Record \cup {NoRecord}]
      BY <1>6, <2>2, <2>3 DEF Add, TypeOK
    <2>5. births' \in [Tuples -> SUBSET Event]
      BY <1>6, <2>2 DEF Add, TypeOK, Event
    <2>6. QED
      BY <1>6, <2>1, <2>4, <2>5, LeaveType, Zenon DEF Add, TypeOK, counted
  <1>7. ASSUME NEW c \in Conns, Pass(c) PROVE TypeOK'
    <2> DEFINE b == RcptOf[cur[c]] \in passCounted[c]
               new == PassedRecord(Examined(c), received[c], b)
               d == IF new.passed = 1 THEN received[c] - new.created ELSE 0
    <2>1. cur[c] \in Tuples /\ received[c] \in Int /\ RcptOf[cur[c]] \in Rcpts
      BY DEF TypeOK
    <2>2. rec[c] # NoRecord /\ Passes(Examined(c), received[c])
      BY <1>7 DEF Pass, HasValidRecord
    <2>3. Examined(c) \in Record
      BY <2>2, ExaminedFacts
    <2>4. new \in Record /\ new.created = Examined(c).created
      <3>1. b \in BOOLEAN
        OBVIOUS
      <3> HIDE DEF b
      <3>2. QED
        BY <2>1, <2>3, <3>1, PassedRecordFacts
    <2>5. db' = [db EXCEPT ![cur[c]] = new] /\ Proceed(c, d)
      BY <1>7 DEF Pass
    <2> HIDE DEF new
    <2>6. d \in Nat
      BY <2>1, <2>2, <2>3, <2>4 DEF Passes, Record
    <2>7. db' \in [Tuples -> Record \cup {NoRecord}]
      BY <2>1, <2>4, <2>5 DEF TypeOK
    <2>8. connCounted' \in [Conns -> SUBSET Rcpts] /\ passCounted' \in [Conns -> SUBSET Rcpts]
      BY <1>7, <2>1 DEF Pass, CountConnection, CountPassed, TypeOK
    <2> HIDE DEF d
    <2>9. QED
      BY <1>7, <2>5, <2>6, <2>7, <2>8, ProceedType, Zenon DEF Pass, TypeOK
  <1>8. ASSUME NEW c \in Conns, Defer(c) PROVE TypeOK'
    <2>1. cur[c] \in Tuples /\ received[c] \in Int /\ RcptOf[cur[c]] \in Rcpts
      BY DEF TypeOK
    <2>2. DeferredRecord(Examined(c), received[c]) \in Record
      BY <1>8, <2>1, ExaminedFacts, DeferredRecordFacts DEF Defer, HasValidRecord
    <2>3. db' \in [Tuples -> Record \cup {NoRecord}]
      BY <1>8, <2>1, <2>2 DEF Defer, TypeOK
    <2>4. connCounted' \in [Conns -> SUBSET Rcpts]
      BY <1>8, <2>1 DEF Defer, CountConnection, TypeOK
    <2>5. Leave(c, "defer", maxDelay[c]) /\ "defer" \in Verdict /\ maxDelay[c] \in Nat
      BY <1>8 DEF Defer, Verdict, TypeOK
    <2>6. QED
      BY <1>8, <2>3, <2>4, <2>5, LeaveType DEF Defer, TypeOK
  <1>9. ASSUME NEW c \in Conns, EvalFails(c) PROVE TypeOK'
    <2>1. Leave(c, "error", maxDelay[c]) /\ "error" \in Verdict /\ maxDelay[c] \in Nat
      BY <1>9 DEF EvalFails, Verdict, TypeOK
    <2>2. QED
      BY <1>9, <2>1, LeaveType, Zenon DEF EvalFails, TypeOK, table, counted
  <1>10. ASSUME NEW c \in Conns, StoreFails(c) PROVE TypeOK'
    <2>1. Leave(c, "error", maxDelay[c]) /\ "error" \in Verdict /\ maxDelay[c] \in Nat
      BY <1>10 DEF StoreFails, Verdict, TypeOK
    <2>2. RcptOf[cur[c]] \in Rcpts
      BY DEF TypeOK
    <2>3. CountPassed(c) \/ UNCHANGED passCounted
      <3>1. CASE Passes(Examined(c), received[c])
        BY <1>10, <3>1, Zenon DEF StoreFails
      <3>2. CASE ~ Passes(Examined(c), received[c])
        BY <1>10, <3>2, Zenon DEF StoreFails
      <3>3. QED
        BY <3>1, <3>2
    <2>4. passCounted' \in [Conns -> SUBSET Rcpts]
      <3>1. passCounted \in [Conns -> SUBSET Rcpts]
        BY DEF TypeOK
      <3>2. CASE CountPassed(c)
        BY <2>2, <3>1, <3>2 DEF CountPassed
      <3>3. CASE UNCHANGED passCounted
        BY <3>1, <3>3
      <3>4. QED
        BY <2>3, <3>2, <3>3
    <2>5. connCounted' \in [Conns -> SUBSET Rcpts]
      BY <1>10, <2>2 DEF StoreFails, CountConnection, TypeOK
    <2>6. QED
      BY <1>10, <2>1, <2>4, <2>5, LeaveType, Zenon DEF StoreFails, TypeOK, table
  <1>11. ASSUME NEW t \in Tuples, OperatorGet(t) PROVE TypeOK'
    BY <1>11 DEF OperatorGet, TypeOK, table, session, counted, call, Verdict
  <1>12. ASSUME OperatorSet PROVE TypeOK'
    <2> DEFINE new == OperatorRecord(ctl.rec, now)
    <2>1. ctl.rec \in Record /\ ctl.tuple \in Tuples /\ now \in Int
      BY <1>12 DEF OperatorSet, TypeOK
    <2>2. new \in Record
      BY <2>1, OperatorRecordFacts
    <2>3. new.created \in Int
      BY <2>2 DEF Record
    <2>4. /\ db' = [db EXCEPT ![ctl.tuple] = new]
          /\ births' = [births EXCEPT ![ctl.tuple] =
                          births[ctl.tuple] \cup {[by |-> Operator, at |-> new.created]}]
      BY <1>12 DEF OperatorSet
    <2> HIDE DEF new
    <2>5. db' \in [Tuples -> Record \cup {NoRecord}]
      BY <2>1, <2>2, <2>4 DEF TypeOK
    <2>6. births' \in [Tuples -> SUBSET Event]
      BY <2>1, <2>3, <2>4 DEF TypeOK, Event
    <2>7. ctl' = [pc |-> "idle", tuple |-> Anyone, rec |-> NoRecord]
      BY <1>12 DEF OperatorSet
    <2>8. QED
      BY <1>12, <2>5, <2>6, <2>7, AnyoneType, SMTT(20)
      DEF OperatorSet, TypeOK, session, counted, call, Verdict
  <1>13. ASSUME JanitorCleanup PROVE TypeOK'
    <2>1. db' \in [Tuples -> Record \cup {NoRecord}]
      BY <1>13 DEF JanitorCleanup, TypeOK
    <2>2. schedule' \in Nat
      BY <1>13 DEF JanitorCleanup, TypeOK
    <2>3. QED
      BY <1>13, <2>1, <2>2 DEF JanitorCleanup, TypeOK, session, counted, call, Verdict
  <1>14. ASSUME Tick PROVE TypeOK'
    BY <1>14 DEF Tick, TypeOK, table, session, counted, call, Verdict
  <1>15. ASSUME UNCHANGED vars PROVE TypeOK'
    BY <1>15 DEF TypeOK, vars, table, session, counted, call
  <1>16. QED
    BY <1>1, <1>2, <1>3, <1>4, <1>5, <1>6, <1>7, <1>8, <1>9, <1>10, <1>11, <1>12, <1>13,
       <1>14, <1>15
    DEF Next, ConnStep

\* Whatever the connections, the operator and the janitor do to the table, every
\* record has the columns of the scheme and every call variable its type.
THEOREM TypeCorrect == Spec => []TypeOK
  <1>1. Init => TypeOK
    BY AnyoneType DEF Init, TypeOK, Verdict
  <1>2. QED
    BY <1>1, StepType, PTL DEF Spec

(***************************************************************************)
(* Visas are earned                                                        *)
(***************************************************************************)

\* PassedEarned is inductive once the types are known: the three places a record
\* can be (the table, a connection's copy, the operator's copy) exchange records
\* unchanged, and a new record is earned or has passed nothing.  greylist_pass
\* only ever holds records with nothing passed, which IdleCopy adds.
IdleCopy == ctl.pc = "set" => ctl.rec.passed = 0

\* What the operator is about to store.
LEMMA OperatorHolds ==
  ASSUME TypeOK, IdleCopy, OperatorSet
  PROVE  ctl.rec \in Record /\ ctl.tuple \in Tuples /\ now \in Int /\ ctl.rec.passed = 0
  <1>1. ctl.pc = "set"
    BY Zenon DEF OperatorSet
  <1>2. ctl \in [pc: {"idle", "set"}, tuple: Tuples, rec: Record \cup {NoRecord}]
    BY Zenon DEF TypeOK
  <1>3. ctl.rec \in Record \cup {NoRecord} /\ ctl.tuple \in Tuples
    BY <1>2
  <1>4. ctl.rec # NoRecord
    BY <1>1, Zenon DEF TypeOK
  <1>5. now \in Int
    BY DEF TypeOK
  <1>6. ctl.rec.passed = 0
    BY <1>1, Zenon DEF IdleCopy
  <1>7. QED
    BY <1>3, <1>4, <1>5, <1>6, Zenon

\* A call that ends, or goes on with the next recipient, drops its copy.
LEMMA CopyDropped ==
  ASSUME NEW c, NEW v, NEW d, Leave(c, v, d) \/ Proceed(c, d)
  PROVE  rec' = [rec EXCEPT ![c] = NoRecord]
  BY DEF Leave, Proceed

\* A decision that stores an earned record keeps PassedEarned.
LEMMA EarnedStore ==
  ASSUME TypeOK, PassedEarned, NEW c \in Conns, NEW t \in Tuples, NEW n, Earned(n),
         db' = [db EXCEPT ![t] = n], rec' = [rec EXCEPT ![c] = NoRecord], ctl' = ctl
  PROVE  PassedEarned'
  <1>1. Earned(NoRecord)
    BY DEF Earned
  <1>2. \A u \in Tuples : db'[u] = IF u = t THEN n ELSE db[u]
    BY DEF TypeOK
  <1>3. \A k \in Conns : rec'[k] = IF k = c THEN NoRecord ELSE rec[k]
    BY DEF TypeOK
  <1>4. \A u \in Tuples : Earned(db[u])
    BY DEF PassedEarned
  <1>5. \A k \in Conns : Earned(rec[k])
    BY DEF PassedEarned
  <1>6. \A u \in Tuples : Earned(db'[u])
    BY <1>2, <1>4
  <1>7. \A k \in Conns : Earned(rec'[k])
    BY <1>1, <1>3, <1>5
  <1>8. QED
    BY <1>6, <1>7 DEF PassedEarned

\* So does one that stores nothing.
LEMMA EarnedKeep ==
  ASSUME TypeOK, PassedEarned, NEW c \in Conns,
         db' = db, rec' = [rec EXCEPT ![c] = NoRecord], ctl' = ctl
  PROVE  PassedEarned'
  <1>1. \A k \in Conns : rec'[k] = IF k = c THEN NoRecord ELSE rec[k]
    BY DEF TypeOK
  <1>2. Earned(NoRecord)
    BY DEF Earned
  <1>3. \A k \in Conns : Earned(rec[k])
    BY DEF PassedEarned
  <1>4. \A k \in Conns : Earned(rec'[k])
    BY <1>1, <1>2, <1>3
  <1>5. QED
    BY <1>4 DEF PassedEarned

\* Every step keeps records earned, and the operator's record without passes.
LEMMA EarnedStep ==
  ASSUME TypeOK, PassedEarned, IdleCopy, [Next]_vars
  PROVE  PassedEarned' /\ IdleCopy'
  <1>1. ASSUME NEW c \in Conns, ConnStep(c) PROVE PassedEarned' /\ IdleCopy'
    <2>1. CASE Connect(c)
      BY <2>1, Zenon DEF Connect, PassedEarned, IdleCopy, table
    <2>2. ASSUME NEW g, NEW ts, Enter(c, g, ts) PROVE PassedEarned' /\ IdleCopy'
      BY <2>2, Zenon DEF Enter, PassedEarned, IdleCopy, table
    <2>3. ASSUME NEW g, NEW t, GreylistRcpt(c, g, t) PROVE PassedEarned' /\ IdleCopy'
      BY <2>2, <2>3 DEF GreylistRcpt
    <2>4. ASSUME NEW g, NEW n, GreylistMessage(c, g, n) PROVE PassedEarned' /\ IdleCopy'
      BY <2>2, <2>4 DEF GreylistMessage
    <2>5. CASE Lookup(c)
      <3>1. \A k \in Conns : rec'[k] = IF k = c THEN db[cur[c]] ELSE rec[k]
        BY <2>5 DEF Lookup, TypeOK
      <3>2. cur[c] \in Tuples
        BY DEF TypeOK
      <3>3. \A k \in Conns : Earned(rec'[k])
        BY <3>1, <3>2 DEF PassedEarned
      <3>4. QED
        BY <2>5, <3>3 DEF Lookup, PassedEarned, IdleCopy, table
    <2>6. CASE Ignore(c) \/ EvalFails(c) \/ StoreFails(c)
      <3>1. db' = db /\ ctl' = ctl
        BY <2>6, Zenon DEF Ignore, EvalFails, StoreFails, table
      <3>2. rec' = [rec EXCEPT ![c] = NoRecord]
        BY <2>6, CopyDropped, Zenon DEF Ignore, EvalFails, StoreFails
      <3>3. QED
        BY <3>1, <3>2, EarnedKeep, Zenon DEF IdleCopy
    <2>7. CASE Add(c)
      <3>1. cur[c] \in Tuples /\ gl[c] \in Rules /\ received[c] \in Int
        BY DEF TypeOK
      <3>2. NewRecord(gl[c], received[c]).passed = 0
        BY <3>1, NewRecordFacts
      <3>3. Earned(NewRecord(gl[c], received[c]))
        BY <3>2 DEF Earned
      <3>4. rec' = [rec EXCEPT ![c] = NoRecord]
        BY <2>7, CopyDropped, Zenon DEF Add
      <3>5. db' = [db EXCEPT ![cur[c]] = NewRecord(gl[c], received[c])] /\ ctl' = ctl
        BY <2>7, Zenon DEF Add
      <3>6. QED
        BY <3>1, <3>3, <3>4, <3>5, EarnedStore, Zenon DEF IdleCopy
    <2>8. CASE Pass(c)
      <3> DEFINE b == RcptOf[cur[c]] \in passCounted[c]
                 new == PassedRecord(Examined(c), received[c], b)
      <3>1. cur[c] \in Tuples /\ received[c] \in Int /\ b \in BOOLEAN
        BY DEF TypeOK
      <3>2. Passes(Examined(c), received[c]) /\ Examined(c) \in Record
        BY <2>8, ExaminedFacts, Zenon DEF Pass, HasValidRecord
      <3>3. db' = [db EXCEPT ![cur[c]] = new] /\ ctl' = ctl
        BY <2>8, Zenon DEF Pass
      <3>4. rec' = [rec EXCEPT ![c] = NoRecord]
        BY <2>8, CopyDropped, Zenon DEF Pass
      <3> HIDE DEF b
      <3>5. Earned(new)
        BY <3>1, <3>2, PassedRecordFacts, Zenon
      <3> HIDE DEF new
      <3>6. QED
        BY <3>1, <3>3, <3>4, <3>5, EarnedStore, Zenon DEF IdleCopy
    <2>9. CASE Defer(c)
      <3> DEFINE new == DeferredRecord(Examined(c), received[c])
      <3>1. cur[c] \in Tuples /\ received[c] \in Int
        BY DEF TypeOK
      <3>2. new.passed = 0
        BY <2>9, <3>1, ExaminedFacts, DeferredRecordFacts, Zenon DEF Defer, HasValidRecord
      <3>3. Earned(new)
        BY <3>2 DEF Earned
      <3>4. db' = [db EXCEPT ![cur[c]] = new] /\ ctl' = ctl
        BY <2>9, Zenon DEF Defer
      <3>5. rec' = [rec EXCEPT ![c] = NoRecord]
        BY <2>9, CopyDropped, Zenon DEF Defer
      <3>6. QED
        BY <3>1, <3>3, <3>4, <3>5, EarnedStore, Zenon DEF IdleCopy
    <2>10. QED
      BY <1>1, <2>1, <2>3, <2>4, <2>5, <2>6, <2>7, <2>8, <2>9 DEF ConnStep
  <1>2. ASSUME NEW t \in Tuples, OperatorGet(t) PROVE PassedEarned' /\ IdleCopy'
    BY <1>2, Zenon DEF OperatorGet, PassedEarned, IdleCopy, table, call
  <1>3. ASSUME OperatorSet PROVE PassedEarned' /\ IdleCopy'
    <2> DEFINE new == OperatorRecord(ctl.rec, now)
    <2>1. ctl.rec \in Record /\ ctl.tuple \in Tuples /\ now \in Int /\ ctl.rec.passed = 0
      BY <1>3, OperatorHolds, Zenon
    <2>2. new.passed = 0
      BY <2>1, OperatorRecordFacts
    <2>3. Earned(new) /\ Earned(NoRecord)
      BY <2>2 DEF Earned
    <2>4. \A u \in Tuples : db'[u] = IF u = ctl.tuple THEN new ELSE db[u]
      BY <1>3, <2>1 DEF OperatorSet, TypeOK
    <2>5. ctl'.pc = "idle" /\ ctl'.rec = NoRecord /\ rec' = rec
      BY <1>3 DEF OperatorSet, call
    <2> HIDE DEF new
    <2>6. \A u \in Tuples : Earned(db'[u])
      BY <2>3, <2>4, Zenon DEF PassedEarned
    <2>7. QED
      BY <2>3, <2>5, <2>6 DEF PassedEarned, IdleCopy
  <1>4. ASSUME JanitorCleanup PROVE PassedEarned' /\ IdleCopy'
    <2>1. \A u \in Tuples : db'[u] \in {NoRecord, db[u]}
      BY <1>4, Zenon DEF JanitorCleanup
    <2>2. Earned(NoRecord)
      BY DEF Earned
    <2>3. \A u \in Tuples : Earned(db'[u])
      BY <2>1, <2>2 DEF PassedEarned
    <2>4. QED
      BY <1>4, <2>3, Zenon DEF JanitorCleanup, PassedEarned, IdleCopy, call
  <1>5. ASSUME Tick PROVE PassedEarned' /\ IdleCopy'
    BY <1>5 DEF Tick, PassedEarned, IdleCopy, table, call
  <1>6. ASSUME UNCHANGED vars PROVE PassedEarned' /\ IdleCopy'
    BY <1>6 DEF PassedEarned, IdleCopy, vars, table, call
  <1>7. QED
    BY <1>1, <1>2, <1>3, <1>4, <1>5, <1>6 DEF Next

\* A record of the table counts passed messages only if greylist_recipient found
\* its delay and attempts met and renewed its visa, for any number of connections
\* racing on it with the operator and the janitor.
THEOREM VisasAreEarned == Spec => []PassedEarned
  <1>1. Init => PassedEarned /\ IdleCopy
    BY DEF Init, PassedEarned, IdleCopy, Earned
  <1>2. QED
    BY <1>1, TypeCorrect, EarnedStep, PTL DEF Spec

(***************************************************************************)
(* Visas are honoured                                                      *)
(***************************************************************************)

\* Only greylist_add and "Greylisting in action" answer ACL_GREYLIST.
LEMMA DeferringSteps ==
  ASSUME TypeOK, NEW c \in Conns, [Next]_vars, Defers(c)
  PROVE  Add(c) \/ Defer(c)
  <1>1. pc[c] = "decide" /\ pc'[c] # pc[c] /\ verdict' = "defer"
    BY DEF Defers
  <1>2. Next
    BY <1>1 DEF vars, call
  <1>3. ~ OperatorSet /\ ~ JanitorCleanup /\ ~ Tick /\ \A t \in Tuples : ~ OperatorGet(t)
    BY <1>1, Zenon DEF OperatorSet, JanitorCleanup, Tick, OperatorGet
  <1>4. PICK k \in Conns : ConnStep(k)
    BY <1>2, <1>3 DEF Next
  <1>5. ~ Connect(k) /\ ~ Lookup(k)
    BY <1>1, Zenon DEF Connect, Lookup
  <1>6. /\ \A g \in Rules, t \in Tuples : ~ GreylistRcpt(k, g, t)
        /\ \A g \in Rules, n \in 1..MaxRcpts : ~ GreylistMessage(k, g, n)
    BY <1>1 DEF GreylistRcpt, GreylistMessage, Enter
  <1>7. ~ Ignore(k) /\ ~ Pass(k)
    BY <1>1, Zenon DEF Ignore, Pass, Proceed, Leave
  <1>8. ~ EvalFails(k) /\ ~ StoreFails(k)
    BY <1>1 DEF EvalFails, StoreFails, Leave
  <1>9. Add(k) \/ Defer(k)
    BY <1>4, <1>5, <1>6, <1>7, <1>8 DEF ConnStep
  <1>10. pc' = [pc EXCEPT ![k] = "idle"]
    BY <1>9, Zenon DEF Add, Defer, Leave
  <1>11. k = c
    BY <1>1, <1>10 DEF TypeOK
  <1>12. QED
    BY <1>9, <1>11

\* greylist_recipient never defers a tuple whose visa is valid for a connection
\* that arrived no earlier than its last use, under a rule that asks for no other
\* delay or attempts: an earned visa meets both thresholds ever after.
THEOREM VisasAreHonoured == Spec => VisaHonoured
  <1>1. ASSUME TypeOK, PassedEarned, [Next]_vars, NEW c \in Conns, HoldsVisa(c), Defers(c)
        PROVE  FALSE
    <2>1. HasValidRecord(c) /\ rec[c] # NoRecord
      BY <1>1, Zenon DEF HoldsVisa, HasValidRecord
    <2>2. ~ Add(c)
      BY <2>1, Zenon DEF Add, HasValidRecord
    <2>3. Defer(c)
      BY <1>1, <2>2, DeferringSteps
    <2>4. ~ Passes(Examined(c), received[c])
      BY <2>3, Zenon DEF Defer
    <2>5. rec[c] \in Record /\ Examined(c) \in Record /\ received[c] \in Int
      <3>1. rec[c] \in Record /\ Examined(c) \in Record
        BY <1>1, <2>1, ExaminedFacts, Zenon
      <3>2. received[c] \in Int
        BY <1>1, BoundAssumption DEF TypeOK
      <3>3. QED
        BY <3>1, <3>2
    <2>6. /\ rec[c].updated - rec[c].created > rec[c].delay
          /\ rec[c].connections > rec[c].attempts
      BY <1>1, <2>1, Zenon DEF PassedEarned, Earned, HoldsVisa
    <2>7. /\ Examined(c).created = rec[c].created
          /\ Examined(c).connections >= rec[c].connections
          /\ Examined(c).delay = rec[c].delay
          /\ Examined(c).attempts = rec[c].attempts
      BY <1>1, <2>1, ExaminedFacts DEF HoldsVisa
    <2>8. received[c] >= rec[c].updated
      BY <1>1 DEF HoldsVisa
    <2>9. /\ rec[c].created \in Int /\ rec[c].updated \in Int /\ rec[c].delay \in Nat
          /\ rec[c].connections \in Nat /\ rec[c].attempts \in Nat
          /\ Examined(c).connections \in Nat
      BY <2>5 DEF Record
    <2>10. received[c] - Examined(c).created > Examined(c).delay
      BY <2>5, <2>6, <2>7, <2>8, <2>9
    <2>11. Examined(c).connections > Examined(c).attempts
      BY <2>6, <2>7, <2>9
    <2>12. QED
      BY <2>4, <2>10, <2>11 DEF Passes
  <1>2. TypeOK /\ PassedEarned /\ [Next]_vars
          => [\A c \in Conns : HoldsVisa(c) => ~ Defers(c)]_vars
    BY <1>1
  <1>3. QED
    BY <1>2, TypeCorrect, VisasAreEarned, PTL DEF Spec, VisaHonoured

(***************************************************************************)
(* Nobody passes for free                                                  *)
(***************************************************************************)

\* A record's creation time was given by one of the tuple's events ...
Born(t, r) == r # NoRecord => \E e \in births[t] : e.at = r.created

\* ... and a connection's own events carry the time it was received.  A connection
\* holds a copy only while it decides, of the tuple it examines.
BirthInv ==
  /\ \A t \in Tuples : Born(t, db[t])
  /\ \A c \in Conns : Born(cur[c], rec[c])
  /\ \A c \in Conns : rec[c] # NoRecord => pc[c] = "decide"
  /\ \A t \in Tuples : \A e \in births[t] :
       e.by \in Conns => pc[e.by] # "closed" /\ e.at = received[e.by]

\* A step that leaves the table and the arrival times alone, drops at most the
\* copy of connection c and moves no other connection.
LEMMA BirthKeep ==
  ASSUME TypeOK, BirthInv, NEW c \in Conns, db' = db, births' = births, received' = received,
         rec' = [rec EXCEPT ![c] = NoRecord], pc'[c] # "closed",
         \A k \in Conns \ {c} : pc'[k] = pc[k] /\ cur'[k] = cur[k]
  PROVE  BirthInv'
  <1>1. \A k \in Conns : rec'[k] = IF k = c THEN NoRecord ELSE rec[k]
    BY Zenon DEF TypeOK
  <1>2. \A t \in Tuples : Born(t, db[t])'
    BY Zenon DEF BirthInv, Born
  <1>3. \A k \in Conns : Born(cur[k], rec[k])'
    BY <1>1 DEF BirthInv, Born
  <1>4. \A k \in Conns : rec'[k] # NoRecord => pc'[k] = "decide"
    BY <1>1 DEF BirthInv
  <1>5. \A t \in Tuples : \A e \in births'[t] :
          e.by \in Conns => pc'[e.by] # "closed" /\ e.at = received'[e.by]
    BY DEF BirthInv
  <1>6. QED
    BY <1>2, <1>3, <1>4, <1>5, Zenon DEF BirthInv

\* A decision stores record n of the examined tuple and adds the events E: what is
\* known of the next state, point by point.
Stored(c, n, E) ==
  /\ \A k \in Conns : cur[k] \in Tuples
  /\ \A e \in E : e.by = c /\ e.at = received[c]
  /\ \A t \in Tuples : db'[t] = IF t = cur[c] THEN n ELSE db[t]
  /\ \A t \in Tuples : births'[t] = IF t = cur[c] THEN births[t] \cup E ELSE births[t]
  /\ \E e \in births[cur[c]] \cup E : e.at = n.created
  /\ received' = received
  /\ \A k \in Conns : rec'[k] = IF k = c THEN NoRecord ELSE rec[k]
  /\ pc'[c] # "closed"
  /\ \A k \in Conns \ {c} : pc'[k] = pc[k] /\ cur'[k] = cur[k]

\* The record keeps the creation time of a known event, old or added by the step.
LEMMA BirthStorePoints ==
  ASSUME BirthInv, NEW c \in Conns, NEW n, NEW E, Stored(c, n, E)
  PROVE  BirthInv'
  <1> USE DEF Stored
  <1>1. ASSUME NEW t \in Tuples PROVE Born(t, db[t])'
    <2>1. CASE t = cur[c]
      BY <2>1, Zenon DEF Born
    <2>2. CASE t # cur[c]
      <3>1. db'[t] = db[t] /\ births'[t] = births[t] /\ Born(t, db[t])
        BY <2>2, Zenon DEF BirthInv
      <3>2. QED
        BY <3>1, Zenon DEF Born
    <2>3. QED
      BY <2>1, <2>2, Zenon
  <1>2. ASSUME NEW k \in Conns PROVE Born(cur[k], rec[k])'
    <2>1. CASE k = c
      BY <2>1 DEF Born
    <2>2. CASE k # c
      <3>1. cur'[k] = cur[k] /\ rec'[k] = rec[k] /\ Born(cur[k], rec[k])
        BY <2>2, Zenon DEF BirthInv
      <3>2. births[cur[k]] \subseteq births'[cur[k]]
        BY Zenon
      <3>3. QED
        BY <3>1, <3>2, Zenon DEF Born
    <2>3. QED
      BY <2>1, <2>2, Zenon
  <1>3. \A k \in Conns : rec'[k] # NoRecord => pc'[k] = "decide"
    BY DEF BirthInv
  <1>4. ASSUME NEW t \in Tuples, NEW e \in births'[t], e.by \in Conns
        PROVE  pc'[e.by] # "closed" /\ e.at = received'[e.by]
    <2>1. CASE e \in births[t]
      <3>1. pc[e.by] # "closed" /\ e.at = received[e.by]
        BY <1>4, <2>1, Zenon DEF BirthInv
      <3>2. QED
        BY <1>4, <3>1
    <2>2. CASE e \in E
      BY <2>2
    <2>3. e \in births[t] \/ e \in E
      BY <1>4, Zenon
    <2>4. QED
      BY <2>1, <2>2, <2>3
  <1>5. QED
    BY <1>1, <1>2, <1>3, <1>4, Zenon DEF BirthInv

\* dbt_db_set of a connection on its tuple keeps every record traced to its creation.
LEMMA BirthStore ==
  ASSUME TypeOK, BirthInv, NEW c \in Conns, NEW n, NEW E,
         E \subseteq {[by |-> c, at |-> received[c]]},
         db' = [db EXCEPT ![cur[c]] = n],
         births' = [births EXCEPT ![cur[c]] = births[cur[c]] \cup E],
         \E e \in births[cur[c]] \cup E : e.at = n.created,
         received' = received,
         rec' = [rec EXCEPT ![c] = NoRecord], pc'[c] # "closed",
         \A k \in Conns \ {c} : pc'[k] = pc[k] /\ cur'[k] = cur[k]
  PROVE  BirthInv'
  <1>1. \A k \in Conns : rec'[k] = IF k = c THEN NoRecord ELSE rec[k]
    BY Zenon DEF TypeOK
  <1>2. cur[c] \in Tuples /\ \A k \in Conns : cur[k] \in Tuples
    BY Zenon DEF TypeOK
  <1>3. \A t \in Tuples : births'[t] = IF t = cur[c] THEN births[t] \cup E ELSE births[t]
    BY <1>2, Zenon DEF TypeOK
  <1>4. \A t \in Tuples : db'[t] = IF t = cur[c] THEN n ELSE db[t]
    BY <1>2, Zenon DEF TypeOK
  <1>5. ASSUME NEW e \in E PROVE e.by = c /\ e.at = received[c]
    <2>1. e = [by |-> c, at |-> received[c]]
      OBVIOUS
    <2>2. QED
      BY <2>1, Zenon
  <1>6. Stored(c, n, E)
    BY <1>1, <1>2, <1>3, <1>4, <1>5, Zenon DEF Stored
  <1>7. QED
    BY <1>6, BirthStorePoints, Zenon

\* Ending a call, or going on, moves no other connection.
LEMMA OthersStay ==
  ASSUME TypeOK, NEW c \in Conns, NEW v, NEW d, Leave(c, v, d) \/ Proceed(c, d)
  PROVE  /\ pc'[c] # "closed"
         /\ \A k \in Conns \ {c} : pc'[k] = pc[k] /\ cur'[k] = cur[k]
  <1>1. CASE Leave(c, v, d)
    BY <1>1 DEF Leave, TypeOK
  <1>2. CASE Proceed(c, d) /\ todo[c] = <<>>
    <2>1. pc' = [pc EXCEPT ![c] = "idle"] /\ cur' = [cur EXCEPT ![c] = Anyone]
      BY <1>2, Zenon DEF Proceed, Leave
    <2>2. QED
      BY <2>1 DEF TypeOK
  <1>3. CASE Proceed(c, d) /\ todo[c] # <<>>
    <2>1. pc' = [pc EXCEPT ![c] = "get"] /\ cur' = [cur EXCEPT ![c] = Head(todo[c])]
      BY <1>3 DEF Proceed
    <2>2. QED
      BY <2>1 DEF TypeOK
  <1>4. QED
    BY <1>1, <1>2, <1>3, Zenon

\* Every step keeps every record traced to its creation.
LEMMA BirthStep ==
  ASSUME TypeOK, BirthInv, [Next]_vars
  PROVE  BirthInv'
  <1>1. ASSUME NEW c \in Conns, ConnStep(c) PROVE BirthInv'
    <2>1. CASE Connect(c)
      <3>1. /\ pc[c] = "closed"
            /\ \A k \in Conns : pc'[k] = IF k = c THEN "idle" ELSE pc[k]
            /\ \A k \in Conns : received'[k] = IF k = c THEN now ELSE received[k]
            /\ db' = db /\ births' = births /\ rec' = rec /\ cur' = cur
        BY <2>1 DEF Connect, TypeOK, table
      <3>2. QED
        BY <3>1, Zenon DEF BirthInv, Born
    <2>2. ASSUME NEW g, NEW ts, Enter(c, g, ts) PROVE BirthInv'
      <3>1. /\ pc[c] = "idle"
            /\ \A k \in Conns : pc'[k] = IF k = c THEN "get" ELSE pc[k]
            /\ \A k \in Conns \ {c} : cur'[k] = cur[k]
            /\ db' = db /\ births' = births /\ rec' = rec /\ received' = received
        BY <2>2 DEF Enter, TypeOK, table
      <3>2. rec[c] = NoRecord
        BY <3>1, Zenon DEF BirthInv
      <3>3. \A t \in Tuples : Born(t, db[t])'
        BY <3>1, Zenon DEF BirthInv, Born
      <3>4. \A k \in Conns : Born(cur[k], rec[k])'
        BY <3>1, <3>2, Zenon DEF BirthInv, Born
      <3>5. \A k \in Conns : rec'[k] # NoRecord => pc'[k] = "decide"
        BY <3>1, <3>2, Zenon DEF BirthInv
      <3>6. \A t \in Tuples : \A e \in births'[t] :
              e.by \in Conns => pc'[e.by] # "closed" /\ e.at = received'[e.by]
        BY <3>1, Zenon DEF BirthInv
      <3>7. QED
        BY <3>3, <3>4, <3>5, <3>6, Zenon DEF BirthInv
    <2>3. ASSUME NEW g, NEW t, GreylistRcpt(c, g, t) PROVE BirthInv'
      BY <2>2, <2>3 DEF GreylistRcpt
    <2>4. ASSUME NEW g, NEW n, GreylistMessage(c, g, n) PROVE BirthInv'
      BY <2>2, <2>4 DEF GreylistMessage
    <2>5. CASE Lookup(c)
      <3>1. /\ \A k \in Conns : rec'[k] = IF k = c THEN db[cur[c]] ELSE rec[k]
            /\ \A k \in Conns : pc'[k] = IF k = c THEN "decide" ELSE pc[k]
            /\ db' = db /\ births' = births /\ cur' = cur /\ received' = received
        BY <2>5 DEF Lookup, TypeOK, table, session
      <3>2. cur[c] \in Tuples
        BY DEF TypeOK
      <3>3. QED
        BY <3>1, <3>2, SMTT(20) DEF BirthInv, Born
    <2>6. CASE Ignore(c) \/ EvalFails(c) \/ StoreFails(c)
      <3>1. db' = db /\ births' = births /\ received' = received
        BY <2>6, Zenon DEF Ignore, EvalFails, StoreFails, table
      <3>2. Proceed(c, 0) \/ Leave(c, "error", maxDelay[c])
        BY <2>6, Zenon DEF Ignore, EvalFails, StoreFails
      <3>3. QED
        BY <3>1, <3>2, CopyDropped, OthersStay, BirthKeep, Zenon
    <2>7. CASE Add(c)
      <3> DEFINE n == NewRecord(gl[c], received[c])
                 E == {[by |-> c, at |-> received[c]]}
      <3>1. gl[c] \in Rules /\ received[c] \in Int
        BY DEF TypeOK
      <3>2. n.created = received[c]
        BY <3>1, NewRecordFacts
      <3>3. /\ db' = [db EXCEPT ![cur[c]] = n] /\ received' = received
            /\ births' = [births EXCEPT ![cur[c]] = births[cur[c]] \cup E]
            /\ Leave(c, "defer", maxDelay[c])
        BY <2>7, Zenon DEF Add
      <3> HIDE DEF n
      <3>4. \E e \in births[cur[c]] \cup E : e.at = n.created
        <4>1. [by |-> c, at |-> received[c]].at = n.created
          BY <3>2
        <4>2. [by |-> c, at |-> received[c]] \in births[cur[c]] \cup E
          OBVIOUS
        <4>3. QED
          BY <4>1, <4>2, Zenon
      <3> HIDE DEF E
      <3>5. E \subseteq {[by |-> c, at |-> received[c]]}
        BY DEF E
      <3>6. QED
        BY <3>3, <3>4, <3>5, CopyDropped, OthersStay, BirthStore, ZenonT(40)
    <2>8. ASSUME NEW n, NEW v, NEW d, rec[c] # NoRecord, n.created = rec[c].created,
                 db' = [db EXCEPT ![cur[c]] = n], births' = births, received' = received,
                 Leave(c, v, d) \/ Proceed(c, d)
          PROVE  BirthInv'
      <3> DEFINE E == {}
      <3>1. births' = [births EXCEPT ![cur[c]] = births[cur[c]] \cup E]
        BY <2>8 DEF TypeOK
      <3>2. \E e \in births[cur[c]] \cup E : e.at = n.created
        BY <2>8, Zenon DEF BirthInv, Born
      <3>3. E \subseteq {[by |-> c, at |-> received[c]]}
        OBVIOUS
      <3>4. rec' = [rec EXCEPT ![c] = NoRecord]
        BY <2>8, CopyDropped
      <3>5. /\ pc'[c] # "closed"
            /\ \A k \in Conns \ {c} : pc'[k] = pc[k] /\ cur'[k] = cur[k]
        BY <2>8, OthersStay, Zenon
      <3> HIDE DEF E
      <3>6. QED
        BY <2>8, <3>1, <3>2, <3>3, <3>4, <3>5, BirthStore, Zenon
    <2>9. CASE Pass(c)
      <3> DEFINE b == RcptOf[cur[c]] \in passCounted[c]
                 n == PassedRecord(Examined(c), received[c], b)
                 d == IF n.passed = 1 THEN received[c] - n.created ELSE 0
      <3>1. received[c] \in Int /\ b \in BOOLEAN
        BY DEF TypeOK
      <3>2. rec[c] # NoRecord
        BY <2>9, Zenon DEF Pass, HasValidRecord
      <3>3. /\ db' = [db EXCEPT ![cur[c]] = n] /\ births' = births /\ received' = received
            /\ Proceed(c, d)
        BY <2>9, Zenon DEF Pass
      <3> HIDE DEF b
      <3>4. n.created = rec[c].created
        BY <3>1, <3>2, ExaminedFacts, PassedRecordFacts, Zenon
      <3> HIDE DEF d, n
      <3>5. QED
        BY <2>8, <3>2, <3>3, <3>4, Zenon
    <2>10. CASE Defer(c)
      <3> DEFINE n == DeferredRecord(Examined(c), received[c])
      <3>1. received[c] \in Int
        BY DEF TypeOK
      <3>2. rec[c] # NoRecord
        BY <2>10, Zenon DEF Defer, HasValidRecord
      <3>3. /\ db' = [db EXCEPT ![cur[c]] = n] /\ births' = births /\ received' = received
            /\ Leave(c, "defer", maxDelay[c])
        BY <2>10, Zenon DEF Defer
      <3>4. n.created = rec[c].created
        BY <3>1, <3>2, ExaminedFacts, DeferredRecordFacts
      <3> HIDE DEF n
      <3>5. QED
        BY <2>8, <3>2, <3>3, <3>4, Zenon
    <2>11. QED
      BY <1>1, <2>1, <2>3, <2>4, <2>5, <2>6, <2>7, <2>9, <2>10 DEF ConnStep
  <1>2. ASSUME NEW t \in Tuples, OperatorGet(t) PROVE BirthInv'
    BY <1>2, Zenon DEF OperatorGet, BirthInv, Born, table, session, call
  <1>3. ASSUME OperatorSet PROVE BirthInv'
    <2> DEFINE n == OperatorRecord(ctl.rec, now)
               e0 == [by |-> Operator, at |-> n.created]
    <2>1. ctl.tuple \in Tuples /\ \A k \in Conns : cur[k] \in Tuples
      BY DEF TypeOK
    <2>2. /\ \A u \in Tuples : db'[u] = IF u = ctl.tuple THEN n ELSE db[u]
          /\ \A u \in Tuples : births'[u] =
               IF u = ctl.tuple THEN births[u] \cup {e0} ELSE births[u]
      BY <1>3, Zenon DEF OperatorSet, TypeOK
    <2>3. e0.at = n.created /\ e0.by \notin Conns
      OBVIOUS
    <2>4. pc' = pc /\ cur' = cur /\ rec' = rec /\ received' = received
      BY <1>3 DEF OperatorSet, call, session
    <2> HIDE DEF n, e0
    <2>5. ASSUME NEW u \in Tuples PROVE Born(u, db[u])'
      <3>1. CASE u = ctl.tuple
        BY <2>2, <2>3, <3>1, Zenon DEF Born
      <3>2. CASE u # ctl.tuple
        <4>1. db'[u] = db[u] /\ births'[u] = births[u]
          BY <2>2, <3>2, Zenon
        <4>2. Born(u, db[u])
          BY Zenon DEF BirthInv
        <4>3. QED
          BY <4>1, <4>2, Zenon DEF Born
      <3>3. QED
        BY <3>1, <3>2, Zenon
    <2>6. \A k \in Conns : Born(cur[k], rec[k])'
      BY <2>1, <2>2, <2>4, Zenon DEF BirthInv, Born
    <2>7. ASSUME NEW u \in Tuples, NEW e \in births'[u], e.by \in Conns
          PROVE  pc'[e.by] # "closed" /\ e.at = received'[e.by]
      <3>1. e # e0
        BY <2>3, <2>7, Zenon
      <3>2. e \in births[u]
        <4>1. e \in births[u] \cup {e0}
          BY <2>2, <2>7, Zenon
        <4>2. QED
          BY <3>1, <4>1
      <3>3. QED
        BY <2>4, <2>7, <3>2, Zenon DEF BirthInv
    <2>8. QED
      BY <2>4, <2>5, <2>6, <2>7, Zenon DEF BirthInv
  <1>4. ASSUME JanitorCleanup PROVE BirthInv'
    <2>1. \A u \in Tuples : db'[u] \in {NoRecord, db[u]}
      BY <1>4, Zenon DEF JanitorCleanup
    <2>2. births' = births /\ pc' = pc /\ cur' = cur /\ rec' = rec /\ received' = received
      BY <1>4, Zenon DEF JanitorCleanup, call, session
    <2>3. \A u \in Tuples : Born(u, db'[u])
      <3>1. \A u \in Tuples : Born(u, db[u])
        BY Zenon DEF BirthInv
      <3>2. \A u \in Tuples : Born(u, NoRecord)
        BY Zenon DEF Born
      <3>3. QED
        BY <2>1, <3>1, <3>2, Zenon
    <2>4. QED
      BY <2>2, <2>3, Zenon DEF BirthInv, Born
  <1>5. ASSUME Tick PROVE BirthInv'
    BY <1>5, Zenon DEF Tick, BirthInv, Born, table, session, call
  <1>6. ASSUME UNCHANGED vars PROVE BirthInv'
    BY <1>6, Zenon DEF BirthInv, Born, vars, table, session, call
  <1>7. QED
    BY <1>1, <1>2, <1>3, <1>4, <1>5, <1>6 DEF Next

\* Only a pass lets a tuple with a valid record through.
LEMMA PassingSteps ==
  ASSUME TypeOK, NEW c \in Conns, [Next]_vars, LetsPass(c)
  PROVE  Passes(Examined(c), received[c])
  <1>1. pc[c] = "decide" /\ pc'[c] # pc[c] /\ verdict' \in {"none", "pass"} /\ HasValidRecord(c)
    BY DEF LetsPass, HasValidRecord
  <1>2. Next
    BY <1>1 DEF vars, call
  <1>3. ~ OperatorSet /\ ~ JanitorCleanup /\ ~ Tick /\ \A t \in Tuples : ~ OperatorGet(t)
    BY <1>1, Zenon DEF OperatorSet, JanitorCleanup, Tick, OperatorGet, call
  <1>4. PICK k \in Conns : ConnStep(k)
    BY <1>2, <1>3 DEF Next
  <1>5. ~ Add(k) /\ ~ Defer(k) /\ ~ EvalFails(k) /\ ~ StoreFails(k)
    BY <1>1, Zenon DEF Add, Defer, EvalFails, StoreFails, Leave
  <1>6. k = c
    <2>1. SUFFICES ASSUME k # c PROVE pc'[c] = pc[c]
      BY <1>1, Zenon
    <2>2. CASE Connect(k) \/ Lookup(k)
      BY <2>1, <2>2 DEF Connect, Lookup, TypeOK
    <2>3. CASE \E g, ts : Enter(k, g, ts)
      BY <2>1, <2>3 DEF Enter, TypeOK
    <2>4. CASE Ignore(k) \/ Pass(k)
      BY <2>1, <2>4, OthersStay, Zenon DEF Ignore, Pass
    <2>5. QED
      BY <1>4, <1>5, <2>2, <2>3, <2>4, Zenon DEF ConnStep, GreylistRcpt, GreylistMessage
  <1>7. ~ Connect(c) /\ ~ Lookup(c) /\ ~ Ignore(c)
    BY <1>1, Zenon DEF Connect, Lookup, Ignore, HasValidRecord
  <1>8. \A g, ts : ~ Enter(c, g, ts)
    BY <1>1 DEF Enter
  <1>9. Pass(c)
    BY <1>4, <1>5, <1>6, <1>7, <1>8, Zenon DEF ConnStep, GreylistRcpt, GreylistMessage
  <1>10. QED
    BY <1>9, Zenon DEF Pass

\* greylist_recipient lets a tuple pass only after another connection, or the
\* operator, created its record more than the required delay before this one
\* arrived: no connection can serve its own delay.
THEOREM NoFreePass == Spec => NobodyPassesForFree
  <1>1. ASSUME TypeOK, BirthInv, [Next]_vars, NEW c \in Conns, LetsPass(c)
        PROVE  DelayServed(c)
    <2>1. Passes(Examined(c), received[c])
      BY <1>1, PassingSteps
    <2>2. rec[c] # NoRecord /\ cur[c] \in Tuples /\ received[c] \in Int
      BY <1>1 DEF LetsPass, HasValidRecord, TypeOK
    <2>3. PICK e \in births[cur[c]] : e.at = rec[c].created
      BY <1>1, <2>2, Zenon DEF BirthInv, Born
    <2>4. Examined(c) \in Record /\ Examined(c).created = rec[c].created
      BY <1>1, <2>2, ExaminedFacts, Zenon
    <2>5. received[c] - e.at > Examined(c).delay /\ Examined(c).delay \in Nat /\ e.at \in Int
      BY <2>1, <2>3, <2>4, Zenon DEF Passes, Record
    <2>6. e.by = c => e.at = received[c]
      BY <1>1, <2>2, <2>3, Zenon DEF BirthInv
    <2>7. e.at # received[c]
      BY <2>2, <2>5
    <2>8. QED
      BY <2>5, <2>6, <2>7, Zenon DEF DelayServed
  <1>2. TypeOK /\ BirthInv /\ [Next]_vars
          => [\A c \in Conns : LetsPass(c) => DelayServed(c)]_vars
    BY <1>1
  <1>3. Init => BirthInv
    BY DEF Init, BirthInv, Born
  <1>4. QED
    BY <1>2, <1>3, TypeCorrect, BirthStep, PTL DEF Spec, NobodyPassesForFree

(***************************************************************************)
(* Passed messages are counted once per connection                         *)
(***************************************************************************)

\* How many connections have marked the recipient of t in the lists P.
Marked(P, t) == Cardinality({c \in Conns : RcptOf[t] \in P[c]})

\* A record of tuple t counts no more passed messages than that.
Bounded(r, P, t) == r # NoRecord => r.passed <= Marked(P, t)

\* PassedCountedOnce speaks of the table only; a connection writes back a copy it
\* read earlier, so the copy it decides on is bounded as well.
CountInv ==
  /\ \A t \in Tuples : Bounded(db[t], passCounted, t)
  /\ \A c \in Conns : pc[c] = "decide" => Bounded(rec[c], passCounted, cur[c])

\* The marks of greylist_passed_counted are never taken back.
MarksStay == \A k \in Conns : passCounted[k] \subseteq passCounted'[k]

\* What a step may do to the table: delete, keep, or store a bounded record.
StoresBounded ==
  \A t \in Tuples : db'[t] \in {NoRecord, db[t]} \/ Bounded(db'[t], passCounted', t)

\* What a step may do to the copies: keep them, or read the table.
CopiesFromTable ==
  \A k \in Conns : pc'[k] = "decide" =>
    /\ cur'[k] = cur[k]
    /\ rec'[k] = db[cur[k]] \/ (pc[k] = "decide" /\ rec'[k] = rec[k])

\* While marks stay, the number of connections that marked a tuple only grows.
LEMMA MarkedGrows ==
  ASSUME MarksStay, NEW t \in Tuples
  PROVE  /\ Marked(passCounted, t) \in Nat
         /\ Marked(passCounted', t) \in Nat
         /\ Marked(passCounted, t) <= Marked(passCounted', t)
  <1> DEFINE P == {c \in Conns : RcptOf[t] \in passCounted[c]}
             Q == {c \in Conns : RcptOf[t] \in passCounted'[c]}
  <1>1. P \subseteq Q /\ Q \subseteq Conns
    BY Zenon DEF MarksStay
  <1>2. Marked(passCounted, t) = Cardinality(P) /\ Marked(passCounted', t) = Cardinality(Q)
    BY Zenon DEF Marked
  <1> HIDE DEF P, Q
  <1>3. IsFiniteSet(Q)
    BY <1>1, FS_Subset
  <1>4. IsFiniteSet(P) /\ Cardinality(P) <= Cardinality(Q)
    BY <1>1, <1>3, FS_Subset
  <1>5. Cardinality(P) \in Nat /\ Cardinality(Q) \in Nat
    BY <1>3, <1>4, FS_CardinalityType
  <1>6. QED
    BY <1>2, <1>4, <1>5

\* A connection that marks a recipient for the first time is one more.
LEMMA MarkedOnce ==
  ASSUME TypeOK, NEW c \in Conns, NEW t \in Tuples, RcptOf[t] \notin passCounted[c],
         passCounted' = [passCounted EXCEPT ![c] = @ \cup {RcptOf[t]}]
  PROVE  Marked(passCounted', t) = Marked(passCounted, t) + 1
  <1> DEFINE P == {k \in Conns : RcptOf[t] \in passCounted[k]}
             Q == {k \in Conns : RcptOf[t] \in passCounted'[k]}
  <1>1. \A k \in Conns : passCounted'[k] = IF k = c THEN passCounted[c] \cup {RcptOf[t]}
                                           ELSE passCounted[k]
    BY DEF TypeOK
  <1>2. Q = P \cup {c} /\ c \notin P /\ P \subseteq Conns
    BY <1>1
  <1>3. Marked(passCounted, t) = Cardinality(P) /\ Marked(passCounted', t) = Cardinality(Q)
    BY DEF Marked
  <1> HIDE DEF P, Q
  <1>4. IsFiniteSet(P)
    BY <1>2, FS_Subset
  <1>5. Cardinality(P \cup {c}) = Cardinality(P) + 1
    BY <1>2, <1>4, FS_AddElement, Zenon
  <1>6. QED
    BY <1>2, <1>3, <1>5

\* A step of that shape keeps the records bounded.
LEMMA CountKept ==
  ASSUME TypeOK, CountInv, MarksStay, StoresBounded, CopiesFromTable
  PROVE  CountInv'
  <1>1. ASSUME NEW r \in Record \cup {NoRecord}, NEW t \in Tuples, Bounded(r, passCounted, t)
        PROVE  Bounded(r, passCounted', t)
    <2>1. r # NoRecord => r.passed \in Nat
      BY DEF Record
    <2>2. QED
      BY <1>1, <2>1, MarkedGrows DEF Bounded
  <1>2. ASSUME NEW t \in Tuples PROVE Bounded(db'[t], passCounted', t)
    <2>1. db[t] \in Record \cup {NoRecord} /\ Bounded(db[t], passCounted, t)
      BY DEF TypeOK, CountInv
    <2>2. Bounded(NoRecord, passCounted', t)
      BY DEF Bounded
    <2>3. Bounded(db[t], passCounted', t)
      BY <1>1, <2>1
    <2>4. QED
      BY <2>2, <2>3 DEF StoresBounded
  <1>3. ASSUME NEW k \in Conns, pc'[k] = "decide" PROVE Bounded(rec'[k], passCounted', cur'[k])
    <2>1. /\ cur[k] \in Tuples /\ cur'[k] = cur[k]
          /\ rec[k] \in Record \cup {NoRecord} /\ db[cur[k]] \in Record \cup {NoRecord}
      BY <1>3, Zenon DEF TypeOK, CopiesFromTable
    <2>2. Bounded(rec'[k], passCounted, cur[k]) /\ rec'[k] \in Record \cup {NoRecord}
      BY <1>3, <2>1, Zenon DEF CountInv, CopiesFromTable
    <2>3. QED
      BY <1>1, <2>1, <2>2, Zenon
  <1>4. QED
    BY <1>2, <1>3 DEF CountInv

\* A connection that ends its decision holds no copy, and touches no other's.
LEMMA DecisionEnds ==
  ASSUME TypeOK, NEW c \in Conns, NEW v, NEW d, Leave(c, v, d) \/ Proceed(c, d)
  PROVE  CopiesFromTable
  <1>1. pc'[c] # "decide"
    BY Zenon DEF Leave, Proceed, TypeOK
  <1>2. \A k \in Conns \ {c} : pc'[k] = pc[k] /\ cur'[k] = cur[k]
    BY OthersStay, Zenon
  <1>3. rec' = [rec EXCEPT ![c] = NoRecord]
    BY CopyDropped, Zenon
  <1>4. \A k \in Conns \ {c} : rec'[k] = rec[k]
    BY <1>3 DEF TypeOK
  <1>5. QED
    BY <1>1, <1>2, <1>4, Zenon DEF CopiesFromTable

\* CountPassed only adds a mark.
LEMMA MarkingStays ==
  ASSUME TypeOK, NEW c \in Conns, CountPassed(c)
  PROVE  MarksStay
  BY DEF CountPassed, MarksStay, TypeOK

\* A count and its bound that grow by one together.
LEMMA Climb ==
  \A x : \A p, m, n \in Nat :
    p <= m /\ ((x = p /\ m <= n) \/ (x = p + 1 /\ n = m + 1)) => x <= n
  OBVIOUS

\* The record that a passing connection stores is bounded: it counts the message
\* exactly when the connection marks the recipient for the first time.
LEMMA PassBounded ==
  ASSUME TypeOK, CountInv, NEW c \in Conns, Pass(c)
  PROVE  StoresBounded
  <1> DEFINE t == cur[c]
             b == RcptOf[t] \in passCounted[c]
             new == PassedRecord(Examined(c), received[c], b)
  <1>1. t \in Tuples /\ received[c] \in Int /\ b \in BOOLEAN
    BY DEF TypeOK
  <1>2. pc[c] = "decide" /\ rec[c] # NoRecord
    BY Zenon DEF Pass, HasValidRecord
  <1>3. db' = [db EXCEPT ![t] = new] /\ CountPassed(c)
    BY Zenon DEF Pass
  <1>4. rec[c].passed \in Nat /\ rec[c].passed <= Marked(passCounted, t)
    BY <1>2, ExaminedFacts, Zenon DEF CountInv, Bounded, Record
  <1>5. new.passed = IF b THEN rec[c].passed ELSE rec[c].passed + 1
    <2>1. Examined(c) \in Record /\ Examined(c).passed = rec[c].passed
      BY <1>2, ExaminedFacts
    <2> HIDE DEF b
    <2>2. new.passed = IF b THEN Examined(c).passed ELSE Examined(c).passed + 1
      BY <1>1, <2>1, PassedRecordFacts, Zenon
    <2>3. QED
      BY <2>1, <2>2, Zenon
  <1>6. b => Marked(passCounted, t) <= Marked(passCounted', t)
    BY <1>1, <1>3, MarkingStays, MarkedGrows, Zenon
  <1>7. ~ b => Marked(passCounted', t) = Marked(passCounted, t) + 1
    BY <1>1, <1>3, MarkedOnce, Zenon DEF CountPassed
  <1>8. Marked(passCounted, t) \in Nat /\ Marked(passCounted', t) \in Nat
    BY <1>1, <1>3, MarkingStays, MarkedGrows, Zenon
  <1> HIDE DEF t, b, new
  <1>9. Bounded(new, passCounted', t)
    <2>1. \/ new.passed = rec[c].passed /\ Marked(passCounted, t) <= Marked(passCounted', t)
          \/ new.passed = rec[c].passed + 1 /\ Marked(passCounted', t) = Marked(passCounted, t) + 1
      BY <1>5, <1>6, <1>7, Zenon
    <2>2. new.passed <= Marked(passCounted', t)
      BY <1>4, <1>8, <2>1, Climb, Zenon
    <2>3. QED
      BY <2>2, Zenon DEF Bounded
  <1>10. \A u \in Tuples : db'[u] = IF u = t THEN new ELSE db[u]
    BY <1>3 DEF TypeOK
  <1>11. QED
    BY <1>9, <1>10, Zenon DEF StoresBounded

\* A record without passed messages is always bounded.
LEMMA NothingPassed ==
  ASSUME TypeOK, MarksStay, NEW t \in Tuples, NEW n, n.passed = 0, db' = [db EXCEPT ![t] = n]
  PROVE  StoresBounded
  <1>1. Bounded(n, passCounted', t)
    BY MarkedGrows DEF Bounded
  <1>2. \A u \in Tuples : db'[u] = IF u = t THEN n ELSE db[u]
    BY DEF TypeOK
  <1>3. QED
    BY <1>1, <1>2 DEF StoresBounded

\* Every step of a connection keeps the records bounded.
LEMMA CountConn ==
  ASSUME TypeOK, CountInv, NEW c \in Conns, ConnStep(c)
  PROVE  CountInv'
  <1>1. CASE Connect(c)
    <2>1. /\ \A k \in Conns : pc'[k] = IF k = c THEN "idle" ELSE pc[k]
          /\ db' = db /\ passCounted' = passCounted /\ rec' = rec /\ cur' = cur
      BY <1>1 DEF Connect, TypeOK, table, counted
    <2>2. MarksStay /\ StoresBounded
      BY <2>1, Zenon DEF MarksStay, StoresBounded
    <2>3. CopiesFromTable
      BY <2>1, Zenon DEF CopiesFromTable
    <2>4. QED
      BY <2>2, <2>3, CountKept
  <1>2. ASSUME NEW g, NEW ts, Enter(c, g, ts) PROVE CountInv'
    <2>1. /\ \A k \in Conns : pc'[k] = IF k = c THEN "get" ELSE pc[k]
          /\ \A k \in Conns \ {c} : cur'[k] = cur[k]
          /\ db' = db /\ passCounted' = passCounted /\ rec' = rec
      BY <1>2, Zenon DEF Enter, TypeOK, table, counted
    <2>2. MarksStay /\ StoresBounded
      BY <2>1, Zenon DEF MarksStay, StoresBounded
    <2>3. CopiesFromTable
      BY <2>1, Zenon DEF CopiesFromTable
    <2>4. QED
      BY <2>2, <2>3, CountKept
  <1>3. CASE Lookup(c)
    <2>1. /\ \A k \in Conns : rec'[k] = IF k = c THEN db[cur[c]] ELSE rec[k]
          /\ \A k \in Conns \ {c} : pc'[k] = pc[k]
          /\ db' = db /\ passCounted' = passCounted /\ cur' = cur
      BY <1>3, Zenon DEF Lookup, TypeOK, table, counted
    <2>2. MarksStay /\ StoresBounded
      BY <2>1, Zenon DEF MarksStay, StoresBounded
    <2>3. CopiesFromTable
      BY <2>1, Zenon DEF CopiesFromTable
    <2>4. QED
      BY <2>2, <2>3, CountKept
  <1>4. CASE Ignore(c) \/ EvalFails(c) \/ StoreFails(c)
    <2>1. db' = db /\ (passCounted' = passCounted \/ CountPassed(c))
      BY <1>4, Zenon DEF Ignore, EvalFails, StoreFails, table, counted
    <2>2. MarksStay
      BY <2>1, MarkingStays, Zenon DEF MarksStay
    <2>3. CopiesFromTable
      BY <1>4, DecisionEnds, Zenon DEF Ignore, EvalFails, StoreFails
    <2>4. QED
      BY <2>1, <2>2, <2>3, CountKept DEF StoresBounded
  <1>5. CASE Add(c)
    <2>1. cur[c] \in Tuples /\ gl[c] \in Rules /\ received[c] \in Int
      BY DEF TypeOK
    <2>2. /\ db' = [db EXCEPT ![cur[c]] = NewRecord(gl[c], received[c])]
          /\ passCounted' = passCounted /\ Leave(c, "defer", maxDelay[c])
      BY <1>5, Zenon DEF Add, counted
    <2>3. NewRecord(gl[c], received[c]).passed = 0
      BY <2>1, NewRecordFacts, Zenon
    <2>4. MarksStay
      BY <2>2, Zenon DEF MarksStay
    <2>5. StoresBounded
      BY <2>1, <2>2, <2>3, <2>4, NothingPassed, Zenon
    <2>6. QED
      BY <2>2, <2>4, <2>5, DecisionEnds, CountKept, Zenon
  <1>6. CASE Pass(c)
    <2>1. CopiesFromTable
      BY <1>6, DecisionEnds, Zenon DEF Pass
    <2>2. MarksStay
      BY <1>6, MarkingStays, Zenon DEF Pass
    <2>3. QED
      BY <1>6, <2>1, <2>2, PassBounded, CountKept
  <1>7. CASE Defer(c)
    <2> DEFINE new == DeferredRecord(Examined(c), received[c])
    <2>1. cur[c] \in Tuples /\ received[c] \in Int
      BY DEF TypeOK
    <2>2. /\ db' = [db EXCEPT ![cur[c]] = new]
          /\ passCounted' = passCounted /\ Leave(c, "defer", maxDelay[c])
      BY <1>7, Zenon DEF Defer
    <2>3. new.passed = 0
      BY <1>7, <2>1, ExaminedFacts, DeferredRecordFacts, Zenon DEF Defer, HasValidRecord
    <2>4. MarksStay
      BY <2>2, Zenon DEF MarksStay
    <2> HIDE DEF new
    <2>5. StoresBounded
      BY <2>1, <2>2, <2>3, <2>4, NothingPassed, Zenon
    <2>6. QED
      BY <2>2, <2>4, <2>5, DecisionEnds, CountKept, Zenon
  <1>8. QED
    BY <1>1, <1>2, <1>3, <1>4, <1>5, <1>6, <1>7, Zenon DEF ConnStep, GreylistRcpt, GreylistMessage

\* So does every other step; the operator stores a record without passes.
LEMMA CountStep ==
  ASSUME TypeOK, IdleCopy, CountInv, [Next]_vars
  PROVE  CountInv'
  <1>1. CASE OperatorSet
    <2> DEFINE new == OperatorRecord(ctl.rec, now)
    <2>1. ctl.rec \in Record /\ ctl.tuple \in Tuples /\ now \in Int /\ ctl.rec.passed = 0
      BY <1>1, OperatorHolds, Zenon
    <2>2. /\ db' = [db EXCEPT ![ctl.tuple] = new] /\ passCounted' = passCounted
          /\ pc' = pc /\ rec' = rec /\ cur' = cur
      BY <1>1, Zenon DEF OperatorSet, counted, call
    <2>3. new.passed = 0
      BY <2>1, OperatorRecordFacts
    <2>4. MarksStay /\ CopiesFromTable
      BY <2>2 DEF MarksStay, CopiesFromTable
    <2> HIDE DEF new
    <2>5. StoresBounded
      BY <2>1, <2>2, <2>3, <2>4, NothingPassed, Zenon
    <2>6. QED
      BY <2>4, <2>5, CountKept
  <1>2. CASE JanitorCleanup
    <2>1. /\ \A u \in Tuples : db'[u] \in {NoRecord, db[u]}
          /\ passCounted' = passCounted /\ pc' = pc /\ rec' = rec /\ cur' = cur
      BY <1>2 DEF JanitorCleanup, counted, call
    <2>2. MarksStay /\ StoresBounded
      BY <2>1, Zenon DEF MarksStay, StoresBounded
    <2>3. CopiesFromTable
      BY <2>1, Zenon DEF CopiesFromTable
    <2>4. QED
      BY <2>2, <2>3, CountKept
  <1>3. CASE Tick \/ (\E t \in Tuples : OperatorGet(t)) \/ UNCHANGED vars
    <2>1. db' = db /\ passCounted' = passCounted /\ pc' = pc /\ rec' = rec /\ cur' = cur
      BY <1>3, Zenon DEF Tick, OperatorGet, vars, table, counted, call
    <2>2. MarksStay /\ StoresBounded
      BY <2>1, Zenon DEF MarksStay, StoresBounded
    <2>3. CopiesFromTable
      BY <2>1 DEF CopiesFromTable
    <2>4. QED
      BY <2>2, <2>3, CountKept
  <1>4. QED
    BY <1>1, <1>2, <1>3, CountConn DEF Next

\* greylist_passed never counts more messages than connections let the tuple pass,
\* for any number of connections whose reads and writes of the record interleave.
THEOREM PassesCountedOnce == Spec => []PassedCountedOnce
  <1>1. Init => CountInv /\ IdleCopy
    BY DEF Init, CountInv, Bounded, IdleCopy
  <1>2. CountInv => PassedCountedOnce
    BY Zenon DEF CountInv, Bounded, Marked, PassedCountedOnce, Passers
  <1>3. QED
    BY <1>1, <1>2, TypeCorrect, VisasAreEarned, EarnedStep, CountStep, PTL DEF Spec
=============================================================================
