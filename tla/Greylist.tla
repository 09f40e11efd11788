------------------------------ MODULE Greylist ------------------------------
(***************************************************************************)
(* The greylist action of mopherd (greylist.c) over its database table.    *)
(*                                                                         *)
(* Every SMTP connection is served by a thread of its own, which may call  *)
(* greylist() several times: for one recipient in the envrcpt stage, for   *)
(* all accepted recipients in a later stage.  A call reads the record of a *)
(* tuple with dbt_db_get, decides, and writes it back with dbt_db_set.     *)
(* Each of the two is atomic (the table's mutex, or one SQL statement),    *)
(* the pair is not.  The janitor thread deletes expired records and the    *)
(* control socket's greylist_pass command rewrites a record by hand.       *)
(*                                                                         *)
(* A tuple is an (origin, sender, recipient) triple; all connections of    *)
(* the model share the origin.                                             *)
(***************************************************************************)
EXTENDS Integers, FiniteSets, Sequences

CONSTANTS
  Conns,       \* connections; each one is opened at most once
  Tuples,      \* greylist tuples
  Rcpts,       \* recipients
  RcptOf,      \* the recipient of a tuple
  Rules,       \* the greylist actions of the ACL
  CfDeadline,  \* cf_greylist_deadline
  CfVisa,      \* cf_greylist_visa
  Interval,    \* dbt_cleanup_interval of the table
  MaxTime,     \* bound: last instant of the clock
  MaxCalls,    \* bound: greylist() calls of all connections together
  MaxRcpts,    \* bound: recipients of one message
  NoRecord,    \* a NULL record
  Operator     \* who calls greylist_pass

Property == {"deadline", "delay", "attempts", "visa"}

\* greylist_t: the properties a rule names, and what they evaluate to.
Rule == [flags: SUBSET Property, deadline: Nat, delay: Nat, attempts: Nat, visa: Nat]

\* The value columns of the table's scheme.
Record == [created: Int, updated: Int, expire: Int, connections: Nat,
           deadline: Nat, delay: Nat, attempts: Nat, visa: Nat, passed: Nat]

ASSUME RulesAssumption == Rules \subseteq Rule /\ Rules # {}
ASSUME TuplesAssumption == Tuples # {} /\ RcptOf \in [Tuples -> Rcpts]
ASSUME ConfAssumption == CfDeadline \in Nat /\ CfVisa \in Nat /\ Interval \in Nat
ASSUME BoundAssumption == MaxTime \in Nat /\ MaxCalls \in Nat /\ MaxRcpts \in Nat
ASSUME ConnsAssumption == IsFiniteSet(Conns) /\ Operator \notin Conns
ASSUME NoRecordAssumption == NoRecord \notin Record

VARIABLES
  now,          \* time(NULL)
  db,           \* the greylist table: tuple -> record or NoRecord
  schedule,     \* dbt_cleanup_schedule
  pc,           \* per connection: closed, idle, get (before dbt_db_get) or decide (after it)
  received,     \* the "received" symbol: when the connection was accepted
  connCounted,  \* the greylist_connection_counted list
  passCounted,  \* the greylist_passed_counted list
  gl,           \* the rule of the current call
  cur,          \* the tuple under examination
  todo,         \* the recipients the current call has not examined yet
  rec,          \* the record dbt_db_get returned
  maxDelay,     \* max_delay of the current call
  delayed,      \* the greylist_delayed symbol, 0 when unset
  verdict,      \* what greylist() returned in the last step, "none" if it did not return
  calls,        \* calls made so far
  ctl,          \* the control thread inside greylist_pass
  births        \* history: who gave a tuple's record which creation time

table == <<db, births>>
session == <<received, gl, calls>>
counted == <<connCounted, passCounted>>
call == <<pc, cur, todo, rec, maxDelay, delayed>>
vars == <<now, schedule, ctl, table, session, counted, call, verdict>>

\* What cur and gl hold between calls.
Anyone == CHOOSE t \in Tuples : TRUE
AnyRule == CHOOSE g \in Rules : TRUE

Verdict == {"none", "pass", "defer", "error"}

Event == [by: Conns \cup {Operator}, at: Int]

(***************************************************************************)
(* Types                                                                   *)
(***************************************************************************)

\* Every variable has its type; records keep the nine columns of the scheme.
TypeOK ==
  /\ now \in 0..MaxTime
  /\ db \in [Tuples -> Record \cup {NoRecord}]
  /\ schedule \in Nat
  /\ pc \in [Conns -> {"closed", "idle", "get", "decide"}]
  /\ received \in [Conns -> 0..MaxTime]
  /\ connCounted \in [Conns -> SUBSET Rcpts]
  /\ passCounted \in [Conns -> SUBSET Rcpts]
  /\ gl \in [Conns -> Rules]
  /\ cur \in [Conns -> Tuples]
  /\ todo \in [Conns -> Seq(Tuples)]
  /\ rec \in [Conns -> Record \cup {NoRecord}]
  /\ maxDelay \in [Conns -> Nat]
  /\ delayed \in [Conns -> Nat]
  /\ verdict \in Verdict
  /\ calls \in 0..MaxCalls
  /\ ctl \in [pc: {"idle", "set"}, tuple: Tuples, rec: Record \cup {NoRecord}]
  /\ ctl.pc = "set" => ctl.rec # NoRecord
  /\ births \in [Tuples -> SUBSET Event]

Init ==
  /\ now = 0
  /\ schedule = 0
  /\ db = [t \in Tuples |-> NoRecord]
  /\ births = [t \in Tuples |-> {}]
  /\ pc = [c \in Conns |-> "closed"]
  /\ received = [c \in Conns |-> 0]
  /\ connCounted = [c \in Conns |-> {}]
  /\ passCounted = [c \in Conns |-> {}]
  /\ gl = [c \in Conns |-> AnyRule]
  /\ cur = [c \in Conns |-> Anyone]
  /\ todo = [c \in Conns |-> <<>>]
  /\ rec = [c \in Conns |-> NoRecord]
  /\ maxDelay = [c \in Conns |-> 0]
  /\ delayed = [c \in Conns |-> 0]
  /\ verdict = "none"
  /\ calls = 0
  /\ ctl = [pc |-> "idle", tuple |-> Anyone, rec |-> NoRecord]

(***************************************************************************)
(* Records                                                                 *)
(***************************************************************************)

\* greylist_properties: the properties the rule names replace the record's.
Prop(g, p, new, old) == IF p \in g.flags THEN new ELSE old

\* greylist_add: a record for a tuple first seen by a connection received at r.
NewRecord(g, r) ==
  LET deadline == IF Prop(g, "deadline", g.deadline, 0) = 0 THEN CfDeadline ELSE g.deadline
      visa == IF Prop(g, "visa", g.visa, 0) = 0 THEN CfVisa ELSE g.visa
  IN [created |-> r, updated |-> r, expire |-> r + deadline, connections |-> 1,
      deadline |-> deadline, delay |-> Prop(g, "delay", g.delay, 0),
      attempts |-> Prop(g, "attempts", g.attempts, 0), visa |-> visa, passed |-> 0]

\* The record with the rule's properties and this connection counted.
Refreshed(r, g, countedBefore) ==
  [r EXCEPT !.deadline = Prop(g, "deadline", g.deadline, r.deadline),
            !.delay = Prop(g, "delay", g.delay, r.delay),
            !.attempts = Prop(g, "attempts", g.attempts, r.attempts),
            !.visa = Prop(g, "visa", g.visa, r.visa),
            !.connections = IF countedBefore THEN r.connections ELSE r.connections + 1]

\* Mutant of Passes: the waiting time is not looked at.
PassesByAttempts(r, t) == r.connections > r.attempts

\* Mutant of Passes: the delay is measured from the last use of the record.
PassesByUpdate(r, t) == t - r.updated > r.delay /\ r.connections > r.attempts

\* "Greylisting passed (delay and attempts)": r is already refreshed.
Passes(r, t) == t - r.created > r.delay /\ r.connections > r.attempts

PassedRecord(r, t, countedBefore) ==
  [r EXCEPT !.expire = t + r.visa, !.updated = t,
            !.passed = IF countedBefore THEN r.passed ELSE r.passed + 1]

\* Mutant of DeferredRecord: the number of passed messages is not reset.
DeferredKeepsPassed(r, t) ==
  [r EXCEPT !.expire = r.created + r.deadline, !.updated = t]

DeferredRecord(r, t) ==
  [r EXCEPT !.expire = r.created + r.deadline, !.passed = 0, !.updated = t]

\* greylist_pass at time t.
OperatorRecord(r, t) ==
  [r EXCEPT !.created = t - r.delay, !.connections = r.attempts,
            !.expire = t + r.visa, !.updated = t]

Larger(a, b) == IF a > b THEN a ELSE b

(***************************************************************************)
(* A connection                                                            *)
(***************************************************************************)

\* The connection is accepted: milter_init_stage sets "received".
Connect(c) ==
  /\ pc[c] = "closed"
  /\ pc' = [pc EXCEPT ![c] = "idle"]
  /\ received' = [received EXCEPT ![c] = now]
  /\ verdict' = "none"
  /\ UNCHANGED <<now, schedule, ctl, table, counted, gl, calls,
                 cur, todo, rec, maxDelay, delayed>>

\* greylist() is entered with the recipients ts to examine.
Enter(c, g, ts) ==
  /\ pc[c] = "idle"
  /\ calls < MaxCalls
  /\ calls' = calls + 1
  /\ pc' = [pc EXCEPT ![c] = "get"]
  /\ gl' = [gl EXCEPT ![c] = g]
  /\ cur' = [cur EXCEPT ![c] = Head(ts)]
  /\ todo' = [todo EXCEPT ![c] = Tail(ts)]
  /\ maxDelay' = [maxDelay EXCEPT ![c] = 0]
  /\ verdict' = "none"
  /\ UNCHANGED <<now, schedule, ctl, table, counted, received, rec, delayed>>

\* In the envrcpt stage the current recipient is examined ...
GreylistRcpt(c, g, t) == Enter(c, g, <<t>>)

\* ... and in every other stage the recipient_list of the message.
GreylistMessage(c, g, n) == \E ts \in [1..n -> Tuples] : Enter(c, g, ts)

\* dbt_db_get of the current tuple.
Lookup(c) ==
  /\ pc[c] = "get"
  /\ pc' = [pc EXCEPT ![c] = "decide"]
  /\ rec' = [rec EXCEPT ![c] = db[cur[c]]]
  /\ verdict' = "none"
  /\ UNCHANGED <<now, schedule, ctl, table, session, counted, cur, todo, maxDelay, delayed>>

\* The call ends; greylist_delayed is set when a delay was served.
Leave(c, v, d) ==
  /\ pc' = [pc EXCEPT ![c] = "idle"]
  /\ verdict' = v
  /\ maxDelay' = [maxDelay EXCEPT ![c] = 0]
  /\ delayed' = [delayed EXCEPT ![c] = IF v = "pass" /\ d # 0 THEN d ELSE @]
  /\ todo' = [todo EXCEPT ![c] = <<>>]
  /\ rec' = [rec EXCEPT ![c] = NoRecord]
  /\ cur' = [cur EXCEPT ![c] = Anyone]
  /\ gl' = [gl EXCEPT ![c] = AnyRule]

\* greylist_recipient returned 0: take the next recipient, or let the mail pass.
Proceed(c, d) ==
  LET longest == Larger(d, maxDelay[c]) IN
  IF todo[c] = <<>>
  THEN Leave(c, "pass", longest)
  ELSE /\ pc' = [pc EXCEPT ![c] = "get"]
       /\ cur' = [cur EXCEPT ![c] = Head(todo[c])]
       /\ todo' = [todo EXCEPT ![c] = Tail(@)]
       /\ maxDelay' = [maxDelay EXCEPT ![c] = longest]
       /\ rec' = [rec EXCEPT ![c] = NoRecord]
       /\ verdict' = "none"
       /\ UNCHANGED <<gl, delayed>>

\* No record and an empty rule: "greylist existing tuple" has nothing to do.
Ignore(c) ==
  /\ pc[c] = "decide"
  /\ rec[c] = NoRecord
  /\ gl[c].flags = {}
  /\ Proceed(c, 0)
  /\ UNCHANGED <<now, schedule, ctl, table, counted, received, calls>>

\* No record, or an expired one: greylist_add stores a new record and defers.
Add(c) ==
  /\ pc[c] = "decide"
  /\ \/ rec[c] = NoRecord /\ gl[c].flags # {}
     \/ rec[c] # NoRecord /\ rec[c].expire < received[c]
  /\ db' = [db EXCEPT ![cur[c]] = NewRecord(gl[c], received[c])]
  /\ births' = [births EXCEPT ![cur[c]] = @ \cup {[by |-> c, at |-> received[c]]}]
  /\ Leave(c, "defer", maxDelay[c])
  /\ UNCHANGED <<now, schedule, ctl, counted, received, calls>>

\* The valid record under examination, refreshed.
Examined(c) == Refreshed(rec[c], gl[c], RcptOf[cur[c]] \in connCounted[c])

HasValidRecord(c) ==
  /\ pc[c] = "decide"
  /\ rec[c] # NoRecord
  /\ ~ (rec[c].expire < received[c])

\* greylist_tuple_counted marks the recipient on the first examination ...
CountConnection(c) == connCounted' = [connCounted EXCEPT ![c] = @ \cup {RcptOf[cur[c]]}]

\* Mutant of CountPassed: the tuple is not marked.
CountPassedNever(c) == UNCHANGED passCounted

\* ... and on the first pass of the connection.
CountPassed(c) == passCounted' = [passCounted EXCEPT ![c] = @ \cup {RcptOf[cur[c]]}]

\* Enough delay and attempts: the record is renewed as a visa.
Pass(c) ==
  LET new == PassedRecord(Examined(c), received[c], RcptOf[cur[c]] \in passCounted[c]) IN
  /\ HasValidRecord(c)
  /\ Passes(Examined(c), received[c])
  /\ db' = [db EXCEPT ![cur[c]] = new]
  /\ CountConnection(c)
  /\ CountPassed(c)
  /\ Proceed(c, IF new.passed = 1 THEN received[c] - new.created ELSE 0)
  /\ UNCHANGED <<now, schedule, ctl, births, received, calls>>

\* "Greylisting in action": the record loses a visa it may have had.
Defer(c) ==
  /\ HasValidRecord(c)
  /\ ~ Passes(Examined(c), received[c])
  /\ db' = [db EXCEPT ![cur[c]] = DeferredRecord(Examined(c), received[c])]
  /\ CountConnection(c)
  /\ Leave(c, "defer", maxDelay[c])
  /\ UNCHANGED <<now, schedule, ctl, births, passCounted, received, calls>>

\* A property expression cannot be evaluated, or dbt_db_get failed: ACL_ERROR.
EvalFails(c) ==
  /\ pc[c] = "decide"
  /\ Leave(c, "error", maxDelay[c])
  /\ UNCHANGED <<now, schedule, ctl, table, counted, received, calls>>

\* dbt_db_set fails after the tuple was counted: ACL_ERROR, nothing stored.
StoreFails(c) ==
  /\ HasValidRecord(c)
  /\ CountConnection(c)
  /\ IF Passes(Examined(c), received[c]) THEN CountPassed(c) ELSE UNCHANGED passCounted
  /\ Leave(c, "error", maxDelay[c])
  /\ UNCHANGED <<now, schedule, ctl, table, received, calls>>

(***************************************************************************)
(* The control socket, the janitor and the clock                           *)
(***************************************************************************)

\* greylist_pass reads the record; it has nothing to do for an unknown tuple
\* or one that has passed already.
OperatorGet(t) ==
  /\ ctl.pc = "idle"
  /\ db[t] # NoRecord
  /\ db[t].passed = 0
  /\ verdict' = "none"
  /\ ctl' = [pc |-> "set", tuple |-> t, rec |-> db[t]]
  /\ UNCHANGED <<now, schedule, table, session, counted, call>>

OperatorSet ==
  LET new == OperatorRecord(ctl.rec, now) IN
  /\ ctl.pc = "set"
  /\ db' = [db EXCEPT ![ctl.tuple] = new]
  /\ births' = [births EXCEPT ![ctl.tuple] = @ \cup {[by |-> Operator, at |-> new.created]}]
  /\ verdict' = "none"
  /\ ctl' = [pc |-> "idle", tuple |-> Anyone, rec |-> NoRecord]
  /\ UNCHANGED <<now, schedule, session, counted, call>>

\* The janitor's turn: a walk compares with the schedule, SQL with the clock.
JanitorCleanup ==
  /\ now >= schedule
  /\ \E cut \in {schedule, now} :
       db' = [t \in Tuples |-> IF db[t] # NoRecord /\ cut > db[t].expire
                               THEN NoRecord ELSE db[t]]
  /\ schedule' = now + Interval
  /\ verdict' = "none"
  /\ UNCHANGED <<now, ctl, births, session, counted, call>>

Tick ==
  /\ now < MaxTime
  /\ now' = now + 1
  /\ verdict' = "none"
  /\ UNCHANGED <<schedule, ctl, table, session, counted, call>>

ConnStep(c) ==
  \/ Connect(c)
  \/ \E g \in Rules, t \in Tuples : GreylistRcpt(c, g, t)
  \/ \E g \in Rules, n \in 1..MaxRcpts : GreylistMessage(c, g, n)
  \/ Lookup(c)
  \/ Ignore(c)
  \/ Pass(c)
  \/ Add(c)
  \/ Defer(c)
  \/ EvalFails(c)
  \/ StoreFails(c)

Next ==
  \/ \E c \in Conns : ConnStep(c)
  \/ \E t \in Tuples : OperatorGet(t)
  \/ OperatorSet
  \/ JanitorCleanup
  \/ Tick

Spec == Init /\ [][Next]_vars

(***************************************************************************)
(* Properties                                                              *)
(***************************************************************************)

\* What a record with passed messages shows: at its last update it had waited
\* longer than its delay, had more connections than its attempts, and its visa
\* was renewed.
Earned(r) ==
  r # NoRecord /\ r.passed > 0 =>
    /\ r.updated - r.created > r.delay
    /\ r.connections > r.attempts
    /\ r.expire = r.updated + r.visa

\* A record counts passed messages only while its delay and attempts are met and
\* its visa runs, whatever order the connections, the operator and the janitor
\* read and write it in, and however the rules change its properties.
PassedEarned ==
  /\ \A t \in Tuples : Earned(db[t])
  /\ \A c \in Conns : Earned(rec[c])
  /\ Earned(ctl.rec)

\* A connection lets a tuple with a record pass in this step.
LetsPass(c) ==
  /\ HasValidRecord(c)
  /\ pc'[c] # "decide"
  /\ verdict' \in {"none", "pass"}

\* A connection's call answers ACL_GREYLIST in this step.
Defers(c) == pc[c] = "decide" /\ pc'[c] = "idle" /\ verdict' = "defer"

\* Another connection (or the operator) created the record more than the required
\* delay before this connection arrived.
DelayServed(c) ==
  \E e \in births[cur[c]] : e.by # c /\ received[c] - e.at > Examined(c).delay

\* greylist_recipient lets nobody pass for free: no connection passes on a record
\* of its own making, whatever the races on the table.
NobodyPassesForFree ==
  [][\A c \in Conns : LetsPass(c) => DelayServed(c)]_vars

\* A valid visa record, read by a connection that arrived no earlier than its
\* last use, under a rule that asks for no other delay or attempts.
HoldsVisa(c) ==
  /\ HasValidRecord(c)
  /\ rec[c].passed > 0
  /\ received[c] >= rec[c].updated
  /\ gl[c].flags \cap {"delay", "attempts"} = {}

\* greylist_recipient never defers a tuple that holds a visa.
VisaHonoured ==
  [][\A c \in Conns : HoldsVisa(c) => ~ Defers(c)]_vars

Passers(t) == {c \in Conns : RcptOf[t] \in passCounted[c]}

\* greylist_passed counts connections, each at most once: never more than let
\* the tuple pass, lost updates and repeated calls included.
PassedCountedOnce ==
  \A t \in Tuples : db[t] # NoRecord => db[t].passed <= Cardinality(Passers(t))

Visitors(t) ==
  {c \in Conns : RcptOf[t] \in connCounted[c] \/ \E e \in births[t] : e.by = c}

\* "Increment the connection counter only once per connection" (greylist.c:573):
\* never more than the connections that presented the tuple, unless the operator
\* set the counter.
ConnectionsCountedOnce ==
  \A t \in Tuples :
    db[t] # NoRecord /\ (\A e \in births[t] : e.by # Operator) =>
      db[t].connections <= Cardinality(Visitors(t))

=============================================================================
