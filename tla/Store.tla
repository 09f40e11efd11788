------------------------------- MODULE Store --------------------------------
(***************************************************************************)
(* The two kinds of counting tables over a shared row: the hitlists of     *)
(* modules/hitlist.c and the counters of modules/counter.c.  Both read the *)
(* record, add one and set it; a hitlist does so under hl_mutex and, on a  *)
(* database with SQL, sets the difference instead of the sum.              *)
(***************************************************************************)
EXTENDS Sql

CONSTANT MaxHits   \* bound: lookups and updates begun

ASSUME HitsAssumption == MaxHits \in Nat

VARIABLES
  kind,     \* "hitlist" or "counter"
  hl,       \* per daemon: who holds hl_mutex
  doing,    \* per thread: what hitlist_lookup or counter_update_record does
  hits,     \* lookups and updates begun
  acks,     \* history: sets committed since the row was inserted
  inserter, \* history: the daemon that inserted the row
  overwritten \* history: another daemon than the inserter has replaced its value

callers == <<kind, hl, doing, hits>>
history == <<acks, inserter, overwritten>>
storevars == <<sqlvars, callers, history>>

Init ==
  /\ SqlInit
  /\ kind \in {"hitlist", "counter"}
  /\ hl = [d \in Daemons |-> None]
  /\ doing = [t \in Threads |-> "idle"]
  /\ hits = 0 /\ acks = 0 /\ inserter = None /\ overwritten = FALSE

\* dbt_db_set has returned to its caller, or the daemon is gone.
Over(t) == ~ up'[Home[t]] \/ (doing[t] = "set" /\ at'[t] = "idle")

\* What a step of the database does to the callers: the one whose dbt_db_set returns
\* unlocks hl_mutex and returns too.
CallersFollow ==
  /\ hl' = [d \in Daemons |-> IF hl[d] # None /\ Over(hl[d]) THEN None ELSE hl[d]]
  /\ doing' = [t \in Threads |-> IF Over(t) THEN "idle" ELSE doing[t]]
  /\ UNCHANGED <<kind, hits>>

\* Mutant of Enter: a hitlist is looked up without hl_mutex.
EnterUnlocked(t) ==
  /\ up[Home[t]] /\ doing[t] = "idle" /\ at[t] = "idle"
  /\ hits < MaxHits
  /\ hits' = hits + 1
  /\ doing' = [doing EXCEPT ![t] = "get"]
  /\ UNCHANGED <<sqlvars, kind, hl, history>>

\* hitlist_lookup, under hl_mutex, or counter_update_record starts.
Enter(t) ==
  LET d == Home[t] IN
  /\ up[d] /\ doing[t] = "idle" /\ at[t] = "idle"
  /\ hits < MaxHits
  /\ hits' = hits + 1
  /\ kind = "hitlist" => hl[d] = None
  /\ hl' = IF kind = "hitlist" THEN [hl EXCEPT ![d] = t] ELSE hl
  /\ doing' = [doing EXCEPT ![t] = "get"]
  /\ UNCHANGED <<sqlvars, kind, history>>

\* Back to the caller, hl_mutex unlocked.
Leave(t) ==
  /\ doing' = [doing EXCEPT ![t] = "idle"]
  /\ hl' = [hl EXCEPT ![Home[t]] = IF @ = t THEN None ELSE @]
  /\ UNCHANGED <<kind, hits>>

\* Mutant of HitlistRecord: a safe update of the whole value.
HitlistRecordWhole(r) ==
  IF r = NoRow THEN [value |-> 1, diff |-> FALSE]
  ELSE [value |-> r + 1, diff |-> engine \in Transactional]

\* What a hitlist sets, given the record it has found: the difference if the
\* database adds (hitlist_sql_safe_update), the sum otherwise.
HitlistRecord(r) ==
  IF r = NoRow THEN [value |-> 1, diff |-> FALSE]
  ELSE IF engine \in Transactional THEN [value |-> 1, diff |-> TRUE]
  ELSE [value |-> r + 1, diff |-> FALSE]

\* A counter begins at 1 (counter_add_key) or is incremented.
CounterRecord(r) ==
  [value |-> IF r = NoRow THEN 1 ELSE r + 1, diff |-> FALSE]

ToSet(r) == IF kind = "hitlist" THEN HitlistRecord(r) ELSE CounterRecord(r)

\* dbt_db_get, one statement under dbt_mutex, finds a record or none: it is modified
\* or made, and dbt_db_set is called ...
Get(t) ==
  LET d == Home[t] IN
  /\ doing[t] = "get" /\ up[d]
  /\ lock[d] = None
  /\ Request(t, ToSet(Visible(d)))
  /\ doing' = [doing EXCEPT ![t] = "set"]
  /\ UNCHANGED <<kind, hl, hits, history>>

\* ... or not: a hitlist that does not update, or finds no record and does not
\* create one (several hitlists, with options of their own, may use one table).
LookOnly(t) ==
  LET d == Home[t] IN
  /\ doing[t] = "get" /\ up[d]
  /\ lock[d] = None
  /\ kind = "hitlist"
  /\ Leave(t)
  /\ UNCHANGED <<sqlvars, history>>

\* dbt_db_get fails.
GetFails(t) ==
  LET d == Home[t] IN
  /\ doing[t] = "get" /\ up[d]
  /\ lock[d] = None
  /\ faults < MaxFaults
  /\ faults' = faults + 1
  /\ IF fatal
     THEN Rollback(d) /\ Gone(d) /\ CallersFollow
     ELSE Leave(t) /\ UNCHANGED <<database, mutexes, up, setting, wedged>>
  /\ UNCHANGED <<config, history>>

\* A record of daemon d has been committed over old.
Remember(t, old) ==
  LET d == Home[t] IN
  IF old = NoRow
  THEN acks' = 1 /\ inserter' = d /\ overwritten' = FALSE
  ELSE /\ acks' = acks + 1
       /\ overwritten' = (overwritten \/ (~ image[t].diff /\ d # inserter))
       /\ UNCHANGED inserter

Store(t) ==
  \/ (CommitSet(t) \/ CommitUnheard(t)) /\ Remember(t, before) /\ CallersFollow
  \/ Upsert(t) /\ Remember(t, row) /\ CallersFollow
  \/ SetStep(t) /\ CallersFollow /\ UNCHANGED history

(***************************************************************************)
(* The rest of the system                                                  *)
(***************************************************************************)

\* dbt_db_expire by the janitor of d: DELETE ... WHERE expire < now.
Expire(d) ==
  /\ up[d] /\ lock[d] = None
  /\ ~ Blocked(d) /\ row # NoRow
  /\ IF tx[d] THEN Write(d, NoRow) ELSE row' = NoRow /\ UNCHANGED <<writer, before>>
  /\ UNCHANGED <<config, tx, mutexes, up, setting, wedged, faults, callers, history>>

Crashes(d) == Crash(d) /\ CallersFollow /\ UNCHANGED history

Starts(d) == Start(d) /\ UNCHANGED <<callers, history>>

Fails(t) == StatementFails(t) /\ CallersFollow /\ UNCHANGED history

Call(t) == Enter(t) \/ Get(t) \/ LookOnly(t)

Next ==
  \/ \E t \in Threads : Call(t) \/ GetFails(t) \/ Store(t) \/ Fails(t)
  \/ \E d \in Daemons : Expire(d) \/ Crashes(d) \/ Starts(d)

\* A thread goes on while it can.
Spec ==
  /\ Init
  /\ [][Next]_storevars
  /\ \A t \in Threads : WF_storevars(Call(t) \/ Store(t))

(***************************************************************************)
(* Properties                                                              *)
(***************************************************************************)

Committed == IF writer = None THEN row ELSE before

\* No interleaving of lookups, crashes, failed statements and deletions makes a
\* hitlist or a counter count more than the lookups and updates that were begun.
NeverOvercounts == Committed # NoRow => Committed <= hits

\* A hitlist on an SQL database counts every lookup whose set was committed since
\* the row was inserted, whichever daemon made it: sums are made by the database,
\* and hl_mutex keeps two threads of a daemon from both inserting.  The exception is
\* a daemon that read before another daemon inserted: it sets the value to 1.
HitsExact ==
  (kind = "hitlist" /\ engine \in Transactional /\ Committed # NoRow /\ ~ overwritten)
     => Committed = acks

\* A connection is in a transaction only while a thread is in sql_db_set under the
\* table's mutex, so no daemon holds the row against the others between two sets.
\* The exception is a COMMIT that sqlite3 refused: sql_db_set does not roll back.
TransactionsEnd ==
  \A d \in Daemons :
    tx[d] => \/ d \in wedged
             \/ lock[d] # None /\ at[lock[d]] \in {"update", "insert", "commit"}

\* The thread has returned from dbt_db_set, or it never will: it, or the thread that
\* holds the table, waits for the key_hack_mutex that it holds itself.
Returned(t) ==
  at[t] = "idle" \/ \E u \in Threads : Home[u] = Home[t] /\ SelfLocked(u)

\* dbt_db_set returns, through waiting, duplicate keys, failures and crashes: of any
\* calls that are under way, all come to an end.  The exception is an INSERT that
\* fails a second time, in the duplicate key hack.
SetReturns ==
  (\E t \in Threads : at[t] # "idle") ~> (\A t \in Threads : Returned(t))
=============================================================================
