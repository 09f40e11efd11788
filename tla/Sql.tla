-------------------------------- MODULE Sql ---------------------------------
(***************************************************************************)
(* sql_db_set on a row that several mopherds share (sql.c, the drivers     *)
(* lite.c, pgsql.c, sakila.c and mongodb.c, and dbt_db_set of dbt.c).      *)
(*                                                                         *)
(* A daemon has one connection per table, used under the table's mutex.    *)
(* sql_db_set is a transaction: UPDATE, and INSERT when no row was there.  *)
(* Two daemons may both find no row, and the second INSERT meets a         *)
(* duplicate key; with fatal_database_errors it is tried once more in      *)
(* sql_db_duplicate_key_hack, under the process-wide key_hack_mutex.       *)
(*                                                                         *)
(* The table has one key.  Of the columns of its row the model keeps the   *)
(* counter: the time of expiry may pass, and the row be deleted, at any    *)
(* time.                                                                   *)
(***************************************************************************)
EXTENDS Integers, FiniteSets

CONSTANTS
  Daemons,    \* mopherd processes that share the database
  Threads,    \* their threads
  Home,       \* the daemon of a thread
  MaxFaults,  \* bound: statements that fail of themselves, and crashes
  NoRow,
  None

ASSUME ThreadsAssumption == IsFiniteSet(Threads)
ASSUME HomeAssumption == Home \in [Threads -> Daemons] /\ None \notin Daemons \cup Threads
ASSUME FaultAssumption == MaxFaults \in Nat

ASSUME NoRowAssumption == NoRow \notin Nat

\* A record to be set; the values of a diff are added (VF_SQL_SAFE_UPDATE).
Image == [value : Nat, diff : BOOLEAN]

NoImage == [value |-> 0, diff |-> FALSE]

\* mongodb has no transactions: its set is one find_and_modify with upsert.
Transactional == {"sqlite3", "postgresql", "mysql"}
Engine == Transactional \cup {"mongodb"}

VARIABLES
  engine,      \* the table's driver
  fatal,       \* cf_dbt_fatal_errors
  row,         \* the row, with the changes of the open transaction
  writer,      \* the daemon whose open transaction has the row locked
  before,      \* the row as it was when the writer locked it
  tx,          \* per daemon: is its connection in a transaction
  lock,        \* per daemon: who holds dbt_mutex
  hackMutex,   \* per daemon: who holds key_hack_mutex
  hackFailed,  \* per daemon: key_hack_failed
  up,          \* per daemon: it runs
  at,          \* per thread: where in dbt_db_set it is
  nested,      \* per thread: in the sql_db_set of the duplicate key hack
  image,       \* per thread: the record to set
  wedged,      \* history: daemons one of whose COMMITs has failed
  faults       \* failures of that kind so far

config == <<engine, fatal>>
database == <<row, writer, before, tx>>
mutexes == <<lock, hackMutex, hackFailed>>
setting == <<at, nested, image>>
sqlvars == <<config, database, mutexes, up, setting, wedged, faults>>

SqlInit ==
  /\ engine \in Engine
  /\ fatal \in BOOLEAN
  /\ row = NoRow /\ before = NoRow /\ writer = None
  /\ tx = [d \in Daemons |-> FALSE]
  /\ lock = [d \in Daemons |-> None]
  /\ hackMutex = [d \in Daemons |-> None]
  /\ hackFailed = [d \in Daemons |-> FALSE]
  /\ up = [d \in Daemons |-> TRUE]
  /\ at = [t \in Threads |-> "idle"]
  /\ nested = [t \in Threads |-> FALSE]
  /\ image = [t \in Threads |-> NoImage]
  /\ wedged = {}
  /\ faults = 0

(***************************************************************************)
(* The database                                                            *)
(***************************************************************************)

\* Another daemon's open transaction has the row.
Blocked(d) == writer \notin {None, d}

\* What a SELECT of daemon d sees.
Visible(d) == IF Blocked(d) THEN before ELSE row

\* sql_key_value: SET column=value, or column=column+value.
Updated(r, im) == IF im.diff THEN r + im.value ELSE im.value

\* sql_values: a difference is inserted as it is.
Inserted(im) == im.value

\* The transaction of d, if it had none yet, locks the row and changes it.
Write(d, r) ==
  /\ row' = r
  /\ writer' = d
  /\ before' = IF writer = d THEN before ELSE row

Commit(d) ==
  /\ tx' = [tx EXCEPT ![d] = FALSE]
  /\ writer' = IF writer = d THEN None ELSE writer
  /\ before' = IF writer = d THEN NoRow ELSE before
  /\ UNCHANGED row

Rollback(d) ==
  /\ tx' = [tx EXCEPT ![d] = FALSE]
  /\ row' = IF writer = d THEN before ELSE row
  /\ writer' = IF writer = d THEN None ELSE writer
  /\ before' = IF writer = d THEN NoRow ELSE before

(***************************************************************************)
(* dbt_db_set                                                              *)
(***************************************************************************)

Goto(t, p) == at' = [at EXCEPT ![t] = p]

\* A thread of a running daemon at p in dbt_db_set.
At(t, p) == at[t] = p /\ up[Home[t]]

\* Mutant of Return: dbt_unlock is missed when the set has failed.
ReturnLocked(t, ok) ==
  LET d == Home[t] IN
  /\ Goto(t, "idle")
  /\ lock' = [lock EXCEPT ![d] = IF ok THEN None ELSE @]
  /\ nested' = [nested EXCEPT ![t] = FALSE]
  /\ hackMutex' = [hackMutex EXCEPT ![d] = IF nested[t] THEN None ELSE @]
  /\ hackFailed' = [hackFailed EXCEPT ![d] = @ \/ (nested[t] /\ ~ ok)]
  /\ image' = [image EXCEPT ![t] = NoImage]
  /\ UNCHANGED up

\* sql_db_set has returned, to the duplicate key hack or to dbt_db_set, which
\* leaves the mutex to others.
Return(t, ok) ==
  LET d == Home[t] IN
  /\ Goto(t, "idle")
  /\ lock' = [lock EXCEPT ![d] = None]
  /\ nested' = [nested EXCEPT ![t] = FALSE]
  /\ hackMutex' = [hackMutex EXCEPT ![d] = IF nested[t] THEN None ELSE @]
  /\ hackFailed' = [hackFailed EXCEPT ![d] = @ \/ (nested[t] /\ ~ ok)]
  /\ image' = [image EXCEPT ![t] = NoImage]
  /\ UNCHANGED up

\* log_die: the process is gone, its threads and its mutexes.
Gone(d) ==
  /\ up' = [up EXCEPT ![d] = FALSE]
  /\ at' = [t \in Threads |-> IF Home[t] = d THEN "idle" ELSE at[t]]
  /\ nested' = [t \in Threads |-> nested[t] /\ Home[t] # d]
  /\ lock' = [lock EXCEPT ![d] = None]
  /\ hackMutex' = [hackMutex EXCEPT ![d] = None]
  /\ hackFailed' = [hackFailed EXCEPT ![d] = FALSE]
  /\ image' = [t \in Threads |-> IF Home[t] = d THEN NoImage ELSE image[t]]
  /\ wedged' = wedged \ {d}

\* Mutant of Fail: a failed statement is not followed by ROLLBACK.
FailInTransaction(t) == Return(t, FALSE) /\ UNCHANGED <<database, wedged>>

\* sql_db_set fails after ROLLBACK, or where there is nothing to roll back:
\* "fatal database error" or -1.
Fail(t) ==
  /\ Rollback(Home[t])
  /\ IF fatal THEN Gone(Home[t]) ELSE Return(t, FALSE) /\ UNCHANGED wedged

\* BEGIN fails, and no ROLLBACK follows.
FailAtBegin(t) ==
  IF fatal
  THEN Rollback(Home[t]) /\ Gone(Home[t])
  ELSE Return(t, FALSE) /\ UNCHANGED <<database, wedged>>

\* COMMIT fails, and no ROLLBACK follows: sqlite3 keeps the transaction open, the
\* servers have rolled it back.
FailAtCommit(t) ==
  IF engine = "sqlite3" /\ ~ fatal
  THEN /\ Return(t, FALSE)
       /\ wedged' = wedged \cup {Home[t]}
       /\ UNCHANGED database
  ELSE Fail(t)

\* The INSERT fails: with fatal errors the duplicate key hack is tried.
FailAtInsert(t) ==
  IF fatal
  THEN /\ Rollback(Home[t])
       /\ Goto(t, "hack")
       /\ UNCHANGED <<mutexes, up, nested, image, wedged>>
  ELSE Fail(t)

\* The caller wants im to be set.
Request(t, im) ==
  /\ Goto(t, "wait")
  /\ image' = [image EXCEPT ![t] = im]
  /\ UNCHANGED <<config, database, mutexes, up, nested, wedged, faults>>

Lock(t) ==
  /\ At(t, "wait")
  /\ lock[Home[t]] = None
  /\ lock' = [lock EXCEPT ![Home[t]] = t]
  /\ Goto(t, "begin")
  /\ UNCHANGED <<config, database, hackMutex, hackFailed, up, nested, image, wedged, faults>>

\* mongodb_set.
Upsert(t) ==
  /\ At(t, "begin")
  /\ engine = "mongodb"
  /\ row' = image[t].value
  /\ Return(t, TRUE)
  /\ UNCHANGED <<config, writer, before, tx, wedged, faults>>

\* BEGIN: there is no transaction within a transaction.
Begin(t) ==
  /\ At(t, "begin")
  /\ engine \in Transactional
  /\ IF tx[Home[t]]
     THEN FailAtBegin(t)
     ELSE /\ tx' = [tx EXCEPT ![Home[t]] = TRUE]
          /\ Goto(t, "update")
          /\ UNCHANGED <<row, writer, before, mutexes, up, nested, image, wedged>>
  /\ UNCHANGED <<config, faults>>

\* UPDATE ... WHERE key finds the row ...
Update(t) ==
  LET d == Home[t] IN
  /\ At(t, "update")
  /\ ~ Blocked(d)
  /\ row # NoRow
  /\ Write(d, Updated(row, image[t]))
  /\ Goto(t, "commit")
  /\ UNCHANGED <<config, tx, mutexes, up, nested, image, wedged, faults>>

\* ... or does not.  sqlite3 has locked the database all the same, postgresql does
\* not see nor wait for a row that another transaction is about to insert.
UpdateNothing(t) ==
  LET d == Home[t] IN
  /\ At(t, "update")
  /\ Visible(d) = NoRow
  /\ Blocked(d) => engine = "postgresql"
  /\ IF engine = "sqlite3" THEN Write(d, row) ELSE UNCHANGED <<row, writer, before>>
  /\ Goto(t, "insert")
  /\ UNCHANGED <<config, tx, mutexes, up, nested, image, wedged, faults>>

Insert(t) ==
  LET d == Home[t] IN
  /\ At(t, "insert")
  /\ ~ Blocked(d)
  /\ row = NoRow
  /\ Write(d, Inserted(image[t]))
  /\ Goto(t, "commit")
  /\ UNCHANGED <<config, tx, mutexes, up, nested, image, wedged, faults>>

\* Another daemon has inserted the row since the UPDATE.
DuplicateKey(t) ==
  /\ At(t, "insert")
  /\ ~ Blocked(Home[t])
  /\ row # NoRow
  /\ FailAtInsert(t)
  /\ UNCHANGED <<config, faults>>

CommitSet(t) ==
  /\ At(t, "commit")
  /\ Commit(Home[t])
  /\ Return(t, TRUE)
  /\ UNCHANGED <<config, wedged, faults>>

\* The server has committed, and the connection is lost before it says so.
CommitUnheard(t) ==
  /\ At(t, "commit")
  /\ engine # "sqlite3"
  /\ faults < MaxFaults
  /\ faults' = faults + 1
  /\ Commit(Home[t])
  /\ IF fatal THEN Gone(Home[t]) ELSE Return(t, FALSE) /\ UNCHANGED wedged
  /\ UNCHANGED config

\* A statement fails for a reason of its own.
StatementFails(t) ==
  /\ faults < MaxFaults
  /\ faults' = faults + 1
  /\ \/ At(t, "begin") /\ FailAtBegin(t)
     \/ At(t, "update") /\ Fail(t)
     \/ At(t, "insert") /\ FailAtInsert(t)
     \/ At(t, "commit") /\ FailAtCommit(t)
  /\ UNCHANGED config

\* SQLITE_BUSY: the transaction of another daemon has the database locked.
Busy(t) ==
  /\ At(t, "update")
  /\ engine = "sqlite3"
  /\ Blocked(Home[t])
  /\ Fail(t)
  /\ UNCHANGED <<config, faults>>

\* sql_db_duplicate_key_hack: a second sql_db_set with key_hack_mutex held, or
\* nothing if one has failed before.
EnterHack(t) ==
  LET d == Home[t] IN
  /\ At(t, "hack")
  /\ hackMutex[d] = None
  /\ IF hackFailed[d]
     THEN Fail(t)
     ELSE /\ hackMutex' = [hackMutex EXCEPT ![d] = t]
          /\ nested' = [nested EXCEPT ![t] = TRUE]
          /\ Goto(t, "begin")
          /\ UNCHANGED <<database, lock, hackFailed, up, image, wedged>>
  /\ UNCHANGED <<config, faults>>

\* The thread waits for a mutex it holds itself: its INSERT has failed again.
SelfLocked(t) == at[t] = "hack" /\ hackMutex[Home[t]] = t

\* The daemon is killed, and started again.
Crash(d) ==
  /\ up[d]
  /\ faults < MaxFaults
  /\ faults' = faults + 1
  /\ Rollback(d)
  /\ Gone(d)
  /\ UNCHANGED config

Start(d) ==
  /\ ~ up[d]
  /\ up' = [up EXCEPT ![d] = TRUE]
  /\ UNCHANGED <<config, database, mutexes, setting, wedged, faults>>

\* The steps of dbt_db_set that do not end a transaction with COMMIT.
SetStep(t) ==
  \/ Lock(t) \/ Begin(t) \/ Update(t) \/ UpdateNothing(t)
  \/ Insert(t) \/ DuplicateKey(t) \/ Busy(t) \/ EnterHack(t)
=============================================================================
