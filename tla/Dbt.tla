-------------------------------- MODULE Dbt ---------------------------------
(***************************************************************************)
(* The database tables of mopherd and their janitor (dbt.c).  The janitor  *)
(* thread walks all registered tables under dbt_janitor_mutex, deletes the *)
(* expired records of those whose time has come, and sleeps until the next *)
(* is due.  Tables are registered at startup or, by the hitlist module, at *)
(* their first use; main stops the janitor in dbt_clear.                   *)
(*                                                                         *)
(* All times are relative to the clock: 0 is now, Tick makes everything    *)
(* one older.  Each table has one record, known by its time of expiry.     *)
(***************************************************************************)
EXTENDS Integers, FiniteSetsExt

CONSTANTS
  Static,       \* tables registered and opened before the janitor starts
  Dynamic,      \* tables of hitlists
  Sql,          \* tables whose driver has dd_expire; the others are walked
  Interval,     \* dbt_cleanup_interval of a table, -1 for no clean-up
  Life,         \* how long a record is stored for
  Threads,      \* threads of connections
  None,
  MaxLate,      \* bound: how late the janitor may be
  MaxAge        \* bound: no time is kept apart from an earlier one than this

Tables == Static \cup Dynamic

ASSUME TablesAssumption == Static \cap Dynamic = {} /\ Sql \subseteq Tables
ASSUME TimesAssumption ==
  /\ Interval \in [Tables -> Nat \cup {-1}]
  /\ Life \in Nat /\ MaxLate \in Nat /\ MaxAge \in Nat /\ MaxAge > 2 * MaxLate
ASSUME NamesAssumption == None \notin Threads \cup Int /\ "janitor" \notin Threads \cup {None}

VARIABLES
  janitor,      \* the janitor thread
  running,      \* dbt_janitor_running
  holder,       \* who holds dbt_janitor_mutex
  jnow,         \* the janitor's "now", read at the start of a pass
  todo,         \* tables the pass has not visited
  wake,         \* when pthread_cond_timedwait times out
  registered,   \* dbt_tables
  driver,       \* tables with dbt_driver set
  opened,       \* tables with dbt_open set
  sched,        \* dbt_cleanup_schedule, None for 0
  rec,          \* the record of a table
  thread,       \* what a thread is doing, and for which hitlist
  main,         \* dbt_clear
  failed,       \* history: some database could not be opened
  jam           \* history: dbt_register has failed and kept the mutex

clean == <<jnow, todo, wake, sched, rec>>
tables == <<registered, driver, opened>>
past == <<failed, jam>>
vars == <<janitor, running, holder, clean, tables, thread, main, past>>

Idle == [at |-> "idle", hl |-> None]

Init ==
  /\ janitor = "start"
  /\ running = FALSE
  /\ holder = None
  /\ jnow = 0
  /\ todo = {}
  /\ wake = 0
  /\ registered = Static
  /\ driver = Static
  /\ opened = Static
  /\ sched = [t \in Tables |-> None]
  /\ rec = [t \in Tables |-> None]
  /\ thread = [h \in Threads |-> Idle]
  /\ main = "up"
  /\ failed = FALSE
  /\ jam = FALSE

(***************************************************************************)
(* The janitor                                                             *)
(***************************************************************************)

\* dbt_janitor says that it runs ...
Start ==
  /\ janitor = "start"
  /\ janitor' = "wakeup"
  /\ running' = TRUE
  /\ UNCHANGED <<holder, clean, tables, thread, main, past>>

\* Mutant of Resume: the flag is not looked at.
ResumeUnchecked ==
  /\ janitor = "wakeup"
  /\ holder = None
  /\ janitor' = "pass" /\ holder' = "janitor" /\ jnow' = 0 /\ todo' = registered
  /\ UNCHANGED <<running, wake, sched, rec, tables, thread, main, past>>

\* ... and has the mutex, at first and after every wait: a pass begins, or the end.
Resume ==
  /\ janitor = "wakeup"
  /\ holder = None
  /\ IF running
     THEN janitor' = "pass" /\ holder' = "janitor" /\ jnow' = 0 /\ todo' = registered
     ELSE janitor' = "exited" /\ UNCHANGED <<holder, jnow, todo>>
  /\ UNCHANGED <<running, wake, sched, rec, tables, thread, main, past>>

\* A table that was never cleaned is to be cleaned now.
Date(t) == IF sched[t] = None THEN jnow ELSE sched[t]

\* Mutant of Due: a table the janitor is late for is never due.
DueExactly(t) == jnow = Date(t)

Due(t) == jnow >= Date(t)

\* Mutant of Expired: the next date is compared, not the one that has come.
ExpiredSoon(t) ==
  rec[t] # None /\ (IF t \in Sql THEN rec[t] < 0 ELSE rec[t] < jnow + Interval[t])

\* dbt_common_validate compares with the schedule, the SQL statement with the clock.
Expired(t) ==
  rec[t] # None /\ (IF t \in Sql THEN rec[t] < 0 ELSE rec[t] < Date(t))

\* dbt_janitor_cleanup: the whole walk, which holds the table's mutex, or the SQL
\* statement, and the next date.  A table without an open database is skipped.
Visit(t) ==
  /\ janitor = "pass"
  /\ t \in todo
  /\ Interval[t] # -1
  /\ Due(t)
  /\ todo' = todo \ {t}
  /\ rec' = [rec EXCEPT ![t] = IF t \in opened /\ Expired(t) THEN None ELSE @]
  /\ sched' = [sched EXCEPT ![t] = jnow + Interval[t]]
  /\ UNCHANGED <<janitor, running, holder, jnow, wake, tables, thread, main, past>>

\* The driver fails: the table is rescheduled all the same.
VisitFails(t) ==
  /\ janitor = "pass"
  /\ t \in todo \cap driver
  /\ Interval[t] # -1
  /\ Due(t)
  /\ todo' = todo \ {t}
  /\ sched' = [sched EXCEPT ![t] = jnow + Interval[t]]
  /\ UNCHANGED <<janitor, running, holder, jnow, wake, rec, tables, thread, main, past>>

\* Not due, or not to be cleaned.
Skip(t) ==
  /\ janitor = "pass"
  /\ t \in todo
  /\ Interval[t] = -1 \/ ~ Due(t)
  /\ todo' = todo \ {t}
  /\ UNCHANGED <<janitor, running, holder, jnow, wake, sched, rec, tables, thread, main, past>>

\* The next run is when the first table is due.
NextRun ==
  LET dates == {sched[t] : t \in {t \in registered : Interval[t] # -1}}
  IN  IF dates = {} THEN jnow + 1 ELSE Min(dates)

\* pthread_cond_timedwait lets go of the mutex.
Sleep ==
  /\ janitor = "pass"
  /\ todo = {}
  /\ janitor' = "sleep"
  /\ holder' = None
  /\ wake' = NextRun
  /\ UNCHANGED <<running, jnow, todo, sched, rec, tables, thread, main, past>>

Timeout ==
  /\ janitor = "sleep"
  /\ wake <= 0
  /\ janitor' = "wakeup"
  /\ UNCHANGED <<running, holder, clean, tables, thread, main, past>>

(***************************************************************************)
(* Threads                                                                 *)
(***************************************************************************)

Set(h, p) == thread' = [thread EXCEPT ![h] = p]

\* dbt_db_set.
Store(t) ==
  /\ main = "up"
  /\ t \in opened
  /\ rec' = [rec EXCEPT ![t] = Life]
  /\ UNCHANGED <<janitor, running, holder, jnow, todo, wake, sched, tables, thread, main, past>>

\* hitlist_lookup finds its table closed and opens it under the hitlist's mutex.
\* dbt_register resets dbt_driver before it has the janitor's mutex.
HitlistOpen(h, t) ==
  /\ main = "up"
  /\ thread[h] = Idle
  /\ t \notin opened
  /\ \A g \in Threads : thread[g].hl # t
  /\ driver' = driver \ {t}
  /\ Set(h, [at |-> "register", hl |-> t])
  /\ UNCHANGED <<janitor, running, holder, clean, registered, opened, main, past>>

\* Mutant of RegisterLock: dbt_register does without the mutex.
RegisterLockNot(h) ==
  /\ thread[h].at = "register"
  /\ Set(h, [thread[h] EXCEPT !.at = "insert"])
  /\ UNCHANGED <<janitor, running, holder, clean, tables, main, past>>

\* dbt_register takes the janitor's mutex ...
RegisterLock(h) ==
  /\ thread[h].at = "register"
  /\ holder = None
  /\ holder' = h
  /\ Set(h, [thread[h] EXCEPT !.at = "insert"])
  /\ UNCHANGED <<janitor, running, clean, tables, main, past>>

\* ... adds the table to dbt_tables ...
Register(h) ==
  LET t == thread[h].hl IN
  /\ thread[h].at = "insert"
  /\ t \notin registered
  /\ registered' = registered \cup {t}
  /\ holder' = None
  /\ Set(h, [thread[h] EXCEPT !.at = "open"])
  /\ UNCHANGED <<janitor, running, clean, driver, opened, main, past>>

\* ... or fails because it is there from an earlier attempt, and returns with the
\* mutex locked.
RegisterFails(h) ==
  /\ thread[h].at = "insert"
  /\ thread[h].hl \in registered
  /\ Set(h, Idle)
  /\ jam' = TRUE
  /\ UNCHANGED <<janitor, running, holder, clean, tables, main, failed>>

\* dbt_open_database.
SetDriver(h) ==
  /\ thread[h].at = "open"
  /\ driver' = driver \cup {thread[h].hl}
  /\ Set(h, [thread[h] EXCEPT !.at = "connect"])
  /\ UNCHANGED <<janitor, running, holder, clean, registered, opened, main, past>>

Open(h, ok) ==
  /\ thread[h].at = "connect"
  /\ opened' = IF ok THEN opened \cup {thread[h].hl} ELSE opened
  /\ failed' = (failed \/ ~ ok)
  /\ Set(h, Idle)
  /\ UNCHANGED <<janitor, running, holder, clean, registered, driver, main, jam>>

(***************************************************************************)
(* dbt_clear, and the clock                                                *)
(***************************************************************************)

\* The janitor runs: it has to be stopped ...
Clear ==
  /\ main = "up"
  /\ main' = IF running THEN "stopping" ELSE "deleted"
  /\ UNCHANGED <<janitor, running, holder, clean, tables, thread, past>>

\* ... with the flag and a signal, under the mutex ...
Stop ==
  /\ main = "stopping"
  /\ holder = None
  /\ running' = FALSE
  /\ janitor' = IF janitor = "sleep" THEN "wakeup" ELSE janitor
  /\ main' = "joining"
  /\ UNCHANGED <<holder, clean, tables, thread, past>>

\* ... and joined before the tables are deleted.
Join ==
  /\ main = "joining"
  /\ janitor = "exited"
  /\ main' = "deleted"
  /\ UNCHANGED <<janitor, running, holder, clean, tables, thread, past>>

Older(x) == IF x = None \/ x = -MaxAge THEN x ELSE x - 1

\* Bound: the janitor is scheduled at most MaxLate after it could run.
Punctual ==
  \/ jam
  \/ janitor = "exited"
  \/ janitor = "pass" /\ jnow > -MaxLate
  \/ janitor # "pass" /\ wake > -MaxLate

Tick ==
  /\ main # "deleted"
  /\ Punctual
  /\ jnow' = Older(jnow)
  /\ wake' = Older(wake)
  /\ sched' = [t \in Tables |-> Older(sched[t])]
  /\ rec' = [t \in Tables |-> Older(rec[t])]
  /\ UNCHANGED <<janitor, running, holder, todo, tables, thread, main, past>>

Janitor ==
  \/ Start \/ Resume \/ Sleep \/ Timeout
  \/ \E t \in Tables : Visit(t) \/ VisitFails(t) \/ Skip(t)

Hitlist(h) ==
  \/ RegisterLock(h) \/ Register(h) \/ RegisterFails(h) \/ SetDriver(h)
  \/ \E ok \in BOOLEAN : Open(h, ok)

Next ==
  \/ Janitor
  \/ \E t \in Tables : Store(t)
  \/ \E h \in Threads : Hitlist(h) \/ \E t \in Dynamic : HitlistOpen(h, t)
  \/ Clear \/ Stop \/ Join
  \/ Tick

(***************************************************************************)
(* Threads are scheduled, a mutex that is free again and again is had at   *)
(* some time, time passes, and a driver does not fail each time.           *)
(***************************************************************************)
Fairness ==
  /\ WF_vars(Start) /\ SF_vars(Resume) /\ WF_vars(Sleep) /\ WF_vars(Timeout)
  /\ \A t \in Tables : SF_vars(Visit(t)) /\ WF_vars(Skip(t))
  /\ \A h \in Threads : WF_vars(Hitlist(h)) /\ SF_vars(RegisterLock(h))
  /\ SF_vars(Stop) /\ WF_vars(Join)
  /\ WF_vars(Tick)

Spec == Init /\ [][Next]_vars /\ Fairness

(***************************************************************************)
(* Properties                                                              *)
(***************************************************************************)
\* dbt_common_validate compares the expiry of a record not with the clock but with
\* the date its table was due at ("dbt_cleanup_schedule == time(NULL)"), and a pass
\* goes on with the time it began at.  However late the janitor is, no record is
\* deleted before it has expired.
NeverEarly ==
  [][\A t \in Tables : rec[t] # None /\ rec'[t] = None => rec[t] < 0]_vars

\* The janitor walks dbt_tables, a hash table that an insertion may rebuild: the
\* set of tables does not change under a pass, although hitlist_lookup registers
\* tables at any time.
WalkUndisturbed ==
  [][janitor = "pass" /\ registered' # registered => janitor' # "pass"]_vars

\* An expired record of an open table is deleted (or stored anew), unless mopherd
\* shuts down first or dbt_register has kept the janitor's mutex.  It does so only
\* for a table whose database failed to open before: connections that use a hitlist
\* for the first time at once do not register it twice.
EventuallyCleaned ==
  \A t \in Tables :
    t \in opened /\ Interval[t] # -1 /\ rec[t] # None /\ rec[t] < 0
      ~> rec[t] = None \/ rec[t] >= 0 \/ main # "up" \/ (jam /\ failed)

\* dbt_clear comes to an end, unless dbt_register has kept the janitor's mutex after a
\* database failed to open.
ShutsDown ==
  main = "stopping" ~> main = "deleted" \/ (jam /\ failed)

=============================================================================
