------------------------------- MODULE Daemon -------------------------------
(***************************************************************************)
(* The life of the mopherd process (mopherd.c, milter.c, dbt.c, log.c):    *)
(* main initialises one component after the other, runs libmilter, and     *)
(* leaves through exit, which calls mopherd_cleanup.  Any thread may call  *)
(* exit too: log_die does, and with fatal_database_errors it is called     *)
(* with the lock of a table held.  The cleanup then runs in that thread,   *)
(* stops the server thread and the janitor, and clears the components.     *)
(*                                                                         *)
(* All tables are one, with a recursive mutex (DBT_LOCK).  The server and  *)
(* the janitor are reduced to how they hold it; their own work, and the    *)
(* client thread's, is in Server, Dbt and Client.                          *)
(***************************************************************************)
EXTENDS Tarpit, Sequences

CONSTANTS
  Nobody,
  MaxSlept      \* bound: seconds a session sleeps before its last tarpit

ASSUME DaemonAssumption ==
  /\ MaxSlept \in Nat
  /\ {"main", "server", "janitor", Nobody} \cap Callbacks = {}
  /\ Nobody \notin {"main", "server", "janitor"}

\* milter_init, and the order of it.
Steps == <<"cf", "dbt", "acl", "greylist", "tarpit", "modules", "regdom", "symbols", "acls", "databases">>

Cleared == {"regdom", "acl", "dbt", "modules", "cf"}
Threads == {"main", "server", "janitor"} \cup Callbacks

VARIABLES
  check,          \* mopherd -C
  fatal,          \* cf_dbt_fatal_errors
  main,           \* "init", "smfi" in smfi_main, "stopped", or "clear" for milter_clear
  step,           \* the next step of milter_init
  threadsRunning, \* dbt_threads_running
  server,         \* the server thread
  serverRunning,  \* server_running
  janitor,        \* the janitor thread
  janitorRunning, \* dbt_janitor_running
  janitorMutex,   \* who holds dbt_janitor_mutex
  tableMutex,     \* who holds dbt_mutex
  callback,       \* the callback threads
  cleaner,        \* who runs milter_clear
  exiting,        \* whether it does so in exit
  cleanup,        \* where it is
  cleared,        \* history: how often a component has been cleared
  missed,         \* history: the helper threads that were told to stop and did not hear it
  process         \* "up", "gone", or "crashed" without a cleanup

helpers == <<server, serverRunning, janitor, janitorRunning, janitorMutex, tableMutex>>
exits == <<cleaner, exiting, cleanup, cleared, missed, threadsRunning>>
daemonvars == <<check, fatal, main, step, helpers, callback, exits, process>>
vars == <<daemonvars, tarpitvars, milterRunning>>

Init ==
  /\ TarpitInit /\ milterRunning = TRUE
  /\ check \in BOOLEAN /\ fatal \in BOOLEAN
  /\ check => ~ fatal           \* bound: a check meets no failing database
  /\ main = "init" /\ step = 1
  /\ threadsRunning = FALSE
  /\ server = "none" /\ serverRunning = FALSE
  /\ janitor = "none" /\ janitorRunning = FALSE
  /\ janitorMutex = Nobody /\ tableMutex = Nobody
  /\ callback = [c \in Callbacks |-> "out"]
  /\ cleaner = Nobody /\ exiting = FALSE /\ cleanup = "none"
  /\ cleared = [x \in Cleared |-> 0]
  /\ missed = {}
  /\ process = "up"

Quiet == UNCHANGED <<tarpitvars, milterRunning>>
Initialised(x) == \E i \in 1 .. step - 1 : Steps[i] = x

(***************************************************************************)
(* exit                                                                    *)
(***************************************************************************)

\* The first thread that calls exit runs mopherd_cleanup.
Exit(t) == cleaner' = t /\ exiting' = TRUE /\ cleanup' = "regdom"

\* log_die.  A second call while the first is at work has no defined effect: it may
\* end the process or wait for ever.
Die(t) ==
  \/ /\ cleaner = Nobody
     /\ Exit(t)
     /\ UNCHANGED <<cleared, missed, threadsRunning, process>>
  \/ /\ cleaner # Nobody
     /\ process' \in {"up", "gone"}
     /\ UNCHANGED exits

(***************************************************************************)
(* main                                                                    *)
(***************************************************************************)

\* A step of milter_init succeeds.  dbt_init starts the server thread, the databases
\* are opened last, and with them the janitor is started.
InitStep ==
  /\ main = "init" /\ cleaner = Nobody /\ step <= Len(Steps)
  /\ step' = step + 1
  /\ server' = IF Steps[step] = "dbt" THEN "start" ELSE server
  /\ threadsRunning' = (threadsRunning \/ Steps[step] = "dbt")
  /\ janitor' = IF Steps[step] = "databases" THEN "start" ELSE janitor
  /\ Quiet
  /\ UNCHANGED <<check, fatal, main, serverRunning, janitorRunning, janitorMutex, tableMutex,
                 callback, cleaner, exiting, cleanup, cleared, missed, process>>

\* A step, or milter() before smfi_main, fails: log_die.  In dbt_init the server
\* thread may be there already when the client's cannot be started.
InitFails ==
  /\ main = "init"
  /\ check => step <= Len(Steps)
  /\ main' = "dead"
  /\ Die("main")
  /\ \/ UNCHANGED server
     \/ step <= Len(Steps) /\ Steps[step] = "dbt" /\ server' = "start"
  /\ Quiet
  /\ UNCHANGED <<check, fatal, step, serverRunning, janitor, janitorRunning, janitorMutex, tableMutex, callback>>

\* The configuration is to be checked only: milter_clear, and then exit ...
Check ==
  /\ main = "init" /\ cleaner = Nobody /\ step > Len(Steps) /\ check
  /\ main' = "clear"
  /\ cleaner' = "main" /\ cleanup' = "regdom"
  /\ Quiet
  /\ UNCHANGED <<check, fatal, step, helpers, callback, exiting, cleared, missed, threadsRunning, process>>

\* ... or the daemon runs.
Milter ==
  /\ main = "init" /\ step > Len(Steps) /\ ~ check
  /\ main' = "smfi"
  /\ Quiet
  /\ UNCHANGED <<check, fatal, step, helpers, callback, exits, process>>

\* smfi_main returns when a signal has stopped libmilter; callbacks may still run.
Stopped ==
  /\ main = "smfi"
  /\ main' = "stopped"
  /\ milterRunning' = FALSE
  /\ UNCHANGED <<check, fatal, step, helpers, callback, exits, process, tarpitvars>>

\* main returns: exit.
Return ==
  /\ main = "stopped"
  /\ main' = "dead"
  /\ Die("main")
  /\ Quiet
  /\ UNCHANGED <<check, fatal, step, helpers, callback>>

(***************************************************************************)
(* The threads at work                                                     *)
(***************************************************************************)

\* The lock of the table is had, and let go of.
Lock(t) == tableMutex = Nobody /\ tableMutex' = t
Unlock(t) == tableMutex = t /\ tableMutex' = Nobody

\* server_main sets its flag, and then the handler of SIGUSR2.  If server_clear has
\* reset the flag before, it is set all the same.
ServerStart ==
  /\ server = "start"
  /\ server' = "flagged" /\ serverRunning' = TRUE
  /\ missed' = IF cleanup \in {"killserver", "joinserver"} THEN missed \cup {"server"} ELSE missed
  /\ UNCHANGED tableMutex

\* The loop looks at the flag, then select waits, for a request to dump a table.
ServerLoop ==
  /\ \/ server = "flagged" /\ server' = "loop"
     \/ server = "loop" /\ server' = (IF serverRunning THEN "tested" ELSE "ended")
     \/ server = "tested" /\ server' = "select"
  /\ UNCHANGED <<serverRunning, tableMutex, missed>>

ServerAsked ==
  /\ server = "select" /\ Initialised("databases")
  /\ server' = "asked"
  /\ Quiet
  /\ UNCHANGED <<check, fatal, main, step, serverRunning, janitor, janitorRunning, janitorMutex,
                 tableMutex, callback, exits, process>>

ServerLocks ==
  /\ server = "asked"
  /\ Lock("server")
  /\ server' = "table"
  /\ UNCHANGED <<serverRunning, missed>>

ServerUnlocks ==
  /\ server = "table"
  /\ Unlock("server")
  /\ server' = "loop"
  /\ UNCHANGED <<serverRunning, missed>>

ServerStep ==
  /\ ServerStart \/ ServerLoop \/ ServerLocks \/ ServerUnlocks
  /\ Quiet
  /\ UNCHANGED <<check, fatal, main, step, janitor, janitorRunning, janitorMutex, callback,
                 cleaner, exiting, cleanup, cleared, threadsRunning, process>>

\* A dump of a table that is registered and has no driver yet: the socket is served
\* from dbt_init on.
EarlyDump ==
  /\ server = "select"
  /\ Initialised("greylist") /\ ~ Initialised("databases")
  /\ process' = "crashed"
  /\ Quiet
  /\ UNCHANGED <<check, fatal, main, step, helpers, callback, exits>>

\* dbt_janitor: its flag, its mutex, a table, and the wait that lets go of the mutex.
JanitorStart ==
  /\ janitor = "start"
  /\ janitor' = "ready" /\ janitorRunning' = TRUE
  /\ UNCHANGED <<janitorMutex, tableMutex>>

JanitorRuns ==
  /\ janitor = "ready"
  /\ janitorMutex = Nobody
  /\ IF janitorRunning THEN janitor' = "pass" /\ janitorMutex' = "janitor"
     ELSE janitor' = "ended" /\ UNCHANGED janitorMutex
  /\ UNCHANGED <<janitorRunning, tableMutex>>

JanitorLocks ==
  /\ janitor = "pass"
  /\ Lock("janitor")
  /\ janitor' = "table"
  /\ UNCHANGED <<janitorRunning, janitorMutex>>

JanitorSleeps ==
  /\ janitor = "table"
  /\ Unlock("janitor")
  /\ janitor' = "asleep" /\ janitorMutex' = Nobody
  /\ UNCHANGED janitorRunning

JanitorWakes ==
  /\ janitor = "asleep"
  /\ janitor' = "ready"
  /\ UNCHANGED <<janitorRunning, janitorMutex, tableMutex>>

JanitorStep ==
  /\ JanitorStart \/ JanitorRuns \/ JanitorLocks \/ JanitorSleeps \/ JanitorWakes
  /\ Quiet
  /\ UNCHANGED <<check, fatal, main, step, server, serverRunning, callback, exits, process>>

\* Callbacks: a session begins, has a table for a while, is in a tarpit, and ends.
Session(c) ==
  /\ \/ main = "smfi" /\ callback[c] = "out" /\ callback' = [callback EXCEPT ![c] = "acl"]
        /\ UNCHANGED tableMutex
     \/ callback[c] = "acl" /\ callback' = [callback EXCEPT ![c] = "wants"] /\ UNCHANGED tableMutex
     \/ callback[c] = "wants" /\ Lock(c) /\ callback' = [callback EXCEPT ![c] = "table"]
     \/ callback[c] = "table" /\ Unlock(c) /\ callback' = [callback EXCEPT ![c] = "acl"]
  /\ ~ InTarpit(c)
  /\ Quiet
  /\ UNCHANGED <<check, fatal, main, step, server, serverRunning, janitor, janitorRunning, janitorMutex, exits, process>>

SessionEnds(c) ==
  /\ callback[c] = "acl" /\ ~ InTarpit(c)
  /\ callback' = [callback EXCEPT ![c] = "out"]
  /\ delayed' = [delayed EXCEPT ![c] = 0] /\ slept' = [slept EXCEPT ![c] = 0]
  /\ UNCHANGED <<pit, milterRunning, check, fatal, main, step, helpers, exits, process>>

TarpitStep(c) ==
  /\ callback[c] = "acl"
  /\ \/ Tarpitted(c)
     \/ slept[c] <= MaxSlept /\ \E d \in Delays : Enter(c, d)
  /\ UNCHANGED <<milterRunning, daemonvars>>

\* A fatal database error: log_die with the lock held.
Fatal(t) ==
  /\ fatal /\ tableMutex = t
  /\ \/ t = "server" /\ server = "table" /\ server' = "dead" /\ UNCHANGED <<janitor, callback>>
     \/ t = "janitor" /\ janitor = "table" /\ janitor' = "dead" /\ UNCHANGED <<server, callback>>
     \/ /\ t \in Callbacks /\ callback[t] = "table"
        /\ callback' = [callback EXCEPT ![t] = "dead"]
        /\ UNCHANGED <<server, janitor>>
  /\ Die(t)
  /\ Quiet
  /\ UNCHANGED <<check, fatal, main, step, serverRunning, janitorRunning, janitorMutex, tableMutex>>

(***************************************************************************)
(* mopherd_cleanup and milter_clear                                        *)
(***************************************************************************)

Clear(x) == cleared' = [cleared EXCEPT ![x] = @ + 1]
Goto(place) == cleanup' = place

ClearRegdom ==
  /\ cleanup = "regdom"
  /\ Clear("regdom") /\ Goto("acl")
  /\ UNCHANGED <<helpers, missed, threadsRunning, cleaner, exiting, process>>

ClearAcl ==
  /\ cleanup = "acl"
  /\ Clear("acl") /\ Goto("threads")
  /\ UNCHANGED <<helpers, missed, threadsRunning, cleaner, exiting, process>>

\* dbt_clear: client_clear, and server_clear, which resets the flag, if dbt_init came to
\* its end ...
StopServer ==
  /\ cleanup = "threads"
  /\ threadsRunning' = FALSE
  /\ IF threadsRunning THEN serverRunning' = FALSE /\ Goto("killserver")
     ELSE Goto("janitor") /\ UNCHANGED serverRunning
  /\ missed' = IF ~ threadsRunning /\ server \notin {"none", "ended"} THEN missed \cup {"server"} ELSE missed
  /\ UNCHANGED <<server, janitor, janitorRunning, janitorMutex, tableMutex, cleared, cleaner, exiting, process>>

\* ... and signals the thread.  Without a handler the signal ends the process; between
\* the look at the flag and select it is lost.
KillServer ==
  /\ cleanup = "killserver"
  /\ process' = IF server \in {"start", "flagged"} THEN "crashed" ELSE process
  /\ server' = IF server = "select" THEN "loop" ELSE server
  /\ missed' = IF server = "tested" THEN missed \cup {"server"} ELSE missed
  /\ Goto("joinserver")
  /\ UNCHANGED <<serverRunning, janitor, janitorRunning, janitorMutex, tableMutex, cleared, threadsRunning, cleaner, exiting>>

\* Mutant of JoinServer: the thread is told to stop and not waited for.
JoinServerNot ==
  /\ cleanup = "joinserver"
  /\ Goto("janitor")
  /\ UNCHANGED <<helpers, cleared, missed, threadsRunning, cleaner, exiting, process>>

\* pthread_join fails when the server thread is the one that exits.
JoinServer ==
  /\ cleanup = "joinserver"
  /\ server = "ended" \/ cleaner = "server"
  /\ Goto("janitor")
  /\ UNCHANGED <<helpers, cleared, missed, threadsRunning, cleaner, exiting, process>>

LookForJanitor ==
  /\ cleanup = "janitor"
  /\ Goto(IF janitorRunning THEN "stopjanitor" ELSE "tables")
  /\ missed' = IF janitor = "start" THEN missed \cup {"janitor"} ELSE missed
  /\ UNCHANGED <<helpers, cleared, threadsRunning, cleaner, exiting, process>>

\* Mutant of StopJanitor: the flag stays.
StopJanitorSignal ==
  /\ cleanup = "stopjanitor"
  /\ janitorMutex = Nobody
  /\ janitor' = IF janitor = "asleep" THEN "ready" ELSE janitor
  /\ Goto("joinjanitor")
  /\ UNCHANGED <<server, serverRunning, janitorRunning, janitorMutex, tableMutex, cleared, missed, threadsRunning, cleaner, exiting, process>>

StopJanitor ==
  /\ cleanup = "stopjanitor"
  /\ janitorMutex = Nobody
  /\ janitorRunning' = FALSE
  /\ janitor' = IF janitor = "asleep" THEN "ready" ELSE janitor
  /\ Goto("joinjanitor")
  /\ UNCHANGED <<server, serverRunning, janitorMutex, tableMutex, cleared, missed, threadsRunning, cleaner, exiting, process>>

JoinJanitor ==
  /\ cleanup = "joinjanitor"
  /\ janitor = "ended"
  /\ Goto("tables")
  /\ UNCHANGED <<helpers, cleared, missed, threadsRunning, cleaner, exiting, process>>

ClearTables ==
  /\ cleanup = "tables"
  /\ Clear("dbt") /\ Goto("modules")
  /\ UNCHANGED <<helpers, missed, threadsRunning, cleaner, exiting, process>>

ClearModules ==
  /\ cleanup = "modules"
  /\ Clear("modules") /\ Goto("cf")
  /\ UNCHANGED <<helpers, missed, threadsRunning, cleaner, exiting, process>>

\* After a check main returns, and exit begins from the start.
ClearCf ==
  /\ cleanup = "cf"
  /\ Clear("cf")
  /\ IF exiting THEN Goto("pidfile") ELSE Goto("regdom")
  /\ exiting' = TRUE
  /\ UNCHANGED <<helpers, missed, threadsRunning, cleaner, process>>

\* The PID file is removed, and the process ends with all its threads.
RemovePidfile ==
  /\ cleanup = "pidfile"
  /\ process' = "gone"
  /\ UNCHANGED <<helpers, exits>>

CleanupStep ==
  /\ \/ ClearRegdom \/ ClearAcl \/ StopServer \/ KillServer \/ JoinServer \/ LookForJanitor \/ StopJanitor
     \/ JoinJanitor \/ ClearTables \/ ClearModules \/ ClearCf \/ RemovePidfile
  /\ Quiet
  /\ UNCHANGED <<check, fatal, main, step, callback>>

Main == InitStep \/ Check \/ Milter \/ Return

\* What a thread that is scheduled does.
Work ==
  \/ Main \/ ServerStep \/ ServerAsked \/ JanitorStep \/ CleanupStep
  \/ \E c \in Callbacks : Session(c) \/ SessionEnds(c) \/ TarpitStep(c)

Next ==
  /\ process = "up"
  /\ \/ Work \/ InitFails \/ Stopped \/ EarlyDump
     \/ \E t \in Threads : Fatal(t)

\* Threads are scheduled, and nobody keeps a mutex for ever.
Fairness ==
  /\ WF_vars(process = "up" /\ Main) /\ WF_vars(process = "up" /\ CleanupStep)
  /\ SF_vars(process = "up" /\ StopJanitor /\ CleanupStep)
  /\ WF_vars(process = "up" /\ ServerStep) /\ SF_vars(process = "up" /\ ServerLocks /\ ServerStep)
  /\ WF_vars(process = "up" /\ JanitorStep)
  /\ SF_vars(process = "up" /\ JanitorLocks /\ JanitorStep)
  /\ SF_vars(process = "up" /\ JanitorRuns /\ JanitorStep)
  /\ \A c \in Callbacks :
       /\ WF_vars(process = "up" /\ callback[c] = "table" /\ Session(c))
       /\ WF_vars(process = "up" /\ Tarpitted(c) /\ TarpitStep(c))

Spec == Init /\ [][Next]_vars /\ Fairness

(***************************************************************************)
(* Properties                                                              *)
(***************************************************************************)

\* The components are cleared only after the threads that use them have ended: once the
\* tables are deleted and the modules unloaded, neither the server nor the janitor works
\* on them, unless the server is the one that exits or dbt_init failed after it was
\* started, or the janitor had not yet said that it runs when dbt_clear looked at
\* dbt_janitor_running.
HelpersStopped ==
  cleared["dbt"] > 0 =>
    /\ server \in {"none", "ended"} \/ cleaner = "server" \/ (step = 2 /\ "server" \in missed)
    /\ janitor \in {"none", "ended"} \/ "janitor" \in missed

\* A session that leaves the tarpit with ACL_NONE has been asleep for as long as it is
\* said to have been delayed: tarpit "makes sure we sleep at least nap seconds", unless
\* mopherd is being stopped.
DelaysServed == \A c \in Callbacks : milterRunning => delayed[c] <= slept[c]

\* The tarpit ends: at its delay, with the connection, or with mopherd.
TarpitEnds ==
  \A c \in Callbacks : InTarpit(c) ~> ~ InTarpit(c) \/ process # "up"

\* A thread that called exit neither returns nor lets go of what it has locked.
Dead ==
  {t \in {"server"} : server = "dead"} \cup {t \in {"janitor"} : janitor = "dead"}
    \cup {c \in Callbacks : callback[c] = "dead"}

\* The janitor has died in a pass, or waits in one for the table a dead thread has locked:
\* dbt_clear never gets its mutex.
Deadlocked == janitor = "dead" \/ (tableMutex \in Dead /\ janitor = "pass")

\* exit comes to its end, and with it the process, unless it is Deadlocked, or the server
\* thread has not heard that it is to stop.
ExitEnds == exiting ~> process # "up" \/ Deadlocked \/ "server" \in missed
=============================================================================
