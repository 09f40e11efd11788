---------------------------- MODULE DaemonProofs ----------------------------
(***************************************************************************)
(* Proofs about Daemon and Tarpit, for any set of callback threads, any    *)
(* delays and any interval.                                                *)
(***************************************************************************)
EXTENDS Daemon, TLAPS

USE TarpitAssumption, DaemonAssumption

(***************************************************************************)
(* A tarpit is slept in full                                               *)
(***************************************************************************)

Pit == [at : {"out", "asleep", "awake"}, delay : Int, remaining : Int, nap : Int]

\* While mopherd runs, a thread that is awake has slept its nap, and the session has
\* slept for what it was delayed before and what has gone by of the present delay.
SleptInv ==
  /\ pit \in [Callbacks -> Pit]
  /\ delayed \in [Callbacks -> Int]
  /\ slept \in [Callbacks -> Int]
  /\ milterRunning \in BOOLEAN
  /\ milterRunning =>
       \A c \in Callbacks :
         /\ pit[c].at = "awake" => pit[c].nap = 0
         /\ IF InTarpit(c)
            THEN /\ pit[c].remaining + pit[c].nap <= pit[c].delay
                 /\ delayed[c] + pit[c].delay - pit[c].remaining - pit[c].nap <= slept[c]
            ELSE delayed[c] <= slept[c]

\* The next nap and what remains after it make up what remained.
LEMMA NapFacts ==
  ASSUME NEW d \in Int, NEW r \in Int
  PROVE  /\ Nap(d, r) \in Pit
         /\ Nap(d, r).at = "asleep"
         /\ Nap(d, r).delay = d
         /\ Nap(d, r).remaining + Nap(d, r).nap = r
  <1>1. Min({r, Interval}) \in Int
    <2>1. \E x \in {r, Interval} : \A y \in {r, Interval} : x <= y
      OBVIOUS
    <2>2. QED
      BY <2>1 DEF Min
  <1>2. QED
    BY <1>1 DEF Nap, Pit

\* The thread that is not in the tarpit.
LEMMA OutFacts == Out \in Pit /\ Out.at = "out"
  BY DEF Out, Pit

\* Only the tarpit itself, the end of a session and the end of smfi_main touch the state
\* of a tarpit.
LEMMA TarpitFrame ==
  ASSUME Next
  PROVE  \/ UNCHANGED <<tarpitvars, milterRunning>>
         \/ milterRunning' = FALSE /\ UNCHANGED tarpitvars
         \/ \E c \in Callbacks : SessionEnds(c)
         \/ \E c \in Callbacks : TarpitStep(c)
  <1> USE DEF Quiet
  <1>1. CASE Main \/ InitFails \/ Stopped \/ EarlyDump \/ \E t \in Threads : Fatal(t)
    BY <1>1 DEF Main, InitStep, Check, Milter, Return, InitFails, Stopped, EarlyDump, Fatal
  <1>2. CASE ServerStep \/ ServerAsked \/ JanitorStep \/ CleanupStep
    BY <1>2 DEF ServerStep, ServerAsked, JanitorStep, CleanupStep
  <1>3. CASE \E c \in Callbacks : Session(c) \/ SessionEnds(c) \/ TarpitStep(c)
    BY <1>3 DEF Session
  <1>4. QED
    BY <1>1, <1>2, <1>3 DEF Next, Work

\* Every step of a tarpit keeps the account of what was slept.
LEMMA TarpitStepFacts ==
  ASSUME SleptInv, NEW c \in Callbacks, TarpitStep(c)
  PROVE  SleptInv'
  <1> USE DEF SleptInv, InTarpit, SetPit
  <1>1. milterRunning' = milterRunning
    BY DEF TarpitStep
  <1>2. CASE \E d \in Delays : Enter(c, d)
    <2>1. PICK d \in Delays : Enter(c, d)
      BY <1>2
    <2>2. CASE d <= 0
      BY <1>1, <2>1, <2>2, OutFacts DEF Enter
    <2>3. CASE ~ (d <= 0)
      <3> DEFINE n == Nap(d, d)
      <3>1. d \in Int /\ n \in Pit /\ n.at = "asleep" /\ n.delay = d /\ n.remaining + n.nap = d
        BY NapFacts
      <3> HIDE DEF n
      <3>2. pit' = [pit EXCEPT ![c] = n] /\ UNCHANGED <<delayed, slept>>
        BY <2>1, <2>3 DEF Enter, n
      <3>3. QED
        BY <1>1, <2>1, <3>1, <3>2 DEF Enter, Pit
    <2>4. QED
      BY <2>2, <2>3
  <1>3. CASE Second(c)
    <2> DEFINE p == [pit[c] EXCEPT !.nap = @ - 1]
    <2>1. p \in Pit /\ p.at = "asleep" /\ p.nap = pit[c].nap - 1 /\ p.delay = pit[c].delay
          /\ p.remaining = pit[c].remaining
      BY <1>3 DEF Second, Pit
    <2> HIDE DEF p
    <2>2. pit' = [pit EXCEPT ![c] = p] /\ slept' = [slept EXCEPT ![c] = @ + 1] /\ UNCHANGED delayed
      BY <1>3 DEF Second, p
    <2>3. QED
      BY <1>1, <1>3, <2>1, <2>2 DEF Second, Pit
  <1>4. CASE Wake(c)
    <2> DEFINE p == [pit[c] EXCEPT !.at = "awake"]
    <2>1. p \in Pit /\ p.at = "awake" /\ p.nap = pit[c].nap /\ p.delay = pit[c].delay
          /\ p.remaining = pit[c].remaining
      BY <1>4 DEF Wake, Pit
    <2> HIDE DEF p
    <2>2. pit' = [pit EXCEPT ![c] = p] /\ UNCHANGED <<delayed, slept>>
      BY <1>4 DEF Wake, p
    <2>3. QED
      BY <1>1, <1>4, <2>1, <2>2 DEF Wake, Pit
  <1>5. CASE Leave(c)
    BY <1>1, <1>5, OutFacts DEF Leave, Over, Pit
  <1>6. CASE GiveUp(c)
    BY <1>1, <1>6, OutFacts DEF GiveUp, Over, Pit
  <1>7. CASE Progress(c)
    <2> DEFINE n == Nap(pit[c].delay, pit[c].remaining)
    <2>0. pit[c].delay \in Int /\ pit[c].remaining \in Int
      BY DEF Pit
    <2>1. /\ n \in Pit /\ n.at = "asleep" /\ n.delay = pit[c].delay
          /\ n.remaining + n.nap = pit[c].remaining
      BY <2>0, NapFacts
    <2> HIDE DEF n
    <2>2. pit' = [pit EXCEPT ![c] = n] /\ UNCHANGED <<delayed, slept>>
      BY <1>7 DEF Progress, n
    <2>3. QED
      BY <1>1, <1>7, <2>1, <2>2 DEF Progress, Pit
  <1>8. QED
    BY <1>2, <1>3, <1>4, <1>5, <1>6, <1>7 DEF TarpitStep, Tarpitted

\* A session that leaves the tarpit with ACL_NONE has slept for as long as tarpit_delayed
\* says, for any delays and any progress interval.
THEOREM DelaysAreSlept == Spec => []DelaysServed
  <1>1. Init => SleptInv
    BY OutFacts DEF Init, TarpitInit, SleptInv, InTarpit
  <1>2. SleptInv /\ [Next]_vars => SleptInv'
    <2> SUFFICES ASSUME SleptInv, [Next]_vars PROVE SleptInv'
      OBVIOUS
    <2> USE DEF SleptInv, InTarpit
    <2>1. CASE UNCHANGED <<tarpitvars, milterRunning>>
      BY <2>1 DEF tarpitvars
    <2>2. CASE milterRunning' = FALSE /\ UNCHANGED tarpitvars
      BY <2>2 DEF tarpitvars
    <2>3. ASSUME NEW c \in Callbacks, SessionEnds(c) PROVE SleptInv'
      BY <2>3 DEF SessionEnds
    <2>4. ASSUME NEW c \in Callbacks, TarpitStep(c) PROVE SleptInv'
      BY <2>4, TarpitStepFacts
    <2>5. QED
      BY <2>1, <2>2, <2>3, <2>4, TarpitFrame DEF vars
  <1>3. SleptInv => DelaysServed
    BY DEF SleptInv, DelaysServed, InTarpit, Pit
  <1>4. QED
    BY <1>1, <1>2, <1>3, PTL DEF Spec
(***************************************************************************)
(* The helper threads have ended when the tables are deleted               *)
(***************************************************************************)

ServerOff == server \in {"none", "ended"} \/ cleaner = "server"
ServerDown == ServerOff \/ (step = 2 /\ "server" \in missed)
JanitorDown == janitor \in {"none", "ended"} \/ "janitor" \in missed

\* Nobody but main exits, and no helper is at work, before the databases are open.
OrderInv ==
  /\ step \in Nat \ {0}
  /\ step <= Len(Steps) =>
       /\ main = "init" => cleaner = Nobody
       /\ main \in {"init", "dead"}
       /\ janitor = "none"
       /\ server \notin {"asked", "table"}
       /\ \A c \in Callbacks : callback[c] = "out"

\* Where the cleanup is tells which threads it has dealt with: the server thread once it
\* is past joinserver, or if dbt_init never set dbt_threads_running, and the janitor
\* once it deletes tables.  A flag that is off belongs to a janitor that is not there.
StopInv ==
  /\ cleared \in [Cleared -> Nat]
  /\ threadsRunning \in BOOLEAN
  /\ cleaner = Nobody => cleanup = "none" /\ cleared["dbt"] = 0
  /\ ~ threadsRunning /\ cleanup \notin {"killserver", "joinserver"} => ServerOff \/ step = 2
  /\ \/ cleanup \in {"janitor", "stopjanitor", "joinjanitor", "tables", "modules", "cf", "pidfile"}
     \/ cleared["dbt"] > 0
     => ServerDown
  /\ ~ janitorRunning /\ janitor \notin {"none", "start", "ended"} => cleanup = "joinjanitor"
  /\ cleanup \in {"tables", "modules", "cf", "pidfile"} \/ cleared["dbt"] > 0 => JanitorDown

\* The server thread is started in the second step, the janitor in the last.
LEMMA StepsFacts ==
  /\ Len(Steps) = 10
  /\ \A i \in Nat : 1 <= i /\ i <= 10 =>
       /\ Steps[i] = "dbt" <=> i = 2
       /\ Steps[i] = "databases" <=> i = 10
  BY DEF Steps

\* Every step keeps the order of things at the start.
LEMMA OrderStep == OrderInv /\ [Next]_vars => OrderInv'
  <1> SUFFICES ASSUME OrderInv, [Next]_vars PROVE OrderInv'
    OBVIOUS
  <1> USE StepsFacts DEF OrderInv
  <1>1. CASE InitStep
    BY <1>1 DEF InitStep
  <1>2. CASE InitFails
    BY <1>2 DEF InitFails, Die, Exit, exits
  <1>3. CASE Check \/ Milter \/ Return \/ Stopped \/ EarlyDump
    BY <1>3 DEF Check, Milter, Return, Stopped, EarlyDump, helpers, exits
  <1>10. CASE ServerAsked
    <2>1. step > 10
      <3>1. PICK i \in 1 .. step - 1 : Steps[i] = "databases"
        BY <1>10 DEF ServerAsked, Initialised
      <3>2. CASE step <= 10
        BY <3>1, <3>2
      <3>3. QED
        BY <3>2
    <2>2. QED
      BY <1>10, <2>1 DEF ServerAsked, exits
  <1>4. CASE ServerStep
    BY <1>4 DEF ServerStep, ServerStart, ServerLoop, ServerLocks, ServerUnlocks
  <1>5. CASE JanitorStep
    BY <1>5 DEF JanitorStep, JanitorStart, JanitorRuns, JanitorLocks, JanitorSleeps, JanitorWakes, exits
  <1>6. CASE CleanupStep
    BY <1>6 DEF CleanupStep, ClearRegdom, ClearAcl, StopServer, KillServer, JoinServer, LookForJanitor,
       StopJanitor, JoinJanitor, ClearTables, ClearModules, ClearCf, RemovePidfile, helpers, exits
  <1>7. ASSUME NEW c \in Callbacks, Session(c) \/ SessionEnds(c) \/ TarpitStep(c) PROVE OrderInv'
    BY <1>7 DEF Session, SessionEnds, TarpitStep, daemonvars, helpers, exits
  <1>8. ASSUME NEW t \in Threads, Fatal(t) PROVE OrderInv'
    BY <1>8 DEF Fatal
  <1>9. CASE UNCHANGED vars
    BY <1>9 DEF vars, daemonvars, helpers, exits
  <1>11. QED
    BY <1>1, <1>2, <1>3, <1>10, <1>4, <1>5, <1>6, <1>7, <1>8, <1>9 DEF Next, Work, Main
\* Every step keeps what the cleanup has dealt with.
LEMMA StopStep == OrderInv /\ StopInv /\ [Next]_vars => StopInv'
  <1> SUFFICES ASSUME OrderInv, StopInv, [Next]_vars PROVE StopInv'
    OBVIOUS
  <1> USE DaemonAssumption DEF StopInv, ServerOff, ServerDown, JanitorDown
  <1>1. CASE InitStep
    <2>1. /\ cleaner = Nobody /\ step \in Nat \ {0} /\ step <= 10 /\ janitor = "none"
          /\ step' = step + 1
          /\ janitor' \in {"none", "start"}
          /\ UNCHANGED <<janitorRunning, cleaner, cleanup, cleared, missed>>
      BY <1>1, StepsFacts DEF InitStep, OrderInv
    <2>2. CASE step = 2
      <3>1. Steps[step] = "dbt"
        BY <2>2, StepsFacts
      <3>2. threadsRunning' = TRUE
        BY <1>1, <3>1 DEF InitStep
      <3>3. QED
        BY <2>1, <3>2
    <2>3. CASE step # 2
      <3>1. UNCHANGED <<server, threadsRunning>>
        BY <1>1, <2>1, <2>3, StepsFacts DEF InitStep
      <3>2. QED
        BY <2>1, <2>3, <3>1
    <2>4. QED
      BY <2>2, <2>3
  <1>2. CASE InitFails
    <2>1. step <= 10 => cleaner = Nobody
      BY <1>2, StepsFacts DEF InitFails, OrderInv
    <2>2. server' # server => step = 2
      BY <1>2, StepsFacts DEF InitFails, OrderInv
    <2>3. CASE cleaner = Nobody
      BY <1>2, <2>2, <2>3 DEF InitFails, Die, Exit
    <2>4. CASE cleaner # Nobody
      BY <1>2, <2>1, <2>2, <2>4 DEF InitFails, Die, exits
    <2>5. QED
      BY <2>3, <2>4
  <1>3. CASE Check \/ Milter \/ Stopped \/ EarlyDump \/ ServerAsked
    BY <1>3 DEF Check, Milter, Stopped, EarlyDump, ServerAsked, helpers, exits
  <1>4. CASE Return
    BY <1>4 DEF Return, Die, Exit, helpers, exits
  <1>5. CASE ServerStep
    BY <1>5 DEF ServerStep, ServerStart, ServerLoop, ServerLocks, ServerUnlocks
  <1>6. CASE JanitorStep
    BY <1>6 DEF JanitorStep, JanitorStart, JanitorRuns, JanitorLocks, JanitorSleeps, JanitorWakes, exits
  <1>7. CASE CleanupStep
    <2> step' = step
      BY <1>7 DEF CleanupStep
    <2>1. CASE ClearRegdom \/ ClearAcl \/ ClearTables \/ ClearModules \/ ClearCf
      BY <2>1 DEF ClearRegdom, ClearAcl, ClearTables, ClearModules, ClearCf, Clear, Goto, Cleared, helpers
    <2>2. CASE StopServer \/ KillServer \/ JoinServer
      BY <2>2 DEF StopServer, KillServer, JoinServer, Goto, helpers
    <2>3. CASE LookForJanitor \/ StopJanitor \/ JoinJanitor \/ RemovePidfile
      BY <2>3 DEF LookForJanitor, StopJanitor, JoinJanitor, RemovePidfile, Goto, helpers, exits
    <2>4. QED
      BY <1>7, <2>1, <2>2, <2>3 DEF CleanupStep
  <1>8. ASSUME NEW c \in Callbacks, Session(c) \/ SessionEnds(c) \/ TarpitStep(c) PROVE StopInv'
    BY <1>8 DEF Session, SessionEnds, TarpitStep, daemonvars, helpers, exits
  <1>9. ASSUME NEW t \in Threads, Fatal(t) PROVE StopInv'
    BY <1>9 DEF Fatal, Die, Exit, exits, Threads
  <1>10. CASE UNCHANGED vars
    BY <1>10 DEF vars, daemonvars, helpers, exits
  <1>11. QED
    BY <1>1, <1>2, <1>3, <1>4, <1>5, <1>6, <1>7, <1>8, <1>9, <1>10 DEF Next, Work, Main

\* When dbt_clear deletes the tables the server thread and the janitor have ended, with the
\* exceptions HelpersStopped names, whichever thread calls exit and whenever it does.
THEOREM TablesOutliveHelpers == Spec => []HelpersStopped
  <1>1. Init => OrderInv /\ StopInv
    <2>1. Init => OrderInv
      BY DEF Init, OrderInv
    <2>2. ASSUME Init PROVE StopInv
      <3>1. threadsRunning \in BOOLEAN
        BY <2>2 DEF Init
      <3>2. cleared \in [Cleared -> Nat] /\ cleared["dbt"] = 0
        BY <2>2 DEF Init, Cleared
      <3>3. cleanup = "none" /\ server = "none" /\ janitor = "none"
        BY <2>2 DEF Init
      <3>4. QED
        BY <3>1, <3>2, <3>3 DEF StopInv, ServerOff
    <2>3. QED
      BY <2>1, <2>2
  <1>2. OrderInv /\ StopInv /\ [Next]_vars => (OrderInv /\ StopInv)'
    BY OrderStep, StopStep
  <1>3. StopInv => HelpersStopped
    BY DEF StopInv, HelpersStopped, ServerDown, ServerOff, JanitorDown
  <1>4. QED
    BY <1>1, <1>2, <1>3, PTL DEF Spec
=============================================================================
