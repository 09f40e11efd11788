------------------------------- MODULE Tarpit -------------------------------
(***************************************************************************)
(* The tarpit action of an ACL (tarpit.c): a callback thread sleeps for    *)
(* the delay a rule asks for, in naps after each of which it tells the MTA *)
(* that it is alive, and gives up when mopherd is shutting down.           *)
(***************************************************************************)
EXTENDS Integers, FiniteSetsExt

CONSTANTS
  Callbacks,    \* threads libmilter runs callbacks in
  Delays,       \* what the expression of a rule may give
  Interval      \* cf_tarpit_progress_interval

ASSUME TarpitAssumption == Delays \subseteq Int /\ Interval \in Nat \ {0}

VARIABLES
  pit,          \* the state of a callback thread in tarpit()
  delayed,      \* tarpit_delayed, of the session the thread runs
  slept,        \* history: seconds the session has slept
  milterRunning \* milter_running

tarpitvars == <<pit, delayed, slept>>

Out == [at |-> "out", delay |-> 0, remaining |-> 0, nap |-> 0]

TarpitInit ==
  /\ pit = [c \in Callbacks |-> Out]
  /\ delayed = [c \in Callbacks |-> 0]
  /\ slept = [c \in Callbacks |-> 0]

InTarpit(c) == pit[c].at # "out"
SetPit(c, p) == pit' = [pit EXCEPT ![c] = p]

\* The next nap is taken off what remains before it is slept.
Nap(delay, remaining) ==
  LET nap == Min({remaining, Interval})
  IN  [at |-> "asleep", delay |-> delay, remaining |-> remaining - nap, nap |-> nap]

\* A rule asks for a delay.  Without one the ACL goes on at once.
Enter(c, delay) ==
  /\ ~ InTarpit(c)
  /\ SetPit(c, IF delay <= 0 THEN Out ELSE Nap(delay, delay))
  /\ UNCHANGED <<delayed, slept>>

\* sleep(nap): a second passes.
Second(c) ==
  /\ pit[c].at = "asleep"
  /\ pit[c].nap > 0
  /\ SetPit(c, [pit[c] EXCEPT !.nap = @ - 1])
  /\ slept' = [slept EXCEPT ![c] = @ + 1]
  /\ UNCHANGED delayed

\* Mutant of Wake: a signal ends the nap.
WakeAtSignal(c) ==
  /\ pit[c].at = "asleep"
  /\ SetPit(c, [pit[c] EXCEPT !.at = "awake"])
  /\ UNCHANGED <<delayed, slept>>

\* The nap is over, or a signal interrupts it while mopherd shuts down; otherwise the
\* rest of it is slept.
Wake(c) ==
  /\ pit[c].at = "asleep"
  /\ pit[c].nap = 0 \/ ~ milterRunning
  /\ SetPit(c, [pit[c] EXCEPT !.at = "awake"])
  /\ UNCHANGED <<delayed, slept>>

\* Mutant of Over: the loop goes on when nothing is left.
OverLate(c) == pit[c].remaining < 0

Over(c) == pit[c].remaining <= 0

\* The delay is over, and is added to what the session has been delayed: ACL_NONE.
Leave(c) ==
  /\ pit[c].at = "awake"
  /\ Over(c)
  /\ delayed' = [delayed EXCEPT ![c] = @ + pit[c].delay]
  /\ SetPit(c, Out)
  /\ UNCHANGED slept

\* milter_running is 0 (ACL_ERROR), or smfi_progress fails because the MTA is gone
\* (ACL_TEMPFAIL): nothing is added.
GiveUp(c) ==
  /\ pit[c].at = "awake"
  /\ ~ Over(c)
  /\ SetPit(c, Out)
  /\ UNCHANGED <<delayed, slept>>

\* smfi_progress succeeds: the next nap.
Progress(c) ==
  /\ pit[c].at = "awake"
  /\ ~ Over(c)
  /\ milterRunning
  /\ SetPit(c, Nap(pit[c].delay, pit[c].remaining))
  /\ UNCHANGED <<delayed, slept>>

Tarpitted(c) == Second(c) \/ Wake(c) \/ Leave(c) \/ GiveUp(c) \/ Progress(c)
=============================================================================
