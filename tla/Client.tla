------------------------------- MODULE Client -------------------------------
(***************************************************************************)
(* The synchronisation client (client.c): dbt_db_set hands every record to *)
(* client_sync, which queues it for a thread that sends it to all peers.   *)
(* A peer that cannot be reached gets a queue of its own, flushed when it  *)
(* is connected again.                                                     *)
(*                                                                         *)
(* The thread owns client_mutex except while it waits on client_cond, so   *)
(* client_sync and client_clear happen between its waits.  A connection    *)
(* attempt or a write succeeds or fails at any time.  Records are numbered *)
(* in the order of client_sync.                                            *)
(***************************************************************************)
EXTENDS Integers, Sequences, Functions

CONSTANTS
  Peers,        \* client_servers, in order
  Threads,      \* threads that call dbt_db_set
  Oversized,    \* records var_dump cannot write into SEND_BUFFER
  MaxRecords    \* bound: records handed to client_sync

ASSUME PeersAssumption == Peers \in Seq(Range(Peers)) /\ Peers # <<>> /\ IsInjective(Peers)
ASSUME RecordsAssumption == MaxRecords \in Nat /\ Oversized \subseteq 1..MaxRecords

Servers == Range(Peers)

VARIABLES
  pc,           \* the client thread
  running,      \* client_running
  incomplete,   \* whether client_update or client_reconnect left a peer behind
  queue,        \* client_queue
  cur,          \* the record client_update is distributing, 0 for none
  todo,         \* the peers it has not been sent to yet
  open,         \* c_socket # -1
  backlog,      \* c_queue
  checked,      \* threads inside client_sync that found the client running
  main,         \* client_clear
  synced,       \* history: the last record handed over
  sent          \* history: what was written to a peer's connection

thread == <<pc, incomplete, cur, todo>>
peers == <<open, backlog, sent>>
vars == <<thread, running, queue, peers, checked, main, synced>>

Init ==
  /\ pc = "start"
  /\ running = FALSE
  /\ incomplete = FALSE
  /\ queue = <<>>
  /\ cur = 0
  /\ todo = <<>>
  /\ open = [s \in Servers |-> FALSE]
  /\ backlog = [s \in Servers |-> <<>>]
  /\ checked = {}
  /\ main = "up"
  /\ synced = 0
  /\ sent = [s \in Servers |-> <<>>]

(***************************************************************************)
(* Talking to a peer                                                       *)
(***************************************************************************)

\* A peer: its connection, its backlog and what was written to it.
Peer(s) == [open |-> open[s], backlog |-> backlog[s], sent |-> sent[s]]

\* The write succeeds, or fails and closes the connection.
Written(p, r) == [p EXCEPT !.sent = Append(@, r)]
Broken(p) == [p EXCEPT !.open = FALSE]

\* How many records of a backlog can be sent: none from an oversized one on.
Sendable(q) == {k \in 0..Len(q) : \A i \in 1..k : q[i] \notin Oversized}

\* client_flush on an open connection: k records are sent; the next one is put back
\* because it is too large, or its write fails and closes the connection.
Flushed(p) ==
  LET q == p.backlog
      After(k) == [p EXCEPT !.backlog = SubSeq(q, k + 1, Len(q)), !.sent = @ \o SubSeq(q, 1, k)]
  IN  {IF k + 1 \in Sendable(q) THEN Broken(After(k)) ELSE After(k) : k \in Sendable(q)}

\* client_connect.
Connected(p) == {p} \cup Flushed([p EXCEPT !.open = TRUE])

\* Mutant of Sent: the record overtakes the backlog.
SentFirst(p, r) ==
  LET ready == IF p.open THEN {p} ELSE {p, [p EXCEPT !.open = TRUE]}
  IN  {[peer |-> x, ok |-> FALSE] : x \in {x \in ready : ~ x.open \/ r \in Oversized}}
      \cup {[peer |-> Broken(x), ok |-> FALSE] : x \in {x \in ready : x.open /\ r \notin Oversized}}
      \cup {[peer |-> Written(x, r), ok |-> TRUE] : x \in {x \in ready : x.open /\ r \notin Oversized}}

\* client_send: connects first if need be.
Sent(p, r) ==
  LET ready == IF p.open THEN {p} ELSE Connected(p)
  IN  {[peer |-> x, ok |-> FALSE] : x \in {x \in ready : ~ x.open \/ r \in Oversized}}
      \cup {[peer |-> Broken(x), ok |-> FALSE] : x \in {x \in ready : x.open /\ r \notin Oversized}}
      \cup {[peer |-> Written(x, r), ok |-> TRUE] : x \in {x \in ready : x.open /\ r \notin Oversized}}

SetPeer(s, p) ==
  /\ open' = [open EXCEPT ![s] = p.open]
  /\ backlog' = [backlog EXCEPT ![s] = p.backlog]
  /\ sent' = [sent EXCEPT ![s] = p.sent]

(***************************************************************************)
(* The client thread                                                       *)
(***************************************************************************)

\* client_main sets the flag, whatever client_clear may have done to it ...
Start ==
  /\ pc = "start"
  /\ pc' = "enter"
  /\ running' = TRUE
  /\ UNCHANGED <<incomplete, cur, todo, queue, peers, checked, main, synced>>

\* Mutant of Loop: the thread looks at the flag before it locks the mutex only.
LoopUnchecked == pc' = "wait" /\ UNCHANGED running

\* The head of the loop, with the mutex held.
Loop ==
  IF running THEN pc' = "wait" /\ UNCHANGED running
  ELSE pc' = "exited" /\ running' = FALSE

\* ... and takes the mutex.
Lock ==
  /\ pc = "enter"
  /\ Loop
  /\ UNCHANGED <<incomplete, cur, todo, queue, peers, checked, main, synced>>

\* pthread_cond_timedwait returns because of a signal: client_update begins.
Wake ==
  /\ pc = "woken"
  /\ pc' = "update"
  /\ incomplete' = FALSE
  /\ UNCHANGED <<cur, todo, running, queue, peers, checked, main, synced>>

\* client_update takes the next record, or is done.
Dequeue ==
  /\ pc = "update"
  /\ todo = <<>>
  /\ IF queue # <<>>
     THEN /\ cur' = Head(queue) /\ queue' = Tail(queue) /\ todo' = Peers
          /\ UNCHANGED <<pc, running>>
     ELSE cur' = 0 /\ UNCHANGED <<queue, todo>> /\ Loop
  /\ UNCHANGED <<incomplete, peers, checked, main, synced>>

\* Mutant of Enqueued: a record that could not be sent is dropped.
EnqueuedNever(p, r) == p

\* client_enqueue.
Enqueued(p, r) == [p EXCEPT !.backlog = Append(@, r)]

\* client_update sends the record to the next peer, or queues it there.
SendNext ==
  /\ pc = "update"
  /\ todo # <<>>
  /\ \E x \in Sent(Peer(Head(todo)), cur) :
       /\ SetPeer(Head(todo), IF x.ok THEN x.peer ELSE Enqueued(x.peer, cur))
       /\ incomplete' = (incomplete \/ ~ x.ok)
  /\ todo' = Tail(todo)
  /\ UNCHANGED <<pc, cur, running, queue, checked, main, synced>>

\* The timer of pthread_cond_timedwait runs out: from here on a signal is lost.
TimerFires ==
  /\ pc = "wait"
  /\ pc' = "timedout"
  /\ UNCHANGED <<incomplete, cur, todo, running, queue, peers, checked, main, synced>>

\* The timeout: client_reconnect visits the peers without a connection, if the last
\* update left one.  The queue is not looked at.
Timeout ==
  /\ pc = "timedout"
  /\ IF incomplete THEN pc' = "reconnect" /\ todo' = Peers /\ UNCHANGED running
     ELSE Loop /\ UNCHANGED todo
  /\ incomplete' = FALSE
  /\ UNCHANGED <<cur, queue, peers, checked, main, synced>>

Reconnect ==
  /\ pc = "reconnect"
  /\ IF todo = <<>> THEN Loop /\ UNCHANGED <<todo, incomplete, peers>>
     ELSE LET p == Peer(Head(todo)) IN
          /\ todo' = Tail(todo)
          /\ IF p.open THEN UNCHANGED <<peers, incomplete>>
             ELSE \/ /\ incomplete' = TRUE            \* sock_connect failed
                     /\ UNCHANGED peers
                  \/ \E x \in Flushed([p EXCEPT !.open = TRUE]) :
                       SetPeer(Head(todo), x) /\ UNCHANGED incomplete
          /\ UNCHANGED <<pc, running>>
  /\ UNCHANGED <<cur, queue, checked, main, synced>>

(***************************************************************************)
(* The threads that use it                                                 *)
(***************************************************************************)

\* client_sync looks at client_running without the mutex; a record is not queued
\* when the thread does not run.
SyncCheck(t) ==
  /\ main # "freed"
  /\ t \notin checked
  /\ running
  /\ checked' = checked \cup {t}
  /\ UNCHANGED <<thread, running, queue, peers, main, synced>>

\* The mutex is free while the thread waits (or is about to return from its wait), has
\* not entered yet or has ended; the signal wakes it only while it waits.
Unlocked == pc \in {"start", "enter", "wait", "woken", "timedout", "exited"}
Signal == pc' = IF pc = "wait" THEN "woken" ELSE pc

\* Signal and enqueue.
SyncEnqueue(t) ==
  /\ main # "freed"
  /\ t \in checked
  /\ synced < MaxRecords
  /\ Unlocked
  /\ Signal
  /\ checked' = checked \ {t}
  /\ synced' = synced + 1
  /\ queue' = Append(queue, synced + 1)
  /\ UNCHANGED <<incomplete, cur, todo, running, peers, main>>

\* client_clear stops the thread ...
Clear ==
  /\ main = "up"
  /\ Unlocked
  /\ Signal
  /\ running' = FALSE
  /\ main' = "joining"
  /\ UNCHANGED <<incomplete, cur, todo, queue, peers, checked, synced>>

\* ... and frees the lists when it has ended.
Join ==
  /\ main = "joining"
  /\ pc = "exited"
  /\ main' = "freed"
  /\ UNCHANGED <<thread, running, queue, peers, checked, synced>>

ThreadStep == Start \/ Lock \/ Wake \/ Dequeue \/ SendNext \/ TimerFires \/ Timeout \/ Reconnect

Next ==
  \/ ThreadStep
  \/ \E t \in Threads : SyncCheck(t) \/ SyncEnqueue(t)
  \/ Clear
  \/ Join

\* The thread runs, and its waits time out.
Spec == Init /\ [][Next]_vars /\ WF_vars(ThreadStep) /\ WF_vars(Join)

(***************************************************************************)
(* Properties                                                              *)
(***************************************************************************)

Record == 1..MaxRecords

\* All records a peer has not been sent, in the order they are kept in.
Pending(s) ==
  backlog[s] \o (IF cur # 0 /\ s \in Range(todo) THEN <<cur>> ELSE <<>>) \o queue

\* No record is lost and none is sent twice: what a peer was sent and what is still
\* kept for it are together the records handed to client_sync, each once.
NothingLost ==
  \A s \in Servers : LET all == sent[s] \o Pending(s) IN
    IsInjective(all) /\ Range(all) = 1..synced

\* A peer receives records in the order they were stored, so that the last update of
\* a record is the one that stays, whatever connections break in between.
InOrder ==
  \A s \in Servers : \A i, j \in DOMAIN sent[s] : i < j => sent[s][i] < sent[s][j]

\* client_clear comes back, unless the thread starts so late that it sets
\* client_running after client_clear has reset it.
Stops == main = "joining" /\ pc # "start" /\ ~ running ~> main = "freed"
=============================================================================
