------------------------------- MODULE Server -------------------------------
(***************************************************************************)
(* The control socket (server.c): one thread multiplexes the listening     *)
(* socket and a fixed number of client slots with select, serves requests  *)
(* one after the other and stops when server_clear tells it to.            *)
(*                                                                         *)
(* File descriptors are numbers, given out lowest first; 0 stands for the  *)
(* listening socket, whose queue of connections is external.  Clients act  *)
(* like mopherctl: they send requests, acknowledge data, and hang up.      *)
(***************************************************************************)
EXTENDS Integers, FiniteSetsExt, Functions

CONSTANTS
  Clients,
  MaxClients,   \* MAX_CLIENTS
  Nobody,
  MaxRequests   \* bound: requests of a client

ASSUME SlotsAssumption == MaxClients \in Nat \ {0} /\ MaxRequests \in Nat
ASSUME ClientsAssumption == IsFiniteSet(Clients) /\ Nobody \notin Clients

Listen == 0
Free == -1
Slots == 1..MaxClients
Fds == 1..(MaxClients + 1)

VARIABLES
  pc,           \* the server thread
  running,      \* server_running
  slots,        \* server_clients
  master,       \* the descriptors select looks at
  rs,           \* what the last select reported and is not handled yet
  at,           \* the slot whose request waits for the client's "OK"
  owner,        \* the client behind a descriptor
  client,       \* the state of a client
  asked,        \* whether a client has sent a request, or hung up, unread
  requests,     \* requests made so far
  main          \* server_clear

net == <<owner, client, asked, requests>>
vars == <<pc, running, slots, master, rs, at, net, main>>

Init ==
  /\ pc = "start"
  /\ running = FALSE
  /\ slots = [i \in Slots |-> Free]
  /\ master = {Listen}
  /\ rs = {}
  /\ at = 0
  /\ owner = [f \in Fds |-> Nobody]
  /\ client = [c \in Clients |-> "out"]
  /\ asked = [c \in Clients |-> FALSE]
  /\ requests = [c \in Clients |-> 0]
  /\ main = "up"

Waiting == {c \in Clients : client[c] = "queued"}

\* What select reports: a connection to accept, or input on a client's descriptor.
ReadyFds ==
  {f \in master : IF f = Listen THEN Waiting # {} ELSE owner[f] # Nobody /\ asked[owner[f]]}

(***************************************************************************)
(* server_main                                                             *)
(***************************************************************************)

Start ==
  /\ pc = "start"
  /\ pc' = "loop"
  /\ running' = TRUE
  /\ UNCHANGED <<slots, master, rs, at, net, main>>

\* while (server_running): select is not entered yet.
Loop ==
  /\ pc = "loop"
  /\ IF running THEN pc' = "ready" /\ UNCHANGED <<slots, owner, client>>
     ELSE \* the sockets are closed, up to the first free slot
          LET closed == {i \in Slots : \A j \in 1..i : slots[j] # Free}
              fds == {slots[i] : i \in closed}
          IN  /\ pc' = "exited"
              /\ slots' = [i \in Slots |-> IF i \in closed THEN Free ELSE slots[i]]
              /\ owner' = [f \in Fds |-> IF f \in fds THEN Nobody ELSE owner[f]]
              /\ client' = [c \in Clients |-> IF \E f \in fds : owner[f] = c THEN "done" ELSE client[c]]
  /\ UNCHANGED <<running, master, rs, at, asked, requests, main>>

EnterSelect ==
  /\ pc = "ready"
  /\ pc' = "select"
  /\ UNCHANGED <<running, slots, master, rs, at, net, main>>

\* Mutant of Select: the descriptors asked about are taken for those reported.
SelectAll ==
  /\ pc = "select"
  /\ ReadyFds # {}
  /\ rs' = master
  /\ pc' = "serve"
  /\ UNCHANGED <<running, slots, master, at, net, main>>

\* select returns.
Select ==
  /\ pc = "select"
  /\ ReadyFds # {}
  /\ rs' = ReadyFds
  /\ pc' = "serve"
  /\ UNCHANGED <<running, slots, master, at, net, main>>

FreeSlots == {i \in Slots : slots[i] = Free}
FreeFds == {f \in Fds : owner[f] = Nobody}

\* A connection is accepted into the first free slot ...
Accept(c) ==
  LET i == Min(FreeSlots)
      f == Min(FreeFds)
  IN  /\ pc = "serve"
      /\ Listen \in rs
      /\ FreeSlots # {}
      /\ c \in Waiting
      /\ slots' = [slots EXCEPT ![i] = f]
      /\ owner' = [owner EXCEPT ![f] = c]
      /\ client' = [client EXCEPT ![c] = "open"]
      /\ master' = master \cup {f}
      /\ rs' = rs \ {Listen}
      /\ UNCHANGED <<pc, running, at, asked, requests, main>>

\* ... unless there is none: new connections are left queued.
Depleted ==
  /\ pc = "serve"
  /\ Listen \in rs
  /\ FreeSlots = {}
  /\ master' = master \ {Listen}
  /\ rs' = rs \ {Listen}
  /\ UNCHANGED <<pc, running, slots, at, net, main>>

\* The slots are visited in order.
NextSlot == Min({i \in Slots : slots[i] \in rs})
AtClient == pc = "serve" /\ Listen \notin rs /\ rs # {} /\ \E i \in Slots : slots[i] \in rs

\* Mutant of CloseSlot: the listening socket stays disabled.
CloseSlotOnly(i) ==
  LET f == slots[i] IN
  /\ slots' = [slots EXCEPT ![i] = Free]
  /\ owner' = [owner EXCEPT ![f] = Nobody]
  /\ client' = [client EXCEPT ![owner[f]] = "done"]
  /\ master' = master \ {f}
  /\ rs' = rs \ {f}

\* A client is disconnected; its slot is free, and new connections are welcome.
CloseSlot(i) ==
  LET f == slots[i] IN
  /\ slots' = [slots EXCEPT ![i] = Free]
  /\ owner' = [owner EXCEPT ![f] = Nobody]
  /\ client' = [client EXCEPT ![owner[f]] = "done"]
  /\ master' = (master \ {f}) \cup {Listen}
  /\ rs' = rs \ {f}

\* server_request: quit, a failure or the end of the connection ...
RequestCloses ==
  /\ AtClient
  /\ asked' = [asked EXCEPT ![owner[slots[NextSlot]]] = FALSE]
  /\ CloseSlot(NextSlot)
  /\ UNCHANGED <<pc, running, at, requests, main>>

\* ... a command that keeps the connection ...
RequestKeeps ==
  LET c == owner[slots[NextSlot]] IN
  /\ AtClient
  /\ client[c] = "open"
  /\ asked' = [asked EXCEPT ![c] = FALSE]
  /\ rs' = rs \ {slots[NextSlot]}
  /\ UNCHANGED <<pc, running, slots, master, at, owner, client, requests, main>>

\* ... or one with output: server_output announces it and waits for "OK".
RequestDumps ==
  LET c == owner[slots[NextSlot]] IN
  /\ AtClient
  /\ client[c] = "open"
  /\ pc' = "reply"
  /\ at' = NextSlot
  /\ asked' = [asked EXCEPT ![c] = FALSE]
  /\ client' = [client EXCEPT ![c] = "reading"]
  /\ UNCHANGED <<running, slots, master, rs, owner, requests, main>>

\* The client has answered: the command is done.
DumpDone ==
  /\ pc = "reply"
  /\ client[owner[slots[at]]] = "open"
  /\ pc' = "serve"
  /\ at' = 0
  /\ rs' = rs \ {slots[at]}
  /\ UNCHANGED <<running, slots, master, net, main>>

\* The client has hung up, or the signal interrupts the read.
DumpFails ==
  /\ pc = "reply"
  /\ client[owner[slots[at]]] = "gone"
  /\ pc' = "serve"
  /\ at' = 0
  /\ asked' = [asked EXCEPT ![owner[slots[at]]] = FALSE]
  /\ CloseSlot(at)
  /\ UNCHANGED <<running, requests, main>>

\* All of rs is handled.
Served ==
  /\ pc = "serve"
  /\ rs = {}
  /\ pc' = "loop"
  /\ UNCHANGED <<running, slots, master, rs, at, net, main>>

(***************************************************************************)
(* Clients, and server_clear                                               *)
(***************************************************************************)

Connect(c) ==
  /\ client[c] = "out"
  /\ pc # "exited"
  /\ client' = [client EXCEPT ![c] = "queued"]
  /\ UNCHANGED <<pc, running, slots, master, rs, at, owner, asked, requests, main>>

Ask(c) ==
  /\ client[c] = "open"
  /\ ~ asked[c]
  /\ requests[c] < MaxRequests
  /\ asked' = [asked EXCEPT ![c] = TRUE]
  /\ requests' = [requests EXCEPT ![c] = @ + 1]
  /\ UNCHANGED <<pc, running, slots, master, rs, at, owner, client, main>>

Acknowledge(c) ==
  /\ client[c] = "reading"
  /\ client' = [client EXCEPT ![c] = "open"]
  /\ UNCHANGED <<pc, running, slots, master, rs, at, owner, asked, requests, main>>

HangUp(c) ==
  /\ client[c] \in {"open", "reading"}
  /\ client' = [client EXCEPT ![c] = "gone"]
  /\ asked' = [asked EXCEPT ![c] = TRUE]
  /\ UNCHANGED <<pc, running, slots, master, rs, at, owner, requests, main>>

\* server_clear resets the flag ...  (The thread has started: until it has installed
\* its handler SIGUSR2 would end the process.)
Clear ==
  /\ main = "up"
  /\ pc # "start"
  /\ running' = FALSE
  /\ main' = "flagged"
  /\ UNCHANGED <<pc, slots, master, rs, at, net>>

\* Mutant of Kill: select goes on after the signal's handler.
KillRestarts ==
  /\ main = "flagged"
  /\ main' = "joining"
  /\ UNCHANGED <<pc, running, slots, master, rs, at, net>>

\* ... and signals the thread, which ends the system call it is in, if any.
Kill ==
  /\ main = "flagged"
  /\ main' = "joining"
  /\ \/ pc = "select" /\ pc' = "loop" /\ UNCHANGED <<slots, master, rs, at, net>>
     \/ /\ pc = "reply" /\ pc' = "serve" /\ at' = 0
        /\ CloseSlot(at)
        /\ asked' = [asked EXCEPT ![owner[slots[at]]] = FALSE]
        /\ UNCHANGED requests
     \/ pc \notin {"select", "reply"} /\ UNCHANGED <<pc, slots, master, rs, at, net>>
  /\ UNCHANGED running

Join ==
  /\ main = "joining"
  /\ pc = "exited"
  /\ main' = "down"
  /\ UNCHANGED <<pc, running, slots, master, rs, at, net>>

ThreadStep ==
  \/ Start \/ Loop \/ EnterSelect \/ Select
  \/ \E c \in Clients : Accept(c)
  \/ Depleted \/ RequestCloses \/ RequestKeeps \/ RequestDumps
  \/ DumpDone \/ DumpFails \/ Served

ClientStep(c) == Connect(c) \/ Ask(c) \/ Acknowledge(c) \/ HangUp(c)

Next ==
  \/ ThreadStep
  \/ \E c \in Clients : ClientStep(c)
  \/ Clear \/ Kill \/ Join

\* The thread runs and server_clear goes on once it has begun; a client answers, and
\* hangs up in the end, as mopherctl does.
Fairness ==
  /\ WF_vars(ThreadStep) /\ WF_vars(Kill) /\ WF_vars(Join)
  /\ \A c \in Clients : WF_vars(Acknowledge(c)) /\ WF_vars(HangUp(c))

Spec == Init /\ [][Next]_vars /\ Fairness

(***************************************************************************)
(* Properties                                                              *)
(***************************************************************************)

\* The thread never reads from, or accepts on, a descriptor without input, though
\* slots and descriptors are reused: what select reported is still there when its
\* turn comes.
OnlyReadyRead ==
  pc = "serve" =>
    \A f \in rs : IF f = Listen THEN Waiting # {} ELSE owner[f] # Nobody /\ asked[owner[f]]

\* Every connection is accepted in the end, more of them than there are slots
\* included, as long as the server is up and clients hang up.
AllAccepted ==
  \A c \in Clients : client[c] = "queued" ~> client[c] # "queued" \/ main # "up"

\* "Use SIGUSR2 to get out of select" (server.c:496): the thread ends when
\* server_clear resets the flag and signals it, wherever it is, but for one place:
\* between the test of server_running and select, where the signal may come too early
\* and select waits for a client all the same.
SignalStops == main = "flagged" /\ pc # "ready" ~> pc = "exited"
=============================================================================
