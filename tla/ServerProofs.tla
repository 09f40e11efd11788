---------------------------- MODULE ServerProofs ----------------------------
(***************************************************************************)
(* Proofs about Server, for any number of clients, slots and requests.     *)
(***************************************************************************)
EXTENDS Server, FiniteSetTheorems, WellFoundedInduction, TLAPS

USE SlotsAssumption, ClientsAssumption

\* A set of naturals that is not empty has a least element.
LEMMA MinFacts ==
  ASSUME NEW S, S \subseteq Nat, S # {}
  PROVE  Min(S) \in S /\ \A y \in S : Min(S) <= y
  <1> DEFINE R == {ss \in Nat \X Nat : ss[1] < ss[2]}
  <1>1. OpToRel(<, Nat) = R
    BY Zenon DEF OpToRel
  <1>2. IsWellFoundedOn(R, Nat)
    BY <1>1, NatLessThanWellFounded, Zenon
  <1>3. PICK x \in S : \A y \in S : ~ (<<y, x>> \in R)
    BY <1>2, WFMin
  <1>4. ASSUME NEW y \in S PROVE x <= y
    <2>1. SUFFICES ASSUME y < x PROVE FALSE
      OBVIOUS
    <2>2. <<y, x>> \in Nat \X Nat
      OBVIOUS
    <2>3. <<y, x>>[1] < <<y, x>>[2]
      BY <2>1
    <2>4. <<y, x>> \in R
      BY <2>2, <2>3, Zenon
    <2>5. QED
      BY <1>3, <2>4
  <1>5. QED
    BY <1>4 DEF Min

Attached == {"open", "reading", "gone"}

\* A descriptor is in use exactly while a slot holds it; two descriptors have different
\* clients, none of which is still in the queue of the listening socket.
SlotInv ==
  /\ slots \in [Slots -> Fds \cup {Free}]
  /\ owner \in [Fds -> Clients \cup {Nobody}]
  /\ client \in [Clients -> {"out", "queued", "done"} \cup Attached]
  /\ asked \in [Clients -> BOOLEAN]
  /\ pc # "exited" =>
       /\ \A f \in Fds : owner[f] # Nobody => \E i \in Slots : slots[i] = f
       /\ \A i \in Slots : slots[i] # Free => owner[slots[i]] # Nobody
       /\ \A i, j \in Slots : slots[i] = slots[j] /\ slots[i] # Free => i = j
       /\ \A f \in Fds : owner[f] # Nobody => client[owner[f]] \in Attached
       /\ \A f, g \in Fds : owner[f] = owner[g] /\ owner[f] # Nobody => f = g
\* What select reported is still there, but for the request that is being answered.
ReadyInv ==
  /\ master \subseteq Fds \cup {Listen}
  /\ rs \subseteq Fds \cup {Listen}
  /\ pc = "reply" => at \in Slots /\ slots[at] \in Fds /\ Listen \notin rs
  /\ pc \in {"serve", "reply"} =>
       \A f \in rs : IF f = Listen THEN Waiting # {}
                    ELSE (pc = "reply" /\ f = slots[at]) \/ (owner[f] # Nobody /\ asked[owner[f]])

\* There is one descriptor more than there are slots, so accept never lacks one.
LEMMA FreeFd ==
  ASSUME SlotInv, pc # "exited"
  PROVE  FreeFds # {} /\ Min(FreeFds) \in FreeFds
  <1> DEFINE g == [f \in Fds |-> CHOOSE i \in Slots : slots[i] = f]
  <1>1. SUFFICES ASSUME FreeFds = {} PROVE FALSE
    BY MinFacts DEF FreeFds, Fds
  <1>2. ASSUME NEW f \in Fds PROVE g[f] \in Slots /\ slots[g[f]] = f
    BY <1>1 DEF FreeFds, SlotInv
  <1>3. g \in [Fds -> Slots]
    BY <1>2
  <1>4. /\ IsFiniteSet(Slots) /\ IsFiniteSet(Fds)
        /\ Cardinality(Slots) = MaxClients /\ Cardinality(Fds) = MaxClients + 1
    BY FS_Interval DEF Slots, Fds
  <1> HIDE DEF g
  <1>5. Cardinality(Slots) < Cardinality(Fds)
    BY <1>4
  <1>6. \E x, y \in Fds : x # y /\ g[x] = g[y]
    BY <1>3, <1>4, <1>5, FS_PigeonHole
  <1>7. QED
    BY <1>2, <1>6

\* The slot that is visited next holds a descriptor select reported.
LEMMA NextSlotFacts ==
  ASSUME SlotInv, ReadyInv, AtClient
  PROVE  NextSlot \in Slots /\ slots[NextSlot] \in rs /\ slots[NextSlot] \in Fds
  <1> DEFINE S == {i \in Slots : slots[i] \in rs}
  <1>1. S \subseteq Nat /\ S # {}
    BY DEF AtClient, Slots
  <1>2. NextSlot \in S
    BY <1>1, MinFacts DEF NextSlot
  <1>3. QED
    BY <1>2 DEF AtClient, ReadyInv

\* Closing a slot keeps slots, descriptors and clients in step.
LEMMA CloseFacts ==
  ASSUME SlotInv, pc # "exited", NEW i \in Slots, slots[i] \in Fds, CloseSlot(i),
         asked' \in [Clients -> BOOLEAN]
  PROVE  SlotInv'
  <1> DEFINE f == slots[i]
             c == owner[f]
  <1>1. f \in Fds /\ f # Free /\ c \in Clients /\ c # Nobody
    BY DEF SlotInv, Fds, Free
  <1>2. /\ slots' = [slots EXCEPT ![i] = Free]
        /\ owner' = [owner EXCEPT ![f] = Nobody]
        /\ client' = [client EXCEPT ![c] = "done"]
    BY DEF CloseSlot
  <1>3. \A k \in Slots : k # i => slots[k] # f
    BY <1>1 DEF SlotInv
  <1>4. \A g \in Fds : g # f => owner[g] # c
    BY <1>1 DEF SlotInv
  <1> HIDE DEF f, c
  <1>5. /\ slots' \in [Slots -> Fds \cup {Free}]
        /\ owner' \in [Fds -> Clients \cup {Nobody}]
        /\ client' \in [Clients -> {"out", "queued", "done"} \cup Attached]
    BY <1>1, <1>2 DEF SlotInv
  <1>6. ASSUME NEW g \in Fds, owner'[g] # Nobody
        PROVE  g # f /\ owner'[g] = owner[g] /\ client'[owner[g]] = client[owner[g]]
    BY <1>1, <1>2, <1>4, <1>6 DEF SlotInv
  <1>7. ASSUME NEW k \in Slots, slots'[k] # Free
        PROVE  k # i /\ slots'[k] = slots[k] /\ slots[k] # f
    BY <1>2, <1>3, <1>7 DEF SlotInv
  <1>8. \A g \in Fds : owner'[g] # Nobody => \E k \in Slots : slots'[k] = g
    <2> SUFFICES ASSUME NEW g \in Fds, owner'[g] # Nobody PROVE \E k \in Slots : slots'[k] = g
      OBVIOUS
    <2>1. PICK k \in Slots : slots[k] = g
      BY <1>6 DEF SlotInv
    <2>2. k # i
      BY <1>6, <2>1 DEF f
    <2>3. QED
      BY <1>2, <2>1, <2>2 DEF SlotInv
  <1>9. \A k \in Slots : slots'[k] # Free => owner'[slots'[k]] # Nobody
    BY <1>2, <1>7 DEF SlotInv
  <1>10. \A k, j \in Slots : slots'[k] = slots'[j] /\ slots'[k] # Free => k = j
    BY <1>7 DEF SlotInv
  <1>11. \A g \in Fds : owner'[g] # Nobody => client'[owner'[g]] \in Attached
    BY <1>6 DEF SlotInv
  <1>12. \A g, h \in Fds : owner'[g] = owner'[h] /\ owner'[g] # Nobody => g = h
    BY <1>6 DEF SlotInv
  <1>13. QED
    BY <1>5, <1>8, <1>9, <1>10, <1>11, <1>12 DEF SlotInv
\* So does accepting a connection.
LEMMA AcceptFacts ==
  ASSUME SlotInv, NEW c \in Clients, Accept(c)
  PROVE  SlotInv' /\ \E f \in FreeFds : owner' = [owner EXCEPT ![f] = c] /\ master' = master \cup {f}
  <1> DEFINE i == Min(FreeSlots)
             f == Min(FreeFds)
  <1>1. i \in FreeSlots
    BY MinFacts DEF FreeSlots, Slots, Accept
  <1>2. f \in FreeFds
    BY FreeFd DEF Accept
  <1>3. /\ i \in Slots /\ slots[i] = Free
        /\ f \in Fds /\ f # Free /\ owner[f] = Nobody
        /\ c # Nobody /\ client[c] = "queued"
    BY <1>1, <1>2 DEF FreeSlots, FreeFds, Fds, Free, Accept, Waiting
  <1>4. /\ slots' = [slots EXCEPT ![i] = f]
        /\ owner' = [owner EXCEPT ![f] = c]
        /\ client' = [client EXCEPT ![c] = "open"]
        /\ master' = master \cup {f}
        /\ UNCHANGED <<pc, asked>> /\ pc = "serve"
    BY DEF Accept
  <1> HIDE DEF i, f
  <1>5. /\ slots' \in [Slots -> Fds \cup {Free}]
        /\ owner' \in [Fds -> Clients \cup {Nobody}]
        /\ client' \in [Clients -> {"out", "queued", "done"} \cup Attached]
    BY <1>3, <1>4 DEF SlotInv, Attached
  <1>6. \A g \in Fds : owner[g] # c
    BY <1>3, <1>4 DEF SlotInv, Attached
  <1>7. \A k \in Slots : slots[k] # f
    BY <1>3, <1>4 DEF SlotInv
  <1>8. \A g \in Fds : owner'[g] # Nobody => \E k \in Slots : slots'[k] = g
    <2> SUFFICES ASSUME NEW g \in Fds, owner'[g] # Nobody PROVE \E k \in Slots : slots'[k] = g
      OBVIOUS
    <2>1. CASE g = f
      BY <1>3, <1>4, <2>1 DEF SlotInv
    <2>2. CASE g # f
      <3>1. PICK k \in Slots : slots[k] = g
        BY <1>4, <2>2 DEF SlotInv
      <3>2. k # i
        BY <1>3, <3>1 DEF Fds, Free
      <3>3. QED
        BY <1>4, <3>1, <3>2 DEF SlotInv
    <2>3. QED
      BY <2>1, <2>2
  <1>9. \A k \in Slots : slots'[k] # Free => owner'[slots'[k]] # Nobody
    BY <1>3, <1>4, <1>7 DEF SlotInv
  <1>10. \A k, j \in Slots : slots'[k] = slots'[j] /\ slots'[k] # Free => k = j
    BY <1>3, <1>4, <1>7 DEF SlotInv
  <1>11. \A g \in Fds : owner'[g] # Nobody => client'[owner'[g]] \in Attached
    BY <1>3, <1>4, <1>6 DEF SlotInv, Attached
  <1>12. \A g, h \in Fds : owner'[g] = owner'[h] /\ owner'[g] # Nobody => g = h
    BY <1>3, <1>4, <1>6 DEF SlotInv
  <1>13. SlotInv'
    BY <1>4, <1>5, <1>8, <1>9, <1>10, <1>11, <1>12 DEF SlotInv
  <1>14. QED
    BY <1>2, <1>4, <1>13

\* The slots, the descriptors and the clients stay in step.
LEMMA SlotStep == SlotInv /\ ReadyInv /\ [Next]_vars => SlotInv'
  <1> SUFFICES ASSUME SlotInv, ReadyInv, [Next]_vars PROVE SlotInv'
    OBVIOUS
  <1>1. CASE Start \/ EnterSelect \/ Select \/ Depleted \/ DumpDone \/ Served \/ Clear \/ Join
    BY <1>1 DEF SlotInv, Start, EnterSelect, Select, Depleted, DumpDone, Served, Clear, Join, net
  <1>2. CASE Loop
    <2>1. CASE running
      BY <1>2, <2>1 DEF SlotInv, Loop
    <2>2. CASE ~ running
      BY <1>2, <2>2 DEF SlotInv, Loop
    <2>3. QED
      BY <2>1, <2>2
  <1>3. ASSUME NEW c \in Clients, Accept(c) PROVE SlotInv'
    BY <1>3, AcceptFacts
  <1>4. CASE RequestCloses
    <2>1. NextSlot \in Slots /\ slots[NextSlot] \in Fds /\ pc # "exited"
      BY <1>4, NextSlotFacts DEF RequestCloses, AtClient
    <2>2. asked' \in [Clients -> BOOLEAN] /\ CloseSlot(NextSlot)
      BY <1>4 DEF RequestCloses, SlotInv
    <2>3. QED
      BY <2>1, <2>2, CloseFacts
  <1>5. CASE RequestKeeps
    BY <1>5 DEF RequestKeeps, SlotInv
  <1>6. CASE RequestDumps
    <2>1. /\ client' \in [Clients -> {"out", "queued", "done"} \cup Attached]
          /\ \A d \in Clients : client'[d] = client[d] \/ client'[d] \in Attached
      BY <1>6 DEF RequestDumps, SlotInv, Attached
    <2>2. asked' \in [Clients -> BOOLEAN] /\ UNCHANGED <<slots, owner>> /\ pc # "exited"
      BY <1>6 DEF RequestDumps, AtClient, SlotInv
    <2>3. QED
      BY <2>1, <2>2 DEF SlotInv
  <1>7. CASE DumpFails
    BY <1>7, CloseFacts DEF DumpFails, ReadyInv, SlotInv
  <1>8. CASE Kill
    <2>1. CASE pc = "reply"
      BY <1>8, <2>1, CloseFacts DEF Kill, ReadyInv, SlotInv
    <2>2. CASE pc # "reply"
      BY <1>8, <2>2 DEF Kill, SlotInv, net
    <2>3. QED
      BY <2>1, <2>2
  <1>9. ASSUME NEW c \in Clients, ClientStep(c) PROVE SlotInv'
    <2>1. CASE Connect(c)
      BY <2>1 DEF Connect, SlotInv, Attached
    <2>2. CASE Ask(c)
      BY <2>2 DEF Ask, SlotInv
    <2>3. CASE Acknowledge(c)
      BY <2>3 DEF Acknowledge, SlotInv, Attached
    <2>4. CASE HangUp(c)
      BY <2>4 DEF HangUp, SlotInv, Attached
    <2>5. QED
      BY <1>9, <2>1, <2>2, <2>3, <2>4 DEF ClientStep
  <1>10. CASE UNCHANGED vars
    BY <1>10 DEF vars, net, SlotInv
  <1>11. QED
    BY <1>1, <1>2, <1>3, <1>4, <1>5, <1>6, <1>7, <1>8, <1>9, <1>10 DEF Next, ThreadStep
\* What select reported stays there until it is handled.
LEMMA ReadyStep == SlotInv /\ ReadyInv /\ [Next]_vars => ReadyInv'
  <1> SUFFICES ASSUME SlotInv, ReadyInv, [Next]_vars PROVE ReadyInv'
    OBVIOUS
  <1>1. CASE Start \/ Loop \/ EnterSelect \/ Served \/ Clear \/ Join
    BY <1>1 DEF ReadyInv, Start, Loop, EnterSelect, Served, Clear, Join, Waiting, net
  <1>2. CASE Select
    BY <1>2 DEF ReadyInv, Select, ReadyFds, Waiting, net
  <1>3. ASSUME NEW c \in Clients, Accept(c) PROVE ReadyInv'
    <2>1. PICK f \in FreeFds : owner' = [owner EXCEPT ![f] = c] /\ master' = master \cup {f}
      BY <1>3, AcceptFacts
    <2>2. /\ f \in Fds /\ owner[f] = Nobody
          /\ pc = "serve" /\ pc' = "serve" /\ asked' = asked /\ rs' = rs \ {Listen}
      BY <1>3, <2>1 DEF Accept, FreeFds
    <2>3. ASSUME NEW g \in rs' PROVE owner'[g] # Nobody /\ asked'[owner'[g]]
      BY <2>1, <2>2 DEF ReadyInv, SlotInv
    <2>4. QED
      BY <2>1, <2>2, <2>3 DEF ReadyInv
  <1>4. CASE Depleted
    BY <1>4 DEF ReadyInv, Depleted, net
  <1>5. ASSUME NEW i \in Slots, slots[i] \in Fds, pc \in {"serve", "reply"}, Listen \notin rs,
               CloseSlot(i), pc' = "serve",
               asked' = [asked EXCEPT ![owner[slots[i]]] = FALSE],
               pc = "reply" => i = at
        PROVE  ReadyInv'
    <2> DEFINE f == slots[i]
               c == owner[f]
    <2>1. f \in Fds /\ f # Free /\ c \in Clients /\ c # Nobody
      BY <1>5 DEF SlotInv, Fds, Free
    <2>2. \A g \in Fds : g # f => owner[g] # c
      BY <1>5, <2>1 DEF SlotInv
    <2>3. /\ owner' = [owner EXCEPT ![f] = Nobody]
          /\ rs' = rs \ {f} /\ master' = (master \ {f}) \cup {Listen}
          /\ asked' = [asked EXCEPT ![c] = FALSE]
      BY <1>5 DEF CloseSlot
    <2>4. ASSUME NEW g \in rs \ {f} PROVE owner[g] # Nobody /\ asked[owner[g]]
      BY <1>5 DEF ReadyInv
    <2> HIDE DEF f, c
    <2>5. ASSUME NEW g \in rs' PROVE g \in Fds /\ owner'[g] # Nobody /\ asked'[owner'[g]]
      BY <1>5, <2>1, <2>2, <2>3, <2>4 DEF SlotInv, ReadyInv
    <2>6. QED
      BY <1>5, <2>3, <2>5 DEF ReadyInv
  <1>6. CASE RequestCloses
    BY <1>5, <1>6, NextSlotFacts DEF RequestCloses, AtClient
  <1>7. CASE RequestKeeps \/ RequestDumps
    <2> DEFINE f == slots[NextSlot]
               c == owner[f]
    <2>1. /\ AtClient /\ NextSlot \in Slots /\ f \in rs /\ f \in Fds
      BY <1>7, NextSlotFacts DEF RequestKeeps, RequestDumps
    <2>2. \A g \in Fds : g # f => owner[g] # c
      BY <2>1 DEF SlotInv, ReadyInv, AtClient, Fds, Free, Listen
    <2>3. /\ asked' = [asked EXCEPT ![c] = FALSE] /\ UNCHANGED <<slots, master, owner>>
          /\ \/ pc' = pc /\ rs' = rs \ {f}
             \/ pc' = "reply" /\ at' = NextSlot /\ rs' = rs
      BY <1>7 DEF RequestKeeps, RequestDumps
    <2>4. ASSUME NEW g \in rs, g # f PROVE g \in Fds /\ owner[g] # Nobody /\ asked[owner[g]]
      BY <2>1 DEF ReadyInv, AtClient
    <2> HIDE DEF f, c
    <2>5. ASSUME NEW g \in rs, g # f PROVE g \in Fds /\ owner'[g] # Nobody /\ asked'[owner'[g]]
      BY <2>2, <2>3, <2>4, <2>5 DEF SlotInv
    <2>6. QED
      BY <2>1, <2>3, <2>5 DEF ReadyInv, AtClient, f
  <1>8. CASE DumpDone
    BY <1>8 DEF ReadyInv, DumpDone, net
  <1>9. CASE DumpFails
    BY <1>5, <1>9 DEF DumpFails, ReadyInv
  <1>10. CASE Kill
    <2>1. CASE pc = "reply"
      BY <1>5, <1>10, <2>1 DEF Kill, ReadyInv
    <2>2. CASE pc # "reply"
      BY <1>10, <2>2 DEF Kill, ReadyInv, Waiting, net
    <2>3. QED
      BY <2>1, <2>2
  <1>11. ASSUME NEW c \in Clients, ClientStep(c) PROVE ReadyInv'
    <2>1. Waiting \subseteq Waiting' /\ UNCHANGED <<pc, slots, master, rs, at, owner>>
      BY <1>11 DEF ClientStep, Connect, Ask, Acknowledge, HangUp, Waiting, SlotInv
    <2>2. \A d \in Clients : asked[d] => asked'[d]
      BY <1>11 DEF ClientStep, Connect, Ask, Acknowledge, HangUp, SlotInv
    <2>3. QED
      BY <2>1, <2>2 DEF ReadyInv, SlotInv
  <1>12. CASE UNCHANGED vars
    BY <1>12 DEF vars, net, ReadyInv, Waiting
  <1>13. QED
    BY <1>1, <1>2, <1>3, <1>4, <1>6, <1>7, <1>8, <1>9, <1>10, <1>11, <1>12 DEF Next, ThreadStep

\* The server thread never reads from or accepts on a descriptor without input, however
\* many clients come and go within one round of the loop of server_main.
THEOREM NeverBlocksOnSilence == Spec => []OnlyReadyRead
  <1>1. Init => SlotInv /\ ReadyInv
    BY DEF Init, SlotInv, ReadyInv, Free
  <1>2. SlotInv /\ ReadyInv /\ [Next]_vars => (SlotInv /\ ReadyInv)'
    BY SlotStep, ReadyStep
  <1>3. SlotInv /\ ReadyInv => OnlyReadyRead
    BY DEF ReadyInv, OnlyReadyRead
  <1>4. QED
    BY <1>1, <1>2, <1>3, PTL DEF Spec
=============================================================================
