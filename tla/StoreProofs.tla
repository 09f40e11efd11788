----------------------------- MODULE StoreProofs ----------------------------
(***************************************************************************)
(* Proofs about Store, for any daemons, threads, faults and lookups: no    *)
(* daemon holds the row between two sets (TransactionsEnd), no             *)
(* interleaving counts what did not happen (NeverOvercounts), and what a   *)
(* database adds up is not lost (HitsExact).                               *)
(*                                                                         *)
(* Control is the discipline of the mutexes.  Account keeps, for every     *)
(* value that may still become the row's, one unit in hand for each lookup *)
(* that has yet to be written.  Tally follows the open transaction.        *)
(***************************************************************************)
EXTENDS Store, FiniteSetTheorems, TLAPS

Place == {"idle", "wait", "begin", "update", "insert", "commit", "hack"}

\* Within dbt_db_set, with the table's mutex locked.
Inside == Place \ {"idle", "wait"}

\* The types of what the proofs are about.
Types ==
  /\ row \in Nat \cup {NoRow}
  /\ before \in Nat \cup {NoRow}
  /\ tx \in [Daemons -> BOOLEAN]
  /\ lock \in [Daemons -> Threads \cup {None}]
  /\ up \in [Daemons -> BOOLEAN]
  /\ at \in [Threads -> Place]
  /\ image \in [Threads -> Image]
  /\ doing \in [Threads -> {"idle", "get", "set"}]
  /\ hits \in Nat

\* Who is in dbt_db_set holds the mutex of its own daemon, was called from a lookup
\* or an update and belongs to a running daemon; transactions end with sql_db_set.
Control ==
  /\ \A t \in Threads : at[t] \in Inside => lock[Home[t]] = t
  /\ \A d \in Daemons : lock[d] # None => Home[lock[d]] = d
  /\ \A t \in Threads : at[t] # "idle" <=> doing[t] = "set"
  /\ \A t \in Threads : doing[t] # "idle" => up[Home[t]]
  /\ TransactionsEnd

\* Threads whose count is still to be written.
Pending == {t \in Threads : doing[t] = "get" \/ (doing[t] = "set" /\ at[t] # "commit")}

\* v may become the row without spoiling what the pending threads will add.
Affordable(v) == v = NoRow \/ v + Cardinality(Pending) <= hits

Account ==
  /\ Cardinality(Pending) <= hits
  /\ Affordable(row) /\ Affordable(before)
  /\ \A t \in Pending : doing[t] = "set" =>
       /\ image[t].value + Cardinality(Pending) <= hits + 1
       /\ image[t].diff => image[t].value = 1

IInv == Types /\ Control /\ Account

\* The members of Threads and Daemons are no placeholder.
LEMMA Constants ==
  /\ None \notin Threads /\ None \notin Daemons
  /\ \A t \in Threads : Home[t] \in Daemons
  /\ NoRow \notin Nat
BY HomeAssumption, NoRowAssumption

(***************************************************************************)
(* What the steps do to the threads                                        *)
(***************************************************************************)

\* t goes on to p in dbt_db_set.
Moved(t, p) ==
  /\ at' = [at EXCEPT ![t] = p] /\ doing' = doing /\ lock' = lock /\ up' = up
  /\ wedged' = wedged
  /\ tx' \in [Daemons -> BOOLEAN]
  /\ \A d \in Daemons \ {Home[t]} : tx'[d] = tx[d]

\* t has returned from dbt_db_set and from its caller.
Returns(t) ==
  /\ at' = [at EXCEPT ![t] = "idle"] /\ doing' = [doing EXCEPT ![t] = "idle"]
  /\ lock' = [lock EXCEPT ![Home[t]] = None] /\ up' = up
  /\ wedged \subseteq wedged'
  /\ tx' \in [Daemons -> BOOLEAN]
  /\ tx'[Home[t]] => Home[t] \in wedged'
  /\ \A d \in Daemons \ {Home[t]} : tx'[d] = tx[d]

\* Daemon d has died.
Died(d) ==
  /\ at' = [t \in Threads |-> IF Home[t] = d THEN "idle" ELSE at[t]]
  /\ doing' = [t \in Threads |-> IF Home[t] = d THEN "idle" ELSE doing[t]]
  /\ lock' = [lock EXCEPT ![d] = None] /\ up' = [up EXCEPT ![d] = FALSE]
  /\ wedged' = wedged \ {d}
  /\ tx' = [tx EXCEPT ![d] = FALSE]
\* The discipline is kept by a thread that goes on in dbt_db_set, in a transaction
\* only between BEGIN and its end ...
LEMMA MovedControl ==
  ASSUME Types, Control, NEW t \in Threads, NEW p \in Inside, Moved(t, p),
         at[t] \in Inside,
         tx'[Home[t]] => Home[t] \in wedged \/ p \in {"update", "insert", "commit"}
  PROVE  Control'
<1>1. \A u \in Threads : at'[u] = IF u = t THEN p ELSE at[u]
  BY DEF Types, Moved
<1>2. \A u \in Threads : at'[u] \in Inside => at[u] \in Inside
  BY <1>1
<1>3. p # "idle" /\ at[t] # "idle"
  BY DEF Inside
<1>4. (\A u \in Threads : at[u] \in Inside => lock[Home[u]] = u)'
  BY <1>2 DEF Control, Moved
<1>5. (\A d \in Daemons : lock[d] # None => Home[lock[d]] = d)'
  BY DEF Control, Moved
<1>6. (\A u \in Threads : at[u] # "idle" <=> doing[u] = "set")'
  BY <1>1, <1>3 DEF Control, Moved
<1>7. (\A u \in Threads : doing[u] # "idle" => up[Home[u]])'
  BY DEF Control, Moved
<1>8. TransactionsEnd'
  <2> SUFFICES ASSUME NEW d \in Daemons, tx'[d], d \notin wedged
               PROVE  lock[d] # None /\ at'[lock[d]] \in {"update", "insert", "commit"}
    BY DEF TransactionsEnd, Moved
  <2>1. CASE d = Home[t]
    <3>1. lock[d] = t
      BY <2>1 DEF Control
    <3>2. p \in {"update", "insert", "commit"}
      BY <2>1
    <3> QED  BY <1>1, <3>1, <3>2, Constants
  <2>2. CASE d # Home[t]
    <3>1. tx[d]
      BY <2>2 DEF Moved
    <3>2. lock[d] # None /\ at[lock[d]] \in {"update", "insert", "commit"}
      BY <3>1 DEF Control, TransactionsEnd
    <3>3. lock[d] \in Threads /\ lock[d] # t
      BY <2>2, <3>2 DEF Types, Control
    <3> QED  BY <1>1, <3>2, <3>3
  <2> QED  BY <2>1, <2>2
<1> QED  BY <1>4, <1>5, <1>6, <1>7, <1>8 DEF Control

\* ... by one that returns ...
LEMMA ReturnsControl ==
  ASSUME Types, Control, NEW t \in Threads, Returns(t), at[t] \in Inside
  PROVE  Control'
<1>1. \A u \in Threads : /\ at'[u] = IF u = t THEN "idle" ELSE at[u]
                         /\ doing'[u] = IF u = t THEN "idle" ELSE doing[u]
  BY DEF Types, Returns
<1>2. lock[Home[t]] = t
  BY DEF Control
<1>3. \A d \in Daemons : lock'[d] = IF d = Home[t] THEN None ELSE lock[d]
  BY DEF Types, Returns
<1>4. (\A u \in Threads : at[u] \in Inside => lock[Home[u]] = u)'
  <2> SUFFICES ASSUME NEW u \in Threads, at'[u] \in Inside PROVE lock'[Home[u]] = u
    OBVIOUS
  <2>1. u # t
    BY <1>1 DEF Inside
  <2>2. lock[Home[u]] = u
    BY <1>1, <2>1 DEF Control
  <2>3. Home[u] # Home[t]
    BY <1>2, <2>1, <2>2
  <2> QED  BY <1>3, <2>2, <2>3, Constants
<1>5. (\A d \in Daemons : lock[d] # None => Home[lock[d]] = d)'
  BY <1>3 DEF Control
<1>6. (\A u \in Threads : at[u] # "idle" <=> doing[u] = "set")'
  BY <1>1 DEF Control
<1>7. (\A u \in Threads : doing[u] # "idle" => up[Home[u]])'
  BY <1>1 DEF Control, Returns
<1>8. TransactionsEnd'
  <2> SUFFICES ASSUME NEW d \in Daemons, tx'[d], d \notin wedged'
               PROVE  lock'[d] # None /\ at'[lock'[d]] \in {"update", "insert", "commit"}
    BY DEF TransactionsEnd
  <2>1. d # Home[t] /\ tx[d] /\ d \notin wedged
    BY DEF Returns
  <2>2. lock[d] # None /\ at[lock[d]] \in {"update", "insert", "commit"}
    BY <2>1 DEF Control, TransactionsEnd
  <2>3. lock[d] \in Threads /\ lock[d] # t
    BY <2>1, <2>2 DEF Types, Control
  <2> QED  BY <1>1, <1>3, <2>1, <2>2, <2>3
<1> QED  BY <1>4, <1>5, <1>6, <1>7, <1>8 DEF Control

\* ... and by a daemon that dies.
LEMMA DiedControl ==
  ASSUME Types, Control, NEW d \in Daemons, Died(d)
  PROVE  Control'
<1>1. \A u \in Threads : /\ at'[u] = IF Home[u] = d THEN "idle" ELSE at[u]
                         /\ doing'[u] = IF Home[u] = d THEN "idle" ELSE doing[u]
  BY DEF Died
<1>2. \A e \in Daemons : /\ lock'[e] = IF e = d THEN None ELSE lock[e]
                         /\ up'[e] = IF e = d THEN FALSE ELSE up[e]
                         /\ tx'[e] = IF e = d THEN FALSE ELSE tx[e]
  BY DEF Types, Died
<1>3. (\A u \in Threads : at[u] \in Inside => lock[Home[u]] = u)'
  <2> SUFFICES ASSUME NEW u \in Threads, at'[u] \in Inside PROVE lock'[Home[u]] = u
    OBVIOUS
  <2>1. Home[u] # d
    BY <1>1 DEF Inside
  <2> QED  BY <1>1, <1>2, <2>1, Constants, Zenon DEF Control
<1>4. (\A e \in Daemons : lock[e] # None => Home[lock[e]] = e)'
  BY <1>2, Zenon DEF Control
<1>5. (\A u \in Threads : at[u] # "idle" <=> doing[u] = "set")'
  BY <1>1 DEF Control
<1>6. (\A u \in Threads : doing[u] # "idle" => up[Home[u]])'
  <2> SUFFICES ASSUME NEW u \in Threads, doing'[u] # "idle" PROVE up'[Home[u]]
    OBVIOUS
  <2>1. Home[u] \in Daemons /\ Home[u] # d /\ doing[u] # "idle"
    BY <1>1, Constants
  <2>2. up[Home[u]]
    BY <2>1 DEF Control
  <2> QED  BY <1>2, <2>1, <2>2, Zenon
<1>7. TransactionsEnd'
  <2> SUFFICES ASSUME NEW e \in Daemons, tx'[e], e \notin wedged'
               PROVE  lock'[e] # None /\ at'[lock'[e]] \in {"update", "insert", "commit"}
    BY DEF TransactionsEnd
  <2>1. e # d /\ tx[e] /\ e \notin wedged
    BY <1>2, Zenon DEF Died
  <2>2. lock[e] # None /\ at[lock[e]] \in {"update", "insert", "commit"}
    BY <2>1 DEF Control, TransactionsEnd
  <2>3. lock[e] \in Threads /\ Home[lock[e]] = e
    BY <2>2 DEF Types, Control
  <2>4. lock'[e] = lock[e]
    BY <1>2, <2>1, Zenon
  <2>5. at'[lock[e]] = at[lock[e]]
    BY <1>1, <2>1, <2>3
  <2> QED  BY <2>2, <2>4, <2>5
<1> QED  BY <1>3, <1>4, <1>5, <1>6, <1>7 DEF Control
(***************************************************************************)
(* What the steps do to the account                                        *)
(***************************************************************************)

\* The row is as before, or as it was before a transaction, or gone.
Kept == row' \in {row, before, NoRow} /\ before' \in {row, before, NoRow}

\* Nobody begins a lookup, and who is still to write does so with the same record.
SamePending ==
  /\ hits' = hits
  /\ \A u \in Pending' : image'[u] = image[u] /\ doing'[u] = doing[u]

\* The pending threads are finitely many.
LEMMA PendingFinite ==
  /\ IsFiniteSet(Pending) /\ Cardinality(Pending) \in Nat
  /\ IsFiniteSet(Pending') /\ Cardinality(Pending') \in Nat
<1>1. Pending \in SUBSET Threads /\ Pending' \in SUBSET Threads
  BY DEF Pending
<1> QED  BY <1>1, ThreadsAssumption, FS_Subset, FS_CardinalityType

\* The account is kept when no value is written, and some threads give up.
LEMMA AccountKept ==
  ASSUME Types, Account, Kept, SamePending, Pending' \subseteq Pending
  PROVE  Account'
<1> DEFINE n == Cardinality(Pending)
           m == Cardinality(Pending')
<1>1. n \in Nat /\ m \in Nat /\ m <= n
  BY PendingFinite, FS_Subset
<1>2. n <= hits /\ hits \in Nat /\ hits' = hits
  BY DEF Types, Account, SamePending
<1>3. ASSUME NEW v \in {row, before, NoRow} PROVE v = NoRow \/ v + m <= hits'
  <2>1. v \in Nat \cup {NoRow} /\ (v = NoRow \/ v + n <= hits)
    BY DEF Types, Account, Affordable
  <2> QED  BY <1>1, <1>2, <2>1
<1>4. ASSUME NEW t \in Pending', doing'[t] = "set"
      PROVE  /\ image'[t].value + m <= hits' + 1
             /\ image'[t].diff => image'[t].value = 1
  <2>1. t \in Pending /\ image'[t] = image[t] /\ doing[t] = "set"
    BY <1>4 DEF SamePending
  <2>2. image[t].value + n <= hits + 1 /\ (image[t].diff => image[t].value = 1)
    BY <2>1 DEF Account
  <2>3. image[t].value \in Nat
    BY <2>1 DEF Types, Image, Pending
  <2>4. image[t].value + m <= hits + 1
    BY <1>1, <1>2, <2>2, <2>3
  <2> QED  BY <1>2, <2>1, <2>2, <2>4
<1>5. m <= hits'
  BY <1>1, <1>2
<1>6. Affordable(row)' /\ Affordable(before)'
  BY <1>3 DEF Kept, Affordable
<1> QED  BY <1>4, <1>5, <1>6 DEF Account

\* The account is kept when a thread writes: its unit in hand pays for it.
LEMMA AccountWritten ==
  ASSUME Types, Account, NEW t \in Pending, doing[t] = "set",
         Pending' = Pending \ {t}, SamePending, before' \in {row, before, NoRow},
         row' \in Nat,
         row' = image[t].value \/ (row # NoRow /\ row' = row + 1)
  PROVE  Account'
<1> DEFINE n == Cardinality(Pending)
           m == Cardinality(Pending')
<1>1. n \in Nat /\ m \in Nat /\ m = n - 1
  BY PendingFinite, FS_RemoveElement
<1>2. n <= hits /\ hits \in Nat /\ hits' = hits
  BY DEF Types, Account, SamePending
<1>3. image[t].value \in Nat /\ image[t].value + n <= hits + 1
  BY DEF Types, Image, Pending, Account
<1>4. row \in Nat \cup {NoRow} /\ (row = NoRow \/ row + n <= hits)
  BY DEF Types, Account, Affordable
<1>5. row' + m <= hits'
  BY <1>1, <1>2, <1>3, <1>4
<1>6. ASSUME NEW v \in {row, before, NoRow} PROVE v = NoRow \/ v + m <= hits'
  <2>1. v \in Nat \cup {NoRow} /\ (v = NoRow \/ v + n <= hits)
    BY DEF Types, Account, Affordable
  <2> QED  BY <1>1, <1>2, <2>1
<1>7. ASSUME NEW u \in Pending', doing'[u] = "set"
      PROVE  /\ image'[u].value + m <= hits' + 1
             /\ image'[u].diff => image'[u].value = 1
  <2>1. u \in Pending /\ image'[u] = image[u] /\ doing[u] = "set"
    BY <1>7 DEF SamePending
  <2>2. image[u].value + n <= hits + 1 /\ (image[u].diff => image[u].value = 1)
    BY <2>1 DEF Account
  <2>3. image[u].value \in Nat
    BY <2>1 DEF Types, Image, Pending
  <2>4. image[u].value + m <= hits + 1
    BY <1>1, <1>2, <2>2, <2>3
  <2> QED  BY <1>2, <2>1, <2>2, <2>4
<1>8. m <= hits'
  BY <1>1, <1>2
<1>9. Affordable(row)' /\ Affordable(before)'
  BY <1>5, <1>6 DEF Affordable
<1> QED  BY <1>7, <1>8, <1>9, Zenon DEF Account

(***************************************************************************)
(* Both                                                                    *)
(***************************************************************************)

\* A thread goes on in dbt_db_set without writing.
LEMMA MovedInv ==
  ASSUME IInv, NEW t \in Threads, NEW p \in Inside \ {"commit"}, Moved(t, p),
         at[t] \in Inside \ {"commit"}, image' = image, hits' = hits, Kept,
         tx'[Home[t]] => Home[t] \in wedged \/ p \in {"update", "insert", "commit"}
  PROVE  IInv'
<1>1. \A u \in Threads : at'[u] = IF u = t THEN p ELSE at[u]
  BY DEF IInv, Types, Moved
<1>2. Types'
  BY <1>1 DEF IInv, Types, Moved, Inside, Kept
<1>3. Control'
  BY MovedControl DEF IInv
<1>4. Pending' \subseteq Pending
  BY <1>1 DEF Pending, Moved
<1>5. SamePending
  BY DEF SamePending, Moved
<1> QED  BY <1>2, <1>3, <1>4, <1>5, AccountKept DEF IInv

\* A thread writes the row in its transaction.
LEMMA WroteInv ==
  ASSUME IInv, NEW t \in Threads, Moved(t, "commit"),
         at[t] \in {"update", "insert"}, image' = image, hits' = hits,
         before' \in {row, before, NoRow}, row' \in Nat,
         row' = image[t].value \/ (row # NoRow /\ row' = row + 1)
  PROVE  IInv'
<1>1. \A u \in Threads : at'[u] = IF u = t THEN "commit" ELSE at[u]
  BY DEF IInv, Types, Moved
<1>2. Types'
  BY <1>1 DEF IInv, Types, Moved, Place
<1>3. Control'
  <2>1. "commit" \in Inside /\ at[t] \in Inside
    BY DEF Inside, Place
  <2> QED  BY <2>1, MovedControl DEF IInv
<1>4. doing[t] = "set"
  BY DEF IInv, Control
<1>5. t \in Pending /\ Pending' = Pending \ {t}
  BY <1>1, <1>4 DEF Pending, Moved
<1>6. SamePending
  BY DEF SamePending, Moved
<1> QED  BY <1>2, <1>3, <1>4, <1>5, <1>6, AccountWritten DEF IInv

\* A thread returns from dbt_db_set, having written or not.
LEMMA ReturnsInv ==
  ASSUME IInv, NEW t \in Threads, Returns(t), at[t] \in Inside,
         image' = [image EXCEPT ![t] = NoImage], hits' = hits,
         \/ Kept
         \/ at[t] # "commit" /\ row' = image[t].value /\ before' = before
  PROVE  IInv'
<1>1. \A u \in Threads : /\ at'[u] = IF u = t THEN "idle" ELSE at[u]
                         /\ doing'[u] = IF u = t THEN "idle" ELSE doing[u]
                         /\ image'[u] = IF u = t THEN NoImage ELSE image[u]
  BY DEF IInv, Types, Returns
<1>2. image[t].value \in Nat
  BY DEF IInv, Types, Image
<1>3. Types'
  <2>1. row' \in Nat \cup {NoRow} /\ before' \in Nat \cup {NoRow}
    BY <1>2 DEF IInv, Types, Kept
  <2>2. /\ at' \in [Threads -> Place] /\ doing' \in [Threads -> {"idle", "get", "set"}]
    BY DEF IInv, Types, Returns, Place
  <2>3. image' \in [Threads -> Image]
    BY DEF IInv, Types, NoImage, Image
  <2>4. lock' \in [Daemons -> Threads \cup {None}]
    BY Zenon DEF IInv, Types, Returns
  <2> QED  BY <2>1, <2>2, <2>3, <2>4 DEF IInv, Types, Returns
<1>4. Control'
  BY ReturnsControl DEF IInv
<1>5. doing[t] = "set"
  BY DEF IInv, Control, Inside
<1>6. Pending' = Pending \ {t}
  BY <1>1 DEF Pending
<1>7. SamePending
  BY <1>1, <1>6 DEF SamePending, Pending
<1>8. CASE Kept
  BY <1>3, <1>4, <1>6, <1>7, <1>8, AccountKept DEF IInv
<1>9. CASE at[t] # "commit" /\ row' = image[t].value /\ before' = before
  <2>1. t \in Pending
    BY <1>5, <1>9 DEF Pending
  <2>2. Account'
    BY <1>2, <1>5, <1>6, <1>7, <1>9, <2>1, AccountWritten DEF IInv
  <2> QED  BY <1>3, <1>4, <2>2 DEF IInv
<1> QED  BY <1>8, <1>9

\* A daemon dies.
LEMMA DiedInv ==
  ASSUME IInv, NEW d \in Daemons, Died(d), hits' = hits, Kept,
         image' = [t \in Threads |-> IF Home[t] = d THEN NoImage ELSE image[t]]
  PROVE  IInv'
<1>1. \A u \in Threads : /\ at'[u] = IF Home[u] = d THEN "idle" ELSE at[u]
                         /\ doing'[u] = IF Home[u] = d THEN "idle" ELSE doing[u]
                         /\ image'[u] = IF Home[u] = d THEN NoImage ELSE image[u]
  BY DEF Died
<1>2. Types'
  <2>1. row' \in Nat \cup {NoRow} /\ before' \in Nat \cup {NoRow}
    BY DEF IInv, Types, Kept
  <2>2. /\ at' \in [Threads -> Place] /\ doing' \in [Threads -> {"idle", "get", "set"}]
    BY DEF IInv, Types, Died, Place
  <2>3. image' \in [Threads -> Image]
    BY DEF IInv, Types, NoImage, Image
  <2>4. /\ lock' \in [Daemons -> Threads \cup {None}] /\ up' \in [Daemons -> BOOLEAN]
        /\ tx' \in [Daemons -> BOOLEAN]
    BY DEF IInv, Types, Died
  <2> QED  BY <2>1, <2>2, <2>3, <2>4 DEF IInv, Types
<1>3. Control'
  BY DiedControl DEF IInv
<1>4. Pending' \subseteq Pending
  BY <1>1 DEF Pending
<1>5. SamePending
  BY <1>1 DEF SamePending, Pending
<1> QED  BY <1>2, <1>3, <1>4, <1>5, AccountKept DEF IInv
(***************************************************************************)
(* The steps                                                               *)
(***************************************************************************)

\* CallersFollow leaves the callers of a set that goes on where they are ...
LEMMA FollowMove ==
  ASSUME IInv, NEW t \in Threads, NEW p \in Inside, Goto(t, p), up' = up, CallersFollow
  PROVE  doing' = doing /\ hits' = hits
<1>1. \A u \in Threads : at'[u] = IF u = t THEN p ELSE at[u]
  BY DEF IInv, Types, Goto
<1>2. ASSUME NEW u \in Threads PROVE Over(u) => doing[u] = "idle"
  <2>1. ~ up[Home[u]] => doing[u] = "idle"
    BY DEF IInv, Control
  <2>2. doing[u] = "set" => at'[u] # "idle"
    BY <1>1 DEF IInv, Control, Inside
  <2> QED  BY <2>1, <2>2 DEF Over
<1>3. doing' = [u \in Threads |-> IF Over(u) THEN "idle" ELSE doing[u]]
  BY DEF CallersFollow
<1>4. doing' = doing
  BY <1>2, <1>3 DEF IInv, Types
<1> QED  BY <1>4 DEF CallersFollow

\* ... ends the call of one that returns ...
LEMMA FollowReturn ==
  ASSUME IInv, NEW t \in Threads, NEW ok, at[t] \in Inside, Return(t, ok), CallersFollow
  PROVE  /\ at' = [at EXCEPT ![t] = "idle"] /\ doing' = [doing EXCEPT ![t] = "idle"]
         /\ lock' = [lock EXCEPT ![Home[t]] = None] /\ up' = up
         /\ image' = [image EXCEPT ![t] = NoImage] /\ hits' = hits
<1>1. /\ at' = [at EXCEPT ![t] = "idle"] /\ up' = up
      /\ lock' = [lock EXCEPT ![Home[t]] = None]
      /\ image' = [image EXCEPT ![t] = NoImage]
  BY DEF Return, Goto
<1>2. \A u \in Threads : at'[u] = IF u = t THEN "idle" ELSE at[u]
  BY <1>1 DEF IInv, Types
<1>3. doing[t] = "set"
  BY DEF IInv, Control, Inside
<1>4. ASSUME NEW u \in Threads \ {t} PROVE Over(u) => doing[u] = "idle"
  <2>1. ~ up[Home[u]] => doing[u] = "idle"
    BY DEF IInv, Control
  <2>2. doing[u] = "set" => at'[u] # "idle"
    BY <1>2 DEF IInv, Control
  <2> QED  BY <1>1, <2>1, <2>2 DEF Over
<1>5. Over(t)
  BY <1>2, <1>3 DEF Over
<1>6. doing' = [u \in Threads |-> IF Over(u) THEN "idle" ELSE doing[u]]
  BY DEF CallersFollow
<1>7. doing' = [doing EXCEPT ![t] = "idle"]
  BY <1>4, <1>5, <1>6, Zenon DEF IInv, Types
<1> QED  BY <1>1, <1>7, Zenon DEF CallersFollow

\* ... and all the calls of a daemon that dies.
LEMMA FollowGone ==
  ASSUME IInv, NEW d \in Daemons, Gone(d), CallersFollow, tx' = [tx EXCEPT ![d] = FALSE]
  PROVE  /\ Died(d) /\ hits' = hits
         /\ image' = [t \in Threads |-> IF Home[t] = d THEN NoImage ELSE image[t]]
<1>1. \A e \in Daemons : up'[e] = IF e = d THEN FALSE ELSE up[e]
  BY DEF IInv, Types, Gone
<1>2. \A u \in Threads : at'[u] = IF Home[u] = d THEN "idle" ELSE at[u]
  BY DEF Gone
<1>3. ASSUME NEW u \in Threads, Home[u] # d PROVE Over(u) => doing[u] = "idle"
  <2>1. ~ up'[Home[u]] => doing[u] = "idle"
    BY <1>1, <1>3, Constants, Zenon DEF IInv, Control
  <2>2. doing[u] = "set" => at'[u] # "idle"
    BY <1>2, <1>3 DEF IInv, Control
  <2> QED  BY <2>1, <2>2 DEF Over
<1>4. ASSUME NEW u \in Threads, Home[u] = d PROVE Over(u)
  BY <1>1, <1>4, Zenon DEF Over
<1>5. doing' = [u \in Threads |-> IF Over(u) THEN "idle" ELSE doing[u]]
  BY DEF CallersFollow
<1>6. doing' = [t \in Threads |-> IF Home[t] = d THEN "idle" ELSE doing[t]]
  BY <1>3, <1>4, <1>5 DEF IInv, Types
<1> QED  BY <1>6 DEF Died, Gone, CallersFollow

\* COMMIT and ROLLBACK end the transaction of d and no other.
LEMMA EndsTransaction ==
  ASSUME IInv, NEW d \in Daemons, Commit(d) \/ Rollback(d)
  PROVE  /\ tx' = [tx EXCEPT ![d] = FALSE] /\ tx' \in [Daemons -> BOOLEAN]
         /\ \A e \in Daemons : tx'[e] = IF e = d THEN FALSE ELSE tx[e]
         /\ Kept
<1>1. tx' = [tx EXCEPT ![d] = FALSE]
  BY DEF Commit, Rollback
<1>2. Kept
  BY DEF Commit, Rollback, Kept
<1> QED  BY <1>1, <1>2 DEF IInv, Types

\* A daemon dies with its transaction rolled back or committed.
LEMMA GoneStep ==
  ASSUME IInv, NEW d \in Daemons, Commit(d) \/ Rollback(d), Gone(d), CallersFollow
  PROVE  IInv'
BY EndsTransaction, FollowGone, DiedInv, Zenon

\* sql_db_set ends its transaction and returns.
LEMMA ReturnStep ==
  ASSUME IInv, NEW t \in Threads, NEW ok, at[t] \in Inside, Return(t, ok),
         Commit(Home[t]) \/ Rollback(Home[t]), wedged' = wedged, CallersFollow
  PROVE  IInv'
<1>1. Home[t] \in Daemons
  BY Constants
<1>2. Kept /\ Returns(t)
  BY <1>1, EndsTransaction, FollowReturn, Zenon DEF Returns
<1> QED  BY <1>2, FollowReturn, ReturnsInv

\* sql_db_set fails.
LEMMA FailStep ==
  ASSUME IInv, NEW t \in Threads, at[t] \in Inside, Fail(t), CallersFollow
  PROVE  IInv'
<1>1. Home[t] \in Daemons
  BY Constants
<1>2. CASE fatal
  BY <1>1, <1>2, GoneStep DEF Fail
<1>3. CASE ~ fatal
  BY <1>3, ReturnStep, Zenon DEF Fail
<1> QED  BY <1>2, <1>3

\* A database that is not touched.
LEMMA DatabaseKept ==
  ASSUME IInv, UNCHANGED database
  PROVE  Kept /\ tx' = tx
BY DEF database, Kept

\* BEGIN fails: within a transaction only if a COMMIT has failed before.
LEMMA FailAtBeginStep ==
  ASSUME IInv, NEW t \in Threads, at[t] = "begin", FailAtBegin(t), CallersFollow
  PROVE  IInv'
<1>1. Home[t] \in Daemons /\ at[t] \in Inside
  BY Constants DEF Inside, Place
<1>2. CASE fatal
  BY <1>1, <1>2, GoneStep DEF FailAtBegin
<1>3. CASE ~ fatal
  <2>1. Return(t, FALSE) /\ tx' = tx /\ wedged' = wedged /\ Kept
    BY <1>3, DatabaseKept, Zenon DEF FailAtBegin
  <2>2. lock[Home[t]] = t
    BY <1>1 DEF IInv, Control
  <2>3. tx[Home[t]] => Home[t] \in wedged
    BY <1>1, <2>2 DEF IInv, Control, TransactionsEnd
  <2>4. Returns(t)
    BY <1>1, <2>1, <2>3, FollowReturn, Zenon DEF Returns, IInv, Types
  <2> QED  BY <1>1, <2>1, <2>4, FollowReturn, ReturnsInv, Zenon
<1> QED  BY <1>2, <1>3

\* COMMIT fails: sqlite3's transaction stays open, and the daemon is wedged.
LEMMA FailAtCommitStep ==
  ASSUME IInv, NEW t \in Threads, at[t] = "commit", FailAtCommit(t), CallersFollow
  PROVE  IInv'
<1>1. Home[t] \in Daemons /\ at[t] \in Inside
  BY Constants DEF Inside, Place
<1>2. CASE engine = "sqlite3" /\ ~ fatal
  <2>1. Return(t, FALSE) /\ tx' = tx /\ wedged' = wedged \cup {Home[t]} /\ Kept
    BY <1>2, DatabaseKept, Zenon DEF FailAtCommit
  <2>2. Returns(t)
    BY <1>1, <2>1, FollowReturn, Zenon DEF Returns, IInv, Types
  <2> QED  BY <1>1, <2>1, <2>2, FollowReturn, ReturnsInv, Zenon
<1>3. CASE ~ (engine = "sqlite3" /\ ~ fatal)
  BY <1>1, <1>3, FailStep, Zenon DEF FailAtCommit
<1> QED  BY <1>2, <1>3

\* INSERT fails: sql_db_set gives up or turns to the duplicate key hack.
LEMMA FailAtInsertStep ==
  ASSUME IInv, NEW t \in Threads, at[t] = "insert", FailAtInsert(t), CallersFollow
  PROVE  IInv'
<1>1. Home[t] \in Daemons /\ at[t] \in Inside \ {"commit"} /\ "hack" \in Inside \ {"commit"}
  BY Constants DEF Inside, Place
<1>2. CASE fatal
  <2>1. /\ Rollback(Home[t]) /\ Goto(t, "hack") /\ lock' = lock /\ up' = up
        /\ image' = image /\ wedged' = wedged
    BY <1>2 DEF FailAtInsert, mutexes
  <2>2. /\ tx' \in [Daemons -> BOOLEAN] /\ Kept
        /\ \A e \in Daemons : tx'[e] = IF e = Home[t] THEN FALSE ELSE tx[e]
    BY <1>1, <2>1, EndsTransaction, Zenon
  <2>3. doing' = doing /\ hits' = hits
    BY <1>1, <2>1, FollowMove
  <2>4. Moved(t, "hack")
    BY <2>1, <2>2, <2>3, Zenon DEF Moved, Goto
  <2> QED  BY <1>1, <2>1, <2>2, <2>3, <2>4, MovedInv, Zenon
<1>3. CASE ~ fatal
  BY <1>1, <1>3, FailStep DEF FailAtInsert
<1> QED  BY <1>2, <1>3
\* BEGIN, UPDATE and INSERT, the hack and their failures preserve the invariant.
LEMMA SetStepStep ==
  ASSUME IInv, NEW t \in Threads, SetStep(t), CallersFollow
  PROVE  IInv'
<1> DEFINE d == Home[t]
<1>1. d \in Daemons
  BY Constants
<1>2. {"begin", "update", "insert", "hack"} \subseteq Inside \ {"commit"} /\ "commit" \in Inside
  BY DEF Inside, Place
<1>3. CASE Lock(t)
  <2>1. /\ at[t] = "wait" /\ lock[d] = None /\ Goto(t, "begin") /\ up' = up /\ tx' = tx
        /\ lock' = [lock EXCEPT ![d] = t] /\ image' = image /\ wedged' = wedged /\ Kept
    BY <1>3, DatabaseKept DEF Lock, At, database
  <2>2. doing' = doing /\ hits' = hits
    BY <1>2, <2>1, FollowMove
  <2>3. \A u \in Threads : at'[u] = IF u = t THEN "begin" ELSE at[u]
    BY <2>1 DEF Goto, IInv, Types
  <2>4. \A e \in Daemons : lock'[e] = IF e = d THEN t ELSE lock[e]
    BY <2>1 DEF IInv, Types
  <2>5. Types'
    BY <2>1, <2>2, <2>3, <2>4, Zenon DEF IInv, Types, Kept, Goto, Place
  <2>6. (\A u \in Threads : at[u] \in Inside => lock[Home[u]] = u)'
    <3> SUFFICES ASSUME NEW u \in Threads, at'[u] \in Inside, u # t PROVE lock'[Home[u]] = u
      BY <1>1, <2>4
    <3>1. lock[Home[u]] = u
      BY <2>3 DEF IInv, Control
    <3> QED  BY <2>1, <2>4, <3>1, Constants, Zenon
  <2>7. (\A e \in Daemons : lock[e] # None => Home[lock[e]] = e)'
    BY <2>4 DEF IInv, Control
  <2>8. (\A u \in Threads : at[u] # "idle" <=> doing[u] = "set")'
    BY <2>1, <2>2, <2>3 DEF IInv, Control
  <2>9. (\A u \in Threads : doing[u] # "idle" => up[Home[u]])'
    BY <2>1, <2>2 DEF IInv, Control
  <2>10. TransactionsEnd'
    <3> SUFFICES ASSUME NEW e \in Daemons, tx[e], e \notin wedged
                 PROVE  lock'[e] # None /\ at'[lock'[e]] \in {"update", "insert", "commit"}
      BY <2>1 DEF TransactionsEnd
    <3>1. lock[e] # None /\ at[lock[e]] \in {"update", "insert", "commit"}
      BY DEF IInv, Control, TransactionsEnd
    <3>2. lock[e] \in Threads /\ lock[e] # t /\ e # d
      BY <2>1, <3>1 DEF IInv, Types
    <3> QED  BY <2>3, <2>4, <3>1, <3>2
  <2>11. Pending' \subseteq Pending
    BY <2>1, <2>2, <2>3, Zenon DEF Pending
  <2>12. SamePending
    BY <2>1, <2>2 DEF SamePending
  <2>13. Control'
    BY <2>6, <2>7, <2>8, <2>9, <2>10 DEF Control
  <2> QED  BY <2>1, <2>5, <2>11, <2>12, <2>13, AccountKept DEF IInv
<1>4. CASE Begin(t)
  <2>1. CASE tx[d]
    BY <1>4, <2>1, FailAtBeginStep DEF Begin, At
  <2>2. CASE ~ tx[d]
    <3>1. /\ at[t] = "begin" /\ Goto(t, "update") /\ lock' = lock /\ up' = up /\ image' = image
          /\ wedged' = wedged /\ tx' = [tx EXCEPT ![d] = TRUE] /\ Kept
      BY <1>4, <2>2 DEF Begin, At, mutexes, Kept
    <3>2. doing' = doing /\ hits' = hits
      BY <1>2, <3>1, FollowMove
    <3>3. Moved(t, "update")
      BY <1>1, <3>1, <3>2, Zenon DEF Moved, Goto, IInv, Types
    <3> QED  BY <1>2, <3>1, <3>2, <3>3, MovedInv
  <2> QED  BY <2>1, <2>2
<1>5. CASE Update(t)
  <2>1. /\ at[t] = "update" /\ Goto(t, "commit") /\ lock' = lock /\ up' = up /\ image' = image
        /\ wedged' = wedged /\ tx' = tx /\ row # NoRow
        /\ row' = Updated(row, image[t]) /\ before' \in {row, before, NoRow}
    BY <1>5 DEF Update, At, mutexes, Write
  <2>2. doing' = doing /\ hits' = hits
    BY <1>2, <2>1, FollowMove
  <2>3. Moved(t, "commit")
    BY <2>1, <2>2 DEF Moved, Goto, IInv, Types
  <2>4. row \in Nat /\ image[t].value \in Nat
    BY <2>1 DEF IInv, Types, Image
  <2>5. image[t].diff => image[t].value = 1
    <3>1. t \in Pending /\ doing[t] = "set"
      BY <2>1 DEF Pending, IInv, Control
    <3> QED  BY <3>1 DEF IInv, Account
  <2>6. row' \in Nat /\ (row' = image[t].value \/ row' = row + 1)
    BY <2>1, <2>4, <2>5 DEF Updated
  <2> QED  BY <2>1, <2>2, <2>3, <2>6, WroteInv
<1>6. CASE UpdateNothing(t)
  <2>1. /\ at[t] = "update" /\ Goto(t, "insert") /\ lock' = lock /\ up' = up /\ image' = image
        /\ wedged' = wedged /\ tx' = tx /\ Kept
    BY <1>6 DEF UpdateNothing, At, mutexes, Write, Kept
  <2>2. doing' = doing /\ hits' = hits
    BY <1>2, <2>1, FollowMove
  <2>3. Moved(t, "insert")
    BY <2>1, <2>2 DEF Moved, Goto, IInv, Types
  <2> QED  BY <1>2, <2>1, <2>2, <2>3, MovedInv
<1>7. CASE Insert(t)
  <2>1. /\ at[t] = "insert" /\ Goto(t, "commit") /\ lock' = lock /\ up' = up /\ image' = image
        /\ wedged' = wedged /\ tx' = tx
        /\ row' = image[t].value /\ before' \in {row, before, NoRow}
    BY <1>7 DEF Insert, At, mutexes, Write, Inserted
  <2>2. doing' = doing /\ hits' = hits
    BY <1>2, <2>1, FollowMove
  <2>3. Moved(t, "commit")
    BY <2>1, <2>2 DEF Moved, Goto, IInv, Types
  <2>4. image[t].value \in Nat
    BY DEF IInv, Types, Image
  <2> QED  BY <2>1, <2>2, <2>3, <2>4, WroteInv
<1>8. CASE DuplicateKey(t)
  BY <1>8, FailAtInsertStep DEF DuplicateKey, At
<1>9. CASE Busy(t)
  BY <1>2, <1>9, FailStep DEF Busy, At
<1>10. CASE EnterHack(t)
  <2>1. CASE hackFailed[d]
    BY <1>2, <1>10, <2>1, FailStep DEF EnterHack, At
  <2>2. CASE ~ hackFailed[d]
    <3>1. /\ at[t] = "hack" /\ Goto(t, "begin") /\ lock' = lock /\ up' = up /\ image' = image
          /\ wedged' = wedged /\ tx' = tx /\ Kept
      BY <1>10, <2>2, DatabaseKept DEF EnterHack, At
    <3>2. doing' = doing /\ hits' = hits
      BY <1>2, <3>1, FollowMove
    <3>3. Moved(t, "begin")
      BY <3>1, <3>2 DEF Moved, Goto, IInv, Types
    <3>4. lock[d] = t
      BY <1>2, <3>1 DEF IInv, Control
    <3>5. tx[d] => d \in wedged
      BY <1>1, <3>1, <3>4 DEF IInv, Control, TransactionsEnd
    <3> QED  BY <1>2, <3>1, <3>2, <3>3, <3>5, MovedInv
  <2> QED  BY <2>1, <2>2
<1> QED  BY <1>3, <1>4, <1>5, <1>6, <1>7, <1>8, <1>9, <1>10 DEF SetStep

\* COMMIT, heard or not, and mongodb_set preserve the invariant.
LEMMA StoreStep ==
  ASSUME IInv, NEW t \in Threads, Store(t)
  PROVE  IInv'
<1>1. Home[t] \in Daemons
  BY Constants
<1>2. {"begin", "commit"} \subseteq Inside
  BY DEF Inside, Place
<1>3. CASE CommitSet(t) /\ CallersFollow
  BY <1>2, <1>3, ReturnStep, Zenon DEF CommitSet, At
<1>4. CASE CommitUnheard(t) /\ CallersFollow
  <2>1. CASE fatal
    BY <1>1, <1>4, <2>1, GoneStep DEF CommitUnheard
  <2>2. CASE ~ fatal
    BY <1>2, <1>4, <2>2, ReturnStep, Zenon DEF CommitUnheard, At
  <2> QED  BY <2>1, <2>2
<1>5. CASE Upsert(t) /\ CallersFollow
  <2>1. /\ at[t] = "begin" /\ at[t] \in Inside /\ Return(t, TRUE) /\ row' = image[t].value
        /\ before' = before /\ tx' = tx /\ wedged' = wedged
    BY <1>2, <1>5, Zenon DEF Upsert, At
  <2>2. lock[Home[t]] = t
    BY <2>1 DEF IInv, Control
  <2>3. tx[Home[t]] => Home[t] \in wedged
    BY <1>1, <2>1, <2>2 DEF IInv, Control, TransactionsEnd
  <2>4. Returns(t)
    BY <1>1, <1>5, <2>1, <2>3, FollowReturn, Zenon DEF Returns, IInv, Types
  <2> QED  BY <1>5, <2>1, <2>4, FollowReturn, ReturnsInv, Zenon
<1>6. CASE SetStep(t) /\ CallersFollow
  BY <1>6, SetStepStep
<1> QED  BY <1>3, <1>4, <1>5, <1>6 DEF Store
\* A step outside dbt_db_set keeps what is said of the mutexes and transactions.
LEMMA ControlKept ==
  ASSUME Types, Control, lock' = lock, tx' = tx, wedged' = wedged,
         \A u \in Threads : at'[u] = at[u] \/ (at[u] = "idle" /\ at'[u] = "wait"),
         (\A u \in Threads : at[u] # "idle" <=> doing[u] = "set")',
         (\A u \in Threads : doing[u] # "idle" => up[Home[u]])'
  PROVE  Control'
<1>1. (\A u \in Threads : at[u] \in Inside => lock[Home[u]] = u)'
  BY DEF Control, Inside
<1>2. (\A d \in Daemons : lock[d] # None => Home[lock[d]] = d)'
  BY DEF Control
<1>3. TransactionsEnd'
  <2> SUFFICES ASSUME NEW d \in Daemons, tx[d], d \notin wedged
               PROVE  lock[d] # None /\ at'[lock[d]] \in {"update", "insert", "commit"}
    BY DEF TransactionsEnd
  <2>1. lock[d] # None /\ at[lock[d]] \in {"update", "insert", "commit"}
    BY DEF Control, TransactionsEnd
  <2>2. lock[d] \in Threads
    BY <2>1 DEF Types
  <2> QED  BY <2>1, <2>2
<1> QED  BY <1>1, <1>2, <1>3 DEF Control

\* A lookup or an update begins: one more is pending, and one more hit.
LEMMA EnterStep ==
  ASSUME IInv, NEW t \in Threads, Enter(t)
  PROVE  IInv'
<1>1. /\ up[Home[t]] /\ doing[t] = "idle" /\ hits' = hits + 1
      /\ doing' = [doing EXCEPT ![t] = "get"] /\ at' = at /\ up' = up /\ image' = image
      /\ lock' = lock /\ tx' = tx /\ wedged' = wedged /\ row' = row /\ before' = before
  BY Zenon DEF Enter, sqlvars, database, mutexes, setting
<1>2. \A u \in Threads : doing'[u] = IF u = t THEN "get" ELSE doing[u]
  BY <1>1 DEF IInv, Types
<1>3. Types'
  BY <1>1 DEF IInv, Types
<1>4. Control'
  <2>1. (\A u \in Threads : at[u] # "idle" <=> doing[u] = "set")'
    <3> SUFFICES ASSUME NEW u \in Threads PROVE at'[u] # "idle" <=> doing'[u] = "set"
      OBVIOUS
    <3>1. at'[u] = at[u] /\ (at[u] # "idle" <=> doing[u] = "set")
      BY <1>1 DEF IInv, Control
    <3> QED  BY <1>1, <1>2, <3>1
  <2>2. (\A u \in Threads : doing[u] # "idle" => up[Home[u]])'
    BY <1>1, <1>2 DEF IInv, Control
  <2> QED  BY <1>1, <2>1, <2>2, ControlKept DEF IInv
<1>5. t \notin Pending /\ Pending' = Pending \cup {t}
  BY <1>1, <1>2 DEF Pending
<1> DEFINE n == Cardinality(Pending)
<1>6. n \in Nat /\ Cardinality(Pending') = n + 1
  BY <1>5, PendingFinite, FS_AddElement
<1>7. Cardinality(Pending') <= hits'
  BY <1>1, <1>6 DEF IInv, Types, Account
<1>8. Affordable(row)' /\ Affordable(before)'
  BY <1>1, <1>6 DEF IInv, Types, Account, Affordable
<1>9. ASSUME NEW u \in Pending', doing'[u] = "set"
      PROVE  /\ image'[u].value + Cardinality(Pending') <= hits' + 1
             /\ image'[u].diff => image'[u].value = 1
  <2>1. u \in Pending /\ u \in Threads /\ doing[u] = "set" /\ image'[u] = image[u]
    BY <1>1, <1>2, <1>5, <1>9 DEF Pending
  <2>2. image[u].value + n <= hits + 1 /\ (image[u].diff => image[u].value = 1)
    BY <2>1 DEF IInv, Account
  <2>3. image[u].value \in Nat /\ hits \in Nat
    BY <2>1 DEF IInv, Types, Image
  <2>4. image[u].value + (n + 1) <= (hits + 1) + 1
    BY <1>6, <2>2, <2>3
  <2> QED  BY <1>1, <1>6, <2>1, <2>2, <2>4
<1>10. Account'
  BY <1>7, <1>8, <1>9 DEF Account
<1> QED  BY <1>3, <1>4, <1>10 DEF IInv

\* What a lookup sets is 1, or one more than what it has found.
LEMMA ToSetValue ==
  ASSUME NEW r \in Nat \cup {NoRow}
  PROVE  /\ ToSet(r) \in Image
         /\ ToSet(r).value = 1 \/ (r # NoRow /\ ToSet(r).value = r + 1)
         /\ ToSet(r).diff => ToSet(r).value = 1
<1>1. 1 \in Nat /\ (r # NoRow => r \in Nat /\ r + 1 \in Nat)
  OBVIOUS
<1>2. CASE kind = "hitlist"
  <2>1. CASE r = NoRow
    BY <1>1, <1>2, <2>1 DEF ToSet, HitlistRecord, Image
  <2>2. CASE r # NoRow /\ engine \in Transactional
    BY <1>1, <1>2, <2>2 DEF ToSet, HitlistRecord, Image
  <2>3. CASE r # NoRow /\ engine \notin Transactional
    BY <1>1, <1>2, <2>3 DEF ToSet, HitlistRecord, Image
  <2> QED  BY <2>1, <2>2, <2>3
<1>3. CASE kind # "hitlist"
  BY <1>1, <1>3 DEF ToSet, CounterRecord, Image
<1> QED  BY <1>2, <1>3

\* The record is read, and the one to set is made from it.
LEMMA GetStep ==
  ASSUME IInv, NEW t \in Threads, Get(t)
  PROVE  IInv'
<1> DEFINE r == Visible(Home[t])
           im == ToSet(r)
<1>1. r \in {row, before} /\ r \in Nat \cup {NoRow}
  BY DEF Visible, IInv, Types
<1>2. /\ im \in Image /\ (im.value = 1 \/ (r # NoRow /\ im.value = r + 1))
      /\ im.diff => im.value = 1
  BY <1>1, ToSetValue, Zenon
<1>3. PICK i : /\ i = im /\ Request(t, i)
  BY DEF Get
<1>4. /\ i \in Image /\ (i.value = 1 \/ (r # NoRow /\ i.value = r + 1))
      /\ i.diff => i.value = 1
  BY <1>2, <1>3
<1>5. /\ doing[t] = "get" /\ up[Home[t]] /\ hits' = hits
      /\ doing' = [doing EXCEPT ![t] = "set"] /\ at' = [at EXCEPT ![t] = "wait"] /\ up' = up
      /\ image' = [image EXCEPT ![t] = i]
      /\ lock' = lock /\ tx' = tx /\ wedged' = wedged /\ row' = row /\ before' = before
  BY <1>3, Zenon DEF Get, Request, Goto, database, mutexes
<1>6. \A u \in Threads : /\ doing'[u] = IF u = t THEN "set" ELSE doing[u]
                         /\ at'[u] = IF u = t THEN "wait" ELSE at[u]
                         /\ image'[u] = IF u = t THEN i ELSE image[u]
  BY <1>5 DEF IInv, Types
<1> HIDE DEF im
<1>7. at[t] = "idle"
  BY <1>5 DEF IInv, Control
<1>8. Types'
  BY <1>4, <1>5 DEF IInv, Types, Place
<1>9. Control'
  <2>1. (\A u \in Threads : at[u] # "idle" <=> doing[u] = "set")'
    BY <1>6, Zenon DEF IInv, Control
  <2>2. up[Home[t]] /\ up' = up
    BY <1>5, Zenon
  <2>3. \A u \in Threads : doing'[u] # "idle" => u = t \/ doing[u] # "idle"
    BY <1>6, Zenon
  <2>4. \A u \in Threads : doing[u] # "idle" => up[Home[u]]
    BY Zenon DEF IInv, Control
  <2>5. (\A u \in Threads : doing[u] # "idle" => up[Home[u]])'
    BY <2>2, <2>3, <2>4, Zenon
  <2>6. \A u \in Threads : at'[u] = at[u] \/ (at[u] = "idle" /\ at'[u] = "wait")
    BY <1>6, <1>7
  <2>7. Types /\ Control /\ lock' = lock /\ tx' = tx /\ wedged' = wedged
    BY <1>5, Zenon DEF IInv
  <2> QED  BY <2>1, <2>5, <2>6, <2>7, ControlKept, Zenon
<1>10. Pending' = Pending /\ t \in Pending
  <2>1. t \in Pending
    BY <1>5, Zenon DEF Pending
  <2>2. t \in Pending'
    BY <1>6 DEF Pending
  <2>3. \A u \in Threads \ {t} : u \in Pending' <=> u \in Pending
    BY <1>6 DEF Pending
  <2>4. Pending \subseteq Threads /\ Pending' \subseteq Threads
    BY DEF Pending
  <2> QED  BY <2>1, <2>2, <2>3, <2>4
<1> DEFINE n == Cardinality(Pending)
<1>11. n \in Nat /\ n <= hits /\ hits \in Nat
  BY PendingFinite DEF IInv, Account, Types
<1>12. Affordable(row)' /\ Affordable(before)'
  BY <1>5, <1>10 DEF IInv, Account, Affordable
<1>13. ASSUME NEW u \in Pending', doing'[u] = "set"
       PROVE  /\ image'[u].value + n <= hits + 1
              /\ image'[u].diff => image'[u].value = 1
  <2>1. CASE u = t
    <3>1. image'[u] = i
      BY <1>6, <2>1
    <3>2. r = NoRow \/ r + n <= hits
      BY <1>1 DEF IInv, Account, Affordable
    <3>3. i.value + n <= hits + 1
      BY <1>1, <1>4, <1>11, <3>2
    <3> QED  BY <1>4, <3>1, <3>3
  <2>2. CASE u # t
    <3>1. u \in Pending /\ image'[u] = image[u] /\ doing[u] = "set"
      BY <1>6, <1>10, <1>13, <2>2 DEF Pending
    <3> QED  BY <3>1, Zenon DEF IInv, Account
  <2> QED  BY <2>1, <2>2
<1>14. Account'
  BY <1>5, <1>10, <1>11, <1>12, <1>13 DEF Account
<1> QED  BY <1>8, <1>9, <1>14 DEF IInv

\* A lookup ends without a set.
LEMMA LeaveStep ==
  ASSUME IInv, NEW t \in Threads, doing[t] = "get", Leave(t),
         UNCHANGED <<database, mutexes, up, setting, wedged>>
  PROVE  IInv'
<1>1. /\ doing' = [doing EXCEPT ![t] = "idle"] /\ hits' = hits /\ at' = at /\ up' = up
      /\ image' = image /\ lock' = lock /\ tx' = tx /\ wedged' = wedged
      /\ row' = row /\ before' = before
  BY Zenon DEF Leave, database, mutexes, setting
<1>2. \A u \in Threads : doing'[u] = IF u = t THEN "idle" ELSE doing[u]
  BY <1>1 DEF IInv, Types
<1>3. Types'
  BY <1>1 DEF IInv, Types
<1>4. Control'
  <2>1. (\A u \in Threads : at[u] # "idle" <=> doing[u] = "set")'
    <3> SUFFICES ASSUME NEW u \in Threads PROVE at'[u] # "idle" <=> doing'[u] = "set"
      OBVIOUS
    <3>1. at'[u] = at[u] /\ (at[u] # "idle" <=> doing[u] = "set")
      BY <1>1 DEF IInv, Control
    <3> QED  BY <1>2, <3>1
  <2>2. (\A u \in Threads : doing[u] # "idle" => up[Home[u]])'
    BY <1>1, <1>2 DEF IInv, Control
  <2> QED  BY <1>1, <2>1, <2>2, ControlKept DEF IInv
<1>5. Pending' \subseteq Pending /\ SamePending /\ Kept
  BY <1>1, <1>2 DEF Pending, SamePending, Kept
<1> QED  BY <1>3, <1>4, <1>5, AccountKept DEF IInv
\* dbt_db_expire, and a daemon that is started, preserve the invariant.
LEMMA QuietStep ==
  ASSUME IInv, NEW d \in Daemons, Expire(d) \/ Starts(d)
  PROVE  IInv'
<1>1. /\ doing' = doing /\ hits' = hits /\ at' = at /\ image' = image
      /\ lock' = lock /\ tx' = tx /\ wedged' = wedged /\ Kept
      /\ up' = up \/ up' = [up EXCEPT ![d] = TRUE]
  BY DEF Expire, Write, Starts, Start, callers, database, mutexes, setting, Kept
<1>2. up' \in [Daemons -> BOOLEAN] /\ \A e \in Daemons : up[e] => up'[e]
  BY <1>1, Zenon DEF IInv, Types
<1>3. Types'
  BY <1>1, <1>2 DEF IInv, Types, Kept
<1>4. Control'
  <2>1. (\A u \in Threads : at[u] # "idle" <=> doing[u] = "set")'
    BY <1>1, Zenon DEF IInv, Control
  <2>2. (\A u \in Threads : doing[u] # "idle" => up[Home[u]])'
    BY <1>1, <1>2, Constants DEF IInv, Control
  <2> QED  BY <1>1, <2>1, <2>2, ControlKept, Zenon DEF IInv
<1>5. Pending' \subseteq Pending /\ SamePending
  BY <1>1 DEF Pending, SamePending
<1> QED  BY <1>1, <1>3, <1>4, <1>5, AccountKept DEF IInv

\* No record and no thread in dbt_db_set to begin with.
LEMMA InitInv == Init => IInv
<1> SUFFICES ASSUME Init PROVE IInv
  OBVIOUS
<1> USE DEF Init, SqlInit
<1>1. Types
  BY DEF Types, NoImage, Image, Place
<1>2. Control
  BY Constants DEF Control, TransactionsEnd, Inside
<1>3. Pending = {} /\ Cardinality(Pending) = 0
  BY FS_EmptySet DEF Pending
<1>4. Account
  BY <1>3 DEF Account, Affordable
<1> QED  BY <1>1, <1>2, <1>4 DEF IInv

\* Every step preserves the invariant.
LEMMA NextInv == IInv /\ [Next]_storevars => IInv'
<1> SUFFICES ASSUME IInv, [Next]_storevars PROVE IInv'
  OBVIOUS
<1>1. ASSUME NEW t \in Threads, Call(t) PROVE IInv'
  <2>1. CASE Enter(t)
    BY <2>1, EnterStep
  <2>2. CASE Get(t)
    BY <2>2, GetStep
  <2>3. CASE LookOnly(t)
    BY <2>3, LeaveStep DEF LookOnly, sqlvars
  <2> QED  BY <1>1, <2>1, <2>2, <2>3 DEF Call
<1>2. ASSUME NEW t \in Threads, GetFails(t) PROVE IInv'
  <2>1. CASE fatal
    BY <1>2, <2>1, GoneStep, Constants DEF GetFails
  <2>2. CASE ~ fatal
    BY <1>2, <2>2, LeaveStep DEF GetFails
  <2> QED  BY <2>1, <2>2
<1>3. ASSUME NEW t \in Threads, Fails(t) PROVE IInv'
  <2>1. CallersFollow
    BY <1>3 DEF Fails
  <2>2. CASE At(t, "begin") /\ FailAtBegin(t)
    BY <2>1, <2>2, FailAtBeginStep DEF At
  <2>3. CASE At(t, "update") /\ Fail(t)
    <3>1. at[t] \in Inside
      BY <2>3 DEF At, Inside, Place
    <3> QED  BY <2>1, <2>3, <3>1, FailStep
  <2>4. CASE At(t, "insert") /\ FailAtInsert(t)
    BY <2>1, <2>4, FailAtInsertStep DEF At
  <2>5. CASE At(t, "commit") /\ FailAtCommit(t)
    BY <2>1, <2>5, FailAtCommitStep DEF At
  <2> QED  BY <1>3, <2>2, <2>3, <2>4, <2>5 DEF Fails, StatementFails
<1>4. ASSUME NEW d \in Daemons, Crashes(d) PROVE IInv'
  BY <1>4, GoneStep DEF Crashes, Crash
<1>5. CASE UNCHANGED storevars
  <2>1. /\ doing' = doing /\ hits' = hits /\ at' = at /\ image' = image /\ up' = up
        /\ lock' = lock /\ tx' = tx /\ wedged' = wedged /\ Kept
    BY <1>5 DEF storevars, sqlvars, callers, database, mutexes, setting, Kept
  <2>2. Types'
    BY <2>1 DEF IInv, Types, Kept
  <2>3. Control'
    BY <2>1, ControlKept, Zenon DEF IInv, Control
  <2>4. Pending' \subseteq Pending /\ SamePending
    BY <2>1 DEF Pending, SamePending
  <2> QED  BY <2>1, <2>2, <2>3, <2>4, AccountKept DEF IInv
<1> QED  BY <1>1, <1>2, <1>3, <1>4, <1>5, StoreStep, QuietStep DEF Next

\* The inductive invariant holds in every reachable state.
LEMMA Inductive == Spec => []IInv
BY InitInv, NextInv, PTL DEF Spec

\* A connection is in a transaction only under the mutex of its table, within
\* sql_db_set, unless sqlite3 has refused a COMMIT: whatever statements fail, whichever
\* daemons die and start again, nobody holds the shared row between two sets.
THEOREM RowsAreReleased == Spec => []TransactionsEnd
<1>1. IInv => TransactionsEnd
  BY DEF IInv, Control
<1> QED  BY <1>1, Inductive, PTL

\* Hitlists and counters never count more than the lookups and updates begun, whether
\* the database adds (hitlist_sql_safe_update) or a sum read earlier is written over
\* newer ones.
THEOREM CountsAreEarned == Spec => []NeverOvercounts
<1>1. IInv => NeverOvercounts
  <2> SUFFICES ASSUME IInv, Committed # NoRow PROVE Committed <= hits
    BY DEF NeverOvercounts
  <2>1. Committed \in Nat /\ Committed + Cardinality(Pending) <= hits
    BY DEF Committed, IInv, Types, Account, Affordable
  <2>2. Cardinality(Pending) \in Nat /\ hits \in Nat
    BY PendingFinite DEF IInv, Types
  <2> QED  BY <2>1, <2>2
<1> QED  BY <1>1, Inductive, PTL

(***************************************************************************)
(* Hits are exact                                                          *)
(*                                                                         *)
(* The theorem needs more than Control.  Tally says what the open          *)
(* transaction has made of the row, and that the value 1, set by a lookup  *)
(* that found no row, never meets a row its own daemon inserted.           *)
(***************************************************************************)

\* A hitlist whose database adds the difference.
Adding == kind = "hitlist" /\ engine \in Transactional

\* Within the transaction of sql_db_set.
Open == {"update", "insert", "commit"}

\* Where t is in its transaction, and what it has done to the row and may yet do.
Fine(t) ==
  /\ at[t] \in Open => tx[Home[t]]
  /\ at[t] \in Open \cup {"hack"} => Home[t] \notin wedged
  /\ at[t] = "update" => writer # Home[t]
  /\ at[t] = "insert" /\ writer = Home[t] => row = NoRow /\ before = NoRow
  /\ at[t] = "commit" =>
       /\ writer = Home[t]
       /\ row = IF before # NoRow /\ image[t].diff THEN before + 1 ELSE 1
  /\ doing[t] # "idle" => hl[Home[t]] = t
  /\ doing[t] = "set" => image[t].value = 1
  /\ doing[t] = "set" /\ ~ image[t].diff /\ Home[t] \notin wedged /\ Committed # NoRow
       => inserter # Home[t]

\* Who has the row locked is in a transaction, as is a daemon whose COMMIT failed.
Holding ==
  /\ writer # None => writer \in Daemons /\ tx[writer]
  /\ \A d \in wedged : d \in Daemons /\ tx[d]

Exact == Committed # NoRow /\ ~ overwritten => Committed = acks

Tally == Holding /\ Exact /\ \A t \in Threads : Fine(t)

\* What a step of d leaves alone of the transactions of the others, and that it does
\* not bring back a row of theirs.
Apart(d) ==
  \A e \in Daemons \ {d} :
    /\ tx'[e] = tx[e] /\ (e \in wedged' <=> e \in wedged)
    /\ writer' = e <=> writer = e
    /\ writer = e => row' = row /\ before' = before
    /\ Committed' # NoRow => inserter' # e \/ (inserter' = inserter /\ Committed # NoRow)

\* The threads of d, each in its own way, and the others, unmoved, keep the tally.
LEMMA TallyKept ==
  ASSUME Types, Tally, NEW d \in Daemons, Holding', Exact', Apart(d),
         \A u \in Threads : Home[u] # d =>
            /\ at'[u] = at[u] /\ doing'[u] = doing[u] /\ image'[u] = image[u]
            /\ doing'[u] # "idle" /\ hl[Home[u]] = u => hl'[Home[u]] = u,
         \A u \in Threads : Home[u] = d => Fine(u)'
  PROVE  Tally'
<1> SUFFICES ASSUME NEW u \in Threads, Home[u] # d PROVE Fine(u)'
  BY Zenon DEF Tally
<1> DEFINE e == Home[u]
<1>1. e \in Daemons \ {d}
  BY Constants
<1>2. /\ tx'[e] = tx[e] /\ (e \in wedged' <=> e \in wedged)
      /\ writer' = e <=> writer = e
      /\ writer = e => row' = row /\ before' = before
      /\ Committed' # NoRow => inserter' # e \/ (inserter' = inserter /\ Committed # NoRow)
  BY <1>1, Zenon DEF Apart
<1>3. at'[u] = at[u] /\ doing'[u] = doing[u] /\ image'[u] = image[u]
  BY Zenon
<1>4. Fine(u)
  BY Zenon DEF Tally
<1>5. at'[u] \in Open => tx'[e]
  BY <1>2, <1>3, <1>4, Zenon DEF Fine
<1>6. at'[u] \in Open \cup {"hack"} => e \notin wedged'
  BY <1>2, <1>3, <1>4, Zenon DEF Fine
<1>7. at'[u] = "update" => writer' # e
  BY <1>2, <1>3, <1>4, Zenon DEF Fine
<1>8. at'[u] = "insert" /\ writer' = e => row' = NoRow /\ before' = NoRow
  BY <1>2, <1>3, <1>4, Zenon DEF Fine
<1>9. at'[u] = "commit" =>
        /\ writer' = e
        /\ row' = IF before' # NoRow /\ image'[u].diff THEN before' + 1 ELSE 1
  BY <1>2, <1>3, <1>4, Zenon DEF Fine
<1>10. doing'[u] # "idle" => hl'[e] = u
  BY <1>3, <1>4, Zenon DEF Fine
<1>11. doing'[u] = "set" => image'[u].value = 1
  BY <1>3, <1>4, Zenon DEF Fine
<1>12. doing'[u] = "set" /\ ~ image'[u].diff /\ e \notin wedged' /\ Committed' # NoRow
         => inserter' # e
  BY <1>2, <1>3, <1>4, Zenon DEF Fine
<1> QED  BY <1>5, <1>6, <1>7, <1>8, <1>9, <1>10, <1>11, <1>12, Zenon DEF Fine

\* hl_mutex admits one thread of a daemon.
LEMMA OneLookup ==
  ASSUME IInv, Tally, NEW t \in Threads, doing[t] # "idle",
         NEW u \in Threads, u # t, Home[u] = Home[t]
  PROVE  doing[u] = "idle" /\ at[u] = "idle"
<1>1. hl[Home[t]] = t
  BY Zenon DEF Tally, Fine
<1>2. doing[u] # "idle" => hl[Home[u]] = u
  BY Zenon DEF Tally, Fine
<1>3. doing[u] = "idle"
  BY <1>1, <1>2, Zenon
<1> QED  BY <1>3, Zenon DEF IInv, Control

\* Nothing is asked of a thread that is idle.
LEMMA IdleFine ==
  ASSUME NEW u \in Threads, at'[u] = "idle", doing'[u] = "idle"
  PROVE  Fine(u)'
BY DEF Fine, Open

\* A caller that goes on keeps hl_mutex.
LEMMA LookupGoesOn ==
  ASSUME CallersFollow, NEW u \in Threads, doing'[u] # "idle", hl[Home[u]] = u
  PROVE  hl'[Home[u]] = u
<1>1. ~ Over(u)
  BY Zenon DEF CallersFollow
<1> QED  BY <1>1, Constants, Zenon DEF CallersFollow

\* A database that is not written: BEGIN, a COMMIT that fails, and what is outside.
LEMMA StillTally ==
  ASSUME Types, Tally, NEW d \in Daemons,
         row' = row, writer' = writer, before' = before, UNCHANGED history,
         \A e \in Daemons : tx'[e] = tx[e] \/ (e = d /\ tx'[e]),
         wedged' = wedged \/ (wedged' = wedged \cup {d} /\ tx[d])
  PROVE  Holding' /\ Exact' /\ Apart(d)
<1>1. Committed' = Committed /\ acks' = acks /\ inserter' = inserter /\ overwritten' = overwritten
  BY Zenon DEF Committed, history
<1>2. \A e \in Daemons : tx[e] => tx'[e]
  BY Zenon
<1>3. Holding'
  BY <1>2, Zenon DEF Tally, Holding
<1>4. Exact'
  BY <1>1, Zenon DEF Tally, Exact
<1>5. Apart(d)
  BY <1>1, Zenon DEF Apart
<1> QED  BY <1>3, <1>4, <1>5

\* UPDATE and INSERT lock the row and leave what is committed.
LEMMA WriteTally ==
  ASSUME Types, Tally, NEW d \in Daemons, NEW r, Write(d, r), ~ Blocked(d), tx[d],
         tx' = tx, wedged' = wedged, UNCHANGED history
  PROVE  Holding' /\ Exact' /\ Apart(d)
<1>1. writer \in {None, d} /\ writer' = d /\ d # None
  BY Constants DEF Write, Blocked
<1>2. Committed' = Committed
  BY <1>1 DEF Write, Committed
<1>3. acks' = acks /\ inserter' = inserter /\ overwritten' = overwritten
  BY DEF history
<1>4. Holding'
  BY <1>1, Zenon DEF Tally, Holding
<1>5. Exact'
  BY <1>2, <1>3, Zenon DEF Tally, Exact
<1>6. \A e \in Daemons \ {d} : writer # e /\ writer' # e
  BY <1>1, Constants
<1>7. Apart(d)
  BY <1>2, <1>3, <1>6, Zenon DEF Apart
<1> QED  BY <1>4, <1>5, <1>7

\* ROLLBACK restores what is committed.
LEMMA RollbackTally ==
  ASSUME Types, Tally, NEW d \in Daemons, Rollback(d), wedged' = wedged \ {d},
         UNCHANGED history
  PROVE  Holding' /\ Exact' /\ Apart(d)
<1>1. d # None
  BY Constants
<1>2. Committed' = Committed
  BY <1>1 DEF Rollback, Committed
<1>3. acks' = acks /\ inserter' = inserter /\ overwritten' = overwritten
  BY DEF history
<1>4. \A e \in Daemons \ {d} : tx'[e] = tx[e]
  BY DEF Types, Rollback
<1>5. writer' # None => writer' = writer /\ writer' # d
  BY Zenon DEF Rollback
<1>6. Holding'
  BY <1>4, <1>5, Zenon DEF Tally, Holding
<1>7. Exact'
  BY <1>2, <1>3, Zenon DEF Tally, Exact
<1>8. Apart(d)
  <2> SUFFICES ASSUME NEW e \in Daemons \ {d}
               PROVE  /\ writer' = e <=> writer = e
                      /\ writer = e => row' = row /\ before' = before
    BY <1>2, <1>3, <1>4, Zenon DEF Apart
  <2>1. e # None
    BY Constants
  <2> QED  BY <1>1, <2>1 DEF Rollback
<1> QED  BY <1>6, <1>7, <1>8

\* COMMIT: the row is the first of its daemon, or one more than it was, or replaced
\* by a daemon that had not seen it.
LEMMA CommitTally ==
  ASSUME IInv, Tally, NEW t \in Threads, at[t] = "commit", Commit(Home[t]),
         wedged' = wedged \ {Home[t]}, Remember(t, before)
  PROVE  Holding' /\ Exact' /\ Apart(Home[t])
<1> DEFINE d == Home[t]
<1>1. d \in Daemons /\ d # None
  BY Constants
<1>2. Fine(t) /\ doing[t] = "set"
  BY Zenon DEF Tally, IInv, Control
<1>3. /\ writer = d /\ d \notin wedged
      /\ row = IF before # NoRow /\ image[t].diff THEN before + 1 ELSE 1
  BY <1>2, Zenon DEF Fine, Open
<1>4. writer' = None /\ row' = row /\ Committed' = row /\ Committed = before
  BY <1>1, <1>3, Zenon DEF Commit, Committed
<1>5. \A e \in Daemons \ {d} : tx'[e] = tx[e]
  BY Zenon DEF IInv, Types, Commit
<1>6. Holding'
  BY <1>3, <1>4, <1>5, Zenon DEF Tally, Holding
<1>7. Exact'
  <2>1. CASE before = NoRow
    BY <1>3, <1>4, <2>1 DEF Remember, Exact
  <2>2. CASE before # NoRow
    <3> SUFFICES ASSUME ~ overwritten' PROVE row = acks'
      BY <1>4 DEF Exact
    <3>1. acks' = acks + 1 /\ ~ overwritten /\ (image[t].diff \/ d = inserter)
      BY <2>2, Zenon DEF Remember
    <3>2. image[t].diff
      BY <1>2, <1>3, <1>4, <2>2, <3>1, Zenon DEF Fine
    <3>3. before = acks
      BY <1>4, <2>2, <3>1, Zenon DEF Tally, Exact
    <3> QED  BY <1>3, <2>2, <3>1, <3>2, <3>3, Zenon
  <2> QED  BY <2>1, <2>2
<1>8. Apart(d)
  <2> SUFFICES ASSUME NEW e \in Daemons \ {d}
               PROVE  inserter' # e \/ (inserter' = inserter /\ before # NoRow)
    <3>1. \A e \in Daemons \ {d} : writer' # e /\ writer # e
      BY <1>3, <1>4, Constants
    <3> QED  BY <1>3, <1>4, <1>5, <3>1, Zenon DEF Apart
  <2> QED  BY Zenon DEF Remember
<1> QED  BY <1>6, <1>7, <1>8

\* The thread whose set returns, and every thread of a daemon that dies, is idle.
LEMMA ReturnTally ==
  ASSUME IInv, Tally, NEW t \in Threads, NEW ok, at[t] \in Inside, Return(t, ok),
         CallersFollow, Holding', Exact', Apart(Home[t])
  PROVE  Tally'
<1>1. /\ at' = [at EXCEPT ![t] = "idle"] /\ doing' = [doing EXCEPT ![t] = "idle"]
      /\ image' = [image EXCEPT ![t] = NoImage]
  BY FollowReturn, Zenon
<1>2. \A u \in Threads : /\ at'[u] = IF u = t THEN "idle" ELSE at[u]
                         /\ doing'[u] = IF u = t THEN "idle" ELSE doing[u]
                         /\ image'[u] = IF u = t THEN NoImage ELSE image[u]
  BY <1>1 DEF IInv, Types
<1>3. doing[t] # "idle" /\ Home[t] \in Daemons
  BY Constants, Zenon DEF IInv, Control, Inside
<1>4. ASSUME NEW u \in Threads, Home[u] = Home[t] PROVE Fine(u)'
  <2>1. at'[u] = "idle" /\ doing'[u] = "idle"
    BY <1>2, <1>3, <1>4, OneLookup, Zenon
  <2> QED  BY <2>1, IdleFine, Zenon
<1> QED  BY <1>2, <1>3, <1>4, LookupGoesOn, TallyKept, Zenon DEF IInv

LEMMA GoneTally ==
  ASSUME IInv, Tally, NEW d \in Daemons, Gone(d), CallersFollow,
         tx' = [tx EXCEPT ![d] = FALSE], Holding', Exact', Apart(d)
  PROVE  Tally'
<1>1. /\ Died(d)
      /\ image' = [t \in Threads |-> IF Home[t] = d THEN NoImage ELSE image[t]]
  BY FollowGone, Zenon
<1>2. \A u \in Threads : /\ at'[u] = IF Home[u] = d THEN "idle" ELSE at[u]
                         /\ doing'[u] = IF Home[u] = d THEN "idle" ELSE doing[u]
                         /\ image'[u] = IF Home[u] = d THEN NoImage ELSE image[u]
  BY <1>1, Zenon DEF Died
<1>3. ASSUME NEW u \in Threads, Home[u] = d PROVE Fine(u)'
  BY <1>2, <1>3, IdleFine, Zenon
<1> QED  BY <1>2, <1>3, LookupGoesOn, TallyKept, Zenon DEF IInv

\* A thread that goes on in dbt_db_set keeps hl_mutex and the record it sets.
LEMMA MoveTally ==
  ASSUME IInv, Tally, NEW t \in Threads, NEW p \in Inside, Goto(t, p), up' = up,
         image' = image, CallersFollow, at[t] # "idle", Holding', Exact', Apart(Home[t]),
         p \in Open => tx'[Home[t]],
         p \in Open \cup {"hack"} => Home[t] \notin wedged,
         wedged' = wedged, Committed' = Committed, inserter' = inserter,
         p = "update" => writer' # Home[t],
         p = "insert" /\ writer' = Home[t] => row' = NoRow /\ before' = NoRow,
         p = "commit" =>
           /\ writer' = Home[t]
           /\ row' = IF before' # NoRow /\ image[t].diff THEN before' + 1 ELSE 1
  PROVE  Tally'
<1>1. doing' = doing
  BY FollowMove, Zenon
<1>2. \A u \in Threads : at'[u] = IF u = t THEN p ELSE at[u]
  BY Zenon DEF Goto, IInv, Types
<1>3. doing[t] = "set" /\ Home[t] \in Daemons
  BY Constants, Zenon DEF IInv, Control
<1>4. Fine(t)
  BY Zenon DEF Tally
<1>5. Fine(t)'
  <2>1. hl'[Home[t]] = t
    BY <1>1, <1>3, <1>4, LookupGoesOn, Zenon DEF Fine
  <2>2. at'[t] = p /\ image'[t] = image[t] /\ doing'[t] = "set"
    BY <1>1, <1>2, <1>3, Zenon
  <2> QED  BY <1>3, <1>4, <2>1, <2>2, Zenon DEF Fine
<1>6. ASSUME NEW u \in Threads, Home[u] = Home[t] PROVE Fine(u)'
  <2>1. CASE u = t
    BY <1>5, <2>1, Zenon
  <2>2. CASE u # t
    <3>1. at'[u] = "idle" /\ doing'[u] = "idle"
      BY <1>1, <1>2, <1>3, <1>6, <2>2, OneLookup, Zenon
    <3> QED  BY <3>1, IdleFine, Zenon
  <2> QED  BY <2>1, <2>2, Zenon
<1> QED  BY <1>1, <1>2, <1>3, <1>6, LookupGoesOn, TallyKept, Zenon DEF IInv

\* sql_db_set fails.
LEMMA FailTally ==
  ASSUME IInv, Tally, NEW t \in Threads, at[t] \in Open \cup {"hack"}, Fail(t),
         CallersFollow, UNCHANGED history
  PROVE  Tally'
<1>1. Home[t] \in Daemons /\ at[t] \in Inside
  BY Constants DEF Open, Inside, Place
<1>2. Rollback(Home[t]) /\ tx' = [tx EXCEPT ![Home[t]] = FALSE]
  BY Zenon DEF Fail, Rollback
<1>3. Home[t] \notin wedged
  BY Zenon DEF Tally, Fine
<1>4. wedged' = wedged \ {Home[t]}
  <2>1. wedged = wedged \ {Home[t]}
    BY <1>3
  <2> QED  BY <2>1, Zenon DEF Fail, Gone
<1>5. Holding' /\ Exact' /\ Apart(Home[t])
  BY <1>1, <1>2, <1>4, RollbackTally, Zenon DEF IInv
<1>6. CASE fatal
  BY <1>1, <1>2, <1>5, <1>6, GoneTally, Zenon DEF Fail
<1>7. CASE ~ fatal
  BY <1>1, <1>5, <1>7, ReturnTally, Zenon DEF Fail
<1> QED  BY <1>6, <1>7

\* BEGIN, COMMIT or INSERT fails.
LEMMA FailAtBeginTally ==
  ASSUME IInv, Tally, NEW t \in Threads, at[t] = "begin", FailAtBegin(t), CallersFollow,
         UNCHANGED history
  PROVE  Tally'
<1>1. Home[t] \in Daemons /\ at[t] \in Inside
  BY Constants, Zenon DEF Inside, Place
<1>2. CASE fatal
  <2>1. /\ Rollback(Home[t]) /\ Gone(Home[t]) /\ wedged' = wedged \ {Home[t]}
        /\ tx' = [tx EXCEPT ![Home[t]] = FALSE]
    BY <1>2, Zenon DEF FailAtBegin, Rollback, Gone
  <2>2. Holding' /\ Exact' /\ Apart(Home[t])
    BY <1>1, <2>1, RollbackTally, Zenon DEF IInv
  <2> QED  BY <1>1, <2>1, <2>2, GoneTally, Zenon
<1>3. CASE ~ fatal
  <2>1. Return(t, FALSE) /\ UNCHANGED <<database, wedged>>
    BY <1>3, Zenon DEF FailAtBegin
  <2>2. Holding' /\ Exact' /\ Apart(Home[t])
    BY <1>1, <2>1, StillTally, Zenon DEF IInv, database
  <2> QED  BY <1>1, <2>1, <2>2, ReturnTally, Zenon
<1> QED  BY <1>2, <1>3

LEMMA FailAtCommitTally ==
  ASSUME IInv, Tally, NEW t \in Threads, at[t] = "commit", FailAtCommit(t), CallersFollow,
         UNCHANGED history
  PROVE  Tally'
<1>1. Home[t] \in Daemons /\ at[t] \in Inside /\ at[t] \in Open
  BY Constants DEF Inside, Place, Open
<1>2. CASE engine = "sqlite3" /\ ~ fatal
  <2>1. Return(t, FALSE) /\ wedged' = wedged \cup {Home[t]} /\ UNCHANGED database
    BY <1>2, Zenon DEF FailAtCommit
  <2>2. tx[Home[t]]
    BY <1>1, Zenon DEF Tally, Fine
  <2>3. Holding' /\ Exact' /\ Apart(Home[t])
    BY <1>1, <2>1, <2>2, StillTally, Zenon DEF IInv, database
  <2> QED  BY <1>1, <2>1, <2>3, ReturnTally, Zenon
<1>3. CASE ~ (engine = "sqlite3" /\ ~ fatal)
  BY <1>1, <1>3, FailTally, Zenon DEF FailAtCommit
<1> QED  BY <1>2, <1>3

LEMMA FailAtInsertTally ==
  ASSUME IInv, Tally, NEW t \in Threads, at[t] = "insert", FailAtInsert(t), CallersFollow,
         UNCHANGED history
  PROVE  Tally'
<1>1. /\ Home[t] \in Daemons /\ at[t] \in Open /\ at[t] # "idle"
      /\ "hack" \in Inside /\ "hack" \notin Open
  BY Constants DEF Inside, Place, Open
<1>2. CASE fatal
  <2>1. /\ Rollback(Home[t]) /\ Goto(t, "hack") /\ up' = up /\ image' = image /\ wedged' = wedged
    BY <1>2, Zenon DEF FailAtInsert
  <2>2. Home[t] \notin wedged
    BY <1>1, Zenon DEF Tally, Fine
  <2>3. wedged' = wedged \ {Home[t]}
    BY <2>1, <2>2
  <2>4. Holding' /\ Exact' /\ Apart(Home[t])
    BY <1>1, <2>1, <2>3, RollbackTally, Zenon DEF IInv
  <2>5. Committed' = Committed /\ inserter' = inserter
    <3>1. Home[t] # None
      BY Constants
    <3>2. Committed' = Committed
      BY <2>1, <3>1 DEF Rollback, Committed
    <3> QED  BY <3>2 DEF history
  <2> QED  BY <1>1, <2>1, <2>2, <2>4, <2>5, MoveTally, Zenon
<1>3. CASE ~ fatal
  BY <1>1, <1>3, FailTally, Zenon DEF FailAtInsert
<1> QED  BY <1>2, <1>3

\* BEGIN, UPDATE and INSERT, the hack and their failures keep the tally.
LEMMA SetStepTally ==
  ASSUME IInv, Tally, NEW t \in Threads, SetStep(t), CallersFollow, UNCHANGED history
  PROVE  Tally'
<1> DEFINE d == Home[t]
<1>1. d \in Daemons /\ d # None
  BY Constants
<1>2. /\ {"begin", "update", "insert", "commit", "hack"} \subseteq Inside
      /\ {"update", "insert", "commit"} = Open /\ "begin" \notin Open \cup {"hack"}
  BY DEF Inside, Place, Open
<1>3. Fine(t) /\ Holding /\ Types
  BY Zenon DEF Tally, IInv
<1>4. inserter' = inserter
  BY DEF history
<1>5. CASE Lock(t)
  <2>1. /\ at[t] = "wait" /\ Goto(t, "begin") /\ up' = up /\ image' = image /\ tx' = tx
        /\ row' = row /\ writer' = writer /\ before' = before /\ wedged' = wedged
    BY <1>5, Zenon DEF Lock, At, database
  <2>2. Holding' /\ Exact' /\ Apart(d)
    BY <1>1, <1>3, <2>1, StillTally, Zenon
  <2>3. Committed' = Committed
    BY <2>1, Zenon DEF Committed
  <2> QED  BY <1>2, <1>4, <2>1, <2>2, <2>3, MoveTally
<1>6. CASE Begin(t)
  <2>1. CASE tx[d]
    BY <1>6, <2>1, FailAtBeginTally, Zenon DEF Begin, At
  <2>2. CASE ~ tx[d]
    <3>1. /\ at[t] = "begin" /\ Goto(t, "update") /\ up' = up /\ image' = image
          /\ row' = row /\ writer' = writer /\ before' = before /\ wedged' = wedged
          /\ tx' = [tx EXCEPT ![d] = TRUE]
      BY <1>6, <2>2, Zenon DEF Begin, At
    <3>2. \A e \in Daemons : tx'[e] = IF e = d THEN TRUE ELSE tx[e]
      BY <1>3, <3>1, Zenon DEF Types
    <3>3. Holding' /\ Exact' /\ Apart(d)
      BY <1>1, <1>3, <3>1, <3>2, StillTally, Zenon
    <3>4. Committed' = Committed
      BY <3>1, Zenon DEF Committed
    <3>5. writer # d /\ d \notin wedged
      BY <1>1, <1>3, <2>2, Zenon DEF Holding
    <3> QED  BY <1>1, <1>2, <1>4, <3>1, <3>2, <3>3, <3>4, <3>5, MoveTally, Zenon
  <2> QED  BY <2>1, <2>2
<1>7. CASE Update(t)
  <2>1. /\ at[t] = "update" /\ Goto(t, "commit") /\ up' = up /\ image' = image /\ wedged' = wedged
        /\ tx' = tx /\ row # NoRow /\ ~ Blocked(d) /\ Write(d, Updated(row, image[t]))
    BY <1>7, Zenon DEF Update, At
  <2>2. tx[d] /\ d \notin wedged /\ writer # d
    BY <1>2, <1>3, <2>1, Zenon DEF Fine
  <2>3. Holding' /\ Exact' /\ Apart(d)
    BY <1>1, <1>3, <2>1, <2>2, WriteTally, Zenon
  <2>4. writer' = d /\ before' = row /\ row' = Updated(row, image[t])
    BY <2>1, <2>2, Zenon DEF Write
  <2>5. Committed' = Committed
    BY <1>1, <2>1, <2>2, <2>4, Zenon DEF Committed, Blocked
  <2>6. image[t].value = 1
    BY <1>3, <2>1, Zenon DEF Fine, IInv, Control
  <2>7. row' = IF before' # NoRow /\ image[t].diff THEN before' + 1 ELSE 1
    BY <2>1, <2>4, <2>6, Zenon DEF Updated
  <2> QED  BY <1>2, <1>4, <2>1, <2>2, <2>3, <2>4, <2>5, <2>7, MoveTally, Zenon
<1>8. CASE UpdateNothing(t)
  <2>1. /\ at[t] = "update" /\ Goto(t, "insert") /\ up' = up /\ image' = image /\ wedged' = wedged
        /\ tx' = tx /\ Visible(d) = NoRow /\ (Blocked(d) => engine = "postgresql")
        /\ IF engine = "sqlite3" THEN Write(d, row) ELSE UNCHANGED <<row, writer, before>>
    BY <1>8, Zenon DEF UpdateNothing, At
  <2>2. tx[d] /\ d \notin wedged /\ writer # d
    BY <1>2, <1>3, <2>1, Zenon DEF Fine
  <2>3. CASE engine = "sqlite3"
    <3>1. ~ Blocked(d) /\ Write(d, row) /\ row = NoRow
      BY <2>1, <2>3, Zenon DEF Visible
    <3>2. Holding' /\ Exact' /\ Apart(d)
      BY <1>1, <1>3, <2>1, <2>2, <3>1, WriteTally, Zenon
    <3>3. writer' = d /\ before' = NoRow /\ row' = NoRow
      BY <2>2, <3>1, Zenon DEF Write
    <3>4. Committed' = Committed
      BY <1>1, <2>2, <3>1, <3>3 DEF Committed, Blocked
    <3> QED  BY <1>2, <1>4, <2>1, <2>2, <3>2, <3>3, <3>4, MoveTally, Zenon
  <2>4. CASE engine # "sqlite3"
    <3>1. row' = row /\ writer' = writer /\ before' = before
      BY <2>1, <2>4, Zenon
    <3>2. Holding' /\ Exact' /\ Apart(d)
      BY <1>1, <1>3, <2>1, <3>1, StillTally, Zenon
    <3>3. Committed' = Committed
      BY <3>1, Zenon DEF Committed
    <3> QED  BY <1>2, <1>4, <2>1, <2>2, <3>1, <3>2, <3>3, MoveTally, Zenon
  <2> QED  BY <2>3, <2>4
<1>9. CASE Insert(t)
  <2>1. /\ at[t] = "insert" /\ Goto(t, "commit") /\ up' = up /\ image' = image /\ wedged' = wedged
        /\ tx' = tx /\ row = NoRow /\ ~ Blocked(d) /\ Write(d, image[t].value)
    BY <1>9, Zenon DEF Insert, At, Inserted
  <2>2. tx[d] /\ d \notin wedged /\ (writer = d => before = NoRow)
    BY <1>2, <1>3, <2>1, Zenon DEF Fine
  <2>3. Holding' /\ Exact' /\ Apart(d)
    BY <1>1, <1>3, <2>1, <2>2, WriteTally, Zenon
  <2>4. writer' = d /\ before' = NoRow /\ row' = image[t].value
    BY <2>1, <2>2, Zenon DEF Write
  <2>5. Committed' = Committed
    BY <1>1, <2>1, <2>2, <2>4, Zenon DEF Committed, Blocked
  <2>6. image[t].value = 1
    BY <1>3, <2>1, Zenon DEF Fine, IInv, Control
  <2> QED  BY <1>2, <1>4, <2>1, <2>2, <2>3, <2>4, <2>5, <2>6, MoveTally, Zenon
<1>10. CASE DuplicateKey(t)
  BY <1>10, FailAtInsertTally, Zenon DEF DuplicateKey, At
<1>11. CASE Busy(t)
  BY <1>2, <1>11, FailTally, Zenon DEF Busy, At
<1>12. CASE EnterHack(t)
  <2>1. CASE hackFailed[d]
    BY <1>2, <1>12, <2>1, FailTally DEF EnterHack, At
  <2>2. CASE ~ hackFailed[d]
    <3>1. /\ at[t] = "hack" /\ Goto(t, "begin") /\ up' = up /\ image' = image /\ tx' = tx
          /\ row' = row /\ writer' = writer /\ before' = before /\ wedged' = wedged
      BY <1>12, <2>2, Zenon DEF EnterHack, At, database
    <3>2. Holding' /\ Exact' /\ Apart(d)
      BY <1>1, <1>3, <3>1, StillTally, Zenon
    <3>3. Committed' = Committed
      BY <3>1, Zenon DEF Committed
    <3> QED  BY <1>2, <1>4, <3>1, <3>2, <3>3, MoveTally, Zenon
  <2> QED  BY <2>1, <2>2
<1> QED  BY <1>5, <1>6, <1>7, <1>8, <1>9, <1>10, <1>11, <1>12, Zenon DEF SetStep

\* COMMIT, heard or not, keeps the tally.
LEMMA StoreTally ==
  ASSUME IInv, Tally, Adding, NEW t \in Threads, Store(t)
  PROVE  Tally'
<1>1. Home[t] \in Daemons /\ "commit" \in Inside /\ "commit" \in Open
  BY Constants DEF Inside, Place, Open
<1>2. at[t] = "commit" => Home[t] \notin wedged
  BY <1>1, Zenon DEF Tally, Fine
<1>3. CASE CommitSet(t) /\ Remember(t, before) /\ CallersFollow
  <2>1. at[t] = "commit" /\ Commit(Home[t]) /\ Return(t, TRUE) /\ wedged' = wedged
    BY <1>3, Zenon DEF CommitSet, At
  <2>2. wedged' = wedged \ {Home[t]}
    BY <1>2, <2>1
  <2>3. Holding' /\ Exact' /\ Apart(Home[t])
    BY <1>3, <2>1, <2>2, CommitTally, Zenon
  <2> QED  BY <1>1, <1>3, <2>1, <2>3, ReturnTally, Zenon
<1>4. CASE CommitUnheard(t) /\ Remember(t, before) /\ CallersFollow
  <2>1. /\ at[t] = "commit" /\ Commit(Home[t]) /\ tx' = [tx EXCEPT ![Home[t]] = FALSE]
        /\ IF fatal THEN Gone(Home[t]) ELSE Return(t, FALSE) /\ UNCHANGED wedged
    BY <1>4, Zenon DEF CommitUnheard, At, Commit
  <2>2. wedged' = wedged \ {Home[t]}
    <3>1. wedged = wedged \ {Home[t]}
      BY <1>2, <2>1
    <3> QED  BY <2>1, <3>1, Zenon DEF Gone
  <2>3. Holding' /\ Exact' /\ Apart(Home[t])
    BY <1>4, <2>1, <2>2, CommitTally, Zenon
  <2>4. CASE fatal
    BY <1>1, <1>4, <2>1, <2>3, <2>4, GoneTally, Zenon
  <2>5. CASE ~ fatal
    BY <1>1, <1>4, <2>1, <2>3, <2>5, ReturnTally, Zenon
  <2> QED  BY <2>4, <2>5
<1>5. CASE SetStep(t) /\ CallersFollow /\ UNCHANGED history
  BY <1>5, SetStepTally, Zenon
<1>6. ~ Upsert(t)
  BY Zenon DEF Upsert, Adding, Transactional
<1> QED  BY <1>3, <1>4, <1>5, <1>6, Zenon DEF Store

\* hl_mutex is held by a thread or by nobody.
LookupType == hl \in [Daemons -> Threads \cup {None}]

LEMMA LookupTypeKept == LookupType /\ [Next]_storevars => LookupType'
<1> SUFFICES ASSUME LookupType, [Next]_storevars PROVE LookupType'
  OBVIOUS
<1>1. ASSUME CallersFollow PROVE LookupType'
  BY <1>1, Zenon DEF CallersFollow, LookupType
<1>2. ASSUME NEW t \in Threads, Leave(t) PROVE LookupType'
  BY <1>2, Zenon DEF Leave, LookupType
<1>3. ASSUME NEW t \in Threads, Call(t) PROVE LookupType'
  <2>1. CASE Enter(t)
    BY <2>1, Zenon DEF Enter, LookupType
  <2>2. CASE Get(t) \/ LookOnly(t)
    BY <1>2, <2>2, Zenon DEF Get, LookOnly, LookupType
  <2> QED  BY <1>3, <2>1, <2>2, Zenon DEF Call
<1>4. ASSUME NEW t \in Threads, GetFails(t) \/ Store(t) \/ Fails(t) PROVE LookupType'
  BY <1>1, <1>2, <1>4, Zenon DEF GetFails, Store, Fails
<1>5. ASSUME NEW d \in Daemons, Expire(d) \/ Crashes(d) \/ Starts(d) PROVE LookupType'
  BY <1>1, <1>5, Zenon DEF Expire, Crashes, Starts, callers, LookupType
<1>6. CASE UNCHANGED storevars
  BY <1>6, Zenon DEF storevars, callers, LookupType
<1> QED  BY <1>3, <1>4, <1>5, <1>6, Zenon DEF Next

\* A lookup begins, with no other of its daemon under way.
LEMMA EnterTally ==
  ASSUME IInv, Tally, LookupType, Adding, NEW t \in Threads, Enter(t)
  PROVE  Tally'
<1> DEFINE d == Home[t]
<1>1. d \in Daemons
  BY Constants
<1>2. /\ at[t] = "idle" /\ hl[d] = None /\ hl' = [hl EXCEPT ![d] = t]
      /\ doing' = [doing EXCEPT ![t] = "get"]
      /\ UNCHANGED sqlvars /\ UNCHANGED history
  BY Zenon DEF Enter, Adding
<1>3. /\ at' = at /\ image' = image /\ tx' = tx /\ wedged' = wedged
      /\ row' = row /\ writer' = writer /\ before' = before
  BY <1>2, Zenon DEF sqlvars, setting, database
<1>4. \A u \in Threads : doing'[u] = IF u = t THEN "get" ELSE doing[u]
  BY <1>2, Zenon DEF IInv, Types
<1>5. \A e \in Daemons : hl'[e] = IF e = d THEN t ELSE hl[e]
  BY <1>2 DEF LookupType
<1>6. Holding' /\ Exact' /\ Apart(d)
  BY <1>1, <1>2, <1>3, StillTally, Zenon DEF IInv
<1>7. ASSUME NEW u \in Threads, Home[u] = d, u # t PROVE Fine(u)'
  <2>1. doing[u] = "idle"
    BY <1>2, <1>7, Constants, Zenon DEF Tally, Fine
  <2>2. at[u] = "idle"
    BY <2>1, Zenon DEF IInv, Control
  <2> QED  BY <1>3, <1>4, <1>7, <2>1, <2>2, IdleFine, Zenon
<1>8. Fine(t)'
  <2>1. at'[t] = "idle" /\ doing'[t] = "get" /\ hl'[d] = t
    BY <1>1, <1>2, <1>3, <1>4, <1>5, Zenon
  <2> QED  BY <2>1, Zenon DEF Fine, Open
<1>9. ASSUME NEW u \in Threads, Home[u] = d PROVE Fine(u)'
  BY <1>7, <1>8, <1>9, Zenon
<1>10. ASSUME NEW u \in Threads, Home[u] # d
       PROVE  /\ at'[u] = at[u] /\ doing'[u] = doing[u] /\ image'[u] = image[u]
              /\ hl'[Home[u]] = hl[Home[u]]
  BY <1>3, <1>4, <1>5, <1>10, Constants, Zenon
<1> QED  BY <1>1, <1>6, <1>9, <1>10, TallyKept, Zenon DEF IInv

\* The record is read: no row means that none is committed, unless a COMMIT of the
\* daemon has failed, and then it will not commit another.
LEMMA GetTally ==
  ASSUME IInv, Tally, Adding, NEW t \in Threads, Get(t)
  PROVE  Tally'
<1> DEFINE d == Home[t]
           im == HitlistRecord(Visible(d))
<1>1. d \in Daemons /\ d # None
  BY Constants
<1>2. /\ doing[t] = "get" /\ lock[d] = None /\ Goto(t, "wait") /\ hl' = hl
      /\ image' = [image EXCEPT ![t] = im] /\ doing' = [doing EXCEPT ![t] = "set"]
      /\ UNCHANGED database /\ wedged' = wedged /\ UNCHANGED history
  BY Zenon DEF Get, Request, ToSet, Adding
<1>3. tx' = tx /\ row' = row /\ writer' = writer /\ before' = before
  BY <1>2, Zenon DEF database
<1>4. \A u \in Threads : /\ doing'[u] = IF u = t THEN "set" ELSE doing[u]
                         /\ at'[u] = IF u = t THEN "wait" ELSE at[u]
                         /\ image'[u] = IF u = t THEN im ELSE image[u]
  BY <1>2, Zenon DEF Goto, IInv, Types
<1>5. Holding' /\ Exact' /\ Apart(d)
  BY <1>1, <1>2, <1>3, StillTally, Zenon DEF IInv
<1>6. im.value = 1 /\ (~ im.diff => Visible(d) = NoRow)
  BY DEF HitlistRecord, Adding
<1>7. Visible(d) = NoRow /\ d \notin wedged => Committed = NoRow
  <2> SUFFICES ASSUME Visible(d) = NoRow, d \notin wedged, writer = d PROVE FALSE
    BY <1>1 DEF Visible, Blocked, Committed
  <2>1. tx[d]
    BY <1>1, Zenon DEF Tally, Holding
  <2>2. TransactionsEnd
    BY Zenon DEF IInv, Control
  <2>3. lock[d] # None
    BY <1>1, <2>1, <2>2 DEF TransactionsEnd
  <2> QED  BY <2>3, Zenon DEF Get
<1>8. hl[d] = t
  BY <1>2, Zenon DEF Tally, Fine
<1>9. Committed' = Committed
  BY <1>3, Zenon DEF Committed
<1>10. Fine(t)'
  <2> HIDE DEF im
  <2>1. at'[t] = "wait" /\ doing'[t] = "set" /\ image'[t] = im
    BY <1>4, Zenon
  <2>2. "wait" \notin Open \cup {"hack"}
    BY DEF Open
  <2>3. hl'[d] = t /\ wedged' = wedged /\ (~ im.diff /\ d \notin wedged => Committed' = NoRow)
    BY <1>2, <1>6, <1>7, <1>8, <1>9, Zenon
  <2> QED  BY <1>6, <2>1, <2>2, <2>3, Zenon DEF Fine, Open
<1>11. ASSUME NEW u \in Threads, Home[u] = d PROVE Fine(u)'
  <2>1. CASE u = t
    BY <1>10, <2>1, Zenon
  <2>2. CASE u # t
    <3>1. at[u] = "idle" /\ doing[u] = "idle"
      BY <1>2, <1>11, <2>2, OneLookup, Zenon
    <3> QED  BY <1>4, <2>2, <3>1, IdleFine, Zenon
  <2> QED  BY <2>1, <2>2
<1>12. ASSUME NEW u \in Threads, Home[u] # d
       PROVE  /\ at'[u] = at[u] /\ doing'[u] = doing[u] /\ image'[u] = image[u]
              /\ hl'[Home[u]] = hl[Home[u]]
  <2> HIDE DEF im
  <2>1. u # t
    BY <1>12
  <2> QED  BY <1>2, <1>4, <2>1, Zenon
<1> QED  BY <1>1, <1>5, <1>11, <1>12, TallyKept, Zenon DEF IInv

\* A lookup ends without a set.
LEMMA LeaveTally ==
  ASSUME IInv, Tally, LookupType, NEW t \in Threads, doing[t] = "get", Leave(t),
         UNCHANGED <<database, mutexes, up, setting, wedged>>, UNCHANGED history
  PROVE  Tally'
<1> DEFINE d == Home[t]
<1>1. d \in Daemons
  BY Constants, Zenon
<1>2. /\ at' = at /\ image' = image /\ tx' = tx /\ wedged' = wedged
      /\ row' = row /\ writer' = writer /\ before' = before
  BY Zenon DEF setting, database
<1>3. \A u \in Threads : doing'[u] = IF u = t THEN "idle" ELSE doing[u]
  BY Zenon DEF Leave, IInv, Types
<1>4. \A e \in Daemons \ {d} : hl'[e] = hl[e]
  BY DEF Leave, LookupType
<1>5. Holding' /\ Exact' /\ Apart(d)
  BY <1>1, <1>2, StillTally, Zenon DEF IInv
<1>6. at[t] = "idle"
  BY Zenon DEF IInv, Control
<1>7. ASSUME NEW u \in Threads, Home[u] = d PROVE Fine(u)'
  <2>1. at'[u] = "idle" /\ doing'[u] = "idle"
    <3>1. CASE u = t
      BY <1>2, <1>3, <1>6, <3>1, Zenon
    <3>2. CASE u # t
      <4>1. at[u] = "idle" /\ doing[u] = "idle"
        BY <1>7, <3>2, OneLookup
      <4> QED  BY <1>2, <1>3, <3>2, <4>1, Zenon
    <3> QED  BY <3>1, <3>2
  <2> QED  BY <2>1, IdleFine, Zenon
<1>8. ASSUME NEW u \in Threads, Home[u] # d
      PROVE  /\ at'[u] = at[u] /\ doing'[u] = doing[u] /\ image'[u] = image[u]
             /\ hl'[Home[u]] = hl[Home[u]]
  BY <1>2, <1>3, <1>4, <1>8, Constants, Zenon
<1> QED  BY <1>1, <1>5, <1>7, <1>8, TallyKept, Zenon DEF IInv

\* dbt_db_expire deletes the row, or does so in a transaction that is never committed.
LEMMA ExpireTally ==
  ASSUME IInv, Tally, NEW d \in Daemons, Expire(d)
  PROVE  Tally'
<1>1. /\ lock[d] = None /\ ~ Blocked(d) /\ tx' = tx /\ wedged' = wedged
      /\ UNCHANGED callers /\ UNCHANGED setting /\ UNCHANGED history
      /\ IF tx[d] THEN Write(d, NoRow) ELSE row' = NoRow /\ UNCHANGED <<writer, before>>
  BY Zenon DEF Expire
<1>2. at' = at /\ image' = image /\ doing' = doing /\ hl' = hl
  BY <1>1, Zenon DEF callers, setting
<1>3. inserter' = inserter /\ acks' = acks /\ overwritten' = overwritten
  BY <1>1, Zenon DEF history
<1>4. ASSUME NEW u \in Threads, Home[u] = d PROVE at[u] \notin Open \cup {"hack"}
  <2>1. at[u] \notin Inside
    BY <1>1, <1>4, Constants, Zenon DEF IInv, Control
  <2> QED  BY <2>1 DEF Inside, Place, Open
<1>5. ASSUME Holding', Exact', Apart(d), d \in wedged \/ Committed' = NoRow PROVE Tally'
  <2>1. ASSUME NEW u \in Threads, Home[u] = d PROVE Fine(u)'
    <3>1. at'[u] \notin Open \cup {"hack"} /\ Fine(u)
      BY <1>2, <1>4, <2>1, Zenon DEF Tally
    <3>2. at'[u] \notin {"update", "insert", "commit"}
      BY <3>1 DEF Open
    <3> QED  BY <1>1, <1>2, <1>5, <2>1, <3>1, <3>2, Zenon DEF Fine
  <2> QED  BY <1>2, <1>5, <2>1, TallyKept, Zenon DEF IInv
<1>6. CASE tx[d]
  <2>1. TransactionsEnd
    BY DEF IInv, Control
  <2>2. d \in wedged
    BY <1>1, <1>6, <2>1 DEF TransactionsEnd
  <2>3. Holding' /\ Exact' /\ Apart(d)
    BY <1>1, <1>6, WriteTally, Zenon DEF IInv
  <2> QED  BY <1>5, <2>2, <2>3
<1>7. CASE ~ tx[d]
  <2>1. writer = None /\ writer' = None /\ row' = NoRow /\ before' = before
    BY <1>1, <1>7, Zenon DEF Tally, Holding, Blocked
  <2>2. Committed' = NoRow
    BY <2>1 DEF Committed
  <2>3. Holding' /\ Exact'
    BY <1>1, <2>1, <2>2, Zenon DEF Tally, Holding, Exact
  <2>4. \A e \in Daemons \ {d} : writer # e
    BY <2>1, Constants
  <2>5. Apart(d)
    BY <1>1, <2>1, <2>2, <2>4, Zenon DEF Apart
  <2> QED  BY <1>5, <2>2, <2>3, <2>5
<1> QED  BY <1>6, <1>7

\* A step that touches nothing the tally is about.
LEMMA TallySame ==
  ASSUME Tally, UNCHANGED <<database, setting, wedged, hl, doing, history>>
  PROVE  Tally'
<1>1. /\ at' = at /\ image' = image /\ doing' = doing /\ hl' = hl /\ tx' = tx
      /\ wedged' = wedged /\ row' = row /\ writer' = writer /\ before' = before
      /\ inserter' = inserter /\ acks' = acks /\ overwritten' = overwritten
  BY Zenon DEF database, setting, history
<1>2. Committed' = Committed
  BY <1>1, Zenon DEF Committed
<1>3. Holding' /\ Exact'
  BY <1>1, <1>2, Zenon DEF Tally, Holding, Exact
<1>4. ASSUME NEW t \in Threads PROVE Fine(t)'
  BY <1>1, <1>2, Zenon DEF Tally, Fine
<1> QED  BY <1>3, <1>4, Zenon DEF Tally

\* A daemon dies with its transaction rolled back.
LEMMA DiesTally ==
  ASSUME IInv, Tally, NEW d \in Daemons, Rollback(d), Gone(d), CallersFollow,
         UNCHANGED history
  PROVE  Tally'
<1>1. tx' = [tx EXCEPT ![d] = FALSE] /\ wedged' = wedged \ {d}
  BY Zenon DEF Rollback, Gone
<1>2. Holding' /\ Exact' /\ Apart(d)
  BY <1>1, RollbackTally, Zenon DEF IInv
<1> QED  BY <1>1, <1>2, GoneTally, Zenon

\* The driver and the kind of table are chosen once.
LEMMA AddingKept == [Next]_storevars => Adding' = Adding
<1> SUFFICES ASSUME [Next]_storevars PROVE kind' = kind /\ engine' = engine
  BY Zenon DEF Adding
<1>1. ASSUME CallersFollow PROVE kind' = kind
  BY <1>1, Zenon DEF CallersFollow
<1>2. ASSUME UNCHANGED sqlvars PROVE engine' = engine
  BY <1>2, Zenon DEF sqlvars, config
<1>3. ASSUME UNCHANGED config PROVE engine' = engine
  BY <1>3, Zenon DEF config
<1>4. ASSUME NEW t \in Threads, Call(t) PROVE kind' = kind /\ engine' = engine
  BY <1>2, <1>3, <1>4, Zenon DEF Call, Enter, Get, Request, LookOnly, Leave
<1>5. ASSUME NEW t \in Threads, GetFails(t) PROVE kind' = kind /\ engine' = engine
  BY <1>1, <1>3, <1>5, Zenon DEF GetFails, Leave
<1>6. ASSUME NEW t \in Threads, SetStep(t) PROVE engine' = engine
  BY <1>3, <1>6, Zenon DEF SetStep, Lock, Begin, Update, UpdateNothing, Insert,
     DuplicateKey, Busy, EnterHack
<1>7. ASSUME NEW t \in Threads, Store(t) PROVE kind' = kind /\ engine' = engine
  BY <1>1, <1>3, <1>6, <1>7, Zenon DEF Store, CommitSet, CommitUnheard, Upsert
<1>8. ASSUME NEW t \in Threads, Fails(t) PROVE kind' = kind /\ engine' = engine
  BY <1>1, <1>3, <1>8, Zenon DEF Fails, StatementFails
<1>9. ASSUME NEW d \in Daemons, Expire(d) \/ Crashes(d) \/ Starts(d)
      PROVE  kind' = kind /\ engine' = engine
  BY <1>1, <1>3, <1>9, Zenon DEF Expire, Crashes, Crash, Starts, Start, callers
<1>10. CASE UNCHANGED storevars
  BY <1>2, <1>10, Zenon DEF storevars, callers
<1> QED  BY <1>4, <1>5, <1>7, <1>8, <1>9, <1>10, Zenon DEF Next

\* Every step keeps the tally of a hitlist whose database adds.
LEMMA TallyStep ==
  ASSUME IInv, LookupType, Adding => Tally, [Next]_storevars
  PROVE  (Adding => Tally)'
<1> SUFFICES ASSUME Adding, Tally PROVE Tally'
  BY AddingKept, Zenon
<1>1. ASSUME NEW t \in Threads, Call(t) PROVE Tally'
  <2>1. CASE LookOnly(t)
    BY <2>1, LeaveTally, Zenon DEF LookOnly, sqlvars
  <2> QED  BY <1>1, <2>1, EnterTally, GetTally, Zenon DEF Call
<1>2. ASSUME NEW t \in Threads, GetFails(t) PROVE Tally'
  <2>1. CASE fatal
    BY <1>2, <2>1, DiesTally, Constants, Zenon DEF GetFails
  <2>2. CASE ~ fatal
    BY <1>2, <2>2, LeaveTally, Zenon DEF GetFails
  <2> QED  BY <2>1, <2>2
<1>3. ASSUME NEW t \in Threads, Fails(t) PROVE Tally'
  <2>1. CallersFollow /\ UNCHANGED history
    BY <1>3, Zenon DEF Fails
  <2>2. CASE At(t, "begin") /\ FailAtBegin(t)
    BY <2>1, <2>2, FailAtBeginTally, Zenon DEF At
  <2>3. CASE At(t, "update") /\ Fail(t)
    <3>1. at[t] \in Open \cup {"hack"}
      BY <2>3 DEF At, Open
    <3> QED  BY <2>1, <2>3, <3>1, FailTally, Zenon
  <2>4. CASE At(t, "insert") /\ FailAtInsert(t)
    BY <2>1, <2>4, FailAtInsertTally, Zenon DEF At
  <2>5. CASE At(t, "commit") /\ FailAtCommit(t)
    BY <2>1, <2>5, FailAtCommitTally, Zenon DEF At
  <2> QED  BY <1>3, <2>2, <2>3, <2>4, <2>5, Zenon DEF Fails, StatementFails
<1>4. ASSUME NEW d \in Daemons, Crashes(d) PROVE Tally'
  BY <1>4, DiesTally, Zenon DEF Crashes, Crash
<1>5. ASSUME NEW d \in Daemons, Starts(d) PROVE Tally'
  BY <1>5, TallySame, Zenon DEF Starts, Start, callers
<1>6. CASE UNCHANGED storevars
  BY <1>6, TallySame, Zenon DEF storevars, sqlvars, callers
<1> QED  BY <1>1, <1>2, <1>3, <1>4, <1>5, <1>6, StoreTally, ExpireTally, Zenon DEF Next

\* A hitlist on an SQL database counts exactly the lookups whose set was committed
\* since its row was inserted, for any number of daemons and threads, unless a daemon
\* that had read no row replaced the value of another's: no lookup is lost and none
\* counted twice, through failed statements, refused COMMITs, crashes and deletions.
THEOREM HitsAreExact == Spec => []HitsExact
<1>1. Init => LookupType /\ (Adding => Tally)
  <2> SUFFICES ASSUME Init PROVE LookupType /\ Tally
    OBVIOUS
  <2> USE DEF Init, SqlInit
  <2>1. LookupType
    BY DEF LookupType
  <2>2. Holding /\ Exact
    BY DEF Holding, Exact, Committed
  <2>3. ASSUME NEW t \in Threads PROVE Fine(t)
    BY Zenon DEF Fine, Open
  <2> QED  BY <2>1, <2>2, <2>3 DEF Tally
<1>2. (Adding => Tally) => HitsExact
  BY Zenon DEF Adding, Tally, Exact, HitsExact
<1>3. IInv /\ LookupType /\ (Adding => Tally) /\ [Next]_storevars => (Adding => Tally)'
  BY TallyStep
<1> QED  BY <1>1, <1>2, <1>3, LookupTypeKept, Inductive, PTL DEF Spec
=============================================================================
