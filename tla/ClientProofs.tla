---------------------------- MODULE ClientProofs ----------------------------
(***************************************************************************)
(* For any number of peers, threads and records, and whatever records are  *)
(* too large to be sent: no peer loses a record or gets one twice          *)
(* (NothingLost), and each gets its records in order (InOrder).            *)
(***************************************************************************)
EXTENDS Client, SequenceTheorems, TLAPS

Increasing(q) == \A i, j \in 1..Len(q) : i < j => q[i] < q[j]

\* The elements of a sequence.
In(q) == {q[i] : i \in 1..Len(q)}

PeerType == [open: BOOLEAN, backlog: Seq(Nat), sent: Seq(Nat)]

\* Peer p accounts for the records 1..n.  A backlog waits for the connection and is newer
\* than all that was sent, unless it begins with a record that can never be sent: such a
\* backlog is overtaken, but never sent either.
Good(p, n) ==
  /\ p \in PeerType
  /\ Increasing(p.sent) /\ Increasing(p.backlog)
  /\ In(p.sent) \cup In(p.backlog) = 1..n
  /\ In(p.sent) \cap In(p.backlog) = {}
  /\ p.backlog # <<>> =>
       \/ p.backlog[1] \in Oversized
       \/ ~ p.open /\ \A r \in In(p.sent) : r < p.backlog[1]

(***************************************************************************)
(* Sequences                                                               *)
(***************************************************************************)

\* A record newer than all others may be appended.
LEMMA AppendIncreasing ==
  ASSUME NEW q \in Seq(Nat), NEW n \in Nat, Increasing(q), \A r \in In(q) : r < n
  PROVE  /\ Append(q, n) \in Seq(Nat)
         /\ Increasing(Append(q, n))
         /\ In(Append(q, n)) = In(q) \cup {n}
         /\ Append(q, n) # <<>>
         /\ q # <<>> => Append(q, n)[1] = q[1]
         /\ q = <<>> => Append(q, n)[1] = n
<1> DEFINE a == Append(q, n)
<1>1. /\ a \in Seq(Nat) /\ a # <<>> /\ Len(a) = Len(q) + 1
      /\ \A i \in 1..Len(q) : a[i] = q[i]
      /\ a[Len(q) + 1] = n
  BY AppendProperties
<1>2. Len(q) \in Nat /\ (q = <<>> => Len(q) = 0) /\ (q # <<>> => Len(q) # 0)
  BY LenProperties, EmptySeq
<1>3. \A i \in 1..Len(q) : q[i] \in Nat
  BY ElementOfSeq
<1> HIDE DEF a
<1>4. Increasing(a)
  <2>1. ASSUME NEW i \in 1..Len(a), NEW j \in 1..Len(a), i < j
        PROVE  a[i] < a[j]
    <3>1. i \in 1..Len(q) /\ q[i] \in In(q) /\ a[i] = q[i]
      <4>1. i \in 1..Len(q)
        BY <1>1, <1>2, <2>1
      <4> QED  BY <1>1, <4>1 DEF In
    <3>2. CASE j \in 1..Len(q)
      BY <1>1, <2>1, <3>1, <3>2 DEF Increasing
    <3>3. CASE j = Len(q) + 1
      BY <1>1, <3>1, <3>3
    <3> QED  BY <1>1, <1>2, <3>2, <3>3
  <2> QED  BY <2>1 DEF Increasing
<1>5. In(a) = In(q) \cup {n}
  <2>1. 1..Len(a) = (1..Len(q)) \cup {Len(q) + 1}
    BY <1>1, <1>2
  <2>2. In(a) = {a[i] : i \in 1..Len(q)} \cup {a[Len(q) + 1]}
    BY <2>1 DEF In
  <2>3. {a[i] : i \in 1..Len(q)} = In(q)
    BY <1>1 DEF In
  <2> QED  BY <1>1, <2>2, <2>3
<1> QED  BY <1>1, <1>2, <1>4, <1>5 DEF a

\* A queue cut in two.
LEMMA Cut ==
  ASSUME NEW q \in Seq(Nat), NEW k \in 0..Len(q)
  PROVE  LET head == SubSeq(q, 1, k)
             tail == SubSeq(q, k + 1, Len(q))
         IN  /\ head \in Seq(Nat) /\ Len(head) = k /\ \A i \in 1..k : head[i] = q[i]
             /\ tail \in Seq(Nat) /\ Len(tail) = Len(q) - k
             /\ \A i \in 1..(Len(q) - k) : tail[i] = q[k + i]
<1>1. Len(q) \in Nat
  BY LenProperties
<1>2. \A i \in 1..Len(q) : q[i] \in Nat
  BY ElementOfSeq
<1>3. k \in Int /\ \A i \in 1..k : q[i] \in Nat
  BY <1>1, <1>2
<1>4. /\ SubSeq(q, 1, k) \in Seq(Nat)
      /\ Len(SubSeq(q, 1, k)) = IF 1 <= k THEN k - 1 + 1 ELSE 0
      /\ \A i \in 1..(k - 1 + 1) : SubSeq(q, 1, k)[i] = q[1 + i - 1]
  BY <1>3, SubSeqProperties
<1>5. PICK m \in Int : m = k + 1
  BY <1>3
<1>6. Len(q) \in Int /\ \A i \in m..Len(q) : q[i] \in Nat
  BY <1>1, <1>2, <1>3, <1>5
<1>7. /\ SubSeq(q, m, Len(q)) \in Seq(Nat)
      /\ Len(SubSeq(q, m, Len(q))) = IF m <= Len(q) THEN Len(q) - m + 1 ELSE 0
      /\ \A i \in 1..(Len(q) - m + 1) : SubSeq(q, m, Len(q))[i] = q[m + i - 1]
  BY <1>6, SubSeqProperties
<1>8. Len(SubSeq(q, 1, k)) = k /\ \A i \in 1..k : SubSeq(q, 1, k)[i] = q[i]
  BY <1>1, <1>4
<1>9. /\ Len(SubSeq(q, k + 1, Len(q))) = Len(q) - k
      /\ \A i \in 1..(Len(q) - k) : SubSeq(q, k + 1, Len(q))[i] = q[k + i]
  BY <1>1, <1>5, <1>7
<1> QED  BY <1>4, <1>5, <1>7, <1>8, <1>9

\* Two sequences in a row, the second one newer.
LEMMA ConcatIncreasing ==
  ASSUME NEW p \in Seq(Nat), NEW q \in Seq(Nat), Increasing(p), Increasing(q),
         \A r \in In(p), t \in In(q) : r < t
  PROVE  p \o q \in Seq(Nat) /\ Increasing(p \o q)
<1> DEFINE c == p \o q
<1>1. /\ c \in Seq(Nat) /\ Len(c) = Len(p) + Len(q)
      /\ \A i \in 1..(Len(p) + Len(q)) : c[i] = IF i <= Len(p) THEN p[i] ELSE q[i - Len(p)]
  BY ConcatProperties
<1>2. Len(p) \in Nat /\ Len(q) \in Nat
  BY LenProperties
<1> HIDE DEF c
<1>3. ASSUME NEW i \in 1..Len(c), NEW j \in 1..Len(c), i < j
      PROVE  c[i] < c[j]
  <2>1. CASE j <= Len(p)
    <3>1. i \in 1..Len(p) /\ j \in 1..Len(p)
      BY <1>1, <1>2, <1>3, <2>1
    <3>2. i \in 1..(Len(p) + Len(q)) /\ j \in 1..(Len(p) + Len(q)) /\ i <= Len(p)
      BY <1>1, <1>2, <3>1
    <3>3. c[i] = p[i] /\ c[j] = p[j]
      BY <1>1, <2>1, <3>2
    <3> QED  BY <1>3, <3>1, <3>3 DEF Increasing
  <2>2. CASE i <= Len(p) /\ Len(p) < j
    <3>1. p[i] \in In(p) /\ q[j - Len(p)] \in In(q)
      <4>1. i \in 1..Len(p) /\ j - Len(p) \in 1..Len(q)
        BY <1>1, <1>2, <2>2
      <4> QED  BY <4>1 DEF In
    <3>2. i \in 1..(Len(p) + Len(q)) /\ j \in 1..(Len(p) + Len(q)) /\ ~ (j <= Len(p))
      BY <1>1, <1>2, <2>2
    <3>3. c[i] = p[i] /\ c[j] = q[j - Len(p)]
      BY <1>1, <2>2, <3>2
    <3> QED  BY <3>1, <3>3
  <2>3. CASE Len(p) < i
    <3> DEFINE x == i - Len(p)
               y == j - Len(p)
    <3>1. x \in 1..Len(q) /\ y \in 1..Len(q) /\ x < y /\ c[i] = q[x] /\ c[j] = q[y]
      <4>1. i \in 1..(Len(p) + Len(q)) /\ j \in 1..(Len(p) + Len(q)) /\ Len(p) < i /\ i < j
        BY <1>1, <1>3, <2>3
      <4>2. ~ (i <= Len(p)) /\ ~ (j <= Len(p))
        BY <1>2, <4>1
      <4>3. c[i] = q[x] /\ c[j] = q[y]
        BY <1>1, <4>1, <4>2
      <4>4. x \in 1..Len(q) /\ y \in 1..Len(q) /\ x < y
        BY <1>2, <4>1
      <4> QED  BY <4>3, <4>4
    <3> HIDE DEF x, y
    <3> QED  BY <3>1 DEF Increasing
  <2> QED  BY <1>1, <1>2, <1>3, <2>1, <2>2, <2>3
<1> QED  BY <1>1, <1>3 DEF Increasing, c

\* The elements of two sequences in a row.
LEMMA ConcatIn ==
  ASSUME NEW S, NEW p \in Seq(S), NEW q \in Seq(S)
  PROVE  In(p \o q) = In(p) \cup In(q)
<1> DEFINE c == p \o q
<1>1. /\ Len(c) = Len(p) + Len(q)
      /\ \A i \in 1..(Len(p) + Len(q)) : c[i] = IF i <= Len(p) THEN p[i] ELSE q[i - Len(p)]
  BY ConcatProperties
<1>2. Len(p) \in Nat /\ Len(q) \in Nat
  BY LenProperties
<1> HIDE DEF c
<1>3. \A i \in 1..Len(p) : c[i] = p[i] /\ i \in 1..Len(c)
  BY <1>1, <1>2
<1>4. \A i \in 1..Len(q) : c[Len(p) + i] = q[i] /\ Len(p) + i \in 1..Len(c)
  BY <1>1, <1>2
<1>5. ASSUME NEW i \in 1..Len(c) PROVE c[i] \in In(p) \cup In(q)
  BY <1>1, <1>2 DEF In
<1>6. In(p) \subseteq In(c) /\ In(q) \subseteq In(c)
  BY <1>3, <1>4 DEF In
<1>7. In(c) \subseteq In(p) \cup In(q)
  BY <1>5 DEF In
<1> QED  BY <1>6, <1>7 DEF c

(***************************************************************************)
(* A peer                                                                  *)
(***************************************************************************)

\* client_flush keeps the account: the records it sends are newer than those sent
\* before, and what it leaves is newer still.
LEMMA FlushedGood ==
  ASSUME NEW p, NEW n \in Nat, Good(p, n), ~ p.open,
         NEW x \in Flushed([p EXCEPT !.open = TRUE])
  PROVE  Good(x, n)
<1> DEFINE q == p.backlog
           P == [p EXCEPT !.open = TRUE]
           Head0(k) == SubSeq(q, 1, k)
           Tail0(k) == SubSeq(q, k + 1, Len(q))
<1>1. p \in PeerType /\ q \in Seq(Nat) /\ p.sent \in Seq(Nat)
  BY DEF Good, PeerType
<1>2. P \in PeerType /\ P.open = TRUE /\ P.backlog = q /\ P.sent = p.sent
  BY <1>1 DEF PeerType
<1> HIDE DEF P
<1>3. PICK k \in Sendable(q) :
        x = IF k + 1 \in Sendable(q)
            THEN Broken([P EXCEPT !.backlog = Tail0(k), !.sent = @ \o Head0(k)])
            ELSE [P EXCEPT !.backlog = Tail0(k), !.sent = @ \o Head0(k)]
  BY <1>2 DEF Flushed, P
<1> DEFINE h == Head0(k)
           t == Tail0(k)
<1>4. k \in 0..Len(q) /\ Len(q) \in Nat /\ \A i \in 1..k : q[i] \notin Oversized
  BY <1>1, LenProperties DEF Sendable
<1>5. /\ h \in Seq(Nat) /\ Len(h) = k /\ \A i \in 1..k : h[i] = q[i]
      /\ t \in Seq(Nat) /\ Len(t) = Len(q) - k /\ \A i \in 1..(Len(q) - k) : t[i] = q[k + i]
  BY <1>1, <1>4, Cut
<1>6. p.sent \o h \in Seq(Nat)
  BY <1>1, <1>5, ConcatProperties
<1>7. /\ x \in PeerType /\ x.backlog = t /\ x.sent = p.sent \o h
      /\ x.open = (k + 1 \notin Sendable(q))
  BY <1>2, <1>3, <1>5, <1>6 DEF Broken, PeerType
<1> HIDE DEF h, t, q
<1>8. Increasing(q) /\ (q # <<>> => q[1] \in Oversized \/ \A r \in In(p.sent) : r < q[1])
  BY DEF Good, q
<1>9. Increasing(h) /\ Increasing(t)
  <2>1. ASSUME NEW i \in 1..Len(h), NEW j \in 1..Len(h), i < j
        PROVE  h[i] < h[j]
    <3>1. h[i] = q[i] /\ h[j] = q[j] /\ i \in 1..Len(q) /\ j \in 1..Len(q)
      BY <1>4, <1>5
    <3> QED  BY <1>8, <2>1, <3>1 DEF Increasing
  <2>2. ASSUME NEW i \in 1..Len(t), NEW j \in 1..Len(t), i < j
        PROVE  t[i] < t[j]
    <3>1. t[i] = q[k + i] /\ t[j] = q[k + j]
      BY <1>5
    <3>2. k + i \in 1..Len(q) /\ k + j \in 1..Len(q) /\ k + i < k + j
      BY <1>4, <1>5, <2>2
    <3> QED  BY <1>8, <3>1, <3>2 DEF Increasing
  <2> QED  BY <2>1, <2>2 DEF Increasing
<1>10. In(q) = In(h) \cup In(t) /\ In(h) \cap In(t) = {}
       /\ \A r \in In(h), u \in In(t) : r < u
  <2>1. \A i \in 1..k : h[i] = q[i] /\ i \in 1..Len(q)
    BY <1>4, <1>5
  <2>2. \A i \in 1..Len(t) : t[i] = q[k + i] /\ k + i \in 1..Len(q)
    BY <1>4, <1>5
  <2>3. \A i \in 1..Len(q) : i \in 1..k \/ (i - k \in 1..Len(t) /\ q[i] = t[i - k])
    <3>1. ASSUME NEW i \in 1..Len(q), i \notin 1..k
          PROVE  i - k \in 1..Len(t) /\ k + (i - k) = i
      BY <1>4, <1>5, <3>1
    <3> QED  BY <2>2, <3>1
  <2>4. In(q) = In(h) \cup In(t)
    BY <1>5, <2>1, <2>2, <2>3 DEF In
  <2>5. ASSUME NEW i \in 1..k, NEW j \in 1..Len(t)
        PROVE  h[i] < t[j] /\ h[i] \in Nat /\ t[j] \in Nat
    <3>1. i < k + j
      BY <1>4, <1>5
    <3>2. q[i] < q[k + j]
      BY <1>8, <2>1, <2>2, <3>1 DEF Increasing
    <3> QED  BY <1>5, <2>1, <2>2, <3>2, ElementOfSeq
  <2>6. \A r \in In(h), u \in In(t) : r < u /\ r \in Nat /\ u \in Nat
    BY <1>5, <2>5 DEF In
  <2>7. In(h) \cap In(t) = {}
    BY <2>6
  <2> QED  BY <2>4, <2>6, <2>7
<1>11. \A r \in In(p.sent), u \in In(h) : r < u
  <2>1. CASE k = 0
    BY <1>5, <2>1 DEF In
  <2>2. CASE k # 0
    <3>1. q # <<>> /\ q[1] \notin Oversized /\ h[1] = q[1]
      BY <1>1, <1>4, <1>5, <2>2, EmptySeq
    <3>2. ASSUME NEW i \in 1..k
          PROVE  h[1] <= h[i] /\ h[i] \in Nat /\ h[1] \in Nat
      <4>1. 1 \in 1..Len(h) /\ i \in 1..Len(h)
        BY <1>4, <1>5, <2>2
      <4>2. h[1] \in Nat /\ h[i] \in Nat
        BY <1>5, <4>1, ElementOfSeq
      <4>3. i = 1 \/ h[1] < h[i]
        BY <1>9, <4>1 DEF Increasing
      <4> QED  BY <4>2, <4>3
    <3>3. \A r \in In(p.sent) : r < h[1] /\ r \in Nat
      BY <1>1, <1>8, <3>1, ElementOfSeq DEF In
    <3>4. ASSUME NEW r \in In(p.sent), NEW i \in 1..k
          PROVE  r < h[i]
      BY <3>2, <3>3
    <3> QED  BY <1>5, <3>4 DEF In
  <2> QED  BY <2>1, <2>2
<1>12. Increasing(x.sent) /\ In(x.sent) = In(p.sent) \cup In(h)
  BY <1>1, <1>5, <1>7, <1>9, <1>11, ConcatIncreasing, ConcatIn DEF Good
<1>13. /\ In(x.sent) \cup In(x.backlog) = 1..n
       /\ In(x.sent) \cap In(x.backlog) = {}
  BY <1>7, <1>10, <1>12 DEF Good, q
<1>14. ASSUME t # <<>>
       PROVE  \/ t[1] \in Oversized
              \/ ~ x.open /\ \A r \in In(x.sent) : r < t[1]
  <2>1. Len(t) \in Nat \ {0} /\ t[1] = q[k + 1] /\ t[1] \in In(t) /\ k + 1 \in 0..Len(q)
    <3>1. Len(t) \in Nat \ {0}
      BY <1>5, <1>14, EmptySeq
    <3>2. 1 \in 1..Len(t) /\ 1 \in 1..(Len(q) - k) /\ k + 1 \in 0..Len(q)
      BY <1>4, <1>5, <3>1
    <3> QED  BY <1>5, <3>1, <3>2 DEF In
  <2>2. CASE t[1] \in Oversized
    BY <2>2
  <2>3. CASE t[1] \notin Oversized
    <3>1. k + 1 \in Sendable(q)
      BY <1>4, <2>1, <2>3 DEF Sendable
    <3>2. \A r \in In(h) : r < t[1]
      BY <1>10, <2>1
    <3>3. \A r \in In(p.sent) : r < t[1]
      <4>1. CASE k = 0
        BY <1>1, <1>4, <1>8, <2>1, <2>3, <4>1, EmptySeq
      <4>2. CASE k # 0
        <5>1. h[1] \in In(h) /\ h[1] \in Nat /\ h[1] < t[1]
          BY <1>4, <1>5, <3>2, <4>2, ElementOfSeq DEF In
        <5>2. \A r \in In(p.sent) : r < h[1] /\ r \in Nat
          <6>1. \A r \in In(p.sent) : r \in Nat
            BY <1>1, ElementOfSeq DEF In
          <6> QED  BY <1>11, <5>1, <6>1
        <5>3. t[1] \in Nat
          BY <1>5, <2>1, ElementOfSeq
        <5> QED  BY <5>1, <5>2, <5>3
      <4> QED  BY <4>1, <4>2
    <3> QED  BY <1>7, <1>12, <3>1, <3>2, <3>3
  <2> QED  BY <2>2, <2>3
<1> QED  BY <1>7, <1>9, <1>12, <1>13, <1>14 DEF Good

\* All that is accounted for is older than the next record.
LEMMA Older ==
  ASSUME NEW n \in Nat \ {0}, NEW p, Good(p, n - 1)
  PROVE  /\ p.sent \in Seq(Nat) /\ p.backlog \in Seq(Nat)
         /\ \A r \in In(p.sent) \cup In(p.backlog) : r < n /\ r # n
         /\ 1..n = (1..(n - 1)) \cup {n}
BY DEF Good, PeerType

\* client_disconnect loses nothing of what a peer is owed.
LEMMA BrokenGood ==
  ASSUME NEW n \in Nat, NEW p, Good(p, n)
  PROVE  Good(Broken(p), n) /\ ~ Broken(p).open
<1>1. /\ Broken(p) \in PeerType /\ Broken(p).open = FALSE
      /\ Broken(p).backlog = p.backlog /\ Broken(p).sent = p.sent
  BY DEF Good, Broken, PeerType
<1> QED  BY <1>1 DEF Good

\* client_enqueue.
LEMMA EnqueuedGood ==
  ASSUME NEW n \in Nat \ {0}, NEW p, Good(p, n - 1), ~ p.open \/ n \in Oversized
  PROVE  Good(Enqueued(p, n), n)
<1> DEFINE b == Append(p.backlog, n)
           e == Enqueued(p, n)
<1>1. /\ b \in Seq(Nat) /\ Increasing(b) /\ In(b) = In(p.backlog) \cup {n} /\ b # <<>>
      /\ p.backlog # <<>> => b[1] = p.backlog[1]
      /\ p.backlog = <<>> => b[1] = n
  BY Older, AppendIncreasing DEF Good
<1>2. e \in PeerType /\ e.backlog = b /\ e.sent = p.sent /\ e.open = p.open
  BY <1>1 DEF Good, Enqueued, PeerType
<1> HIDE DEF b, e
<1>3. In(e.sent) \cup In(e.backlog) = 1..n /\ In(e.sent) \cap In(e.backlog) = {}
  BY <1>1, <1>2, Older DEF Good
<1>4. e.backlog[1] \in Oversized \/ (~ e.open /\ \A r \in In(e.sent) : r < e.backlog[1])
  BY <1>1, <1>2, Older DEF Good
<1>5. Increasing(e.sent) /\ Increasing(e.backlog)
  BY <1>1, <1>2 DEF Good
<1>6. Good(e, n)
  BY <1>2, <1>3, <1>4, <1>5 DEF Good
<1> QED  BY <1>6 DEF e

\* A write to an open connection.
LEMMA WrittenGood ==
  ASSUME NEW n \in Nat \ {0}, NEW p, Good(p, n - 1), p.open
  PROVE  Good(Written(p, n), n)
<1> DEFINE b == Append(p.sent, n)
           e == Written(p, n)
<1>1. b \in Seq(Nat) /\ Increasing(b) /\ In(b) = In(p.sent) \cup {n}
  BY Older, AppendIncreasing DEF Good
<1>2. e \in PeerType /\ e.backlog = p.backlog /\ e.sent = b /\ e.open = p.open
  BY <1>1 DEF Good, Written, PeerType
<1> HIDE DEF b, e
<1>3. In(e.sent) \cup In(e.backlog) = 1..n /\ In(e.sent) \cap In(e.backlog) = {}
  BY <1>1, <1>2, Older DEF Good
<1>4. e.backlog # <<>> => e.backlog[1] \in Oversized
  BY <1>2 DEF Good
<1>5. Increasing(e.sent) /\ Increasing(e.backlog)
  BY <1>1, <1>2 DEF Good
<1>6. Good(e, n)
  BY <1>2, <1>3, <1>4, <1>5 DEF Good
<1> QED  BY <1>6 DEF e

\* client_send and, if it fails, client_enqueue account for the next record.
LEMMA SentGood ==
  ASSUME NEW n \in Nat \ {0}, NEW p, Good(p, n - 1), NEW x \in Sent(p, n)
  PROVE  Good(IF x.ok THEN x.peer ELSE Enqueued(x.peer, n), n)
<1> DEFINE ready == IF p.open THEN {p} ELSE Connected(p)
<1>1. n - 1 \in Nat
  OBVIOUS
<1>2. \A y \in ready : Good(y, n - 1)
  BY <1>1, FlushedGood DEF Connected
<1>3. \/ \E y \in ready : (~ y.open \/ n \in Oversized) /\ x = [peer |-> y, ok |-> FALSE]
      \/ \E y \in ready : x = [peer |-> Broken(y), ok |-> FALSE]
      \/ \E y \in ready : y.open /\ x = [peer |-> Written(y, n), ok |-> TRUE]
  BY DEF Sent
<1> HIDE DEF ready
<1>4. ASSUME NEW y \in ready, ~ y.open \/ n \in Oversized, x = [peer |-> y, ok |-> FALSE]
      PROVE  Good(Enqueued(x.peer, n), n) /\ x.ok = FALSE
  BY <1>2, <1>4, EnqueuedGood
<1>5. ASSUME NEW y \in ready, x = [peer |-> Broken(y), ok |-> FALSE]
      PROVE  Good(Enqueued(x.peer, n), n) /\ x.ok = FALSE
  <2>1. Good(Broken(y), n - 1) /\ ~ Broken(y).open
    BY <1>1, <1>2, BrokenGood
  <2> QED  BY <1>5, <2>1, EnqueuedGood
<1>6. ASSUME NEW y \in ready, y.open, x = [peer |-> Written(y, n), ok |-> TRUE]
      PROVE  Good(x.peer, n) /\ x.ok = TRUE
  BY <1>2, <1>6, WrittenGood
<1> QED  BY <1>3, <1>4, <1>5, <1>6

(***************************************************************************)
(* The thread                                                              *)
(***************************************************************************)

\* The records client_update has taken from the queue, and whether a peer is still to
\* be sent the last of them.
Taken == synced - Len(queue)
Due(s) == cur # 0 /\ s \in In(todo)
Have(s) == IF Due(s) THEN Taken - 1 ELSE Taken

QueueInv ==
  /\ synced \in Nat
  /\ queue \in Seq(Nat)
  /\ Taken \in Nat
  /\ \A i \in 1..Len(queue) : queue[i] = Taken + i
  /\ cur \in {0, Taken}

TodoInv ==
  /\ pc # "update" => cur = 0
  /\ pc = "update" /\ todo # <<>> => cur # 0
  /\ pc \notin {"update", "reconnect"} => todo = <<>>
  /\ todo \in Seq(Servers)
  /\ \A i, j \in 1..Len(todo) : todo[i] = todo[j] => i = j

PeersInv ==
  /\ open \in [Servers -> BOOLEAN]
  /\ backlog \in [Servers -> Seq(Nat)]
  /\ sent \in [Servers -> Seq(Nat)]
  /\ \A s \in Servers : Good(Peer(s), Have(s))

IInv == QueueInv /\ TodoInv /\ PeersInv

\* client_servers as a list of work.
LEMMA AllPeers ==
  /\ Peers \in Seq(Servers) /\ In(Peers) = Servers
  /\ \A i, j \in 1..Len(Peers) : Peers[i] = Peers[j] => i = j
<1>1. Peers \in Seq(Servers)
  BY PeersAssumption DEF Servers
<1>2. DOMAIN Peers = 1..Len(Peers)
  BY <1>1, LenProperties
<1> QED  BY <1>1, <1>2, PeersAssumption DEF Servers, IsInjective, In, Range

\* The next peer, and the ones after it.
LEMMA NextPeer ==
  ASSUME TodoInv, todo # <<>>
  PROVE  /\ Head(todo) \in Servers /\ Head(todo) \in In(todo)
         /\ Tail(todo) \in Seq(Servers)
         /\ \A i, j \in 1..Len(Tail(todo)) : Tail(todo)[i] = Tail(todo)[j] => i = j
         /\ \A s \in Servers : s \in In(Tail(todo)) <=> s \in In(todo) /\ s # Head(todo)
<1> DEFINE t == Tail(todo)
<1>1. todo \in Seq(Servers) /\ \A i, j \in 1..Len(todo) : todo[i] = todo[j] => i = j
  BY DEF TodoInv
<1>2. /\ Head(todo) \in Servers /\ t \in Seq(Servers) /\ Len(t) = Len(todo) - 1
      /\ \A i \in 1..Len(t) : t[i] = todo[i + 1]
      /\ Len(todo) \in Nat \ {0} /\ Head(todo) = todo[1]
  BY <1>1, HeadTailProperties, EmptySeq
<1> HIDE DEF t
<1>3. \A i \in 1..Len(t) : i + 1 \in 1..Len(todo) /\ i + 1 # 1
  BY <1>2
<1>4. \A i, j \in 1..Len(t) : t[i] = t[j] => i = j
  BY <1>1, <1>2, <1>3
<1>5. \A s \in In(t) : s \in In(todo) /\ s # Head(todo)
  <2>1. ASSUME NEW i \in 1..Len(t)
        PROVE  t[i] \in In(todo) /\ t[i] # Head(todo)
    <3>1. t[i] = todo[i + 1] /\ i + 1 \in 1..Len(todo) /\ 1 \in 1..Len(todo) /\ i + 1 # 1
      BY <1>2, <1>3
    <3> QED  BY <1>1, <1>2, <3>1 DEF In
  <2> QED  BY <2>1 DEF In
<1>6. ASSUME NEW i \in 1..Len(todo), todo[i] # Head(todo)
      PROVE  todo[i] \in In(t)
  <2>1. i - 1 \in 1..Len(t) /\ (i - 1) + 1 = i
    BY <1>2, <1>6
  <2> QED  BY <1>2, <2>1 DEF In
<1>7. Head(todo) \in In(todo)
  BY <1>2 DEF In
<1>8. \A s \in In(todo) : s # Head(todo) => s \in In(t)
  BY <1>6 DEF In
<1> QED  BY <1>2, <1>4, <1>5, <1>7, <1>8 DEF t

\* Steps that leave the records, the peers and the list of work alone.
LEMMA QuietStep ==
  ASSUME IInv, UNCHANGED <<queue, synced, cur, todo, peers>>,
         cur = 0, todo = <<>> \/ pc' = "reconnect"
  PROVE  IInv'
<1>1. QueueInv'
  BY DEF IInv, QueueInv, Taken
<1>2. TodoInv'
  BY DEF IInv, TodoInv
<1>3. PeersInv'
  BY DEF IInv, PeersInv, Peer, Have, Due, Taken, peers
<1> QED  BY <1>1, <1>2, <1>3 DEF IInv

\* client_update takes the next record.
LEMMA DequeueStep ==
  ASSUME IInv, Dequeue, queue # <<>>
  PROVE  IInv'
<1>1. /\ queue \in Seq(Nat) /\ Taken \in Nat /\ synced \in Nat /\ todo = <<>>
      /\ \A i \in 1..Len(queue) : queue[i] = Taken + i
      /\ cur' = Head(queue) /\ queue' = Tail(queue) /\ todo' = Peers
      /\ pc = "update" /\ pc' = pc /\ synced' = synced
      /\ open' = open /\ backlog' = backlog /\ sent' = sent
  BY DEF IInv, QueueInv, Dequeue, peers
<1>2. /\ queue' \in Seq(Nat) /\ Len(queue') = Len(queue) - 1
      /\ \A i \in 1..Len(queue') : queue'[i] = queue[i + 1]
      /\ Len(queue) \in Nat \ {0} /\ cur' = queue[1]
  BY <1>1, HeadTailProperties, EmptySeq
<1>3. Taken' = Taken + 1 /\ cur' = Taken'
  BY <1>1, <1>2 DEF Taken
<1>4. \A i \in 1..Len(queue') : queue'[i] = Taken' + i
  <2>1. ASSUME NEW i \in 1..Len(queue')
        PROVE  queue'[i] = Taken' + i
    <3>1. i + 1 \in 1..Len(queue) /\ queue'[i] = queue[i + 1]
      BY <1>2
    <3>2. queue[i + 1] = Taken + (i + 1)
      BY <1>1, <3>1
    <3> QED  BY <1>1, <1>2, <1>3, <3>1, <3>2
  <2> QED  BY <2>1
<1>5. QueueInv'
  BY <1>1, <1>2, <1>3, <1>4 DEF QueueInv
<1>6. TodoInv'
  BY <1>1, <1>3, AllPeers DEF TodoInv
<1>7. PeersInv'
  <2>1. ASSUME NEW s \in Servers
        PROVE  Have(s) = Taken /\ Have(s)' = Taken /\ Peer(s)' = Peer(s)
    <3>1. ~ Due(s)
      BY <1>1, EmptySeq DEF Due, In
    <3>2. Due(s)'
      <4>1. In(todo)' = In(Peers) /\ cur' # 0
        BY <1>1, <1>3 DEF In
      <4> QED  BY <4>1, AllPeers DEF Due
    <3> QED  BY <1>1, <1>3, <3>1, <3>2 DEF Have, Peer
  <2>2. \A s \in Servers : Good(Peer(s), Have(s))'
    <3>1. ASSUME NEW s \in Servers
          PROVE  Good(Peer(s)', Have(s)')
      BY <2>1 DEF IInv, PeersInv
    <3> QED  BY <3>1 DEF Good
  <2> QED  BY <1>1, <2>2 DEF IInv, PeersInv
<1> QED  BY <1>5, <1>6, <1>7 DEF IInv

\* A peer is replaced by one with the account it should have.
LEMMA PeerStep ==
  ASSUME IInv, NEW h \in Servers, NEW p, p \in PeerType, SetPeer(h, p),
         Good(p, Have(h)'),
         \A s \in Servers \ {h} : Have(s)' = Have(s)
  PROVE  PeersInv'
<1>1. /\ open' \in [Servers -> BOOLEAN]
      /\ backlog' \in [Servers -> Seq(Nat)]
      /\ sent' \in [Servers -> Seq(Nat)]
  BY DEF IInv, PeersInv, SetPeer, PeerType
<1>2. Peer(h)' = p
  BY DEF IInv, PeersInv, SetPeer, PeerType, Peer
<1>3. \A s \in Servers \ {h} : Peer(s)' = Peer(s)
  BY DEF IInv, PeersInv, SetPeer, Peer
<1>4. ASSUME NEW s \in Servers
      PROVE  Good(Peer(s)', Have(s)')
  <2>1. CASE s = h
    BY <1>2, <2>1
  <2>2. CASE s # h
    BY <1>3, <2>2 DEF IInv, PeersInv
  <2> QED  BY <2>1, <2>2
<1>5. \A s \in Servers : Good(Peer(s), Have(s))'
  BY <1>4 DEF Good
<1> QED  BY <1>1, <1>5 DEF PeersInv

\* client_update deals with the next peer.
LEMMA SendNextStep ==
  ASSUME IInv, SendNext
  PROVE  IInv'
<1>1. PICK h \in Servers : h = Head(todo)
  BY NextPeer DEF IInv, SendNext
<1>2. PICK x \in Sent(Peer(h), cur) :
        SetPeer(h, IF x.ok THEN x.peer ELSE Enqueued(x.peer, cur))
  BY <1>1 DEF SendNext
<1> DEFINE p == IF x.ok THEN x.peer ELSE Enqueued(x.peer, cur)
<1>3. /\ pc = "update" /\ todo # <<>> /\ todo' = Tail(todo) /\ pc' = pc /\ cur' = cur
      /\ queue' = queue /\ synced' = synced /\ TodoInv /\ QueueInv
  BY DEF SendNext, IInv
<1>4. /\ h \in Servers /\ h \in In(todo)
      /\ Tail(todo) \in Seq(Servers)
      /\ \A i, j \in 1..Len(Tail(todo)) : Tail(todo)[i] = Tail(todo)[j] => i = j
      /\ \A s \in Servers : s \in In(Tail(todo)) <=> s \in In(todo) /\ s # h
  BY <1>1, <1>3, NextPeer
<1>5. cur = Taken /\ cur \in Nat \ {0} /\ Taken' = Taken
  BY <1>3 DEF TodoInv, QueueInv, Taken
<1>6. /\ Have(h) = cur - 1 /\ Have(h)' = cur
      /\ \A s \in Servers \ {h} : Have(s)' = Have(s)
  <2>1. In(todo)' = In(Tail(todo))
    BY <1>3 DEF In
  <2>2. Due(h) /\ ~ (cur' # 0 /\ h \in In(todo)')
    BY <1>3, <1>4, <1>5, <2>1 DEF Due
  <2>3. \A s \in Servers \ {h} : (cur' # 0 /\ s \in In(todo)') <=> Due(s)
    BY <1>3, <1>4, <2>1 DEF Due
  <2>4. \A s \in Servers :
          Have(s)' = IF cur' # 0 /\ s \in In(todo)' THEN Taken' - 1 ELSE Taken'
    BY DEF Have, Due
  <2> QED  BY <1>4, <1>5, <2>2, <2>3, <2>4 DEF Have
<1>7. Good(p, cur)
  <2>1. Good(Peer(h), cur - 1)
    BY <1>4, <1>6 DEF IInv, PeersInv
  <2> QED  BY <1>5, <2>1, SentGood
<1> HIDE DEF p
<1>8. PeersInv'
  <2>1. p \in PeerType /\ SetPeer(h, p) /\ Good(p, Have(h)')
    BY <1>2, <1>6, <1>7 DEF Good, p
  <2> QED  BY <1>4, <1>6, <2>1, PeerStep
<1>9. QueueInv'
  BY <1>3, <1>5 DEF QueueInv
<1>10. TodoInv'
  BY <1>3, <1>4, <1>5 DEF TodoInv
<1> QED  BY <1>8, <1>9, <1>10 DEF IInv

\* client_reconnect deals with the next peer.
LEMMA ReconnectStep ==
  ASSUME IInv, Reconnect, todo # <<>>
  PROVE  IInv'
<1>1. PICK h \in Servers : h = Head(todo)
  BY NextPeer DEF IInv
<1>2. /\ pc = "reconnect" /\ cur = 0 /\ todo' = Tail(todo) /\ pc' = pc /\ cur' = cur
      /\ queue' = queue /\ synced' = synced /\ TodoInv /\ QueueInv
  BY DEF Reconnect, IInv, TodoInv
<1>3. QueueInv' /\ TodoInv'
  BY <1>2, NextPeer DEF QueueInv, TodoInv, Taken
<1>4. \A s \in Servers : Have(s)' = Have(s) /\ Have(s) \in Nat
  BY <1>2 DEF Have, Due, Taken, QueueInv
<1>5. CASE UNCHANGED peers
  <2>1. \A s \in Servers : Peer(s)' = Peer(s)
    BY <1>5 DEF Peer, peers
  <2>2. ASSUME NEW s \in Servers
        PROVE  Good(Peer(s)', Have(s)')
    BY <1>4, <2>1 DEF IInv, PeersInv
  <2>3. \A s \in Servers : Good(Peer(s), Have(s))'
    BY <2>2 DEF Good
  <2>4. PeersInv'
    BY <1>5, <2>3 DEF IInv, PeersInv, peers
  <2> QED  BY <1>3, <2>4 DEF IInv
<1>6. ASSUME NEW x \in Flushed([Peer(h) EXCEPT !.open = TRUE]), ~ Peer(h).open, SetPeer(h, x)
      PROVE  IInv'
  <2>1. Good(Peer(h), Have(h))
    BY DEF IInv, PeersInv
  <2>2. Good(x, Have(h))
    BY <1>4, <1>6, <2>1, FlushedGood
  <2>3. x \in PeerType /\ Good(x, Have(h)')
    BY <1>4, <2>2 DEF Good
  <2>4. PeersInv'
    BY <1>4, <1>6, <2>3, PeerStep
  <2> QED  BY <1>3, <2>4 DEF IInv
<1> QED  BY <1>1, <1>5, <1>6 DEF Reconnect

\* client_sync appends the next record.
LEMMA SyncStep ==
  ASSUME IInv, NEW t \in Threads, SyncEnqueue(t)
  PROVE  IInv'
<1>1. /\ QueueInv /\ TodoInv /\ PeersInv
      /\ queue' = Append(queue, synced + 1) /\ synced' = synced + 1
      /\ cur' = cur /\ todo' = todo /\ open' = open /\ backlog' = backlog /\ sent' = sent
  BY DEF IInv, SyncEnqueue, peers
<1>2. queue \in Seq(Nat) /\ synced + 1 \in Nat /\ synced \in Nat /\ Taken \in Nat
  BY <1>1 DEF QueueInv
<1>3. /\ queue' \in Seq(Nat) /\ Len(queue') = Len(queue) + 1 /\ Len(queue) \in Nat
      /\ \A i \in 1..Len(queue) : queue'[i] = queue[i]
      /\ queue'[Len(queue) + 1] = synced + 1
  BY <1>1, <1>2, AppendProperties, LenProperties
<1>4. Taken' = Taken /\ Taken + (Len(queue) + 1) = synced + 1
  BY <1>1, <1>2, <1>3 DEF Taken
<1>5. \A i \in 1..Len(queue') : queue'[i] = Taken' + i
  BY <1>1, <1>3, <1>4 DEF QueueInv
<1>6. QueueInv'
  BY <1>1, <1>2, <1>3, <1>4, <1>5 DEF QueueInv
<1>7. TodoInv'
  BY <1>1 DEF TodoInv, SyncEnqueue, Signal, Unlocked
<1>8. PeersInv'
  BY <1>1, <1>4 DEF PeersInv, Peer, Have, Due
<1> QED  BY <1>6, <1>7, <1>8 DEF IInv

\* The invariant holds before the thread starts ...
LEMMA Begin ==
  ASSUME Init
  PROVE  IInv
<1>1. /\ Len(<<>>) = 0 /\ <<>> \in Seq(Nat) /\ <<>> \in Seq(Servers)
      /\ In(<<>>) = {} /\ Increasing(<<>>)
  BY EmptySeq DEF In, Increasing
<1>2. Taken = 0
  <2>1. synced = 0 /\ Len(queue) = 0
    BY <1>1 DEF Init
  <2> QED  BY <2>1 DEF Taken
<1>3. QueueInv
  BY <1>1, <1>2 DEF Init, QueueInv
<1>4. TodoInv
  BY <1>1 DEF Init, TodoInv
<1>5. ASSUME NEW s \in Servers
      PROVE  Good(Peer(s), Have(s))
  <2>1. Have(s) = 0
    BY <1>2 DEF Init, Have, Due
  <2>2. /\ Peer(s) \in PeerType
        /\ Peer(s).sent = <<>> /\ Peer(s).backlog = <<>>
    BY <1>1 DEF Init, Peer, PeerType
  <2> QED  BY <1>1, <2>1, <2>2 DEF Good
<1>6. PeersInv
  BY <1>1, <1>5 DEF Init, PeersInv
<1> QED  BY <1>3, <1>4, <1>6 DEF IInv

\* ... and every step preserves it.
LEMMA Keeps ==
  ASSUME IInv, [Next]_vars
  PROVE  IInv'
<1>1. CASE Start \/ Lock \/ Wake \/ TimerFires
  BY <1>1, QuietStep DEF Start, Lock, Wake, TimerFires, peers, IInv, TodoInv
<1>2. CASE Dequeue
  <2>1. CASE queue # <<>>
    BY <1>2, <2>1, DequeueStep
  <2>2. CASE queue = <<>>
    <3>1. /\ cur' = 0 /\ todo' = todo /\ todo = <<>> /\ pc' # "update" /\ queue' = queue
          /\ synced' = synced /\ UNCHANGED peers
      BY <1>2, <2>2 DEF Dequeue, Loop
    <3>2. QueueInv'
      BY <3>1 DEF IInv, QueueInv, Taken
    <3>3. TodoInv'
      BY <3>1 DEF IInv, TodoInv
    <3>4. In(todo) = {} /\ In(todo)' = {}
      BY <3>1, EmptySeq DEF In
    <3>5. PeersInv'
      BY <3>1, <3>4 DEF IInv, PeersInv, Peer, Have, Due, Taken, peers
    <3> QED  BY <3>2, <3>3, <3>5 DEF IInv
  <2> QED  BY <2>1, <2>2
<1>3. CASE SendNext
  BY <1>3, SendNextStep
<1>4. CASE Timeout
  <2>1. CASE ~ incomplete
    BY <1>4, <2>1, QuietStep DEF Timeout, Loop, peers, IInv, TodoInv
  <2>2. CASE incomplete
    <3>1. /\ cur = 0 /\ cur' = 0 /\ todo' = Peers /\ pc' = "reconnect" /\ queue' = queue
          /\ synced' = synced /\ UNCHANGED peers
      BY <1>4, <2>2 DEF Timeout, IInv, TodoInv
    <3>2. QueueInv'
      BY <3>1 DEF IInv, QueueInv, Taken
    <3>3. TodoInv'
      BY <3>1, AllPeers DEF TodoInv
    <3>4. PeersInv'
      BY <3>1 DEF IInv, PeersInv, Peer, Have, Due, Taken, peers
    <3> QED  BY <3>2, <3>3, <3>4 DEF IInv
  <2> QED  BY <2>1, <2>2
<1>5. CASE Reconnect
  <2>1. CASE todo # <<>>
    BY <1>5, <2>1, ReconnectStep
  <2>2. CASE todo = <<>>
    BY <1>5, <2>2, QuietStep DEF Reconnect, Loop, peers, IInv, TodoInv
  <2> QED  BY <2>1, <2>2
<1>6. ASSUME NEW t \in Threads, SyncEnqueue(t) PROVE IInv'
  BY <1>6, SyncStep
<1>7. CASE Clear
  BY <1>7, QuietStep DEF Clear, Unlocked, Signal, peers, IInv, TodoInv
<1>8. CASE (\E t \in Threads : SyncCheck(t)) \/ Join \/ UNCHANGED vars
  <2>1. UNCHANGED <<pc, cur, todo, queue, synced, open, backlog, sent>>
    BY <1>8 DEF SyncCheck, Join, vars, thread, peers
  <2>2. QueueInv' /\ TodoInv'
    BY <2>1 DEF IInv, QueueInv, TodoInv, Taken
  <2>3. PeersInv'
    BY <2>1 DEF IInv, PeersInv, Peer, Have, Due, Taken
  <2> QED  BY <2>2, <2>3 DEF IInv
<1> QED  BY <1>1, <1>2, <1>3, <1>4, <1>5, <1>6, <1>7, <1>8 DEF Next, ThreadStep

\* So it always holds.
LEMMA Inductive == Spec => []IInv
<1>1. Init => IInv
  BY Begin
<1>2. IInv /\ [Next]_vars => IInv'
  BY Keeps
<1> QED  BY <1>1, <1>2, PTL DEF Spec

(***************************************************************************)
(* The theorems                                                            *)
(***************************************************************************)

\* A peer never gets a record after a newer one, though its connection may break at any
\* record of a flush, and a backlog with an oversized head is left behind.
THEOREM RecordsInOrder == Spec => []InOrder
<1>1. ASSUME IInv
      PROVE  InOrder
  <2>1. ASSUME NEW s \in Servers
        PROVE  Increasing(sent[s]) /\ DOMAIN sent[s] = 1..Len(sent[s])
    <3>1. Increasing(Peer(s).sent) /\ Peer(s).sent = sent[s]
      BY <1>1 DEF IInv, PeersInv, Good, Peer
    <3>2. sent[s] \in Seq(Nat)
      BY <1>1 DEF IInv, PeersInv
    <3> QED  BY <3>1, <3>2, LenProperties
  <2> QED  BY <2>1 DEF InOrder, Increasing
<1>2. IInv => InOrder
  BY <1>1
<1> QED  BY <1>2, Inductive, PTL

\* Sequences without repetitions and nothing in common, in a row.
LEMMA ConcatInjective ==
  ASSUME NEW S, NEW p \in Seq(S), NEW q \in Seq(S), IsInjective(p), IsInjective(q),
         In(p) \cap In(q) = {}
  PROVE  p \o q \in Seq(S) /\ IsInjective(p \o q) /\ In(p \o q) = In(p) \cup In(q)
<1> DEFINE c == p \o q
<1>1. /\ c \in Seq(S) /\ Len(c) = Len(p) + Len(q)
      /\ \A i \in 1..(Len(p) + Len(q)) : c[i] = IF i <= Len(p) THEN p[i] ELSE q[i - Len(p)]
  BY ConcatProperties
<1>2. Len(p) \in Nat /\ Len(q) \in Nat
  BY LenProperties
<1>3. DOMAIN p = 1..Len(p) /\ DOMAIN q = 1..Len(q) /\ DOMAIN c = 1..(Len(p) + Len(q))
  BY <1>1, LenProperties
<1> HIDE DEF c
<1>4. ASSUME NEW i \in 1..(Len(p) + Len(q)), NEW j \in 1..(Len(p) + Len(q)), c[i] = c[j]
      PROVE  i = j
  <2>1. CASE i <= Len(p) /\ j <= Len(p)
    <3>1. i \in DOMAIN p /\ j \in DOMAIN p /\ c[i] = p[i] /\ c[j] = p[j]
      BY <1>1, <1>2, <1>3, <2>1
    <3> QED  BY <1>4, <3>1 DEF IsInjective
  <2>2. CASE ~ (i <= Len(p)) /\ ~ (j <= Len(p))
    <3> DEFINE x == i - Len(p)
               y == j - Len(p)
    <3>1. x \in DOMAIN q /\ y \in DOMAIN q
      BY <1>2, <1>3, <2>2
    <3>2. c[i] = q[x] /\ c[j] = q[y]
      BY <1>1, <2>2
    <3>3. x = y
      BY <1>4, <3>1, <3>2 DEF IsInjective
    <3> QED  BY <1>2, <3>3
  <2>3. CASE i <= Len(p) /\ ~ (j <= Len(p))
    <3>1. i \in 1..Len(p) /\ j - Len(p) \in 1..Len(q)
      BY <1>2, <2>3
    <3>2. c[i] \in In(p) /\ c[j] \in In(q)
      BY <1>1, <2>3, <3>1 DEF In
    <3> QED  BY <1>4, <3>2
  <2>4. CASE ~ (i <= Len(p)) /\ j <= Len(p)
    <3>1. j \in 1..Len(p) /\ i - Len(p) \in 1..Len(q)
      BY <1>2, <2>4
    <3>2. c[j] \in In(p) /\ c[i] \in In(q)
      BY <1>1, <2>4, <3>1 DEF In
    <3> QED  BY <1>4, <3>2
  <2> QED  BY <2>1, <2>2, <2>3, <2>4
<1>5. IsInjective(c)
  BY <1>3, <1>4 DEF IsInjective
<1>6. In(c) = In(p) \cup In(q)
  BY ConcatIn DEF c
<1> QED  BY <1>1, <1>5, <1>6 DEF c

\* An increasing sequence has no repetitions.
LEMMA IncreasingInjective ==
  ASSUME NEW q \in Seq(Nat), Increasing(q)
  PROVE  IsInjective(q)
<1>1. DOMAIN q = 1..Len(q) /\ Len(q) \in Nat /\ \A i \in 1..Len(q) : q[i] \in Nat
  BY LenProperties, ElementOfSeq
<1>2. ASSUME NEW i \in 1..Len(q), NEW j \in 1..Len(q), q[i] = q[j]
      PROVE  i = j
  BY <1>1, <1>2 DEF Increasing
<1> QED  BY <1>1, <1>2 DEF IsInjective

\* Every record handed to client_sync is, for every peer, in exactly one place: sent, in
\* its backlog, about to be sent, or in the queue.
THEOREM RecordsNotLost == Spec => []NothingLost
<1>1. ASSUME IInv, NEW s \in Servers
      PROVE  LET all == sent[s] \o Pending(s) IN IsInjective(all) /\ Range(all) = 1..synced
  <2> DEFINE S == sent[s]
             B == backlog[s]
             C == IF cur # 0 /\ s \in Range(todo) THEN <<cur>> ELSE <<>>
             n == Have(s)
  <2>1. /\ S \in Seq(Nat) /\ B \in Seq(Nat) /\ Increasing(S) /\ Increasing(B)
        /\ In(S) \cup In(B) = 1..n /\ In(S) \cap In(B) = {}
    <3>1. Good(Peer(s), n) /\ Peer(s).sent = S /\ Peer(s).backlog = B
      BY <1>1 DEF IInv, PeersInv, Peer
    <3> QED  BY <3>1 DEF Good, PeerType
  <2>2. /\ synced \in Nat /\ queue \in Seq(Nat) /\ Taken \in Nat /\ cur \in {0, Taken}
        /\ \A i \in 1..Len(queue) : queue[i] = Taken + i
        /\ todo \in Seq(Servers)
    BY <1>1 DEF IInv, QueueInv, TodoInv
  <2>3. Len(queue) \in Nat /\ Taken + Len(queue) = synced
    BY <2>2, LenProperties DEF Taken
  <2>4. Range(todo) = In(todo)
    BY <2>2, LenProperties DEF Range, In
  <2>5. /\ C \in Seq(Nat) /\ IsInjective(C)
        /\ In(C) = (n + 1)..Taken /\ n \in Nat /\ n <= Taken
    <3>1. CASE Due(s)
      <4>1. C = <<cur>> /\ cur = Taken /\ n = Taken - 1 /\ cur \in Nat \ {0}
        BY <2>2, <2>4, <3>1 DEF Due, Have
      <4>2. <<cur>> \in Seq(Nat) /\ Len(<<cur>>) = 1 /\ <<cur>>[1] = cur
        BY <4>1
      <4>3. IsInjective(<<cur>>) /\ In(<<cur>>) = {cur}
        BY <4>2, LenProperties DEF IsInjective, In
      <4> QED  BY <4>1, <4>2, <4>3
    <3>2. CASE ~ Due(s)
      <4>1. C = <<>> /\ n = Taken
        BY <2>4, <3>2 DEF Due, Have
      <4>2. <<>> \in Seq(Nat) /\ IsInjective(<<>>) /\ In(<<>>) = {}
        BY EmptySeq DEF IsInjective, In
      <4>3. (Taken + 1)..Taken = {} /\ Taken <= Taken
        BY <2>2
      <4> HIDE DEF C, n
      <4> QED  BY <2>2, <4>1, <4>2, <4>3
    <3> QED  BY <3>1, <3>2
  <2>6. Increasing(queue) /\ In(queue) = (Taken + 1)..synced
    <3>1. Increasing(queue)
      BY <2>2 DEF Increasing
    <3>2. ASSUME NEW r \in (Taken + 1)..synced
          PROVE  r \in In(queue)
      <4>1. r - Taken \in 1..Len(queue) /\ Taken + (r - Taken) = r
        BY <2>2, <2>3
      <4>2. queue[r - Taken] = r
        BY <2>2, <4>1
      <4> QED  BY <4>1, <4>2 DEF In
    <3>3. In(queue) \subseteq (Taken + 1)..synced
      BY <2>2, <2>3 DEF In
    <3> QED  BY <3>1, <3>2, <3>3
  <2> HIDE DEF S, B, C, n
  <2>7. IsInjective(S) /\ IsInjective(B) /\ IsInjective(queue)
    BY <2>1, <2>2, <2>6, IncreasingInjective
  <2>8. B \o C \in Seq(Nat) /\ IsInjective(B \o C) /\ In(B \o C) = In(B) \cup In(C)
    <3>1. In(B) \cap In(C) = {}
      BY <2>1, <2>5
    <3>2. B \in Seq(Nat) /\ C \in Seq(Nat) /\ IsInjective(B) /\ IsInjective(C)
      BY <2>1, <2>5, <2>7
    <3> QED  BY <3>1, <3>2, ConcatInjective
  <2> DEFINE D == B \o C
  <2>9. /\ D \o queue \in Seq(Nat) /\ IsInjective(D \o queue)
        /\ In(D \o queue) = In(D) \cup In(queue)
    <3>1. In(D) \cap In(queue) = {}
      BY <2>1, <2>2, <2>5, <2>6, <2>8
    <3> HIDE DEF D
    <3>2. D \in Seq(Nat) /\ IsInjective(D)
      BY <2>8 DEF D
    <3> QED  BY <2>2, <2>7, <3>1, <3>2, ConcatInjective
  <2> DEFINE E == D \o queue
  <2>10. E = Pending(s)
    BY DEF Pending, B, C
  <2>11. In(E) = In(B) \cup In(C) \cup In(queue)
    BY <2>8, <2>9
  <2>12. E \in Seq(Nat) /\ IsInjective(E)
    BY <2>9
  <2> HIDE DEF E
  <2>13. In(S) \cap In(E) = {}
    BY <2>1, <2>2, <2>5, <2>6, <2>11
  <2>14. S \o E \in Seq(Nat) /\ IsInjective(S \o E) /\ In(S \o E) = In(S) \cup In(E)
    BY <2>1, <2>7, <2>12, <2>13, ConcatInjective
  <2>15. In(S \o E) = 1..synced
    BY <2>1, <2>2, <2>3, <2>5, <2>6, <2>11, <2>14
  <2>16. Range(S \o E) = In(S \o E)
    BY <2>14, LenProperties DEF Range, In
  <2> QED  BY <2>10, <2>14, <2>15, <2>16 DEF S
<1>2. IInv => NothingLost
  BY <1>1 DEF NothingLost
<1> QED  BY <1>2, Inductive, PTL
=============================================================================
