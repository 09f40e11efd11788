----------------------------- MODULE TableProofs ----------------------------
(***************************************************************************)
(* Proofs about the tables of mopherd.                                     *)
(*                                                                         *)
(* HashTable, for any keys, values, hash function and size: the table is a *)
(* dictionary, lookups find what it holds, and a walk whose callback       *)
(* deletes records is safe and complete.  Sound is what ht.c relies on     *)
(* without saying so: every record is in the bucket of its key, no key is  *)
(* there twice, the records are counted and none is before the head.       *)
(* Ahead is what a position has yet to pass: a walk has yet to return it,  *)
(* and a resize has yet to move it.                                        *)
(*                                                                         *)
(* Dbt, for any set of tables, threads and intervals, and without the      *)
(* bounds on how late the janitor may be.                                  *)
(***************************************************************************)
EXTENDS Dbt, HashTable, FiniteSetTheorems, SequenceTheorems, WellFoundedInduction, TLAPS

Entry == [key : Keys, val : Values]

Position == [bucket : Nat, key : Keys \cup {Null}]

\* A chain holds no key twice.
Distinct(chain) ==
  \A i, j \in DOMAIN chain : chain[i].key = chain[j].key => i = j

Sound(h) ==
  /\ h = [table |-> h.table, buckets |-> h.buckets, head |-> h.head, records |-> h.records]
  /\ h.buckets \in Nat \ {0} /\ h.head \in 0..(h.buckets - 1)
  /\ h.table \in [0..(h.buckets - 1) -> Seq(Entry)]
  /\ \A b \in 0..(h.buckets - 1) :
       /\ Distinct(h.table[b])
       /\ \A i \in DOMAIN h.table[b] : Bucket(h, h.table[b][i].key) = b
       /\ h.table[b] # <<>> => h.head <= b
  /\ IsFiniteSet(Entries(h)) /\ h.records = Cardinality(Entries(h))

\* The position is on a record, or at the end.
Stands(h, p) ==
  p.key # Null => p.bucket \in 0..(h.buckets - 1) /\ p.key \in KeysOf(h.table[p.bucket])

\* Record j of bucket b is at p or after it.
NotBefore(h, p, b, j) ==
  \/ b > p.bucket
  \/ b = p.bucket /\ \E i \in 1..j : h.table[b][i].key = p.key

Ahead(h, p) ==
  {e \in Entries(h) :
     /\ p.key # Null
     /\ \E b \in 0..(h.buckets - 1) : \E j \in DOMAIN h.table[b] :
          h.table[b][j] = e /\ NotBefore(h, p, b, j)}

KeysAhead(h, p) == {e.key : e \in Ahead(h, p)}

\* A resize j of h has moved all records but those ahead.
JobInv(h, j) ==
  /\ j = [on |-> j.on, new |-> j.new, pos |-> j.pos, then |-> j.then]
  /\ j.on \in BOOLEAN /\ j.pos \in Position /\ j.then \in Keys \cup {Null}
  /\ ~ j.on => j = NoJob /\ h.records < h.buckets
  /\ j.on =>
       /\ h.records <= h.buckets
       /\ Sound(j.new) /\ j.new.buckets = 2 * h.buckets
       /\ Stands(h, j.pos)
       /\ Entries(j.new) = Entries(h) \ Ahead(h, j.pos)

\* A walk w over h has returned all records but those ahead, if it began with all.
WalkInv(h, w) ==
  /\ w = [on |-> w.on, pos |-> w.pos, all |-> w.all, seen |-> w.seen, whole |-> w.whole]
  /\ w.on \in BOOLEAN /\ w.pos \in Position
  /\ ~ w.on => w = NoWalk
  /\ w.on =>
       /\ Stands(h, w.pos)
       /\ w.seen \cap KeysAhead(h, w.pos) = {}
       /\ w.seen \cup KeysAhead(h, w.pos) \subseteq w.all
       /\ w.whole => w.all \subseteq w.seen \cup KeysAhead(h, w.pos)

HInv ==
  /\ Sound(ht) /\ JobInv(ht, job) /\ WalkInv(ht, walk)
  /\ ~ (job.on /\ walk.on)

(***************************************************************************)
(* Chains                                                                  *)
(***************************************************************************)

\* A set of naturals that is not empty has a least element.
LEMMA LeastOf ==
  ASSUME NEW S, S \subseteq Nat, S # {}
  PROVE  Min(S) \in S /\ \A y \in S : Min(S) <= y
  <1> DEFINE Less == {ss \in Nat \X Nat : ss[1] < ss[2]}
  <1>1. OpToRel(<, Nat) = Less
    BY Zenon DEF OpToRel
  <1>2. IsWellFoundedOn(Less, Nat)
    BY <1>1, NatLessThanWellFounded, Zenon
  <1>3. PICK x \in S : \A y \in S : ~ (<<y, x>> \in Less)
    BY <1>2, WFMin, Zenon
  <1>4. ASSUME NEW y \in S PROVE x <= y
    <2>1. SUFFICES ASSUME y < x PROVE FALSE
      OBVIOUS
    <2>2. <<y, x>> \in Nat \X Nat /\ <<y, x>>[1] < <<y, x>>[2]
      BY <2>1
    <2>3. <<y, x>> \in Less
      BY <2>2, Zenon
    <2>4. QED
      BY <1>3, <2>3
  <1>5. QED
    BY <1>4, Zenon DEF Min

\* Removal from a sequence keeps the others in their order.
LEMMA UnlinkedIs ==
  ASSUME NEW S, NEW s \in Seq(S), NEW i \in DOMAIN s
  PROVE  /\ Unlinked(s, i) \in Seq(S)
         /\ DOMAIN Unlinked(s, i) = 1..(Len(s) - 1)
         /\ \A j \in 1..(Len(s) - 1) :
              Unlinked(s, i)[j] = IF j < i THEN s[j] ELSE s[j + 1]
  <1> DEFINE u == SubSeq(s, 1, i - 1)  w == SubSeq(s, i + 1, Len(s))
  <1>1. Len(s) \in Nat /\ DOMAIN s = 1..Len(s) /\ i \in 1..Len(s)
    BY LenProperties, Zenon
  <1>2. \A j \in 1..Len(s) : s[j] \in S
    BY ElementOfSeq, Zenon
  <1>3. /\ u \in Seq(S)
        /\ Len(u) = IF 1 <= i - 1 THEN (i - 1) - 1 + 1 ELSE 0
        /\ \A j \in 1..((i - 1) - 1 + 1) : u[j] = s[1 + j - 1]
    <2>1. \A j \in 1..(i - 1) : s[j] \in S
      BY <1>1, <1>2
    <2>2. QED
      BY <2>1, <1>1, SubSeqProperties
  <1>4. /\ w \in Seq(S)
        /\ Len(w) = IF i + 1 <= Len(s) THEN Len(s) - (i + 1) + 1 ELSE 0
        /\ \A j \in 1..(Len(s) - (i + 1) + 1) : w[j] = s[(i + 1) + j - 1]
    <2>1. \A j \in (i + 1)..Len(s) : s[j] \in S
      BY <1>1, <1>2
    <2>2. QED
      BY <2>1, <1>1, SubSeqProperties
  <1>5. Unlinked(s, i) = u \o w
    BY Zenon DEF Unlinked
  <1> HIDE DEF u, w
  <1> DEFINE r == u \o w
  <1>6. /\ r \in Seq(S)
        /\ Len(r) = Len(u) + Len(w)
        /\ \A j \in 1..(Len(u) + Len(w)) :
             r[j] = IF j <= Len(u) THEN u[j] ELSE w[j - Len(u)]
    BY <1>3, <1>4, ConcatProperties, Zenon
  <1> HIDE DEF r
  <1>7. Len(u) = i - 1 /\ Len(w) = Len(s) - i
    BY <1>1, <1>3, <1>4
  <1>8. DOMAIN r = 1..(Len(s) - 1)
    <2>1. DOMAIN r = 1..Len(r)
      BY <1>6, LenProperties, Zenon
    <2>2. QED
      BY <2>1, <1>1, <1>6, <1>7
  <1>9. ASSUME NEW j \in 1..(Len(s) - 1)
        PROVE  r[j] = IF j < i THEN s[j] ELSE s[j + 1]
    <2>1. CASE j < i
      <3>1. r[j] = u[j]
        BY <2>1, <1>1, <1>6, <1>7
      <3>2. u[j] = s[1 + j - 1] /\ 1 + j - 1 = j
        BY <2>1, <1>1, <1>3
      <3>3. QED
        BY <2>1, <3>1, <3>2, Zenon
    <2>2. CASE ~ (j < i)
      <3>1. r[j] = w[j - (i - 1)]
        BY <2>2, <1>1, <1>6, <1>7
      <3>2. w[j - (i - 1)] = s[(i + 1) + (j - (i - 1)) - 1]
        <4>1. j - (i - 1) \in 1..(Len(s) - (i + 1) + 1)
          BY <2>2, <1>1
        <4>2. QED
          BY <4>1, <1>4, Zenon
      <3>3. (i + 1) + (j - (i - 1)) - 1 = j + 1
        BY <1>1
      <3>4. QED
        BY <2>2, <3>1, <3>2, <3>3, Zenon
    <2>3. QED
      BY <2>1, <2>2, Zenon
  <1>10. QED
    BY <1>5, <1>6, <1>8, <1>9, Zenon DEF r

\* A key is in a bucket of the table.
LEMMA BucketIs ==
  ASSUME NEW h, h.buckets \in Nat \ {0}, NEW k \in Keys
  PROVE  Bucket(h, k) \in 0..(h.buckets - 1)
  <1>1. Hash[k] \in Nat
    BY HashAssumption
  <1>2. QED
    BY <1>1 DEF Bucket

\* The record of a key of a chain is the only one, so the first.
LEMMA FirstIs ==
  ASSUME NEW chain \in Seq(Entry), Distinct(chain), NEW i \in DOMAIN chain
  PROVE  First(chain, chain[i].key) = i
  <1> DEFINE P(x) == chain[x].key = chain[i].key
                     /\ \A j \in DOMAIN chain : chain[j].key = chain[i].key => x <= j
  <1>1. DOMAIN chain \subseteq Nat
    BY LenProperties
  <1>2. \A j \in DOMAIN chain : chain[j].key = chain[i].key => j = i
    BY Zenon DEF Distinct
  <1>3. i <= i
    BY <1>1
  <1>4. P(i)
    BY <1>2, <1>3, Zenon
  <1>5. \A x \in DOMAIN chain : P(x) => x = i
    BY <1>2, Zenon
  <1>6. First(chain, chain[i].key) = CHOOSE x \in DOMAIN chain : P(x)
    BY Zenon DEF First
  <1> HIDE DEF P
  <1>7. QED
    BY <1>4, <1>5, <1>6, Zenon

\* A record put before a chain.
LEMMA ConsIs ==
  ASSUME NEW S, NEW e \in S, NEW s \in Seq(S)
  PROVE  /\ <<e>> \o s \in Seq(S)
         /\ DOMAIN (<<e>> \o s) = 1..(Len(s) + 1)
         /\ (<<e>> \o s)[1] = e
         /\ \A j \in 1..Len(s) : (<<e>> \o s)[j + 1] = s[j]
  <1> DEFINE u == <<e>>
  <1>1. u \in Seq(S) /\ Len(u) = 1 /\ u[1] = e
    OBVIOUS
  <1> HIDE DEF u
  <1> DEFINE r == u \o s
  <1>2. /\ r \in Seq(S)
        /\ Len(r) = Len(u) + Len(s)
        /\ \A j \in 1..(Len(u) + Len(s)) :
             r[j] = IF j <= Len(u) THEN u[j] ELSE s[j - Len(u)]
    BY <1>1, ConcatProperties, Zenon
  <1> HIDE DEF r
  <1>3. Len(s) \in Nat /\ DOMAIN r = 1..Len(r)
    BY <1>2, LenProperties, Zenon
  <1>4. DOMAIN r = 1..(Len(s) + 1) /\ r[1] = e
    BY <1>1, <1>2, <1>3
  <1>5. ASSUME NEW j \in 1..Len(s) PROVE r[j + 1] = s[j]
    <2>1. j + 1 \in 1..(Len(u) + Len(s)) /\ ~ (j + 1 <= Len(u)) /\ j + 1 - Len(u) = j
      BY <1>1, <1>3
    <2>2. r[j + 1] = IF j + 1 <= Len(u) THEN u[j + 1] ELSE s[j + 1 - Len(u)]
      BY <1>2, <2>1
    <2>3. QED
      BY <2>1, <2>2
  <1>6. QED
    BY <1>2, <1>4, <1>5, Zenon DEF r, u

(***************************************************************************)
(* Tables                                                                  *)
(***************************************************************************)

\* The records of a table are those of its chains.
LEMMA Shape ==
  ASSUME NEW h, Sound(h)
  PROVE  /\ h.buckets \in Nat \ {0} /\ h.head \in 0..(h.buckets - 1)
         /\ DOMAIN h.table = 0..(h.buckets - 1)
         /\ \A b \in 0..(h.buckets - 1) :
              /\ h.table[b] \in Seq(Entry)
              /\ Len(h.table[b]) \in Nat
              /\ DOMAIN h.table[b] = 1..Len(h.table[b])
              /\ \A j \in DOMAIN h.table[b] : h.table[b][j] \in Entry
         /\ \A e : e \in Entries(h)
              <=> \E b \in 0..(h.buckets - 1) : \E j \in DOMAIN h.table[b] : h.table[b][j] = e
         /\ Entries(h) \subseteq Entry
  <1>1. /\ h.buckets \in Nat \ {0} /\ h.head \in 0..(h.buckets - 1)
        /\ h.table \in [0..(h.buckets - 1) -> Seq(Entry)]
    BY Zenon DEF Sound
  <1>2. DOMAIN h.table = 0..(h.buckets - 1)
    BY <1>1, Zenon
  <1>3. ASSUME NEW b \in 0..(h.buckets - 1)
        PROVE  /\ h.table[b] \in Seq(Entry)
               /\ Len(h.table[b]) \in Nat
               /\ DOMAIN h.table[b] = 1..Len(h.table[b])
               /\ \A j \in DOMAIN h.table[b] : h.table[b][j] \in Entry
    <2>1. h.table[b] \in Seq(Entry)
      BY <1>1, Zenon
    <2>2. QED
      BY <2>1, LenProperties, ElementOfSeq, Zenon
  <1>4. \A e : e \in Entries(h)
          <=> \E b \in 0..(h.buckets - 1) : \E j \in DOMAIN h.table[b] : h.table[b][j] = e
    BY <1>2 DEF Entries, Range
  <1>5. Entries(h) \subseteq Entry
    BY <1>3, <1>4
  <1>6. QED
    BY <1>1, <1>2, <1>3, <1>4, <1>5

\* A key is in the table once.
LEMMA Once ==
  ASSUME NEW h, Sound(h),
         NEW b \in 0..(h.buckets - 1), NEW i \in DOMAIN h.table[b],
         NEW c \in 0..(h.buckets - 1), NEW j \in DOMAIN h.table[c],
         h.table[b][i].key = h.table[c][j].key
  PROVE  b = c /\ i = j
  <1>1. Bucket(h, h.table[b][i].key) = b /\ Bucket(h, h.table[c][j].key) = c
    BY Zenon DEF Sound
  <1>2. Distinct(h.table[b])
    BY Zenon DEF Sound
  <1>3. QED
    BY <1>1, <1>2, Zenon DEF Distinct

\* The record with a key is in the bucket of the key, and first there.
LEMMA Found ==
  ASSUME NEW h, Sound(h), NEW e \in Entries(h)
  PROVE  LET b == Bucket(h, e.key) IN
         /\ e \in Entry /\ b \in 0..(h.buckets - 1)
         /\ e.key \in KeysOf(h.table[b])
         /\ First(h.table[b], e.key) \in DOMAIN h.table[b]
         /\ h.table[b][First(h.table[b], e.key)] = e
  <1>1. PICK b \in 0..(h.buckets - 1) : \E j \in DOMAIN h.table[b] : h.table[b][j] = e
    BY Shape, Zenon
  <1>2. PICK j \in DOMAIN h.table[b] : h.table[b][j] = e
    BY <1>1, Zenon
  <1>3. b = Bucket(h, e.key) /\ Distinct(h.table[b])
    BY <1>2, Zenon DEF Sound
  <1>4. h.table[b] \in Seq(Entry) /\ e \in Entry
    BY Shape, Zenon
  <1>5. First(h.table[b], e.key) = j
    BY <1>2, <1>3, <1>4, FirstIs, Zenon
  <1>6. e.key \in KeysOf(h.table[b])
    BY <1>2, Zenon DEF KeysOf, Range
  <1>7. QED
    BY <1>2, <1>3, <1>4, <1>5, <1>6, Zenon

\* Two records of a table have two keys.
LEMMA Unique ==
  ASSUME NEW h, Sound(h), NEW e \in Entries(h), NEW f \in Entries(h), e.key = f.key
  PROVE  e = f
  <1>1. h.table[Bucket(h, e.key)][First(h.table[Bucket(h, e.key)], e.key)] = e
    BY Found, Zenon
  <1>2. h.table[Bucket(h, f.key)][First(h.table[Bucket(h, f.key)], f.key)] = f
    BY Found, Zenon
  <1>3. QED
    BY <1>1, <1>2, Zenon

\* A key that is not in its bucket is nowhere.
LEMMA Absent ==
  ASSUME NEW h, Sound(h), NEW k \in Keys
  PROVE  k \in KeysOf(h.table[Bucket(h, k)]) <=> k \in AllKeys(h)
  <1>1. ASSUME k \in AllKeys(h) PROVE k \in KeysOf(h.table[Bucket(h, k)])
    BY <1>1, Found, Zenon DEF AllKeys
  <1>2. ASSUME k \in KeysOf(h.table[Bucket(h, k)]) PROVE k \in AllKeys(h)
    <2>1. Bucket(h, k) \in DOMAIN h.table
      BY BucketIs, Shape, Zenon
    <2>2. PICK e \in Range(h.table[Bucket(h, k)]) : e.key = k
      BY <1>2, Zenon DEF KeysOf
    <2>3. e \in Entries(h)
      BY <2>1, <2>2, Zenon DEF Entries
    <2>4. QED
      BY <2>2, <2>3, Zenon DEF AllKeys
  <1>3. QED
    BY <1>1, <1>2, Zenon

\* ht_lookup returns the value of the record with the key, or NULL if there is none.
LEMMA LookupIs ==
  ASSUME NEW h, Sound(h), NEW k \in Keys
  PROVE  /\ \A e \in Entries(h) : e.key = k => Lookup(h, k) = e.val /\ e.val \in Values
         /\ k \notin AllKeys(h) => Lookup(h, k) = Null
  <1>1. ASSUME NEW e \in Entries(h), e.key = k
        PROVE  Lookup(h, k) = e.val /\ e.val \in Values
    <2>1. e.val \in Values
      BY Found DEF Entry
    <2>2. QED
      BY <1>1, <2>1, Found, Zenon DEF Lookup
  <1>2. ASSUME k \notin AllKeys(h) PROVE Lookup(h, k) = Null
    BY <1>2, Absent, Zenon DEF Lookup
  <1>3. QED
    BY <1>1, <1>2, Zenon

\* A new table is sound, and empty.
LEMMA EmptyIs ==
  ASSUME NEW n \in Nat \ {0}
  PROVE  /\ Sound(EmptyTable(n)) /\ Entries(EmptyTable(n)) = {}
         /\ EmptyTable(n).buckets = n /\ EmptyTable(n).records = 0
  <1> DEFINE h == EmptyTable(n)
  <1>1. /\ h = [table |-> h.table, buckets |-> h.buckets, head |-> h.head, records |-> h.records]
        /\ h.buckets = n /\ h.head = 0 /\ h.records = 0
        /\ h.table = [b \in 0..(n - 1) |-> <<>>]
    BY DEF EmptyTable
  <1> HIDE DEF h
  <1>2. /\ DOMAIN h.table = 0..(n - 1) /\ \A b \in 0..(n - 1) : h.table[b] = <<>>
        /\ h.table \in [0..(n - 1) -> Seq(Entry)]
    BY <1>1
  <1>3. DOMAIN <<>> = {}
    OBVIOUS
  <1>4. Entries(h) = {}
    BY <1>2, <1>3 DEF Entries, Range
  <1>5. IsFiniteSet(Entries(h)) /\ h.records = Cardinality(Entries(h))
    BY <1>1, <1>4, FS_EmptySet, Zenon
  <1>6. \A b \in 0..(n - 1) :
          /\ Distinct(h.table[b])
          /\ \A i \in DOMAIN h.table[b] : Bucket(h, h.table[b][i].key) = b
          /\ h.table[b] # <<>> => h.head <= b
    BY <1>2, <1>3, Zenon DEF Distinct
  <1>7. h.buckets \in Nat \ {0} /\ h.head \in 0..(h.buckets - 1)
    BY <1>1
  <1>8. Sound(h)
    BY <1>1, <1>2, <1>5, <1>6, <1>7, Zenon DEF Sound
  <1>9. QED
    BY <1>1, <1>4, <1>8, Zenon DEF h

\* g is h with s for the chain of bucket b, and perhaps another head and count.
Alters(g, h, b, s) ==
  /\ g = [table |-> g.table, buckets |-> g.buckets, head |-> g.head, records |-> g.records]
  /\ g.table = [h.table EXCEPT ![b] = s] /\ g.buckets = h.buckets

\* The records after the chain of one bucket has become s.
LEMMA Changed ==
  ASSUME NEW h, Sound(h), NEW b \in 0..(h.buckets - 1), NEW s \in Seq(Entry),
         NEW g, Alters(g, h, b, s)
  PROVE  /\ DOMAIN g.table = 0..(h.buckets - 1)
         /\ g.table[b] = s /\ \A c \in 0..(h.buckets - 1) : c # b => g.table[c] = h.table[c]
         /\ g.table \in [0..(h.buckets - 1) -> Seq(Entry)]
         /\ \A e : e \in Entries(g)
              <=> e \in Range(s) \/ (e \in Entries(h) /\ Bucket(h, e.key) # b)
  <1>1. h.table \in [0..(h.buckets - 1) -> Seq(Entry)] /\ g.table = [h.table EXCEPT ![b] = s]
    BY Zenon DEF Sound, Alters
  <1>2. /\ DOMAIN g.table = 0..(h.buckets - 1)
        /\ g.table[b] = s /\ \A c \in 0..(h.buckets - 1) : c # b => g.table[c] = h.table[c]
        /\ g.table \in [0..(h.buckets - 1) -> Seq(Entry)]
    BY <1>1, Zenon
  <1>3. \A x : \A f : x \in Entries(f) <=> \E c \in DOMAIN f.table : x \in Range(f.table[c])
    BY DEF Entries
  <1>4. DOMAIN h.table = 0..(h.buckets - 1)
    BY <1>1
  <1>5. ASSUME NEW c \in 0..(h.buckets - 1), NEW e \in Range(h.table[c])
        PROVE  Bucket(h, e.key) = c
    <2>1. PICK i \in DOMAIN h.table[c] : h.table[c][i] = e
      BY <1>5 DEF Range
    <2>2. QED
      BY <2>1, Zenon DEF Sound
  <1>6. ASSUME NEW e, e \in Entries(g)
        PROVE  e \in Range(s) \/ (e \in Entries(h) /\ Bucket(h, e.key) # b)
    <2>1. PICK c \in 0..(h.buckets - 1) : e \in Range(g.table[c])
      BY <1>2, <1>3, <1>6, Zenon
    <2>2. CASE c = b
      BY <2>1, <2>2, <1>2, Zenon
    <2>3. CASE c # b
      <3>1. e \in Range(h.table[c])
        BY <2>1, <2>3, <1>2, Zenon
      <3>2. Bucket(h, e.key) = c
        BY <3>1, <1>5, Zenon
      <3>3. e \in Entries(h)
        BY <3>1, <1>3, <1>4, Zenon
      <3>4. QED
        BY <2>3, <3>2, <3>3, Zenon
    <2>4. QED
      BY <2>2, <2>3, Zenon
  <1>7. ASSUME NEW e, e \in Range(s) PROVE e \in Entries(g)
    BY <1>2, <1>3, <1>7, Zenon
  <1>8. ASSUME NEW e, e \in Entries(h), Bucket(h, e.key) # b PROVE e \in Entries(g)
    <2>1. PICK c \in 0..(h.buckets - 1) : e \in Range(h.table[c])
      BY <1>3, <1>4, <1>8, Zenon
    <2>2. c # b
      BY <2>1, <1>5, <1>8, Zenon
    <2>3. QED
      BY <2>1, <2>2, <1>2, <1>3, Zenon
  <1>9. QED
    BY <1>2, <1>6, <1>7, <1>8, Zenon

\* What makes that table sound.
LEMMA Rechained ==
  ASSUME NEW h, Sound(h), NEW b \in 0..(h.buckets - 1), NEW s \in Seq(Entry),
         Distinct(s), \A i \in DOMAIN s : Bucket(h, s[i].key) = b,
         NEW g, Alters(g, h, b, s), g.head \in 0..(h.buckets - 1),
         s # <<>> => g.head <= b,
         \A c \in 0..(h.buckets - 1) : c # b /\ h.table[c] # <<>> => g.head <= c,
         IsFiniteSet(Entries(g)), g.records = Cardinality(Entries(g))
  PROVE  Sound(g)
  <1>1. /\ g = [table |-> g.table, buckets |-> g.buckets, head |-> g.head, records |-> g.records]
        /\ g.buckets = h.buckets
    BY Zenon DEF Alters
  <1>2. /\ g.table[b] = s /\ \A c \in 0..(h.buckets - 1) : c # b => g.table[c] = h.table[c]
        /\ g.table \in [0..(h.buckets - 1) -> Seq(Entry)]
    BY Changed
  <1>3. \A k : Bucket(g, k) = Bucket(h, k)
    BY <1>1, Zenon DEF Bucket
  <1>4. ASSUME NEW c \in 0..(h.buckets - 1)
        PROVE  /\ Distinct(g.table[c])
               /\ \A i \in DOMAIN g.table[c] : Bucket(g, g.table[c][i].key) = c
               /\ g.table[c] # <<>> => g.head <= c
    <2>1. CASE c = b
      BY <2>1, <1>1, <1>2, <1>3, Zenon
    <2>2. CASE c # b
      <3>1. g.table[c] = h.table[c]
        BY <2>2, <1>2, Zenon
      <3>2. Distinct(h.table[c]) /\ \A i \in DOMAIN h.table[c] : Bucket(h, h.table[c][i].key) = c
        BY Zenon DEF Sound
      <3>3. QED
        BY <2>2, <3>1, <3>2, <1>1, <1>3
    <2>3. QED
      BY <2>1, <2>2, Zenon
  <1>5. h.buckets \in Nat \ {0}
    BY Zenon DEF Sound
  <1>6. QED
    BY <1>1, <1>2, <1>4, <1>5, Zenon DEF Sound

\* ht_insert adds one record and keeps a table sound.
LEMMA PlaceIs ==
  ASSUME NEW h, Sound(h), NEW e \in Entry, e.key \notin AllKeys(h)
  PROVE  /\ Sound(Place(h, e)) /\ Entries(Place(h, e)) = Entries(h) \cup {e}
         /\ Place(h, e).buckets = h.buckets /\ Place(h, e).records = h.records + 1
  <1> DEFINE b == Bucket(h, e.key)
             s == <<e>> \o h.table[b]
             head == IF b < h.head \/ h.records = 0 THEN b ELSE h.head
             g == Place(h, e)
  <1>1. e.key \in Keys
    BY DEF Entry
  <1>2. b \in 0..(h.buckets - 1) /\ h.buckets \in Nat /\ h.head \in 0..(h.buckets - 1)
    BY <1>1, BucketIs, Shape, Zenon
  <1>3. g = [table |-> [h.table EXCEPT ![b] = s], buckets |-> h.buckets,
             head |-> head, records |-> h.records + 1]
    BY Zenon DEF Place
  <1> HIDE DEF g
  <1>4. h.table[b] \in Seq(Entry) /\ DOMAIN h.table[b] = 1..Len(h.table[b])
        /\ Len(h.table[b]) \in Nat /\ DOMAIN h.table = 0..(h.buckets - 1)
    BY <1>2, Shape, Zenon
  <1>5. /\ s \in Seq(Entry) /\ DOMAIN s = 1..(Len(h.table[b]) + 1) /\ s[1] = e
        /\ \A j \in 1..Len(h.table[b]) : s[j + 1] = h.table[b][j]
    BY <1>4, ConsIs
  <1> HIDE DEF s
  <1>6. ASSUME NEW i \in DOMAIN s, i # 1
        PROVE  i - 1 \in DOMAIN h.table[b] /\ s[i] = h.table[b][i - 1]
    <2>1. i - 1 \in 1..Len(h.table[b]) /\ (i - 1) + 1 = i
      BY <1>4, <1>5, <1>6
    <2>2. QED
      BY <2>1, <1>4, <1>5, Zenon
  <1>7. \A j \in DOMAIN h.table[b] : h.table[b][j].key # e.key /\ Bucket(h, h.table[b][j].key) = b
    <2>1. ASSUME NEW j \in DOMAIN h.table[b] PROVE h.table[b][j].key # e.key
      <3>1. h.table[b][j] \in Entries(h)
        BY <1>2, Shape, Zenon
      <3>2. QED
        BY <3>1, Zenon DEF AllKeys
    <2>2. \A j \in DOMAIN h.table[b] : Bucket(h, h.table[b][j].key) = b
      BY <1>2, Zenon DEF Sound
    <2>3. QED
      BY <2>1, <2>2, Zenon
  <1> HIDE DEF b
  <1>8. Distinct(s)
    <2>1. SUFFICES ASSUME NEW i \in DOMAIN s, NEW j \in DOMAIN s, s[i].key = s[j].key
                   PROVE  i = j
      BY Zenon DEF Distinct
    <2> DEFINE Rest(x) == x # 1 => s[x].key # e.key
    <2>r. Rest(i) /\ Rest(j)
      BY <1>6, <1>7, Zenon
    <2>2. CASE i = 1 \/ j = 1
      BY <2>1, <2>2, <2>r, <1>5, Zenon
    <2>3. CASE i # 1 /\ j # 1
      <3>1. Distinct(h.table[b])
        BY <1>2, Zenon DEF Sound
      <3>2. /\ i - 1 \in DOMAIN h.table[b] /\ s[i] = h.table[b][i - 1]
            /\ j - 1 \in DOMAIN h.table[b] /\ s[j] = h.table[b][j - 1]
        BY <2>3, <1>6, Zenon
      <3>3. h.table[b][i - 1].key = h.table[b][j - 1].key
        BY <2>1, <3>2, Zenon
      <3>4. i - 1 = j - 1
        BY <3>1, <3>2, <3>3, Zenon DEF Distinct
      <3>5. QED
        BY <3>4, <1>4, <1>5
    <2>4. QED
      BY <2>2, <2>3, Zenon
  <1>9. \A i \in DOMAIN s : Bucket(h, s[i].key) = b
    BY <1>5, <1>6, <1>7, Zenon DEF b
  <1>10. /\ Alters(g, h, b, s)
         /\ g.head = head /\ g.buckets = h.buckets /\ g.records = h.records + 1
    BY <1>3 DEF Alters
  <1>11. Range(s) = Range(h.table[b]) \cup {e}
    <2>1. 1 \in DOMAIN s
      BY <1>4, <1>5
    <2>2. \A j \in DOMAIN h.table[b] : j + 1 \in DOMAIN s
      BY <1>4, <1>5
    <2>3. ASSUME NEW x \in Range(s) PROVE x \in Range(h.table[b]) \cup {e}
      BY <2>3, <1>5, <1>6 DEF Range
    <2>4. ASSUME NEW x \in Range(h.table[b]) PROVE x \in Range(s)
      BY <2>4, <2>2, <1>4, <1>5 DEF Range
    <2>5. e \in Range(s)
      BY <2>1, <1>5 DEF Range
    <2>6. QED
      BY <2>3, <2>4, <2>5
  <1>12. Entries(g) = Entries(h) \cup {e}
    <2>1. \A x : x \in Entries(g) <=> x \in Range(s) \/ (x \in Entries(h) /\ Bucket(h, x.key) # b)
      BY <1>2, <1>5, <1>10, Changed
    <2>2. \A x : x \in Range(h.table[b]) => x \in Entries(h)
      BY <1>2, <1>4 DEF Entries
    <2>3. \A x \in Entries(h) : Bucket(h, x.key) = b => x \in Range(h.table[b])
      <3>1. SUFFICES ASSUME NEW x \in Entries(h), Bucket(h, x.key) = b
                     PROVE  \E j \in DOMAIN h.table[b] : h.table[b][j] = x
        BY DEF Range
      <3>2. QED
        BY <3>1, Found, Zenon
    <2>4. QED
      BY <2>1, <2>2, <2>3, <1>11
  <1>13. IsFiniteSet(Entries(g)) /\ h.records + 1 = Cardinality(Entries(g))
    <2>1. e \notin Entries(h)
      BY Zenon DEF AllKeys
    <2>2. IsFiniteSet(Entries(h)) /\ h.records = Cardinality(Entries(h))
      BY Zenon DEF Sound
    <2>3. QED
      BY <2>1, <2>2, <1>12, FS_AddElement, Zenon
  <1>14. /\ head \in 0..(h.buckets - 1) /\ head <= b
         /\ \A c \in 0..(h.buckets - 1) : c # b /\ h.table[c] # <<>> => head <= c
    <2>1. \A c \in 0..(h.buckets - 1) : h.table[c] # <<>> => h.head <= c
      BY Zenon DEF Sound
    <2>2. CASE h.records = 0
      <3>1. ASSUME NEW c \in 0..(h.buckets - 1), h.table[c] # <<>> PROVE FALSE
        <4>1. Entries(h) = {}
          BY <2>2, FS_EmptySet, Zenon DEF Sound
        <4>2. h.table[c] \in Seq(Entry)
          BY Shape, Zenon
        <4>3. 1 \in DOMAIN h.table[c]
          BY <4>2, <3>1
        <4>4. h.table[c][1] \in Entries(h)
          BY <4>3, Shape, Zenon
        <4>5. QED
          BY <4>1, <4>4, Zenon
      <3>2. head = b
        BY <2>2, Zenon
      <3>3. QED
        BY <3>1, <3>2, <1>2
    <2>3. CASE h.records # 0
      BY <2>1, <2>3, <1>2
    <2>4. QED
      BY <2>2, <2>3, Zenon
  <1> HIDE DEF head
  <1>15. Sound(g)
    BY <1>2, <1>5, <1>8, <1>9, <1>10, <1>13, <1>14, Rechained, Zenon
  <1>16. QED
    BY <1>10, <1>12, <1>15, Zenon DEF g

\* Where the records of a chain were before record i was removed.
Was(i, j) == IF j < i THEN j ELSE j + 1

\* They are as they were, but for their places.
Shortened(r, chain, i) ==
  /\ r \in Seq(Entry)
  /\ DOMAIN r = 1..(Len(chain) - 1) /\ DOMAIN chain = 1..Len(chain) /\ Len(chain) \in Nat
  /\ \A j \in DOMAIN r :
       Was(i, j) \in DOMAIN chain /\ Was(i, j) # i /\ r[j] = chain[Was(i, j)]
  /\ \A x \in DOMAIN chain : x # i => \E j \in DOMAIN r : Was(i, j) = x

\* ht_remove takes record i out of its chain.
LEMMA CutPlaces ==
  ASSUME NEW chain \in Seq(Entry), NEW i \in DOMAIN chain
  PROVE  Shortened(Unlinked(chain, i), chain, i)
  <1> DEFINE r == Unlinked(chain, i)  n == Len(chain)
  <1>1. n \in Nat /\ DOMAIN chain = 1..n
    BY LenProperties, Zenon
  <1>2. /\ r \in Seq(Entry) /\ DOMAIN r = 1..(n - 1)
        /\ \A j \in 1..(n - 1) : r[j] = IF j < i THEN chain[j] ELSE chain[j + 1]
    BY UnlinkedIs, Zenon
  <1> HIDE DEF r, n
  <1>3. ASSUME NEW j \in DOMAIN r
        PROVE  Was(i, j) \in DOMAIN chain /\ Was(i, j) # i
    BY <1>1, <1>2 DEF Was
  <1>4. \A j \in DOMAIN r : r[j] = chain[Was(i, j)]
    BY <1>2 DEF Was
  <1>5. ASSUME NEW x \in DOMAIN chain, x # i PROVE \E j \in DOMAIN r : Was(i, j) = x
    <2>1. CASE x < i
      <3>1. x \in DOMAIN r /\ Was(i, x) = x
        BY <2>1, <1>1, <1>2 DEF Was
      <3>2. QED
        BY <3>1, Zenon
    <2>2. CASE ~ (x < i)
      <3>1. x - 1 \in DOMAIN r /\ Was(i, x - 1) = x
        BY <2>2, <1>1, <1>2, <1>5 DEF Was
      <3>2. QED
        BY <3>1, Zenon
    <2>3. QED
      BY <2>1, <2>2, Zenon
  <1>6. QED
    BY <1>1, <1>2, <1>3, <1>4, <1>5, Zenon DEF Shortened, r, n

\* The chain without one of its records.
LEMMA Cut ==
  ASSUME NEW chain \in Seq(Entry), Distinct(chain), NEW i \in DOMAIN chain
  PROVE  LET r == Unlinked(chain, i) IN
         r \in Seq(Entry) /\ Distinct(r) /\ Range(r) = Range(chain) \ {chain[i]}
  <1> DEFINE r == Unlinked(chain, i)
  <1>0. Shortened(r, chain, i)
    BY CutPlaces, Zenon
  <1>1. /\ r \in Seq(Entry)
        /\ DOMAIN r = 1..(Len(chain) - 1) /\ DOMAIN chain = 1..Len(chain) /\ Len(chain) \in Nat
    BY <1>0, Zenon DEF Shortened
  <1>2. \A j \in DOMAIN r :
          Was(i, j) \in DOMAIN chain /\ Was(i, j) # i /\ r[j] = chain[Was(i, j)]
    BY <1>0, Zenon DEF Shortened
  <1>3. \A x \in DOMAIN chain : x # i => \E j \in DOMAIN r : Was(i, j) = x
    BY <1>0, Zenon DEF Shortened
  <1> HIDE DEF r
  <1>4. Distinct(r)
    <2>1. SUFFICES ASSUME NEW j \in DOMAIN r, NEW m \in DOMAIN r, r[j].key = r[m].key
                   PROVE  j = m
      BY Zenon DEF Distinct
    <2>2. chain[Was(i, j)].key = chain[Was(i, m)].key
      BY <2>1, <1>2, Zenon
    <2>3. Was(i, j) = Was(i, m)
      BY <2>2, <1>2, Zenon DEF Distinct
    <2>4. QED
      BY <2>3, <1>1 DEF Was
  <1>5. ASSUME NEW x \in Range(r) PROVE x \in Range(chain) \ {chain[i]}
    <2>1. PICK j \in DOMAIN r : r[j] = x
      BY DEF Range
    <2>2. Was(i, j) \in DOMAIN chain /\ Was(i, j) # i /\ x = chain[Was(i, j)]
      BY <2>1, <1>2, Zenon
    <2>3. x # chain[i]
      BY <2>2, Zenon DEF Distinct
    <2>4. QED
      BY <2>2, <2>3 DEF Range
  <1>6. ASSUME NEW x \in Range(chain), x # chain[i] PROVE x \in Range(r)
    <2>1. PICK j \in DOMAIN chain : chain[j] = x
      BY DEF Range
    <2>2. j # i
      BY <1>6, <2>1, Zenon
    <2>3. PICK m \in DOMAIN r : Was(i, m) = j
      BY <1>3, <2>2, Zenon
    <2>4. r[m] = x
      BY <1>2, <2>1, <2>3, Zenon
    <2>5. QED
      BY <2>4 DEF Range
  <1>7. Range(r) = Range(chain) \ {chain[i]}
    BY <1>5, <1>6
  <1>8. QED
    BY <1>1, <1>4, <1>7, Zenon DEF r

\* The count is a number.
LEMMA Counted ==
  ASSUME NEW h, Sound(h)
  PROVE  h.records \in Nat
  <1>1. IsFiniteSet(Entries(h)) /\ h.records = Cardinality(Entries(h))
    BY Zenon DEF Sound
  <1>2. Cardinality(Entries(h)) \in Nat
    BY <1>1, FS_CardinalityType, Zenon
  <1>3. QED
    BY <1>1, <1>2, Zenon

\* Record i of bucket b, which is e, has been removed from h.
Removed(g, h, e, b, i) ==
  /\ Sound(g) /\ Entries(g) = Entries(h) \ {e}
  /\ Alters(g, h, b, Unlinked(h.table[b], i))
  /\ g.records = h.records - 1

\* ht_remove of the record with a key.
LEMMA RemoveOne ==
  ASSUME NEW h, Sound(h), NEW e \in Entries(h)
  PROVE  Removed(HtRemove(h, e.key), h, e, Bucket(h, e.key),
                 First(h.table[Bucket(h, e.key)], e.key))
  <1> DEFINE g == HtRemove(h, e.key)
             b == Bucket(h, e.key)
             i == First(h.table[b], e.key)
             r == Unlinked(h.table[b], i)
  <1>1. /\ b \in 0..(h.buckets - 1) /\ e.key \in KeysOf(h.table[b])
        /\ i \in DOMAIN h.table[b] /\ h.table[b][i] = e
    BY Found, Zenon
  <1>2. g = [table |-> [h.table EXCEPT ![b] = r], buckets |-> h.buckets,
             head |-> h.head, records |-> h.records - 1]
    BY <1>1, Zenon DEF HtRemove
  <1> HIDE DEF g
  <1>3. Alters(g, h, b, r) /\ g.head = h.head /\ g.records = h.records - 1
    BY <1>2 DEF Alters
  <1>4. h.table[b] \in Seq(Entry) /\ Distinct(h.table[b])
        /\ DOMAIN h.table = 0..(h.buckets - 1)
    BY <1>1, Shape, Zenon DEF Sound
  <1>5. r \in Seq(Entry) /\ Distinct(r) /\ Range(r) = Range(h.table[b]) \ {e}
    BY <1>1, <1>4, Cut, Zenon
  <1> HIDE DEF r, i
  <1>6. \A x : x \in Range(h.table[b]) <=> x \in Entries(h) /\ Bucket(h, x.key) = b
    <2>1. ASSUME NEW x \in Range(h.table[b])
          PROVE  x \in Entries(h) /\ Bucket(h, x.key) = b
      <3>1. PICK j \in DOMAIN h.table[b] : h.table[b][j] = x
        BY DEF Range
      <3>2. Bucket(h, x.key) = b
        BY <1>1, <3>1, Zenon DEF Sound
      <3>3. x \in Entries(h)
        BY <1>1, <3>1, Shape, Zenon
      <3>4. QED
        BY <3>2, <3>3, Zenon
    <2>2. ASSUME NEW x \in Entries(h), Bucket(h, x.key) = b PROVE x \in Range(h.table[b])
      <3>1. LET c == h.table[Bucket(h, x.key)] IN
            First(c, x.key) \in DOMAIN c /\ c[First(c, x.key)] = x
        BY Found, Zenon
      <3>2. QED
        BY <2>2, <3>1 DEF Range
    <2>3. QED
      BY <2>1, <2>2, Zenon
  <1>7. Entries(g) = Entries(h) \ {e}
    <2>1. \A x : x \in Entries(g) <=> x \in Range(r) \/ (x \in Entries(h) /\ Bucket(h, x.key) # b)
      BY <1>1, <1>3, <1>5, Changed
    <2>2. QED
      BY <2>1, <1>5, <1>6
  <1>8. IsFiniteSet(Entries(g)) /\ g.records = Cardinality(Entries(g))
    <2>1. IsFiniteSet(Entries(h)) /\ h.records = Cardinality(Entries(h))
      BY Zenon DEF Sound
    <2>2. QED
      BY <2>1, <1>3, <1>7, FS_RemoveElement, Zenon
  <1>9. /\ g.head \in 0..(h.buckets - 1) /\ g.head <= b
        /\ \A c \in 0..(h.buckets - 1) : c # b /\ h.table[c] # <<>> => g.head <= c
    <2>1. h.table[b] # <<>>
      BY <1>1
    <2>2. QED
      BY <2>1, <1>1, <1>3, Zenon DEF Sound
  <1>10. \A j \in DOMAIN r : Bucket(h, r[j].key) = b
    <2>1. \A j \in DOMAIN r : r[j] \in Range(r)
      BY DEF Range
    <2>2. QED
      BY <2>1, <1>5, <1>6
  <1>11. Sound(g)
    BY <1>1, <1>3, <1>5, <1>8, <1>9, <1>10, Rechained, Zenon
  <1>12. QED
    BY <1>3, <1>7, <1>11, Zenon DEF Removed, g, r, i, b

\* ht_remove removes the record with the key, if there is one, and no other.
LEMMA RemoveIs ==
  ASSUME NEW h, Sound(h), NEW k \in Keys
  PROVE  /\ Sound(HtRemove(h, k))
         /\ Entries(HtRemove(h, k)) = {e \in Entries(h) : e.key # k}
         /\ HtRemove(h, k).buckets = h.buckets
         /\ HtRemove(h, k).records \in Nat /\ HtRemove(h, k).records <= h.records
  <1>1. h.records \in Nat
    BY Counted, Zenon
  <1>2. CASE k \in AllKeys(h)
    <2>1. PICK e \in Entries(h) : e.key = k
      BY <1>2, Zenon DEF AllKeys
    <2> DEFINE g == HtRemove(h, k)
    <2>2. Removed(g, h, e, Bucket(h, k), First(h.table[Bucket(h, k)], k))
      BY <2>1, RemoveOne, Zenon
    <2> HIDE DEF g
    <2>3. \A x \in Entries(h) : x.key = k <=> x = e
      BY <2>1, Unique, Zenon
    <2>4. Entries(g) = {x \in Entries(h) : x.key # k}
      BY <2>2, <2>3 DEF Removed
    <2>5. g.buckets = h.buckets
      BY <2>2, Zenon DEF Removed, Alters
    <2>6. g.records \in Nat
      BY <2>2, Counted, Zenon DEF Removed
    <2>7. g.records <= h.records
      BY <2>2, <1>1 DEF Removed
    <2>8. QED
      BY <2>2, <2>4, <2>5, <2>6, <2>7, Zenon DEF Removed, g
  <1>3. CASE k \notin AllKeys(h)
    <2>1. HtRemove(h, k) = h
      BY <1>3, Absent, Zenon DEF HtRemove
    <2>2. \A e \in Entries(h) : e.key # k
      BY <1>3, Zenon DEF AllKeys
    <2>3. Entries(h) = {e \in Entries(h) : e.key # k}
      BY <2>2
    <2>4. h.records <= h.records
      BY <1>1
    <2>5. QED
      BY <2>1, <2>3, <2>4, <1>1, Zenon
  <1>4. QED
    BY <1>2, <1>3, Zenon

(***************************************************************************)
(* Positions                                                               *)
(***************************************************************************)

\* Two places of the table, in the order of the buckets and their chains.
Later(b, i, c, j) == c > b \/ (c = b /\ j >= i)

\* What p has ahead is at record i of bucket b or after it, or only after it.
AheadFrom(h, p, b, i) ==
  \A c \in 0..(h.buckets - 1) : \A j \in DOMAIN h.table[c] :
    h.table[c][j] \in Ahead(h, p) <=> Later(b, i, c, j)
AheadAfter(h, p, b, i) ==
  \A c \in 0..(h.buckets - 1) : \A j \in DOMAIN h.table[c] :
    h.table[c][j] \in Ahead(h, p) <=> Later(b, i, c, j) /\ ~ (c = b /\ j = i)

\* A position on record i of bucket b has ahead what is there or after.
LEMMA AheadIs ==
  ASSUME NEW h, Sound(h), NEW p \in Position, p.key # Null, p.bucket \in 0..(h.buckets - 1),
         NEW i \in DOMAIN h.table[p.bucket], h.table[p.bucket][i].key = p.key
  PROVE  /\ Stands(h, p) /\ First(h.table[p.bucket], p.key) = i
         /\ AheadFrom(h, p, p.bucket, i)
  <1> DEFINE b == p.bucket
  <1>1. Stands(h, p)
    BY DEF Stands, KeysOf, Range
  <1>2. h.table[b] \in Seq(Entry) /\ Distinct(h.table[b])
    BY Shape, Zenon DEF Sound
  <1>3. First(h.table[b], p.key) = i
    BY <1>2, FirstIs, Zenon
  <1>4. ASSUME NEW c \in 0..(h.buckets - 1), NEW j \in DOMAIN h.table[c]
        PROVE  NotBefore(h, p, c, j) <=> Later(b, i, c, j)
    <2>1. DOMAIN h.table[b] = 1..Len(h.table[b]) /\ Len(h.table[b]) \in Nat
      BY Shape, Zenon
    <2>2. CASE c = b
      <3>1. \A m \in DOMAIN h.table[b] : h.table[b][m].key = p.key <=> m = i
        BY <1>2, Zenon DEF Distinct
      <3>2. 1..j \subseteq DOMAIN h.table[b] /\ i \in Nat /\ j \in Nat /\ i >= 1
        BY <1>4, <2>1, <2>2
      <3>3. (\E m \in 1..j : h.table[b][m].key = p.key) <=> i \in 1..j
        BY <3>1, <3>2
      <3>4. ~ (c > b) /\ (i \in 1..j <=> j >= i)
        BY <2>2, <3>2
      <3>5. QED
        BY <2>2, <3>3, <3>4, Zenon DEF NotBefore, Later
    <2>3. CASE c # b
      BY <2>3, Zenon DEF NotBefore, Later
    <2>4. QED
      BY <2>2, <2>3, Zenon
  <1>5. ASSUME NEW c \in 0..(h.buckets - 1), NEW j \in DOMAIN h.table[c]
        PROVE  h.table[c][j] \in Ahead(h, p) <=> NotBefore(h, p, c, j)
    <2>1. h.table[c][j] \in Entries(h)
      BY Shape, Zenon
    <2>2. ASSUME h.table[c][j] \in Ahead(h, p) PROVE NotBefore(h, p, c, j)
      <3>1. PICK d \in 0..(h.buckets - 1) : \E m \in DOMAIN h.table[d] :
               h.table[d][m] = h.table[c][j] /\ NotBefore(h, p, d, m)
        BY <2>2, Zenon DEF Ahead
      <3>2. PICK m \in DOMAIN h.table[d] :
               h.table[d][m] = h.table[c][j] /\ NotBefore(h, p, d, m)
        BY <3>1, Zenon
      <3>3. d = c /\ m = j
        BY <3>2, Once, Zenon
      <3>4. QED
        BY <3>2, <3>3, Zenon
    <2>3. ASSUME NotBefore(h, p, c, j) PROVE h.table[c][j] \in Ahead(h, p)
      BY <2>1, <2>3, Zenon DEF Ahead
    <2>4. QED
      BY <2>2, <2>3, Zenon
  <1>6. QED
    BY <1>1, <1>3, <1>4, <1>5, Zenon DEF AheadFrom

\* The end has nothing ahead.
LEMMA EndIs ==
  ASSUME NEW h, NEW p, p.key = Null
  PROVE  Ahead(h, p) = {} /\ Stands(h, p)
  BY DEF Ahead, Stands

\* A position that stands is on a record.
LEMMA StandsOn ==
  ASSUME NEW h, NEW p, Stands(h, p), p.key # Null
  PROVE  /\ p.bucket \in 0..(h.buckets - 1)
         /\ \E i \in DOMAIN h.table[p.bucket] : h.table[p.bucket][i].key = p.key
  BY DEF Stands, KeysOf, Range

\* Two positions of which the second has the record e less ahead.
Passed(h, p, q, e) == Ahead(h, q) = Ahead(h, p) \ {e}

\* They are on record i of bucket b and on the next one.
LEMMA PassedOne ==
  ASSUME NEW h, Sound(h), NEW p, NEW q,
         NEW b \in 0..(h.buckets - 1), NEW i \in DOMAIN h.table[b],
         AheadFrom(h, p, b, i), AheadAfter(h, q, b, i)
  PROVE  Passed(h, p, q, h.table[b][i])
  <1>1. \A x \in Ahead(h, p) \cup Ahead(h, q) :
          \E c \in 0..(h.buckets - 1) : \E j \in DOMAIN h.table[c] : h.table[c][j] = x
    BY DEF Ahead
  <1>2. \A x \in Ahead(h, p) \cup Ahead(h, q) :
          x \in Ahead(h, q) <=> x \in Ahead(h, p) /\ x # h.table[b][i]
    <2>1. SUFFICES ASSUME NEW x \in Ahead(h, p) \cup Ahead(h, q)
                   PROVE  x \in Ahead(h, q) <=> x \in Ahead(h, p) /\ x # h.table[b][i]
      BY Zenon
    <2>2. PICK c \in 0..(h.buckets - 1) : \E j \in DOMAIN h.table[c] : h.table[c][j] = x
      BY <1>1, Zenon
    <2>3. PICK j \in DOMAIN h.table[c] : h.table[c][j] = x
      BY <2>2, Zenon
    <2>4. x = h.table[b][i] <=> c = b /\ j = i
      BY <2>3, Once, Zenon
    <2>5. /\ x \in Ahead(h, p) <=> Later(b, i, c, j)
          /\ x \in Ahead(h, q) <=> Later(b, i, c, j) /\ ~ (c = b /\ j = i)
      BY <2>3, Zenon DEF AheadFrom, AheadAfter
    <2>6. QED
      BY <2>4, <2>5, Zenon
  <1>3. QED
    BY <1>2 DEF Passed

\* ht_next passes the record it was on and no other.
LEMMA NextIs ==
  ASSUME NEW h, Sound(h), NEW p \in Position, p.key # Null, Stands(h, p)
  PROVE  /\ NextPos(h, p) \in Position /\ Stands(h, NextPos(h, p))
         /\ RecordAt(h, p) \in Ahead(h, p) /\ RecordAt(h, p).key = p.key
         /\ Ahead(h, NextPos(h, p)) = Ahead(h, p) \ {RecordAt(h, p)}
  <1> DEFINE b == p.bucket
             q == NextPos(h, p)
             later == {c \in Used(h) : c > b}
  <1>1. b \in 0..(h.buckets - 1) /\ b \in Nat /\ h.buckets \in Nat
    <2>1. b \in Nat
      BY DEF Position
    <2>2. QED
      BY <2>1, StandsOn, Shape, Zenon
  <1>2. PICK i \in DOMAIN h.table[b] : h.table[b][i].key = p.key
    BY StandsOn, Zenon
  <1>3. First(h.table[b], p.key) = i /\ AheadFrom(h, p, b, i)
    BY <1>1, <1>2, AheadIs, Zenon
  <1>4. \A c \in 0..(h.buckets - 1) :
          /\ h.table[c] \in Seq(Entry) /\ Len(h.table[c]) \in Nat
          /\ DOMAIN h.table[c] = 1..Len(h.table[c])
          /\ \A j \in DOMAIN h.table[c] : h.table[c][j] \in Entry
    BY Shape, Zenon
  <1>5. RecordAt(h, p) = h.table[b][i]
    BY <1>3, Zenon DEF RecordAt
  <1>6. RecordAt(h, p) \in Ahead(h, p) /\ RecordAt(h, p).key = p.key
    <2>1. Later(b, i, b, i)
      BY <1>1, <1>2, <1>4 DEF Later
    <2>2. QED
      BY <1>1, <1>2, <1>3, <1>5, <2>1, Zenon DEF AheadFrom
  <1>7. \A c \in 0..(h.buckets - 1) : \A j \in DOMAIN h.table[c] : c \in Used(h)
    BY <1>4, Shape DEF Used
  <1>8. CASE i < Len(h.table[b])
    <2>1. q = [bucket |-> b, key |-> h.table[b][i + 1].key]
      BY <1>3, <1>8, Zenon DEF NextPos
    <2> HIDE DEF q
    <2>2. i + 1 \in DOMAIN h.table[b] /\ i \in Nat
      BY <1>1, <1>2, <1>4, <1>8
    <2>3. h.table[b][i + 1].key \in Keys
      BY <1>1, <1>4, <2>2 DEF Entry
    <2>4. q \in Position /\ q.bucket = b /\ q.key = h.table[b][i + 1].key /\ q.key # Null
      BY <1>1, <2>1, <2>3, KeysAssumption DEF Position
    <2>5. /\ Stands(h, q)
          /\ AheadFrom(h, q, b, i + 1)
      BY <1>1, <2>2, <2>4, AheadIs
    <2>6. ASSUME NEW c \in 0..(h.buckets - 1), NEW j \in DOMAIN h.table[c]
          PROVE  Later(b, i + 1, c, j) <=> Later(b, i, c, j) /\ ~ (c = b /\ j = i)
      <3>1. j \in Nat /\ c \in Nat
        BY <1>1, <1>4
      <3>2. QED
        BY <3>1, <1>1, <2>2 DEF Later
    <2>7. Ahead(h, q) = Ahead(h, p) \ {RecordAt(h, p)}
      <3>1. AheadAfter(h, q, b, i)
        BY <2>5, <2>6, Zenon DEF AheadAfter, AheadFrom
      <3>2. Passed(h, p, q, h.table[b][i])
        BY <3>1, <1>1, <1>3, PassedOne, Zenon
      <3>3. QED
        BY <3>2, <1>5, Zenon DEF Passed
    <2>8. QED
      BY <2>4, <2>5, <2>7, <1>6, Zenon DEF q
  <1>9. CASE ~ (i < Len(h.table[b])) /\ later = {}
    <2>1. q = NoPos
      BY <1>3, <1>9, Zenon DEF NextPos
    <2> HIDE DEF q
    <2>2. q \in Position /\ q.key = Null
      BY <2>1 DEF NoPos, Position
    <2>3. Stands(h, q) /\ Ahead(h, q) = {}
      BY <2>2, EndIs, Zenon
    <2>4. ASSUME NEW c \in 0..(h.buckets - 1), NEW j \in DOMAIN h.table[c], Later(b, i, c, j)
          PROVE  c = b /\ j = i
      <3>1. ~ (c > b)
        BY <1>7, <1>9
      <3>2. QED
        BY <2>4, <3>1, <1>1, <1>2, <1>4, <1>9 DEF Later
    <2>5. Ahead(h, q) = Ahead(h, p) \ {RecordAt(h, p)}
      <3>1. AheadAfter(h, q, b, i)
        BY <2>3, <2>4, Zenon DEF AheadAfter
      <3>2. Passed(h, p, q, h.table[b][i])
        BY <3>1, <1>1, <1>3, PassedOne, Zenon
      <3>3. QED
        BY <3>2, <1>5, Zenon DEF Passed
    <2>6. QED
      BY <2>2, <2>3, <2>5, <1>6, Zenon DEF q
  <1>10. CASE ~ (i < Len(h.table[b])) /\ later # {}
    <2> DEFINE m == Min(later)
    <2>1. later \subseteq Nat
      BY Shape DEF Used
    <2>2. m \in later /\ \A c \in later : m <= c
      BY <2>1, <1>10, LeastOf, Zenon
    <2>3. q = Top(h, m)
      BY <1>3, <1>10, Zenon DEF NextPos
    <2> HIDE DEF q, m
    <2>4. m \in Nat /\ m > b /\ m \in 0..(h.buckets - 1) /\ h.table[m] # <<>>
      BY <2>1, <2>2, Shape DEF Used
    <2>5. 1 \in DOMAIN h.table[m] /\ h.table[m][1].key \in Keys
      BY <1>4, <2>4 DEF Entry
    <2>6. q \in Position /\ q.bucket = m /\ q.key = h.table[m][1].key /\ q.key # Null
      BY <2>3, <2>4, <2>5, KeysAssumption DEF Position, Top
    <2>7. /\ Stands(h, q)
          /\ AheadFrom(h, q, m, 1)
      BY <2>4, <2>5, <2>6, AheadIs
    <2>8. ASSUME NEW c \in 0..(h.buckets - 1), NEW j \in DOMAIN h.table[c]
          PROVE  Later(m, 1, c, j) <=> Later(b, i, c, j) /\ ~ (c = b /\ j = i)
      <3>1. c > b => m <= c
        BY <1>7, <2>2
      <3>2. QED
        BY <3>1, <2>4, <1>1, <1>2, <1>4, <1>10 DEF Later
    <2>9. Ahead(h, q) = Ahead(h, p) \ {RecordAt(h, p)}
      <3>1. AheadAfter(h, q, b, i)
        BY <2>7, <2>8, Zenon DEF AheadAfter, AheadFrom
      <3>2. Passed(h, p, q, h.table[b][i])
        BY <3>1, <1>1, <1>3, PassedOne, Zenon
      <3>3. QED
        BY <3>2, <1>5, Zenon DEF Passed
    <2>10. QED
      BY <2>6, <2>7, <2>9, <1>6, Zenon DEF q
  <1>11. QED
    BY <1>8, <1>9, <1>10, Zenon

\* A position with all records of the table ahead.
AtStart(h, p) == Ahead(h, p) = Entries(h)

\* The first record of the first bucket that is not empty is such a position.
LEMMA TopIs ==
  ASSUME NEW h, Sound(h), NEW b \in Used(h), \A c \in Used(h) : b <= c
  PROVE  Top(h, b) \in Position /\ Stands(h, Top(h, b)) /\ AtStart(h, Top(h, b))
  <1> DEFINE q == Top(h, b)
  <1>1. b \in 0..(h.buckets - 1) /\ h.table[b] # <<>> /\ h.buckets \in Nat /\ b \in Nat
    BY Shape DEF Used
  <1>2. \A c \in 0..(h.buckets - 1) :
          /\ h.table[c] \in Seq(Entry) /\ Len(h.table[c]) \in Nat
          /\ DOMAIN h.table[c] = 1..Len(h.table[c])
          /\ \A j \in DOMAIN h.table[c] : h.table[c][j] \in Entry
    BY Shape, Zenon
  <1>3. 1 \in DOMAIN h.table[b] /\ h.table[b][1].key \in Keys
    BY <1>1, <1>2 DEF Entry
  <1>4. q \in Position /\ q.bucket = b /\ q.key = h.table[b][1].key /\ q.key # Null
    BY <1>1, <1>3, KeysAssumption DEF Position, Top
  <1> HIDE DEF q
  <1>5. Stands(h, q) /\ AheadFrom(h, q, b, 1)
    BY <1>1, <1>3, <1>4, AheadIs, Zenon
  <1>6. ASSUME NEW x \in Entries(h) PROVE x \in Ahead(h, q)
    <2>1. PICK c \in 0..(h.buckets - 1) : \E j \in DOMAIN h.table[c] : h.table[c][j] = x
      BY Shape, Zenon
    <2>2. PICK j \in DOMAIN h.table[c] : h.table[c][j] = x
      BY <2>1, Zenon
    <2>3. c \in Used(h)
      BY <1>2, Shape DEF Used
    <2>4. b <= c /\ j \in Nat /\ j >= 1
      BY <1>2, <2>3
    <2>5. Later(b, 1, c, j)
      BY <1>1, <2>4 DEF Later
    <2>6. QED
      BY <1>5, <2>2, <2>5, Zenon DEF AheadFrom
  <1>7. AtStart(h, q)
    BY <1>6 DEF Ahead, AtStart
  <1>8. QED
    BY <1>4, <1>5, <1>7, Zenon DEF q

\* ht_start has all records ahead, unless its bucket has been emptied.
LEMMA StartIs ==
  ASSUME NEW h, Sound(h)
  PROVE  /\ StartPos(h) \in Position /\ Stands(h, StartPos(h))
         /\ h.records = 0 \/ h.table[h.head] # <<>> => AtStart(h, StartPos(h))
  <1>1. CASE h.records = 0
    <2>1. StartPos(h) = NoPos
      BY <1>1, Zenon DEF StartPos
    <2>2. NoPos \in Position /\ NoPos.key = Null
      BY DEF NoPos, Position
    <2>3. Stands(h, NoPos) /\ Ahead(h, NoPos) = {}
      BY <2>2, EndIs, Zenon
    <2>4. Entries(h) = {}
      BY <1>1, FS_EmptySet, Zenon DEF Sound
    <2>5. AtStart(h, NoPos)
      BY <2>3, <2>4, Zenon DEF AtStart
    <2>6. QED
      BY <2>1, <2>2, <2>3, <2>5, Zenon
  <1>2. CASE h.records # 0 /\ h.table[h.head] = <<>>
    <2>1. StartPos(h) = [NoPos EXCEPT !.bucket = h.head]
      BY <1>2, Zenon DEF StartPos
    <2>2. StartPos(h) \in Position /\ StartPos(h).key = Null
      <3>1. h.head \in Nat
        BY Shape
      <3>2. QED
        BY <2>1, <3>1 DEF NoPos, Position
    <2>3. QED
      BY <1>2, <2>2, EndIs, Zenon
  <1>3. CASE h.records # 0 /\ h.table[h.head] # <<>>
    <2>1. StartPos(h) = Top(h, h.head)
      BY <1>3, Zenon DEF StartPos
    <2>2. h.head \in Used(h)
      BY <1>3, Shape, Zenon DEF Used
    <2>3. \A c \in Used(h) : h.head <= c
      <3>1. \A c \in 0..(h.buckets - 1) : h.table[c] # <<>> => h.head <= c
        BY Zenon DEF Sound
      <3>2. QED
        BY <3>1, Shape, Zenon DEF Used
    <2>4. QED
      BY <2>1, <2>2, <2>3, TopIs, Zenon
  <1>4. QED
    BY <1>1, <1>2, <1>3, Zenon

\* The order of a chain survives a removal.
LEMMA WasOrder ==
  ASSUME NEW i \in Nat, NEW j \in Nat, NEW m \in Nat
  PROVE  j >= m <=> Was(i, j) >= Was(i, m)
  BY DEF Was

\* Where record j of bucket c was before record i of bucket b was removed.
Before(b, i, c, j) == IF c = b THEN Was(i, j) ELSE j

\* The records of g, and where they were in h.
Shifted(g, h, e, b, i) ==
  /\ i \in Nat
  /\ \A c \in 0..(h.buckets - 1) : \A j \in DOMAIN g.table[c] :
       /\ j \in Nat
       /\ Before(b, i, c, j) \in DOMAIN h.table[c]
       /\ g.table[c][j] = h.table[c][Before(b, i, c, j)]
  /\ \A c \in 0..(h.buckets - 1) : \A x \in DOMAIN h.table[c] :
       h.table[c][x].key # e.key => \E j \in DOMAIN g.table[c] : Before(b, i, c, j) = x

\* The places of the records that ht_remove leaves.
LEMMA Moved ==
  ASSUME NEW h, Sound(h), NEW e \in Entries(h)
  PROVE  Shifted(HtRemove(h, e.key), h, e, Bucket(h, e.key),
                 First(h.table[Bucket(h, e.key)], e.key))
  <1> DEFINE g == HtRemove(h, e.key)
             b == Bucket(h, e.key)
             i == First(h.table[b], e.key)
             r == Unlinked(h.table[b], i)
  <1>1. b \in 0..(h.buckets - 1) /\ i \in DOMAIN h.table[b] /\ h.table[b][i] = e
    BY Found, Zenon
  <1>2. h.table[b] \in Seq(Entry)
    BY <1>1, Shape, Zenon
  <1>3. Shortened(r, h.table[b], i)
    BY <1>1, <1>2, CutPlaces, Zenon
  <1>4. Removed(g, h, e, b, i)
    BY RemoveOne, Zenon
  <1> HIDE DEF g, i, r
  <1>5. g.table[b] = r /\ \A c \in 0..(h.buckets - 1) : c # b => g.table[c] = h.table[c]
    <2>1. r \in Seq(Entry)
      BY <1>3, Zenon DEF Shortened
    <2>2. Alters(g, h, b, r)
      BY <1>4, Zenon DEF Removed, r
    <2>3. QED
      BY <1>1, <2>1, <2>2, Changed
  <1> HIDE DEF b
  <1>6. i \in Nat
    BY <1>1, <1>3 DEF Shortened
  <1>7. ASSUME NEW c \in 0..(h.buckets - 1), NEW j \in DOMAIN g.table[c]
        PROVE  /\ j \in Nat
               /\ Before(b, i, c, j) \in DOMAIN h.table[c]
               /\ g.table[c][j] = h.table[c][Before(b, i, c, j)]
    <2>1. CASE c = b
      <3>1. j \in Nat
        BY <2>1, <1>3, <1>5 DEF Shortened
      <3>2. QED
        BY <2>1, <3>1, <1>3, <1>5, Zenon DEF Before, Shortened
    <2>2. CASE c # b
      <3>1. g.table[c] = h.table[c] /\ Before(b, i, c, j) = j
        BY <2>2, <1>5, Zenon DEF Before
      <3>2. DOMAIN h.table[c] = 1..Len(h.table[c]) /\ Len(h.table[c]) \in Nat
        BY Shape, Zenon
      <3>3. j \in Nat
        BY <3>1, <3>2
      <3>4. QED
        BY <3>1, <3>3, Zenon
    <2>3. QED
      BY <2>1, <2>2, Zenon
  <1>8. ASSUME NEW c \in 0..(h.buckets - 1), NEW x \in DOMAIN h.table[c],
                h.table[c][x].key # e.key
         PROVE  \E j \in DOMAIN g.table[c] : Before(b, i, c, j) = x
    <2>1. CASE c = b
      <3>1. x # i
        BY <2>1, <1>1, <1>8, Zenon
      <3>2. QED
        BY <2>1, <3>1, <1>3, <1>5, Zenon DEF Before, Shortened
    <2>2. CASE c # b
      BY <2>2, <1>5, Zenon DEF Before
    <2>3. QED
      BY <2>1, <2>2, Zenon
  <1>9. QED
    BY <1>6, <1>7, <1>8, Zenon DEF Shifted, g, i, b

\* A removal behind a position takes nothing else out of what it has ahead.
Spares(h, g, p, e) == Ahead(g, p) = Ahead(h, p) \ {e}

\* ht_remove of a record the position is not on.
LEMMA RemoveAhead ==
  ASSUME NEW h, Sound(h), NEW e \in Entries(h), NEW p \in Position, Stands(h, p), p.key # e.key
  PROVE  Stands(HtRemove(h, e.key), p) /\ Spares(h, HtRemove(h, e.key), p, e)
  <1> DEFINE g == HtRemove(h, e.key)
             b == Bucket(h, e.key)
             i == First(h.table[b], e.key)
             B(c, j) == Before(b, i, c, j)
  <1>1. CASE p.key = Null
    <2>1. Ahead(h, p) = {} /\ Ahead(g, p) = {} /\ Stands(g, p)
      BY <1>1, EndIs, Zenon
    <2>2. QED
      BY <2>1 DEF Spares
  <1>2. CASE p.key # Null
    <2> DEFINE c == p.bucket
    <2>1. Sound(g) /\ Entries(g) = Entries(h) \ {e} /\ g.buckets = h.buckets
      <3>1. Removed(g, h, e, b, i)
        BY RemoveOne, Zenon
      <3>2. QED
        BY <3>1, Zenon DEF Removed, Alters
    <2>2. g.buckets = h.buckets
      BY <2>1, Zenon
    <2>3. Shifted(g, h, e, b, i)
      BY Moved, Zenon
    <2> HIDE DEF g, b, i
    <2>4. PICK m \in DOMAIN h.table[c] : h.table[c][m].key = p.key
      BY <1>2, StandsOn, Zenon
    <2>5. c \in 0..(h.buckets - 1)
      BY <1>2, StandsOn, Zenon
    <2>6. PICK n \in DOMAIN g.table[c] : B(c, n) = m
      BY <2>3, <2>4, <2>5, Zenon DEF Shifted
    <2>7. g.table[c][n].key = p.key
      BY <2>3, <2>4, <2>5, <2>6, Zenon DEF Shifted
    <2>8. AheadFrom(h, p, c, m)
      BY <1>2, <2>4, <2>5, AheadIs, Zenon
    <2>9. Stands(g, p) /\ AheadFrom(g, p, c, n)
      BY <1>2, <2>1, <2>2, <2>5, <2>6, <2>7, AheadIs, Zenon
    <2>10. ASSUME NEW d \in 0..(h.buckets - 1), NEW j \in DOMAIN g.table[d]
           PROVE  Later(c, n, d, j) <=> Later(c, m, d, B(d, j))
      <3>1. i \in Nat /\ j \in Nat /\ n \in Nat
        BY <2>3, <2>5, Zenon DEF Shifted
      <3>2. CASE d = c
        <4>1. j >= n <=> B(d, j) >= B(d, n)
          BY <3>1, WasOrder, Zenon DEF Before
        <4>2. QED
          BY <3>2, <4>1, <2>6, Zenon DEF Later
      <3>3. CASE d # c
        BY <3>3, Zenon DEF Later
      <3>4. QED
        BY <3>2, <3>3, Zenon
    <2>11. \A x \in Entries(g) : x \in Ahead(g, p) <=> x \in Ahead(h, p)
      <3>1. SUFFICES ASSUME NEW x \in Entries(g)
                     PROVE  x \in Ahead(g, p) <=> x \in Ahead(h, p)
        BY Zenon
      <3>2. PICK d \in 0..(h.buckets - 1) : \E j \in DOMAIN g.table[d] : g.table[d][j] = x
        <4>1. x \in Entries(g)
                <=> \E d \in 0..(g.buckets - 1) : \E j \in DOMAIN g.table[d] : g.table[d][j] = x
          BY <2>1, Shape, Zenon
        <4>2. QED
          BY <2>2, <3>1, <4>1, Zenon
      <3>3. PICK j \in DOMAIN g.table[d] : g.table[d][j] = x
        BY <3>2, Zenon
      <3>4. B(d, j) \in DOMAIN h.table[d] /\ h.table[d][B(d, j)] = x
        BY <2>3, <3>3, Zenon DEF Shifted
      <3>5. x \in Ahead(g, p) <=> Later(c, n, d, j)
        BY <2>2, <2>9, <3>3, Zenon DEF AheadFrom
      <3>6. x \in Ahead(h, p) <=> Later(c, m, d, B(d, j))
        BY <2>8, <3>4, Zenon DEF AheadFrom
      <3>7. QED
        BY <2>10, <3>5, <3>6, Zenon
    <2>12. Ahead(g, p) \subseteq Entries(g) /\ Ahead(h, p) \subseteq Entries(h)
      BY DEF Ahead
    <2>13. Spares(h, g, p, e)
      BY <2>1, <2>11, <2>12 DEF Spares
    <2>14. QED
      BY <2>9, <2>13, Zenon DEF g
  <1>3. QED
    BY <1>1, <1>2, Zenon

(***************************************************************************)
(* The steps of resizes and walks                                          *)
(***************************************************************************)

\* g holds the records of h but the one with key k; Null is no key.
Without(g, h, k) ==
  /\ Sound(g) /\ g.buckets = h.buckets /\ g.records \in Nat /\ g.records <= h.records
  /\ Entries(g) = {e \in Entries(h) : e.key # k}

\* g holds the records of h and e.
With(g, h, e) ==
  /\ Sound(g) /\ g.buckets = h.buckets /\ g.records = h.records + 1
  /\ Entries(g) = Entries(h) \cup {e}

\* ht_remove.
LEMMA RemoveWithout ==
  ASSUME NEW h, Sound(h), NEW k \in Keys
  PROVE  Without(HtRemove(h, k), h, k)
  BY RemoveIs, Zenon DEF Without

\* ht_insert, but for a resize.
LEMMA PlaceWith ==
  ASSUME NEW h, Sound(h), NEW e \in Entry, e.key \notin AllKeys(h)
  PROVE  With(Place(h, e), h, e)
  BY PlaceIs, Zenon DEF With

\* The last step of vtable_rename, and of the callers that have none.
LEMMA FinishWithout ==
  ASSUME NEW h, Sound(h), NEW then \in Keys \cup {Null}
  PROVE  Without(Finish(h, then), h, then)
  <1>1. CASE then = Null
    <2>1. Finish(h, then) = h
      BY <1>1, Zenon DEF Finish
    <2>2. h.records \in Nat
      BY Counted, Zenon
    <2>3. h.records <= h.records
      BY <2>2
    <2>4. \A e \in Entries(h) : e.key # then
      BY <1>1, Shape, KeysAssumption DEF Entry
    <2>5. Entries(h) = {e \in Entries(h) : e.key # then}
      BY <2>4
    <2>6. QED
      BY <2>1, <2>2, <2>3, <2>5, Zenon DEF Without
  <1>2. CASE then # Null
    BY <1>2, RemoveWithout, Zenon DEF Finish
  <1>3. QED
    BY <1>1, <1>2, Zenon

\* No resize.
LEMMA NoJobIs ==
  ASSUME NEW h, h.records < h.buckets
  PROVE  JobInv(h, NoJob) /\ ~ NoJob.on /\ NoJob.then = Null
  <1>1. NoPos \in Position
    BY DEF NoPos, Position
  <1>2. /\ NoJob.on = FALSE /\ NoJob.pos = NoPos /\ NoJob.then = Null
        /\ NoJob = [on |-> NoJob.on, new |-> NoJob.new, pos |-> NoJob.pos, then |-> NoJob.then]
    BY DEF NoJob
  <1>3. QED
    BY <1>1, <1>2, Zenon DEF JobInv

\* ht_insert calls ht_resize when it has filled more than half of the buckets.
LEMMA Resized ==
  ASSUME NEW h, Sound(h), NEW e \in Entry, e.key \notin AllKeys(h), h.records < h.buckets,
         NEW then \in Keys \cup {Null}
  PROVE  LET new == Place(h, e) IN
         JobInv(new, [on |-> TRUE, new |-> EmptyTable(2 * new.buckets),
                      pos |-> Top(new, Min(Used(new))), then |-> then])
  <1> DEFINE new == Place(h, e)
             b == Min(Used(new))
             j == [on |-> TRUE, new |-> EmptyTable(2 * new.buckets), pos |-> Top(new, b),
                   then |-> then]
  <1>1. With(new, h, e)
    BY PlaceWith, Zenon
  <1> HIDE DEF new
  <1>2. Sound(new) /\ new.buckets \in Nat \ {0} /\ h.records \in Nat /\ new.records = h.records + 1
        /\ new.buckets = h.buckets
    BY <1>1, Shape, Counted, Zenon DEF With
  <1>3. new.records <= new.buckets /\ 2 * new.buckets \in Nat \ {0}
    BY <1>2
  <1>4. Used(new) # {} /\ Used(new) \subseteq Nat
    <2>1. e \in Entries(new)
      BY <1>1, Zenon DEF With
    <2>2. PICK c \in 0..(new.buckets - 1) : \E i \in DOMAIN new.table[c] : new.table[c][i] = e
      <3>1. Sound(new)
        BY <1>2, Zenon
      <3>2. \A x : x \in Entries(new)
              <=> \E c \in 0..(new.buckets - 1) :
                    \E i \in DOMAIN new.table[c] : new.table[c][i] = x
        BY <3>1, Shape, Zenon
      <3>3. QED
        BY <2>1, <3>2
    <2>3. new.table[c] # <<>>
      BY <2>2
    <2>4. QED
      BY <1>2, <2>3, Shape DEF Used
  <1>5. b \in Used(new) /\ \A c \in Used(new) : b <= c
    BY <1>4, LeastOf, Zenon
  <1> HIDE DEF b
  <1>6. Top(new, b) \in Position /\ Stands(new, Top(new, b)) /\ AtStart(new, Top(new, b))
    BY <1>2, <1>5, TopIs, Zenon
  <1>7. /\ Sound(EmptyTable(2 * new.buckets)) /\ Entries(EmptyTable(2 * new.buckets)) = {}
        /\ EmptyTable(2 * new.buckets).buckets = 2 * new.buckets
    BY <1>3, EmptyIs, Zenon
  <1>8. /\ j.on = TRUE /\ j.new = EmptyTable(2 * new.buckets) /\ j.pos = Top(new, b)
        /\ j.then = then
        /\ j = [on |-> j.on, new |-> j.new, pos |-> j.pos, then |-> j.then]
    OBVIOUS
  <1> HIDE DEF j
  <1>9. Entries(j.new) = Entries(new) \ Ahead(new, j.pos)
    BY <1>6, <1>7, <1>8 DEF AtStart
  <1>10. JobInv(new, j)
    BY <1>3, <1>6, <1>7, <1>8, <1>9, Zenon DEF JobInv
  <1>11. QED
    BY <1>10, Zenon DEF j, b, new

\* A job with another new table and another position.
LEMMA JobUpdate ==
  ASSUME NEW on, NEW new, NEW pos, NEW then, NEW n, NEW q, NEW j,
         j = [on |-> on, new |-> new, pos |-> pos, then |-> then]
  PROVE  [j EXCEPT !.new = n, !.pos = q] = [on |-> on, new |-> n, pos |-> q, then |-> then]
  <1> DEFINE k == [j EXCEPT !.new = n, !.pos = q]
  <1>1. k \in [on : {on}, new : {n}, pos : {q}, then : {then}]
    BY Zenon
  <1> HIDE DEF k
  <1>2. k = [on |-> on, new |-> n, pos |-> q, then |-> then]
    BY <1>1
  <1>3. QED
    BY <1>2, Zenon DEF k

\* ht_resize moves one record.
LEMMA MovedOne ==
  ASSUME NEW h, Sound(h), NEW j, JobInv(h, j), j.on, j.pos.key # Null
  PROVE  JobInv(h, [j EXCEPT !.new = Place(@, RecordAt(h, j.pos)), !.pos = NextPos(h, @)])
  <1> DEFINE e == RecordAt(h, j.pos)
             q == NextPos(h, j.pos)
             n == Place(j.new, e)
             k == [j EXCEPT !.new = Place(@, RecordAt(h, j.pos)), !.pos = NextPos(h, @)]
  <1>1. /\ j = [on |-> j.on, new |-> j.new, pos |-> j.pos, then |-> j.then]
        /\ j.on \in BOOLEAN /\ j.pos \in Position /\ j.then \in Keys \cup {Null}
        /\ h.records <= h.buckets
        /\ Sound(j.new) /\ j.new.buckets = 2 * h.buckets /\ Stands(h, j.pos)
        /\ Entries(j.new) = Entries(h) \ Ahead(h, j.pos)
    BY Zenon DEF JobInv
  <1>2. /\ q \in Position /\ Stands(h, q) /\ e \in Ahead(h, j.pos) /\ e.key = j.pos.key
        /\ Ahead(h, q) = Ahead(h, j.pos) \ {e}
    BY <1>1, NextIs, Zenon
  <1>3. k = [on |-> j.on, new |-> n, pos |-> q, then |-> j.then]
    <2>1. k = [j EXCEPT !.new = n, !.pos = q]
      BY Zenon
    <2> HIDE DEF k, n, q
    <2>2. QED
      BY <1>1, <2>1, JobUpdate, Zenon
  <1> HIDE DEF k, q, e
  <1>4. e \in Entries(h) /\ e \in Entry /\ Ahead(h, j.pos) \subseteq Entries(h)
    BY <1>2, Shape DEF Ahead
  <1>5. e.key \notin AllKeys(j.new)
    <2>1. SUFFICES ASSUME NEW f \in Entries(j.new), f.key = e.key PROVE FALSE
      BY Zenon DEF AllKeys
    <2>2. f \in Entries(h) /\ f \notin Ahead(h, j.pos)
      BY <1>1
    <2>3. f = e
      BY <1>4, <2>1, <2>2, Unique, Zenon
    <2>4. QED
      BY <1>2, <2>2, <2>3, Zenon
  <1>6. With(n, j.new, e)
    BY <1>1, <1>4, <1>5, PlaceWith, Zenon
  <1> HIDE DEF n
  <1>7. Sound(n) /\ n.buckets = 2 * h.buckets /\ Entries(n) = Entries(h) \ Ahead(h, q)
    <2>1. Entries(n) = Entries(h) \ Ahead(h, q)
      BY <1>1, <1>2, <1>4, <1>6 DEF With
    <2>2. QED
      BY <1>1, <1>6, <2>1, Zenon DEF With
  <1>8. /\ k.on = j.on /\ k.new = n /\ k.pos = q /\ k.then = j.then
        /\ k = [on |-> k.on, new |-> k.new, pos |-> k.pos, then |-> k.then]
    BY <1>3
  <1>9. JobInv(h, k)
    BY <1>1, <1>2, <1>7, <1>8, Zenon DEF JobInv
  <1>10. QED
    BY <1>9, Zenon DEF k

\* A walk starts.
LEMMA WalkBegins ==
  ASSUME NEW h, Sound(h)
  PROVE  WalkInv(h, [on |-> TRUE, pos |-> StartPos(h), all |-> AllKeys(h), seen |-> {},
                     whole |-> h.records = 0 \/ h.table[h.head] # <<>>])
  <1> DEFINE full == h.records = 0 \/ h.table[h.head] # <<>>
             w == [on |-> TRUE, pos |-> StartPos(h), all |-> AllKeys(h), seen |-> {},
                   whole |-> full]
  <1>1. /\ StartPos(h) \in Position /\ Stands(h, StartPos(h))
        /\ full => AtStart(h, StartPos(h))
    BY StartIs, Zenon
  <1> HIDE DEF full
  <1>2. KeysAhead(h, StartPos(h)) \subseteq AllKeys(h)
    BY DEF KeysAhead, Ahead, AllKeys
  <1>3. full => KeysAhead(h, StartPos(h)) = AllKeys(h)
    BY <1>1, Zenon DEF AtStart, KeysAhead, AllKeys
  <1>4. /\ w.on = TRUE /\ w.pos = StartPos(h) /\ w.all = AllKeys(h) /\ w.seen = {}
        /\ w.whole = full
        /\ w = [on |-> w.on, pos |-> w.pos, all |-> w.all, seen |-> w.seen, whole |-> w.whole]
    BY Zenon
  <1> HIDE DEF w
  <1>5. /\ w.seen \cap KeysAhead(h, w.pos) = {}
        /\ w.seen \cup KeysAhead(h, w.pos) \subseteq w.all
        /\ w.whole => w.all \subseteq w.seen \cup KeysAhead(h, w.pos)
    BY <1>2, <1>3, <1>4
  <1>6. WalkInv(h, w)
    BY <1>1, <1>4, <1>5, Zenon DEF WalkInv
  <1>7. QED
    BY <1>6, Zenon DEF w, full

\* No walk.
LEMMA NoWalkIs ==
  ASSUME NEW h
  PROVE  WalkInv(h, NoWalk) /\ ~ NoWalk.on
  <1>1. NoPos \in Position
    BY DEF NoPos, Position
  <1>2. /\ NoWalk.on = FALSE /\ NoWalk.pos = NoPos
        /\ NoWalk = [on |-> NoWalk.on, pos |-> NoWalk.pos, all |-> NoWalk.all,
                     seen |-> NoWalk.seen, whole |-> NoWalk.whole]
    BY DEF NoWalk
  <1>3. QED
    BY <1>1, <1>2, Zenon DEF WalkInv

\* A walk with another position and another set of keys it has returned.
LEMMA WalkUpdate ==
  ASSUME NEW on, NEW pos, NEW all, NEW seen, NEW whole, NEW t, NEW q, NEW w,
         w = [on |-> on, pos |-> pos, all |-> all, seen |-> seen, whole |-> whole]
  PROVE  [w EXCEPT !.seen = t, !.pos = q]
         = [on |-> on, pos |-> q, all |-> all, seen |-> t, whole |-> whole]
  <1> DEFINE v == [w EXCEPT !.seen = t, !.pos = q]
  <1>1. v \in [on : {on}, pos : {q}, all : {all}, seen : {t}, whole : {whole}]
    BY Zenon
  <1> HIDE DEF v
  <1>2. v = [on |-> on, pos |-> q, all |-> all, seen |-> t, whole |-> whole]
    BY <1>1
  <1>3. QED
    BY <1>2, Zenon DEF v

\* A walk returns one record, and its callback deletes that record or keeps it.
LEMMA WalkGoesOn ==
  ASSUME NEW h, Sound(h), NEW w, WalkInv(h, w), w.on, w.pos.key # Null, NEW g,
         g = h \/ g = HtRemove(h, w.pos.key)
  PROVE  /\ WalkInv(g, [w EXCEPT !.seen = @ \cup {w.pos.key}, !.pos = NextPos(h, @)])
         /\ [w EXCEPT !.seen = @ \cup {w.pos.key}, !.pos = NextPos(h, @)].on
  <1> DEFINE e == RecordAt(h, w.pos)
             q == NextPos(h, w.pos)
             t == w.seen \cup {w.pos.key}
             v == [w EXCEPT !.seen = @ \cup {w.pos.key}, !.pos = NextPos(h, @)]
  <1>1. /\ w = [on |-> w.on, pos |-> w.pos, all |-> w.all, seen |-> w.seen, whole |-> w.whole]
        /\ w.on \in BOOLEAN /\ w.pos \in Position /\ Stands(h, w.pos)
        /\ w.seen \cap KeysAhead(h, w.pos) = {}
        /\ w.seen \cup KeysAhead(h, w.pos) \subseteq w.all
        /\ w.whole => w.all \subseteq w.seen \cup KeysAhead(h, w.pos)
    BY Zenon DEF WalkInv
  <1>2. /\ q \in Position /\ Stands(h, q) /\ e \in Ahead(h, w.pos) /\ e.key = w.pos.key
        /\ Ahead(h, q) = Ahead(h, w.pos) \ {e}
    BY <1>1, NextIs, Zenon
  <1>3. v = [on |-> w.on, pos |-> q, all |-> w.all, seen |-> t, whole |-> w.whole]
    <2>1. v = [w EXCEPT !.seen = t, !.pos = q]
      BY Zenon
    <2> HIDE DEF v, q, t
    <2>2. QED
      BY <1>1, <2>1, WalkUpdate, Zenon
  <1> HIDE DEF v, q, e
  <1>4. e \in Entries(h) /\ Ahead(h, w.pos) \subseteq Entries(h)
    BY <1>2 DEF Ahead
  <1>5. \A f \in Ahead(h, w.pos) : f.key = e.key => f = e
    BY <1>4, Unique
  <1>6. KeysAhead(h, w.pos) = KeysAhead(h, q) \cup {e.key} /\ e.key \notin KeysAhead(h, q)
    BY <1>2, <1>5 DEF KeysAhead
  <1>7. Stands(g, q) /\ Ahead(g, q) = Ahead(h, q)
    <2>1. CASE g = h
      BY <1>2, <2>1, Zenon
    <2>2. CASE g = HtRemove(h, e.key)
      <3>1. q.key # e.key
        <4>1. CASE q.key = Null
          BY <1>2, <4>1, Zenon
        <4>2. CASE q.key # Null
          <5>1. Stands(h, q)
            BY <1>2, Zenon
          <5>2. q.bucket \in 0..(h.buckets - 1)
            BY <4>2, <5>1, StandsOn, Zenon
          <5>3. PICK i \in DOMAIN h.table[q.bucket] : h.table[q.bucket][i].key = q.key
            BY <4>2, <5>1, StandsOn
          <5>4. AheadFrom(h, q, q.bucket, i)
            BY <1>2, <4>2, <5>2, <5>3, AheadIs, Zenon
          <5>5. Later(q.bucket, i, q.bucket, i)
            <6>1. DOMAIN h.table[q.bucket] = 1..Len(h.table[q.bucket])
              BY <5>2, Shape, Zenon
            <6>2. QED
              BY <5>3, <6>1 DEF Later
          <5>6. h.table[q.bucket][i] \in Ahead(h, q)
            BY <5>2, <5>3, <5>4, <5>5, Zenon DEF AheadFrom
          <5>7. q.key \in KeysAhead(h, q)
            BY <5>3, <5>6, Zenon DEF KeysAhead
          <5>8. QED
            BY <1>6, <5>7, Zenon
        <4>3. QED
          BY <4>1, <4>2, Zenon
      <3>2. Stands(g, q) /\ Spares(h, g, q, e)
        BY <1>2, <1>4, <2>2, <3>1, RemoveAhead, Zenon
      <3>3. e \notin Ahead(h, q)
        BY <1>2
      <3>4. QED
        BY <3>2, <3>3 DEF Spares
    <2>3. QED
      BY <1>2, <2>1, <2>2, Zenon
  <1>8. KeysAhead(g, q) = KeysAhead(h, q)
    BY <1>7, Zenon DEF KeysAhead
  <1>9. /\ v.on = w.on /\ v.pos = q /\ v.all = w.all /\ v.seen = w.seen \cup {e.key}
        /\ v.whole = w.whole
        /\ v = [on |-> v.on, pos |-> v.pos, all |-> v.all, seen |-> v.seen, whole |-> v.whole]
    BY <1>2, <1>3
  <1>10. /\ v.seen \cap KeysAhead(g, v.pos) = {}
         /\ v.seen \cup KeysAhead(g, v.pos) \subseteq v.all
         /\ v.whole => v.all \subseteq v.seen \cup KeysAhead(g, v.pos)
    BY <1>1, <1>6, <1>8, <1>9
  <1>11. WalkInv(g, v) /\ v.on
    BY <1>1, <1>2, <1>7, <1>9, <1>10, Zenon DEF WalkInv
  <1>12. QED
    BY <1>11, Zenon DEF v

(***************************************************************************)
(* The inductive invariant                                                 *)
(***************************************************************************)

\* A new table, at rest.
LEMMA StartInv == HtInit => HInv
  <1>1. SUFFICES ASSUME HtInit PROVE HInv
    OBVIOUS
  <1>2. ht = EmptyTable(Buckets) /\ job = NoJob /\ walk = NoWalk
    BY <1>1, Zenon DEF HtInit
  <1>3. Buckets \in Nat \ {0}
    BY HashAssumption
  <1>4. Sound(ht) /\ ht.buckets = Buckets /\ ht.records = 0
    BY <1>2, <1>3, EmptyIs, Zenon
  <1>5. ht.records < ht.buckets
    BY <1>3, <1>4
  <1>6. JobInv(ht, job) /\ ~ job.on
    BY <1>2, <1>5, NoJobIs, Zenon
  <1>7. WalkInv(ht, walk)
    BY <1>2, NoWalkIs, Zenon
  <1>8. QED
    BY <1>4, <1>6, <1>7, Zenon DEF HInv

\* Between operations there is neither a walk nor a resize.
LEMMA AtRest ==
  ASSUME HInv, Unlocked
  PROVE  walk = NoWalk /\ job = NoJob /\ ht.records < ht.buckets /\ Sound(ht)
  BY Zenon DEF HInv, Unlocked, JobInv, WalkInv

\* The table with other contents, and no walk or resize.
LEMMA RestInv ==
  ASSUME Sound(ht'), (ht.records < ht.buckets)', job' = NoJob, walk' = NoWalk
  PROVE  HInv'
  BY NoJobIs, NoWalkIs, Zenon DEF HInv

\* ht_insert into ht, or into what a removal has left of it.
LEMMA InsertInv ==
  ASSUME HInv, Unlocked, NEW h, Without(h, ht, Null) \/ \E k \in Keys : Without(h, ht, k),
         NEW e \in Entry, e.key \notin AllKeys(h), NEW then \in Keys \cup {Null},
         HtInsert(h, e, then)
  PROVE  HInv'
  <1> DEFINE new == Place(h, e)
  <1>1. walk = NoWalk /\ job = NoJob /\ ht.records < ht.buckets /\ Sound(ht)
    BY AtRest, Zenon
  <1>2. Sound(h) /\ h.buckets = ht.buckets /\ h.records \in Nat /\ h.records <= ht.records
    BY Zenon DEF Without
  <1>3. h.records < h.buckets /\ h.buckets \in Nat \ {0}
    <2>1. ht.records \in Nat /\ ht.buckets \in Nat \ {0}
      BY <1>1, Shape, Counted, Zenon
    <2>2. QED
      BY <2>1, <1>1, <1>2
  <1>4. With(new, h, e)
    BY <1>2, PlaceWith, Zenon
  <1>5. CASE Overloaded(new)
    <2>1. ht' = new /\ walk' = walk
          /\ job' = [on |-> TRUE, new |-> EmptyTable(2 * new.buckets),
                     pos |-> Top(new, Min(Used(new))), then |-> then]
      BY <1>5, Zenon DEF HtInsert
    <2>2. JobInv(ht', job')
      BY <1>2, <1>3, <2>1, Resized, Zenon
    <2>3. Sound(ht') /\ WalkInv(ht', walk') /\ ~ walk'.on
      BY <1>1, <1>4, <2>1, NoWalkIs, Zenon DEF With
    <2>4. QED
      BY <2>2, <2>3, Zenon DEF HInv
  <1>6. CASE ~ Overloaded(new)
    <2>1. ht' = Finish(new, then) /\ walk' = walk /\ job' = job
      BY <1>6, Zenon DEF HtInsert
    <2>2. Sound(new) /\ new.buckets = h.buckets /\ new.records = h.records + 1
      BY <1>4, Zenon DEF With
    <2>3. Without(ht', new, then)
      BY <2>1, <2>2, FinishWithout, Zenon
    <2> HIDE DEF new
    <2>4. new.records < new.buckets
      BY <1>2, <1>3, <1>6, <2>2 DEF Overloaded
    <2>5. (ht.records < ht.buckets)'
      BY <1>2, <1>3, <2>2, <2>3, <2>4 DEF Without
    <2>6. QED
      BY <1>1, <2>1, <2>3, <2>5, RestInv, Zenon DEF Without
  <1>7. QED
    BY <1>5, <1>6, Zenon

\* ht_remove, with nothing else to do.
LEMMA RemoveInv ==
  ASSUME HInv, Unlocked, NEW k \in Keys, ht' = HtRemove(ht, k), UNCHANGED <<walk, job>>
  PROVE  HInv'
  <1>1. walk = NoWalk /\ job = NoJob /\ ht.records < ht.buckets /\ Sound(ht)
    BY AtRest, Zenon
  <1>2. Without(ht', ht, k)
    BY <1>1, RemoveWithout, Zenon
  <1>3. ht.records \in Nat /\ ht.buckets \in Nat
    BY <1>1, Shape, Counted, Zenon
  <1>4. (ht.records < ht.buckets)'
    BY <1>1, <1>2, <1>3 DEF Without
  <1>5. QED
    BY <1>1, <1>2, <1>4, RestInv, Zenon DEF Without

\* A record with key k and value v.
LEMMA EntryIs ==
  ASSUME NEW k \in Keys, NEW v \in Values
  PROVE  [key |-> k, val |-> v] \in Entry /\ [key |-> k, val |-> v].key = k
         /\ [key |-> k, val |-> v].val = v
  BY DEF Entry

\* The table without a key that it does not hold, or without none, is the table.
LEMMA SameTable ==
  ASSUME Sound(ht)
  PROVE  Without(ht, ht, Null)
  <1>1. Finish(ht, Null) = ht
    BY Zenon DEF Finish
  <1>2. QED
    BY <1>1, FinishWithout, Zenon

\* A removed key is absent.
LEMMA Gone ==
  ASSUME NEW h, NEW g, NEW k, Without(g, h, k)
  PROVE  k \notin AllKeys(g)
  BY DEF Without, AllKeys

\* A key whose lookup fails is absent, and one whose lookup succeeds has a value.
LEMMA LookupTells ==
  ASSUME NEW h, Sound(h), NEW k \in Keys
  PROVE  /\ Lookup(h, k) = Null => k \notin AllKeys(h)
         /\ Lookup(h, k) # Null => Lookup(h, k) \in Values
  <1>1. CASE k \in AllKeys(h)
    <2>1. PICK e \in Entries(h) : e.key = k
      BY <1>1, Zenon DEF AllKeys
    <2>2. Lookup(h, k) \in Values
      BY <2>1, LookupIs, Zenon
    <2>3. QED
      BY <2>2, KeysAssumption
  <1>2. CASE k \notin AllKeys(h)
    BY <1>2, LookupIs, Zenon
  <1>3. QED
    BY <1>1, <1>2, Zenon

\* Every step keeps the invariant.
LEMMA StepInv ==
  ASSUME HInv, HtNext
  PROVE  HInv'
  <1>1. /\ Sound(ht) /\ JobInv(ht, job) /\ WalkInv(ht, walk)
        /\ ~ (job.on /\ walk.on)
    BY Zenon DEF HInv
  <1>2. ASSUME NEW k \in Keys, NEW v \in Values, ShtInsert(k, v) PROVE HInv'
    <2>1. Unlocked /\ Lookup(ht, k) = Null /\ HtInsert(ht, [key |-> k, val |-> v], Null)
      BY <1>2, Zenon DEF ShtInsert
    <2>2. k \notin AllKeys(ht) /\ Without(ht, ht, Null)
      BY <1>1, <2>1, LookupTells, SameTable, Zenon
    <2>3. QED
      BY <2>1, <2>2, EntryIs, InsertInv, Zenon
  <1>3. ASSUME NEW k \in Keys, NEW v \in Values, Unlocked,
               HtInsert(HtRemove(ht, k), [key |-> k, val |-> v], Null)
        PROVE  HInv'
    <2>1. Without(HtRemove(ht, k), ht, k)
      BY <1>1, RemoveWithout, Zenon
    <2>2. k \notin AllKeys(HtRemove(ht, k))
      BY <2>1, Gone, Zenon
    <2>3. QED
      BY <1>3, <2>1, <2>2, EntryIs, InsertInv, Zenon
  <1>4. ASSUME NEW k \in Keys, NEW v \in Values, ShtReplace(k, v) \/ MemdbSet(k, v) PROVE HInv'
    BY <1>3, <1>4, Zenon DEF ShtReplace, MemdbSet
  <1>5. ASSUME NEW k \in Keys, MemdbDel(k) \/ SetLosesRecord(k) PROVE HInv'
    BY <1>5, RemoveInv, Zenon DEF MemdbDel, SetLosesRecord
  <1>6. ASSUME NEW old \in Keys, NEW new \in Keys, VtableRename(old, new) PROVE HInv'
    <2>1. /\ Unlocked /\ Lookup(ht, old) # Null
          /\ HtInsert(HtRemove(ht, new), [key |-> new, val |-> Lookup(ht, old)], old)
      BY <1>6, Zenon DEF VtableRename
    <2>2. Lookup(ht, old) \in Values
      BY <1>1, <2>1, LookupTells, Zenon
    <2>3. Without(HtRemove(ht, new), ht, new)
      BY <1>1, RemoveWithout, Zenon
    <2>4. new \notin AllKeys(HtRemove(ht, new))
      BY <2>3, Gone, Zenon
    <2>5. QED
      BY <2>1, <2>2, <2>3, <2>4, EntryIs, InsertInv, Zenon
  <1>7. ASSUME ResizeMove PROVE HInv'
    <2>1. /\ job.on /\ job.pos.key # Null /\ ht' = ht /\ walk' = walk
          /\ job' = [job EXCEPT !.new = Place(@, RecordAt(ht, job.pos)), !.pos = NextPos(ht, @)]
      BY <1>7, Zenon DEF ResizeMove
    <2>2. JobInv(ht', job')
      BY <1>1, <2>1, MovedOne, Zenon
    <2>3. QED
      BY <1>1, <2>1, <2>2, Zenon DEF HInv
  <1>8. ASSUME ResizeDone \/ ResizeFails PROVE HInv'
    <2>1. job.on /\ job' = NoJob /\ walk' = walk
      BY <1>8, Zenon DEF ResizeDone, ResizeFails
    <2>2. /\ ht.records <= ht.buckets /\ job.then \in Keys \cup {Null}
          /\ Sound(job.new) /\ job.new.buckets = 2 * ht.buckets
          /\ Entries(job.new) = Entries(ht) \ Ahead(ht, job.pos)
      BY <1>1, <2>1, Zenon DEF JobInv
    <2>3. walk' = NoWalk
      BY <1>1, <2>1, Zenon DEF WalkInv
    <2>4. ht.records \in Nat /\ ht.buckets \in Nat \ {0}
      BY <1>1, Shape, Counted, Zenon
    <2>5. CASE ResizeDone
      <3>1. job.pos.key = Null /\ ht' = Finish(job.new, job.then)
        BY <2>5, Zenon DEF ResizeDone
      <3>2. Entries(job.new) = Entries(ht)
        BY <2>2, <3>1, EndIs
      <3>3. job.new.records = ht.records
        BY <1>1, <2>2, <3>2, Zenon DEF Sound
      <3>4. Without(ht', job.new, job.then)
        BY <2>2, <3>1, FinishWithout, Zenon
      <3>5. (ht.records < ht.buckets)'
        BY <2>2, <2>4, <3>3, <3>4 DEF Without
      <3>6. QED
        BY <2>1, <2>3, <3>4, <3>5, RestInv, Zenon DEF Without
    <2>6. CASE ResizeFails
      <3>1. ht.records < ht.buckets /\ ht' = Finish(ht, job.then)
        BY <2>6, Zenon DEF ResizeFails
      <3>2. Without(ht', ht, job.then)
        BY <1>1, <2>2, <3>1, FinishWithout, Zenon
      <3>3. (ht.records < ht.buckets)'
        BY <2>4, <3>1, <3>2 DEF Without
      <3>4. QED
        BY <2>1, <2>3, <3>2, <3>3, RestInv, Zenon DEF Without
    <2>7. QED
      BY <1>8, <2>5, <2>6, Zenon
  <1>9. ASSUME WalkStart PROVE HInv'
    <2>1. /\ Unlocked /\ ht' = ht /\ job' = job
          /\ walk' = [on |-> TRUE, pos |-> StartPos(ht), all |-> AllKeys(ht), seen |-> {},
                      whole |-> ht.records = 0 \/ ht.table[ht.head] # <<>>]
      BY <1>9, Zenon DEF WalkStart
    <2>2. WalkInv(ht', walk')
      BY <1>1, <2>1, WalkBegins, Zenon
    <2>3. ~ job'.on
      BY <2>1, Zenon DEF Unlocked
    <2>4. QED
      BY <1>1, <2>1, <2>2, <2>3, Zenon DEF HInv
  <1>10. ASSUME NEW drop \in BOOLEAN, WalkNext(drop) PROVE HInv'
    <2>1. /\ walk.on /\ walk.pos.key # Null /\ job' = job
          /\ ht' = IF drop THEN HtRemove(ht, walk.pos.key) ELSE ht
          /\ walk' = [walk EXCEPT !.seen = @ \cup {walk.pos.key}, !.pos = NextPos(ht, @)]
      BY <1>10, Zenon DEF WalkNext
    <2>2. ht' = ht \/ ht' = HtRemove(ht, walk.pos.key)
      BY <2>1, Zenon
    <2>3. WalkInv(ht', walk')
      BY <1>1, <2>1, <2>2, WalkGoesOn, Zenon
    <2>4. walk.pos.key \in Keys
      <3>1. walk.pos \in Position
        BY <1>1, Zenon DEF WalkInv
      <3>2. QED
        BY <2>1, <3>1 DEF Position
    <2>5. ~ job.on /\ job = NoJob /\ ht.records < ht.buckets
      BY <1>1, <2>1, Zenon DEF JobInv
    <2>6. Sound(ht') /\ (ht.records < ht.buckets)'
      <3>1. CASE ht' = ht
        BY <1>1, <2>5, <3>1, Zenon
      <3>2. CASE ht' = HtRemove(ht, walk.pos.key)
        <4>1. Without(ht', ht, walk.pos.key)
          BY <1>1, <2>4, <3>2, RemoveWithout, Zenon
        <4>2. ht.records \in Nat /\ ht.buckets \in Nat
          BY <1>1, Shape, Counted, Zenon
        <4>3. QED
          BY <2>5, <4>1, <4>2 DEF Without
      <3>3. QED
        BY <2>2, <3>1, <3>2, Zenon
    <2>7. JobInv(ht', job') /\ ~ job'.on
      BY <2>1, <2>5, <2>6, NoJobIs, Zenon
    <2>8. QED
      BY <2>3, <2>6, <2>7, Zenon DEF HInv
  <1>11. ASSUME WalkEnd PROVE HInv'
    <2>1. walk' = NoWalk /\ ht' = ht /\ job' = job
      BY <1>11, Zenon DEF WalkEnd
    <2>2. WalkInv(ht', walk') /\ ~ walk'.on
      BY <2>1, NoWalkIs, Zenon
    <2>3. QED
      BY <1>1, <2>1, <2>2, Zenon DEF HInv
  <1>12. QED
    BY <1>2, <1>4, <1>5, <1>6, <1>7, <1>8, <1>9, <1>10, <1>11, Zenon DEF HtNext

\* The invariant is one.
LEMMA HInvHolds == HtSpec => []HInv
  <1>1. HInv /\ [HtNext]_htvars => HInv'
    <2>1. ASSUME HInv, UNCHANGED htvars PROVE HInv'
      <3>1. ht' = ht /\ walk' = walk /\ job' = job
        BY <2>1, Zenon DEF htvars
      <3>2. QED
        BY <2>1, <3>1, Zenon DEF HInv
    <2>2. QED
      BY <2>1, StepInv, Zenon
  <1>2. QED
    BY <1>1, StartInv, PTL DEF HtSpec

(***************************************************************************)
(* Lookups and walks                                                       *)
(***************************************************************************)

\* What the chains hold is what ht_lookup finds.
LEMMA ContentsIs ==
  ASSUME Sound(ht), NEW k \in Keys
  PROVE  Contents[k] = Lookup(ht, k)
  <1>1. Contents[k] = IF k \in AllKeys(ht) THEN (CHOOSE e \in Entries(ht) : e.key = k).val ELSE Null
    BY Zenon DEF Contents
  <1>2. CASE k \in AllKeys(ht)
    <2> DEFINE e == CHOOSE x \in Entries(ht) : x.key = k
    <2>1. \E x \in Entries(ht) : x.key = k
      BY <1>2, Zenon DEF AllKeys
    <2>2. e \in Entries(ht) /\ e.key = k
      BY <2>1, Zenon
    <2>3. Contents[k] = e.val
      BY <1>1, <1>2, Zenon
    <2> HIDE DEF e
    <2>4. QED
      BY <2>2, <2>3, LookupIs, Zenon
  <1>3. CASE k \notin AllKeys(ht)
    BY <1>1, <1>3, LookupIs, Zenon
  <1>4. QED
    BY <1>2, <1>3, Zenon

\* ht_lookup finds every record that was inserted and not removed, whatever the hash
\* function, and however often the table was resized or failed to be.
THEOREM LookupsFind == HtSpec => []LookupFinds
  <1>1. HInv => LookupFinds
    BY ContentsIs, Zenon DEF HInv, LookupFinds
  <1>2. QED
    BY <1>1, HInvHolds, PTL

\* A walk stands on a record of the table that it has not returned yet, or at the end,
\* though its callback deletes any of the records it is given.
THEOREM WalksAreSafe == HtSpec => []WalkSafe
  <1>1. HInv => WalkSafe
    <2>1. SUFFICES ASSUME HInv, walk.pos.key # Null
                   PROVE  /\ walk.pos.key \in KeysOf(ht.table[walk.pos.bucket])
                          /\ walk.pos.key \notin walk.seen
      BY Zenon DEF WalkSafe
    <2>2. Sound(ht) /\ WalkInv(ht, walk)
      BY <2>1, Zenon DEF HInv
    <2>3. NoWalk.pos.key = Null
      BY DEF NoWalk, NoPos
    <2>4. walk.on /\ walk.pos \in Position /\ Stands(ht, walk.pos)
          /\ walk.seen \cap KeysAhead(ht, walk.pos) = {}
      BY <2>1, <2>2, <2>3, Zenon DEF WalkInv
    <2>5. walk.pos.key \in KeysOf(ht.table[walk.pos.bucket])
      BY <2>1, <2>4, Zenon DEF Stands
    <2>6. RecordAt(ht, walk.pos) \in Ahead(ht, walk.pos) /\ RecordAt(ht, walk.pos).key = walk.pos.key
      BY <2>1, <2>2, <2>4, NextIs, Zenon
    <2>7. walk.pos.key \in KeysAhead(ht, walk.pos)
      BY <2>6, Zenon DEF KeysAhead
    <2>8. QED
      BY <2>4, <2>5, <2>7
  <1>2. QED
    BY <1>1, HInvHolds, PTL

\* A walk that ht_start put on a record has returned every record by its end.
THEOREM WalksAreComplete == HtSpec => []WalkComplete
  <1>1. HInv => WalkComplete
    <2>1. SUFFICES ASSUME HInv, walk.on, walk.whole, walk.pos.key = Null
                   PROVE  walk.seen = walk.all
      BY Zenon DEF WalkComplete
    <2>2. WalkInv(ht, walk)
      BY <2>1, Zenon DEF HInv
    <2>3. /\ walk.seen \cup KeysAhead(ht, walk.pos) \subseteq walk.all
          /\ walk.all \subseteq walk.seen \cup KeysAhead(ht, walk.pos)
      BY <2>1, <2>2, Zenon DEF WalkInv
    <2>4. KeysAhead(ht, walk.pos) = {}
      BY <2>1, EndIs DEF KeysAhead
    <2>5. QED
      BY <2>3, <2>4
  <1>2. QED
    BY <1>1, HInvHolds, PTL

(***************************************************************************)
(* The table is a dictionary                                               *)
(***************************************************************************)

\* Two tables with the same record for a key.
LEMMA SameLookup ==
  ASSUME NEW h, Sound(h), NEW g, Sound(g), NEW k \in Keys,
         \A e : e.key = k => (e \in Entries(g) <=> e \in Entries(h))
  PROVE  Lookup(g, k) = Lookup(h, k)
  <1>1. CASE k \in AllKeys(h)
    <2>1. PICK e \in Entries(h) : e.key = k
      BY <1>1, Zenon DEF AllKeys
    <2>2. e \in Entries(g)
      BY <2>1, Zenon
    <2>3. QED
      BY <2>1, <2>2, LookupIs, Zenon
  <1>2. CASE k \notin AllKeys(h)
    <2>1. k \notin AllKeys(g)
      BY <1>2, Zenon DEF AllKeys
    <2>2. QED
      BY <1>2, <2>1, LookupIs, Zenon
  <1>3. QED
    BY <1>1, <1>2, Zenon

\* What ht_lookup of j finds in g, which is h without k.
LookupWithout(g, h, k, j) ==
  /\ j = k => Lookup(g, j) = Null
  /\ j # k => Lookup(g, j) = Lookup(h, j)

\* Lookups after a removal.
LEMMA WithoutLookup ==
  ASSUME NEW h, Sound(h), NEW k, NEW g, Without(g, h, k), NEW j \in Keys
  PROVE  LookupWithout(g, h, k, j)
  <1>1. Sound(g) /\ \A e : e \in Entries(g) <=> e \in Entries(h) /\ e.key # k
    BY Zenon DEF Without
  <1>2. CASE j = k
    BY <1>1, <1>2, Gone, LookupIs, Zenon DEF LookupWithout
  <1>3. CASE j # k
    BY <1>1, <1>3, SameLookup, Zenon DEF LookupWithout
  <1>4. QED
    BY <1>2, <1>3, Zenon

\* Lookups after an insertion.
LEMMA WithLookup ==
  ASSUME NEW h, Sound(h), NEW e \in Entry, NEW g, With(g, h, e), NEW j \in Keys
  PROVE  Lookup(g, j) = IF j = e.key THEN e.val ELSE Lookup(h, j)
  <1>1. Sound(g) /\ \A x : x \in Entries(g) <=> x \in Entries(h) \/ x = e
    BY DEF With
  <1>2. CASE j = e.key
    BY <1>1, <1>2, LookupIs, Zenon
  <1>3. CASE j # e.key
    BY <1>1, <1>3, SameLookup, Zenon
  <1>4. QED
    BY <1>2, <1>3, Zenon

\* The dictionary in terms of lookups.
Seen(h, then) == [k \in Keys |-> IF k = then THEN Null ELSE Lookup(h, k)]

\* It is that, while vtable_rename has not removed the old name.
LEMMA MapIs == HInv => Map = Seen(ht, job.then)
  <1>1. SUFFICES ASSUME HInv PROVE Map = Seen(ht, job.then)
    OBVIOUS
  <1>2. \A k \in Keys : Contents[k] = Lookup(ht, k)
    BY <1>1, ContentsIs, Zenon DEF HInv
  <1>3. QED
    BY <1>2 DEF Map, Seen

\* So it is in the next state.
LEMMA MapNext == HInv' => Map' = Seen(ht', job'.then)
  <1>1. (HInv => Map = Seen(ht, job.then))'
    BY MapIs, PTL
  <1>2. QED
    BY <1>1

\* ht_insert of e into a table with the entries of the dictionary but that of e's key, and
\* the end of vtable_rename: a resize that is still to come makes no difference.
LEMMA InsertSeen ==
  ASSUME HInv, HInv', Unlocked, NEW h, Sound(h), NEW e \in Entry, e.key \notin AllKeys(h),
         NEW then \in Keys \cup {Null}, HtInsert(h, e, then),
         \A k \in Keys : k # e.key => Lookup(h, k) = Lookup(ht, k)
  PROVE  Map' = [k \in Keys |-> IF k = then THEN Null
                                ELSE IF k = e.key THEN e.val ELSE Lookup(ht, k)]
  <1> DEFINE new == Place(h, e)
  <1>1. With(new, h, e)
    BY PlaceWith, Zenon
  <1>2. Sound(new) /\ job.then = Null
    BY <1>1, AtRest DEF With, NoJob
  <1>3. \A k \in Keys : Lookup(new, k) = IF k = e.key THEN e.val ELSE Lookup(ht, k)
    <2>1. \A k \in Keys : Lookup(new, k) = IF k = e.key THEN e.val ELSE Lookup(h, k)
      BY <1>1, WithLookup, Zenon
    <2> HIDE DEF new
    <2>2. QED
      BY <2>1, Zenon
  <1>4. Map' = Seen(ht', job'.then)
    BY MapNext, Zenon
  <1>5. CASE Overloaded(new)
    <2>1. ht' = new /\ job'.then = then
      BY <1>5 DEF HtInsert
    <2> HIDE DEF new
    <2>2. QED
      BY <1>3, <1>4, <2>1 DEF Seen
  <1>6. CASE ~ Overloaded(new)
    <2>1. ht' = Finish(new, then) /\ job'.then = Null
      BY <1>2, <1>6, Zenon DEF HtInsert
    <2>2. Without(ht', new, then)
      BY <1>2, <2>1, FinishWithout, Zenon
    <2> HIDE DEF new
    <2>3. ASSUME NEW k \in Keys
          PROVE  Lookup(ht', k) = IF k = then THEN Null ELSE Lookup(new, k)
      <3>1. Sound(new)
        BY <1>2, Zenon
      <3>2. LookupWithout(ht', new, then, k)
        BY <2>2, <3>1, WithoutLookup, Zenon
      <3>3. QED
        BY <3>2, Zenon DEF LookupWithout
    <2>4. \A k \in Keys : k # Null
      BY KeysAssumption
    <2>5. QED
      BY <1>3, <1>4, <2>1, <2>3, <2>4 DEF Seen
  <1>7. QED
    BY <1>5, <1>6, Zenon

\* A step that stores v under k, or removes k.
LEMMA StoreStep ==
  ASSUME HInv, job = NoJob, NEW k \in Keys, NEW v \in Values \cup {Null},
         \/ Map' = [j \in Keys |-> IF j = Null THEN Null ELSE IF j = k THEN v ELSE Lookup(ht, j)]
         \/ Map' = [j \in Keys |-> IF j = k THEN v ELSE Lookup(ht, j)]
  PROVE  Abstract!Next
  <1>1. job.then = Null
    BY DEF NoJob
  <1>2. \A j \in Keys : j # Null
    BY KeysAssumption
  <1>3. Map = [j \in Keys |-> Lookup(ht, j)]
    BY <1>1, <1>2, MapIs DEF Seen
  <1>4. Map' = [Map EXCEPT ![k] = v]
    BY <1>2, <1>3
  <1>5. QED
    BY <1>4, Zenon DEF Abstract!Next, Abstract!Store

\* A step whose lookups give the same dictionary.
LEMMA SameMap ==
  ASSUME HInv, HInv', Seen(ht', job'.then) = Seen(ht, job.then)
  PROVE  Map' = Map
  BY MapIs, MapNext, Zenon

\* ht_remove, alone.
LEMMA RemoveStep ==
  ASSUME HInv, HInv', job = NoJob, NEW k \in Keys, ht' = HtRemove(ht, k), job' = job
  PROVE  Abstract!Next
  <1>1. job.then = Null /\ Sound(ht)
    BY DEF NoJob, HInv
  <1>2. Without(ht', ht, k)
    BY <1>1, RemoveWithout, Zenon
  <1>3. \A j \in Keys : LookupWithout(ht', ht, k, j)
    BY <1>1, <1>2, WithoutLookup, Zenon
  <1>4. \A j \in Keys : j # Null
    BY KeysAssumption
  <1>5. Map' = Seen(ht', Null)
    BY <1>1, MapNext, Zenon
  <1>6. Map' = [j \in Keys |-> IF j = k THEN Null ELSE Lookup(ht, j)]
    BY <1>3, <1>4, <1>5 DEF Seen, LookupWithout
  <1>7. Null \in Values \cup {Null}
    OBVIOUS
  <1>8. QED
    BY <1>6, <1>7, StoreStep, Zenon

\* A resize that is done or fails, and the rest of vtable_rename.
LEMMA FinishStep ==
  ASSUME HInv, HInv', NEW h, Sound(h), Entries(h) = Entries(ht), job.then \in Keys \cup {Null},
         ht' = Finish(h, job.then), job'.then = Null
  PROVE  Map' = Map
  <1>1. Without(ht', h, job.then) /\ Sound(ht)
    BY FinishWithout, Zenon DEF HInv
  <1>2. \A k \in Keys : Lookup(h, k) = Lookup(ht, k)
    BY <1>1, SameLookup, Zenon
  <1>3. \A k \in Keys : LookupWithout(ht', h, job.then, k)
    BY <1>1, WithoutLookup, Zenon
  <1>4. \A k \in Keys : k # Null
    BY KeysAssumption
  <1>5. Seen(ht', job'.then) = Seen(ht, job.then)
    BY <1>2, <1>3, <1>4 DEF Seen, LookupWithout
  <1>6. QED
    BY <1>5, SameMap, Zenon

\* Every step is one of the dictionary, or none.
LEMMA DictionaryStep ==
  ASSUME HInv, HInv', HtNext
  PROVE  Abstract!Next \/ Map' = Map
  <1>1. Sound(ht) /\ JobInv(ht, job)
    BY Zenon DEF HInv
  <1>2. ASSUME NEW k \in Keys, NEW v \in Values, ShtInsert(k, v) PROVE Abstract!Next
    <2> DEFINE e == [key |-> k, val |-> v]
    <2>1. Unlocked /\ Lookup(ht, k) = Null /\ HtInsert(ht, e, Null)
      BY <1>2, Zenon DEF ShtInsert
    <2>2. k \notin AllKeys(ht)
      BY <1>1, <2>1, LookupTells, Zenon
    <2>3. e \in Entry /\ e.key = k /\ e.val = v
      BY EntryIs, Zenon
    <2> HIDE DEF e
    <2>4. Map' = [j \in Keys |-> IF j = Null THEN Null
                                 ELSE IF j = e.key THEN e.val ELSE Lookup(ht, j)]
      BY <1>1, <2>1, <2>2, <2>3, InsertSeen
    <2>5. QED
      BY <2>1, <2>3, <2>4, AtRest, StoreStep
  <1>3. ASSUME NEW k \in Keys, NEW v \in Values, Unlocked,
               HtInsert(HtRemove(ht, k), [key |-> k, val |-> v], Null)
        PROVE  Abstract!Next
    <2> DEFINE e == [key |-> k, val |-> v]
               h == HtRemove(ht, k)
    <2>1. Without(h, ht, k)
      BY <1>1, RemoveWithout, Zenon
    <2>2. HtInsert(h, e, Null)
      BY <1>3, Zenon
    <2>3. e \in Entry /\ e.key = k /\ e.val = v
      BY EntryIs, Zenon
    <2> HIDE DEF e, h
    <2>4. k \notin AllKeys(h) /\ Sound(h)
      BY <2>1, Gone, Zenon DEF Without
    <2>5. \A j \in Keys : j # k => Lookup(h, j) = Lookup(ht, j)
      BY <1>1, <2>1, WithoutLookup, Zenon DEF LookupWithout
    <2>6. Map' = [j \in Keys |-> IF j = Null THEN Null
                                 ELSE IF j = e.key THEN e.val ELSE Lookup(ht, j)]
      BY <1>3, <2>2, <2>3, <2>4, <2>5, InsertSeen
    <2>7. QED
      BY <1>3, <2>3, <2>6, AtRest, StoreStep
  <1>4. ASSUME NEW k \in Keys, NEW v \in Values, ShtReplace(k, v) \/ MemdbSet(k, v)
        PROVE  Abstract!Next
    BY <1>3, <1>4, Zenon DEF ShtReplace, MemdbSet
  <1>5. ASSUME NEW k \in Keys, MemdbDel(k) \/ SetLosesRecord(k) PROVE Abstract!Next
    BY <1>5, AtRest, RemoveStep, Zenon DEF MemdbDel, SetLosesRecord
  <1>6. ASSUME NEW old \in Keys, NEW new \in Keys, VtableRename(old, new) PROVE Abstract!Next
    <2> DEFINE v == Lookup(ht, old)
               e == [key |-> new, val |-> v]
               h == HtRemove(ht, new)
    <2>1. Unlocked /\ old # new /\ v # Null /\ HtInsert(h, e, old)
      BY <1>6, Zenon DEF VtableRename
    <2>2. Without(h, ht, new)
      BY <1>1, RemoveWithout, Zenon
    <2>3. e \in Entry /\ e.key = new /\ e.val = v
      <3>1. v \in Values
        BY <1>1, <2>1, LookupTells, Zenon
      <3>2. QED
        BY <3>1, EntryIs, Zenon
    <2> HIDE DEF e, h
    <2>4. new \notin AllKeys(h) /\ Sound(h)
      BY <2>2, Gone, Zenon DEF Without
    <2>5. \A j \in Keys : j # new => Lookup(h, j) = Lookup(ht, j)
      <3>1. ASSUME NEW j \in Keys PROVE LookupWithout(h, ht, new, j)
        BY <1>1, <2>2, WithoutLookup, Zenon
      <3>2. QED
        BY <3>1, Zenon DEF LookupWithout
    <2>6. Map' = [j \in Keys |-> IF j = old THEN Null
                                 ELSE IF j = e.key THEN e.val ELSE Lookup(ht, j)]
      BY <2>1, <2>3, <2>4, <2>5, InsertSeen
    <2>7. job.then = Null /\ \A j \in Keys : j # Null
      BY <2>1, AtRest, KeysAssumption DEF NoJob
    <2>8. Map = [j \in Keys |-> Lookup(ht, j)]
      BY <2>7, MapIs DEF Seen
    <2>9. Map[old] = v
      BY <2>8
    <2>10. Map' = [Map EXCEPT ![new] = Map[old], ![old] = Null]
      <3>1. Map' = [j \in Keys |-> IF j = old THEN Null ELSE IF j = new THEN v ELSE Lookup(ht, j)]
        BY <2>3, <2>6, Zenon
      <3>2. QED
        BY <2>1, <2>8, <2>9, <3>1
    <2>11. Abstract!Rename(old, new)
      BY <2>1, <2>9, <2>10, Zenon DEF Abstract!Rename
    <2>12. QED
      BY <2>1, <2>11, Zenon DEF Abstract!Next
  <1>7. ASSUME ResizeMove PROVE Map' = Map
    <2>1. ht' = ht /\ job' = [job EXCEPT !.new = Place(@, RecordAt(ht, job.pos)), !.pos = NextPos(ht, @)]
      BY <1>7, Zenon DEF ResizeMove
    <2>2. job = [on |-> job.on, new |-> job.new, pos |-> job.pos, then |-> job.then]
      BY <1>1, Zenon DEF JobInv
    <2>3. job'.then = job.then
      <3>1. job' = [on |-> job.on, new |-> Place(job.new, RecordAt(ht, job.pos)),
                    pos |-> NextPos(ht, job.pos), then |-> job.then]
        BY <2>1, <2>2, JobUpdate, Zenon
      <3>2. QED
        BY <3>1
    <2>4. QED
      BY <2>1, <2>3, SameMap, Zenon
  <1>8. ASSUME ResizeDone \/ ResizeFails PROVE Map' = Map
    <2>1. job.on /\ job' = NoJob
      BY <1>8, Zenon DEF ResizeDone, ResizeFails
    <2>2. /\ job.then \in Keys \cup {Null} /\ Sound(job.new)
          /\ Entries(job.new) = Entries(ht) \ Ahead(ht, job.pos)
      BY <1>1, <2>1, Zenon DEF JobInv
    <2>3. job'.then = Null
      BY <2>1 DEF NoJob
    <2>4. CASE ResizeDone
      <3>1. job.pos.key = Null /\ ht' = Finish(job.new, job.then)
        BY <2>4, Zenon DEF ResizeDone
      <3>2. Entries(job.new) = Entries(ht)
        BY <2>2, <3>1, EndIs
      <3>3. QED
        BY <2>2, <2>3, <3>1, <3>2, FinishStep, Zenon
    <2>5. CASE ResizeFails
      <3>1. ht' = Finish(ht, job.then)
        BY <2>5, Zenon DEF ResizeFails
      <3>2. QED
        BY <1>1, <2>2, <2>3, <3>1, FinishStep, Zenon
    <2>6. QED
      BY <1>8, <2>4, <2>5, Zenon
  <1>9. ASSUME ht' = ht, job' = job PROVE Map' = Map
    BY <1>9, SameMap, Zenon
  <1>10. ASSUME WalkStart \/ WalkEnd PROVE Map' = Map
    BY <1>9, <1>10, Zenon DEF WalkStart, WalkEnd
  <1>11. ASSUME NEW drop \in BOOLEAN, WalkNext(drop) PROVE Abstract!Next \/ Map' = Map
    <2>1. /\ walk.on /\ walk.pos.key # Null /\ job' = job
          /\ ht' = IF drop THEN HtRemove(ht, walk.pos.key) ELSE ht
      BY <1>11, Zenon DEF WalkNext
    <2>2. walk.pos \in Position /\ job = NoJob
      BY <2>1, Zenon DEF HInv, WalkInv, JobInv
    <2>3. walk.pos.key \in Keys
      BY <2>1, <2>2 DEF Position
    <2>4. ht' = ht \/ ht' = HtRemove(ht, walk.pos.key)
      BY <2>1, Zenon
    <2>5. QED
      BY <1>9, <2>1, <2>2, <2>3, <2>4, RemoveStep, Zenon
  <1>12. QED
    BY <1>2, <1>4, <1>5, <1>6, <1>7, <1>8, <1>10, <1>11, Zenon DEF HtNext

\* A new table is empty.
LEMMA DictionaryInit == HtInit => Abstract!Init
  <1>1. SUFFICES ASSUME HtInit PROVE Abstract!Init
    OBVIOUS
  <1>2. ht = EmptyTable(Buckets) /\ job.then = Null
    BY <1>1 DEF HtInit, NoJob
  <1>3. Sound(ht) /\ Entries(ht) = {}
    BY <1>2, HashAssumption, EmptyIs
  <1>4. \A k \in Keys : Lookup(ht, k) = Null
    BY <1>3, LookupIs DEF AllKeys
  <1>5. Map = Seen(ht, job.then)
    BY <1>1, StartInv, MapIs, Zenon
  <1>6. QED
    BY <1>4, <1>5 DEF Seen, Abstract!Init

\* The hash table implements a dictionary: each operation of sht.c, vtable.c and memdb.c
\* changes the entry of its own key, a renaming is one step, and resizes and walks change
\* nothing but what the callback of a walk deletes.
THEOREM HashTableIsDictionary == HtSpec => IsDictionary
  <1>1. HInv /\ HInv' /\ [HtNext]_htvars => [Abstract!Next]_Map
    <2>1. ASSUME UNCHANGED htvars PROVE Map' = Map
      BY <2>1 DEF htvars, Map, Contents, AllKeys, Entries
    <2>2. QED
      BY <2>1, DictionaryStep, Zenon
  <1>2. QED
    BY <1>1, HInvHolds, DictionaryInit, PTL DEF HtSpec, IsDictionary, Abstract!Spec

(***************************************************************************)
(* The tables of the databases, and the janitor                            *)
(***************************************************************************)

USE TablesAssumption, TimesAssumption, NamesAssumption

Time == Int \cup {None}
At == {"idle", "register", "insert", "open", "connect"}
Spot == [at : At, hl : Dynamic \cup {None}]

\* The mutex of the janitor is its own in a pass, and of the thread that adds a table;
\* the "now" of a pass is not in the future.
MutexInv ==
  /\ thread \in [Threads -> Spot]
  /\ janitor = "pass" => holder = "janitor"
  /\ \A h \in Threads : thread[h].at = "insert" => holder = h

TimeInv ==
  /\ jnow \in Int /\ jnow <= 0
  /\ sched \in [Tables -> Time]
  /\ rec \in [Tables -> Time]

IInv == MutexInv /\ TimeInv

\* A time is one older, or no time, still.
LEMMA OlderType ==
  ASSUME NEW x \in Time
  PROVE  /\ Older(x) \in Time
         /\ Older(x) = None <=> x = None
         /\ x \in Int => Older(x) \in Int /\ Older(x) <= x
  BY DEF Older, Time

\* An idle thread adds no table.
LEMMA IdleType == Idle \in Spot /\ Idle.at # "insert"
  <1>1. Idle.at = "idle" /\ Idle.hl = None
    BY DEF Idle
  <1>2. Idle \in Spot
    BY DEF Idle, Spot, At
  <1>3. QED
    BY <1>1, <1>2

\* A thread that goes on to its next step is at it, and is the only one that moves.
LEMMA SetFacts ==
  ASSUME MutexInv, NEW h \in Threads, NEW at \in At, Set(h, [thread[h] EXCEPT !.at = at])
  PROVE  /\ thread' \in [Threads -> Spot]
         /\ thread'[h].at = at
         /\ \A g \in Threads \ {h} : thread'[g] = thread[g]
  <1> DEFINE r == [thread[h] EXCEPT !.at = at]
  <1>1. r \in Spot /\ r.at = at
    BY DEF MutexInv, Spot
  <1> HIDE DEF r
  <1>2. thread' = [thread EXCEPT ![h] = r]
    BY DEF Set, r
  <1>3. QED
    BY <1>1, <1>2 DEF MutexInv

\* Every step keeps the mutex where it belongs.
LEMMA MutexStep == MutexInv /\ [Next]_vars => MutexInv'
  <1> SUFFICES ASSUME MutexInv, [Next]_vars PROVE MutexInv'
    OBVIOUS
  <1> USE DEF MutexInv, clean, tables, past
  <1>1. CASE Start \/ Resume \/ Sleep \/ Timeout
    BY <1>1, Zenon DEF Start, Resume, Sleep, Timeout
  <1>2. ASSUME NEW t \in Tables, Visit(t) \/ VisitFails(t) \/ Skip(t) \/ Store(t) PROVE MutexInv'
    BY <1>2, Zenon DEF Visit, VisitFails, Skip, Store
  <1>3. ASSUME NEW h \in Threads, NEW t \in Dynamic, HitlistOpen(h, t) PROVE MutexInv'
    BY <1>3, Zenon DEF HitlistOpen, Set, Spot, At
  <1>4. ASSUME NEW h \in Threads, RegisterLock(h) \/ Register(h) \/ RegisterFails(h) \/ SetDriver(h)
        PROVE  MutexInv'
    <2>1. CASE RegisterLock(h)
      BY <2>1, SetFacts, Zenon DEF At, RegisterLock
    <2>2. CASE Register(h)
      BY <2>2, SetFacts, Zenon DEF At, Register
    <2>3. CASE RegisterFails(h)
      BY <2>3, IdleType, Zenon DEF RegisterFails, Set
    <2>4. CASE SetDriver(h)
      BY <2>4, SetFacts, Zenon DEF At, SetDriver
    <2>5. QED
      BY <1>4, <2>1, <2>2, <2>3, <2>4, Zenon
  <1>5. ASSUME NEW h \in Threads, NEW ok \in BOOLEAN, Open(h, ok) PROVE MutexInv'
    BY <1>5, IdleType DEF Open, Set
  <1>6. CASE Clear \/ Stop \/ Join \/ Tick
    BY <1>6 DEF Clear, Stop, Join, Tick
  <1>7. CASE UNCHANGED vars
    BY <1>7, Zenon DEF vars
  <1>8. QED
    BY <1>1, <1>2, <1>3, <1>4, <1>5, <1>6, <1>7, Zenon DEF Next, Janitor, Hitlist

\* Every step keeps the times, and "now" in the past.
LEMMA TimeStep == TimeInv /\ [Next]_vars => TimeInv'
  <1> SUFFICES ASSUME TimeInv, [Next]_vars PROVE TimeInv'
    OBVIOUS
  <1> USE DEF TimeInv, clean, tables, past
  <1>1. CASE Start \/ Resume \/ Sleep \/ Timeout
    <2>1. CASE Resume
      <3>1. UNCHANGED <<sched, rec>> /\ (jnow' = 0 \/ UNCHANGED jnow)
        BY <2>1, Zenon DEF Resume
      <3>2. jnow' \in Int /\ jnow' <= 0
        BY <3>1
      <3>3. QED
        BY <3>1, <3>2, Zenon
    <2>2. CASE Start \/ Sleep \/ Timeout
      BY <2>2, Zenon DEF Start, Sleep, Timeout
    <2>3. QED
      BY <1>1, <2>1, <2>2, Zenon
  <1>2. ASSUME NEW t \in Tables, Visit(t) \/ VisitFails(t) \/ Skip(t) \/ Store(t) PROVE TimeInv'
    <2>1. jnow + Interval[t] \in Time /\ Life \in Time /\ None \in Time
      BY DEF Time
    <2>2. CASE Visit(t)
      BY <2>1, <2>2 DEF Visit
    <2>3. CASE VisitFails(t)
      BY <2>1, <2>3, Zenon DEF VisitFails
    <2>4. CASE Skip(t)
      BY <2>4, Zenon DEF Skip
    <2>5. CASE Store(t)
      BY <2>1, <2>5, Zenon DEF Store
    <2>6. QED
      BY <1>2, <2>2, <2>3, <2>4, <2>5, Zenon
  <1>3. ASSUME NEW h \in Threads, NEW t \in Dynamic, HitlistOpen(h, t) PROVE TimeInv'
    BY <1>3, Zenon DEF HitlistOpen
  <1>4. ASSUME NEW h \in Threads, RegisterLock(h) \/ Register(h) \/ RegisterFails(h) \/ SetDriver(h)
        PROVE  TimeInv'
    BY <1>4 DEF RegisterLock, Register, RegisterFails, SetDriver
  <1>5. ASSUME NEW h \in Threads, NEW ok \in BOOLEAN, Open(h, ok) PROVE TimeInv'
    BY <1>5, Zenon DEF Open
  <1>6. CASE Clear \/ Stop \/ Join
    BY <1>6 DEF Clear, Stop, Join
  <1>7. CASE Tick
    <2>1. jnow' = Older(jnow) /\ jnow \in Time
      BY <1>7, Zenon DEF Tick, Time
    <2>2. jnow' \in Int /\ jnow' <= 0
      BY <2>1, OlderType
    <2>3. ASSUME NEW t \in Tables PROVE Older(sched[t]) \in Time /\ Older(rec[t]) \in Time
      BY OlderType
    <2>4. QED
      BY <1>7, <2>2, <2>3, Zenon DEF Tick
  <1>8. CASE UNCHANGED vars
    BY <1>8 DEF vars
  <1>9. QED
    BY <1>1, <1>2, <1>3, <1>4, <1>5, <1>6, <1>7, <1>8, Zenon DEF Next, Janitor, Hitlist

\* The strengthening is an invariant.
LEMMA Inductive == Spec => []IInv
  <1>1. Init => IInv
    BY IdleType DEF Init, IInv, MutexInv, TimeInv, Time
  <1>2. IInv /\ [Next]_vars => IInv'
    BY MutexStep, TimeStep DEF IInv
  <1>3. QED
    BY <1>1, <1>2, PTL DEF Spec

\* The set of tables does not change under a pass of the janitor (dbt_register,
\* dbt_janitor), for any number of threads, tables and hitlists.
THEOREM TablesStayInPass == Spec => WalkUndisturbed
  <1>1. IInv /\ [Next]_vars => [janitor = "pass" /\ registered' # registered => janitor' # "pass"]_vars
    <2> SUFFICES ASSUME IInv, Next, janitor = "pass" PROVE registered' = registered
      OBVIOUS
    <2> USE DEF clean, tables, past
    <2>1. ASSUME NEW h \in Threads PROVE ~ Register(h)
      BY DEF IInv, MutexInv, Register
    <2>2. QED
      BY <2>1, Zenon DEF Next, Janitor, Hitlist, Start, Resume, Sleep, Timeout, Visit, VisitFails, Skip, Store,
         HitlistOpen, RegisterLock, RegisterFails, SetDriver, Open, Clear, Stop, Join, Tick
  <1>2. QED
    BY <1>1, Inductive, PTL DEF Spec, WalkUndisturbed

\* No record is deleted before it has expired (dbt_common_validate, sql_expire), however
\* late the janitor is and whatever date its table was due at.
THEOREM DeletedAfterExpiry == Spec => NeverEarly
  <1>1. IInv /\ [Next]_vars
          => [\A t \in Tables : rec[t] # None /\ rec'[t] = None => rec[t] < 0]_vars
    <2> SUFFICES ASSUME IInv, Next, NEW t \in Tables, rec[t] # None, rec'[t] = None
                 PROVE  rec[t] < 0
      OBVIOUS
    <2> USE DEF clean, tables, past
    <2>1. rec' # rec
      OBVIOUS
    <2>2. ~ Tick
      BY OlderType DEF IInv, TimeInv, Tick
    <2>3. ASSUME NEW u \in Tables PROVE ~ Store(u)
      BY DEF IInv, TimeInv, Store
    <2>4. \E u \in Tables : Visit(u)
      BY <2>1, <2>2, <2>3, Zenon DEF Next, Janitor, Hitlist, Start, Resume, Sleep, Timeout, VisitFails, Skip,
         HitlistOpen, RegisterLock, Register, RegisterFails, SetDriver, Open, Clear, Stop, Join
    <2>5. Visit(t)
      <3>1. PICK u \in Tables : Visit(u)
        BY <2>4
      <3>2. PICK r : rec' = [rec EXCEPT ![u] = r]
        BY <3>1, Zenon DEF Visit
      <3>3. rec'[t] # rec[t]
        OBVIOUS
      <3>4. u = t
        BY <3>2, <3>3 DEF IInv, TimeInv
      <3>5. QED
        BY <3>1, <3>4
    <2>6. Expired(t) /\ Due(t)
      BY <2>5 DEF IInv, TimeInv, Visit
    <2>7. QED
      BY <2>6 DEF IInv, TimeInv, Time, Expired, Due, Date
  <1>2. QED
    BY <1>1, Inductive, PTL DEF Spec, NeverEarly
=============================================================================
