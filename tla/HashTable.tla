----------------------------- MODULE HashTable ------------------------------
(***************************************************************************)
(* The chained hash table of ht.c with the operations its users put on top *)
(* of it: string tables (sht.c), variable tables (vtable.c) and the        *)
(* in-memory database driver (modules/memdb.c).  A table is used by one    *)
(* thread at a time: its owner, or the holder of the mutex that guards it. *)
(* A walk keeps that mutex from its first to its last record; only its     *)
(* callback touches the table meanwhile, to delete the record it was given *)
(* (the janitor does so with expired records).  The collision counter,     *)
(* which only a debug message reads, is left out.                          *)
(***************************************************************************)
EXTENDS Integers, Sequences, FiniteSetsExt, Functions

CONSTANTS
  Keys,
  Values,
  Null,         \* a NULL pointer
  Hash,         \* the table's hash function
  Buckets       \* the size of a new table

ASSUME HashAssumption == Hash \in [Keys -> Nat] /\ Buckets \in Nat \ {0}
ASSUME KeysAssumption == Null \notin Keys \cup Values

VARIABLES
  ht,           \* the table
  walk,         \* the walk in progress, and history of it
  job           \* the ht_resize in progress

htvars == <<ht, walk, job>>

Entries(h) == UNION {Range(h.table[b]) : b \in DOMAIN h.table}
AllKeys(h) == {e.key : e \in Entries(h)}
KeysOf(chain) == {e.key : e \in Range(chain)}
Used(h) == {b \in DOMAIN h.table : h.table[b] # <<>>}

(***************************************************************************)
(* ht.c                                                                    *)
(***************************************************************************)

\* ht_init: a new table of n buckets.
EmptyTable(n) ==
  [table |-> [b \in 0..(n - 1) |-> <<>>], buckets |-> n, head |-> 0,
   records |-> 0]

Bucket(h, k) == Hash[k] % h.buckets

\* The first record of a chain that matches.
First(chain, k) ==
  CHOOSE i \in DOMAIN chain :
    chain[i].key = k /\ \A j \in DOMAIN chain : chain[j].key = k => i <= j

\* ht_lookup.
Lookup(h, k) ==
  LET chain == h.table[Bucket(h, k)] IN
  IF k \in KeysOf(chain) THEN chain[First(chain, k)].val ELSE Null

\* Mutant of Place: the head is set by the first record only.
PlaceKeepsHead(h, e) ==
  LET b == Bucket(h, e.key) IN
  [h EXCEPT !.table[b] = <<e>> \o @,
            !.head = IF h.records = 0 THEN b ELSE @,
            !.records = @ + 1]

\* ht_insert of an absent key, up to the load check.
Place(h, e) ==
  LET b == Bucket(h, e.key) IN
  [table |-> [h.table EXCEPT ![b] = <<e>> \o @], buckets |-> h.buckets,
   head |-> IF b < h.head \/ h.records = 0 THEN b ELSE h.head,
   records |-> h.records + 1]

\* HT_LOADFACTOR above MAX_LOAD percent.
Overloaded(h) == 2 * h.records > h.buckets

\* Mutant of HtRemove: the first record of the chain goes, whatever its key.
HtRemoveFirst(h, k) ==
  LET b == Bucket(h, k) IN
  IF h.table[b] = <<>> THEN h
  ELSE [h EXCEPT !.table[b] = Tail(@), !.records = @ - 1]

\* A chain without its record i.
Unlinked(chain, i) == SubSeq(chain, 1, i - 1) \o SubSeq(chain, i + 1, Len(chain))

\* ht_remove.  The head stays where it is, even if its bucket is now empty.
HtRemove(h, k) ==
  LET b == Bucket(h, k)
      chain == h.table[b]
  IN  IF k \in KeysOf(chain)
      THEN [table |-> [h.table EXCEPT ![b] = Unlinked(chain, First(chain, k))],
            buckets |-> h.buckets, head |-> h.head, records |-> h.records - 1]
      ELSE h

\* The end of the table.
NoPos == [bucket |-> 0, key |-> Null]

\* On the first record of bucket b.
Top(h, b) == [bucket |-> b, key |-> h.table[b][1].key]

\* Mutant of NextPos: the search goes on at the first bucket.
NextPosWraps(h, p) ==
  LET chain == h.table[p.bucket]
      i == First(chain, p.key)
      others == Used(h) \ {p.bucket}
      later == {b \in others : b > p.bucket}
  IN  IF i < Len(chain) THEN [bucket |-> p.bucket, key |-> chain[i + 1].key]
      ELSE IF others = {} THEN NoPos
      ELSE Top(h, Min(IF later = {} THEN others ELSE later))

\* ht_next: the position after p, which is on a record.
NextPos(h, p) ==
  LET chain == h.table[p.bucket]
      i == First(chain, p.key)
      later == {b \in Used(h) : b > p.bucket}
  IN  IF i < Len(chain) THEN [bucket |-> p.bucket, key |-> chain[i + 1].key]
      ELSE IF later = {} THEN NoPos
      ELSE Top(h, Min(later))

\* ht_start: on the head bucket, even if removals have emptied it.
StartPos(h) ==
  IF h.records = 0 THEN NoPos
  ELSE IF h.table[h.head] = <<>> THEN [NoPos EXCEPT !.bucket = h.head]
  ELSE Top(h, h.head)

(***************************************************************************)
(* ht_insert and ht_resize                                                 *)
(***************************************************************************)

NoWalk == [on |-> FALSE, pos |-> NoPos, all |-> {}, seen |-> {}, whole |-> TRUE]

NoJob == [on |-> FALSE, new |-> EmptyTable(1), pos |-> NoPos, then |-> Null]

HtInit ==
  /\ ht = EmptyTable(Buckets)
  /\ walk = NoWalk
  /\ job = NoJob

Unlocked == ~ walk.on /\ ~ job.on

\* What the caller of ht_insert does last: vtable_rename removes the old name.
Finish(h, then) == IF then = Null THEN h ELSE HtRemove(h, then)

\* ht_insert into h of a record e whose key is absent, and the rest of the caller; an
\* overloaded table is resized before that, from its first record on.
HtInsert(h, e, then) ==
  LET new == Place(h, e) IN
  /\ IF Overloaded(new)
     THEN /\ ht' = new
          /\ job' = [on |-> TRUE, new |-> EmptyTable(2 * new.buckets),
                     pos |-> Top(new, Min(Used(new))), then |-> then]
     ELSE ht' = Finish(new, then) /\ UNCHANGED job
  /\ UNCHANGED walk

\* The record at p.
RecordAt(h, p) == h.table[p.bucket][First(h.table[p.bucket], p.key)]

\* Mutant of ResizeMove: a record is put into the bucket it was in, not hashed again.
ResizeMoveSame ==
  /\ job.on
  /\ job.pos.key # Null
  /\ job' = [job EXCEPT !.new.table[job.pos.bucket] = <<RecordAt(ht, job.pos)>> \o @,
                        !.new.records = @ + 1, !.pos = NextPos(ht, @)]
  /\ UNCHANGED <<ht, walk>>

\* ht_resize: the next record, in the order of the buckets and their chains, is
\* inserted into the table of twice the size, which it does not overload.
ResizeMove ==
  /\ job.on
  /\ job.pos.key # Null
  /\ job' = [job EXCEPT !.new = Place(@, RecordAt(ht, job.pos)), !.pos = NextPos(ht, @)]
  /\ UNCHANGED <<ht, walk>>

\* All are: the new table takes the place of the old one.
ResizeDone ==
  /\ job.on
  /\ job.pos.key = Null
  /\ ht' = Finish(job.new, job.then)
  /\ job' = NoJob
  /\ UNCHANGED walk

\* No memory for the new table or for one of its records: the overloaded one stays.
\* Bound: as long as the doubled table will hold the records of the next attempt.
ResizeFails ==
  /\ job.on
  /\ job.pos.key # Null
  /\ ht.records < ht.buckets
  /\ ht' = Finish(ht, job.then)
  /\ job' = NoJob
  /\ UNCHANGED walk

(***************************************************************************)
(* The users of the table                                                  *)
(***************************************************************************)

\* sht_insert; a duplicate is refused.
ShtInsert(k, v) ==
  /\ Unlocked
  /\ Lookup(ht, k) = Null
  /\ HtInsert(ht, [key |-> k, val |-> v], Null)

\* sht_replace.
ShtReplace(k, v) == Unlocked /\ HtInsert(HtRemove(ht, k), [key |-> k, val |-> v], Null)

\* memdb_set.
MemdbSet(k, v) == Unlocked /\ HtInsert(HtRemove(ht, k), [key |-> k, val |-> v], Null)

\* memdb_del and sht_remove.
MemdbDel(k) == Unlocked /\ ht' = HtRemove(ht, k) /\ UNCHANGED <<walk, job>>

\* vtable_rename: the new name is set before the old one is removed.
VtableRename(old, new) ==
  /\ Unlocked
  /\ old # new
  /\ Lookup(ht, old) # Null
  /\ HtInsert(HtRemove(ht, new), [key |-> new, val |-> Lookup(ht, old)], old)

\* No memory for the record of a replacement: the old one is gone already.
SetLosesRecord(k) == Unlocked /\ ht' = HtRemove(ht, k) /\ UNCHANGED <<walk, job>>

\* memdb_walk, watchdog_check: ht_start.
WalkStart ==
  /\ Unlocked
  /\ walk' = [on |-> TRUE, pos |-> StartPos(ht), all |-> AllKeys(ht), seen |-> {},
              whole |-> ht.records = 0 \/ ht.table[ht.head] # <<>>]
  /\ UNCHANGED <<ht, job>>

\* Mutant of WalkNext: the position is advanced after the callback.
WalkNextLate(drop) ==
  /\ walk.on
  /\ walk.pos.key # Null
  /\ ht' = IF drop THEN HtRemove(ht, walk.pos.key) ELSE ht
  /\ walk' = [walk EXCEPT !.seen = @ \cup {walk.pos.key},
                          !.pos = IF drop THEN @ ELSE NextPos(ht, @)]
  /\ UNCHANGED job

\* ht_next, and a callback that deletes the record or keeps it.
WalkNext(drop) ==
  /\ walk.on
  /\ walk.pos.key # Null
  /\ ht' = IF drop THEN HtRemove(ht, walk.pos.key) ELSE ht
  /\ walk' = [walk EXCEPT !.seen = @ \cup {walk.pos.key}, !.pos = NextPos(ht, @)]
  /\ UNCHANGED job

\* ht_next returned NULL.
WalkEnd ==
  /\ walk.on
  /\ walk.pos.key = Null
  /\ walk' = NoWalk
  /\ UNCHANGED <<ht, job>>

HtNext ==
  \/ \E k \in Keys, v \in Values : ShtInsert(k, v)
  \/ \E k \in Keys, v \in Values : ShtReplace(k, v)
  \/ \E k \in Keys, v \in Values : MemdbSet(k, v)
  \/ \E k \in Keys : MemdbDel(k)
  \/ \E k \in Keys : SetLosesRecord(k)
  \/ \E old, new \in Keys : VtableRename(old, new)
  \/ ResizeMove \/ ResizeDone \/ ResizeFails
  \/ WalkStart
  \/ \E drop \in BOOLEAN : WalkNext(drop)
  \/ WalkEnd

\* A walk runs to its end: its thread holds the mutex and does not block.
HtFairness ==
  WF_htvars(\E drop \in BOOLEAN : WalkNext(drop)) /\ WF_htvars(WalkEnd)

HtSpec == HtInit /\ [][HtNext]_htvars /\ HtFairness

(***************************************************************************)
(* Properties                                                              *)
(***************************************************************************)

\* What the chains hold, wherever they hold it.
Contents ==
  [k \in Keys |->
     IF k \in AllKeys(ht) THEN (CHOOSE e \in Entries(ht) : e.key = k).val ELSE Null]

\* ht_lookup finds every record of the table, after any history of insertions,
\* removals, renamings and resizings, failed ones included.
LookupFinds == \A k \in Keys : Lookup(ht, k) = Contents[k]

\* A walk never stands on a freed record, nor on one it has returned already,
\* though its callback deletes records as it goes.
WalkSafe ==
  walk.pos.key # Null =>
    /\ walk.pos.key \in KeysOf(ht.table[walk.pos.bucket])
    /\ walk.pos.key \notin walk.seen

\* A walk that started on a non-empty head bucket returns every record that was
\* in the table.
WalkComplete ==
  walk.on /\ walk.whole /\ walk.pos.key = Null => walk.seen = walk.all

\* ht_next gets to the end of every table.
WalkEnds == walk.on ~> ~ walk.on

\* The old name of a variable goes as soon as the new one is there.
Map == [k \in Keys |-> IF k = job.then THEN Null ELSE Contents[k]]

Abstract == INSTANCE Dictionary WITH map <- Map

\* The table is a dictionary: every operation changes the entry of its own key and
\* no other, resizes and walks change nothing but what the callback deletes.
IsDictionary == Abstract!Spec
=============================================================================
