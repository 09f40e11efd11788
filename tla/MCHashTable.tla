---------------------------- MODULE MCHashTable -----------------------------
EXTENDS HashTable, TLC

\* Five keys: two collide in tables of up to eight buckets, two more in those of up
\* to four, and all odd ones in the smallest.
MCKeys == 0..4
MCHash == [k \in MCKeys |-> CASE k = 0 -> 1 [] k = 1 -> 9 [] k = 2 -> 3 [] k = 3 -> 6 [] k = 4 -> 15]
=============================================================================
