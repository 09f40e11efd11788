----------------------------- MODULE Dictionary -----------------------------
(***************************************************************************)
(* What the hash tables of mopherd (ht.c and its users sht.c, vtable.c and *)
(* modules/memdb.c) promise: a partial map from keys to values, of which   *)
(* an operation changes the entry of its own key and no other.             *)
(***************************************************************************)
CONSTANTS Keys, Values, Null

VARIABLE map

Init == map = [k \in Keys |-> Null]

\* Insertion of an absent key, replacement or removal of a present one.
Store(k, v) == map' = [map EXCEPT ![k] = v]

\* The value of one key moves to another.
Rename(old, new) ==
  /\ map[old] # Null
  /\ map' = [map EXCEPT ![new] = map[old], ![old] = Null]

Next ==
  \/ \E k \in Keys, v \in Values \cup {Null} : Store(k, v)
  \/ \E old, new \in Keys : old # new /\ Rename(old, new)

Spec == Init /\ [][Next]_map
=============================================================================
