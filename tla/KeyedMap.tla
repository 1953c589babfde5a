------------------------------ MODULE KeyedMap ------------------------------
(***************************************************************************)
(* What a hash map promises: a finite function that only emplace, the      *)
(* assignment of a value, erase and clear change.  Rehashing, growing,     *)
(* copying and iterating do not show.                                      *)
(***************************************************************************)
EXTENDS MapOps

CONSTANTS Key, Value

VARIABLE map

Init == map = EmptyMap

Emplace(k, v) == k \notin DOMAIN map /\ map' = Put(map, k, v)

Assign(k, v) == k \in DOMAIN map /\ map' = Put(map, k, v)

Erase(k) == k \in DOMAIN map /\ map' = Remove(map, k)

Clear == map' = EmptyMap

Next ==
  \/ \E k \in Key, v \in Value : Emplace(k, v) \/ Assign(k, v)
  \/ \E k \in Key : Erase(k)
  \/ Clear

Spec == Init /\ [][Next]_map

=============================================================================
