----------------------------- MODULE MCFlatMap -----------------------------
(***************************************************************************)
(* Small tables for FlatMap, with hashes that collide, so that elements    *)
(* displace each other and run out of lookups.                             *)
(***************************************************************************)
EXTENDS FlatMap, TLC

CONSTANTS a, b, c, d, e, f

(* Two keys at the first slot, three at the second and one at the third. *)
Crowded == [k \in Key |-> IF k \in {a, b} THEN 0 ELSE IF k = e THEN 2 ELSE 1]

Half == <<1, 2>>
Twice == <<2, 1>>
HalfOrTwice == {Half, Twice}

=============================================================================
