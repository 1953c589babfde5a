---------------------------- MODULE MCBytellMap ----------------------------
(***************************************************************************)
(* Small tables for BytellMap: few jumps and hashes that collide, so that  *)
(* chains meet, evict each other and run out of jumps.                     *)
(***************************************************************************)
EXTENDS BytellMap, TLC

CONSTANTS a, b, c, d, e, f

Jumps == <<1, 3, 8>>

(* Four keys at the first slot, one at the second and one at the fourth:   *)
(* an eviction runs out of jumps half-way, and a table that is being       *)
(* filled again after a rehash runs out of them and grows once more.       *)
Crowded ==
  [k \in Key |-> IF k \in {a, b, c, f} THEN 0 ELSE IF k = d THEN 1 ELSE 3]

(* The same with two jumps and five keys.                                  *)
NearJumps == <<1, 2>>

Threesome ==
  [k \in Key |-> IF k \in {a, b, c} THEN 0 ELSE IF k = d THEN 2 ELSE 6]

One == <<1, 1>>
Full == {One}
Factors == {<<15, 16>>, One}

SameHome == Permutations(Key \cap {a, b, c, f})

=============================================================================
