------------------------------- MODULE MapOps -------------------------------
(***************************************************************************)
(* A map from keys to values is a function whose domain is the set of the  *)
(* keys it holds.  These are the three things the server does to its       *)
(* ska::bytell_hash_map: cache[key] = val, cache.erase(found) and the      *)
(* lookups.                                                                *)
(***************************************************************************)

EmptyMap == [k \in {} |-> k]

Put(m, k, v) == [x \in DOMAIN m \cup {k} |-> IF x = k THEN v ELSE m[x]]

Remove(m, k) == [x \in DOMAIN m \ {k} |-> m[x]]

=============================================================================
