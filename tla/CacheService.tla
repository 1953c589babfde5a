---------------------------- MODULE CacheService ----------------------------
(***************************************************************************)
(* What a cache server promises its clients, whatever it is made of: a     *)
(* request that has reached it takes effect at most once, in one step,     *)
(* and nothing else changes the cache.  A request may also be lost, with   *)
(* its connection, before it takes effect.                                 *)
(***************************************************************************)
EXTENDS MapOps

CONSTANTS
  Conns,       \* the connections; each carries one request
  Requests     \* records [op, key, val]

VARIABLES
  cache,       \* the map from keys to values
  waiting,     \* the connections whose request has not taken effect
  request      \* what each connection that has called asked for last

vars == <<cache, waiting, request>>

Effect(m, r) ==
  CASE r.op \in {"add", "set"} -> Put(m, r.key, r.val)
    [] r.op = "rm" -> Remove(m, r.key)
    [] OTHER -> m

Init ==
  /\ cache = EmptyMap
  /\ waiting = {}
  /\ request = EmptyMap

Submit(c, r) ==
  /\ c \notin waiting
  /\ waiting' = waiting \cup {c}
  /\ request' = Put(request, c, r)
  /\ UNCHANGED cache

Perform(c) ==
  /\ c \in waiting
  /\ cache' = Effect(cache, request[c])
  /\ waiting' = waiting \ {c}
  /\ UNCHANGED request

Lose(cs) ==
  /\ cs # {}
  /\ waiting' = waiting \ cs
  /\ UNCHANGED <<cache, request>>

Next ==
  \/ \E c \in Conns, r \in Requests : Submit(c, r)
  \/ \E c \in Conns : Perform(c)
  \/ \E cs \in SUBSET waiting : Lose(cs)

Spec == Init /\ [][Next]_vars

=============================================================================
