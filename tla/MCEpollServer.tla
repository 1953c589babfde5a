--------------------------- MODULE MCEpollServer ---------------------------
(***************************************************************************)
(* Small instances of EpollServer: one key and two values, whole requests  *)
(* or requests that arrive in two segments.                                *)
(***************************************************************************)
EXTENDS EpollServer, TLC

Add(key, val) == [op |-> "add", key |-> key, val |-> val]
Set(key, val) == [op |-> "set", key |-> key, val |-> val]
Get(key) == [op |-> "get", key |-> key, val |-> <<>>]
Rm(key) == [op |-> "rm", key |-> key, val |-> <<>>]

K == <<"k", ".">>
V == <<"v">>

AllCalls == {Add(K, V), Set(K, <<>>), Get(K), Rm(K)}
AddAndGet == {Add(K, V), Get(K)}
AddAndRm == {Add(K, V), Rm(K)}

(* The uninitialised array: zeros, or the leftovers of an earlier frame    *)
(* that look like the start of an insert and stop the process.             *)
Leftovers == {[i \in 1..BufLen |-> "nul"], [i \in 1..BufLen |-> "i"]}

(* And what is left of an add that an earlier server got in two segments:  *)
(* a torn request then meets the rest of another one.                      *)
TornLeftovers ==
  Leftovers \cup {Overlay([i \in 1..BufLen |-> "nul"], Tail(Bytes(Add(K, V))))}

Zeros == {[i \in 1..BufLen |-> "nul"]}

(* The instances whose requests are not cut are of the kind that           *)
(* TakesEffectOnce is about.                                               *)
ASSUME MCEpollAssumption == Cuts = {} => WholeRequests

ConnSymmetry == Permutations(Conns)

=============================================================================
