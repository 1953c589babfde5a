----------------------------- MODULE FsesSystem -----------------------------
(***************************************************************************)
(* The tokio server and the pooled client together, over the connections   *)
(* of the pool.                                                            *)
(***************************************************************************)
EXTENDS TokioServer, FsesClient

VARIABLES
  wrote,       \* history: who has written on each connection
  executed     \* history: the message the server took from it

history == <<wrote, executed>>
vars == <<netVars, serverVars, clientVars, history>>

(* The request of a call as the server takes it: the first string of the   *)
(* body is stored as the value, the second is the key.                     *)
Taken(r) ==
  [op |-> IF r.op = "add" THEN "a" ELSE "g",
   key |-> IF r.op = "add" THEN Encode(r.val) ELSE <<>>,
   val |-> Encode(r.key)]

(* Characters of one byte: as many bytes as the sizes say. *)
OneByte(s) == \A i \in DOMAIN s : \E b \in Byte : Utf8[s[i]] = <<b>>

(* What client and server take for granted: no segment ends inside a       *)
(* header, the sizes count bytes, and they have no more digits than their  *)
(* fields.  Where that is not so the server panics, waits for bytes that   *)
(* never come, or takes a message for another.                             *)
WholeRequests ==
  /\ Cuts \subseteq Nat /\ \A n \in Cuts : n > 2 * SizeLen
  /\ \A r \in Calls :
       /\ r.op \in {"add", "get"}
       /\ \A s \in {r.key, r.val} :
            s \in Seq(DOMAIN Utf8) /\ OneByte(s) /\ Len(s) < 10 ^ SizeLen

Nothing == [op |-> "none", key |-> <<>>, val |-> <<>>]

Init ==
  /\ NetInit /\ ServerInit /\ ClientInit
  /\ wrote = [c \in Conns |-> <<>>]
  /\ executed = [c \in Conns |-> Nothing]

(* A listener that is gone refuses. *)
OpenOne(c) == alive /\ Open(c) /\ UNCHANGED <<serverVars, history>>

StartCall(p) ==
  /\ \E r \in Calls : Start(p, r)
  /\ UNCHANGED <<serverVars, history>>

TakeConn(p, c) ==
  /\ Take(p, c)
  /\ wrote' = IF sent'[c] = sent[c] THEN wrote
              ELSE [wrote EXCEPT ![c] = Append(@, p)]
  /\ UNCHANGED <<serverVars, executed>>

FinishRead(p) ==
  /\ ReadReply(p) \/ ReadEof(p) \/ ReadRaises(p)
  /\ UNCHANGED <<serverVars, history>>

EventLoop(c) ==
  /\ NoticeEof(c) \/ NoticeReset(c) \/ ConnectionLost(c)
  /\ UNCHANGED <<serverVars, history>>

CloseAll == Close /\ UNCHANGED <<serverVars, history>>

Bytes(c) == Arrive(c) /\ UNCHANGED <<serverVars, clientVars, history>>

ServeOne(c) ==
  /\ Serve(c)
  /\ LET m == Header(Filled(c))
     IN  executed' = [executed EXCEPT ![c] =
                        [op |-> m.op, key |-> MessageKey(m), val |-> MessageVal(m)]]
  /\ UNCHANGED <<clientVars, wrote>>

ServerStep(c) ==
  \/ ServeOne(c)
  \/ /\ Accept(c) \/ Await(c) \/ Disconnect(c) \/ Panic(c)
     /\ UNCHANGED <<clientVars, history>>

Next ==
  \/ \E p \in Callers : StartCall(p) \/ FinishRead(p)
  \/ \E p \in Callers, c \in Conns : TakeConn(p, c)
  \/ \E c \in Conns : OpenOne(c) \/ EventLoop(c) \/ Bytes(c) \/ ServerStep(c)
  \/ CloseAll

Spec == Init /\ [][Next]_vars

(* Both event loops run and bytes arrive.  Nobody has to open, call or     *)
(* close; a coroutine that has called goes on.                             *)
Fairness ==
  /\ \A p \in Callers : WF_vars(\E c \in Conns : TakeConn(p, c)) /\ WF_vars(FinishRead(p))
  /\ \A c \in Conns : WF_vars(EventLoop(c)) /\ WF_vars(Bytes(c)) /\ WF_vars(ServerStep(c))

FairSpec == Spec /\ Fairness

(* The types of the program's variables.  A transport that has failed or   *)
(* is closed takes no more bytes.                                          *)
TypeOK ==
  /\ NetTypeOK /\ ServerTypeOK /\ ClientTypeOK
  /\ wrote \in [Conns -> Seq(Callers)]

(* fses.py: a connection's flag is set exactly while a coroutine reads     *)
(* from it, or for ever once one has left by an exception; every other     *)
(* way out of add and get gives it back.                                   *)
BusyMeans ==
  /\ \A p \in Callers : pc[p] = "reading" => on[p] \in busy
  /\ \A c \in busy : \E p \in Callers : on[p] = c /\ pc[p] \in {"reading", "raised"}

(* fses.py: no two coroutines read from one connection, so that no reply   *)
(* is read by the coroutine of another request.                            *)
OneCaller ==
  \A p, q \in Callers :
    pc[p] = "reading" /\ pc[q] = "reading" /\ on[p] = on[q] => p = q

(* Server and pool: a coroutine that reads "o" was the first to write on   *)
(* its connection, so the reply is to its request and not to that of a     *)
(* coroutine that had the connection before or got it since.               *)
OwnReply ==
  \A p \in Callers :
    result[p] = <<"o">> => wrote[on[p]] # <<>> /\ wrote[on[p]][1] = p

(* An "o" is the acknowledgement of the caller's own request: the server   *)
(* has taken it from the caller's connection, whole and unmixed, though    *)
(* the connection was shared and the bytes came in segments.               *)
Acked ==
  \A p \in Callers :
    result[p] = <<"o">> => executed[on[p]] = Taken(call[p])

(* The callers whose request came first on its connection. *)
FirstOn(c) == {wrote[c][i] : i \in DOMAIN wrote[c] \cap {1}}
Firsts == UNION {FirstOn(c) : c \in Conns}

Service ==
  INSTANCE CacheService WITH
    Conns <- Callers,
    Requests <- {[Taken(r) EXCEPT !.op = r.op] : r \in Calls},
    waiting <- {p \in Firsts : link[on[p]] # "closed"},
    request <- [p \in Firsts |-> [Taken(call[p]) EXCEPT !.op = call[p].op]]

(* Server and pool implement the cache service, with key and value as the  *)
(* server understands them: no request takes effect twice or in part,      *)
(* reads leave the cache alone.                                            *)
AtMostOnce == Service!Spec

(* Every read ends, with a reply, at the end of file or by an exception,   *)
(* also when the server panics in the middle of it.                        *)
ReadsEnd == \A p \in Callers : pc[p] = "reading" ~> pc[p] # "reading"

(* benchmark.py makes all its adds through three connections: an add that  *)
(* returns, with the server alive and the pool open, has been performed.   *)
AddsPerformed ==
  \A p \in Callers :
    pc[p] = "returned" /\ call[p].op = "add" /\ alive /\ ~closed
      => executed[on[p]] = Taken(call[p])

=============================================================================
