--------------------------- MODULE BlockingServer ---------------------------
(***************************************************************************)
(* main.cpp: one thread that accepts a connection, reads from it once,     *)
(* answers "message" and closes it, whatever was asked.  All calls block,  *)
(* so that a client that does not write keeps everybody behind it waiting. *)
(*                                                                         *)
(* A client is a call of client.py or anything else that connects; the     *)
(* silent ones never write.  Bytes are counted in pieces, of which one     *)
(* read_some takes as many as have arrived, up to MaxRead.  asio's write   *)
(* raises no SIGPIPE and its error is ignored.                             *)
(***************************************************************************)
EXTENDS Naturals, Sequences

CONSTANTS
  Client,
  Silent,      \* clients that never write
  Pieces,      \* how long a request may be
  MaxRead,     \* pieces that fit the array of 256 bytes
  Nobody

BlockingAssumption ==
  /\ Nobody \notin Client /\ Silent \subseteq Client
  /\ Pieces \in Nat \ {0} /\ MaxRead \in Nat \ {0}

VARIABLES
  state,       \* of each client: what it does next
  unsent,      \* pieces it has still to write
  unread,      \* pieces that have arrived at the server
  queue,       \* connections not accepted yet
  serving,     \* the client behind socket
  step,        \* the call the server is in
  answer       \* what a client finds when it reads

vars == <<state, unsent, unread, queue, serving, step, answer>>

(* "answer" is the reply, "fin" and "rst" the ways the server closes. *)
NoAnswer == [reply |-> FALSE, closed |-> "no"]

Init ==
  /\ state = [c \in Client |-> "away"]
  /\ unsent = [c \in Client |-> 0]
  /\ unread = [c \in Client |-> 0]
  /\ queue = <<>>
  /\ serving = Nobody
  /\ step = "accept"
  /\ answer = [c \in Client |-> NoAnswer]

ServerClosed(c) == answer[c].closed # "no"

-----------------------------------------------------------------------------
(* Clients *)

Connect(c, n) ==
  /\ state[c] = "away"
  /\ state' = [state EXCEPT ![c] = IF c \in Silent THEN "silent" ELSE "writing"]
  /\ unsent' = [unsent EXCEPT ![c] = n]
  /\ queue' = Append(queue, c)
  /\ UNCHANGED <<unread, serving, step, answer>>

(* A segment arrives; a socket that was closed answers with a RST. *)
Write(c, n) ==
  /\ state[c] = "writing" /\ n \in 1 .. unsent[c]
  /\ unsent' = [unsent EXCEPT ![c] = @ - n]
  /\ IF ServerClosed(c)
     THEN /\ answer' = [answer EXCEPT ![c].closed = "rst"]
          /\ UNCHANGED unread
     ELSE /\ unread' = [unread EXCEPT ![c] = @ + n]
          /\ UNCHANGED answer
  /\ state' = [state EXCEPT ![c] = IF n = unsent[c] THEN "reading" ELSE @]
  /\ UNCHANGED <<queue, serving, step>>

(* read of get and rm, which returns the reply, nothing at the end of the  *)
(* stream, or raises.                                                      *)
ReadReply(c) ==
  /\ state[c] = "reading"
  /\ answer[c].reply \/ ServerClosed(c)
  /\ state' = [state EXCEPT ![c] = "done"]
  /\ UNCHANGED <<unsent, unread, queue, serving, step, answer>>

(* add closes when it has written; any client may be gone at any time. *)
Leave(c) ==
  /\ state[c] \in {"writing", "reading", "silent"}
  /\ state' = [state EXCEPT ![c] = "gone"]
  /\ UNCHANGED <<unsent, unread, queue, serving, step, answer>>

-----------------------------------------------------------------------------
(* The server *)

Accept ==
  /\ step = "accept" /\ queue # <<>>
  /\ serving' = Head(queue) /\ queue' = Tail(queue)
  /\ step' = "read"
  /\ UNCHANGED <<state, unsent, unread, answer>>

(* read_some returns as soon as something has arrived *)
ReadSome ==
  /\ step = "read" /\ unread[serving] > 0
  /\ unread' = [unread EXCEPT ![serving] = IF @ > MaxRead THEN @ - MaxRead ELSE 0]
  /\ step' = "write"
  /\ UNCHANGED <<state, unsent, queue, serving, answer>>

(* or at the end of the stream, whose error nobody looks at. *)
ReadEnds ==
  /\ step = "read" /\ unread[serving] = 0 /\ state[serving] = "gone"
  /\ step' = "write"
  /\ UNCHANGED <<state, unsent, unread, queue, serving, answer>>

(* Variant: the connection is kept for another read. *)
WriteAndKeep ==
  /\ step = "write"
  /\ answer' = [answer EXCEPT ![serving].reply = TRUE]
  /\ step' = "read"
  /\ UNCHANGED <<state, unsent, unread, queue, serving>>

(* The reply, and the destructor of socket; bytes that were not read turn  *)
(* the FIN into a RST.                                                     *)
WriteAndClose ==
  /\ step = "write"
  /\ answer' = [answer EXCEPT ![serving] =
                  [reply |-> TRUE, closed |-> IF unread[serving] = 0 THEN "fin" ELSE "rst"]]
  /\ serving' = Nobody /\ step' = "accept"
  /\ UNCHANGED <<state, unsent, unread, queue>>

Server == Accept \/ ReadSome \/ ReadEnds \/ WriteAndClose

Next ==
  \/ \E c \in Client, n \in 1 .. Pieces : Connect(c, n)
  \/ \E c \in Client, n \in 1 .. Pieces : Write(c, n)
  \/ \E c \in Client : ReadReply(c)
  \/ \E c \in Client : Leave(c)
  \/ Server

(* The thread runs, and a client that connected writes and reads unless it *)
(* is silent.  Nobody has to connect or to leave.                          *)
Fairness ==
  /\ WF_vars(Server)
  /\ \A c \in Client :
       /\ WF_vars(\E n \in 1 .. Pieces : Write(c, n))
       /\ WF_vars(ReadReply(c))

Spec == Init /\ [][Next]_vars
FairSpec == Spec /\ Fairness

-----------------------------------------------------------------------------

(* A client that has connected is answered, also if it has left by then,   *)
(* or the server is stuck in read_some of a silent client (main.cpp:49).   *)
AnsweredUnlessSilenced ==
  \A c \in Client :
    state[c] # "away" ~> \/ answer[c].reply
                         \/ step = "read" /\ state[serving] = "silent"

=============================================================================
