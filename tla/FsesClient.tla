----------------------------- MODULE FsesClient -----------------------------
(***************************************************************************)
(* rust_version/python_client/fses.py: coroutines that share a pool of     *)
(* connections, each with a busy flag, under one asyncio event loop.       *)
(*                                                                         *)
(* Of asyncio's streams the model has what write and read do to a          *)
(* connection: eof (the reader was fed the end of file), lost (the         *)
(* transport has failed or is closed and drops what is written) and        *)
(* failed (connection_lost gave its exception to the reader).              *)
(***************************************************************************)
EXTENDS FsesNet

CONSTANTS
  Callers,     \* the coroutines: one call each
  Calls,       \* what they may call: [op, key, val]
  NoConn, NoCall

VARIABLES
  pool,        \* the connections in the order they were opened
  busy,        \* those with conn[2] = True
  eof, lost, failed,
  pc,          \* "start", "looking", "reading", "returned" or "raised"
  call,        \* the caller's call
  on,          \* the connection the caller took
  result,      \* what it read
  closed       \* close() was called

poolVars == <<pool, busy>>
streamVars == <<eof, lost, failed>>
callVars == <<call, on, result>>
clientVars == <<poolVars, streamVars, pc, callVars, closed>>

ClientInit ==
  /\ pool = <<>>
  /\ busy = {}
  /\ eof = {} /\ lost = {} /\ failed = {}
  /\ pc = [p \in Callers |-> "start"]
  /\ call = [p \in Callers |-> NoCall]
  /\ on = [p \in Callers |-> NoConn]
  /\ result = [p \in Callers |-> <<>>]
  /\ closed = FALSE

(* async_init: the connections one after the other. *)
Open(c) ==
  /\ link[c] = "none" /\ ~closed
  /\ link' = [link EXCEPT ![c] = "backlog"]
  /\ pool' = Append(pool, c)
  /\ UNCHANGED <<sent, arrived, reply, down, up, busy, streamVars, pc, callVars, closed>>

Start(p, r) ==
  /\ pc[p] = "start"
  /\ pc' = [pc EXCEPT ![p] = "looking"]
  /\ call' = [call EXCEPT ![p] = r]
  /\ UNCHANGED <<netVars, poolVars, streamVars, on, result, closed>>

(* Variant: any connection of the pool, busy or not. *)
AnyFree(c) == \E i \in DOMAIN pool : pool[i] = c

FirstFree(c) ==
  \E i \in DOMAIN pool :
    /\ pool[i] = c /\ c \notin busy
    /\ \A j \in 1 .. i - 1 : pool[j] \in busy

(* conn[1].write: lost bytes, an error of the transport, or bytes sent. *)
Write(p, c) ==
  \/ /\ c \in lost
     /\ UNCHANGED <<sent, lost>>
  \/ /\ c \notin lost /\ "rst" \in down[c]
     /\ lost' = lost \cup {c}
     /\ UNCHANGED sent
  \/ /\ c \notin lost /\ "rst" \notin down[c]
     /\ sent' = [sent EXCEPT ![c] = @ \o Request(call[p])]
     /\ UNCHANGED lost

(* Variant: the flag is not set. *)
Unmarked(c) == busy

(* The flags once c is taken, and given back if read does not wait. *)
Marked(c) == IF c \in eof \ failed THEN busy ELSE busy \cup {c}

(* One turn of the loop of add and get up to the await: the first          *)
(* connection that is not busy.  read does not wait if the reader has an   *)
(* exception or an end of file.  An exception leaves the flag set.         *)
Take(p, c) ==
  /\ pc[p] = "looking"
  /\ FirstFree(c)
  /\ Write(p, c)
  /\ on' = [on EXCEPT ![p] = c]
  /\ pc' = [pc EXCEPT ![p] = IF c \in failed THEN "raised"
                             ELSE IF c \in eof THEN "returned" ELSE "reading"]
  /\ busy' = Marked(c)
  /\ UNCHANGED <<link, arrived, reply, down, up, pool, eof, failed, call, result, closed>>

(* Variant: the flag is not given back. *)
ReturnBusy(p) ==
  /\ pc[p] = "reading"
  /\ pc' = [pc EXCEPT ![p] = "returned"]
  /\ UNCHANGED busy

Return(p) ==
  /\ pc[p] = "reading"
  /\ pc' = [pc EXCEPT ![p] = "returned"]
  /\ busy' = busy \ {on[p]}

(* read returns the bytes that are there ... *)
ReadReply(p) ==
  /\ Return(p)
  /\ reply[on[p]] # <<>>
  /\ result' = [result EXCEPT ![p] = reply[on[p]]]
  /\ reply' = [reply EXCEPT ![on[p]] = <<>>]
  /\ UNCHANGED <<link, sent, arrived, down, up, pool, streamVars, call, on, closed>>

(* ... or none at the end of file ... *)
ReadEof(p) ==
  /\ Return(p)
  /\ reply[on[p]] = <<>> \/ on[p] \in up
  /\ on[p] \in eof \ failed
  /\ UNCHANGED <<netVars, pool, streamVars, callVars, closed>>

(* ... or raises; the caller is gone and the flag stays. *)
ReadRaises(p) ==
  /\ pc[p] = "reading"
  /\ on[p] \in failed
  /\ pc' = [pc EXCEPT ![p] = "raised"]
  /\ UNCHANGED <<netVars, poolVars, streamVars, callVars, closed>>

(* The event loop hands the end of file, or the error of recv, to the      *)
(* reader once the bytes before it have been read.                         *)
NoticeEof(c) ==
  /\ "fin" \in down[c] /\ reply[c] = <<>>
  /\ c \notin eof \cup lost
  /\ eof' = eof \cup {c}
  /\ UNCHANGED <<netVars, poolVars, lost, failed, pc, callVars, closed>>

NoticeReset(c) ==
  /\ down[c] = {"rst"} /\ reply[c] = <<>>
  /\ c \notin eof \cup lost
  /\ lost' = lost \cup {c}
  /\ UNCHANGED <<netVars, poolVars, eof, failed, pc, callVars, closed>>

(* connection_lost, in the next turn of the event loop: with the error of  *)
(* the transport, or without one after close.                              *)
ConnectionLost(c) ==
  /\ c \in lost
  /\ IF c \in up
     THEN eof' = eof \cup {c} /\ UNCHANGED failed
     ELSE failed' = failed \cup {c} /\ UNCHANGED eof
  /\ UNCHANGED <<netVars, poolVars, lost, pc, callVars, closed>>

(* Variant: what is written after close is still sent. *)
CloseOnly ==
  /\ ~closed
  /\ closed' = TRUE
  /\ up' = up \cup {pool[i] : i \in DOMAIN pool}
  /\ UNCHANGED <<link, sent, arrived, reply, down, poolVars, streamVars, pc, callVars>>

(* close, from the caller or __del__ of any Client: the pool is shared. *)
Close ==
  /\ ~closed
  /\ closed' = TRUE
  /\ up' = up \cup ({pool[i] : i \in DOMAIN pool} \ lost)
  /\ lost' = lost \cup {pool[i] : i \in DOMAIN pool}
  /\ UNCHANGED <<link, sent, arrived, reply, down, poolVars, eof, failed, pc, callVars>>

Caller(p) ==
  \/ \E c \in Conns : Take(p, c)
  \/ ReadReply(p)
  \/ ReadEof(p)
  \/ ReadRaises(p)

Loop(c) == NoticeEof(c) \/ NoticeReset(c) \/ ConnectionLost(c)

ClientTypeOK ==
  /\ pool \in Seq(Conns) /\ busy \subseteq Conns
  /\ eof \subseteq Conns /\ lost \subseteq Conns
  /\ failed \subseteq lost /\ up \subseteq lost
  /\ pc \in [Callers -> {"start", "looking", "reading", "returned", "raised"}]
  /\ call \in [Callers -> Calls \cup {NoCall}]
  /\ on \in [Callers -> Conns \cup {NoConn}]
  /\ result \in [Callers -> Seq({"o", "e"})]
  /\ closed \in BOOLEAN

=============================================================================
