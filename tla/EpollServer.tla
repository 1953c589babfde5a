---------------------------- MODULE EpollServer ----------------------------
(***************************************************************************)
(* old_main.cpp and networking.hpp: one thread, an edge-triggered epoll    *)
(* instance, one receive array for all connections, a cache.               *)
(*                                                                         *)
(* A connection is a client's call (client.py opens one per call).  The    *)
(* kernel's side of a connection is what read, write, accept, close and    *)
(* epoll_wait return for it: the bytes received, the FIN or RST that has   *)
(* arrived, and whether the descriptor is on the epoll ready list.  Every  *)
(* descriptor is registered EPOLLIN | EPOLLOUT | EPOLLET: it is put on the *)
(* ready list when it is added, when bytes, a FIN or a RST arrive, and     *)
(* epoll_wait takes it off.  Replies are small: the socket's send buffer   *)
(* never fills, and 8192 events hold every descriptor.                     *)
(***************************************************************************)
EXTENDS WireFormat, MapOps

CONSTANTS
  Conns,       \* connections that clients may open
  NoConn,      \* a descriptor that is not open
  MaxFd,       \* descriptors the process may have besides its own
  MaxWatches,  \* how many of them epoll may watch
  Calls,       \* the calls a client may make: [op, key, val]
  Cuts,        \* how long a first segment of a request may be
  Garbage,     \* what arr_buff may hold before the first read
  MaxTries     \* attempts of write_data (5 in the code)

Fds == 1..MaxFd
Listener == 0

Bytes(call) ==
  CASE call.op = "add" -> ComposeAdd("i", call.key, call.val)
    [] call.op = "set" -> ComposeAdd("s", call.key, call.val)
    [] call.op = "get" -> ComposeGet(call.key)
    [] call.op = "rm" -> ComposeRm(call.key)

ASSUME EpollAssumption ==
  /\ NoConn \notin Conns
  /\ MaxFd \in Nat /\ MaxWatches \in Nat
  /\ MaxTries \in Nat \ {0}
  /\ Cuts \subseteq Nat \ {0}
  /\ Garbage \subseteq Buffer
  /\ {"a", "n", "w"} \subseteq Byte      \* besides "d", the answers
  /\ \A call \in Calls :
       /\ call.op \in {"add", "set", "get", "rm"}
       /\ call.key \in Seq(Byte) /\ call.val \in Seq(Byte)
       /\ Bytes(call) \in Seq(Byte)

VARIABLES
  call,        \* map from the connections opened so far to their calls
  todo,        \* the part of each request that has not arrived yet
  rcv,         \* the bytes that arrived and were not read
  out,         \* the replies written to each connection
  seen,        \* how many of them its client has read
  peer,        \* what the kernel knows of the client's end
  listening,   \* server_socket is open
  backlog,     \* connections not accepted yet
  conn,        \* the connection behind each descriptor
  ready,       \* the epoll ready list
  watched,     \* the descriptors registered with epoll
  batch,       \* the events of the last epoll_wait not handled yet
  write,       \* the write_data call under way
  errno, buf, cache, sendBuffer,
  alive        \* the process runs

clientVars == <<call, todo, seen>>
netVars == <<rcv, out, peer>>
fdVars == <<listening, backlog, conn, ready, watched>>
dataVars == <<buf, cache, sendBuffer>>
vars == <<clientVars, netVars, fdVars, dataVars, batch, write, errno, alive>>

(* What has arrived of the client's end: nothing ("open"), a FIN ("shut"), *)
(* a FIN and later a RST ("broken"), a RST alone ("reset"); and what is    *)
(* under way: the RST that answers a write to a closed client ("bounced"), *)
(* the RST of a client that closed with unread replies ("aborted").  After *)
(* a RST without a FIN one read or write reports it and the connection is  *)
(* as if "broken".                                                         *)
PeerStates == {"none", "open", "shut", "bounced", "broken", "aborted", "reset"}

NoWrite == [fd |-> Listener, conn |-> NoConn, body |-> <<>>, i |-> 0]
WriteTo(fd, c, body) == [fd |-> fd, conn |-> c, body |-> body, i |-> 0]

Event(fd) ==
  [fd |-> fd,
   conn |-> IF fd = Listener THEN NoConn ELSE conn[fd],
   hup |-> fd # Listener /\ peer[conn[fd]] \in {"reset", "broken"}]

Init ==
  /\ call = EmptyMap
  /\ todo = [c \in Conns |-> <<>>]
  /\ rcv = [c \in Conns |-> <<>>]
  /\ out = [c \in Conns |-> <<>>]
  /\ seen = [c \in Conns |-> 0]
  /\ peer = [c \in Conns |-> "none"]
  /\ listening = TRUE
  /\ backlog = <<>>
  /\ conn = [fd \in Fds |-> NoConn]
  /\ ready = {}
  /\ watched = {}
  /\ batch = {}
  /\ write = NoWrite
  /\ errno = "other"
  /\ buf \in Garbage
  /\ cache = EmptyMap
  /\ sendBuffer = <<>>
  /\ alive = TRUE

Held(c) == \E fd \in Fds : conn[fd] = c
Queued(c) == \E i \in DOMAIN backlog : backlog[i] = c
ServerClosed(c) == c \in DOMAIN call /\ ~(alive /\ (Held(c) \/ Queued(c)))

Notify(c) == ready \cup {fd \in watched : conn[fd] = c}

-----------------------------------------------------------------------------
(* The clients and the network.                                            *)

(* asyncio.open_connection: the kernel completes the handshake.            *)
Connect(c, r) ==
  /\ alive /\ listening
  /\ c \notin DOMAIN call
  /\ call' = Put(call, c, r)
  /\ todo' = [todo EXCEPT ![c] = Bytes(r)]
  /\ peer' = [peer EXCEPT ![c] = "open"]
  /\ backlog' = Append(backlog, c)
  /\ ready' = ready \cup {Listener}
  /\ UNCHANGED <<rcv, out, seen, listening, conn, watched, dataVars, batch,
                 write, errno, alive>>

(* writer.write: the rest of the request arrives, or a first segment of it. *)
Send(c, n) ==
  /\ peer[c] = "open"
  /\ n \in 1..Len(todo[c])
  /\ n = Len(todo[c]) \/ (n \in Cuts /\ todo[c] = Bytes(call[c]))
  /\ todo' = [todo EXCEPT ![c] = SubSeq(@, n + 1, Len(@))]
  /\ IF ServerClosed(c)
     THEN UNCHANGED <<rcv, ready>>
     ELSE /\ rcv' = [rcv EXCEPT ![c] = @ \o SubSeq(todo[c], 1, n)]
          /\ ready' = Notify(c)
  /\ UNCHANGED <<call, out, seen, peer, listening, backlog, conn, watched,
                 dataVars, batch, write, errno, alive>>

(* reader.read(800) of get and rm: the replies that are there.             *)
Receive(c) ==
  /\ peer[c] = "open" /\ call[c].op \in {"get", "rm"}
  /\ seen[c] = 0 /\ out[c] # <<>>
  /\ seen' = [seen EXCEPT ![c] = Len(out[c])]
  /\ UNCHANGED <<call, todo, netVars, fdVars, dataVars, batch, write, errno, alive>>

(* writer.close: an add closes when it has written, get and rm when their  *)
(* read has returned, which it also does when the server has closed.       *)
(* Replies the client's stream has not taken turn the FIN into a RST.      *)
CloseClient(c) ==
  /\ peer[c] = "open" /\ todo[c] = <<>>
  /\ \/ call[c].op \in {"add", "set"}
     \/ seen[c] > 0
     \/ ServerClosed(c) /\ out[c] = <<>>
  /\ \/ peer' = [peer EXCEPT ![c] = "shut"] /\ ready' = Notify(c)
     \/ /\ Len(out[c]) > seen[c]
        /\ peer' = [peer EXCEPT ![c] = "aborted"]
        /\ UNCHANGED ready
  /\ UNCHANGED <<clientVars, rcv, out, listening, backlog, conn, watched,
                 dataVars, batch, write, errno, alive>>

RstArrives(c) ==
  /\ peer[c] \in {"bounced", "aborted"}
  /\ peer' = [peer EXCEPT ![c] = IF @ = "bounced" THEN "broken" ELSE "reset"]
  /\ ready' = Notify(c)
  /\ UNCHANGED <<clientVars, rcv, out, listening, backlog, conn, watched,
                 dataVars, batch, write, errno, alive>>

-----------------------------------------------------------------------------
(* The event loop.                                                         *)

(* close(fd): the connection's unread bytes are gone, epoll forgets the    *)
(* descriptor, and a descriptor that is not open is EBADF.                 *)
Close(fd) ==
  /\ conn' = [conn EXCEPT ![fd] = NoConn]
  /\ watched' = watched \ {fd}
  /\ ready' = ready \ {fd}
  /\ rcv' = [c \in Conns |-> IF c = conn[fd] THEN <<>> ELSE rcv[c]]

CloseErrno(fd, e) == IF conn[fd] = NoConn THEN "EBADF" ELSE e

(* close(server_socket): the connections nobody accepted are reset.        *)
CloseListener ==
  /\ listening' = FALSE
  /\ backlog' = <<>>
  /\ ready' = ready \ {Listener}

(* epoll_wait: a ready descriptor is polled again, so the listener is only *)
(* reported while somebody waits to be accepted; EPOLLOUT always holds.    *)
EpollWait ==
  /\ alive /\ batch = {} /\ write = NoWrite
  /\ ready # {}
  /\ batch' = {Event(fd) : fd \in
                 {f \in ready : f = Listener => backlog # <<>>}}
  /\ ready' = {}
  /\ UNCHANGED <<clientVars, netVars, listening, backlog, conn, watched,
                 dataVars, write, errno, alive>>

(* Variants: the loop does not move on to the next event, or not from a    *)
(* connection's event.                                                     *)
NotTaken(ev) == alive /\ write = NoWrite /\ ev \in batch /\ batch' = batch

TakenAgain(ev) ==
  /\ alive /\ write = NoWrite /\ ev \in batch
  /\ batch' = IF ev.fd = Listener THEN batch \ {ev} ELSE batch

Taken(ev) == alive /\ write = NoWrite /\ ev \in batch /\ batch' = batch \ {ev}

(* Variant: the warning without the close. *)
HangUpIgnored(ev) ==
  /\ Taken(ev)
  /\ ev.hup
  /\ UNCHANGED <<clientVars, netVars, fdVars, dataVars, write, errno, alive>>

(* EPOLLHUP: close(active_fd). *)
HandleHup(ev) ==
  /\ Taken(ev)
  /\ ev.hup
  /\ Close(ev.fd)
  /\ errno' = CloseErrno(ev.fd, errno)
  /\ UNCHANGED <<clientVars, out, peer, listening, backlog, dataVars, write, alive>>

Free == {fd \in Fds : conn[fd] = NoConn}

(* accept_conn: one connection per event, on the lowest free descriptor.   *)
(* EPOLL_CTL_ADD polls the new descriptor, which is writable.              *)
AcceptOn(fd) ==
  /\ fd \in Free /\ \A f \in Free : fd <= f
  /\ conn' = [conn EXCEPT ![fd] = Head(backlog)]

HandleAccept(ev) ==
  /\ Taken(ev)
  /\ ev.fd = Listener /\ backlog # <<>>
  /\ Cardinality(watched) < MaxWatches
  /\ \E fd \in Fds :
       /\ AcceptOn(fd)
       /\ watched' = watched \cup {fd}
       /\ ready' = ready \cup {fd}
  /\ backlog' = Tail(backlog)
  /\ UNCHANGED <<clientVars, netVars, listening, dataVars, write, errno, alive>>

(* accept fails: EMFILE, or EAGAIN if nobody waits.  The loop closes       *)
(* active_fd, and that is the listener.                                    *)
AcceptFails(ev) ==
  /\ Taken(ev)
  /\ ev.fd = Listener
  /\ Free = {} \/ backlog = <<>>
  /\ errno' = IF Free = {} THEN "other" ELSE "EAGAIN"
  /\ CloseListener
  /\ rcv' = [c \in Conns |-> IF Queued(c) THEN <<>> ELSE rcv[c]]
  /\ UNCHANGED <<clientVars, out, peer, conn, watched, dataVars, write, alive>>

(* EPOLL_CTL_ADD fails after accept: the new descriptor stays open and     *)
(* unwatched, and again it is the listener that is closed.                 *)
AcceptUnwatched(ev) ==
  /\ Taken(ev)
  /\ ev.fd = Listener /\ backlog # <<>>
  /\ Cardinality(watched) >= MaxWatches
  /\ \E fd \in Fds : AcceptOn(fd)
  /\ errno' = "other"
  /\ CloseListener
  /\ rcv' = [c \in Conns |->
               IF Queued(c) /\ c # Head(backlog) THEN <<>> ELSE rcv[c]]
  /\ UNCHANGED <<clientVars, out, peer, watched, dataVars, write, alive>>

(* Variant: a read for the header only. *)
ReadHeader(fd, c) ==
  /\ rcv[c] # <<>>
  /\ buf' = Overlay(buf, SubSeq(rcv[c], 1, Min({SepWindow, Len(rcv[c])})))
  /\ rcv' = [rcv EXCEPT ![c] = SubSeq(@, SepWindow + 1, Len(@))]
  /\ UNCHANGED <<peer, conn, watched, ready, errno>>

(* read_data.  It returns an Error that the loop does not look at.         *)
ReadBytes(fd, c) ==
  /\ rcv[c] # <<>>
  /\ buf' = Overlay(buf, rcv[c])
  /\ rcv' = [rcv EXCEPT ![c] = SubSeq(@, BufLen + 1, Len(@))]
  /\ UNCHANGED <<peer, conn, watched, ready, errno>>

ReadNothing(c) ==
  /\ rcv[c] = <<>> /\ peer[c] \in {"open", "aborted"}
  /\ errno' = "EAGAIN"
  /\ UNCHANGED <<buf, rcv, peer, conn, watched, ready>>

ReadReset(c) ==
  /\ rcv[c] = <<>> /\ peer[c] = "reset"
  /\ errno' = "other"
  /\ peer' = [peer EXCEPT ![c] = "broken"]
  /\ UNCHANGED <<buf, rcv, conn, watched, ready>>

ReadEof(fd, c) ==
  /\ rcv[c] = <<>> /\ peer[c] \in {"shut", "bounced", "broken"}
  /\ Close(fd)
  /\ UNCHANGED <<buf, peer, errno>>

(* What the loop then does with the array, and the reply it writes.        *)
NoReply == <<>>

Execute(r) ==
  CASE r.mode \in {"i", "s"} -> Put(cache, r.key, r.val)
    [] r.mode = "d" /\ r.key \in DOMAIN cache -> Remove(cache, r.key)
    [] OTHER -> cache

Reply(r) ==
  CASE r.mode \in {"i", "s"} -> <<"a">>
    [] r.mode = "g" /\ r.key \in DOMAIN cache ->
         IF cache[r.key] = <<>> THEN <<"n">> ELSE cache[r.key]
    [] r.mode = "d" /\ r.key \in DOMAIN cache -> <<"d">>
    [] r.mode \in {"g", "d"} /\ r.key \notin DOMAIN cache -> <<"n">>
    [] r.mode = "a" -> NoReply
    [] OTHER -> <<"w">>

Stops == {"throw", "overrun"}

(* Variant: what is queued for other instances is not stored. *)
ProcessQueued(fd, c, r) ==
  /\ alive' = (r.mode \notin Stops)
  /\ cache' = IF r.mode = "s" THEN cache ELSE Execute(r)
  /\ sendBuffer' = IF r.mode = "s" THEN Append(sendBuffer, <<r.key, r.val>>)
                   ELSE sendBuffer
  /\ write' = IF Reply(r) = NoReply \/ r.mode \in Stops THEN NoWrite
              ELSE WriteTo(fd, c, Reply(r))

Process(fd, c, r) ==
  /\ alive' = (r.mode \notin Stops)
  /\ cache' = Execute(r)
  /\ sendBuffer' = IF r.mode = "s" THEN Append(sendBuffer, <<r.key, r.val>>)
                   ELSE sendBuffer
  /\ write' = IF Reply(r) = NoReply \/ r.mode \in Stops THEN NoWrite
              ELSE WriteTo(fd, c, Reply(r))

HandleRead(ev) ==
  /\ Taken(ev)
  /\ ~ev.hup /\ ev.fd # Listener
  /\ LET c == conn[ev.fd] IN
       \/ ReadBytes(ev.fd, c)
       \/ ReadNothing(c)
       \/ ReadReset(c)
       \/ ReadEof(ev.fd, c)
  /\ Process(ev.fd, ev.conn, Decode(buf'))
  /\ UNCHANGED <<clientVars, out, listening, backlog>>

(* One turn of the loop in write_data.  write() returns what it wrote, so  *)
(* "err != 0" holds and the branches look at an errno that a call that     *)
(* succeeded did not set.                                                  *)
Attempt(fd) ==
  LET c == conn[fd] IN
    CASE c = NoConn -> "EBADF"
      [] c # NoConn /\ peer[c] \in {"reset", "broken"} -> "other"
      [] OTHER -> errno

(* Variant: one attempt too many. *)
LastTryLate == write.i = MaxTries

LastTry == write.i + 1 = MaxTries

WriteAttempt ==
  LET fd == write.fd
      c == conn[fd]
      again == Attempt(fd) \in {"EBADF", "EAGAIN"}
  IN
  /\ alive /\ write # NoWrite
  /\ alive' = ~(c # NoConn /\ peer[c] = "broken")     \* SIGPIPE
  /\ out' = IF c = NoConn \/ peer[c] \in {"reset", "broken"} THEN out
            ELSE [out EXCEPT ![c] = Append(@, write.body)]
  /\ peer' = CASE c # NoConn /\ peer[c] = "shut" -> [peer EXCEPT ![c] = "bounced"]
               [] c # NoConn /\ peer[c] = "reset" -> [peer EXCEPT ![c] = "broken"]
               [] OTHER -> peer
  /\ IF Attempt(fd) = "EBADF" \/ (again /\ LastTry)
     THEN Close(fd) /\ errno' = CloseErrno(fd, Attempt(fd))
     ELSE errno' = Attempt(fd) /\ UNCHANGED <<conn, watched, ready, rcv>>
  /\ write' = IF again /\ ~LastTry THEN [write EXCEPT !.i = @ + 1] ELSE NoWrite
  /\ UNCHANGED <<clientVars, listening, backlog, dataVars, batch>>

-----------------------------------------------------------------------------

Client(c) ==
  \/ \E r \in Calls : Connect(c, r)
  \/ \E n \in 1..Len(todo[c]) : Send(c, n)
  \/ Receive(c)
  \/ CloseClient(c)

Server ==
  \/ EpollWait
  \/ \E ev \in batch : HandleHup(ev)
  \/ \E ev \in batch : HandleAccept(ev)
  \/ \E ev \in batch : AcceptFails(ev)
  \/ \E ev \in batch : AcceptUnwatched(ev)
  \/ \E ev \in batch : HandleRead(ev)
  \/ WriteAttempt

Next ==
  \/ \E c \in Conns : Client(c) \/ RstArrives(c)
  \/ Server

Spec == Init /\ [][Next]_vars

(* The process runs, clients do what their call does next, and packets     *)
(* arrive.  Clients need not come.                                         *)
FairSpec ==
  /\ Spec
  /\ WF_vars(Server)
  /\ \A c \in Conns :
       /\ WF_vars(RstArrives(c))
       /\ WF_vars(\E n \in 1..Len(todo[c]) : Send(c, n))
       /\ WF_vars(Receive(c))
       /\ WF_vars(CloseClient(c))

-----------------------------------------------------------------------------
(* Correctness.                                                            *)

(* Every variable has its type.  The first part is what the kernel and the *)
(* loop keep for connections and descriptors, the second part the bytes    *)
(* taken apart and stored.                                                 *)
ControlTypeOK ==
  /\ DOMAIN call \subseteq Conns /\ \A c \in DOMAIN call : call[c] \in Calls
  /\ todo \in [Conns -> Seq(Byte)]
  /\ rcv \in [Conns -> Seq(Byte)]
  /\ peer \in [Conns -> PeerStates]
  /\ listening \in BOOLEAN
  /\ backlog \in Seq(Conns)
  /\ conn \in [Fds -> Conns \cup {NoConn}]
  /\ ready \subseteq Fds \cup {Listener}
  /\ watched \subseteq Fds
  /\ batch \subseteq [fd : Fds \cup {Listener}, conn : Conns \cup {NoConn}, hup : BOOLEAN]
  /\ write.fd \in Fds \/ write = NoWrite
  /\ errno \in {"other", "EAGAIN", "EBADF"}
  /\ alive \in BOOLEAN

DataTypeOK ==
  /\ out \in [Conns -> Seq(Seq(Byte))]
  /\ seen \in [Conns -> Nat]
  /\ write.body \in Seq(Byte) /\ write.i \in 0..(MaxTries - 1)
  /\ buf \in Buffer
  /\ DOMAIN cache \subseteq Seq(Byte) /\ \A k \in DOMAIN cache : cache[k] \in Seq(Byte)
  /\ sendBuffer \in Seq(Seq(Byte) \X Seq(Byte))

TypeOK == ControlTypeOK /\ DataTypeOK

(* Descriptors are reused, and the loop works through up to 8192 events    *)
(* that name only a descriptor.  No event, and no reply half written, is   *)
(* ever for a descriptor that has gone to another connection since: an     *)
(* event that is left in the batch is for an open descriptor that still    *)
(* belongs to the connection it was raised for, and write_data either      *)
(* still writes to that connection or, once it is closed, to nobody.       *)
NoStaleEvent ==
  /\ \A ev \in batch : ev.fd # Listener => conn[ev.fd] = ev.conn /\ ev.conn # NoConn
  /\ write # NoWrite => conn[write.fd] \in {write.conn, NoConn}

(* What the kernel guarantees, a part of the inductive invariant behind    *)
(* NoStaleEvent: the events of a batch are for different descriptors, and  *)
(* a connection is on one descriptor or once in the backlog.               *)
OneOwner ==
  /\ \A e, f \in batch : e.fd = f.fd => e = f
  /\ \A d, e \in Fds : conn[d] = conn[e] /\ d # e => conn[d] = NoConn
  /\ \A i \in DOMAIN backlog : ~Held(backlog[i])
  /\ \A i, j \in DOMAIN backlog : backlog[i] = backlog[j] => i = j

(* What NoStaleEvent further rests on.  Only open descriptors are      *)
(* watched, only watched ones are ready or have an event; the reply under  *)
(* way is for a descriptor that no other event of the batch names; an      *)
(* event of the listener is not a hang-up and still finds somebody to      *)
(* accept; and a connection is held or queued only once it was opened.     *)
Bookkeeping ==
  /\ \A fd \in Fds : conn[fd] # NoConn => conn[fd] \in DOMAIN call
  /\ \A i \in DOMAIN backlog : backlog[i] \in DOMAIN call
  /\ \A fd \in watched : conn[fd] # NoConn
  /\ \A fd \in ready : fd = Listener \/ fd \in watched
  /\ \A ev \in batch :
       /\ ev.fd # Listener => ev.fd \in watched
       /\ ev.fd = Listener => ~ev.hup /\ backlog # <<>>
       /\ write # NoWrite => ev.fd # write.fd

(* The state of kernel and loop, and how its parts fit. *)
WellFormed == TypeOK /\ Bookkeeping

(* Registration is edge-triggered and every event is answered with one     *)
(* read of at most BufLen bytes.  Bytes that arrived on a watched          *)
(* descriptor are nevertheless never forgotten: as long as some are        *)
(* unread, the descriptor is on the ready list or in the batch.            *)
DataNotified ==
  \A fd \in watched :
    alive /\ rcv[conn[fd]] # <<>> =>
      fd \in ready \/ \E ev \in batch : ev.fd = fd

(* An event whose read brings nothing (EAGAIN, end of file, reset) makes   *)
(* the loop execute the request that is still in the array once more.      *)
(* After a first read that is harmless for the cache: executing what the   *)
(* array holds changes nothing any more.                                   *)
RereadHarmless == buf \in Garbage \/ Execute(Decode(buf)) = cache

(* server_socket is closed by the loop when accept_conn fails, for good.   *)
(* Every event of the listener finds somebody to accept, however connects, *)
(* epoll_wait and accepts interleave: the socket is never lost to EAGAIN,  *)
(* only to the limits on descriptors or watches.                           *)
ListenerLostToLimits ==
  [][listening' \/ ~listening \/ Free = {} \/ Cardinality(watched) >= MaxWatches]_vars

(* Requests that arrive whole take effect at most once each, in one step,  *)
(* and nothing else changes the cache, in spite of the re-executions.  The *)
(* server loses the last byte of every key, so the cache is one of the     *)
(* keys without it.                                                        *)
Stored(r) == [op |-> r.op, key |-> SubSeq(r.key, 1, Len(r.key) - 1), val |-> r.val]
Service == INSTANCE CacheService WITH
  Requests <- {Stored(r) : r \in Calls},
  waiting <- {c \in DOMAIN call : todo[c] # <<>> \/ rcv[c] # <<>>},
  request <- [c \in DOMAIN call |-> Stored(call[c])]
TakesEffectOnce == Service!Spec

(* When that is so: requests are not cut and fit the array, their sizes    *)
(* have fewer digits than the window is wide, a key is never empty, and    *)
(* what the array holds before the first read is no insert and no size     *)
(* that runs past its end, which is undefined.                             *)
WholeRequests ==
  /\ Cuts = {}
  /\ \A r \in Calls :
       /\ Len(Bytes(r)) <= BufLen
       /\ r.key # <<>>
       /\ Len(Itb[Len(r.key)]) + 2 <= SepWindow
       /\ Len(Itb[Len(r.val)]) + 2 <= SepWindow
  /\ \A g \in Garbage : Decode(g).mode \notin {"i", "s", "overrun"}

(* std::stoi throws, the sizes it reads are not compared with the array,   *)
(* and SIGPIPE is not ignored: each ends the process.  While requests      *)
(* arrive whole, no request and no leftover of one does, however often the *)
(* loop executes it again.  The process ends by executing an array nobody  *)
(* has read into, or by a reply too many: one more to a connection that    *)
(* has had one, written again for the sake of a stale errno or for an      *)
(* event without a request, to a client that has gone meanwhile.           *)
EndsByExtraReply ==
  [][alive =>
       \/ alive'
       \/ buf' \in Garbage
       \/ write # NoWrite /\ out[write.conn] # <<>>]_vars

(* The loop never closes a connection because it saw its end of file       *)
(* together with the last request; it relies on the RST that answers its   *)
(* reply.  Whole requests are all answered, so once a client has closed,   *)
(* its descriptor is freed, unless the server dies.                        *)
Released ==
  \A c \in Conns : peer[c] # "open" /\ Held(c) ~> ~alive \/ ~Held(c)

(* client.py:30-32 names the answers of the server to a remove: 'd' or 'n'. *)
RmStatus ==
  \A c \in DOMAIN call :
    call[c].op = "rm" /\ seen[c] > 0 =>
      SubSeq(out[c], 1, seen[c]) \in {<<<<"d">>>>, <<<<"n">>>>}

(* client.py:69-71 reads back what it added: a get that has been sent is   *)
(* answered, or fails because the server went away.                        *)
GetAnswered ==
  \A c \in Conns :
    c \in DOMAIN call /\ call[c].op = "get" /\ todo[c] = <<>>
      ~> seen[c] > 0 \/ ServerClosed(c)

=============================================================================
