------------------------- MODULE EpollServerProofs -------------------------
(***************************************************************************)
(* What TLAPS proves of EpollServer for any number of connections,         *)
(* descriptors and watches, any calls and any way requests are cut.        *)
(***************************************************************************)
EXTENDS EpollServer, WireFormatProofs

USE DEF Listener, Fds

-----------------------------------------------------------------------------
(* Types.                                                                  *)

LEMMA TypeInit == Init => ControlTypeOK
  BY EpollAssumption
  DEF Init, ControlTypeOK, EmptyMap, NoWrite, PeerStates

(* A step of a client or of the network keeps the types.                   *)
LEMMA TypeClient ==
  ASSUME ControlTypeOK, NEW c \in Conns, Client(c) \/ RstArrives(c)
  PROVE  ControlTypeOK'
<1>1. CASE \E r \in Calls : Connect(c, r)
  <2>1. PICK r \in Calls : Connect(c, r)
    BY <1>1
  <2>2. Bytes(r) \in Seq(Byte)
    BY EpollAssumption
  <2>3. backlog' \in Seq(Conns)
    BY <2>1 DEF Connect, ControlTypeOK
  <2>4. DOMAIN call' \subseteq Conns /\ \A d \in DOMAIN call' : call'[d] \in Calls
    BY <2>1 DEF Connect, ControlTypeOK, Put
  <2> QED
    BY <2>1, <2>2, <2>3, <2>4 DEF Connect, ControlTypeOK, PeerStates, dataVars
<1>2. CASE \E n \in 1..Len(todo[c]) : Send(c, n)
  <2>1. PICK n \in 1..Len(todo[c]) : Send(c, n)
    BY <1>2
  <2>2. todo[c] \in Seq(Byte) /\ rcv[c] \in Seq(Byte)
    BY DEF ControlTypeOK
  <2>3. SubSeq(todo[c], n + 1, Len(todo[c])) \in Seq(Byte)
        /\ SubSeq(todo[c], 1, n) \in Seq(Byte)
    BY <2>2, SubSeqProperties
  <2>4. rcv[c] \o SubSeq(todo[c], 1, n) \in Seq(Byte)
    BY <2>2, <2>3, ConcatProperties
  <2>5. todo' \in [Conns -> Seq(Byte)]
    BY <2>1, <2>3 DEF Send, ControlTypeOK
  <2>6. rcv' \in [Conns -> Seq(Byte)] /\ ready' \subseteq Fds \cup {Listener}
    BY <2>1, <2>4 DEF Send, ControlTypeOK, Notify
  <2> QED
    BY <2>1, <2>5, <2>6 DEF Send, ControlTypeOK
<1>3. CASE Receive(c)
  BY <1>3 DEF Receive, ControlTypeOK, netVars, fdVars, dataVars
<1>4. CASE CloseClient(c)
  BY <1>4 DEF CloseClient, ControlTypeOK, Notify, PeerStates, clientVars
<1>5. CASE RstArrives(c)
  BY <1>5 DEF RstArrives, ControlTypeOK, Notify, PeerStates, clientVars
<1> QED
  BY <1>1, <1>2, <1>3, <1>4, <1>5 DEF Client

(* A step of the event loop keeps the types.                               *)
LEMMA TypeServer ==
  ASSUME ControlTypeOK, Server
  PROVE  ControlTypeOK'
<1>0. /\ NoConn \notin Conns /\ \A c \in Conns : rcv[c] \in Seq(Byte)
      /\ <<>> \in Seq(Byte) /\ <<>> \in Seq(Conns)
  BY EpollAssumption DEF ControlTypeOK
<1>1. CASE EpollWait
  <2>1. \A fd \in ready : Event(fd) \in
          [fd : Fds \cup {Listener}, conn : Conns \cup {NoConn}, hup : BOOLEAN]
    BY DEF ControlTypeOK, Event
  <2> QED
    BY <1>1, <2>1 DEF EpollWait, ControlTypeOK, clientVars, netVars
<1>2. ASSUME NEW ev \in batch, HandleHup(ev)
      PROVE  ControlTypeOK'
  BY <1>0, <1>2
  DEF HandleHup, Taken, Close, CloseErrno, ControlTypeOK, clientVars
<1>3. ASSUME NEW ev \in batch, HandleAccept(ev)
      PROVE  ControlTypeOK'
  <2>1. Head(backlog) \in Conns /\ Tail(backlog) \in Seq(Conns)
    BY <1>3, HeadTailProperties DEF HandleAccept, ControlTypeOK
  <2> QED
    BY <1>3, <2>1
    DEF HandleAccept, AcceptOn, Taken, ControlTypeOK, clientVars, netVars
<1>4. ASSUME NEW ev \in batch, AcceptFails(ev)
      PROVE  ControlTypeOK'
  <2>1. rcv' \in [Conns -> Seq(Byte)]
    BY <1>0, <1>4 DEF AcceptFails
  <2>2. /\ backlog' \in Seq(Conns) /\ listening' \in BOOLEAN
        /\ ready' \subseteq Fds \cup {Listener}
    BY <1>0, <1>4 DEF AcceptFails, CloseListener, ControlTypeOK
  <2>3. errno' \in {"other", "EAGAIN", "EBADF"}
    BY <1>4 DEF AcceptFails
  <2>4. batch' \subseteq batch /\ UNCHANGED <<clientVars, peer, conn, watched, write, alive>>
    BY <1>4 DEF AcceptFails, Taken
  <2> QED
    BY <2>1, <2>2, <2>3, <2>4 DEF ControlTypeOK, clientVars
<1>5. ASSUME NEW ev \in batch, AcceptUnwatched(ev)
      PROVE  ControlTypeOK'
  <2>1. Head(backlog) \in Conns
    BY <1>5, HeadTailProperties DEF AcceptUnwatched, ControlTypeOK
  <2>2. rcv' \in [Conns -> Seq(Byte)]
    BY <1>0, <1>5 DEF AcceptUnwatched
  <2>3. /\ backlog' \in Seq(Conns) /\ listening' \in BOOLEAN
        /\ ready' \subseteq Fds \cup {Listener}
    BY <1>0, <1>5 DEF AcceptUnwatched, CloseListener, ControlTypeOK
  <2>4. conn' \in [Fds -> Conns \cup {NoConn}]
    BY <1>5, <2>1 DEF AcceptUnwatched, AcceptOn, ControlTypeOK
  <2>5. /\ batch' \subseteq batch /\ errno' = "other"
        /\ UNCHANGED <<clientVars, peer, watched, write, alive>>
    BY <1>5 DEF AcceptUnwatched, Taken
  <2> QED
    BY <2>2, <2>3, <2>4, <2>5 DEF ControlTypeOK, clientVars
<1>6. ASSUME NEW ev \in batch, HandleRead(ev)
      PROVE  ControlTypeOK'
  <2>0. ev.fd \in Fds
    BY <1>6 DEF HandleRead, ControlTypeOK
  <2>1. alive' \in BOOLEAN /\ (write'.fd \in Fds \/ write' = NoWrite)
    BY <1>6, <2>0 DEF HandleRead, Process, WriteTo
  <2>2. CASE ReadBytes(ev.fd, conn[ev.fd])
    <3>1. \A c \in Conns : SubSeq(rcv[c], BufLen + 1, Len(rcv[c])) \in Seq(Byte)
      BY <1>0, WireAssumption, SubSeqProperties
    <3> QED
      BY <1>6, <2>1, <2>2, <3>1
      DEF HandleRead, ReadBytes, Taken, ControlTypeOK, clientVars
  <2>3. CASE ReadNothing(conn[ev.fd]) \/ ReadReset(conn[ev.fd])
    BY <1>6, <2>1, <2>3
    DEF HandleRead, ReadNothing, ReadReset, Taken, ControlTypeOK, clientVars, PeerStates
  <2>4. CASE ReadEof(ev.fd, conn[ev.fd])
    BY <1>0, <1>6, <2>0, <2>1, <2>4
    DEF HandleRead, ReadEof, Close, Taken, ControlTypeOK, clientVars
  <2> QED
    BY <1>6, <2>2, <2>3, <2>4 DEF HandleRead
<1>7. CASE WriteAttempt
  <2>1. write.fd \in Fds
    BY <1>7 DEF WriteAttempt, ControlTypeOK
  <2>2. write'.fd \in Fds \/ write' = NoWrite
    BY <1>7, <2>1 DEF WriteAttempt
  <2>3. peer' \in [Conns -> PeerStates]
    BY <1>7, <2>1 DEF WriteAttempt, ControlTypeOK, PeerStates
  <2>4. /\ errno' \in {"other", "EAGAIN", "EBADF"}
        /\ conn' \in [Fds -> Conns \cup {NoConn}]
        /\ watched' \subseteq Fds
        /\ ready' \subseteq Fds \cup {Listener}
        /\ rcv' \in [Conns -> Seq(Byte)]
    <3>1. Attempt(write.fd) \in {"other", "EAGAIN", "EBADF"}
      BY DEF Attempt, ControlTypeOK
    <3>2. CASE Close(write.fd) /\ errno' = CloseErrno(write.fd, Attempt(write.fd))
      BY <1>0, <2>1, <3>1, <3>2 DEF Close, CloseErrno, ControlTypeOK
    <3>3. CASE errno' = Attempt(write.fd) /\ UNCHANGED <<conn, watched, ready, rcv>>
      BY <3>1, <3>3 DEF ControlTypeOK
    <3> QED
      BY <1>7, <3>2, <3>3 DEF WriteAttempt
  <2> QED
    BY <1>7, <2>2, <2>3, <2>4 DEF WriteAttempt, ControlTypeOK, clientVars
<1> QED
  BY <1>1, <1>2, <1>3, <1>4, <1>5, <1>6, <1>7 DEF Server

(* The kernel's and the loop's variables have their types in every state   *)
(* the server reaches.                                                     *)
THEOREM TypeCorrect == Spec => []ControlTypeOK
<1>1. ControlTypeOK /\ [Next]_vars => ControlTypeOK'
  <2>1. ControlTypeOK /\ UNCHANGED vars => ControlTypeOK'
    BY DEF vars, clientVars, netVars, fdVars, dataVars, ControlTypeOK
  <2> QED
    BY <2>1, TypeClient, TypeServer DEF Next
<1> QED
  BY TypeInit, <1>1, PTL DEF Spec

-----------------------------------------------------------------------------
(* Events and descriptors.                                                 *)

Owned == NoStaleEvent /\ OneOwner /\ Bookkeeping

LEMMA OwnedInit == Init => Owned
  BY EpollAssumption
  DEF Init, Owned, NoStaleEvent, OneOwner, Bookkeeping, EmptyMap, Held

(* Opening a connection puts it into the backlog and nowhere else.         *)
LEMMA OwnedConnect ==
  ASSUME ControlTypeOK, Owned, NEW c \in Conns, NEW r \in Calls, Connect(c, r)
  PROVE  Owned'
<1>1. /\ UNCHANGED <<conn, watched, batch, write>>
      /\ ready' = ready \cup {Listener}
      /\ c \notin DOMAIN call /\ DOMAIN call' = DOMAIN call \cup {c}
  BY DEF Connect, Put
<1>2. /\ DOMAIN backlog = 1..Len(backlog) /\ DOMAIN backlog' = 1..(Len(backlog) + 1)
      /\ backlog'[Len(backlog) + 1] = c
      /\ \A i \in DOMAIN backlog : backlog'[i] = backlog[i]
      /\ Len(backlog) \in Nat /\ backlog' # <<>>
  <2>1. backlog \in Seq(Conns) /\ backlog' = Append(backlog, c)
    BY DEF Connect, ControlTypeOK
  <2>2. DOMAIN backlog = 1..Len(backlog) /\ Len(backlog) \in Nat
    BY <2>1
  <2>3. DOMAIN backlog' = 1..(Len(backlog) + 1) /\ backlog' # <<>>
    BY <2>1, AppendProperties
  <2> QED
    BY <2>1, <2>2, <2>3, AppendProperties
<1>3. NoStaleEvent'
  BY <1>1 DEF Owned, NoStaleEvent, NoWrite
<1>4. OneOwner'
  <2>1. /\ \A e, f \in batch' : e.fd = f.fd => e = f
        /\ \A d, e \in Fds : conn'[d] = conn'[e] /\ d # e => conn'[d] = NoConn
    BY <1>1 DEF Owned, OneOwner
  <2>2. ASSUME NEW i \in DOMAIN backlog'
        PROVE  ~ \E fd \in Fds : conn'[fd] = backlog'[i]
    <3>1. ~ \E fd \in Fds : conn[fd] = c
      BY <1>1, EpollAssumption DEF Owned, Bookkeeping
    <3> QED
      BY <1>1, <1>2, <2>2, <3>1 DEF Owned, OneOwner, Held
  <2>3. \A i, j \in DOMAIN backlog' : backlog'[i] = backlog'[j] => i = j
    BY <1>1, <1>2 DEF Owned, OneOwner, Bookkeeping
  <2> QED
    BY <2>1, <2>2, <2>3 DEF OneOwner, Held
<1>5. Bookkeeping'
  BY <1>1, <1>2 DEF Owned, Bookkeeping, NoWrite
<1> QED
  BY <1>3, <1>4, <1>5 DEF Owned

(* Whatever else clients and the network do only makes descriptors ready.  *)
LEMMA OwnedQuiet ==
  ASSUME ControlTypeOK, Owned,
         UNCHANGED <<call, backlog, conn, watched, batch, write>>,
         ready' \subseteq ready \cup watched
  PROVE  Owned'
<1>1. NoStaleEvent'
  BY DEF Owned, NoStaleEvent, NoWrite
<1>2. OneOwner'
  BY DEF Owned, OneOwner, Held
<1>3. Bookkeeping'
  BY DEF Owned, Bookkeeping, NoWrite
<1> QED
  BY <1>1, <1>2, <1>3 DEF Owned

LEMMA OwnedClient ==
  ASSUME ControlTypeOK, Owned, NEW c \in Conns, Client(c) \/ RstArrives(c)
  PROVE  Owned'
<1>1. CASE \E r \in Calls : Connect(c, r)
  BY <1>1, OwnedConnect
<1>2. CASE \E n \in 1..Len(todo[c]) : Send(c, n)
  BY <1>2, OwnedQuiet DEF Send, Notify
<1>3. CASE Receive(c)
  BY <1>3, OwnedQuiet DEF Receive, fdVars
<1>4. CASE CloseClient(c)
  BY <1>4, OwnedQuiet DEF CloseClient, Notify, clientVars
<1>5. CASE RstArrives(c)
  BY <1>5, OwnedQuiet DEF RstArrives, Notify, clientVars
<1> QED
  BY <1>1, <1>2, <1>3, <1>4, <1>5 DEF Client

LEMMA OwnedWait ==
  ASSUME ControlTypeOK, Owned, EpollWait
  PROVE  Owned'
<1>1. /\ UNCHANGED <<call, backlog, conn, watched, write>> /\ write = NoWrite
      /\ ready' = {}
      /\ batch' = {Event(fd) : fd \in {f \in ready : f = Listener => backlog # <<>>}}
  BY DEF EpollWait, clientVars
<1>2. \A ev \in batch' :
        /\ ev.fd \in ready
        /\ ev.fd = Listener => backlog # <<>> /\ ~ev.hup
        /\ ev.fd # Listener => ev.conn = conn[ev.fd]
        /\ ev = Event(ev.fd)
  <2>1. SUFFICES ASSUME NEW f \in ready, f = Listener => backlog # <<>>
                 PROVE  /\ Event(f).fd = f
                        /\ f = Listener => ~Event(f).hup
                        /\ f # Listener => Event(f).conn = conn[f]
    BY <1>1
  <2> QED
    BY DEF Event
<1>3. NoStaleEvent'
  BY <1>1, <1>2 DEF Owned, NoStaleEvent, Bookkeeping, ControlTypeOK, NoWrite
<1>4. OneOwner'
  BY <1>1, <1>2 DEF Owned, OneOwner, Held
<1>5. Bookkeeping'
  BY <1>1, <1>2 DEF Owned, Bookkeeping, NoWrite
<1> QED
  BY <1>3, <1>4, <1>5 DEF Owned

(* Taking an event from the batch and closing its descriptor.              *)
LEMMA OwnedClose ==
  ASSUME ControlTypeOK, Owned, NEW fd \in Fds,
         UNCHANGED <<call, backlog>>, Close(fd),
         batch' \subseteq batch, \A ev \in batch' : ev.fd # fd,
         write' = NoWrite \/ (write'.fd = fd /\ write' # NoWrite)
  PROVE  Owned'
<1>0. NoConn \notin Conns
  BY EpollAssumption
<1>1. /\ conn' \in [Fds -> Conns \cup {NoConn}] /\ conn'[fd] = NoConn
      /\ \A d \in Fds : d # fd => conn'[d] = conn[d]
      /\ watched' = watched \ {fd} /\ ready' = ready \ {fd}
  BY DEF Close, ControlTypeOK
<1>2. NoStaleEvent'
  BY <1>1 DEF Owned, NoStaleEvent, Bookkeeping, ControlTypeOK, NoWrite
<1>3. OneOwner'
  BY <1>0, <1>1 DEF Owned, OneOwner, Held, ControlTypeOK
<1>4. Bookkeeping'
  BY <1>1 DEF Owned, Bookkeeping, ControlTypeOK, NoWrite
<1> QED
  BY <1>2, <1>3, <1>4 DEF Owned

(* Taking an event from the batch and leaving its descriptor open.         *)
LEMMA OwnedKeep ==
  ASSUME ControlTypeOK, Owned, NEW ev \in batch, ev.fd # Listener, Taken(ev),
         UNCHANGED <<call, backlog, conn, watched, ready>>,
         write' = NoWrite \/ (write'.fd = ev.fd /\ write'.conn = ev.conn)
  PROVE  Owned'
<1>1. batch' = batch \ {ev} /\ write = NoWrite /\ \A e \in batch' : e.fd # ev.fd
  BY DEF Taken, Owned, OneOwner
<1>2. NoStaleEvent'
  BY <1>1 DEF Owned, NoStaleEvent, NoWrite
<1>3. OneOwner'
  BY <1>1 DEF Owned, OneOwner, Held
<1>4. Bookkeeping'
  BY <1>1 DEF Owned, Bookkeeping, NoWrite
<1> QED
  BY <1>2, <1>3, <1>4 DEF Owned

(* Taking the listener's event and one connection out of the backlog, or   *)
(* all of them: the new descriptor was free and no event names it.         *)
LEMMA OwnedAccept ==
  ASSUME ControlTypeOK, Owned, NEW ev \in batch, ev.fd = Listener, Taken(ev),
         NEW fd \in Fds, AcceptOn(fd), backlog # <<>>,
         UNCHANGED <<call, write>>,
         backlog' = Tail(backlog) \/ backlog' = <<>>,
         watched' \subseteq watched \cup {fd}, watched \subseteq watched',
         ready' \subseteq ready \cup watched'
  PROVE  Owned'
<1>0. NoConn \notin Conns
  BY EpollAssumption
<1>1. batch' = batch \ {ev} /\ write = NoWrite /\ \A e \in batch' : e.fd # Listener
  BY DEF Taken, Owned, OneOwner
<1>2. /\ conn[fd] = NoConn /\ conn'[fd] = backlog[1] /\ backlog[1] \in Conns
      /\ \A d \in Fds : d # fd => conn'[d] = conn[d]
      /\ 1 \in DOMAIN backlog
  BY DEF AcceptOn, Free, ControlTypeOK
<1>3. /\ \A i \in DOMAIN backlog' : i + 1 \in DOMAIN backlog /\ backlog'[i] = backlog[i + 1]
      /\ DOMAIN backlog' \subseteq Nat \ {0}
  <2>1. CASE backlog' = <<>>
    BY <2>1
  <2>2. CASE backlog' = Tail(backlog)
    BY <2>2, HeadTailProperties DEF ControlTypeOK
  <2> QED
    BY <2>1, <2>2
<1>4. NoStaleEvent'
  BY <1>1, <1>2 DEF Owned, NoStaleEvent, Bookkeeping, ControlTypeOK, NoWrite
<1>5. OneOwner'
  <2>1. \A e, f \in batch' : e.fd = f.fd => e = f
    BY <1>1 DEF Owned, OneOwner
  <2>2. \A d \in Fds : conn[d] # backlog[1]
    BY <1>2 DEF Owned, OneOwner, Held
  <2>3. \A d, e \in Fds : conn'[d] = conn'[e] /\ d # e => conn'[d] = NoConn
    BY <1>2, <2>2 DEF Owned, OneOwner
  <2>4. \A i \in DOMAIN backlog' : \A d \in Fds : conn'[d] # backlog'[i]
    BY <1>2, <1>3 DEF Owned, OneOwner, Held
  <2>5. \A i, j \in DOMAIN backlog' : backlog'[i] = backlog'[j] => i = j
    BY <1>3 DEF Owned, OneOwner
  <2> QED
    BY <2>1, <2>3, <2>4, <2>5 DEF OneOwner, Held
<1>6. Bookkeeping'
  <2>1. \A d \in Fds : conn'[d] # NoConn => conn'[d] \in DOMAIN call'
    BY <1>2 DEF Owned, Bookkeeping
  <2>2. \A i \in DOMAIN backlog' : backlog'[i] \in DOMAIN call'
    BY <1>3 DEF Owned, Bookkeeping
  <2>3. \A d \in watched' : conn'[d] # NoConn
    BY <1>0, <1>2 DEF Owned, Bookkeeping, ControlTypeOK
  <2>4. \A d \in ready' : d = Listener \/ d \in watched'
    BY DEF Owned, Bookkeeping
  <2> QED
    BY <1>1, <2>1, <2>2, <2>3, <2>4 DEF Owned, Bookkeeping
<1> QED
  BY <1>4, <1>5, <1>6 DEF Owned

LEMMA OwnedServer ==
  ASSUME ControlTypeOK, Owned, Server
  PROVE  Owned'
<1>1. CASE EpollWait
  BY <1>1, OwnedWait
<1>2. ASSUME NEW ev \in batch, HandleHup(ev)
      PROVE  Owned'
  <2>1. ev.fd \in Fds
    BY <1>2 DEF HandleHup, Owned, Bookkeeping, ControlTypeOK
  <2>2. batch' = batch \ {ev} /\ \A e \in batch' : e.fd # ev.fd
    BY <1>2 DEF HandleHup, Taken, Owned, OneOwner
  <2> QED
    BY <1>2, <2>1, <2>2, OwnedClose DEF HandleHup, Taken, clientVars
<1>3. ASSUME NEW ev \in batch, HandleAccept(ev)
      PROVE  Owned'
  <2>1. PICK fd \in Fds : AcceptOn(fd) /\ watched' = watched \cup {fd}
                           /\ ready' = ready \cup {fd}
    BY <1>3 DEF HandleAccept
  <2> QED
    BY <1>3, <2>1, OwnedAccept DEF HandleAccept, clientVars
<1>4. ASSUME NEW ev \in batch, AcceptFails(ev)
      PROVE  Owned'
  <2>1. /\ batch' = batch \ {ev} /\ write = NoWrite
        /\ \A e \in batch' : e.fd # Listener
        /\ backlog' = <<>> /\ ready' \subseteq ready
        /\ UNCHANGED <<call, conn, watched, write>>
    BY <1>4 DEF AcceptFails, Taken, CloseListener, Owned, OneOwner, clientVars
  <2>2. NoStaleEvent'
    BY <2>1 DEF Owned, NoStaleEvent, NoWrite
  <2>3. OneOwner'
    BY <2>1 DEF Owned, OneOwner, Held
  <2>4. Bookkeeping'
    BY <2>1 DEF Owned, Bookkeeping, NoWrite
  <2> QED
    BY <2>2, <2>3, <2>4 DEF Owned
<1>5. ASSUME NEW ev \in batch, AcceptUnwatched(ev)
      PROVE  Owned'
  <2>1. PICK fd \in Fds : AcceptOn(fd)
    BY <1>5 DEF AcceptUnwatched
  <2>2. /\ ev.fd = Listener /\ Taken(ev) /\ backlog # <<>> /\ backlog' = <<>>
        /\ ready' \subseteq ready /\ UNCHANGED <<call, write, watched>>
    BY <1>5 DEF AcceptUnwatched, CloseListener, clientVars
  <2> QED
    BY <2>1, <2>2, OwnedAccept
<1>6. ASSUME NEW ev \in batch, HandleRead(ev)
      PROVE  Owned'
  <2>1. /\ ev.fd \in Fds /\ ev.fd # Listener /\ Taken(ev)
        /\ UNCHANGED <<call, backlog>>
    BY <1>6 DEF HandleRead, ControlTypeOK, clientVars
  <2>2. write' = NoWrite \/ (write'.fd = ev.fd /\ write'.conn = ev.conn)
    BY <1>6 DEF HandleRead, Process, WriteTo
  <2>3. batch' = batch \ {ev} /\ \A e \in batch' : e.fd # ev.fd
    BY <2>1 DEF Taken, Owned, OneOwner
  <2>4. CASE Close(ev.fd)
    BY <2>1, <2>2, <2>3, <2>4, OwnedClose DEF NoWrite
  <2>5. CASE UNCHANGED <<conn, watched, ready>>
    BY <2>1, <2>2, <2>5, OwnedKeep
  <2> QED
    BY <1>6, <2>4, <2>5 DEF HandleRead, ReadBytes, ReadNothing, ReadReset, ReadEof
<1>7. CASE WriteAttempt
  <2>1. /\ write # NoWrite /\ write.fd \in Fds
        /\ UNCHANGED <<call, backlog, batch>>
        /\ \A ev \in batch : ev.fd # write.fd
    BY <1>7 DEF WriteAttempt, ControlTypeOK, Owned, Bookkeeping, clientVars
  <2>2. \/ write' = NoWrite
        \/ write'.fd = write.fd /\ write'.conn = write.conn /\ write' # NoWrite
    BY <1>7, <2>1 DEF WriteAttempt, ControlTypeOK, NoWrite
  <2>3. CASE Close(write.fd)
    BY <2>1, <2>2, <2>3, OwnedClose
  <2>4. CASE UNCHANGED <<conn, watched, ready>>
    <3>1. NoStaleEvent'
      BY <2>1, <2>2, <2>4 DEF Owned, NoStaleEvent
    <3>2. OneOwner'
      BY <2>1, <2>4 DEF Owned, OneOwner, Held
    <3>3. Bookkeeping'
      BY <2>1, <2>2, <2>4 DEF Owned, Bookkeeping
    <3> QED
      BY <3>1, <3>2, <3>3 DEF Owned
  <2> QED
    BY <1>7, <2>3, <2>4 DEF WriteAttempt
<1> QED
  BY <1>1, <1>2, <1>3, <1>4, <1>5, <1>6, <1>7 DEF Server

LEMMA OwnedInvariant == Spec => [](ControlTypeOK /\ Owned)
<1>1. ControlTypeOK /\ Owned /\ [Next]_vars => Owned'
  <2>1. ControlTypeOK /\ Owned /\ UNCHANGED vars => Owned'
    BY OwnedQuiet DEF vars, clientVars, fdVars
  <2> QED
    BY <2>1, OwnedClient, OwnedServer DEF Next
<1> QED
  BY OwnedInit, <1>1, TypeCorrect, PTL DEF Spec

(* No event and no reply half written is for a descriptor that has gone to *)
(* another connection.                                                     *)
THEOREM EventsAreFresh == Spec => []NoStaleEvent
  BY OwnedInvariant, PTL DEF Owned

(* The loop loses its listening socket only to the limits on descriptors   *)
(* and watches, never because it accepts once too often.                   *)
THEOREM ListenerKept == Spec => ListenerLostToLimits
<1>1. ControlTypeOK /\ Owned /\ [Next]_vars =>
        [listening' \/ ~listening \/ Free = {} \/ Cardinality(watched) >= MaxWatches]_vars
  <2>1. ASSUME Owned, Next, listening, ~listening'
        PROVE  Free = {} \/ Cardinality(watched) >= MaxWatches
    <3>1. (\E ev \in batch : AcceptFails(ev)) \/ (\E ev \in batch : AcceptUnwatched(ev))
      BY <2>1
      DEF Next, Client, Server, Connect, Send, Receive, CloseClient, RstArrives,
          EpollWait, HandleHup, HandleAccept, HandleRead, WriteAttempt, fdVars
    <3>2. \A ev \in batch : AcceptFails(ev) => Free = {}
      BY <2>1 DEF AcceptFails, Owned, Bookkeeping
    <3>3. \A ev \in batch : AcceptUnwatched(ev) => Cardinality(watched) >= MaxWatches
      BY DEF AcceptUnwatched
    <3> QED
      BY <3>1, <3>2, <3>3
  <2> QED
    BY <2>1
<1> QED
  BY <1>1, OwnedInvariant, PTL DEF Spec, ListenerLostToLimits

-----------------------------------------------------------------------------
(* The data.                                                               *)

(* Whatever is read stays within the array. *)
LEMMA OverlayTyped ==
  ASSUME NEW b \in Buffer, NEW bytes \in Seq(Byte)
  PROVE  Overlay(b, bytes) \in Buffer
<1> DEFINE n == Len(bytes)
<1>1. n \in Nat /\ \A i \in 1 .. n : bytes[i] \in Byte
  OBVIOUS
<1> HIDE DEF n
<1>2. Overlay(b, bytes) = [i \in 1 .. BufLen |-> IF i <= n THEN bytes[i] ELSE b[i]]
  BY DEF Overlay, n
<1>3. \A i \in 1 .. BufLen : (IF i <= n THEN bytes[i] ELSE b[i]) \in Byte
  BY <1>1, WireAssumption DEF Buffer
<1> QED
  BY <1>2, <1>3 DEF Buffer

CacheTyped(m) == DOMAIN m \subseteq Seq(Byte) /\ \A k \in DOMAIN m : m[k] \in Seq(Byte)

LEMMA DataInit == Init => DataTypeOK
<1> SUFFICES ASSUME Init PROVE DataTypeOK
  OBVIOUS
<1>1. /\ out \in [Conns -> Seq(Seq(Byte))] /\ seen \in [Conns -> Nat]
      /\ buf \in Buffer /\ sendBuffer \in Seq(Seq(Byte) \X Seq(Byte))
  BY EpollAssumption DEF Init
<1>2. write.body \in Seq(Byte) /\ write.i \in 0 .. (MaxTries - 1)
  BY EpollAssumption DEF Init, NoWrite
<1>3. DOMAIN cache = {}
  BY DEF Init, EmptyMap
<1> QED
  BY <1>1, <1>2, <1>3 DEF DataTypeOK

(* What the loop does with a request keeps the types. *)
LEMMA DataProcess ==
  ASSUME DataTypeOK, NEW fd, NEW c, NEW r, IsRequest(r), Process(fd, c, r)
  PROVE  /\ CacheTyped(cache')
         /\ sendBuffer' \in Seq(Seq(Byte) \X Seq(Byte))
         /\ write'.body \in Seq(Byte) /\ write'.i \in 0 .. (MaxTries - 1)
<1>0. r.key \in Seq(Byte) /\ r.val \in Seq(Byte) /\ CacheTyped(cache)
  BY DEF IsRequest, DataTypeOK, CacheTyped
<1>1. CacheTyped(cache')
  <2>1. CacheTyped(Put(cache, r.key, r.val))
    BY <1>0 DEF CacheTyped, Put
  <2>2. CacheTyped(Remove(cache, r.key))
    BY <1>0 DEF CacheTyped, Remove
  <2>3. cache' = Execute(r)
    BY DEF Process
  <2> QED
    BY <1>0, <2>1, <2>2, <2>3 DEF Execute
<1>2. sendBuffer' \in Seq(Seq(Byte) \X Seq(Byte))
  <2>1. sendBuffer \in Seq(Seq(Byte) \X Seq(Byte))
    BY DEF DataTypeOK
  <2> DEFINE entry == <<r.key, r.val>>
  <2>2. entry \in Seq(Byte) \X Seq(Byte)
    BY <1>0
  <2> HIDE DEF entry
  <2>3. Append(sendBuffer, entry) \in Seq(Seq(Byte) \X Seq(Byte))
    BY <2>1, <2>2
  <2>4. sendBuffer' = Append(sendBuffer, entry) \/ sendBuffer' = sendBuffer
    BY DEF Process, entry
  <2> QED
    BY <2>1, <2>3, <2>4
<1>3. Reply(r) \in Seq(Byte)
  <2>1. /\ OneOf("a") \in Seq(Byte) /\ OneOf("n") \in Seq(Byte) /\ OneOf("w") \in Seq(Byte)
        /\ OneOf("d") \in Seq(Byte) /\ <<>> \in Seq(Byte)
    <3>1. "a" \in Byte /\ "n" \in Byte /\ "w" \in Byte /\ "d" \in Byte
      BY EpollAssumption, WireAssumption
    <3> QED
      BY <3>1, Single
  <2>2. r.key \in DOMAIN cache => cache[r.key] \in Seq(Byte)
    BY <1>0 DEF CacheTyped
  <2>3. Reply(r) \in {OneOf("a"), OneOf("n"), OneOf("w"), OneOf("d"), <<>>}
        \/ (r.key \in DOMAIN cache /\ Reply(r) = cache[r.key])
    BY DEF Reply, NoReply, OneOf
  <2> QED
    BY <2>1, <2>2, <2>3
<1>4. 0 \in 0 .. (MaxTries - 1)
  BY EpollAssumption
<1>5. write'.body \in Seq(Byte) /\ write'.i = 0
  <2>1. CASE write' = NoWrite
    BY <2>1 DEF NoWrite
  <2>2. CASE write' = WriteTo(fd, c, Reply(r))
    BY <1>3, <2>2 DEF WriteTo
  <2> QED
    BY <2>1, <2>2 DEF Process
<1> QED
  BY <1>1, <1>2, <1>4, <1>5

LEMMA DataRead ==
  ASSUME ControlTypeOK, Owned, DataTypeOK, NEW ev \in batch, HandleRead(ev)
  PROVE  DataTypeOK'
<1> DEFINE c == conn[ev.fd]
<1>1. c \in Conns /\ rcv[c] \in Seq(Byte) /\ buf \in Buffer
  BY DEF HandleRead, Owned, NoStaleEvent, ControlTypeOK, DataTypeOK
<1>2. buf' \in Buffer
  <2>1. buf' = Overlay(buf, rcv[c]) \/ buf' = buf
    BY DEF HandleRead, ReadBytes, ReadNothing, ReadReset, ReadEof
  <2> QED
    BY <1>1, <2>1, OverlayTyped
<1> DEFINE r == Decode(buf')
<1>3. IsRequest(r)
  BY <1>2, DecodeTyped
<1>4. Process(ev.fd, ev.conn, r) /\ UNCHANGED <<out, seen>>
  BY DEF HandleRead, clientVars
<1> HIDE DEF r
<1>5. /\ CacheTyped(cache')
      /\ sendBuffer' \in Seq(Seq(Byte) \X Seq(Byte))
      /\ write'.body \in Seq(Byte) /\ write'.i \in 0 .. (MaxTries - 1)
  BY <1>3, <1>4, DataProcess
<1> QED
  BY <1>2, <1>4, <1>5 DEF DataTypeOK, CacheTyped

LEMMA DataWrite ==
  ASSUME ControlTypeOK, DataTypeOK, WriteAttempt
  PROVE  DataTypeOK'
<1> DEFINE c == conn[write.fd]
<1>1. write.fd \in Fds /\ c \in Conns \cup {NoConn}
  BY DEF WriteAttempt, ControlTypeOK
<1>2. /\ out \in [Conns -> Seq(Seq(Byte))] /\ write.body \in Seq(Byte)
      /\ write.i \in 0 .. (MaxTries - 1) /\ MaxTries \in Nat \ {0}
  BY EpollAssumption DEF DataTypeOK
<1>3. out' = out \/ (c # NoConn /\ out' = [out EXCEPT ![c] = Append(@, write.body)])
  BY DEF WriteAttempt
<1>4. UNCHANGED <<seen, dataVars>>
  BY DEF WriteAttempt, clientVars
<1>5. write' = NoWrite \/ (write' = [write EXCEPT !.i = @ + 1] /\ write.i + 1 # MaxTries)
  BY DEF WriteAttempt, LastTry
<1> HIDE DEF c
<1>6. out' \in [Conns -> Seq(Seq(Byte))]
  <2>1. CASE c \in Conns /\ out' = [out EXCEPT ![c] = Append(@, write.body)]
    <3>1. out[c] \in Seq(Seq(Byte))
      BY <1>2, <2>1
    <3> DEFINE longer == Append(out[c], write.body)
    <3>2. longer \in Seq(Seq(Byte))
      BY <1>2, <3>1
    <3>3. out' = [out EXCEPT ![c] = longer]
      BY <2>1
    <3> HIDE DEF longer
    <3> QED
      BY <1>2, <3>2, <3>3
  <2> QED
    BY <1>1, <1>2, <1>3, <2>1
<1>7. write'.body \in Seq(Byte) /\ write'.i \in 0 .. (MaxTries - 1)
  <2>1. CASE write' = NoWrite
    BY <1>2, <2>1 DEF NoWrite
  <2>2. CASE write' = [write EXCEPT !.i = @ + 1] /\ write.i + 1 # MaxTries
    <3>1. write.i + 1 \in 0 .. (MaxTries - 1)
      BY <1>2, <2>2
    <3>2. write'.body = write.body /\ write'.i = write.i + 1
      BY <2>2
    <3> QED
      BY <1>2, <3>1, <3>2
  <2> QED
    BY <1>5, <2>1, <2>2
<1> QED
  BY <1>4, <1>6, <1>7 DEF DataTypeOK, dataVars

LEMMA DataNext ==
  ControlTypeOK /\ Owned /\ DataTypeOK /\ [Next]_vars => DataTypeOK'
<1> SUFFICES ASSUME ControlTypeOK, Owned, DataTypeOK, [Next]_vars
             PROVE  DataTypeOK'
  OBVIOUS
<1>1. ASSUME UNCHANGED <<out, seen, dataVars, write>> PROVE DataTypeOK'
  BY <1>1 DEF DataTypeOK, dataVars
<1>2. ASSUME NEW c \in Conns, Client(c) \/ RstArrives(c) PROVE DataTypeOK'
  <2>1. CASE Receive(c)
    <3>1. out[c] \in Seq(Seq(Byte)) /\ seen \in [Conns -> Nat]
      BY DEF DataTypeOK
    <3>2. seen' \in [Conns -> Nat] /\ UNCHANGED <<out, dataVars, write>>
      BY <2>1, <3>1 DEF Receive, netVars
    <3> QED
      BY <3>2 DEF DataTypeOK, dataVars
  <2>2. CASE ~Receive(c)
    BY <1>1, <1>2, <2>2 DEF Client, Connect, Send, CloseClient, RstArrives, clientVars
  <2> QED
    BY <2>1, <2>2
<1>3. ASSUME NEW ev \in batch,
             HandleHup(ev) \/ HandleAccept(ev) \/ AcceptFails(ev) \/ AcceptUnwatched(ev)
      PROVE  DataTypeOK'
  BY <1>1, <1>3
  DEF HandleHup, HandleAccept, AcceptFails, AcceptUnwatched, clientVars, netVars
<1>4. ASSUME NEW ev \in batch, HandleRead(ev) PROVE DataTypeOK'
  BY <1>4, DataRead
<1>5. CASE WriteAttempt
  BY <1>5, DataWrite
<1>6. CASE EpollWait
  BY <1>1, <1>6 DEF EpollWait, clientVars, netVars
<1>7. CASE UNCHANGED vars
  BY <1>1, <1>7 DEF vars, clientVars, netVars
<1> QED
  BY <1>2, <1>3, <1>4, <1>5, <1>6, <1>7 DEF Next, Server

(* All variables have their types, also the bytes that the loop takes out  *)
(* of its array, stores and sends back, and kernel and loop fit together.  *)
THEOREM StaysWellFormed == Spec => []WellFormed
<1>1. Init => DataTypeOK
  BY DataInit
<1>2. ControlTypeOK /\ Owned /\ DataTypeOK /\ [Next]_vars => DataTypeOK'
  BY DataNext
<1>3. ControlTypeOK /\ Owned /\ DataTypeOK => WellFormed
  BY DEF WellFormed, TypeOK, Owned
<1> QED
  BY <1>1, <1>2, <1>3, OwnedInvariant, PTL DEF Spec

(* Executing a request twice in a row is executing it once.                *)
LEMMA ExecuteTwice ==
  ASSUME NEW r, cache' = Execute(r)
  PROVE  Execute(r)' = cache'
<1>1. CASE r.mode \in {"i", "s"}
  BY <1>1 DEF Execute, Put
<1>2. CASE r.mode = "d" /\ r.key \in DOMAIN cache
  BY <1>2 DEF Execute, Remove
<1>3. CASE r.mode \notin {"i", "s"} /\ ~(r.mode = "d" /\ r.key \in DOMAIN cache)
  BY <1>3 DEF Execute
<1> QED
  BY <1>1, <1>2, <1>3

(* Executing the array's request again changes nothing once it has been    *)
(* executed.                                                               *)
THEOREM RereadIsHarmless == Spec => []RereadHarmless
<1>1. Init => RereadHarmless
  BY DEF Init, RereadHarmless
<1>2. RereadHarmless /\ [Next]_vars => RereadHarmless'
  <2>1. ASSUME RereadHarmless, UNCHANGED <<buf, cache>>
        PROVE  RereadHarmless'
    BY <2>1 DEF RereadHarmless, Execute
  <2>2. ASSUME NEW ev \in batch, HandleRead(ev)
        PROVE  RereadHarmless'
    BY <2>2, ExecuteTwice DEF RereadHarmless, HandleRead, Process
  <2> QED
    BY <2>1, <2>2
    DEF Next, Client, Server, Connect, Send, Receive, CloseClient, RstArrives,
        EpollWait, HandleHup, HandleAccept, AcceptFails, AcceptUnwatched,
        WriteAttempt, vars, dataVars
<1> QED
  BY <1>1, <1>2, PTL DEF Spec

-----------------------------------------------------------------------------
(* No wakeup is lost.                                                      *)

(* What of a request is on the way or unread fits the array.               *)
Arriving ==
  \A c \in Conns :
    /\ Len(rcv[c]) + Len(todo[c]) <= BufLen
    /\ c \notin DOMAIN call => rcv[c] = <<>> /\ todo[c] = <<>>

Fits == \A r \in Calls : Len(Bytes(r)) <= BufLen

LEMMA Sums ==
  ASSUME NEW a \in Nat, NEW b \in Nat, NEW d \in Nat, a + b <= d
  PROVE  /\ a <= d /\ 0 + b <= d
         /\ \A n \in 1..b : (a + n) + (b - n) <= d /\ a + (b - n) <= d
  OBVIOUS

LEMMA Lengths ==
  ControlTypeOK =>
    \A c \in Conns : Len(rcv[c]) \in Nat /\ Len(todo[c]) \in Nat
                     /\ rcv[c] \in Seq(Byte) /\ todo[c] \in Seq(Byte)
  BY DEF ControlTypeOK

LEMMA ArrivingSend ==
  ASSUME ControlTypeOK, Arriving, NEW c \in Conns,
         NEW n \in 1..Len(todo[c]), Send(c, n)
  PROVE  Arriving'
<1>1. /\ todo[c] \in Seq(Byte) /\ rcv[c] \in Seq(Byte)
      /\ Len(todo[c]) \in Nat /\ Len(rcv[c]) \in Nat
  BY Lengths
<1>2. c \in DOMAIN call /\ call' = call
  <2>1. todo[c] # <<>>
    BY <1>1
  <2> QED
    BY <2>1 DEF Arriving, Send
<1>3. /\ Len(SubSeq(todo[c], 1, n)) = n /\ SubSeq(todo[c], 1, n) \in Seq(Byte)
      /\ Len(SubSeq(todo[c], n + 1, Len(todo[c]))) = Len(todo[c]) - n
  <2>1. /\ \A i \in 1..n : todo[c][i] \in Byte
        /\ \A i \in (n + 1)..Len(todo[c]) : todo[c][i] \in Byte
    BY <1>1, ElementOfSeq
  <2> QED
    BY <1>1, <2>1, SubSeqProperties
<1>4. Len(rcv[c] \o SubSeq(todo[c], 1, n)) = Len(rcv[c]) + n
  BY <1>1, <1>3, ConcatProperties
<1>5. /\ Len(todo'[c]) = Len(todo[c]) - n
      /\ rcv'[c] = rcv[c] \/ rcv'[c] = rcv[c] \o SubSeq(todo[c], 1, n)
      /\ \A d \in Conns : d # c => todo'[d] = todo[d] /\ rcv'[d] = rcv[d]
  BY <1>3 DEF Send, ControlTypeOK
<1> QED
  <2>1. SUFFICES ASSUME NEW d \in Conns
                 PROVE  /\ Len(rcv'[d]) + Len(todo'[d]) <= BufLen
                        /\ d \notin DOMAIN call => rcv'[d] = <<>> /\ todo'[d] = <<>>
    BY <1>2 DEF Arriving
  <2>2. Len(rcv[c]) + Len(todo[c]) <= BufLen /\ BufLen \in Nat
    BY WireAssumption DEF Arriving
  <2>3. CASE d = c
    <3>1. /\ (Len(rcv[c]) + n) + (Len(todo[c]) - n) <= BufLen
          /\ Len(rcv[c]) + (Len(todo[c]) - n) <= BufLen
      BY <1>1, <2>2, Sums
    <3>2. Len(rcv'[c]) + Len(todo'[c]) <= BufLen
      BY <1>4, <1>5, <3>1
    <3> QED
      BY <1>2, <2>3, <3>2
  <2>4. CASE d # c
    BY <1>5, <2>4 DEF Arriving
  <2> QED
    BY <2>3, <2>4

(* All other steps leave todo alone and can only drop unread bytes.        *)
LEMMA ArrivingLess ==
  ASSUME ControlTypeOK, Arriving, UNCHANGED <<call, todo>>,
         \A c \in Conns : rcv'[c] = rcv[c] \/ rcv'[c] = <<>>
  PROVE  Arriving'
<1>1. Len(<<>>) = 0 /\ DOMAIN call' = DOMAIN call
  OBVIOUS
<1>2. SUFFICES ASSUME NEW c \in Conns
               PROVE  /\ Len(rcv'[c]) + Len(todo'[c]) <= BufLen
                      /\ c \notin DOMAIN call => rcv'[c] = <<>> /\ todo'[c] = <<>>
  BY <1>1 DEF Arriving
<1>3. /\ Len(rcv[c]) \in Nat /\ Len(todo[c]) \in Nat /\ BufLen \in Nat
      /\ Len(rcv[c]) + Len(todo[c]) <= BufLen
      /\ c \notin DOMAIN call => rcv[c] = <<>> /\ todo[c] = <<>>
  BY Lengths, WireAssumption DEF Arriving
<1>4. (rcv'[c] = rcv[c] \/ rcv'[c] = <<>>) /\ todo'[c] = todo[c]
  OBVIOUS
<1> QED
  <2>1. Len(<<>>) + Len(todo[c]) <= BufLen
    BY <1>1, <1>3, Sums
  <2> QED
    BY <1>1, <1>3, <1>4, <2>1

(* One read takes all there is.                                            *)
LEMMA ReadAll ==
  ASSUME ControlTypeOK, Arriving, NEW fd, NEW c \in Conns, ReadBytes(fd, c)
  PROVE  rcv' = [rcv EXCEPT ![c] = <<>>]
<1>1. /\ rcv[c] \in Seq(Byte) /\ Len(rcv[c]) \in Nat
      /\ BufLen \in Nat /\ Len(rcv[c]) <= BufLen
  <2>1. /\ rcv[c] \in Seq(Byte) /\ Len(rcv[c]) \in Nat /\ Len(todo[c]) \in Nat
    BY Lengths
  <2>2. Len(rcv[c]) + Len(todo[c]) <= BufLen /\ BufLen \in Nat
    BY WireAssumption DEF Arriving
  <2> QED
    BY <2>1, <2>2, Sums
<1>2. SubSeq(rcv[c], BufLen + 1, Len(rcv[c])) = <<>>
  BY <1>1, SubSeqEmpty
<1> QED
  BY <1>2 DEF ReadBytes

LEMMA ArrivingInvariant ==
  ASSUME Fits
  PROVE  Spec => [](ControlTypeOK /\ Owned /\ Arriving)
<1>1. Init => Arriving
  BY WireAssumption DEF Init, Arriving
<1>2. ASSUME ControlTypeOK, Owned, Arriving, [Next]_vars
      PROVE  Arriving'
  <2>1. ASSUME NEW c \in Conns, NEW r \in Calls, Connect(c, r)
        PROVE  Arriving'
    <3>1. /\ rcv' = rcv /\ rcv[c] = <<>> /\ todo'[c] = Bytes(r)
          /\ \A d \in Conns : d # c => todo'[d] = todo[d]
          /\ DOMAIN call' = DOMAIN call \cup {c}
      BY <1>2, <2>1 DEF Connect, Arriving, ControlTypeOK, Put
    <3>2. Len(rcv[c]) + Len(Bytes(r)) <= BufLen
      BY <3>1, EpollAssumption DEF Fits
    <3> QED
      BY <1>2, <3>1, <3>2 DEF Arriving
  <2>2. ASSUME NEW c \in Conns, NEW n \in 1..Len(todo[c]), Send(c, n)
        PROVE  Arriving'
    BY <1>2, <2>2, ArrivingSend
  <2>3. ASSUME UNCHANGED <<call, todo>>,
               \A c \in Conns : rcv'[c] = rcv[c] \/ rcv'[c] = <<>>
        PROVE  Arriving'
    BY <1>2, <2>3, ArrivingLess
  <2>4. ASSUME NEW ev \in batch, HandleRead(ev)
        PROVE  Arriving'
    <3>1. ev.fd \in Fds /\ conn[ev.fd] \in Conns /\ rcv \in [Conns -> Seq(Byte)]
      BY <1>2, <2>4 DEF HandleRead, Owned, NoStaleEvent, ControlTypeOK
    <3>2. \A c \in Conns : rcv'[c] = rcv[c] \/ rcv'[c] = <<>>
      BY <1>2, <2>4, <3>1, ReadAll DEF HandleRead, ReadNothing, ReadReset, ReadEof, Close
    <3> QED
      BY <2>3, <2>4, <3>2 DEF HandleRead, clientVars
  <2>5. ASSUME NEW ev \in batch,
               HandleHup(ev) \/ HandleAccept(ev) \/ AcceptFails(ev) \/ AcceptUnwatched(ev)
        PROVE  Arriving'
    BY <2>3, <2>5
    DEF HandleHup, HandleAccept, AcceptFails, AcceptUnwatched, Close, clientVars, netVars
  <2>6. CASE WriteAttempt
    BY <2>3, <2>6 DEF WriteAttempt, Close, clientVars
  <2>7. CASE UNCHANGED vars
    BY <2>3, <2>7 DEF vars, clientVars, netVars
  <2>8. CASE EpollWait
    BY <2>3, <2>8 DEF EpollWait, clientVars, netVars
  <2>9. ASSUME NEW c \in Conns, Receive(c) \/ CloseClient(c) \/ RstArrives(c)
        PROVE  Arriving'
    BY <2>3, <2>9 DEF Receive, CloseClient, RstArrives, clientVars, netVars
  <2> QED
    BY <1>2, <2>1, <2>2, <2>4, <2>5, <2>6, <2>7, <2>8, <2>9 DEF Next, Client, Server
<1> QED
  BY <1>1, <1>2, OwnedInvariant, PTL DEF Spec

(* A step that closes at most the descriptor it is about, takes no other   *)
(* event away, and adds no unread bytes without notifying, loses nothing.  *)
LEMMA NotifiedStill ==
  ASSUME DataNotified, alive' => alive,
         \A fd \in watched' :
           \/ rcv'[conn'[fd]] = <<>> \/ fd \in ready'
           \/ /\ fd \in watched /\ (rcv'[conn'[fd]] # <<>> => rcv[conn[fd]] # <<>>)
              /\ fd \in ready => fd \in ready' \/ \E ev \in batch' : ev.fd = fd
              /\ \A ev \in batch : ev.fd = fd => ev \in batch'
  PROVE  DataNotified'
  BY DEF DataNotified

LEMMA NotifiedClient ==
  ASSUME ControlTypeOK, Owned, Arriving, DataNotified,
         NEW c \in Conns, Client(c) \/ RstArrives(c)
  PROVE  DataNotified'
<1>1. CASE \E n \in 1..Len(todo[c]) : Send(c, n)
  <2>1. PICK n \in 1..Len(todo[c]) : Send(c, n)
    BY <1>1
  <2>2. UNCHANGED <<conn, watched, batch, alive>> /\ ready \subseteq ready'
    BY <2>1 DEF Send, Notify
  <2>3. ASSUME NEW fd \in watched, fd \notin ready'
        PROVE  rcv'[conn[fd]] = rcv[conn[fd]]
    <3>1. conn[fd] \in Conns
      BY DEF ControlTypeOK, Owned, Bookkeeping
    <3>2. CASE UNCHANGED <<rcv, ready>>
      BY <3>2
    <3>3. CASE /\ rcv' = [rcv EXCEPT ![c] = @ \o SubSeq(todo[c], 1, n)]
               /\ ready' = Notify(c)
      BY <2>3, <3>1, <3>3 DEF Notify, ControlTypeOK
    <3> QED
      BY <2>1, <3>2, <3>3 DEF Send
  <2> QED
    BY <2>2, <2>3, NotifiedStill
<1>2. CASE \E r \in Calls : Connect(c, r)
  BY <1>2, NotifiedStill DEF Connect
<1>3. CASE Receive(c)
  BY <1>3, NotifiedStill DEF Receive, fdVars, netVars
<1>4. CASE CloseClient(c)
  BY <1>4, NotifiedStill DEF CloseClient, Notify
<1>5. CASE RstArrives(c)
  BY <1>5, NotifiedStill DEF RstArrives, Notify
<1> QED
  BY <1>1, <1>2, <1>3, <1>4, <1>5 DEF Client

LEMMA NotifiedServer ==
  ASSUME ControlTypeOK, Owned, Arriving, DataNotified, Server
  PROVE  DataNotified'
<1>0. /\ \A fd \in watched : fd \in Fds /\ conn[fd] \in Conns
      /\ rcv \in [Conns -> Seq(Byte)] /\ conn \in [Fds -> Conns \cup {NoConn}]
  BY DEF ControlTypeOK, Owned, Bookkeeping
<1>1. CASE EpollWait
  <2>1. \A fd \in watched : fd \in ready => \E ev \in batch' : ev.fd = fd
    <3>1. \A fd \in ready : fd # Listener => Event(fd) \in batch'
      BY <1>1 DEF EpollWait
    <3>2. \A fd \in watched : fd # Listener /\ Event(fd).fd = fd
      BY <1>0 DEF Event
    <3> QED
      BY <3>1, <3>2
  <2> QED
    BY <1>1, <2>1, NotifiedStill DEF EpollWait, netVars
<1>2. ASSUME NEW ev \in batch, Taken(ev), ev.fd \in Fds, Close(ev.fd), alive' => alive
      PROVE  DataNotified'
  <2>1. \A e \in batch : e.fd # ev.fd => e \in batch'
    BY <1>2 DEF Taken
  <2>2. \A fd \in watched' : /\ fd \in watched /\ fd # ev.fd /\ conn'[fd] = conn[fd]
                             /\ fd \in ready => fd \in ready'
    BY <1>0, <1>2 DEF Close
  <2>3. \A c \in Conns : rcv'[c] = rcv[c] \/ rcv'[c] = <<>>
    BY <1>2 DEF Close
  <2>4. ASSUME NEW fd \in watched'
        PROVE  rcv'[conn'[fd]] # <<>> => rcv[conn[fd]] # <<>>
    <3>1. conn'[fd] = conn[fd] /\ conn[fd] \in Conns
      BY <1>0, <2>2
    <3> QED
      BY <2>3, <3>1
  <2> QED
    BY <1>2, <2>1, <2>2, <2>4, NotifiedStill
<1>3. ASSUME NEW ev \in batch, HandleHup(ev)
      PROVE  DataNotified'
  BY <1>2, <1>3 DEF HandleHup, Owned, Bookkeeping, ControlTypeOK
<1>4. ASSUME NEW ev \in batch, HandleAccept(ev)
      PROVE  DataNotified'
  <2>1. PICK fd \in Fds : /\ AcceptOn(fd) /\ watched' = watched \cup {fd}
                          /\ ready' = ready \cup {fd}
    BY <1>4 DEF HandleAccept
  <2>2. /\ rcv' = rcv /\ alive' = alive /\ \A e \in batch : e.fd # Listener => e \in batch'
    BY <1>4 DEF HandleAccept, Taken, netVars
  <2>3. \A d \in watched : conn'[d] = conn[d]
    BY <1>0, <2>1 DEF AcceptOn, Free, Owned, Bookkeeping
  <2> QED
    BY <1>0, <2>1, <2>2, <2>3, NotifiedStill
<1>5. ASSUME NEW ev \in batch, AcceptFails(ev)
      PROVE  DataNotified'
  <2>1. /\ UNCHANGED <<conn, watched, alive>> /\ ready' = ready \ {Listener}
        /\ \A e \in batch : e.fd # Listener => e \in batch'
        /\ \A c \in Conns : rcv'[c] = rcv[c] \/ rcv'[c] = <<>>
    BY <1>5 DEF AcceptFails, Taken, CloseListener
  <2> QED
    BY <1>0, <2>1, NotifiedStill
<1>6. ASSUME NEW ev \in batch, AcceptUnwatched(ev)
      PROVE  DataNotified'
  <2>1. PICK fd \in Fds : AcceptOn(fd)
    BY <1>6 DEF AcceptUnwatched
  <2>2. /\ UNCHANGED <<watched, alive>> /\ ready' = ready \ {Listener}
        /\ \A e \in batch : e.fd # Listener => e \in batch'
        /\ \A c \in Conns : rcv'[c] = rcv[c] \/ rcv'[c] = <<>>
    BY <1>6 DEF AcceptUnwatched, Taken, CloseListener
  <2>3. \A d \in watched : conn'[d] = conn[d]
    BY <1>0, <2>1 DEF AcceptOn, Free, Owned, Bookkeeping
  <2> QED
    BY <1>0, <2>2, <2>3, NotifiedStill
<1>7. ASSUME NEW ev \in batch, HandleRead(ev)
      PROVE  DataNotified'
  <2>1. /\ Taken(ev) /\ ev.fd \in Fds /\ conn[ev.fd] \in Conns /\ alive
        /\ \A e \in batch : e.fd # ev.fd => e \in batch'
    BY <1>7 DEF HandleRead, Taken, ControlTypeOK, Owned, NoStaleEvent
  <2>2. CASE ReadEof(ev.fd, conn[ev.fd])
    BY <1>2, <2>1, <2>2 DEF ReadEof
  <2>3. CASE \/ ReadBytes(ev.fd, conn[ev.fd])
             \/ ReadNothing(conn[ev.fd])
             \/ ReadReset(conn[ev.fd])
    <3>1. UNCHANGED <<conn, watched, ready>> /\ rcv'[conn[ev.fd]] = <<>>
      BY <1>0, <2>1, <2>3, ReadAll DEF ReadBytes, ReadNothing, ReadReset
    <3>2. \A c \in Conns : rcv'[c] = rcv[c] \/ rcv'[c] = <<>>
      BY <1>0, <2>1, <2>3, ReadAll DEF ReadNothing, ReadReset
    <3> QED
      BY <1>0, <2>1, <3>1, <3>2, NotifiedStill
  <2> QED
    BY <1>7, <2>2, <2>3 DEF HandleRead
<1>8. CASE WriteAttempt
  <2>1. /\ batch' = batch /\ alive
        /\ Close(write.fd) \/ UNCHANGED <<conn, watched, ready, rcv>>
    BY <1>8 DEF WriteAttempt
  <2>2. \A fd \in watched' : /\ fd \in watched /\ conn'[fd] = conn[fd]
                             /\ fd \in ready => fd \in ready'
    BY <1>0, <2>1 DEF Close
  <2>3. \A c \in Conns : rcv'[c] = rcv[c] \/ rcv'[c] = <<>>
    BY <2>1 DEF Close
  <2>4. ASSUME NEW fd \in watched'
        PROVE  rcv'[conn'[fd]] # <<>> => rcv[conn[fd]] # <<>>
    <3>1. conn'[fd] = conn[fd] /\ conn[fd] \in Conns
      BY <1>0, <2>2
    <3> QED
      BY <2>3, <3>1
  <2> QED
    BY <2>1, <2>2, <2>4, NotifiedStill
<1> QED
  BY <1>1, <1>3, <1>4, <1>5, <1>6, <1>7, <1>8 DEF Server

(* If every request fits the array, bytes that arrived on a watched        *)
(* descriptor are never forgotten, however requests are cut and whichever  *)
(* events come together in a batch.                                        *)
THEOREM DataIsNotified ==
  ASSUME Fits
  PROVE  Spec => []DataNotified
<1>1. Init => DataNotified
  BY DEF Init, DataNotified
<1>2. ASSUME ControlTypeOK, Owned, Arriving, DataNotified, [Next]_vars
      PROVE  DataNotified'
  <2>1. CASE UNCHANGED vars
    BY <1>2, <2>1, NotifiedStill DEF vars, netVars, fdVars
  <2> QED
    BY <1>2, <2>1, NotifiedClient, NotifiedServer DEF Next
<1> QED
  BY <1>1, <1>2, ArrivingInvariant, PTL DEF Spec

-----------------------------------------------------------------------------
(* Whole requests take effect once. *)

(* What the loop takes out of the array after a read of a whole request *)
ModeOf(r) ==
  CASE r.op = "add" -> "i" [] r.op = "set" -> "s" [] r.op = "get" -> "g" [] r.op = "rm" -> "d"

Decoded(r) == Request(ModeOf(r), Shorn(r.key), IF r.op \in {"add", "set"} THEN r.val ELSE <<>>)

LEMMA CallFacts ==
  ASSUME WholeRequests, NEW r \in Calls
  PROVE  /\ r.op \in {"add", "set", "get", "rm"}
         /\ r.key \in Seq(Byte) /\ r.val \in Seq(Byte) /\ r.key # <<>>
         /\ Width(Len(r.key)) + 2 <= SepWindow /\ Width(Len(r.val)) + 2 <= SepWindow
         /\ Bytes(r) \in Seq(Byte) /\ Len(Bytes(r)) <= BufLen
BY EpollAssumption DEF WholeRequests, Width

LEMMA BytesRead ==
  ASSUME WholeRequests, NEW r \in Calls, NEW b \in Buffer
  PROVE  /\ Decode(Overlay(b, Bytes(r))) = Decoded(r)
         /\ Bytes(r) # <<>>
<1> DEFINE bytes == Bytes(r)
           key == r.key
           val == r.val
<1>1. /\ key \in Seq(Byte) /\ val \in Seq(Byte) /\ key # <<>>
      /\ Width(Len(key)) + 2 <= SepWindow /\ Width(Len(val)) + 2 <= SepWindow
      /\ bytes \in Seq(Byte) /\ Len(bytes) <= BufLen
      /\ r.op \in {"add", "set", "get", "rm"}
  BY CallFacts
<1>2. /\ r.op = "add" => bytes = ComposeAdd("i", key, val)
      /\ r.op = "set" => bytes = ComposeAdd("s", key, val)
      /\ r.op = "get" => bytes = SizeHead("g", Len(key)) \o key
      /\ r.op = "rm" => bytes = SizeHead("d", Len(key)) \o key
  BY DEF Bytes, ComposeGet, ComposeRm, SizeHead, OneOf
<1>3. Decoded(r) = Request(ModeOf(r), Shorn(key), IF r.op \in {"add", "set"} THEN val ELSE <<>>)
  BY DEF Decoded
<1>4. /\ r.op = "add" => ModeOf(r) = "i"
      /\ r.op = "set" => ModeOf(r) = "s"
      /\ r.op = "get" => ModeOf(r) = "g"
      /\ r.op = "rm" => ModeOf(r) = "d"
  BY DEF ModeOf
<1> HIDE DEF bytes, key, val
<1>5. ASSUME NEW mode \in {"i", "s"}, bytes = ComposeAdd(mode, key, val)
      PROVE  Decode(Overlay(b, bytes)) = Request(mode, Shorn(key), val) /\ bytes[1] = mode
  <2>1. mode \in Byte
    BY WireAssumption
  <2>2. InsertBytes(bytes, mode, key, val, Width(Len(key)), Width(Len(val)))
    BY <1>1, <1>5, <2>1, AddBytes
  <2>3. bytes[1] = mode
    BY <2>2 DEF InsertBytes
  <2>4. Decode(Overlay(b, bytes)) = Request(mode, Shorn(key), val)
    BY <1>1, <1>5, InsertReadBack
  <2> QED
    BY <2>3, <2>4
<1>6. ASSUME NEW mode \in {"g", "d"}, bytes = SizeHead(mode, Len(key)) \o key
      PROVE  Decode(Overlay(b, bytes)) = Request(mode, Shorn(key), <<>>)
  BY <1>1, <1>6, LookupReadBack
<1>7. Decode(Overlay(b, bytes)) = Decoded(r)
  <2>1. CASE r.op = "add"
    BY <1>2, <1>3, <1>4, <1>5, <2>1
  <2>2. CASE r.op = "set"
    BY <1>2, <1>3, <1>4, <1>5, <2>2
  <2>3. CASE r.op = "get"
    BY <1>2, <1>3, <1>4, <1>6, <2>3
  <2>4. CASE r.op = "rm"
    BY <1>2, <1>3, <1>4, <1>6, <2>4
  <2> QED
    BY <1>1, <2>1, <2>2, <2>3, <2>4
<1>8. bytes # <<>>
  <2>1. Len(bytes) # 0
    <3>1. ASSUME NEW mode \in {"i", "s"}, bytes = ComposeAdd(mode, key, val)
          PROVE  Len(bytes) # 0
      <4>1. mode \in Byte
        BY WireAssumption
      <4> DEFINE x == Width(Len(key))
                 y == Width(Len(val))
      <4>2. InsertBytes(bytes, mode, key, val, x, y)
        BY <1>1, <3>1, <4>1, AddBytes
      <4> HIDE DEF x, y
      <4>3. /\ x \in Nat /\ y \in Nat /\ Len(key) \in Nat /\ Len(val) \in Nat
            /\ Len(bytes) = (((x + 2) + (y + 1)) + Len(key)) + Len(val)
        BY <4>2 DEF InsertBytes
      <4> QED
        BY <4>3
    <3>2. ASSUME NEW mode \in {"g", "d"}, bytes = SizeHead(mode, Len(key)) \o key
          PROVE  Len(bytes) # 0
      <4>1. mode \in Byte
        BY WireAssumption
      <4> DEFINE x == Width(Len(key))
      <4>2. LookupBytes(bytes, mode, key, x)
        BY <1>1, <3>2, <4>1, GetBytes
      <4> HIDE DEF x
      <4>3. x \in Nat /\ Len(key) \in Nat /\ Len(bytes) = (x + 2) + Len(key)
        BY <4>2 DEF LookupBytes
      <4> QED
        BY <4>3
    <3> QED
      BY <1>1, <1>2, <3>1, <3>2
  <2> QED
    BY <2>1
<1> QED
  BY <1>7, <1>8 DEF bytes

(* Nothing of a request is under way, or all of it is still with the       *)
(* client, or all of it is unread.                                         *)
InOnePiece ==
  \A c \in DOMAIN call :
    \/ todo[c] = Bytes(call[c]) /\ rcv[c] = <<>>
    \/ todo[c] = <<>> /\ rcv[c] \in {<<>>, Bytes(call[c])}

(* The cache is a map, and executing the array's request would leave it as *)
(* it is and, once something has been read, not end the process.           *)
Settled ==
  /\ cache = [k \in DOMAIN cache |-> cache[k]]
  /\ Execute(Decode(buf)) = cache
  /\ buf \in Garbage \/ Decode(buf).mode \notin Stops

WholeInv ==
  ControlTypeOK /\ Owned /\ Arriving /\ buf \in Buffer /\ InOnePiece /\ Settled

Waiting == {c \in DOMAIN call : todo[c] # <<>> \/ rcv[c] # <<>>}
Wanted == [c \in DOMAIN call |-> Stored(call[c])]

(* Executing a call's request has the effect of the call. *)
LEMMA EffectOfCall ==
  ASSUME WholeRequests, NEW r \in Calls, cache = [k \in DOMAIN cache |-> cache[k]]
  PROVE  Execute(Decoded(r)) = Service!Effect(cache, Stored(r))
<1> DEFINE q == Decoded(r)
           s == Stored(r)
<1>1. r.op \in {"add", "set", "get", "rm"} /\ r.key \in Seq(Byte) /\ r.key # <<>>
  BY CallFacts
<1>2. SubSeq(r.key, 1, Len(r.key) - 1) = Shorn(r.key)
  BY <1>1, ShornIs
<1>3. q.mode = ModeOf(r) /\ q.key = Shorn(r.key)
      /\ q.val = IF r.op \in {"add", "set"} THEN r.val ELSE <<>>
  BY RequestFields DEF Decoded
<1>4. s.op = r.op /\ s.key = Shorn(r.key) /\ s.val = r.val
  BY <1>2 DEF Stored
<1> HIDE DEF q, s
<1>5. CASE r.op \in {"add", "set"}
  <2>1. q.mode \in {"i", "s"} /\ q.val = r.val
    BY <1>3, <1>5 DEF ModeOf
  <2>2. Execute(q) = Put(cache, q.key, q.val)
    BY <2>1 DEF Execute
  <2>3. Service!Effect(cache, s) = Put(cache, s.key, s.val)
    BY <1>4, <1>5 DEF Service!Effect, Service!Put, Put
  <2> QED
    BY <1>3, <1>4, <2>1, <2>2, <2>3 DEF q, s
<1>6. CASE r.op = "rm"
  <2>1. q.mode = "d"
    BY <1>3, <1>6 DEF ModeOf
  <2>2. Execute(q) = IF q.key \in DOMAIN cache THEN Remove(cache, q.key) ELSE cache
    BY <2>1 DEF Execute
  <2>3. Service!Effect(cache, s) = Remove(cache, s.key)
    BY <1>4, <1>6 DEF Service!Effect, Service!Remove, Remove
  <2>4. q.key \notin DOMAIN cache => Remove(cache, q.key) = cache
    BY DEF Remove
  <2> QED
    BY <1>3, <1>4, <2>2, <2>3, <2>4 DEF q, s
<1>7. CASE r.op = "get"
  <2>1. q.mode = "g"
    BY <1>3, <1>7 DEF ModeOf
  <2>2. Execute(q) = cache
    BY <2>1 DEF Execute
  <2>3. Service!Effect(cache, s) = cache
    BY <1>4, <1>7 DEF Service!Effect
  <2> QED
    BY <2>2, <2>3 DEF q, s
<1> QED
  BY <1>1, <1>5, <1>6, <1>7

(* If nothing is taken into the cache and fewer requests wait, they are    *)
(* lost.                                                                   *)
LEMMA FewerWait ==
  ASSUME UNCHANGED <<call, cache>>, Waiting' \subseteq Waiting
  PROVE  [Service!Next]_(Service!vars)
<1> DEFINE lost == Waiting \ Waiting'
<1>1. Wanted' = Wanted
  BY DEF Wanted
<1>2. Waiting' = Waiting \ lost /\ lost \in SUBSET Waiting
  OBVIOUS
<1> HIDE DEF lost
<1>3. CASE lost = {}
  BY <1>1, <1>2, <1>3 DEF Service!vars, Waiting, Wanted
<1>4. ASSUME NEW cs \in SUBSET Waiting, cs # {}, Waiting' = Waiting \ cs
      PROVE  Service!Next
  <2>1. Service!Lose(cs)
    BY <1>1, <1>4 DEF Service!Lose, Waiting, Wanted
  <2> QED
    BY <2>1 DEF Service!Next, Waiting
<1> QED
  BY <1>2, <1>3, <1>4

(* A step that reads nothing and drops at most unread bytes. *)
LEMMA QuietServes ==
  ASSUME WholeInv, UNCHANGED <<call, todo, buf, cache>>,
         \A c \in Conns : rcv'[c] = rcv[c] \/ rcv'[c] = <<>>
  PROVE  [Service!Next]_(Service!vars) /\ InOnePiece' /\ Settled'
<1>1. DOMAIN call \subseteq Conns
  BY DEF WholeInv, ControlTypeOK
<1>2. Waiting' \subseteq Waiting
  BY <1>1 DEF Waiting
<1>3. InOnePiece'
  <2> SUFFICES ASSUME NEW c \in DOMAIN call
               PROVE  \/ todo[c] = Bytes(call[c]) /\ rcv'[c] = <<>>
                      \/ todo[c] = <<>> /\ rcv'[c] \in {<<>>, Bytes(call[c])}
    BY DEF InOnePiece
  <2>1. rcv'[c] = rcv[c] \/ rcv'[c] = <<>>
    BY <1>1
  <2> QED
    BY <2>1 DEF InOnePiece, WholeInv
<1>4. Settled'
  BY DEF Settled, Execute, WholeInv
<1> QED
  BY <1>2, <1>3, <1>4, FewerWait

(* Connecting submits the call's request. *)
LEMMA ConnectServes ==
  ASSUME WholeRequests, WholeInv, NEW c \in Conns, NEW r \in Calls, Connect(c, r)
  PROVE  [Service!Next]_(Service!vars) /\ InOnePiece' /\ Settled'
<1>1. /\ c \notin DOMAIN call /\ DOMAIN call \subseteq Conns
      /\ DOMAIN call' = DOMAIN call \cup {c}
      /\ call'[c] = r /\ \A d \in DOMAIN call : call'[d] = call[d]
      /\ rcv' = rcv /\ rcv[c] = <<>> /\ todo'[c] = Bytes(r)
      /\ \A d \in Conns : d # c => todo'[d] = todo[d]
      /\ UNCHANGED <<buf, cache>>
  BY DEF Connect, Put, WholeInv, ControlTypeOK, Arriving, dataVars
<1>2. Bytes(r) # <<>>
  BY BytesRead DEF WholeInv
<1>3. c \notin Waiting /\ Waiting' = Waiting \cup {c}
  BY <1>1, <1>2 DEF Waiting
<1>4. Wanted' = Put(Wanted, c, Stored(r))
  <2>1. Wanted' = [d \in DOMAIN call \cup {c} |-> IF d = c THEN Stored(r) ELSE Stored(call[d])]
    BY <1>1 DEF Wanted
  <2> QED
    BY <1>1, <2>1 DEF Wanted, Put
<1>5. Service!Submit(c, Stored(r))
  BY <1>1, <1>3, <1>4 DEF Service!Submit, Service!Put, Put, Waiting, Wanted
<1>6. Service!Next
  BY <1>5 DEF Service!Next
<1>7. InOnePiece'
  <2> SUFFICES ASSUME NEW d \in DOMAIN call'
               PROVE  \/ todo'[d] = Bytes(call'[d]) /\ rcv'[d] = <<>>
                      \/ todo'[d] = <<>> /\ rcv'[d] \in {<<>>, Bytes(call'[d])}
    BY DEF InOnePiece
  <2>1. CASE d = c
    BY <1>1, <2>1
  <2>2. CASE d # c
    BY <1>1, <2>2 DEF InOnePiece, WholeInv
  <2> QED
    BY <2>1, <2>2
<1>8. Settled'
  BY <1>1 DEF Settled, Execute, WholeInv
<1> QED
  BY <1>6, <1>7, <1>8

(* A request is sent in one segment.  If the server has closed the         *)
(* connection it is lost.                                                  *)
LEMMA SendServes ==
  ASSUME WholeRequests, WholeInv, NEW c \in Conns,
         NEW n \in 1..Len(todo[c]), Send(c, n)
  PROVE  [Service!Next]_(Service!vars) /\ InOnePiece' /\ Settled'
<1>1. /\ todo[c] \in Seq(Byte) /\ Len(todo[c]) \in Nat
      /\ todo[c] # <<>> /\ n = Len(todo[c])
  BY Lengths DEF WholeInv, WholeRequests, Send
<1>2. /\ c \in DOMAIN call /\ call' = call /\ DOMAIN call \subseteq Conns
      /\ UNCHANGED <<buf, cache>>
  BY <1>1 DEF Send, Arriving, WholeInv, ControlTypeOK, dataVars
<1>3. todo[c] = Bytes(call[c]) /\ rcv[c] = <<>>
  BY <1>1, <1>2 DEF InOnePiece, WholeInv
<1>4. todo'[c] = <<>> /\ \A d \in Conns : d # c => todo'[d] = todo[d]
  <2>1. SubSeq(todo[c], n + 1, Len(todo[c])) = <<>>
    BY <1>1, SubSeqEmpty
  <2> QED
    BY <2>1 DEF Send, WholeInv, ControlTypeOK
<1>5. /\ rcv'[c] \in {<<>>, Bytes(call[c])}
      /\ \A d \in Conns : d # c => rcv'[d] = rcv[d]
  <2>1. rcv[c] \o SubSeq(todo[c], 1, n) = todo[c]
    BY <1>1, <1>3
  <2> QED
    BY <1>3, <2>1 DEF Send, WholeInv, ControlTypeOK
<1>6. Waiting' \subseteq Waiting
  BY <1>1, <1>2, <1>4, <1>5 DEF Waiting
<1>7. InOnePiece'
  <2> SUFFICES ASSUME NEW d \in DOMAIN call
               PROVE  \/ todo'[d] = Bytes(call[d]) /\ rcv'[d] = <<>>
                      \/ todo'[d] = <<>> /\ rcv'[d] \in {<<>>, Bytes(call[d])}
    BY <1>2 DEF InOnePiece
  <2>1. CASE d = c
    BY <1>4, <1>5, <2>1
  <2>2. CASE d # c
    BY <1>2, <1>4, <1>5, <2>2 DEF InOnePiece, WholeInv
  <2> QED
    BY <2>1, <2>2
<1>8. Settled'
  BY <1>2 DEF Settled, Execute, WholeInv
<1> QED
  BY <1>2, <1>6, <1>7, <1>8, FewerWait

(* A read takes a whole request from its connection; the array then holds  *)
(* it, whatever it held, and the loop performs it.  A read that brings     *)
(* nothing executes the array once more, and the cache stays what it is.   *)
LEMMA ReadServes ==
  ASSUME WholeRequests, WholeInv, NEW ev \in batch, HandleRead(ev)
  PROVE  [Service!Next]_(Service!vars) /\ InOnePiece' /\ Settled'
<1> DEFINE c == conn[ev.fd]
<1>1. /\ ev.fd \in Fds /\ c \in Conns /\ rcv \in [Conns -> Seq(Byte)]
      /\ DOMAIN call \subseteq Conns
      /\ \A d \in DOMAIN call : call[d] \in Calls
  BY DEF HandleRead, WholeInv, Owned, NoStaleEvent, ControlTypeOK
<1>2. /\ UNCHANGED <<call, todo>>
      /\ cache' = Execute(Decode(buf'))
  BY DEF HandleRead, clientVars, Process
<1>3. CASE ReadBytes(ev.fd, c)
  <2>1. rcv[c] # <<>> /\ buf' = Overlay(buf, rcv[c])
    BY <1>3 DEF ReadBytes
  <2>2. rcv' = [rcv EXCEPT ![c] = <<>>]
    BY <1>1, <1>3, ReadAll DEF WholeInv
  <2>3. c \in DOMAIN call
    BY <1>1, <2>1 DEF WholeInv, Arriving
  <2> DEFINE r == call[c]
             q == Decoded(r)
  <2>4. rcv[c] = Bytes(r) /\ todo[c] = <<>> /\ r \in Calls
    BY <1>1, <2>1, <2>3 DEF WholeInv, InOnePiece
  <2>5. Decode(buf') = q
    BY <2>1, <2>4, BytesRead DEF WholeInv
  <2>6. cache' = Execute(q)
    BY <1>2, <2>5
  <2>7. Execute(q) = Service!Effect(cache, Stored(r))
    BY <2>4, EffectOfCall DEF WholeInv, Settled
  <2>8. rcv'[c] = <<>> /\ \A d \in Conns : d # c => rcv'[d] = rcv[d]
    BY <1>1, <2>2
  <2>9. c \in Waiting /\ Waiting' = Waiting \ {c}
    BY <1>1, <1>2, <2>1, <2>3, <2>4, <2>8 DEF Waiting
  <2>10. Wanted' = Wanted /\ Wanted[c] = Stored(r)
    BY <1>2, <2>3 DEF Wanted
  <2>11. q.mode \in {"i", "s", "g", "d"}
    <3>1. r.op \in {"add", "set", "get", "rm"}
      BY <2>4, CallFacts
    <3>2. q.mode = ModeOf(r)
      BY RequestFields DEF Decoded
    <3> QED
      BY <3>1, <3>2 DEF ModeOf
  <2> HIDE DEF r, q
  <2>12. PICK p \in Conns : p = c
    BY <1>1
  <2>13. Service!Next
    <3>1. Service!Perform(p)
      BY <2>6, <2>7, <2>9, <2>10, <2>12 DEF Service!Perform, Waiting, Wanted
    <3> QED
      BY <3>1 DEF Service!Next
  <2>14. InOnePiece'
    <3> SUFFICES ASSUME NEW d \in DOMAIN call
                 PROVE  \/ todo[d] = Bytes(call[d]) /\ rcv'[d] = <<>>
                        \/ todo[d] = <<>> /\ rcv'[d] \in {<<>>, Bytes(call[d])}
      BY <1>2 DEF InOnePiece
    <3>1. CASE d = c
      BY <2>4, <2>8, <3>1
    <3>2. CASE d # c
      BY <1>1, <2>8, <3>2 DEF InOnePiece, WholeInv
    <3> QED
      BY <3>1, <3>2
  <2>15. cache' = [k \in DOMAIN cache' |-> cache'[k]]
    BY <2>6 DEF Execute, Put, Remove, WholeInv, Settled
  <2>16. Settled'
    <3>1. Execute(Decode(buf))' = cache'
      BY <1>2, ExecuteTwice
    <3>2. Decode(buf').mode \notin Stops
      BY <2>5, <2>11 DEF Stops
    <3> QED
      BY <2>15, <3>1, <3>2 DEF Settled
  <2> QED
    BY <2>13, <2>14, <2>16
<1>4. CASE ReadNothing(c) \/ ReadReset(c) \/ ReadEof(ev.fd, c)
  <2>1. buf' = buf /\ \A d \in Conns : rcv'[d] = rcv[d] \/ rcv'[d] = <<>>
    BY <1>1, <1>4 DEF ReadNothing, ReadReset, ReadEof, Close
  <2>2. cache' = cache
    BY <1>2, <2>1 DEF WholeInv, Settled
  <2> QED
    BY <1>2, <2>1, <2>2, QuietServes
<1> QED
  BY <1>3, <1>4 DEF HandleRead

(* Every step is one of the service, and keeps what makes it one.          *)
LEMMA WholeNext ==
  ASSUME WholeRequests, WholeInv, [Next]_vars
  PROVE  [Service!Next]_(Service!vars) /\ InOnePiece' /\ Settled'
<1>1. ASSUME NEW c \in Conns, Client(c) \/ RstArrives(c)
      PROVE  [Service!Next]_(Service!vars) /\ InOnePiece' /\ Settled'
  <2>1. ASSUME NEW r \in Calls, Connect(c, r)
        PROVE  [Service!Next]_(Service!vars) /\ InOnePiece' /\ Settled'
    BY <2>1, ConnectServes
  <2>2. ASSUME NEW n \in 1..Len(todo[c]), Send(c, n)
        PROVE  [Service!Next]_(Service!vars) /\ InOnePiece' /\ Settled'
    BY <2>2, SendServes
  <2>3. CASE Receive(c) \/ CloseClient(c) \/ RstArrives(c)
    BY <2>3, QuietServes DEF Receive, CloseClient, RstArrives, clientVars, netVars, dataVars
  <2> QED
    BY <1>1, <2>1, <2>2, <2>3 DEF Client
<1>2. ASSUME NEW ev \in batch,
             HandleHup(ev) \/ HandleAccept(ev) \/ AcceptFails(ev) \/ AcceptUnwatched(ev)
      PROVE  [Service!Next]_(Service!vars) /\ InOnePiece' /\ Settled'
  BY <1>2, QuietServes
  DEF HandleHup, HandleAccept, AcceptFails, AcceptUnwatched, Close, clientVars,
      netVars, dataVars
<1>3. ASSUME NEW ev \in batch, HandleRead(ev)
      PROVE  [Service!Next]_(Service!vars) /\ InOnePiece' /\ Settled'
  BY <1>3, ReadServes
<1>4. CASE WriteAttempt
  BY <1>4, QuietServes DEF WriteAttempt, Close, clientVars, dataVars
<1>5. CASE EpollWait \/ UNCHANGED vars
  BY <1>5, QuietServes DEF EpollWait, vars, clientVars, netVars, dataVars
<1> QED
  BY <1>1, <1>2, <1>3, <1>4, <1>5 DEF Next, Server

LEMMA WholeInit ==
  ASSUME WholeRequests, Init
  PROVE  InOnePiece /\ Settled /\ Service!Init
<1>1. DOMAIN call = {} /\ DOMAIN cache = {} /\ cache = EmptyMap /\ call = EmptyMap
  BY DEF Init, EmptyMap
<1>2. InOnePiece
  BY <1>1 DEF InOnePiece
<1>3. Decode(buf).mode \notin {"i", "s", "overrun"}
  BY DEF WholeRequests, Init
<1>4. Execute(Decode(buf)) = cache
  BY <1>1, <1>3 DEF Execute
<1>5. cache = [k \in DOMAIN cache |-> cache[k]]
  BY <1>1 DEF EmptyMap
<1>6. Waiting = {} /\ Wanted = EmptyMap
  BY <1>1 DEF Waiting, Wanted, EmptyMap
<1>7. Service!Init
  BY <1>1, <1>6 DEF Service!Init, Service!EmptyMap, EmptyMap, Waiting, Wanted
<1> QED
  BY <1>2, <1>4, <1>5, <1>7 DEF Settled, Init

LEMMA WholeInvariant ==
  ASSUME WholeRequests
  PROVE  Spec => []WholeInv
<1>1. Fits
  BY DEF WholeRequests, Fits
<1>2. Spec => [](ControlTypeOK /\ Owned /\ Arriving)
  BY <1>1, ArrivingInvariant
<1>3. WellFormed => buf \in Buffer
  BY DEF WellFormed, TypeOK, DataTypeOK
<1>4. Init => InOnePiece /\ Settled
  BY WholeInit
<1>5. ControlTypeOK /\ Owned /\ Arriving /\ buf \in Buffer /\ InOnePiece /\ Settled
      /\ [Next]_vars => InOnePiece' /\ Settled'
  BY WholeNext DEF WholeInv
<1>6. ControlTypeOK /\ Owned /\ Arriving /\ buf \in Buffer /\ InOnePiece /\ Settled
      <=> WholeInv
  BY DEF WholeInv
<1> QED
  BY <1>2, <1>3, <1>4, <1>5, <1>6, StaysWellFormed, PTL DEF Spec

(* Whole requests take effect at most once each, in one step, and nothing  *)
(* else changes the cache: read_data's array may hold an old request when  *)
(* the loop decodes it, but then executing it changes nothing.             *)
THEOREM TakesEffectOnceAlways == WholeRequests => (Spec => TakesEffectOnce)
<1> SUFFICES ASSUME WholeRequests
             PROVE  Spec => TakesEffectOnce
  OBVIOUS
<1>1. Init => Service!Init
  BY WholeInit
<1>2. WholeInv /\ [Next]_vars => [Service!Next]_(Service!vars)
  BY WholeNext
<1> QED
  BY <1>1, <1>2, WholeInvariant, PTL DEF Spec, TakesEffectOnce, Service!Spec

-----------------------------------------------------------------------------
(* What ends the process. *)

(* A RST is under way or has come only to or from a client that a reply    *)
(* was written to: it answers one, or says that one was not read.          *)
RstMeansReply ==
  \A c \in Conns :
    peer[c] \in {"bounced", "aborted", "broken", "reset"} => out[c] # <<>>

LEMMA NotEmpty ==
  ASSUME NEW S, NEW s \in Seq(S)
  PROVE  /\ Len(s) \in Nat /\ (s = <<>> => Len(s) = 0)
         /\ \A x \in S : Len(Append(s, x)) = Len(s) + 1
OBVIOUS

LEMMA AppendNotEmpty ==
  ASSUME NEW S, NEW s \in Seq(S), NEW x \in S
  PROVE  Append(s, x) # <<>>
<1>1. Len(Append(s, x)) = Len(s) + 1 /\ Len(s) \in Nat
  BY NotEmpty
<1>2. Append(s, x) \in Seq(S)
  OBVIOUS
<1> QED
  BY <1>1, <1>2, NotEmpty

LEMMA RstClient ==
  ASSUME TypeOK, RstMeansReply, NEW c \in Conns, Client(c) \/ RstArrives(c)
  PROVE  RstMeansReply'
<1> SUFFICES ASSUME NEW d \in Conns,
                    peer'[d] \in {"bounced", "aborted", "broken", "reset"}
             PROVE  out'[d] # <<>>
  BY DEF RstMeansReply
<1>1. peer \in [Conns -> PeerStates] /\ out[d] \in Seq(Seq(Byte)) /\ seen[d] \in Nat
  BY DEF TypeOK, ControlTypeOK, DataTypeOK
<1>2. out' = out
  BY DEF Client, Connect, Send, Receive, CloseClient, RstArrives, netVars
<1>3. ASSUME NEW r \in Calls, Connect(c, r)
      PROVE  out[d] # <<>>
  BY <1>1, <1>3 DEF Connect, RstMeansReply
<1>4. ASSUME NEW n \in 1..Len(todo[c]), Send(c, n)
      PROVE  out[d] # <<>>
  BY <1>4 DEF Send, RstMeansReply
<1>5. CASE Receive(c)
  BY <1>5 DEF Receive, RstMeansReply, netVars
<1>6. CASE CloseClient(c)
  <2>1. CASE c = d /\ Len(out[c]) > seen[c]
    <3>1. out[d] # <<>>
      BY <1>1, <2>1, NotEmpty
    <3> QED
      BY <1>2, <3>1
  <2>2. CASE ~(c = d /\ Len(out[c]) > seen[c])
    BY <1>1, <1>6, <2>2 DEF CloseClient, RstMeansReply
  <2> QED
    BY <2>1, <2>2
<1>7. CASE RstArrives(c)
  BY <1>1, <1>7 DEF RstArrives, RstMeansReply
<1> QED
  BY <1>2, <1>3, <1>4, <1>5, <1>6, <1>7 DEF Client

LEMMA RstServer ==
  ASSUME TypeOK, RstMeansReply, Server
  PROVE  RstMeansReply'
<1>1. peer \in [Conns -> PeerStates] /\ out \in [Conns -> Seq(Seq(Byte))]
      /\ conn \in [Fds -> Conns \cup {NoConn}]
  BY DEF TypeOK, ControlTypeOK, DataTypeOK
<1>2. ASSUME NEW ev \in batch,
             HandleHup(ev) \/ HandleAccept(ev) \/ AcceptFails(ev) \/ AcceptUnwatched(ev)
      PROVE  UNCHANGED <<peer, out>>
  BY <1>2 DEF HandleHup, HandleAccept, AcceptFails, AcceptUnwatched, netVars
<1>3. CASE EpollWait
  BY <1>3 DEF EpollWait, netVars, RstMeansReply
<1>4. ASSUME NEW ev \in batch, HandleRead(ev)
      PROVE  RstMeansReply'
  <2>1. out' = out
    BY <1>4 DEF HandleRead
  <2>2. peer' = peer \/ ReadReset(conn[ev.fd])
    BY <1>4 DEF HandleRead, ReadBytes, ReadNothing, ReadEof
  <2> QED
    BY <1>1, <2>1, <2>2 DEF ReadReset, RstMeansReply
<1>5. CASE WriteAttempt
  <2> DEFINE c == conn[write.fd]
  <2> SUFFICES ASSUME NEW d \in Conns,
                      peer'[d] \in {"bounced", "aborted", "broken", "reset"}
               PROVE  out'[d] # <<>>
    BY DEF RstMeansReply
  <2>1. write.body \in Seq(Byte) /\ out[d] \in Seq(Seq(Byte))
    BY <1>1 DEF TypeOK, DataTypeOK
  <2>2. Append(out[d], write.body) # <<>>
    BY <2>1, AppendNotEmpty
  <2>3. out'[d] = out[d] \/ out'[d] = Append(out[d], write.body)
    BY <1>1, <1>5 DEF WriteAttempt
  <2>4. CASE d = c /\ c # NoConn /\ peer[c] = "shut"
    BY <1>1, <1>5, <2>2, <2>4 DEF WriteAttempt
  <2>5. CASE ~(d = c /\ c # NoConn /\ peer[c] = "shut")
    <3>1. out[d] # <<>>
      BY <1>1, <1>5, <2>5 DEF WriteAttempt, RstMeansReply
    <3> QED
      BY <2>2, <2>3, <3>1
  <2> QED
    BY <2>4, <2>5
<1> QED
  BY <1>2, <1>3, <1>4, <1>5 DEF Server, RstMeansReply

LEMMA RstInvariant == Spec => []RstMeansReply
<1>1. Init => RstMeansReply
  BY DEF Init, RstMeansReply
<1>2. ASSUME TypeOK, RstMeansReply, [Next]_vars
      PROVE  RstMeansReply'
  <2>1. CASE UNCHANGED vars
    BY <1>2, <2>1 DEF vars, netVars, RstMeansReply
  <2> QED
    BY <1>2, <2>1, RstClient, RstServer DEF Next
<1>3. WellFormed => TypeOK
  BY DEF WellFormed
<1> QED
  BY <1>1, <1>2, <1>3, StaysWellFormed, PTL DEF Spec

(* While requests arrive whole, the process ends only by executing the     *)
(* array before anything was read into it, or by SIGPIPE for one more      *)
(* reply to a connection that already has one.                             *)
THEOREM OnlyExtraRepliesEnd == WholeRequests => (Spec => EndsByExtraReply)
<1> SUFFICES ASSUME WholeRequests
             PROVE  Spec => EndsByExtraReply
  OBVIOUS
<1>1. ASSUME WholeInv, RstMeansReply, Settled', Next, alive, ~alive', buf' \notin Garbage
      PROVE  write # NoWrite /\ out[write.conn] # <<>>
  <2>1. (\E ev \in batch : HandleRead(ev)) \/ WriteAttempt
    BY <1>1
    DEF Next, Client, Server, Connect, Send, Receive, CloseClient, RstArrives,
        EpollWait, HandleHup, HandleAccept, AcceptFails, AcceptUnwatched
  <2>2. ASSUME NEW ev \in batch, HandleRead(ev)
        PROVE  FALSE
    BY <1>1, <2>2 DEF HandleRead, Process, Settled
  <2>3. CASE WriteAttempt
    <3> DEFINE c == conn[write.fd]
    <3>1. write # NoWrite /\ c # NoConn /\ peer[c] = "broken"
      BY <1>1, <2>3 DEF WriteAttempt
    <3>2. c = write.conn
      BY <1>1, <3>1 DEF WholeInv, Owned, NoStaleEvent
    <3>3. c \in Conns
      BY <1>1, <3>1 DEF WholeInv, ControlTypeOK
    <3> QED
      BY <1>1, <3>1, <3>2, <3>3 DEF RstMeansReply
  <2> QED
    BY <2>1, <2>2, <2>3
<1>2. WholeInv => Settled
  BY DEF WholeInv
<1>3. WholeInv /\ RstMeansReply /\ Settled' /\ [Next]_vars =>
        [alive =>
           \/ alive'
           \/ buf' \in Garbage
           \/ write # NoWrite /\ out[write.conn] # <<>>]_vars
  BY <1>1
<1> QED
  BY <1>2, <1>3, WholeInvariant, RstInvariant, PTL DEF Spec, EndsByExtraReply

=============================================================================
