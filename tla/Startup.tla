------------------------------ MODULE Startup ------------------------------
(***************************************************************************)
(* How the server of old_main.cpp starts: networking::bind tries the       *)
(* addresses that getaddrinfo returns, the socket is made non-blocking,    *)
(* listens and is added to an epoll instance.  Each call may fail; clients *)
(* may connect as soon as the socket listens; several processes may be     *)
(* started on one machine, and each may be killed and started again.       *)
(* EpollServer begins where this module ends.                              *)
(*                                                                         *)
(* The kernel's part: "v6" is the dual-stack wildcard address (bindv6only  *)
(* is 0, the default of Linux), so it conflicts with "v4"; neither socket  *)
(* sets SO_REUSEADDR, so connections the server closed (TIME_WAIT) keep    *)
(* its address for a while.                                                *)
(***************************************************************************)
EXTENDS Naturals, Sequences, FiniteSets

CONSTANTS
  Proc,
  MaxQueue     \* connections that wait for one accept, at most (a bound)

StartupAssumption == MaxQueue \in Nat \ {0}

Address == {"v4", "v6"}
AddressLists == {<<"v4", "v6">>, <<"v6", "v4">>, <<"v4">>}
NoAddress == "none"

VARIABLES
  pc,          \* the next call of each process
  infos,       \* the addresses it has still to try
  bound,       \* the address of server_socket
  sockets,     \* how many sockets it has open
  watched,     \* epoll_ctl has added the listener
  ready,       \* the listener is on the ready list
  handled,     \* history: an event of the listener was handled
  queue,       \* connections not accepted yet
  lingering    \* addresses kept by connections of a process that is gone

procVars == <<pc, infos, bound, sockets>>
startVars == <<procVars, watched, ready, handled, queue, lingering>>

StartInit ==
  /\ pc = [p \in Proc |-> "gone"]
  /\ infos = [p \in Proc |-> <<>>]
  /\ bound = [p \in Proc |-> NoAddress]
  /\ sockets = [p \in Proc |-> 0]
  /\ watched = [p \in Proc |-> FALSE]
  /\ ready = [p \in Proc |-> FALSE]
  /\ handled = [p \in Proc |-> FALSE]
  /\ queue = [p \in Proc |-> 0]
  /\ lingering = {}

Listens(p) == pc[p] \in {"create", "add", "wait"}

(* Any holder of the port keeps both addresses from being bound. *)
PortFree == lingering = {} /\ \A p \in Proc : bound[p] = NoAddress

(* The end of a process: the kernel closes its sockets and resets the      *)
(* connections that nobody accepted.                                       *)
End(p) ==
  /\ pc' = [pc EXCEPT ![p] = "gone"]
  /\ infos' = [infos EXCEPT ![p] = <<>>]
  /\ bound' = [bound EXCEPT ![p] = NoAddress]
  /\ sockets' = [sockets EXCEPT ![p] = 0]
  /\ watched' = [watched EXCEPT ![p] = FALSE]
  /\ ready' = [ready EXCEPT ![p] = FALSE]
  /\ handled' = [handled EXCEPT ![p] = FALSE]
  /\ queue' = [queue EXCEPT ![p] = 0]

-----------------------------------------------------------------------------
(* networking::bind *)

(* getaddrinfo; if it fails the process has not got anywhere. *)
Start(p) ==
  /\ pc[p] = "gone"
  /\ pc' = [pc EXCEPT ![p] = "bind"]
  /\ \E list \in AddressLists : infos' = [infos EXCEPT ![p] = list]
  /\ UNCHANGED <<bound, sockets, watched, ready, handled, queue, lingering>>

SocketFails(p) ==
  /\ pc[p] = "bind" /\ infos[p] # <<>>
  /\ infos' = [infos EXCEPT ![p] = Tail(@)]
  /\ UNCHANGED <<pc, bound, sockets, watched, ready, handled, queue, lingering>>

Bind(p) ==
  /\ pc[p] = "bind" /\ infos[p] # <<>>
  /\ PortFree
  /\ pc' = [pc EXCEPT ![p] = "nonblock"]
  /\ bound' = [bound EXCEPT ![p] = Head(infos[p])]
  /\ sockets' = [sockets EXCEPT ![p] = @ + 1]
  /\ UNCHANGED <<infos, watched, ready, handled, queue, lingering>>

(* Variant: the socket that was not bound stays open. *)
BindFailsOpen(p) ==
  /\ pc[p] = "bind" /\ infos[p] # <<>>
  /\ ~PortFree
  /\ sockets' = [sockets EXCEPT ![p] = @ + 1]
  /\ infos' = [infos EXCEPT ![p] = Tail(@)]
  /\ UNCHANGED <<pc, bound, watched, ready, handled, queue, lingering>>

BindFails(p) ==
  /\ pc[p] = "bind" /\ infos[p] # <<>>
  /\ ~PortFree
  /\ infos' = [infos EXCEPT ![p] = Tail(@)]
  /\ UNCHANGED <<pc, bound, sockets, watched, ready, handled, queue, lingering>>

(* No address is left, and run throws. *)
NotBound(p) ==
  /\ pc[p] = "bind" /\ infos[p] = <<>>
  /\ End(p)
  /\ UNCHANGED lingering

-----------------------------------------------------------------------------
(* The rest of the start-up in run *)

Step(p, from, to) ==
  /\ pc[p] = from
  /\ pc' = [pc EXCEPT ![p] = to]
  /\ UNCHANGED <<infos, bound, sockets, watched, ready, handled, queue, lingering>>

MakeNonblocking(p) == Step(p, "nonblock", "listen")
Listen(p) == Step(p, "listen", "create")
EpollCreate(p) == Step(p, "create", "add")

(* fcntl, listen or epoll_create1 fails, and run throws. *)
CallFails(p) ==
  /\ pc[p] \in {"nonblock", "listen", "create"}
  /\ End(p)
  /\ UNCHANGED lingering

(* Variant: the events leave out what a listener raises. *)
EpollAddOutOnly(p) ==
  /\ pc[p] = "add"
  /\ pc' = [pc EXCEPT ![p] = "wait"]
  /\ watched' = [watched EXCEPT ![p] = TRUE]
  /\ UNCHANGED <<infos, bound, sockets, ready, handled, queue, lingering>>

(* EPOLL_CTL_ADD polls the listener: connections made since listen are     *)
(* reported though the registration is edge-triggered.                     *)
EpollAdd(p) ==
  /\ pc[p] = "add"
  /\ pc' = [pc EXCEPT ![p] = "wait"]
  /\ watched' = [watched EXCEPT ![p] = TRUE]
  /\ ready' = [ready EXCEPT ![p] = queue[p] > 0]
  /\ UNCHANGED <<infos, bound, sockets, handled, queue, lingering>>

(* The test of epoll_fd behind that of epoll_ctl keeps the error from      *)
(* being thrown: the loop waits for events that nobody raises.             *)
EpollAddFails(p) == Step(p, "add", "wait")

(* epoll_wait reports the listener, and accept_conn takes one connection. *)
Handle(p) ==
  /\ pc[p] = "wait" /\ ready[p]
  /\ ready' = [ready EXCEPT ![p] = FALSE]
  /\ queue' = [queue EXCEPT ![p] = @ - 1]
  /\ handled' = [handled EXCEPT ![p] = TRUE]
  /\ UNCHANGED <<procVars, watched, lingering>>

-----------------------------------------------------------------------------
(* Clients, and what else happens on the machine *)

Connect(p) ==
  /\ Listens(p) /\ queue[p] < MaxQueue
  /\ queue' = [queue EXCEPT ![p] = @ + 1]
  /\ ready' = [ready EXCEPT ![p] = watched[p]]
  /\ UNCHANGED <<procVars, watched, handled, lingering>>

Kill(p) ==
  /\ pc[p] # "gone"
  /\ End(p)
  /\ \/ UNCHANGED lingering
     \/ handled[p] /\ lingering' = {bound[p]}

Expire == lingering # {} /\ lingering' = {} /\ UNCHANGED <<procVars, watched, ready, handled, queue>>

Run(p) ==
  \/ SocketFails(p)
  \/ Bind(p)
  \/ BindFails(p)
  \/ NotBound(p)
  \/ MakeNonblocking(p)
  \/ Listen(p)
  \/ EpollCreate(p)
  \/ CallFails(p)
  \/ EpollAdd(p)
  \/ EpollAddFails(p)
  \/ Handle(p)

StartNext ==
  \/ \E p \in Proc : Start(p)
  \/ \E p \in Proc : Run(p)
  \/ \E p \in Proc : Connect(p)
  \/ \E p \in Proc : Kill(p)
  \/ Expire

(* A process that was started goes on.  Nobody has to start one. *)
StartFairness == \A p \in Proc : WF_startVars(Run(p))

StartSpec == StartInit /\ [][StartNext]_startVars
StartFairSpec == StartSpec /\ StartFairness

-----------------------------------------------------------------------------

(* A process that has got behind bind has exactly one socket, which is     *)
(* bound; the sockets of addresses it could not have are closed            *)
(* (networking.hpp:57).  And it is the only one: a second server, or one   *)
(* started again too early, throws instead of waiting for clients that     *)
(* never come.                                                             *)
OneServer ==
  \A p \in Proc :
    pc[p] \notin {"gone", "bind"} =>
      /\ bound[p] # NoAddress /\ sockets[p] = 1
      /\ \A q \in Proc \ {p} : bound[q] = NoAddress
      /\ lingering = {}

(* A client that connects while the server is still starting, between      *)
(* listen and epoll_ctl, is reported to the loop, unless the process ends  *)
(* or epoll_ctl has failed without anybody noticing (old_main.cpp:73).     *)
EarlyReported ==
  \A p \in Proc :
    queue[p] > 0 ~> \/ handled[p]
                    \/ pc[p] = "gone"
                    \/ pc[p] = "wait" /\ ~watched[p]

=============================================================================
