------------------------------ MODULE MCParts ------------------------------
(***************************************************************************)
(* The parts of the repository that run on their own, each checked by      *)
(* itself: a behaviour is one of one part, and the other parts stay in     *)
(* their initial states.  They share no state, so their product would say  *)
(* nothing more.                                                           *)
(***************************************************************************)
EXTENDS WireReads, MCHashPolicy, ControlByte, TwoTables, Startup

CONSTANTS
  Client, Silent, Pieces, MaxRead, Nobody,
  p, q, a, b, d    \* the tables and the clients

VARIABLES
  part,
  state, unsent, unread, waiting, serving, step, answer

Sequence == INSTANCE SequencesExt

(* Keys and values that hold modes, digits, separators and the last byte   *)
(* of a pickle.                                                            *)
ShortKeys == Sequence!BoundedSeq({"i", "1", "|", "."}, 2) \ {<<>>}
ShortVals == Sequence!BoundedSeq({"g", "|"}, 1)

Blocking == INSTANCE BlockingServer WITH queue <- waiting

ASSUME PartsAssumption ==
  /\ WireReadsAssumption
  /\ TablesAssumption /\ PowersKnown
  /\ Blocking!BlockingAssumption /\ StartupAssumption

blockingVars == <<state, unsent, unread, waiting, serving, step, answer>>

vars ==
  <<part, wireVars, policyVars, byteVars, tableVars, blockingVars, startVars>>

Init ==
  /\ part \in {"wire", "policy", "control", "tables", "blocking", "start"}
  /\ WireInit /\ PolicyInit /\ ByteInit /\ TablesInit
  /\ Blocking!Init /\ StartInit
  /\ part # "tables" => kind = "flat" /\ propagates

WireStep ==
  /\ part = "wire" /\ WireNext
  /\ UNCHANGED <<part, policyVars, byteVars, tableVars, blockingVars, startVars>>

PolicyStep ==
  /\ part = "policy" /\ PolicyNext
  /\ UNCHANGED <<part, wireVars, byteVars, tableVars, blockingVars, startVars>>

ControlStep ==
  /\ part = "control" /\ ByteNext
  /\ UNCHANGED <<part, wireVars, policyVars, tableVars, blockingVars, startVars>>

TablesStep ==
  /\ part = "tables" /\ TablesNext
  /\ UNCHANGED <<part, wireVars, policyVars, byteVars, blockingVars, startVars>>

InBlocking(A) ==
  /\ part = "blocking" /\ A
  /\ UNCHANGED <<part, wireVars, policyVars, byteVars, tableVars, startVars>>

InStart(A) ==
  /\ part = "start" /\ A
  /\ UNCHANGED <<part, wireVars, policyVars, byteVars, tableVars, blockingVars>>

Next ==
  \/ WireStep
  \/ PolicyStep
  \/ ControlStep
  \/ TablesStep
  \/ InBlocking(Blocking!Next)
  \/ InStart(StartNext)

(* The fairness of BlockingServer and of Startup. *)
Fairness ==
  /\ WF_vars(InBlocking(Blocking!Server))
  /\ \A c \in Client :
       /\ WF_vars(InBlocking(\E n \in 1 .. Pieces : Blocking!Write(c, n)))
       /\ WF_vars(InBlocking(Blocking!ReadReply(c)))
  /\ \A i \in Proc : WF_vars(InStart(Run(i)))

Spec == Init /\ [][Next]_vars /\ Fairness

-----------------------------------------------------------------------------
(* The properties are those of the parts.  BlockingServer states this one: *)
(* a client that has connected is answered, or the server is stuck in      *)
(* read_some of a silent one (main.cpp:49).                                *)

AnsweredUnlessSilenced == Blocking!AnsweredUnlessSilenced

=============================================================================
