---------------------------- MODULE TokioServer ----------------------------
(***************************************************************************)
(* rust_version/src/main.rs: a single-threaded tokio server.  Each         *)
(* connection is a task that polls Messages for one message, answers it    *)
(* and is dropped, which closes the connection.                            *)
(***************************************************************************)
EXTENDS FsesNet

VARIABLES
  task,        \* the Messages of each connection: state, operation, sizes, rd
  cache,       \* sv_cache
  alive        \* the process runs

serverVars == <<task, cache, alive>>

New == [state |-> 0, op |-> "none", keyLen |-> 0, valLen |-> 0, rd |-> <<>>]

ServerInit ==
  /\ task = [c \in Conns |-> New]
  /\ cache = EmptyMap
  /\ alive = TRUE

(* listener.incoming().for_each(process) *)
Accept(c) ==
  /\ alive
  /\ link[c] = "backlog"
  /\ link' = [link EXCEPT ![c] = "accepted"]
  /\ UNCHANGED <<sent, arrived, reply, down, up, serverVars>>

MinOf(a, b) == IF a < b THEN a ELSE b

HasSizes(op) == IF op \in {"a", "r"} THEN 2 ELSE 1

HeaderDue(m) == m.state = 0 /\ Len(m.rd) > SizeLen

(* The second size has not all arrived.  split_to past the end of rd is    *)
(* documented to panic; versions that check the capacity instead return    *)
(* what there is.  Cargo.toml asks for any version.  An empty size panics  *)
(* in parse.                                                               *)
ShortHeader(m) == HeaderDue(m) /\ Len(m.rd) < 1 + HasSizes(m.rd[1]) * SizeLen

MustPanic(m) == ShortHeader(m) /\ Len(m.rd) = 1 + SizeLen

(* The first half of poll: the header, once there is one. *)
Header(m) ==
  IF ~HeaderDue(m) THEN m
  ELSE LET n == HasSizes(m.rd[1])
       IN  [state |-> 1,
            op |-> m.rd[1],
            keyLen |-> Parse(SubSeq(m.rd, 2, SizeLen + 1)),
            valLen |-> IF n = 1 THEN 0
                       ELSE Parse(SubSeq(m.rd, SizeLen + 2,
                                        MinOf(2 * SizeLen + 1, Len(m.rd)))),
            rd |-> SubSeq(m.rd, n * SizeLen + 2, Len(m.rd))]

(* Variant: the header, which has been split off, is counted as well. *)
CompleteWithHeader(m) ==
  m.state = 1 /\ Len(m.rd) >= 1 + 2 * SizeLen + m.keyLen + m.valLen

Complete(m) == m.state = 1 /\ Len(m.rd) >= m.keyLen + m.valLen

(* Variant: what was split off for k is still in front of v. *)
MessageKeyUnsplit(m) == SubSeq(m.rd, 1, m.valLen)

(* The message is (operation, v, k). *)
MessageKey(m) == SubSeq(m.rd, m.keyLen + 1, m.keyLen + m.valLen)
MessageVal(m) == SubSeq(m.rd, 1, m.keyLen)

(* fill_read_buf: everything that has arrived. *)
Filled(c) == [task[c] EXCEPT !.rd = @ \o arrived[c]]

Polled(c) ==
  /\ alive
  /\ link[c] = "accepted"
  /\ arrived[c] # <<>> \/ (c \in up /\ sent[c] = <<>>)
  /\ arrived' = [arrived EXCEPT ![c] = <<>>]

(* buffer, poll_flush, and the end of the task. *)
Answer(c, byte) ==
  /\ reply' = [reply EXCEPT ![c] = Append(@, byte)]
  /\ link' = [link EXCEPT ![c] = "closed"]
  /\ down' = [down EXCEPT ![c] = @ \cup {"fin"}]

(* Variant: every message is inserted. *)
EffectOfAny(m) == Put(cache, MessageKey(m), MessageVal(m))

Effect(m) ==
  IF m.op \in {"a", "r"} THEN Put(cache, MessageKey(m), MessageVal(m)) ELSE cache

Serve(c) ==
  /\ Polled(c)
  /\ ~MustPanic(Filled(c)) /\ Complete(Header(Filled(c)))
  /\ cache' = Effect(Header(Filled(c)))
  /\ Answer(c, "o")
  /\ task' = [task EXCEPT ![c] = New]
  /\ UNCHANGED <<sent, up, alive>>

(* Not enough yet: NotReady. *)
Await(c) ==
  /\ Polled(c)
  /\ ~MustPanic(Filled(c)) /\ ~Complete(Header(Filled(c)))
  /\ ~(c \in up /\ sent[c] = <<>>)
  /\ task' = [task EXCEPT ![c] = Header(Filled(c))]
  /\ UNCHANGED <<link, sent, reply, down, up, cache, alive>>

(* The end of the stream without a message: None. *)
Disconnect(c) ==
  /\ Polled(c)
  /\ ~MustPanic(Filled(c)) /\ ~Complete(Header(Filled(c)))
  /\ c \in up /\ sent[c] = <<>>
  /\ Answer(c, "e")
  /\ task' = [task EXCEPT ![c] = New]
  /\ UNCHANGED <<sent, up, cache, alive>>

(* A panic in a task ends the process: all connections are closed, by RST  *)
(* where something was not read.                                           *)
Panic(c) ==
  /\ Polled(c)
  /\ ShortHeader(Filled(c))
  /\ alive' = FALSE
  /\ link' = [d \in Conns |-> IF link[d] = "none" THEN "none" ELSE "closed"]
  /\ down' = [d \in Conns |->
                IF link[d] \in {"none", "closed"} THEN down[d]
                ELSE IF arrived'[d] # <<>> \/ link[d] = "backlog"
                THEN {"rst"} ELSE {"fin"}]
  /\ task' = [d \in Conns |-> New]
  /\ UNCHANGED <<sent, reply, up, cache>>

Server(c) == Accept(c) \/ Serve(c) \/ Await(c) \/ Disconnect(c) \/ Panic(c)

ServerTypeOK ==
  /\ \A c \in Conns : /\ task[c].state \in {0, 1}
                      /\ task[c].keyLen \in Nat /\ task[c].valLen \in Nat
                      /\ task[c].rd \in Seq(Byte)
  /\ alive \in BOOLEAN

=============================================================================
