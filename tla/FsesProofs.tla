----------------------------- MODULE FsesProofs -----------------------------
(***************************************************************************)
(* Proofs about FsesSystem, for any number of connections and callers and  *)
(* any calls.                                                              *)
(*                                                                         *)
(* The pool, whatever the server and the network do.  The flags and the    *)
(* readers need each other: that a taken connection has no other reader    *)
(* follows from the readers' flags being set, and that giving a flag back  *)
(* takes it from nobody else follows from there being one reader.          *)
(*                                                                         *)
(* The replies, whatever is cut, lost or panics: who reads one was the     *)
(* first to write on its connection.                                       *)
(*                                                                         *)
(* The streams, for WholeRequests: what the server has read, what has      *)
(* arrived and what is under way are, one after the other, the requests of *)
(* those that wrote on the connection.  From this follow the types, that   *)
(* an acknowledged request was executed, that the server does not panic,   *)
(* and, step by step, that server and pool implement CacheService.         *)
(***************************************************************************)
EXTENDS FsesSystem, CommonLemmas, SequenceTheorems

PoolTypes ==
  /\ pc \in [Callers -> {"start", "looking", "reading", "returned", "raised"}]
  /\ on \in [Callers -> Conns \cup {NoConn}]
  /\ busy \subseteq Conns

PoolInv == PoolTypes /\ BusyMeans /\ OneCaller

(* async_init makes an empty pool without callers. *)
LEMMA PoolInit == Init => PoolInv
  BY DEF Init, ClientInit, PoolInv, PoolTypes, BusyMeans, OneCaller

(* A call that begins holds no connection. *)
LEMMA StartKeeps ==
  ASSUME PoolInv, NEW p \in Callers, StartCall(p)
  PROVE  PoolInv'
<1>1. pc[p] = "start" /\ pc' = [pc EXCEPT ![p] = "looking"] /\ UNCHANGED <<on, busy>>
  BY DEF StartCall, Start, poolVars
<1>2. \A q \in Callers : pc'[q] = IF q = p THEN "looking" ELSE pc[q]
  BY <1>1 DEF PoolInv, PoolTypes
<1> QED
  BY <1>1, <1>2 DEF PoolInv, PoolTypes, BusyMeans, OneCaller

(* Taking a connection that is not busy. *)
LEMMA TakeKeeps ==
  ASSUME PoolInv, NEW p \in Callers, NEW c \in Conns, TakeConn(p, c)
  PROVE  PoolInv'
<1> DEFINE next == IF c \in failed THEN "raised"
                   ELSE IF c \in eof THEN "returned" ELSE "reading"
<1>1. /\ pc[p] = "looking" /\ c \notin busy
      /\ pc' = [pc EXCEPT ![p] = next]
      /\ on' = [on EXCEPT ![p] = c]
      /\ busy' = IF c \in eof \ failed THEN busy ELSE busy \cup {c}
  BY DEF TakeConn, Take, FirstFree, Marked
<1>2. \A q \in Callers : /\ pc'[q] = IF q = p THEN next ELSE pc[q]
                         /\ on'[q] = IF q = p THEN c ELSE on[q]
  BY <1>1 DEF PoolInv, PoolTypes
<1>3. PoolTypes'
  BY <1>1 DEF PoolInv, PoolTypes
<1>4. next = "returned" <=> c \in eof \ failed
  OBVIOUS
<1>5. BusyMeans'
  <2>1. ASSUME NEW q \in Callers, pc'[q] = "reading"  PROVE on'[q] \in busy'
    BY <1>1, <1>2, <1>4, <2>1 DEF PoolInv, BusyMeans
  <2>2. ASSUME NEW d \in busy'
        PROVE  \E q \in Callers : on'[q] = d /\ pc'[q] \in {"reading", "raised"}
    <3>1. CASE d \in busy
      <4>1. PICK q \in Callers : on[q] = d /\ pc[q] \in {"reading", "raised"}
        BY <3>1 DEF PoolInv, BusyMeans
      <4>2. q # p
        BY <4>1, <1>1
      <4> QED
        BY <4>1, <4>2, <1>2
    <3>2. CASE d \notin busy
      <4>1. d = c /\ next \in {"reading", "raised"}
        BY <3>2, <2>2, <1>1, <1>4
      <4> QED
        BY <4>1, <1>2
    <3> QED
      BY <3>1, <3>2
  <2> QED
    BY <2>1, <2>2 DEF BusyMeans
<1>6. OneCaller'
  <2> SUFFICES ASSUME NEW q \in Callers, NEW r \in Callers,
                      pc'[q] = "reading", pc'[r] = "reading", on'[q] = on'[r]
               PROVE  q = r
    BY DEF OneCaller
  <2>1. ASSUME NEW s \in Callers, s # p, pc'[s] = "reading"  PROVE on'[s] # c
    BY <2>1, <1>1, <1>2 DEF PoolInv, BusyMeans
  <2> QED
    BY <2>1, <1>2 DEF PoolInv, OneCaller
<1> QED
  BY <1>3, <1>5, <1>6 DEF PoolInv

(* A read that returns gives the flag back, one that raises does not. *)
LEMMA FinishKeeps ==
  ASSUME PoolInv, NEW p \in Callers, FinishRead(p)
  PROVE  PoolInv'
<1>1. CASE Return(p) /\ UNCHANGED on
  <2>1. /\ pc[p] = "reading"
        /\ pc' = [pc EXCEPT ![p] = "returned"]
        /\ on' = on /\ busy' = busy \ {on[p]}
    BY <1>1 DEF Return
  <2>2. \A q \in Callers : pc'[q] = IF q = p THEN "returned" ELSE pc[q]
    BY <2>1 DEF PoolInv, PoolTypes
  <2>3. PoolTypes'
    BY <2>1 DEF PoolInv, PoolTypes
  <2>4. BusyMeans'
    BY <2>1, <2>2 DEF PoolInv, BusyMeans, OneCaller
  <2>5. OneCaller'
    BY <2>1, <2>2 DEF PoolInv, OneCaller
  <2> QED
    BY <2>3, <2>4, <2>5 DEF PoolInv
<1>2. CASE ReadRaises(p)
  <2>1. /\ pc[p] = "reading"
        /\ pc' = [pc EXCEPT ![p] = "raised"]
        /\ on' = on /\ busy' = busy
    BY <1>2 DEF ReadRaises, poolVars, callVars
  <2>2. \A q \in Callers : pc'[q] = IF q = p THEN "raised" ELSE pc[q]
    BY <2>1 DEF PoolInv, PoolTypes
  <2>3. PoolTypes' /\ OneCaller'
    BY <2>1, <2>2 DEF PoolInv, PoolTypes, OneCaller
  <2>4. BusyMeans'
    BY <2>1, <2>2 DEF PoolInv, BusyMeans
  <2> QED
    BY <2>3, <2>4 DEF PoolInv
<1> QED
  BY <1>1, <1>2 DEF FinishRead, ReadReply, ReadEof, callVars

(* Nobody else touches the flags or the callers. *)
LEMMA OthersKeep ==
  ASSUME PoolInv, UNCHANGED <<pc, on, busy>>
  PROVE  PoolInv'
  BY DEF PoolInv, PoolTypes, BusyMeans, OneCaller

(* Every step keeps the invariant. *)
LEMMA PoolStep == PoolInv /\ [Next]_vars => PoolInv'
<1> SUFFICES ASSUME PoolInv, [Next]_vars  PROVE PoolInv'
  OBVIOUS
<1>1. CASE \E p \in Callers : StartCall(p)
  BY <1>1, StartKeeps
<1>2. CASE \E p \in Callers : FinishRead(p)
  BY <1>2, FinishKeeps
<1>3. CASE \E p \in Callers, c \in Conns : TakeConn(p, c)
  BY <1>3, TakeKeeps
<1>4. CASE \E c \in Conns : OpenOne(c)
  <2>1. UNCHANGED <<pc, on, busy>>
    BY <1>4 DEF OpenOne, Open, callVars
  <2> QED
    BY <2>1, OthersKeep
<1>5. CASE \E c \in Conns : EventLoop(c)
  <2>1. UNCHANGED <<pc, on, busy>>
    BY <1>5 DEF EventLoop, NoticeEof, NoticeReset, ConnectionLost, callVars, poolVars
  <2> QED
    BY <2>1, OthersKeep
<1>6. CASE \E c \in Conns : Bytes(c) \/ ServerStep(c)
  <2>1. UNCHANGED <<pc, on, busy>>
    BY <1>6 DEF Bytes, ServerStep, ServeOne, clientVars, callVars, poolVars
  <2> QED
    BY <2>1, OthersKeep
<1>7. CASE CloseAll
  <2>1. UNCHANGED <<pc, on, busy>>
    BY <1>7 DEF CloseAll, Close, callVars, poolVars
  <2> QED
    BY <2>1, OthersKeep
<1>8. CASE UNCHANGED vars
  <2>1. UNCHANGED <<pc, on, busy>>
    BY <1>8 DEF vars, clientVars, callVars, poolVars
  <2> QED
    BY <2>1, OthersKeep
<1> QED
  BY <1>1, <1>2, <1>3, <1>4, <1>5, <1>6, <1>7, <1>8 DEF Next

LEMMA PoolInvariant == Spec => []PoolInv
<1> QED
  BY PoolInit, PoolStep, PTL DEF Spec

(* A set flag is a coroutine that reads, or one that left by an exception. *)
THEOREM FlagsMeanReaders == Spec => []BusyMeans
<1>1. PoolInv => BusyMeans
  BY DEF PoolInv
<1> QED
  BY PoolInvariant, <1>1, PTL

(* No two coroutines read from one connection. *)
THEOREM ReadersDiffer == Spec => []OneCaller
<1>1. PoolInv => OneCaller
  BY DEF PoolInv
<1> QED
  BY PoolInvariant, <1>1, PTL

-----------------------------------------------------------------------------

(***************************************************************************)
(* Whose reply it is.  The server answers a connection once and closes it; *)
(* a connection that has been written on and given back is answered and    *)
(* read, or known to the client as ended; so only its first writer can     *)
(* still be waiting for a reply that comes.                                *)
(***************************************************************************)

Spent == {c \in Conns : link[c] = "closed" /\ reply[c] = <<>>}

OverConns(f) == f = [c \in Conns |-> f[c]]

ReplyTypes ==
  /\ OverConns(link) /\ OverConns(sent) /\ OverConns(arrived)
  /\ OverConns(reply) /\ OverConns(task)
  /\ wrote \in [Conns -> Seq(Callers)]
  /\ result = [p \in Callers |-> result[p]]

AnswerCloses == \A c \in Conns : link[c] # "closed" => reply[c] = <<>>

GivenBack ==
  \A c \in Conns \ busy : wrote[c] # <<>> => c \in Spent \/ c \in eof \cup failed

Readers ==
  \A p \in Callers :
    pc[p] = "reading" =>
      wrote[on[p]] = <<>> \/ wrote[on[p]][1] = p \/ on[p] \in Spent

Untouched ==
  \A c \in Conns :
    wrote[c] = <<>> => /\ sent[c] = <<>> /\ arrived[c] = <<>> /\ task[c] = New
                       /\ reply[c] \in {<<>>, <<"e">>}

NoResultYet ==
  \A p \in Callers : pc[p] \notin {"returned", "raised"} => result[p] = <<>>

ReplyInv ==
  /\ PoolInv /\ ReplyTypes
  /\ AnswerCloses /\ GivenBack /\ Readers /\ Untouched /\ NoResultYet /\ OwnReply

LEMMA ReplyInit == Init => ReplyInv
<1> SUFFICES ASSUME Init  PROVE ReplyInv
  OBVIOUS
<1>1. PoolInv
  BY PoolInit
<1>2. <<>> \in Seq(Callers)
  OBVIOUS
<1>3. ReplyTypes
  BY <1>2 DEF Init, NetInit, ServerInit, ClientInit, ReplyTypes, OverConns
<1>4. AnswerCloses /\ GivenBack /\ Readers /\ Untouched /\ NoResultYet /\ OwnReply
  BY DEF Init, NetInit, ServerInit, ClientInit, AnswerCloses, GivenBack, Readers,
         Untouched, NoResultYet, OwnReply
<1> QED
  BY <1>1, <1>3, <1>4 DEF ReplyInv

LEMMA StartKeepsReplies ==
  ASSUME ReplyInv, PoolInv', NEW p \in Callers, StartCall(p)
  PROVE  ReplyInv'
<1>1. /\ pc[p] = "start" /\ pc' = [pc EXCEPT ![p] = "looking"]
      /\ UNCHANGED <<link, sent, arrived, reply, task, wrote, result, on, busy, eof, failed>>
  BY DEF StartCall, Start, netVars, serverVars, history, poolVars, streamVars
<1>2. \A q \in Callers : pc'[q] = IF q = p THEN "looking" ELSE pc[q]
  BY <1>1 DEF ReplyInv, PoolInv, PoolTypes
<1>3. ReplyTypes'
  BY <1>1 DEF ReplyInv, ReplyTypes, OverConns
<1>4. AnswerCloses' /\ Untouched' /\ OwnReply'
  BY <1>1 DEF ReplyInv, AnswerCloses, Untouched, OwnReply
<1>5. Spent' = Spent
  BY <1>1 DEF Spent
<1>6. GivenBack'
  BY <1>1, <1>5 DEF ReplyInv, GivenBack
<1>7. Readers' /\ NoResultYet'
  BY <1>1, <1>2, <1>5 DEF ReplyInv, Readers, NoResultYet
<1> QED
  BY <1>3, <1>4, <1>6, <1>7 DEF ReplyInv

LEMMA TakeKeepsReplies ==
  ASSUME ReplyInv, PoolInv', NEW p \in Callers, NEW c \in Conns, TakeConn(p, c)
  PROVE  ReplyInv'
<1> DEFINE next == IF c \in failed THEN "raised"
                   ELSE IF c \in eof THEN "returned" ELSE "reading"
<1>1. /\ pc[p] = "looking" /\ c \notin busy
      /\ pc' = [pc EXCEPT ![p] = next]
      /\ on' = [on EXCEPT ![p] = c]
      /\ busy' = IF c \in eof \ failed THEN busy ELSE busy \cup {c}
      /\ UNCHANGED <<link, arrived, reply, task, result, eof, failed>>
  BY DEF TakeConn, Take, FirstFree, Marked, serverVars
<1>2. \A q \in Callers : /\ pc'[q] = IF q = p THEN next ELSE pc[q]
                         /\ on'[q] = IF q = p THEN c ELSE on[q]
  BY <1>1 DEF ReplyInv, PoolInv, PoolTypes
<1>3. wrote' = IF sent'[c] = sent[c] THEN wrote ELSE [wrote EXCEPT ![c] = Append(@, p)]
  BY DEF TakeConn
<1>4. \/ sent' = sent
      \/ sent' = [sent EXCEPT ![c] = @ \o Request(call[p])]
  BY DEF TakeConn, Take, Write
<1>5. \A d \in Conns : d # c => sent'[d] = sent[d] /\ wrote'[d] = wrote[d]
  BY <1>3, <1>4 DEF ReplyInv, ReplyTypes, OverConns
<1>6. \/ wrote'[c] = wrote[c] /\ sent'[c] = sent[c]
      \/ wrote'[c] = Append(wrote[c], p)
  BY <1>3 DEF ReplyInv, ReplyTypes
<1>7. wrote[c] \in Seq(Callers)
  BY DEF ReplyInv, ReplyTypes
<1>8. /\ wrote[c] # <<>> => wrote'[c] # <<>> /\ wrote'[c][1] = wrote[c][1]
      /\ wrote[c] = <<>> => \/ wrote'[c] = <<>> /\ sent'[c] = sent[c]
                            \/ wrote'[c] # <<>> /\ wrote'[c][1] = p
  BY <1>6, <1>7
<1>9. ReplyTypes'
  <2>1. wrote' \in [Conns -> Seq(Callers)]
    BY <1>3 DEF ReplyInv, ReplyTypes
  <2>2. OverConns(sent)'
    BY <1>4 DEF ReplyInv, ReplyTypes, OverConns
  <2> QED
    BY <2>1, <2>2, <1>1 DEF ReplyInv, ReplyTypes, OverConns
<1>10. AnswerCloses'
  BY <1>1 DEF ReplyInv, AnswerCloses
<1>11. GivenBack'
  BY <1>1, <1>5 DEF ReplyInv, GivenBack, Spent
<1>12. Readers'
  <2> SUFFICES ASSUME NEW q \in Callers, pc'[q] = "reading"
               PROVE  wrote'[on'[q]] = <<>> \/ wrote'[on'[q]][1] = q \/ on'[q] \in Spent'
    BY DEF Readers
  <2>1. CASE q = p
    <3>1. on'[q] = c /\ c \notin eof \cup failed
      BY <2>1, <1>2
    <3>2. wrote[c] # <<>> => c \in Spent'
      BY <3>1, <1>1 DEF ReplyInv, GivenBack, Spent
    <3> QED
      BY <2>1, <3>1, <3>2, <1>8
  <2>2. CASE q # p
    <3>1. pc[q] = "reading" /\ on'[q] = on[q] /\ on[q] \in busy
      BY <2>2, <1>2 DEF ReplyInv, PoolInv, BusyMeans
    <3>2. on[q] # c /\ on[q] \in Conns
      BY <3>1, <1>1 DEF ReplyInv, PoolInv, PoolTypes
    <3> QED
      BY <3>1, <3>2, <1>1, <1>5 DEF ReplyInv, Readers, Spent
  <2> QED
    BY <2>1, <2>2
<1>13. Untouched'
  <2> SUFFICES ASSUME NEW d \in Conns, wrote'[d] = <<>>
               PROVE  /\ sent'[d] = <<>> /\ arrived'[d] = <<>> /\ task'[d] = New
                      /\ reply'[d] \in {<<>>, <<"e">>}
    BY DEF Untouched
  <2>1. wrote[d] = <<>> /\ sent'[d] = sent[d]
    BY <1>5, <1>8
  <2> QED
    BY <2>1, <1>1 DEF ReplyInv, Untouched
<1>14. NoResultYet'
  BY <1>1, <1>2 DEF ReplyInv, NoResultYet
<1>15. OwnReply'
  <2> SUFFICES ASSUME NEW q \in Callers, result'[q] = <<"o">>
               PROVE  wrote'[on'[q]] # <<>> /\ wrote'[on'[q]][1] = q
    BY DEF OwnReply
  <2>1. result[q] # <<>>
    BY <1>1
  <2>2. q # p
    BY <2>1, <1>1 DEF ReplyInv, NoResultYet
  <2>3. on'[q] = on[q] /\ wrote[on[q]] # <<>> /\ wrote[on[q]][1] = q
    BY <2>2, <1>1, <1>2 DEF ReplyInv, OwnReply
  <2>4. CASE on[q] = c
    BY <2>3, <2>4, <1>8
  <2>5. CASE on[q] # c
    BY <2>3, <2>5, <1>3 DEF ReplyInv, ReplyTypes
  <2> QED
    BY <2>4, <2>5
<1> QED
  BY <1>9, <1>10, <1>11, <1>12, <1>13, <1>14, <1>15 DEF ReplyInv

LEMMA FinishKeepsReplies ==
  ASSUME ReplyInv, PoolInv', NEW p \in Callers, FinishRead(p)
  PROVE  ReplyInv'
<1>1. /\ pc[p] = "reading" /\ on[p] \in busy
      /\ pc' = [pc EXCEPT ![p] = IF ReadRaises(p) THEN "raised" ELSE "returned"]
      /\ busy' = IF ReadRaises(p) THEN busy ELSE busy \ {on[p]}
      /\ UNCHANGED <<link, sent, arrived, task, wrote, on, eof, failed>>
  <2>1. CASE ReadRaises(p)
    BY <2>1 DEF FinishRead, ReadRaises, netVars, serverVars, history, poolVars,
                streamVars, callVars, ReplyInv, PoolInv, BusyMeans
  <2>2. CASE ~ReadRaises(p)
    BY <2>2 DEF FinishRead, ReadReply, ReadEof, Return, netVars, serverVars, history,
                streamVars, callVars, ReplyInv, PoolInv, BusyMeans
  <2> QED
    BY <2>1, <2>2
<1>2. \A q \in Callers : q # p => pc'[q] = pc[q]
  BY <1>1 DEF ReplyInv, PoolInv, PoolTypes
<1>3. pc'[p] \in {"returned", "raised"}
  BY <1>1 DEF ReplyInv, PoolInv, PoolTypes
<1>4. CASE ReadReply(p)
  <2> DEFINE c == on[p]
  <2>1. /\ reply[c] # <<>>
        /\ result' = [result EXCEPT ![p] = reply[c]]
        /\ reply' = [reply EXCEPT ![c] = <<>>]
    BY <1>4 DEF ReadReply
  <2>2. busy \ {c} \subseteq busy'
    BY <1>1
  <2> HIDE DEF c
  <2>3. \A d \in Conns : reply'[d] = IF d = c THEN <<>> ELSE reply[d]
    BY <2>1 DEF ReplyInv, ReplyTypes, OverConns
  <2>4. \A q \in Callers : result'[q] = IF q = p THEN reply[c] ELSE result[q]
    BY <2>1 DEF ReplyInv, ReplyTypes
  <2>5. c \in Conns /\ on[p] = c
    BY <1>1 DEF c, ReplyInv, PoolInv, PoolTypes
  <2>6. link[c] = "closed" /\ c \in Spent'
    BY <2>1, <2>3, <2>5, <1>1 DEF ReplyInv, AnswerCloses, Spent
  <2>7. ReplyTypes'
    BY <2>1, <1>1 DEF ReplyInv, ReplyTypes, OverConns
  <2>8. AnswerCloses' /\ Untouched'
    BY <2>3, <1>1 DEF ReplyInv, AnswerCloses, Untouched
  <2>9. GivenBack'
    BY <2>2, <2>3, <2>6, <1>1 DEF ReplyInv, GivenBack, Spent
  <2>10. Readers'
    <3> SUFFICES ASSUME NEW q \in Callers, pc'[q] = "reading"
                 PROVE  wrote'[on'[q]] = <<>> \/ wrote'[on'[q]][1] = q \/ on'[q] \in Spent'
      BY DEF Readers
    <3>1. q # p /\ pc[q] = "reading"
      BY <1>2, <1>3
    <3>2. on[q] # c /\ on[q] \in Conns
      BY <3>1, <2>5, <1>1 DEF ReplyInv, PoolInv, PoolTypes, OneCaller, BusyMeans
    <3> QED
      BY <3>1, <3>2, <2>3, <1>1 DEF ReplyInv, Readers, Spent
  <2>11. NoResultYet'
    BY <2>4, <1>2, <1>3 DEF ReplyInv, NoResultYet
  <2>12. OwnReply'
    <3> SUFFICES ASSUME NEW q \in Callers, result'[q] = <<"o">>
                 PROVE  wrote[on[q]] # <<>> /\ wrote[on[q]][1] = q
      BY <1>1 DEF OwnReply
    <3>1. CASE q # p
      BY <3>1, <2>4 DEF ReplyInv, OwnReply
    <3>2. CASE q = p
      <4>1. reply[c] = <<"o">>
        BY <3>2, <2>4
      <4>2. reply[c] \notin {<<>>, <<"e">>}
        BY <4>1
      <4>3. wrote[c] # <<>> /\ c \notin Spent
        BY <4>2, <2>5 DEF ReplyInv, Untouched, Spent
      <4> QED
        BY <4>3, <3>2, <2>5, <1>1 DEF ReplyInv, Readers
    <3> QED
      BY <3>1, <3>2
  <2> QED
    BY <2>7, <2>8, <2>9, <2>10, <2>11, <2>12 DEF ReplyInv
<1>5. CASE ReadEof(p) \/ ReadRaises(p)
  <2>1. UNCHANGED <<reply, result>>
    BY <1>5 DEF ReadEof, ReadRaises, netVars, callVars
  <2>2. \A d \in Conns \ busy' : d \in Conns \ busy \/ d \in eof
    BY <1>1, <1>5 DEF ReadEof
  <2>3. ReplyTypes' /\ AnswerCloses' /\ Untouched' /\ OwnReply'
    BY <2>1, <1>1 DEF ReplyInv, ReplyTypes, OverConns, AnswerCloses, Untouched, OwnReply
  <2>4. GivenBack'
    BY <2>1, <2>2, <1>1 DEF ReplyInv, GivenBack, Spent
  <2>5. Readers' /\ NoResultYet'
    BY <2>1, <1>1, <1>2, <1>3 DEF ReplyInv, Readers, NoResultYet, Spent
  <2> QED
    BY <2>3, <2>4, <2>5 DEF ReplyInv
<1> QED
  BY <1>4, <1>5 DEF FinishRead

(* What the steps of the other actors may do to a connection. *)
LEMMA ConnectionsKeep ==
  ASSUME ReplyInv, PoolInv', ReplyTypes', AnswerCloses', Untouched',
         UNCHANGED <<pc, on, busy, wrote, result>>,
         eof \subseteq eof', failed \subseteq failed',
         Spent \subseteq Spent'
  PROVE  ReplyInv'
<1>1. GivenBack'
  BY DEF ReplyInv, GivenBack
<1>2. Readers'
  BY DEF ReplyInv, Readers, PoolInv, PoolTypes, BusyMeans
<1>3. NoResultYet' /\ OwnReply'
  BY DEF ReplyInv, NoResultYet, OwnReply
<1> QED
  BY <1>1, <1>2, <1>3 DEF ReplyInv

(* Opening, closing, arriving bytes and the event loop. *)
LEMMA NetworkKeepsReplies ==
  ASSUME ReplyInv, PoolInv', NEW c \in Conns,
         OpenOne(c) \/ EventLoop(c) \/ Bytes(c) \/ CloseAll
  PROVE  ReplyInv'
<1>1. UNCHANGED <<pc, on, busy, wrote, result, task, reply>>
  BY DEF OpenOne, Open, EventLoop, NoticeEof, NoticeReset, ConnectionLost, Bytes, Arrive,
         CloseAll, Close, netVars, serverVars, clientVars, callVars, poolVars, history
<1>2. eof \subseteq eof' /\ failed \subseteq failed'
  BY DEF OpenOne, Open, EventLoop, NoticeEof, NoticeReset, ConnectionLost, Bytes,
         CloseAll, Close, clientVars, streamVars
<1>3. link' = link \/ (link[c] = "none" /\ link' = [link EXCEPT ![c] = "backlog"])
  BY DEF OpenOne, Open, EventLoop, NoticeEof, NoticeReset, ConnectionLost, Bytes, Arrive,
         CloseAll, Close, netVars
<1>4. \/ UNCHANGED <<sent, arrived>>
      \/ /\ sent[c] # <<>>
         /\ \E x : sent' = [sent EXCEPT ![c] = x]
         /\ arrived' = arrived \/ \E x : arrived' = [arrived EXCEPT ![c] = x]
  BY DEF OpenOne, Open, EventLoop, NoticeEof, NoticeReset, ConnectionLost, Bytes, Arrive,
         CloseAll, Close, netVars
<1>5. OverConns(sent)' /\ OverConns(arrived)'
  BY <1>4 DEF ReplyInv, ReplyTypes, OverConns
<1>6. OverConns(link)'
  BY <1>3 DEF ReplyInv, ReplyTypes, OverConns
<1>7. ReplyTypes'
  BY <1>1, <1>5, <1>6 DEF ReplyInv, ReplyTypes, OverConns
<1>8. \A d \in Conns : link'[d] = "closed" <=> link[d] = "closed"
  BY <1>3 DEF ReplyInv, ReplyTypes, OverConns
<1>9. AnswerCloses' /\ Spent \subseteq Spent'
  BY <1>1, <1>8 DEF ReplyInv, AnswerCloses, Spent
<1>10. \A d \in Conns : d # c \/ sent[c] = <<>> => sent'[d] = sent[d] /\ arrived'[d] = arrived[d]
  BY <1>4 DEF ReplyInv, ReplyTypes, OverConns
<1>11. Untouched'
  BY <1>1, <1>10 DEF ReplyInv, Untouched
<1> QED
  BY <1>1, <1>2, <1>7, <1>9, <1>11, ConnectionsKeep

(* A connection nobody has written on gives the server no message. *)
LEMMA NoMessage ==
  ASSUME ReplyInv, NEW c \in Conns, wrote[c] = <<>>
  PROVE  Filled(c) = New /\ ~HeaderDue(New) /\ ~Complete(Header(New)) /\ Header(New) = New
<1>1. task[c] = New /\ arrived[c] = <<>>
  BY DEF ReplyInv, Untouched
<1>2. New.rd \o <<>> = <<>> /\ New.state = 0 /\ Len(New.rd) = 0
  BY DEF New
<1>3. Filled(c) = New
  BY <1>1, <1>2 DEF Filled, New
<1>4. ~HeaderDue(New)
  BY <1>2, NetAssumption DEF HeaderDue
<1>5. Header(New) = New
  BY <1>4 DEF Header
<1> QED
  BY <1>2, <1>3, <1>4, <1>5 DEF Complete

(* The server answers each connection once, and closes it with the answer. *)
LEMMA ServerKeepsReplies ==
  ASSUME ReplyInv, PoolInv', NEW c \in Conns, ServerStep(c)
  PROVE  ReplyInv'
<1>1. UNCHANGED <<pc, on, busy, wrote, result, eof, failed>>
  BY DEF ServerStep, ServeOne, clientVars, callVars, poolVars, streamVars, history
<1>2. CASE Accept(c)
  <2>1. /\ link[c] = "backlog" /\ link' = [link EXCEPT ![c] = "accepted"]
        /\ UNCHANGED <<sent, arrived, reply, task>>
    BY <1>2 DEF Accept, serverVars
  <2>2. ReplyTypes'
    BY <1>1, <2>1 DEF ReplyInv, ReplyTypes, OverConns
  <2>3. \A d \in Conns : link'[d] = "closed" <=> link[d] = "closed"
    BY <2>1 DEF ReplyInv, ReplyTypes, OverConns
  <2>4. AnswerCloses' /\ Untouched' /\ Spent \subseteq Spent'
    BY <1>1, <2>1, <2>3 DEF ReplyInv, AnswerCloses, Untouched, Spent
  <2> QED
    BY <1>1, <2>2, <2>4, ConnectionsKeep
<1>3. CASE Serve(c) \/ Disconnect(c)
  <2>1. PICK b \in {"o", "e"} :
          /\ b = "o" => Complete(Header(Filled(c)))
          /\ Answer(c, b)
    BY <1>3 DEF Serve, Disconnect
  <2>2. /\ link[c] = "accepted" /\ arrived' = [arrived EXCEPT ![c] = <<>>]
        /\ task' = [task EXCEPT ![c] = New]
        /\ UNCHANGED sent
    BY <1>3 DEF Serve, Disconnect, Polled
  <2>3. /\ reply' = [reply EXCEPT ![c] = Append(@, b)]
        /\ link' = [link EXCEPT ![c] = "closed"]
    BY <2>1 DEF Answer
  <2>4. ReplyTypes'
    BY <1>1, <2>2, <2>3 DEF ReplyInv, ReplyTypes, OverConns
  <2>5. \A d \in Conns :
          /\ link'[d] = IF d = c THEN "closed" ELSE link[d]
          /\ reply'[d] = IF d = c THEN Append(reply[c], b) ELSE reply[d]
          /\ arrived'[d] = IF d = c THEN <<>> ELSE arrived[d]
          /\ task'[d] = IF d = c THEN New ELSE task[d]
    BY <2>2, <2>3 DEF ReplyInv, ReplyTypes, OverConns
  <2>6. reply[c] = <<>> /\ reply'[c] = <<b>>
    <3>1. reply[c] = <<>>
      BY <2>2 DEF ReplyInv, AnswerCloses
    <3>2. Append(<<>>, b) = <<b>>
      OBVIOUS
    <3> QED
      BY <3>1, <3>2, <2>5
  <2>7. AnswerCloses' /\ Spent \subseteq Spent'
    BY <2>2, <2>5 DEF ReplyInv, AnswerCloses, Spent
  <2>8. wrote[c] = <<>> => b = "e"
    BY <2>1, NoMessage
  <2>9. Untouched'
    BY <1>1, <2>2, <2>5, <2>6, <2>8 DEF ReplyInv, Untouched
  <2> QED
    BY <1>1, <2>4, <2>7, <2>9, ConnectionsKeep
<1>4. CASE Await(c)
  <2>1. /\ arrived' = [arrived EXCEPT ![c] = <<>>]
        /\ task' = [task EXCEPT ![c] = Header(Filled(c))]
        /\ UNCHANGED <<link, sent, reply>>
    BY <1>4 DEF Await, Polled
  <2>2. ReplyTypes'
    BY <1>1, <2>1 DEF ReplyInv, ReplyTypes, OverConns
  <2>3. \A d \in Conns :
          /\ arrived'[d] = IF d = c THEN <<>> ELSE arrived[d]
          /\ task'[d] = IF d = c THEN Header(Filled(c)) ELSE task[d]
    BY <2>1 DEF ReplyInv, ReplyTypes, OverConns
  <2>4. wrote[c] = <<>> => Header(Filled(c)) = New
    BY NoMessage
  <2>5. AnswerCloses' /\ Untouched' /\ Spent \subseteq Spent'
    BY <1>1, <2>1, <2>3, <2>4 DEF ReplyInv, AnswerCloses, Untouched, Spent
  <2> QED
    BY <1>1, <2>2, <2>5, ConnectionsKeep
<1>5. CASE Panic(c)
  <2>1. /\ link' = [d \in Conns |-> IF link[d] = "none" THEN "none" ELSE "closed"]
        /\ arrived' = [arrived EXCEPT ![c] = <<>>]
        /\ task' = [d \in Conns |-> New]
        /\ UNCHANGED <<sent, reply>>
    BY <1>5 DEF Panic, Polled
  <2>2. ReplyTypes'
    BY <1>1, <2>1 DEF ReplyInv, ReplyTypes, OverConns
  <2>3. \A d \in Conns : arrived'[d] = IF d = c THEN <<>> ELSE arrived[d]
    BY <2>1 DEF ReplyInv, ReplyTypes, OverConns
  <2>4. AnswerCloses' /\ Untouched' /\ Spent \subseteq Spent'
    BY <1>1, <2>1, <2>3 DEF ReplyInv, AnswerCloses, Untouched, Spent
  <2> QED
    BY <1>1, <2>2, <2>4, ConnectionsKeep
<1> QED
  BY <1>2, <1>3, <1>4, <1>5 DEF ServerStep, ServeOne

LEMMA ReplyStep == ReplyInv /\ [Next]_vars => ReplyInv'
<1> SUFFICES ASSUME ReplyInv, [Next]_vars  PROVE ReplyInv'
  OBVIOUS
<1>1. PoolInv'
  BY PoolStep DEF ReplyInv
<1>2. CASE \E p \in Callers : StartCall(p) \/ FinishRead(p)
  BY <1>1, <1>2, StartKeepsReplies, FinishKeepsReplies
<1>3. CASE \E p \in Callers, c \in Conns : TakeConn(p, c)
  BY <1>1, <1>3, TakeKeepsReplies
<1>4. CASE \E c \in Conns : OpenOne(c) \/ EventLoop(c) \/ Bytes(c)
  BY <1>1, <1>4, NetworkKeepsReplies
<1>5. CASE \E c \in Conns : ServerStep(c)
  BY <1>1, <1>5, ServerKeepsReplies
<1>6. CASE CloseAll \/ UNCHANGED vars
  <2>1. /\ UNCHANGED <<pc, on, busy, wrote, result, task, reply, link, sent, arrived>>
        /\ eof \subseteq eof' /\ failed \subseteq failed'
    BY <1>6 DEF CloseAll, Close, vars, netVars, serverVars, clientVars, callVars,
                poolVars, streamVars, history
  <2>2. ReplyTypes' /\ AnswerCloses' /\ Untouched' /\ Spent \subseteq Spent'
    BY <2>1 DEF ReplyInv, ReplyTypes, OverConns, AnswerCloses, Untouched, Spent
  <2> QED
    BY <1>1, <2>1, <2>2, ConnectionsKeep
<1> QED
  BY <1>2, <1>3, <1>4, <1>5, <1>6 DEF Next

(* An "o" is the reply to the request of the coroutine that reads it. *)
THEOREM RepliesAreOwn == Spec => []OwnReply
<1>1. ReplyInv => OwnReply
  BY DEF ReplyInv
<1> QED
  BY ReplyInit, ReplyStep, <1>1, PTL DEF Spec


-----------------------------------------------------------------------------
(***************************************************************************)
(* What the server makes of the bytes.  A string of characters of one byte *)
(* is encoded in as many bytes, and a size that fits its field is read as  *)
(* it was written.  Both are recursions over sequences: the function they  *)
(* compute is given and shown to be the only one.                          *)
(***************************************************************************)

LEMMA EncodeBytes ==
  ASSUME NEW s \in Seq(DOMAIN Utf8), OneByte(s)
  PROVE  Encode(s) \in Seq(Byte) /\ Len(Encode(s)) = Len(s)
<1> DEFINE n == Len(s)
           pieces == [i \in DOMAIN s |-> Utf8[s[i]]]
           upto(i) == [j \in 1 .. i |-> Utf8[s[j]][1]]
           Rec(g) == g = [i \in 1 .. n |-> IF i = 1 THEN pieces[i] ELSE g[i - 1] \o pieces[i]]
           flat == CHOOSE g : Rec(g)
<1>1. n \in Nat /\ DOMAIN s = 1 .. n
  OBVIOUS
<1>2. \A j \in 1 .. n : Utf8[s[j]][1] \in Byte /\ Utf8[s[j]] = <<Utf8[s[j]][1]>>
  <2> TAKE j \in 1 .. n
  <2>1. PICK b \in Byte : Utf8[s[j]] = <<b>>
    BY <1>1 DEF OneByte
  <2>2. <<b>>[1] = b
    OBVIOUS
  <2> QED
    BY <2>1, <2>2
<1>3. pieces \in Seq(Seq(Byte)) /\ Len(pieces) = n /\ DOMAIN pieces = 1 .. n
      /\ \A i \in 1 .. n : pieces[i] = <<Utf8[s[i]][1]>>
  <2>0. \A b \in Byte : <<b>> \in Seq(Byte)
    OBVIOUS
  <2>1. \A i \in 1 .. n : pieces[i] \in Seq(Byte) /\ pieces[i] = <<Utf8[s[i]][1]>>
    <3> HIDE DEF n
    <3> TAKE i \in 1 .. n
    <3>1. pieces[i] = Utf8[s[i]]
      BY <1>1
    <3> QED
      BY <1>2, <2>0, <3>1, Zenon
  <2>2. pieces \in [1 .. n -> Seq(Byte)]
    BY <1>1, <2>1
  <2> QED
    BY <1>1, <2>1, <2>2
<1> HIDE DEF pieces, n
<1>4. \A i \in 0 .. n : upto(i) \in Seq(Byte) /\ Len(upto(i)) = i
  <2> TAKE i \in 0 .. n
  <2>1. i \in Nat /\ \A j \in 1 .. i : Utf8[s[j]][1] \in Byte
    BY <1>1, <1>2
  <2>2. upto(i) \in [1 .. i -> Byte]
    BY <2>1
  <2> QED
    BY <2>1, <2>2
<1>5. CASE n = 0
  <2>1. Encode(s) = pieces /\ pieces = <<>>
    BY <1>3, <1>5 DEF Encode, Seqs!FlattenSeq, pieces
  <2> QED
    BY <1>5, <2>1 DEF n
<1>6. CASE n # 0
  <2>1. Encode(s) = flat[n]
    BY <1>3, <1>6 DEF Encode, Seqs!FlattenSeq, pieces
  <2>2. \A i \in 1 .. n : upto(i) = IF i = 1 THEN pieces[i] ELSE upto(i - 1) \o pieces[i]
    <3> TAKE i \in 1 .. n
    <3>1. i - 1 \in 0 .. n /\ i \in Nat
      BY <1>1
    <3>2. upto(i - 1) \o pieces[i] \in Seq(Byte) /\ Len(upto(i - 1) \o pieces[i]) = i
          /\ \A j \in 1 .. i : (upto(i - 1) \o pieces[i])[j] = Utf8[s[j]][1]
      <4> DEFINE u == upto(i - 1)
                 w == pieces[i]
      <4>1. u \in Seq(Byte) /\ Len(u) = i - 1 /\ \A j \in 1 .. i - 1 : u[j] = Utf8[s[j]][1]
        BY <1>4, <3>1
      <4>2. w \in Seq(Byte) /\ Len(w) = 1 /\ w[1] = Utf8[s[i]][1]
        <5> DEFINE x == Utf8[s[i]][1]
        <5>1. x \in Byte /\ w = <<x>>
          BY <1>2, <1>3
        <5> HIDE DEF x, w
        <5>2. w \in Seq(Byte) /\ Len(w) = 1 /\ w[1] = x
          BY <5>1
        <5> QED
          BY <5>2 DEF x
      <4> HIDE DEF u, w
      <4>3. u \o w \in Seq(Byte) /\ Len(u \o w) = i
            /\ \A j \in 1 .. i : (u \o w)[j] = IF j <= i - 1 THEN u[j] ELSE w[j - (i - 1)]
        <5>1. (i - 1) + 1 = i
          BY <3>1
        <5>2. u \o w \in Seq(Byte) /\ Len(u \o w) = Len(u) + Len(w)
              /\ \A j \in 1 .. Len(u) + Len(w) :
                   (u \o w)[j] = IF j <= Len(u) THEN u[j] ELSE w[j - Len(u)]
          BY <4>1, <4>2, ConcatProperties
        <5>3. Len(u) + Len(w) = i
          BY <4>1, <4>2, <5>1
        <5> QED
          BY <4>1, <5>2, <5>3
      <4> QED
        BY <3>1, <4>1, <4>2, <4>3 DEF u, w
    <3>3. i # 1 => upto(i) = upto(i - 1) \o pieces[i]
      <4>1. upto(i) \in Seq(Byte) /\ Len(upto(i)) = i /\ \A j \in 1 .. i : upto(i)[j] = Utf8[s[j]][1]
        BY <1>4, <3>1
      <4> DEFINE v == upto(i)
                 t == upto(i - 1) \o pieces[i]
      <4>2. /\ v \in Seq(Byte) /\ t \in Seq(Byte) /\ Len(v) = i /\ Len(t) = i
            /\ \A j \in 1 .. i : v[j] = t[j]
        BY <3>2, <4>1
      <4> HIDE DEF v, t
      <4>3. v = t
        BY <4>2, SeqEqual
      <4> QED
        BY <4>3 DEF v, t
    <3>4. i = 1 => upto(i) = pieces[i]
      <4> SUFFICES ASSUME i = 1 PROVE upto(i) = pieces[i]
        OBVIOUS
      <4> DEFINE v == upto(i)
                 x == Utf8[s[1]][1]
      <4>1. v \in Seq(Byte) /\ Len(v) = 1 /\ v[1] = x
        BY <1>4, <3>1
      <4>2. pieces[i] = <<x>>
        BY <1>3
      <4>3. x \in Byte
        BY <1>2
      <4> HIDE DEF v, x
      <4>4. v = <<x>>
        BY <4>1, <4>3
      <4> QED
        BY <4>2, <4>4 DEF v
    <3> QED
      BY <3>3, <3>4
  <2>3. Rec([i \in 1 .. n |-> upto(i)])
    <3> HIDE DEF upto
    <3> DEFINE f == [i \in 1 .. n |-> upto(i)]
    <3>1. \A i \in 1 .. n : i # 1 => f[i - 1] = upto(i - 1)
      BY <1>1
    <3> QED
      BY <2>2, <3>1
  <2>4. Rec(flat)
    <3> HIDE DEF Rec
    <3> QED
      BY <2>3
  <2> HIDE DEF flat
  <2>5. \A i \in 1 .. n : flat[i] = IF i = 1 THEN pieces[i] ELSE flat[i - 1] \o pieces[i]
    BY <2>4, Zenon
  <2> DEFINE T == {i \in Nat : i \in 1 .. n => flat[i] = upto(i)}
  <2>6. Nat \subseteq T
    <3>1. 0 \in T
      OBVIOUS
    <3>2. ASSUME NEW i \in Nat, i \in T PROVE i + 1 \in T
      <4>1. SUFFICES ASSUME i + 1 \in 1 .. n PROVE flat[i + 1] = upto(i + 1)
        OBVIOUS
      <4>2. (i + 1) - 1 = i
        OBVIOUS
      <4> HIDE DEF upto
      <4>3. i + 1 # 1 => i \in 1 .. n /\ flat[i] = upto(i)
        BY <1>1, <3>2, <4>1
      <4> HIDE DEF T
      <4> DEFINE k == i + 1
      <4>4. k \in 1 .. n /\ k - 1 = i
        BY <4>1, <4>2
      <4> HIDE DEF k
      <4>5. flat[k] = IF k = 1 THEN pieces[k] ELSE flat[k - 1] \o pieces[k]
        BY <2>5, <4>4
      <4>6. upto(k) = IF k = 1 THEN pieces[k] ELSE upto(k - 1) \o pieces[k]
        BY <2>2, <4>4
      <4>7. k # 1 => flat[i] = upto(i)
        BY <4>3 DEF k
      <4>8. flat[k] = upto(k)
        BY <4>4, <4>5, <4>6, <4>7
      <4> QED
        BY <4>8 DEF k
    <3> HIDE DEF T
    <3> QED
      BY <3>1, <3>2, SetInduction
  <2>7. flat[n] = upto(n)
    BY <1>1, <1>6, <2>6
  <2> QED
    BY <1>1, <1>4, <2>1, <2>7 DEF n
<1> QED
  BY <1>5, <1>6


LEMMA DigitRead == \A d \in 1 .. 10 : DigitBytes[d] \in Byte /\ Digit(DigitBytes[d]) = d - 1
<1> TAKE d \in 1 .. 10
<1>1. \A e \in 1 .. 10 : DigitBytes[e] = DigitBytes[d] => e = d
  BY DEF DigitBytes
<1>2. (CHOOSE e \in 1 .. 10 : DigitBytes[e] = DigitBytes[d]) = d
  BY <1>1
<1> QED
  BY <1>2 DEF Digit, Byte

(* Dividing by a number and then by ten is dividing by ten times as much. *)
LEMMA DivideTwice ==
  ASSUME NEW n \in Nat, NEW x \in Nat \ {0}
  PROVE  n \div x \in Nat /\ (n \div x) \div 10 = n \div (10 * x)
<1> DEFINE q == n \div x
           a == q \div 10
           b == n \div (10 * x)
<1>1. q \in Nat /\ q * x <= n /\ n < (q + 1) * x
  OBVIOUS
<1>2. 10 * x \in Nat \ {0}
  OBVIOUS
<1>3. b \in Nat /\ b * (10 * x) <= n /\ n < (b + 1) * (10 * x)
  BY <1>2
<1>4. a \in Nat /\ 10 * a <= q /\ q + 1 <= 10 * (a + 1)
  BY <1>1
<1> HIDE DEF q, a, b
<1>5. (10 * a) * x <= q * x /\ (q + 1) * x <= (10 * (a + 1)) * x
  BY <1>1, <1>4
<1>6. a * (10 * x) <= n /\ n < (a + 1) * (10 * x)
  BY <1>1, <1>4, <1>5
<1> DEFINE y == 10 * x
<1>7. y \in Nat \ {0} /\ a * y <= n /\ n < (a + 1) * y /\ b * y <= n /\ n < (b + 1) * y
  BY <1>2, <1>3, <1>6
<1> HIDE DEF y
<1>8. ~(a < b)
  <2> SUFFICES ASSUME a + 1 <= b PROVE FALSE
    BY <1>3, <1>4
  <2>1. (a + 1) * y <= b * y
    BY <1>3, <1>4, <1>7
  <2> QED
    BY <1>3, <1>4, <1>7, <2>1
<1>9. ~(b < a)
  <2> SUFFICES ASSUME b + 1 <= a PROVE FALSE
    BY <1>3, <1>4
  <2>1. (b + 1) * y <= a * y
    BY <1>3, <1>4, <1>7
  <2> QED
    BY <1>3, <1>4, <1>7, <2>1
<1> QED
  BY <1>1, <1>3, <1>4, <1>8, <1>9 DEF a, b, q

(* The size of a field, digit by digit *)
LEMMA ZfillBytes ==
  ASSUME NEW n \in Nat
  PROVE  /\ Zfill(n) \in Seq(Byte) /\ Len(Zfill(n)) = SizeLen
         /\ \A i \in 1 .. SizeLen :
              /\ 10 ^ (SizeLen - i) \in Nat \ {0}
              /\ Digit(Zfill(n)[i]) = (n \div 10 ^ (SizeLen - i)) % 10
<1>1. SizeLen \in Nat
  BY NetAssumption
<1>2. ASSUME NEW i \in 1 .. SizeLen
      PROVE  /\ 10 ^ (SizeLen - i) \in Nat \ {0}
             /\ Zfill(n)[i] \in Byte
             /\ Digit(Zfill(n)[i]) = (n \div 10 ^ (SizeLen - i)) % 10
  <2> DEFINE x == 10 ^ (SizeLen - i)
             r == (n \div x) % 10
  <2>1. x \in Nat \ {0}
    <3>1. SizeLen - i \in 0 .. SizeLen - 1
      BY <1>1
    <3> QED
      BY <3>1, TensAssumption
  <2>2. Zfill(n)[i] = DigitBytes[r + 1]
    BY DEF Zfill
  <2> HIDE DEF x
  <2>3. n \div x \in Nat
    BY <2>1, DivideTwice
  <2>4. r \in 0 .. 9
    BY <2>3
  <2> HIDE DEF r
  <2>5. r + 1 \in 1 .. 10 /\ (r + 1) - 1 = r
    BY <2>4
  <2>6. DigitBytes[r + 1] \in Byte /\ Digit(DigitBytes[r + 1]) = (r + 1) - 1
    BY <2>5, DigitRead
  <2>7. Zfill(n)[i] \in Byte /\ Digit(Zfill(n)[i]) = r
    BY <2>2, <2>5, <2>6
  <2> QED
    BY <2>1, <2>7 DEF r, x
<1>3. Zfill(n) = [i \in 1 .. SizeLen |-> Zfill(n)[i]]
  BY DEF Zfill
<1>4. Zfill(n) \in [1 .. SizeLen -> Byte]
  BY <1>2, <1>3
<1>5. Zfill(n) \in Seq(Byte) /\ Len(Zfill(n)) = SizeLen
  <2> DEFINE z == Zfill(n)
  <2>1. z \in [1 .. SizeLen -> Byte]
    BY <1>4
  <2> HIDE DEF z
  <2>2. z \in Seq(Byte) /\ Len(z) = SizeLen
    BY <1>1, <2>1
  <2> QED
    BY <2>2 DEF z
<1> QED
  BY <1>2, <1>5


(* A size below the first one with too many digits is read as written. *)
LEMMA SizeRead ==
  ASSUME NEW n \in Nat, n < 10 ^ SizeLen
  PROVE  Parse(Zfill(n)) = n
<1> DEFINE field == Zfill(n)
           part(i) == n \div 10 ^ (SizeLen - i)
           Rec(g) == g = [i \in 0 .. SizeLen |->
                            IF i = 0 THEN 0 ELSE 10 * g[i - 1] + Digit(field[i])]
           value == CHOOSE g : Rec(g)
<1>1. SizeLen \in Nat /\ SizeLen # 0
  BY NetAssumption
<1>2. Len(field) = SizeLen /\ \A i \in 1 .. SizeLen : Digit(field[i]) = part(i) % 10
  BY ZfillBytes
<1>3. Parse(field) = value[SizeLen]
  BY <1>2 DEF Parse
<1> HIDE DEF field
<1>4. \A i \in 0 .. SizeLen : 10 ^ (SizeLen - i) \in Nat \ {0}
  <2> TAKE i \in 0 .. SizeLen
  <2>1. CASE i # 0
    <3>1. SizeLen - i \in 0 .. SizeLen - 1
      BY <1>1, <2>1
    <3> QED
      BY <3>1, TensAssumption
  <2>2. CASE i = 0
    <3> DEFINE l == SizeLen - 1
    <3>1. l \in 0 .. SizeLen - 1 /\ l + 1 = SizeLen /\ SizeLen - i = SizeLen
      BY <1>1, <2>2
    <3> HIDE DEF l
    <3>2. 10 ^ l \in Nat \ {0} /\ 10 ^ (l + 1) = 10 * 10 ^ l
      BY <3>1, TensAssumption
    <3> QED
      BY <3>1, <3>2
  <2> QED
    BY <2>1, <2>2
<1>5. part(0) = 0
  <2> DEFINE x == 10 ^ SizeLen
  <2>1. SizeLen - 0 = SizeLen /\ 0 \in 0 .. SizeLen
    BY <1>1
  <2>2. x \in Nat \ {0}
    BY <1>4, <2>1
  <2> HIDE DEF x
  <2>3. n < x => n \div x = 0
    BY <2>2
  <2> QED
    BY <2>1, <2>3 DEF x
<1>6. part(SizeLen) = n
  <2>1. SizeLen - SizeLen = 0 /\ 10 ^ 0 = 1 /\ n \div 1 = n
    BY <1>1, TensAssumption
  <2> QED
    BY <2>1
<1>7. ASSUME NEW i \in 1 .. SizeLen
      PROVE  i - 1 \in 0 .. SizeLen /\ part(i) = 10 * part(i - 1) + Digit(field[i])
  <2> DEFINE l == SizeLen - i
             x == 10 ^ l
             y == 10 ^ (l + 1)
  <2>1. l \in 0 .. SizeLen - 1 /\ l + 1 = SizeLen - (i - 1) /\ i - 1 \in 0 .. SizeLen
    BY <1>1
  <2>2. part(i) = n \div x /\ part(i - 1) = n \div y
    BY <2>1
  <2>3. x \in Nat \ {0} /\ y = 10 * x
    BY <2>1, TensAssumption
  <2>4. Digit(field[i]) = (n \div x) % 10
    BY <1>2
  <2> HIDE DEF l, x, y, part
  <2>5. n \div x \in Nat /\ (n \div x) \div 10 = n \div y
    BY <2>3, DivideTwice
  <2> DEFINE q == n \div x
  <2>6. q \in Nat
    BY <2>5
  <2> HIDE DEF q
  <2>7. q = 10 * (q \div 10) + (q % 10)
    BY <2>6
  <2> QED
    BY <2>1, <2>2, <2>4, <2>5, <2>7 DEF q
<1> HIDE DEF part
<1>8. Rec([i \in 0 .. SizeLen |-> part(i)])
  <2> DEFINE f == [i \in 0 .. SizeLen |-> part(i)]
  <2>1. \A i \in 0 .. SizeLen :
          f[i] = IF i = 0 THEN 0 ELSE 10 * f[i - 1] + Digit(field[i])
    <3> TAKE i \in 0 .. SizeLen
    <3>1. i # 0 => i \in 1 .. SizeLen
      BY <1>1
    <3>2. i # 0 => f[i - 1] = part(i - 1)
      BY <1>7, <3>1
    <3> QED
      BY <1>5, <1>7, <3>1, <3>2
  <2> QED
    BY <2>1
<1>9. Rec(value)
  <2> HIDE DEF Rec
  <2> QED
    BY <1>8
<1> HIDE DEF value
<1>10. \A i \in 0 .. SizeLen :
         value[i] = IF i = 0 THEN 0 ELSE 10 * value[i - 1] + Digit(field[i])
  BY <1>9, Zenon
<1> DEFINE T == {i \in Nat : i \in 0 .. SizeLen => value[i] = part(i)}
<1>11. Nat \subseteq T
  <2>1. 0 \in T
    BY <1>1, <1>5, <1>10
  <2>2. ASSUME NEW i \in Nat, i \in T PROVE i + 1 \in T
    <3>1. SUFFICES ASSUME i + 1 \in 0 .. SizeLen PROVE value[i + 1] = part(i + 1)
      OBVIOUS
    <3>2. value[i] = part(i)
      BY <1>1, <2>2, <3>1
    <3> DEFINE k == i + 1
    <3>3. k \in 1 .. SizeLen /\ k \in 0 .. SizeLen /\ k - 1 = i /\ k # 0
      BY <1>1, <3>1
    <3> HIDE DEF k, T
    <3>4. value[k] = 10 * value[k - 1] + Digit(field[k])
      BY <1>10, <3>3
    <3>5. part(k) = 10 * part(k - 1) + Digit(field[k])
      BY <1>7, <3>3
    <3>6. value[k] = part(k)
      BY <3>2, <3>3, <3>4, <3>5
    <3> QED
      BY <3>6 DEF k
  <2> HIDE DEF T
  <2> QED
    BY <2>1, <2>2, SetInduction
<1>12. value[SizeLen] = part(SizeLen)
  <2>1. SizeLen \in T
    BY <1>1, <1>11
  <2> QED
    BY <1>1, <2>1
<1> QED
  BY <1>3, <1>6, <1>12 DEF field


-----------------------------------------------------------------------------
(***************************************************************************)
(* A request on its way: what has been read of it, what lies in the        *)
(* server's socket and what is under way are together the request that was *)
(* written first, and what was written after it.                           *)
(***************************************************************************)

Letter(r) == IF r.op = "add" THEN "a" ELSE "g"
ValLen(r) == IF r.op = "add" THEN Len(r.val) ELSE 0

HeaderOf(r) ==
  IF r.op = "add" THEN (<<"a">> \o Zfill(Len(r.key))) \o Zfill(Len(r.val))
  ELSE <<"g">> \o Zfill(Len(r.key))

BodyOf(r) == IF r.op = "add" THEN Encode(r.key) \o Encode(r.val) ELSE Encode(r.key)

(* A Messages that has read some bytes and one that has read the header.   *)
Begun(a) == [New EXCEPT !.rd = a]

Awaiting(r, w) ==
  [state |-> 1, op |-> Letter(r), keyLen |-> Len(r.key), valLen |-> ValLen(r), rd |-> w]

LEMMA CallStrings ==
  ASSUME WholeRequests, NEW r \in Calls
  PROVE  /\ r.op \in {"add", "get"}
         /\ Len(r.key) \in Nat /\ Len(r.val) \in Nat
         /\ Encode(r.key) \in Seq(Byte) /\ Len(Encode(r.key)) = Len(r.key)
         /\ Encode(r.val) \in Seq(Byte) /\ Len(Encode(r.val)) = Len(r.val)
         /\ Parse(Zfill(Len(r.key))) = Len(r.key)
         /\ Parse(Zfill(Len(r.val))) = Len(r.val)
<1>1. ASSUME NEW s \in {r.key, r.val}
      PROVE  /\ Len(s) \in Nat /\ Encode(s) \in Seq(Byte) /\ Len(Encode(s)) = Len(s)
             /\ Parse(Zfill(Len(s))) = Len(s)
  <2>1. s \in Seq(DOMAIN Utf8) /\ OneByte(s) /\ Len(s) < 10 ^ SizeLen
    BY DEF WholeRequests
  <2>2. Len(s) \in Nat
    BY <2>1
  <2> QED
    BY <2>1, <2>2, EncodeBytes, SizeRead
<1>2. r.op \in {"add", "get"}
  BY DEF WholeRequests
<1> QED
  BY <1>1, <1>2

(* A request is its header and its body. *)
LEMMA RequestParts ==
  ASSUME WholeRequests, NEW r \in Calls
  PROVE  /\ HeaderOf(r) \in Seq(Byte) /\ BodyOf(r) \in Seq(Byte)
         /\ Request(r) = HeaderOf(r) \o BodyOf(r) /\ Request(r) \in Seq(Byte)
         /\ Len(HeaderOf(r)) = HasSizes(Letter(r)) * SizeLen + 1
         /\ Len(BodyOf(r)) = Len(r.key) + ValLen(r)
<1> DEFINE K == Zfill(Len(r.key))
           V == Zfill(Len(r.val))
           k == Encode(r.key)
           v == Encode(r.val)
<1>1. /\ K \in Seq(Byte) /\ V \in Seq(Byte) /\ Len(K) = SizeLen /\ Len(V) = SizeLen
      /\ k \in Seq(Byte) /\ v \in Seq(Byte) /\ Len(k) = Len(r.key) /\ Len(v) = Len(r.val)
      /\ r.op \in {"add", "get"} /\ SizeLen \in Nat
      /\ Len(r.key) \in Nat /\ Len(r.val) \in Nat
  BY CallStrings, ZfillBytes, NetAssumption
<1>2. <<"a">> \in Seq(Byte) /\ <<"g">> \in Seq(Byte) /\ Len(<<"a">>) = 1 /\ Len(<<"g">>) = 1
  <2>1. "a" \in Byte /\ "g" \in Byte
    BY DEF Byte
  <2> QED
    BY <2>1
<1>3. CASE r.op = "add"
  <2>1. /\ HeaderOf(r) = (<<"a">> \o K) \o V /\ BodyOf(r) = k \o v
        /\ Letter(r) = "a" /\ ValLen(r) = Len(r.val) /\ HasSizes("a") = 2
        /\ Request(r) = (((<<"a">> \o K) \o V) \o k) \o v
    BY <1>3 DEF HeaderOf, BodyOf, Request, Letter, ValLen, HasSizes
  <2> HIDE DEF K, V, k, v
  <2> DEFINE g == <<"a">> \o K
             h == g \o V
  <2>0. K \in Seq(Byte) /\ V \in Seq(Byte) /\ k \in Seq(Byte) /\ v \in Seq(Byte)
    BY <1>1
  <2>2. g \in Seq(Byte) /\ Len(g) = 1 + SizeLen
    BY <1>1, <1>2, ConcatProperties
  <2> HIDE DEF g
  <2>3. h \in Seq(Byte) /\ Len(h) = (1 + SizeLen) + SizeLen
    <3>1. h \in Seq(Byte) /\ Len(h) = Len(g) + Len(V)
      BY <2>0, <2>2, ConcatProperties
    <3> QED
      BY <1>1, <2>2, <3>1
  <2> HIDE DEF h
  <2>4. k \o v \in Seq(Byte) /\ Len(k \o v) = Len(r.key) + Len(r.val)
    <3>1. k \o v \in Seq(Byte) /\ Len(k \o v) = Len(k) + Len(v)
      BY <2>0, ConcatProperties
    <3> QED
      BY <1>1, <3>1
  <2>5. (h \o k) \o v = h \o (k \o v)
    BY <2>0, <2>3, ConcatAssociative, SMTT(30)
  <2>6. h \o (k \o v) \in Seq(Byte)
    BY <2>3, <2>4, ConcatProperties
  <2>7. (1 + SizeLen) + SizeLen = 2 * SizeLen + 1
    BY <1>1
  <2> QED
    BY <2>1, <2>3, <2>4, <2>5, <2>6, <2>7 DEF g, h
<1>4. CASE r.op = "get"
  <2>1. /\ HeaderOf(r) = <<"g">> \o K /\ BodyOf(r) = k
        /\ Letter(r) = "g" /\ ValLen(r) = 0 /\ HasSizes("g") = 1
        /\ Request(r) = (<<"g">> \o K) \o k
    BY <1>4 DEF HeaderOf, BodyOf, Request, Letter, ValLen, HasSizes
  <2> HIDE DEF K, V, k, v
  <2>2. <<"g">> \o K \in Seq(Byte) /\ Len(<<"g">> \o K) = 1 + SizeLen
    BY <1>1, <1>2, ConcatProperties
  <2>3. (<<"g">> \o K) \o k \in Seq(Byte)
    BY <1>1, <2>2, ConcatProperties
  <2>4. 1 + SizeLen = 1 * SizeLen + 1 /\ Len(r.key) = Len(r.key) + 0
    BY <1>1
  <2> QED
    BY <1>1, <2>1, <2>2, <2>3, <2>4
<1> QED
  BY <1>1, <1>3, <1>4


(* Where two sequences in a row begin with a third, so does the first of   *)
(* them, if it is long enough.                                             *)
LEMMA Splitting ==
  ASSUME NEW S, NEW a \in Seq(S), NEW e \in Seq(S), NEW h \in Seq(S), NEW t \in Seq(S),
         a \o e = h \o t, Len(a) >= Len(h)
  PROVE  /\ \A i \in 1 .. Len(h) : a[i] = h[i]
         /\ SubSeq(a, Len(h) + 1, Len(a)) \in Seq(S)
         /\ SubSeq(a, Len(h) + 1, Len(a)) \o e = t
<1> DEFINE n == Len(h)
           b == SubSeq(a, 1, n)
           w == SubSeq(a, n + 1, Len(a))
<1>1. n \in Nat /\ Len(a) \in Nat /\ n <= Len(a)
  OBVIOUS
<1>2. \A i \in 1 .. n : a[i] = h[i]
  <2> TAKE i \in 1 .. n
  <2>1. (a \o e)[i] = a[i] /\ (h \o t)[i] = h[i]
    BY <1>1
  <2> QED
    BY <2>1
<1>3. b \in Seq(S) /\ w \in Seq(S) /\ Len(b) = n /\ \A i \in 1 .. n : b[i] = a[i]
  BY <1>1
<1>4. b \o w = a
  <2>1. 1 \in 1 .. Len(a) + 1 /\ n \in 1 - 1 .. Len(a) /\ Len(a) \in n .. Len(a)
    BY <1>1
  <2> HIDE DEF n
  <2>2. b \o w = SubSeq(a, 1, Len(a))
    BY <2>1, ConcatAdjacentSubSeq
  <2> QED
    BY <2>2, SubSeqFull
<1> HIDE DEF b, w
<1>5. b = h
  BY <1>2, <1>3, SeqEqual DEF n
<1>6. h \o (w \o e) = h \o t
  <2>0. w \in Seq(S)
    BY <1>3
  <2>1. (h \o w) \o e = h \o (w \o e)
    BY <2>0, ConcatAssociative, SMTT(30)
  <2> QED
    BY <1>4, <1>5, <2>1
<1>7. w \o e \in Seq(S)
  BY <1>3
<1>8. w \o e = t
  <2> DEFINE x == w \o e
  <2>1. x \in Seq(S) /\ h \o x = h \o t
    BY <1>6, <1>7
  <2> HIDE DEF x
  <2>2. Len(x) = Len(t) /\ Len(x) \in Nat
    <3>1. Len(h \o x) = Len(h) + Len(x) /\ Len(h \o t) = Len(h) + Len(t)
      BY <2>1, ConcatProperties
    <3>2. Len(h) \in Nat /\ Len(x) \in Nat /\ Len(t) \in Nat
      BY <2>1
    <3> QED
      BY <2>1, <3>1, <3>2
  <2>3. ASSUME NEW i \in 1 .. Len(x) PROVE x[i] = t[i]
    <3>1. (h \o x)[Len(h) + i] = x[i] /\ (h \o t)[Len(h) + i] = t[i]
      BY <2>1, <2>2, SMTT(30)
    <3> QED
      BY <2>1, <3>1
  <2>4. x = t
    BY <2>1, <2>2, <2>3, SeqEqual
  <2> QED
    BY <2>4 DEF x
<1> QED
  BY <1>2, <1>3, <1>8 DEF n, w

LEMMA HeaderBytes ==
  ASSUME WholeRequests, NEW r \in Calls
  PROVE  /\ HeaderOf(r)[1] = Letter(r)
         /\ \A i \in 1 .. SizeLen : HeaderOf(r)[1 + i] = Zfill(Len(r.key))[i]
         /\ r.op = "add" =>
              \A i \in 1 .. SizeLen : HeaderOf(r)[(1 + SizeLen) + i] = Zfill(Len(r.val))[i]
<1> DEFINE K == Zfill(Len(r.key))
           V == Zfill(Len(r.val))
           l == <<Letter(r)>>
           g == l \o K
<1>1. /\ K \in Seq(Byte) /\ V \in Seq(Byte) /\ Len(K) = SizeLen /\ Len(V) = SizeLen
      /\ SizeLen \in Nat
  BY CallStrings, ZfillBytes, NetAssumption
<1>2. l \in Seq(Byte) /\ Len(l) = 1 /\ l[1] = Letter(r)
  <2>1. Letter(r) \in Byte
    BY DEF Byte, Letter
  <2> QED
    BY <2>1
<1>3. HeaderOf(r) = IF r.op = "add" THEN g \o V ELSE g
  BY DEF HeaderOf, Letter
<1> HIDE DEF K, V, l
<1>4. /\ g \in Seq(Byte) /\ Len(g) = 1 + SizeLen /\ g[1] = Letter(r)
      /\ \A i \in 1 .. SizeLen : g[1 + i] = K[i]
  <2>1. /\ g \in Seq(Byte) /\ Len(g) = Len(l) + Len(K)
        /\ \A i \in 1 .. Len(l) + Len(K) : g[i] = IF i <= Len(l) THEN l[i] ELSE K[i - Len(l)]
    BY <1>1, <1>2, ConcatProperties
  <2> HIDE DEF g
  <2>2. \A i \in 1 .. 1 + SizeLen : g[i] = IF i <= 1 THEN l[i] ELSE K[i - 1]
    BY <1>1, <1>2, <2>1
  <2>3. g[1] = Letter(r)
    BY <1>1, <1>2, <2>2
  <2>4. \A i \in 1 .. SizeLen : 1 + i \in 1 .. 1 + SizeLen /\ ~(1 + i <= 1) /\ (1 + i) - 1 = i
    BY <1>1
  <2>5. \A i \in 1 .. SizeLen : g[1 + i] = K[i]
    BY <2>2, <2>4
  <2> QED
    BY <1>1, <1>2, <2>1, <2>3, <2>5
<1> HIDE DEF g
<1>5. CASE r.op = "add"
  <2> DEFINE f == g \o V
  <2>1. \A i \in 1 .. 1 + SizeLen : f[i] = g[i]
    BY <1>1, <1>4
  <2>2. \A i \in 1 .. SizeLen : f[(1 + SizeLen) + i] = V[i]
    BY <1>1, <1>4, SMTT(30)
  <2> HIDE DEF f
  <2>3. f[1] = Letter(r) /\ \A i \in 1 .. SizeLen : f[1 + i] = K[i]
    BY <1>1, <1>4, <2>1
  <2> QED
    BY <1>3, <1>5, <2>2, <2>3 DEF f, K, V
<1>6. CASE r.op # "add"
  BY <1>3, <1>4, <1>6 DEF K, V
<1> QED
  BY <1>5, <1>6

(* The first half of poll, once the header has arrived: it finds the       *)
(* operation and the sizes that were sent, and leaves the body.            *)
LEMMA HeaderRead ==
  ASSUME WholeRequests, NEW r \in Calls,
         NEW a \in Seq(Byte), NEW e \in Seq(Byte), NEW rest \in Seq(Byte),
         a \o e = HeaderOf(r) \o (BodyOf(r) \o rest), Len(a) >= Len(HeaderOf(r))
  PROVE  /\ ~ShortHeader(Begun(a))
         /\ \E w \in Seq(Byte) :
              Header(Begun(a)) = Awaiting(r, w) /\ w \o e = BodyOf(r) \o rest
<1> DEFINE h == HeaderOf(r)
           t == BodyOf(r) \o rest
           w == SubSeq(a, Len(h) + 1, Len(a))
           K == Zfill(Len(r.key))
           V == Zfill(Len(r.val))
           m == Begun(a)
<1>1. /\ h \in Seq(Byte) /\ t \in Seq(Byte)
      /\ Len(h) = HasSizes(Letter(r)) * SizeLen + 1 /\ SizeLen \in Nat \ {0}
  BY RequestParts, NetAssumption
<1>2. /\ \A i \in 1 .. Len(h) : a[i] = h[i]
      /\ w \in Seq(Byte) /\ w \o e = t
  <2> HIDE DEF h, t
  <2> QED
    BY <1>1, Splitting DEF h, t
<1>3. m.rd = a /\ m.state = 0
  BY DEF Begun, New
<1> HIDE DEF m
<1>4. HasSizes("a") = 2 /\ HasSizes("g") = 1
  BY DEF HasSizes
<1>5. Len(h) \in Nat /\ Len(a) \in Nat /\ Len(a) >= Len(h) /\ Len(h) >= 1 + SizeLen
  BY <1>1, <1>4 DEF Letter
<1>6. a[1] = Letter(r)
  <2>1. h[1] = Letter(r)
    BY HeaderBytes
  <2>2. 1 \in 1 .. Len(h)
    BY <1>1, <1>5
  <2> HIDE DEF h
  <2> QED
    BY <1>2, <2>1, <2>2
<1>7. HeaderDue(m) /\ ~ShortHeader(m)
  <2>1. Len(m.rd) > SizeLen
    BY <1>1, <1>3, <1>5
  <2>2. ~(Len(m.rd) < 1 + HasSizes(m.rd[1]) * SizeLen)
    BY <1>1, <1>3, <1>4, <1>5, <1>6 DEF Letter
  <2> QED
    BY <1>3, <2>1, <2>2 DEF HeaderDue, ShortHeader
<1>8. SubSeq(a, 2, SizeLen + 1) = K
  <2> DEFINE s == SubSeq(a, 2, SizeLen + 1)
  <2>1. K \in Seq(Byte) /\ Len(K) = SizeLen
    BY CallStrings, ZfillBytes
  <2>2. s \in Seq(Byte) /\ Len(s) = SizeLen /\ \A i \in 1 .. SizeLen : s[i] = a[1 + i]
    BY <1>1, <1>5
  <2>3. \A i \in 1 .. SizeLen : a[1 + i] = K[i]
    <3>1. \A i \in 1 .. SizeLen : h[1 + i] = K[i]
      BY HeaderBytes
    <3>2. \A i \in 1 .. SizeLen : 1 + i \in 1 .. Len(h)
      BY <1>1, <1>5
    <3> HIDE DEF h, K
    <3> QED
      BY <1>2, <3>1, <3>2
  <2> HIDE DEF s, K
  <2>4. s = K
    BY <2>1, <2>2, <2>3, SeqEqual
  <2> QED
    BY <2>4 DEF s
<1>9. ASSUME r.op = "add"
      PROVE  SubSeq(a, SizeLen + 2, MinOf(2 * SizeLen + 1, Len(a))) = V
  <2> DEFINE s == SubSeq(a, SizeLen + 2, 2 * SizeLen + 1)
  <2>1. V \in Seq(Byte) /\ Len(V) = SizeLen
    BY CallStrings, ZfillBytes
  <2>2. Len(h) = 2 * SizeLen + 1
    BY <1>1, <1>4, <1>9 DEF Letter
  <2>3. s \in Seq(Byte) /\ Len(s) = SizeLen
        /\ \A i \in 1 .. SizeLen : s[i] = a[(1 + SizeLen) + i]
    <3> DEFINE lo == SizeLen + 2
               hi == 2 * SizeLen + 1
    <3>1. lo \in Int /\ hi \in Int /\ (hi - lo) + 1 = SizeLen /\ lo <= hi
      BY <1>1
    <3>2. \A i \in 1 .. SizeLen : (lo + i) - 1 = (1 + SizeLen) + i
      BY <1>1
    <3>3. \A i \in lo .. hi : a[i] \in Byte
      BY <1>1, <1>5, <2>2
    <3> HIDE DEF lo, hi
    <3>4. /\ SubSeq(a, lo, hi) \in Seq(Byte)
          /\ Len(SubSeq(a, lo, hi)) = IF lo <= hi THEN (hi - lo) + 1 ELSE 0
          /\ \A i \in 1 .. (hi - lo) + 1 : SubSeq(a, lo, hi)[i] = a[(lo + i) - 1]
      BY <3>1, <3>3, SubSeqProperties
    <3> QED
      BY <3>1, <3>2, <3>4 DEF lo, hi
  <2>4. \A i \in 1 .. SizeLen : a[(1 + SizeLen) + i] = V[i]
    <3>1. \A i \in 1 .. SizeLen : h[(1 + SizeLen) + i] = V[i]
      BY <1>9, HeaderBytes
    <3>2. \A i \in 1 .. SizeLen : (1 + SizeLen) + i \in 1 .. Len(h)
      BY <1>1, <2>2
    <3> HIDE DEF h, V
    <3> QED
      BY <1>2, <3>1, <3>2
  <2> HIDE DEF s, V
  <2>5. s = V
    BY <2>1, <2>3, <2>4, SeqEqual
  <2>6. MinOf(2 * SizeLen + 1, Len(a)) = 2 * SizeLen + 1
    <3>1. \A x, y \in Int : x <= y => MinOf(x, y) = x
      BY DEF MinOf
    <3> DEFINE x == 2 * SizeLen + 1
               y == Len(a)
    <3>2. x \in Int /\ y \in Int
      BY <1>1, <1>5
    <3>3. x <= y
      <4> HIDE DEF h
      <4> QED
        BY <1>5, <2>2
    <3> HIDE DEF x, y
    <3>4. MinOf(x, y) = x
      BY <3>1, <3>2, <3>3
    <3> QED
      BY <3>4 DEF x, y
  <2> QED
    BY <2>5, <2>6 DEF s
<1>10. Header(m) = [state |-> 1, op |-> Letter(r), keyLen |-> Len(r.key),
                    valLen |-> ValLen(r), rd |-> w]
  <2>1. Parse(K) = Len(r.key) /\ Parse(V) = Len(r.val) /\ r.op \in {"add", "get"}
    BY CallStrings
  <2>2. HasSizes(Letter(r)) * SizeLen + 2 = Len(h) + 1
    BY <1>1, <1>4 DEF Letter
  <2> DEFINE n == HasSizes(Letter(r))
  <2>3. Header(m) =
          [state |-> 1, op |-> a[1], keyLen |-> Parse(SubSeq(a, 2, SizeLen + 1)),
           valLen |-> IF n = 1 THEN 0
                      ELSE Parse(SubSeq(a, SizeLen + 2, MinOf(2 * SizeLen + 1, Len(a)))),
           rd |-> SubSeq(a, n * SizeLen + 2, Len(a))]
    <3> DEFINE Z(s, o) ==
          [state |-> 1, op |-> s[1], keyLen |-> Parse(SubSeq(s, 2, SizeLen + 1)),
           valLen |-> IF HasSizes(o) = 1 THEN 0
                      ELSE Parse(SubSeq(s, SizeLen + 2, MinOf(2 * SizeLen + 1, Len(s)))),
           rd |-> SubSeq(s, HasSizes(o) * SizeLen + 2, Len(s))]
    <3>1. Header(m) = Z(m.rd, m.rd[1])
      BY <1>7, Zenon DEF Header
    <3>2. Z(m.rd, m.rd[1]) = Z(a, Letter(r))
      <4> HIDE DEF Z
      <4> QED
        BY <1>3, <1>6, Zenon
    <3> QED
      BY <3>1, <3>2, Zenon
  <2>4. CASE r.op = "add"
    <3>1. n = 2 /\ ValLen(r) = Len(r.val)
      BY <1>4, <2>4 DEF Letter, ValLen
    <3>2. SubSeq(a, SizeLen + 2, MinOf(2 * SizeLen + 1, Len(a))) = V
      BY <1>9, <2>4
    <3>3. SubSeq(a, n * SizeLen + 2, Len(a)) = w
      BY <2>2
    <3> HIDE DEF K, V, h, t, w, n
    <3>4. n # 1
      BY <3>1
    <3> QED
      BY <1>6, <1>8, <2>1, <2>3, <3>1, <3>2, <3>3, <3>4, Zenon
  <2>5. CASE r.op = "get"
    <3>1. n = 1 /\ ValLen(r) = 0
      BY <1>4, <2>5 DEF Letter, ValLen
    <3> QED
      BY <1>6, <1>8, <2>1, <2>2, <2>3, <3>1
  <2> QED
    BY <2>1, <2>4, <2>5
<1> QED
  BY <1>2, <1>7, <1>10 DEF Awaiting, m

(* Where three sequences in a row are cut: the first two, if they are in.  *)
LEMMA Slices ==
  ASSUME NEW S, NEW w \in Seq(S), NEW e \in Seq(S), NEW k \in Seq(S), NEW v \in Seq(S),
         NEW rest \in Seq(S), w \o e = (k \o v) \o rest, Len(w) >= Len(k) + Len(v)
  PROVE  /\ SubSeq(w, 1, Len(k)) = k
         /\ SubSeq(w, Len(k) + 1, Len(k) + Len(v)) = v
<1> DEFINE p == Len(k)
           q == Len(v)
           h == k \o v
<1>1. p \in Nat /\ q \in Nat /\ Len(w) \in Nat
  OBVIOUS
<1>2. /\ h \in Seq(S) /\ Len(h) = p + q
      /\ \A i \in 1 .. p + q : h[i] = IF i <= p THEN k[i] ELSE v[i - p]
  BY ConcatProperties
<1> HIDE DEF h
<1>3. \A i \in 1 .. Len(h) : w[i] = h[i]
  BY <1>2, Splitting DEF h
<1> HIDE DEF p, q
<1>4. \A i \in 1 .. p + q : w[i] = IF i <= p THEN k[i] ELSE v[i - p]
  BY <1>2, <1>3
<1>5. \A i \in 1 .. p + q : w[i] \in S
  <2>1. Len(w) >= p + q
    BY DEF p, q
  <2> QED
    BY <1>1, <2>1, ElementOfSeq
<1>6. SubSeq(w, 1, p) = k
  <2> DEFINE x == SubSeq(w, 1, p)
  <2>1. \A i \in 1 .. p : w[i] \in S
    BY <1>1, <1>5
  <2>2. x \in Seq(S) /\ Len(x) = p /\ \A i \in 1 .. p : x[i] = w[i]
    <3>1. 1 \in Int /\ p \in Int /\ (p - 1) + 1 = p /\ (1 <= p <=> p # 0)
          /\ \A i \in 1 .. p : (1 + i) - 1 = i
      BY <1>1
    <3>2. /\ x \in Seq(S)
          /\ Len(x) = IF 1 <= p THEN (p - 1) + 1 ELSE 0
          /\ \A i \in 1 .. (p - 1) + 1 : x[i] = w[(1 + i) - 1]
      BY <2>1, <3>1, SubSeqProperties
    <3> HIDE DEF x
    <3> QED
      BY <3>1, <3>2
  <2>3. \A i \in 1 .. p : x[i] = k[i]
    <3> HIDE DEF x
    <3>1. \A i \in 1 .. p : i \in 1 .. p + q /\ i <= p
      BY <1>1
    <3> QED
      BY <1>4, <2>2, <3>1
  <2> HIDE DEF x
  <2>4. Len(k) = p
    BY DEF p
  <2>5. x = k
    BY <2>2, <2>3, <2>4, SeqEqual
  <2> QED
    BY <2>5 DEF x
<1>7. SubSeq(w, p + 1, p + q) = v
  <2> DEFINE lo == p + 1
             hi == p + q
             x == SubSeq(w, lo, hi)
  <2>1. lo \in Int /\ hi \in Int /\ (hi - lo) + 1 = q /\ (lo <= hi <=> q # 0)
    BY <1>1
  <2>2. \A i \in lo .. hi : w[i] \in S
    BY <1>1, <1>5
  <2>3. \A i \in 1 .. q : (lo + i) - 1 = p + i /\ p + i \in 1 .. p + q
                           /\ ~(p + i <= p) /\ (p + i) - p = i
    BY <1>1
  <2> HIDE DEF lo, hi
  <2>4. /\ x \in Seq(S)
        /\ Len(x) = IF lo <= hi THEN (hi - lo) + 1 ELSE 0
        /\ \A i \in 1 .. (hi - lo) + 1 : x[i] = w[(lo + i) - 1]
    BY <2>1, <2>2, SubSeqProperties
  <2> HIDE DEF x
  <2>5. Len(x) = q /\ \A i \in 1 .. q : x[i] = w[p + i]
    BY <2>1, <2>3, <2>4
  <2>6. \A i \in 1 .. q : x[i] = v[i]
    BY <1>4, <2>3, <2>5
  <2>7. Len(v) = q
    BY DEF q
  <2>8. x = v
    BY <2>4, <2>5, <2>6, <2>7, SeqEqual
  <2> QED
    BY <2>8 DEF x, lo, hi
<1> QED
  BY <1>6, <1>7 DEF p, q

(* Where a body has arrived, the message is the call's key and value. *)
LEMMA BodyRead ==
  ASSUME WholeRequests, NEW r \in Calls,
         NEW w \in Seq(Byte), NEW e \in Seq(Byte), NEW rest \in Seq(Byte),
         w \o e = BodyOf(r) \o rest, Len(w) >= Len(r.key) + ValLen(r),
         NEW m, m = Awaiting(r, w)
  PROVE  [op |-> m.op, key |-> MessageKey(m), val |-> MessageVal(m)] = Taken(r)
<1> DEFINE k == Encode(r.key)
           v == IF r.op = "add" THEN Encode(r.val) ELSE <<>>
<1>1. /\ k \in Seq(Byte) /\ Len(k) = Len(r.key) /\ Len(k) \in Nat
      /\ v \in Seq(Byte) /\ Len(v) = ValLen(r)
  BY CallStrings DEF ValLen
<1>2. m.op = Letter(r) /\ m.keyLen = Len(k) /\ m.valLen = Len(v) /\ m.rd = w
  BY <1>1 DEF Awaiting
<1>3. w \o e = (k \o v) \o rest
  <2>1. k \o <<>> = k
    <3> HIDE DEF k
    <3> QED
      BY <1>1
  <2> QED
    BY <2>1 DEF BodyOf
<1>4. Taken(r) = [op |-> Letter(r), key |-> v, val |-> k]
  BY DEF Taken, Letter
<1> HIDE DEF k, v
<1>5. SubSeq(w, 1, Len(k)) = k /\ SubSeq(w, Len(k) + 1, Len(k) + Len(v)) = v
  BY <1>1, <1>3, Slices
<1>6. MessageVal(m) = k /\ MessageKey(m) = v
  BY <1>2, <1>5 DEF MessageVal, MessageKey
<1> QED
  BY <1>2, <1>4, <1>6

(* The call that was written first on a connection, and how much of its    *)
(* request the server has read: nothing, or the header and some of the     *)
(* body.  A header that has begun to arrive has arrived.                   *)
First(c) == call[wrote[c][1]]

Unread(c) ==
  /\ task[c] = New
  /\ arrived[c] = <<>> \/ Len(arrived[c]) >= Len(HeaderOf(First(c)))
  /\ \E rest \in Seq(Byte) :
       arrived[c] \o sent[c] = HeaderOf(First(c)) \o (BodyOf(First(c)) \o rest)

HalfRead(c) ==
  \E w, rest \in Seq(Byte) :
    /\ task[c] = Awaiting(First(c), w)
    /\ w \o (arrived[c] \o sent[c]) = BodyOf(First(c)) \o rest

Streams ==
  \A c \in Conns :
    link[c] # "closed" /\ wrote[c] # <<>> => Unread(c) \/ HalfRead(c)

(* A connection ends with an answer, or nobody can write on it any more. *)
Ended ==
  \A c \in Conns : link[c] = "closed" => task[c] = New /\ (wrote[c] # <<>> \/ c \in up)

Executions ==
  \A c \in Conns : reply[c] = <<"o">> => wrote[c] # <<>> /\ executed[c] = Taken(First(c))

ReadClosed ==
  \A p \in Callers : result[p] = <<"o">> => on[p] \in Conns /\ link[on[p]] = "closed"

(* A coroutine writes once. *)
Writers ==
  \A c \in Conns : \A i \in DOMAIN wrote[c] :
    on[wrote[c][i]] = c /\ pc[wrote[c][i]] \notin {"start", "looking"}

CallsMade == \A p \in Callers : pc[p] # "start" => call[p] \in Calls

StreamInv ==
  /\ ReplyInv /\ TypeOK /\ Streams /\ Ended /\ Executions /\ Acked
  /\ ReadClosed /\ Writers /\ CallsMade
  /\ executed = [c \in Conns |-> executed[c]] /\ alive = TRUE

LEMMA StreamInit == Init => StreamInv
<1> SUFFICES ASSUME Init  PROVE StreamInv
  OBVIOUS
<1>1. ReplyInv
  BY ReplyInit
<1>2. <<>> \in Seq(Callers) /\ <<>> \in Seq(Byte) /\ <<>> \in Seq({"o", "e"})
      /\ <<>> \in Seq(Conns)
  OBVIOUS
<1>3. NetTypeOK
  BY <1>2 DEF Init, NetInit, NetTypeOK
<1>4. ServerTypeOK
  BY <1>2 DEF Init, ServerInit, ServerTypeOK, New
<1>5. ClientTypeOK
  BY <1>2 DEF Init, NetInit, ClientInit, ClientTypeOK
<1>6. TypeOK
  BY <1>2, <1>3, <1>4, <1>5 DEF Init, TypeOK
<1>7. Streams /\ Writers
  BY DEF Init, Streams, Writers
<1>8. Ended /\ Executions /\ Acked /\ ReadClosed
  BY DEF Init, NetInit, ServerInit, ClientInit, Ended, Executions, Acked, ReadClosed
<1>9. CallsMade
  BY DEF Init, ClientInit, CallsMade
<1>10. executed = [c \in Conns |-> executed[c]] /\ alive = TRUE
  BY DEF Init, ServerInit
<1> QED
  BY <1>1, <1>6, <1>7, <1>8, <1>9, <1>10 DEF StreamInv

(* Who wrote first has made a call and holds the connection. *)
LEMMA FirstCall ==
  ASSUME StreamInv, NEW c \in Conns, wrote[c] # <<>>
  PROVE  /\ wrote[c][1] \in Callers /\ First(c) \in Calls
         /\ on[wrote[c][1]] = c /\ pc[wrote[c][1]] \notin {"start", "looking"}
<1>1. wrote[c] \in Seq(Callers) /\ 1 \in DOMAIN wrote[c]
  BY DEF StreamInv, ReplyInv, ReplyTypes
<1>2. wrote[c][1] \in Callers
  BY <1>1
<1>3. on[wrote[c][1]] = c /\ pc[wrote[c][1]] \notin {"start", "looking"}
  BY <1>1 DEF StreamInv, Writers
<1> QED
  BY <1>2, <1>3 DEF StreamInv, CallsMade, First

LEMMA StreamTypes ==
  ASSUME StreamInv, NEW c \in Conns
  PROVE  /\ arrived[c] \in Seq(Byte) /\ sent[c] \in Seq(Byte) /\ task[c].rd \in Seq(Byte)
         /\ wrote[c] \in Seq(Callers)
  BY DEF StreamInv, TypeOK, NetTypeOK, ServerTypeOK

(* A poll finds the sizes of the first request and no half of a header.    *)
LEMMA Received ==
  ASSUME WholeRequests, StreamInv, NEW c \in Conns, wrote[c] # <<>>, Polled(c)
  PROVE  /\ ~ShortHeader(Filled(c))
         /\ \E w, rest \in Seq(Byte) :
              /\ Header(Filled(c)) = Awaiting(First(c), w)
              /\ w \o sent[c] = BodyOf(First(c)) \o rest
<1> DEFINE r == First(c)
           a == arrived[c]
           e == sent[c]
<1>1. a \in Seq(Byte) /\ e \in Seq(Byte) /\ r \in Calls
  BY FirstCall, StreamTypes
<1>2. a # <<>> \/ e = <<>>
  BY DEF Polled
<1>3. Unread(c) \/ HalfRead(c)
  BY DEF Polled, StreamInv, Streams
<1>4. HeaderOf(r) \in Seq(Byte) /\ BodyOf(r) \in Seq(Byte) /\ Len(HeaderOf(r)) > 0
  <2> HIDE DEF r
  <2>1. /\ HeaderOf(r) \in Seq(Byte) /\ BodyOf(r) \in Seq(Byte)
        /\ Len(HeaderOf(r)) = HasSizes(Letter(r)) * SizeLen + 1
    BY <1>1, RequestParts
  <2>2. HasSizes(Letter(r)) \in {1, 2} /\ SizeLen \in Nat
    BY NetAssumption DEF HasSizes
  <2> QED
    BY <2>1, <2>2
<1>5. CASE Unread(c)
  <2>1. PICK rest \in Seq(Byte) : a \o e = HeaderOf(r) \o (BodyOf(r) \o rest)
    BY <1>5 DEF Unread
  <2>2. a # <<>>
    <3> HIDE DEF a, e, r
    <3>1. SUFFICES ASSUME a = <<>>  PROVE FALSE
      OBVIOUS
    <3>2. Len(a \o e) = 0
      BY <1>1, <1>2, <3>1
    <3>3. BodyOf(r) \o rest \in Seq(Byte)
      BY <1>4
    <3>4. Len(HeaderOf(r) \o (BodyOf(r) \o rest)) > 0
      BY <1>4, <3>3, ConcatProperties
    <3> QED
      BY <2>1, <3>2, <3>4
  <2>3. task[c] = New /\ Len(a) >= Len(HeaderOf(r))
    BY <1>5, <2>2 DEF Unread
  <2>4. Filled(c) = Begun(a)
    <3>1. <<>> \o a = a
      BY <1>1, ConcatEmptySeq
    <3> QED
      BY <2>3, <3>1 DEF Filled, New, Begun
  <2> HIDE DEF a, e, r
  <2>5. /\ ~ShortHeader(Filled(c))
        /\ \E w \in Seq(Byte) :
              /\ Header(Filled(c)) = Awaiting(r, w)
              /\ w \o e = BodyOf(r) \o rest
    <3>1. a \in Seq(Byte) /\ e \in Seq(Byte) /\ r \in Calls
      BY <1>1
    <3>2. Len(a) >= Len(HeaderOf(r))
      BY <2>3
    <3>3. /\ ~ShortHeader(Begun(a))
          /\ \E w \in Seq(Byte) :
                Header(Begun(a)) = Awaiting(r, w) /\ w \o e = BodyOf(r) \o rest
      BY <3>1, <3>2, <2>1, HeaderRead, Zenon
    <3> QED
      BY <3>3, <2>4
  <2> QED
    BY <2>5 DEF e, r
<1>6. CASE HalfRead(c)
  <2>1. PICK w \in Seq(Byte), rest \in Seq(Byte) :
           task[c] = Awaiting(r, w) /\ w \o (a \o e) = BodyOf(r) \o rest
    BY <1>6 DEF HalfRead
  <2> HIDE DEF a, e, r
  <2>2. w \o a \in Seq(Byte) /\ (w \o a) \o e = w \o (a \o e)
    BY <1>1, ConcatProperties, ConcatAssociative, SMTT(30)
  <2>3. Filled(c) = Awaiting(r, w \o a)
    <3> DEFINE z == w \o a
    <3>1. \A l, k, v, x, y :
            [[state |-> 1, op |-> l, keyLen |-> k, valLen |-> v, rd |-> x] EXCEPT !.rd = y]
              = [state |-> 1, op |-> l, keyLen |-> k, valLen |-> v, rd |-> y]
      OBVIOUS
    <3>2. task[c].rd = w
      BY <2>1 DEF Awaiting
    <3>3. Filled(c) = [task[c] EXCEPT !.rd = z]
      BY <3>2, Zenon DEF Filled, a
    <3> HIDE DEF z
    <3>4. Filled(c) = [Awaiting(r, w) EXCEPT !.rd = z]
      BY <2>1, <3>3, Zenon
    <3>5. Filled(c) = Awaiting(r, z)
      BY <3>1, <3>4, Zenon DEF Awaiting
    <3> QED
      BY <3>5 DEF z
  <2>4. Filled(c).state = 1
    BY <2>3 DEF Awaiting
  <2>5. ~HeaderDue(Filled(c))
    BY <2>4 DEF HeaderDue
  <2>6. ~ShortHeader(Filled(c)) /\ Header(Filled(c)) = Filled(c)
    BY <2>5 DEF ShortHeader, Header
  <2> QED
    BY <2>1, <2>2, <2>3, <2>6 DEF e, r
<1> QED
  BY <1>3, <1>5, <1>6

(* So the server does not panic. *)
LEMMA NoPanic ==
  ASSUME WholeRequests, StreamInv, NEW c \in Conns, Polled(c)
  PROVE  ~ShortHeader(Filled(c)) /\ ~MustPanic(Filled(c))
<1>1. CASE wrote[c] = <<>>
  BY <1>1, NoMessage DEF StreamInv, ShortHeader, MustPanic
<1>2. CASE wrote[c] # <<>>
  BY <1>2, Received DEF MustPanic
<1> QED
  BY <1>1, <1>2

(* Nothing happens to what has not been read of a connection. *)
LEMMA StreamStays ==
  ASSUME NEW c \in Conns, Unread(c) \/ HalfRead(c),
         task'[c] = task[c], arrived'[c] = arrived[c], sent'[c] = sent[c],
         First(c)' = First(c)
  PROVE  Unread(c)' \/ HalfRead(c)'
  BY DEF Unread, HalfRead

(* What is wanted of a step that leaves the callers and what they have     *)
(* written alone.                                                          *)
LEMMA CallersKeep ==
  ASSUME StreamInv, UNCHANGED <<pc, on, call, wrote, result, executed>>
  PROVE  /\ Writers' /\ CallsMade' /\ Acked'
         /\ executed' = [c \in Conns |-> executed'[c]]
         /\ \A c \in Conns : First(c)' = First(c)
  BY DEF StreamInv, Writers, CallsMade, Acked, First

(* A call that begins has written nothing. *)
LEMMA StartKeepsStreams ==
  ASSUME StreamInv, ReplyInv', NEW p \in Callers, StartCall(p)
  PROVE  StreamInv'
<1>1. PICK r \in Calls :
         /\ pc[p] = "start"
         /\ pc' = [pc EXCEPT ![p] = "looking"] /\ call' = [call EXCEPT ![p] = r]
         /\ UNCHANGED <<netVars, serverVars, history, poolVars, streamVars, on, result, closed>>
  BY DEF StartCall, Start
<1>2. /\ UNCHANGED <<link, sent, arrived, reply, down, up>>
      /\ UNCHANGED <<task, cache, alive, pool, busy, eof, lost, failed>>
      /\ UNCHANGED <<on, result, closed, wrote, executed>>
  BY <1>1 DEF netVars, serverVars, history, poolVars, streamVars
<1>3. \A q \in Callers : /\ pc'[q] = IF q = p THEN "looking" ELSE pc[q]
                         /\ call'[q] = IF q = p THEN r ELSE call[q]
  BY <1>1 DEF StreamInv, TypeOK, ClientTypeOK
<1>4. TypeOK'
  <2>1. NetTypeOK' /\ ServerTypeOK'
    BY <1>2 DEF StreamInv, TypeOK, NetTypeOK, ServerTypeOK
  <2>2. ClientTypeOK'
    BY <1>1, <1>2 DEF StreamInv, TypeOK, ClientTypeOK
  <2> QED
    BY <1>2, <2>1, <2>2 DEF StreamInv, TypeOK
<1>5. \A c \in Conns : wrote[c] # <<>> => First(c)' = First(c)
  <2> SUFFICES ASSUME NEW c \in Conns, wrote[c] # <<>>  PROVE First(c)' = First(c)
    OBVIOUS
  <2>1. wrote[c][1] \in Callers /\ wrote[c][1] # p
    BY <1>1, FirstCall
  <2> QED
    BY <1>2, <1>3, <2>1 DEF First
<1>6. Streams'
  <2> SUFFICES ASSUME NEW c \in Conns, link'[c] # "closed", wrote'[c] # <<>>
               PROVE  Unread(c)' \/ HalfRead(c)'
    BY DEF Streams
  <2>1. Unread(c) \/ HalfRead(c)
    BY <1>2 DEF StreamInv, Streams
  <2> QED
    BY <1>2, <1>5, <2>1, StreamStays
<1>7. Ended' /\ Executions' /\ ReadClosed'
  BY <1>2, <1>5 DEF StreamInv, Ended, Executions, ReadClosed
<1>8. Acked'
  <2> SUFFICES ASSUME NEW q \in Callers, result'[q] = <<"o">>
               PROVE  executed'[on'[q]] = Taken(call'[q])
    BY DEF Acked
  <2>1. q # p
    <3>1. result[q] # <<>>
      BY <1>2, SMTT(30)
    <3> QED
      BY <1>1, <3>1 DEF StreamInv, ReplyInv, NoResultYet
  <2> QED
    BY <1>2, <1>3, <2>1 DEF StreamInv, Acked
<1>9. Writers'
  <2> SUFFICES ASSUME NEW c \in Conns, NEW i \in DOMAIN wrote[c]
               PROVE  on'[wrote[c][i]] = c /\ pc'[wrote[c][i]] \notin {"start", "looking"}
    BY <1>2 DEF Writers
  <2>1. wrote[c][i] \in Callers
    BY StreamTypes
  <2>2. on[wrote[c][i]] = c /\ pc[wrote[c][i]] \notin {"start", "looking"}
    BY DEF StreamInv, Writers
  <2> QED
    BY <1>1, <1>2, <1>3, <2>1, <2>2
<1>10. CallsMade'
  BY <1>1, <1>3 DEF StreamInv, CallsMade
<1> QED
  BY <1>2, <1>4, <1>6, <1>7, <1>8, <1>9, <1>10 DEF StreamInv

(* Concatenation under a name, for the steps where only its laws matter.   *)
Cat(x, y) == x \o y

LEMMA CatLaws ==
  \A S : \A x, y, z \in Seq(S) :
    Cat(x, y) \in Seq(S) /\ Cat(Cat(x, y), z) = Cat(x, Cat(y, z))
<1> TAKE S
<1> TAKE x, y, z \in Seq(S)
<1>1. x \o y \in Seq(S) /\ (x \o y) \o z = x \o (y \o z)
  BY ConcatProperties, ConcatAssociative
<1> QED
  BY <1>1 DEF Cat

(* What a coroutine writes goes behind what is under way. *)
LEMMA TakeKeepsStreams ==
  ASSUME WholeRequests, StreamInv, ReplyInv', NEW p \in Callers, NEW c \in Conns, TakeConn(p, c)
  PROVE  StreamInv'
<1> DEFINE next == IF c \in failed THEN "raised"
                   ELSE IF c \in eof THEN "returned" ELSE "reading"
           q == Request(call[p])
<1>1. /\ pc[p] = "looking" /\ pc' = [pc EXCEPT ![p] = next] /\ on' = [on EXCEPT ![p] = c]
      /\ busy' = Marked(c)
      /\ UNCHANGED <<link, arrived, reply, down, up, pool, eof, failed, call, result, closed>>
      /\ UNCHANGED <<task, cache, alive, executed>>
  BY DEF TakeConn, Take, serverVars
<1>2. /\ \/ sent' = sent
         \/ c \notin lost /\ sent' = [sent EXCEPT ![c] = @ \o q]
      /\ lost' = lost \/ lost' = lost \cup {c}
  BY DEF TakeConn, Take, Write
<1>3. wrote' = IF sent'[c] = sent[c] THEN wrote ELSE [wrote EXCEPT ![c] = Append(@, p)]
  BY DEF TakeConn
<1>4. call[p] \in Calls
  BY <1>1 DEF StreamInv, CallsMade
<1>5. q \in Seq(Byte) /\ q = HeaderOf(call[p]) \o BodyOf(call[p])
      /\ HeaderOf(call[p]) \in Seq(Byte) /\ BodyOf(call[p]) \in Seq(Byte)
  BY <1>4, RequestParts
<1>6. sent[c] \in Seq(Byte) /\ wrote[c] \in Seq(Callers)
      /\ sent[c] \o q \in Seq(Byte) /\ Append(wrote[c], p) \in Seq(Callers)
  <2>1. sent[c] \in Seq(Byte) /\ wrote[c] \in Seq(Callers)
    BY StreamTypes
  <2> HIDE DEF q
  <2> QED
    BY <1>5, <2>1, ConcatProperties
<1>7. \/ UNCHANGED <<sent, wrote>>
      \/ /\ c \notin lost /\ sent' = [sent EXCEPT ![c] = sent[c] \o q]
         /\ wrote' = [wrote EXCEPT ![c] = Append(wrote[c], p)]
  <2>1. CASE sent' = sent
    BY <1>3, <2>1
  <2>2. CASE c \notin lost /\ sent' = [sent EXCEPT ![c] = @ \o q] /\ sent'[c] # sent[c]
    BY <1>3, <2>2
  <2>3. CASE c \notin lost /\ sent' = [sent EXCEPT ![c] = @ \o q] /\ sent'[c] = sent[c]
    <3>1. sent \in [Conns -> Seq(Byte)]
      BY DEF StreamInv, TypeOK, NetTypeOK
    <3> HIDE DEF q
    <3>2. sent' = sent
      BY <2>3, <3>1
    <3> QED
      BY <1>3, <3>2
  <2> QED
    BY <1>2, <2>1, <2>2, <2>3
<1> HIDE DEF q
<1>8. /\ \A d \in Conns \ {c} : sent'[d] = sent[d] /\ wrote'[d] = wrote[d]
      /\ \/ sent'[c] = sent[c] /\ wrote'[c] = wrote[c]
         \/ c \notin lost /\ sent'[c] = sent[c] \o q /\ wrote'[c] = Append(wrote[c], p)
      /\ \A x \in Callers : /\ pc'[x] = IF x = p THEN next ELSE pc[x]
                            /\ on'[x] = IF x = p THEN c ELSE on[x]
  BY <1>1, <1>7 DEF StreamInv, TypeOK, NetTypeOK, ClientTypeOK
<1>9. next \in {"returned", "raised", "reading"}
  OBVIOUS
<1> HIDE DEF next
<1>10. TypeOK'
  <2>1. NetTypeOK' /\ wrote' \in [Conns -> Seq(Callers)]
    BY <1>1, <1>6, <1>7, ZenonT(60) DEF StreamInv, TypeOK, NetTypeOK
  <2>2. ServerTypeOK'
    BY <1>1 DEF StreamInv, TypeOK, ServerTypeOK
  <2>3. ClientTypeOK'
    <3>1. busy' \subseteq Conns
      BY <1>1 DEF StreamInv, TypeOK, ClientTypeOK, Marked
    <3> QED
      BY <1>1, <1>2, <1>9, <3>1 DEF StreamInv, TypeOK, ClientTypeOK
  <2> QED
    BY <2>1, <2>2, <2>3 DEF TypeOK
<1>11. \A d \in Conns : wrote[d] # <<>> => wrote'[d] # <<>> /\ wrote'[d][1] = wrote[d][1]
  <2>1. wrote[c] # <<>> => Append(wrote[c], p) # <<>> /\ Append(wrote[c], p)[1] = wrote[c][1]
    BY <1>6
  <2> QED
    BY <1>8, <2>1
<1>12. \A d \in Conns : wrote[d] # <<>> => First(d)' = First(d)
  BY <1>1, <1>11 DEF First
<1>13. Streams'
  <2> SUFFICES ASSUME NEW d \in Conns, link'[d] # "closed", wrote'[d] # <<>>
               PROVE  Unread(d)' \/ HalfRead(d)'
    BY DEF Streams
  <2>1. CASE sent'[d] = sent[d] /\ wrote'[d] = wrote[d]
    <3>1. Unread(d) \/ HalfRead(d)
      BY <1>1, <2>1 DEF StreamInv, Streams
    <3>2. First(d)' = First(d)
      BY <1>12, <2>1
    <3> QED
      BY <1>1, <2>1, <3>1, <3>2, StreamStays
  <2>2. CASE d = c /\ sent'[c] = sent[c] \o q /\ wrote[c] # <<>>
    <3> DEFINE r == First(c)
               a == arrived[c]
               e == sent[c]
    <3>0. First(c)' = r
      BY <1>12, <2>2
    <3>1. r \in Calls /\ a \in Seq(Byte) /\ e \in Seq(Byte)
      BY <2>2, FirstCall, StreamTypes
    <3>2. /\ HeaderOf(r) \in Seq(Byte) /\ BodyOf(r) \in Seq(Byte)
      BY <3>1, RequestParts
    <3>3. Unread(c) \/ HalfRead(c)
      BY <1>1, <2>2 DEF StreamInv, Streams
    <3>4. sent'[c] = e \o q /\ arrived'[c] = a /\ task'[c] = task[c]
      BY <1>1, <2>2
    <3>5. CASE Unread(c)
      <4>1. PICK rest \in Seq(Byte) : a \o e = HeaderOf(r) \o (BodyOf(r) \o rest)
        BY <3>5 DEF Unread
      <4> HIDE DEF r, a, e
      <4>2. rest \o q \in Seq(Byte) /\ q \in Seq(Byte)
        BY <1>5, ConcatProperties
      <4>4. Cat(a, e) = Cat(HeaderOf(r), Cat(BodyOf(r), rest))
        BY <4>1, Zenon DEF Cat
      <4>5. Cat(a, Cat(e, q)) = Cat(HeaderOf(r), Cat(BodyOf(r), Cat(rest, q)))
        <5>1. Cat(Cat(a, e), q) = Cat(a, Cat(e, q))
          BY <3>1, <4>2, CatLaws
        <5>2. Cat(Cat(BodyOf(r), rest), q) = Cat(BodyOf(r), Cat(rest, q))
          BY <3>2, <4>2, CatLaws
        <5>3. Cat(BodyOf(r), rest) \in Seq(Byte)
          BY <3>2, CatLaws
        <5>4. Cat(Cat(HeaderOf(r), Cat(BodyOf(r), rest)), q)
                = Cat(HeaderOf(r), Cat(Cat(BodyOf(r), rest), q))
          BY <3>2, <4>2, <5>3, CatLaws
        <5> QED
          BY <4>4, <5>1, <5>2, <5>4
      <4>6. a \o (e \o q) = HeaderOf(r) \o (BodyOf(r) \o (rest \o q))
        BY <4>5, Zenon DEF Cat
      <4>7. task[c] = New /\ (a = <<>> \/ Len(a) >= Len(HeaderOf(r)))
        BY <3>5 DEF Unread, a, r
      <4>8. Unread(c)'
        BY <3>0, <3>4, <4>2, <4>6, <4>7 DEF Unread
      <4> QED
        BY <2>2, <4>8
    <3>6. CASE HalfRead(c)
      <4>1. PICK w \in Seq(Byte), rest \in Seq(Byte) :
               task[c] = Awaiting(r, w) /\ w \o (a \o e) = BodyOf(r) \o rest
        BY <3>6 DEF HalfRead
      <4> HIDE DEF r, a, e
      <4>2. rest \o q \in Seq(Byte) /\ q \in Seq(Byte)
        BY <1>5, ConcatProperties
      <4>4. Cat(w, Cat(a, e)) = Cat(BodyOf(r), rest)
        BY <4>1, Zenon DEF Cat
      <4>5. Cat(w, Cat(a, Cat(e, q))) = Cat(BodyOf(r), Cat(rest, q))
        <5>1. Cat(Cat(a, e), q) = Cat(a, Cat(e, q)) /\ Cat(a, e) \in Seq(Byte)
          BY <3>1, <4>2, CatLaws
        <5>2. Cat(Cat(BodyOf(r), rest), q) = Cat(BodyOf(r), Cat(rest, q))
          BY <3>2, <4>2, CatLaws
        <5>3. Cat(Cat(w, Cat(a, e)), q) = Cat(w, Cat(Cat(a, e), q))
          BY <4>2, <5>1, CatLaws
        <5> QED
          BY <4>4, <5>1, <5>2, <5>3
      <4>6. w \o (a \o (e \o q)) = BodyOf(r) \o (rest \o q)
        BY <4>5, Zenon DEF Cat
      <4>7. HalfRead(c)'
        BY <3>0, <3>4, <4>1, <4>2, <4>6 DEF HalfRead
      <4> QED
        BY <2>2, <4>7
    <3> QED
      BY <3>3, <3>5, <3>6
  <2>3. CASE d = c /\ sent'[c] = sent[c] \o q /\ wrote[c] = <<>>
             /\ wrote'[c] = Append(wrote[c], p)
    <3>1. arrived'[c] = <<>> /\ sent[c] = <<>> /\ task'[c] = New
      BY <1>1, <2>3 DEF StreamInv, ReplyInv, Untouched
    <3>2. First(c)' = call[p]
      <4>1. Append(<<>>, p)[1] = p
        OBVIOUS
      <4> QED
        BY <1>1, <2>3, <4>1 DEF First
    <3> DEFINE h == HeaderOf(call[p])
               b == BodyOf(call[p])
    <3>3. h \in Seq(Byte) /\ b \in Seq(Byte) /\ q = h \o b
      BY <1>5
    <3> HIDE DEF h, b
    <3>4. <<>> \o (<<>> \o q) = h \o (b \o <<>>)
      BY <1>5, <3>3, ConcatEmptySeq
    <3>5. <<>> \in Seq(Byte)
      OBVIOUS
    <3>6. \E rest \in Seq(Byte) : arrived'[c] \o sent'[c] = h \o (b \o rest)
      BY <2>3, <3>1, <3>4, <3>5
    <3>7. Unread(c)'
      BY <3>1, <3>2, <3>6 DEF Unread, h, b
    <3> QED
      BY <2>3, <3>7
  <2> QED
    BY <1>8, <2>1, <2>2, <2>3
<1>14. Ended' /\ Executions'
  BY <1>1, <1>11, <1>12 DEF StreamInv, Ended, Executions
<1>15. ASSUME NEW x \in Callers, result'[x] = <<"o">>
       PROVE  x # p /\ result[x] = <<"o">> /\ on'[x] = on[x]
  <2>1. result[x] # <<>>
    BY <1>1, <1>15
  <2>2. x # p
    BY <2>1, <1>1 DEF StreamInv, ReplyInv, NoResultYet
  <2> QED
    BY <1>1, <1>8, <1>15, <2>2
<1>16. ReadClosed' /\ Acked'
  BY <1>1, <1>15 DEF StreamInv, ReadClosed, Acked
<1>17. Writers'
  <2> SUFFICES ASSUME NEW d \in Conns, NEW i \in DOMAIN wrote'[d]
               PROVE  on'[wrote'[d][i]] = d /\ pc'[wrote'[d][i]] \notin {"start", "looking"}
    BY DEF Writers
  <2>1. CASE i \in DOMAIN wrote[d] /\ wrote'[d][i] = wrote[d][i]
    <3>1. wrote[d][i] \in Callers
      BY <2>1, StreamTypes
    <3>2. on[wrote[d][i]] = d /\ pc[wrote[d][i]] \notin {"start", "looking"}
      BY <2>1 DEF StreamInv, Writers
    <3> QED
      BY <1>1, <1>8, <2>1, <3>1, <3>2
  <2>2. CASE d = c /\ wrote'[d][i] = p
    BY <1>8, <1>9, <2>2
  <2>3. \A i_1 \in DOMAIN Append(wrote[c], p) :
          \/ i_1 \in DOMAIN wrote[c] /\ Append(wrote[c], p)[i_1] = wrote[c][i_1]
          \/ Append(wrote[c], p)[i_1] = p
    BY <1>6
  <2> QED
    BY <1>8, <2>1, <2>2, <2>3, ZenonT(60)
<1>18. CallsMade'
  BY <1>1, <1>4, <1>8 DEF StreamInv, CallsMade
<1> QED
  BY <1>1, <1>10, <1>13, <1>14, <1>16, <1>17, <1>18 DEF StreamInv

(* A read takes the answer of a closed connection. *)
LEMMA FinishKeepsStreams ==
  ASSUME StreamInv, ReplyInv', NEW p \in Callers, FinishRead(p)
  PROVE  StreamInv'
<1>1. /\ pc[p] = "reading" /\ on[p] \in Conns
      /\ pc' = [pc EXCEPT ![p] = IF ReadRaises(p) THEN "raised" ELSE "returned"]
      /\ busy' = IF ReadRaises(p) THEN busy ELSE busy \ {on[p]}
      /\ UNCHANGED <<link, sent, arrived, down, up, task, cache, alive, wrote, executed>>
      /\ UNCHANGED <<pool, eof, lost, failed, call, on, closed>>
  <2>1. on[p] \in Conns
    BY DEF FinishRead, ReadReply, ReadEof, Return, ReadRaises, StreamInv, ReplyInv, PoolInv,
           BusyMeans, PoolTypes
  <2>2. CASE ReadRaises(p)
    BY <2>1, <2>2 DEF FinishRead, ReadRaises, netVars, serverVars, history, poolVars,
                      streamVars, callVars
  <2>3. CASE ~ReadRaises(p)
    BY <2>1, <2>3 DEF FinishRead, ReadReply, ReadEof, Return, netVars, serverVars, history,
                      streamVars, callVars
  <2> QED
    BY <2>2, <2>3
<1> DEFINE c == on[p]
<1>2. \/ UNCHANGED <<reply, result>>
      \/ /\ reply[c] # <<>>
         /\ result' = [result EXCEPT ![p] = reply[c]]
         /\ reply' = [reply EXCEPT ![c] = <<>>]
  BY DEF FinishRead, ReadReply, ReadEof, ReadRaises, netVars, callVars
<1> HIDE DEF c
<1>3. c \in Conns /\ c = on[p] /\ reply[c] \in Seq({"o", "e"})
  BY <1>1 DEF c, StreamInv, TypeOK, NetTypeOK
<1>4. TypeOK'
  <2>1. <<>> \in Seq({"o", "e"})
    OBVIOUS
  <2>2. NetTypeOK' /\ ServerTypeOK'
    BY <1>1, <1>2, <2>1, ZenonT(60) DEF StreamInv, TypeOK, NetTypeOK, ServerTypeOK
  <2>3. ClientTypeOK'
    BY <1>1, <1>2, <1>3 DEF StreamInv, TypeOK, ClientTypeOK
  <2> QED
    BY <1>1, <2>2, <2>3 DEF StreamInv, TypeOK
<1>5. /\ \A d \in Conns : reply'[d] = reply[d] \/ reply'[d] = <<>>
      /\ \A q \in Callers : result'[q] = result[q]
                            \/ (q = p /\ result'[q] = reply[c] /\ reply[c] # <<>>)
      /\ \A q \in Callers : pc'[q] = pc[q] \/ (q = p /\ pc'[q] \in {"raised", "returned"})
  BY <1>1, <1>2 DEF StreamInv, TypeOK, NetTypeOK, ClientTypeOK
<1>6. \A d \in Conns : First(d)' = First(d)
  BY <1>1 DEF First
<1>7. Streams'
  BY <1>1, <1>6, StreamStays DEF StreamInv, Streams
<1>8. Ended' /\ Executions'
  <2>1. <<>> # <<"o">>
    OBVIOUS
  <2> QED
    BY <1>1, <1>5, <1>6, <2>1 DEF StreamInv, Ended, Executions
<1>9. ASSUME NEW q \in Callers, result'[q] = <<"o">>
      PROVE  /\ on[q] \in Conns /\ link[on[q]] = "closed"
             /\ executed[on[q]] = Taken(call[q])
  <2>1. CASE result'[q] = result[q]
    BY <1>9, <2>1 DEF StreamInv, ReadClosed, Acked
  <2>2. CASE q = p /\ reply[c] = <<"o">>
    <3>1. link[c] = "closed"
      <4>1. reply[c] # <<>>
        BY <2>2
      <4> QED
        BY <1>3, <4>1 DEF StreamInv, ReplyInv, AnswerCloses
    <3>2. executed[c] = Taken(First(c))
      BY <1>3, <2>2 DEF StreamInv, Executions
    <3>3. wrote[c][1] = p
      BY <1>1, <1>3, <1>9, <2>2 DEF ReplyInv, OwnReply
    <3> QED
      BY <1>3, <2>2, <3>1, <3>2, <3>3 DEF First
  <2> QED
    BY <1>5, <1>9, <2>1, <2>2
<1>10. ReadClosed' /\ Acked'
  BY <1>1, <1>9 DEF ReadClosed, Acked
<1>11. Writers'
  <2> SUFFICES ASSUME NEW d \in Conns, NEW i \in DOMAIN wrote[d]
               PROVE  on[wrote[d][i]] = d /\ pc'[wrote[d][i]] \notin {"start", "looking"}
    BY <1>1 DEF Writers
  <2>1. wrote[d][i] \in Callers
    BY StreamTypes
  <2>2. on[wrote[d][i]] = d /\ pc[wrote[d][i]] \notin {"start", "looking"}
    BY DEF StreamInv, Writers
  <2> QED
    BY <1>5, <2>1, <2>2
<1>12. CallsMade'
  BY <1>1, <1>5 DEF StreamInv, CallsMade
<1> QED
  BY <1>1, <1>4, <1>7, <1>8, <1>10, <1>11, <1>12 DEF StreamInv

(* Steps that leave the callers, the bytes and the tasks alone. *)
LEMMA QuietKeepsStreams ==
  ASSUME StreamInv, ReplyInv', TypeOK',
         UNCHANGED <<pc, on, call, wrote, result, executed>>,
         UNCHANGED <<sent, arrived, reply, task, alive>>,
         \A c \in Conns : link'[c] = "closed" <=> link[c] = "closed",
         up \subseteq up'
  PROVE  StreamInv'
<1>1. /\ Writers' /\ CallsMade' /\ Acked'
      /\ executed' = [c \in Conns |-> executed'[c]]
      /\ \A c \in Conns : First(c)' = First(c)
  BY CallersKeep
<1>2. Streams'
  BY <1>1, StreamStays DEF StreamInv, Streams
<1>3. Ended' /\ Executions'
  BY <1>1 DEF StreamInv, Ended, Executions
<1>4. ReadClosed'
  BY DEF StreamInv, ReadClosed
<1> QED
  BY <1>1, <1>2, <1>3, <1>4 DEF StreamInv

(* Opening, accepting, the event loop and close. *)
LEMMA ClientKeepsStreams ==
  ASSUME StreamInv, ReplyInv', NEW c \in Conns, OpenOne(c) \/ EventLoop(c) \/ CloseAll
  PROVE  StreamInv'
<1>1. /\ UNCHANGED <<pc, on, call, wrote, result, executed>>
      /\ UNCHANGED <<sent, arrived, reply, task, alive, down, cache, busy>>
  BY DEF OpenOne, Open, EventLoop, NoticeEof, NoticeReset, ConnectionLost, CloseAll, Close,
         netVars, serverVars, callVars, poolVars, history
<1>2. link' = link \/ (link[c] = "none" /\ link' = [link EXCEPT ![c] = "backlog"])
  BY DEF OpenOne, Open, EventLoop, NoticeEof, NoticeReset, ConnectionLost, CloseAll, Close,
         netVars
<1>3. \A d \in Conns : link'[d] = "closed" <=> link[d] = "closed"
  BY <1>2 DEF StreamInv, TypeOK, NetTypeOK
<1>4. pool \in Seq(Conns) /\ {pool[i] : i \in DOMAIN pool} \subseteq Conns
  BY DEF StreamInv, TypeOK, ClientTypeOK
<1>5. pool' = pool \/ pool' = Append(pool, c)
  BY DEF OpenOne, Open, EventLoop, NoticeEof, NoticeReset, ConnectionLost, CloseAll, Close,
         poolVars
<1>6. /\ eof' \in {eof, eof \cup {c}}
      /\ \/ lost' \in {lost, lost \cup {c}} /\ failed' = failed /\ up' = up
         \/ c \in lost /\ lost' = lost /\ failed' \in {failed, failed \cup {c}} /\ up' = up
         \/ /\ up' = up \cup ({pool[i] : i \in DOMAIN pool} \ lost)
            /\ lost' = lost \cup {pool[i] : i \in DOMAIN pool}
            /\ failed' = failed
      /\ closed' \in {closed, TRUE}
  BY DEF OpenOne, Open, EventLoop, NoticeEof, NoticeReset, ConnectionLost, CloseAll, Close,
         netVars, streamVars
<1>7. NetTypeOK' /\ up \subseteq up'
  BY <1>1, <1>2, <1>4, <1>6 DEF StreamInv, TypeOK, NetTypeOK
<1>8. ServerTypeOK'
  BY <1>1 DEF StreamInv, TypeOK, ServerTypeOK
<1>9. pool' \in Seq(Conns)
  BY <1>4, <1>5
<1>10. ClientTypeOK'
  BY <1>1, <1>4, <1>6, <1>9 DEF StreamInv, TypeOK, ClientTypeOK
<1>11. TypeOK'
  BY <1>1, <1>7, <1>8, <1>10 DEF StreamInv, TypeOK
<1> QED
  BY <1>1, <1>3, <1>7, <1>11, QuietKeepsStreams

(* Bytes that arrive were under way, and no header arrives in pieces. *)
LEMMA ArriveKeepsStreams ==
  ASSUME WholeRequests, StreamInv, ReplyInv', NEW c \in Conns, Bytes(c)
  PROVE  StreamInv'
<1> DEFINE a == arrived[c]
           e == sent[c]
<1>1. /\ UNCHANGED <<pc, on, call, wrote, result, executed>>
      /\ UNCHANGED <<link, reply, task, alive, up, cache>>
      /\ UNCHANGED <<pool, busy, eof, lost, failed, closed>>
  BY DEF Bytes, Arrive, serverVars, clientVars, callVars, poolVars, streamVars, history
<1>2. e # <<>> /\ a \in Seq(Byte) /\ e \in Seq(Byte) /\ Len(e) \in Nat /\ Len(e) > 0
  <2>1. a \in Seq(Byte) /\ e \in Seq(Byte)
    BY StreamTypes
  <2>2. e # <<>>
    BY DEF Bytes, Arrive
  <2> HIDE DEF a, e
  <2> QED
    BY <2>1, <2>2
<1>3. PICK n \in (Cuts \cap 1 .. Len(e)) \cup {Len(e)} :
        /\ sent' = [sent EXCEPT ![c] = SubSeq(e, n + 1, Len(e))]
        /\ IF link[c] = "closed"
           THEN /\ down' = [down EXCEPT ![c] = @ \cup {"rst"}]
                /\ UNCHANGED arrived
           ELSE /\ arrived' = [arrived EXCEPT ![c] = a \o SubSeq(e, 1, n)]
                /\ UNCHANGED down
  BY DEF Bytes, Arrive
<1> DEFINE x == SubSeq(e, 1, n)
           y == SubSeq(e, n + 1, Len(e))
<1>4. n \in 1 .. Len(e) /\ (n > 2 * SizeLen \/ n = Len(e)) /\ SizeLen \in Nat
  <2>1. n \in Cuts => n > 2 * SizeLen
    BY DEF WholeRequests
  <2> HIDE DEF e
  <2> QED
    BY <1>2, <1>3, <2>1, NetAssumption
<1>5. /\ x \in Seq(Byte) /\ y \in Seq(Byte) /\ x \o y = e /\ Len(x) = n
  <2> HIDE DEF e, a
  <2>1. x \in Seq(Byte) /\ Len(x) = n
    BY <1>2, <1>4
  <2>2. y \in Seq(Byte)
    BY <1>2, <1>4
  <2>3. 1 \in 1 .. Len(e) + 1 /\ n \in 1 - 1 .. Len(e) /\ Len(e) \in n .. Len(e)
    BY <1>2, <1>4
  <2>4. x \o y = SubSeq(e, 1, Len(e))
    BY <1>2, <2>3, ConcatAdjacentSubSeq
  <2>5. SubSeq(e, 1, Len(e)) = e
    BY <1>2, SubSeqFull
  <2> QED
    BY <2>1, <2>2, <2>4, <2>5
<1> HIDE DEF x, y
<1>6. a \o x \in Seq(Byte) /\ Len(a \o x) = Len(a) + n /\ Len(a) \in Nat
      /\ (a \o x) \o y = a \o (x \o y)
  <2> HIDE DEF a, e
  <2>0. a \in Seq(Byte) /\ x \in Seq(Byte)
    BY <1>2, <1>5
  <2>1. a \o x \in Seq(Byte) /\ Len(a \o x) = Len(a) + Len(x) /\ Len(a) \in Nat
    BY <2>0, ConcatProperties
  <2>2. Cat(Cat(a, x), y) = Cat(a, Cat(x, y))
    BY <1>2, <1>5, CatLaws
  <2> QED
    BY <1>5, <2>1, <2>2 DEF Cat
<1>7. TypeOK'
  <2>1. /\ sent' = [sent EXCEPT ![c] = y]
        /\ arrived' = arrived \/ arrived' = [arrived EXCEPT ![c] = a \o x]
        /\ down' = down \/ down' = [down EXCEPT ![c] = @ \cup {"rst"}]
    BY <1>3 DEF x, y
  <2>2. NetTypeOK'
    <3> DEFINE z == a \o x
    <3>1. z \in Seq(Byte) /\ y \in Seq(Byte)
      BY <1>5, <1>6
    <3>2. arrived' = arrived \/ arrived' = [arrived EXCEPT ![c] = z]
      BY <2>1
    <3> HIDE DEF z, a, e
    <3>3. sent' = [sent EXCEPT ![c] = y]
          /\ (down' = down \/ down' = [down EXCEPT ![c] = @ \cup {"rst"}])
      BY <2>1
    <3>4. /\ sent \in [Conns -> Seq(Byte)] /\ arrived \in [Conns -> Seq(Byte)]
          /\ down \in [Conns -> SUBSET {"fin", "rst"}]
      BY DEF StreamInv, TypeOK, NetTypeOK
    <3>5. sent' \in [Conns -> Seq(Byte)]
      BY <3>1, <3>3, <3>4
    <3>6. arrived' \in [Conns -> Seq(Byte)]
      BY <3>1, <3>2, <3>4
    <3>7. down' \in [Conns -> SUBSET {"fin", "rst"}]
      BY <3>3, <3>4
    <3> QED
      BY <1>1, <3>5, <3>6, <3>7 DEF StreamInv, TypeOK, NetTypeOK
  <2>3. ServerTypeOK' /\ ClientTypeOK'
    BY <1>1 DEF StreamInv, TypeOK, ServerTypeOK, ClientTypeOK
  <2> QED
    BY <1>1, <2>2, <2>3 DEF StreamInv, TypeOK
<1>8. /\ Writers' /\ CallsMade' /\ Acked'
      /\ executed' = [d \in Conns |-> executed'[d]]
      /\ \A d \in Conns : First(d)' = First(d)
  BY <1>1, CallersKeep
<1>9. Ended' /\ Executions' /\ ReadClosed'
  BY <1>1, <1>8 DEF StreamInv, Ended, Executions, ReadClosed
<1>10. ASSUME link[c] # "closed", wrote[c] # <<>>
       PROVE  Unread(c)' \/ HalfRead(c)'
  <2>1. Unread(c) \/ HalfRead(c)
    BY <1>10 DEF StreamInv, Streams
  <2>2. /\ sent'[c] = y /\ arrived'[c] = a \o x /\ task'[c] = task[c]
        /\ First(c)' = First(c)
    BY <1>1, <1>3, <1>8, <1>10 DEF StreamInv, TypeOK, NetTypeOK, x, y
  <2> DEFINE r == First(c)
             h == HeaderOf(r)
             b == BodyOf(r)
  <2>3. h \in Seq(Byte) /\ b \in Seq(Byte) /\ Len(h) <= 2 * SizeLen + 1 /\ Len(h) \in Nat
    <3>1. r \in Calls
      BY <1>10, FirstCall
    <3> HIDE DEF r
    <3>2. h \in Seq(Byte) /\ b \in Seq(Byte) /\ Len(h) = HasSizes(Letter(r)) * SizeLen + 1
      BY <3>1, RequestParts
    <3>3. HasSizes(Letter(r)) \in {1, 2}
      BY DEF HasSizes
    <3> HIDE DEF h, b
    <3> QED
      BY <1>4, <3>2, <3>3
  <2>4. (a \o x) \o y = a \o e
    BY <1>5, <1>6
  <2>5. CASE Unread(c)
    <3>1. PICK rest \in Seq(Byte) : a \o e = h \o (b \o rest)
      BY <2>5 DEF Unread
    <3>2. task[c] = New /\ (a = <<>> \/ Len(a) >= Len(h))
      BY <2>5 DEF Unread
    <3>3. Len(a \o x) >= Len(h)
      <4> HIDE DEF a, e, h, b, r
      <4>1. CASE n > 2 * SizeLen \/ Len(a) >= Len(h)
        BY <1>4, <1>6, <2>3, <4>1
      <4>2. CASE a = <<>> /\ n = Len(e)
        <5>1. b \o rest \in Seq(Byte) /\ Len(b \o rest) \in Nat
          BY <2>3, ConcatProperties
        <5>2. Len(h \o (b \o rest)) = Len(h) + Len(b \o rest)
          BY <2>3, <5>1, ConcatProperties
        <5>3. Len(a \o e) = Len(a) + n
          BY <1>2, <4>2, ConcatProperties
        <5> QED
          BY <1>4, <1>6, <2>3, <3>1, <5>1, <5>2, <5>3
      <4> QED
        BY <1>4, <3>2, <4>1, <4>2
    <3>4. (a \o x) \o y = h \o (b \o rest)
      BY <2>4, <3>1
    <3>5. Unread(c)'
      <4> HIDE DEF a, e
      <4> QED
        BY <2>2, <3>2, <3>3, <3>4 DEF Unread
    <3> QED
      BY <3>5
  <2>6. CASE HalfRead(c)
    <3>1. PICK w \in Seq(Byte), rest \in Seq(Byte) :
             task[c] = Awaiting(r, w) /\ w \o (a \o e) = b \o rest
      BY <2>6 DEF HalfRead
    <3>2. w \o ((a \o x) \o y) = b \o rest
      BY <2>4, <3>1
    <3>3. HalfRead(c)'
      <4> HIDE DEF a, e
      <4> QED
        BY <2>2, <3>1, <3>2 DEF HalfRead
    <3> QED
      BY <3>3
  <2> QED
    BY <2>1, <2>5, <2>6
<1>11. Streams'
  <2> SUFFICES ASSUME NEW d \in Conns, link'[d] # "closed", wrote'[d] # <<>>
               PROVE  Unread(d)' \/ HalfRead(d)'
    BY DEF Streams
  <2>1. CASE d = c
    BY <1>1, <1>10, <2>1
  <2>2. CASE d # c
    <3>1. Unread(d) \/ HalfRead(d)
      BY <1>1 DEF StreamInv, Streams
    <3>2. sent'[d] = sent[d] /\ arrived'[d] = arrived[d]
      BY <1>3, <2>2 DEF StreamInv, TypeOK, NetTypeOK
    <3> QED
      BY <1>1, <1>8, <3>1, <3>2, StreamStays
  <2> QED
    BY <2>1, <2>2
<1> QED
  BY <1>1, <1>7, <1>8, <1>9, <1>11 DEF StreamInv

LEMMA AcceptKeepsStreams ==
  ASSUME StreamInv, ReplyInv', NEW c \in Conns, Accept(c), UNCHANGED <<clientVars, history>>
  PROVE  StreamInv'
<1>1. /\ UNCHANGED <<pc, on, call, wrote, result, executed>>
      /\ UNCHANGED <<sent, arrived, reply, task, alive, down, up, cache>>
      /\ UNCHANGED <<pool, busy, eof, lost, failed, closed>>
      /\ link[c] = "backlog" /\ link' = [link EXCEPT ![c] = "accepted"]
  BY DEF Accept, serverVars, clientVars, callVars, poolVars, streamVars, history
<1>2. NetTypeOK'
  BY <1>1 DEF StreamInv, TypeOK, NetTypeOK
<1>3. ServerTypeOK' /\ ClientTypeOK'
  BY <1>1 DEF StreamInv, TypeOK, ServerTypeOK, ClientTypeOK
<1>4. TypeOK'
  BY <1>1, <1>2, <1>3 DEF StreamInv, TypeOK
<1>5. \A d \in Conns : link'[d] = "closed" <=> link[d] = "closed"
  BY <1>1 DEF StreamInv, TypeOK, NetTypeOK
<1> QED
  BY <1>1, <1>4, <1>5, QuietKeepsStreams

(* A poll that does not end the task leaves it waiting for the body. *)
LEMMA AwaitKeepsStreams ==
  ASSUME WholeRequests, StreamInv, ReplyInv', NEW c \in Conns, Await(c),
         UNCHANGED <<clientVars, history>>
  PROVE  StreamInv'
<1>1. /\ UNCHANGED <<pc, on, call, wrote, result, executed>>
      /\ UNCHANGED <<link, sent, reply, down, up, cache, alive>>
      /\ UNCHANGED <<pool, busy, eof, lost, failed, closed>>
      /\ Polled(c)
      /\ arrived' = [arrived EXCEPT ![c] = <<>>]
      /\ task' = [task EXCEPT ![c] = Header(Filled(c))]
  BY DEF Await, Polled, clientVars, callVars, poolVars, streamVars, history
<1>2. /\ Writers' /\ CallsMade' /\ Acked'
      /\ executed' = [d \in Conns |-> executed'[d]]
      /\ \A d \in Conns : First(d)' = First(d)
  BY <1>1, CallersKeep
<1>3. link[c] = "accepted"
  BY <1>1 DEF Polled
<1>4. /\ arrived'[c] = <<>> /\ task'[c] = Header(Filled(c))
      /\ \A d \in Conns \ {c} : arrived'[d] = arrived[d] /\ task'[d] = task[d]
  BY <1>1 DEF StreamInv, ReplyInv, ReplyTypes, OverConns
<1>5. CASE wrote[c] = <<>>
  <2>1. task'[c] = New /\ task[c] = New /\ arrived[c] = <<>>
    BY <1>4, <1>5, NoMessage DEF StreamInv, ReplyInv, Untouched
  <2>2. task' = task /\ arrived' = arrived
    BY <1>1, <1>4, <2>1 DEF StreamInv, ReplyInv, ReplyTypes, OverConns
  <2>3. TypeOK'
    <3>1. NetTypeOK' /\ ServerTypeOK'
      BY <1>1, <2>2 DEF StreamInv, TypeOK, NetTypeOK, ServerTypeOK
    <3>2. ClientTypeOK'
      BY <1>1 DEF StreamInv, TypeOK, ClientTypeOK
    <3> QED
      BY <1>1, <3>1, <3>2 DEF StreamInv, TypeOK
  <2> QED
    BY <1>1, <2>2, <2>3, QuietKeepsStreams
<1>6. CASE wrote[c] # <<>>
  <2>1. PICK w \in Seq(Byte), rest \in Seq(Byte) :
          /\ Header(Filled(c)) = Awaiting(First(c), w)
          /\ w \o sent[c] = BodyOf(First(c)) \o rest
    BY <1>1, <1>6, Received
  <2> DEFINE r == First(c)
  <2>2. r \in Calls /\ Len(r.key) \in Nat /\ ValLen(r) \in Nat
    <3>1. r \in Calls
      BY <1>6, FirstCall
    <3> HIDE DEF r
    <3>2. Len(r.key) \in Nat /\ Len(r.val) \in Nat
      BY <3>1, CallStrings
    <3> QED
      BY <3>1, <3>2 DEF ValLen
  <2>3. task'[c] = Awaiting(r, w)
    BY <1>4, <2>1
  <2> HIDE DEF r
  <2>4. TypeOK'
    <3>1. NetTypeOK'
      <4>1. <<>> \in Seq(Byte)
        OBVIOUS
      <4> QED
        BY <1>1, <4>1 DEF StreamInv, TypeOK, NetTypeOK
    <3>2. ServerTypeOK'
      <4>1. /\ task'[c].state = 1 /\ task'[c].keyLen = Len(r.key)
            /\ task'[c].valLen = ValLen(r) /\ task'[c].rd = w
        BY <2>3 DEF Awaiting
      <4> QED
        BY <1>1, <1>4, <2>2, <4>1 DEF StreamInv, TypeOK, ServerTypeOK
    <3>3. ClientTypeOK'
      BY <1>1 DEF StreamInv, TypeOK, ClientTypeOK
    <3> QED
      BY <1>1, <3>1, <3>2, <3>3 DEF StreamInv, TypeOK
  <2>5. HalfRead(c)'
    <3> DEFINE e == sent[c]
    <3>1. <<>> \o e = e
      <4>1. e \in Seq(Byte)
        BY StreamTypes
      <4> HIDE DEF e
      <4> QED
        BY <4>1, ConcatEmptySeq
    <3>2. w \o (arrived'[c] \o sent'[c]) = BodyOf(r) \o rest
      BY <1>1, <1>4, <2>1, <3>1 DEF r
    <3>3. First(c)' = r
      BY <1>2 DEF r
    <3> QED
      BY <2>3, <3>2, <3>3 DEF HalfRead
  <2>6. Streams'
    <3> SUFFICES ASSUME NEW d \in Conns, link'[d] # "closed", wrote'[d] # <<>>
                 PROVE  Unread(d)' \/ HalfRead(d)'
      BY DEF Streams
    <3>1. CASE d = c
      BY <2>5, <3>1
    <3>2. CASE d # c
      <4>1. Unread(d) \/ HalfRead(d)
        BY <1>1 DEF StreamInv, Streams
      <4> QED
        BY <1>1, <1>2, <1>4, <3>2, <4>1, StreamStays
    <3> QED
      BY <3>1, <3>2
  <2>7. Ended' /\ Executions' /\ ReadClosed'
    BY <1>1, <1>2, <1>3, <1>4 DEF StreamInv, Ended, Executions, ReadClosed
  <2> QED
    BY <1>1, <1>2, <2>4, <2>6, <2>7 DEF StreamInv
<1> QED
  BY <1>5, <1>6

(* A poll that finds the whole body takes the request that was written.    *)
LEMMA Taking ==
  ASSUME WholeRequests, StreamInv, NEW c \in Conns, Serve(c)
  PROVE  /\ wrote[c] # <<>>
         /\ LET m == Header(Filled(c))
            IN  [op |-> m.op, key |-> MessageKey(m), val |-> MessageVal(m)] = Taken(First(c))
<1>1. Polled(c) /\ Complete(Header(Filled(c)))
  BY DEF Serve
<1>2. wrote[c] # <<>>
  BY <1>1, NoMessage DEF StreamInv
<1>3. PICK w \in Seq(Byte), rest \in Seq(Byte) :
        /\ Header(Filled(c)) = Awaiting(First(c), w)
        /\ w \o sent[c] = BodyOf(First(c)) \o rest
  BY <1>1, <1>2, Received
<1> DEFINE r == First(c)
           m == Header(Filled(c))
           e == sent[c]
<1>4. r \in Calls /\ e \in Seq(Byte)
  BY <1>2, FirstCall, StreamTypes
<1>5. m = Awaiting(r, w) /\ w \o e = BodyOf(r) \o rest /\ Complete(m)
  BY <1>1, <1>3
<1> HIDE DEF r, m, e
<1>6. Len(w) >= Len(r.key) + ValLen(r)
  BY <1>5 DEF Complete, Awaiting
<1>7. [op |-> m.op, key |-> MessageKey(m), val |-> MessageVal(m)] = Taken(r)
  BY <1>4, <1>5, <1>6, BodyRead
<1> QED
  BY <1>2, <1>7 DEF m, r

(* The end of a task. *)
LEMMA AnswerKeepsStreams ==
  ASSUME WholeRequests, StreamInv, ReplyInv', NEW c \in Conns, UNCHANGED <<clientVars, wrote>>,
         \/ ServeOne(c)
         \/ Disconnect(c) /\ UNCHANGED executed
  PROVE  StreamInv'
<1>1. /\ UNCHANGED <<pc, on, call, wrote, result>>
      /\ UNCHANGED <<sent, up, alive>>
      /\ UNCHANGED <<pool, busy, eof, lost, failed, closed>>
      /\ link[c] = "accepted" /\ link' = [link EXCEPT ![c] = "closed"]
      /\ arrived' = [arrived EXCEPT ![c] = <<>>]
      /\ task' = [task EXCEPT ![c] = New]
      /\ down' = [down EXCEPT ![c] = @ \cup {"fin"}]
  BY DEF ServeOne, Serve, Disconnect, Answer, Polled, clientVars, callVars, poolVars, streamVars
<1>2. \E b \in {"o", "e"} :
        /\ reply' = [reply EXCEPT ![c] = Append(@, b)]
        /\ b = "o" => Serve(c) /\ ServeOne(c)
        /\ b = "e" => c \in up /\ UNCHANGED executed
  BY DEF ServeOne, Serve, Disconnect, Answer
<1>3. PICK b \in {"o", "e"} :
        /\ reply' = [reply EXCEPT ![c] = Append(@, b)]
        /\ b = "o" => Serve(c) /\ ServeOne(c)
        /\ b = "e" => c \in up /\ UNCHANGED executed
  BY <1>2
<1>4. reply[c] = <<>>
  BY <1>1 DEF StreamInv, ReplyInv, AnswerCloses
<1>5. \A d \in Conns :
        /\ link'[d] = IF d = c THEN "closed" ELSE link[d]
        /\ reply'[d] = IF d = c THEN <<b>> ELSE reply[d]
        /\ arrived'[d] = IF d = c THEN <<>> ELSE arrived[d]
        /\ task'[d] = IF d = c THEN New ELSE task[d]
  <2>1. Append(<<>>, b) = <<b>>
    OBVIOUS
  <2> QED
    BY <1>1, <1>3, <1>4, <2>1 DEF StreamInv, ReplyInv, ReplyTypes, OverConns
<1>6. \A d \in Conns : First(d)' = First(d)
  BY <1>1 DEF First
<1>7. b = "o" => /\ wrote[c] # <<>>
                 /\ executed' = [executed EXCEPT ![c] = Taken(First(c))]
  <2> SUFFICES ASSUME b = "o"
               PROVE  /\ wrote[c] # <<>>
                      /\ executed' = [executed EXCEPT ![c] = Taken(First(c))]
    OBVIOUS
  <2> DEFINE m == Header(Filled(c))
  <2>1. /\ wrote[c] # <<>>
        /\ [op |-> m.op, key |-> MessageKey(m), val |-> MessageVal(m)] = Taken(First(c))
    BY <1>3, Taking
  <2>2. executed' = [executed EXCEPT ![c] =
                       [op |-> m.op, key |-> MessageKey(m), val |-> MessageVal(m)]]
    BY <1>3 DEF ServeOne
  <2> QED
    BY <2>1, <2>2
<1>8. /\ executed' = [d \in Conns |-> executed'[d]]
      /\ \A d \in Conns : executed'[d] = executed[d]
                          \/ (d = c /\ b = "o" /\ executed'[c] = Taken(First(c)))
  BY <1>3, <1>7 DEF StreamInv
<1>9. TypeOK'
  <2>1. <<>> \in Seq(Byte) /\ Append(reply[c], b) \in Seq({"o", "e"})
    BY <1>4
  <2>2. NetTypeOK'
    BY <1>1, <1>3, <2>1 DEF StreamInv, TypeOK, NetTypeOK
  <2>3. ServerTypeOK'
    <3>1. /\ New.state \in {0, 1} /\ New.keyLen \in Nat /\ New.valLen \in Nat
          /\ New.rd \in Seq(Byte)
      BY DEF New
    <3>2. ASSUME NEW d \in Conns
          PROVE  /\ task'[d].state \in {0, 1}
                 /\ task'[d].keyLen \in Nat /\ task'[d].valLen \in Nat
                 /\ task'[d].rd \in Seq(Byte)
      <4>1. CASE d = c
        <5>1. task'[d] = New
          BY <1>5, <4>1
        <5> QED
          BY <3>1, <5>1
      <4>2. CASE d # c
        <5>1. task'[d] = task[d]
          BY <1>5, <4>2
        <5> QED
          BY <5>1 DEF StreamInv, TypeOK, ServerTypeOK
      <4> QED
        BY <4>1, <4>2
    <3> QED
      BY <1>1, <3>2 DEF StreamInv, TypeOK, ServerTypeOK
  <2>4. ClientTypeOK'
    BY <1>1 DEF StreamInv, TypeOK, ClientTypeOK
  <2> QED
    BY <1>1, <2>2, <2>3, <2>4 DEF StreamInv, TypeOK
<1>10. Streams'
  <2> SUFFICES ASSUME NEW d \in Conns, link'[d] # "closed", wrote'[d] # <<>>
               PROVE  Unread(d)' \/ HalfRead(d)'
    BY DEF Streams
  <2>1. d # c /\ link[d] # "closed"
    BY <1>5
  <2>2. Unread(d) \/ HalfRead(d)
    BY <1>1, <2>1 DEF StreamInv, Streams
  <2>3. task'[d] = task[d] /\ arrived'[d] = arrived[d] /\ sent'[d] = sent[d]
    BY <1>1, <1>5, <2>1
  <2> QED
    BY <1>6, <2>2, <2>3, StreamStays
<1>11. Ended'
  BY <1>1, <1>3, <1>5, <1>7 DEF StreamInv, Ended
<1>12. Executions'
  <2> SUFFICES ASSUME NEW d \in Conns, reply'[d] = <<"o">>
               PROVE  wrote[d] # <<>> /\ executed'[d] = Taken(First(d))
    BY <1>1, <1>6 DEF Executions
  <2>1. CASE d = c
    <3>1. b = "o"
      <4>1. <<b>> = <<"o">>
        BY <1>5, <2>1
      <4> QED
        BY <4>1
    <3> QED
      BY <1>7, <2>1, <3>1 DEF StreamInv
  <2>2. CASE d # c
    BY <1>5, <1>8, <2>2 DEF StreamInv, Executions
  <2> QED
    BY <2>1, <2>2
<1>13. ReadClosed' /\ Acked'
  <2> SUFFICES ASSUME NEW p \in Callers, result[p] = <<"o">>
               PROVE  /\ on[p] \in Conns /\ link'[on[p]] = "closed"
                      /\ executed'[on[p]] = Taken(call[p])
    BY <1>1 DEF ReadClosed, Acked
  <2>1. on[p] \in Conns /\ link[on[p]] = "closed" /\ executed[on[p]] = Taken(call[p])
    BY DEF StreamInv, ReadClosed, Acked
  <2>2. on[p] # c
    BY <1>1, <2>1
  <2> QED
    BY <1>5, <1>8, <2>1, <2>2
<1>14. Writers' /\ CallsMade'
  BY <1>1 DEF StreamInv, Writers, CallsMade
<1> QED
  BY <1>1, <1>8, <1>9, <1>10, <1>11, <1>12, <1>13, <1>14 DEF StreamInv

LEMMA StreamStep == WholeRequests /\ StreamInv /\ [Next]_vars => StreamInv'
<1> SUFFICES ASSUME WholeRequests, StreamInv, [Next]_vars  PROVE StreamInv'
  OBVIOUS
<1>1. ReplyInv'
  BY ReplyStep DEF StreamInv
<1>2. CASE \E p \in Callers : StartCall(p) \/ FinishRead(p)
  BY <1>1, <1>2, StartKeepsStreams, FinishKeepsStreams
<1>3. CASE \E p \in Callers, c \in Conns : TakeConn(p, c)
  BY <1>1, <1>3, TakeKeepsStreams
<1>4. CASE \E c \in Conns : OpenOne(c) \/ EventLoop(c)
  BY <1>1, <1>4, ClientKeepsStreams
<1>5. CASE \E c \in Conns : Bytes(c)
  BY <1>1, <1>5, ArriveKeepsStreams
<1>6. ASSUME NEW c \in Conns, ServerStep(c)
      PROVE  StreamInv'
  <2>1. CASE ServeOne(c)
    <3>1. UNCHANGED <<clientVars, wrote>>
      BY <2>1 DEF ServeOne
    <3> QED
      BY <1>1, <2>1, <3>1, AnswerKeepsStreams
  <2>2. CASE Accept(c) /\ UNCHANGED <<clientVars, history>>
    BY <1>1, <2>2, AcceptKeepsStreams
  <2>3. CASE Await(c) /\ UNCHANGED <<clientVars, history>>
    BY <1>1, <2>3, AwaitKeepsStreams
  <2>4. CASE Disconnect(c) /\ UNCHANGED <<clientVars, history>>
    BY <1>1, <2>4, AnswerKeepsStreams DEF history
  <2>5. CASE Panic(c)
    BY <2>5, NoPanic DEF Panic
  <2> QED
    BY <1>6, <2>1, <2>2, <2>3, <2>4, <2>5 DEF ServerStep
<1>7. CASE CloseAll
  <2>1. CASE Conns # {}
    BY <1>1, <1>7, <2>1, ClientKeepsStreams
  <2>2. CASE Conns = {}
    <3>1. /\ UNCHANGED <<pc, on, call, wrote, result, executed>>
          /\ UNCHANGED <<sent, arrived, reply, task, alive, down, cache, busy, link>>
          /\ UNCHANGED <<pool, eof, failed>>
          /\ up' = up \cup ({pool[i] : i \in DOMAIN pool} \ lost)
          /\ lost' = lost \cup {pool[i] : i \in DOMAIN pool} /\ closed' = TRUE
      BY <1>7 DEF CloseAll, Close, serverVars, poolVars, callVars, history
    <3>2. pool \in Seq(Conns)
      BY DEF StreamInv, TypeOK, ClientTypeOK
    <3>3. {pool[i] : i \in DOMAIN pool} \subseteq Conns
      BY <3>2
    <3>4. TypeOK'
      <4>1. NetTypeOK' /\ ServerTypeOK'
        BY <3>1, <3>3 DEF StreamInv, TypeOK, NetTypeOK, ServerTypeOK
      <4>2. ClientTypeOK'
        BY <3>1, <3>3 DEF StreamInv, TypeOK, ClientTypeOK
      <4> QED
        BY <3>1, <4>1, <4>2 DEF StreamInv, TypeOK
    <3> QED
      BY <1>1, <3>1, <3>4, QuietKeepsStreams
  <2> QED
    BY <2>1, <2>2
<1>8. CASE UNCHANGED vars
  <2>1. /\ UNCHANGED <<pc, on, call, wrote, result, executed>>
        /\ UNCHANGED <<sent, arrived, reply, task, alive, down, cache, busy, link>>
        /\ UNCHANGED <<pool, eof, failed, up, lost, closed>>
    BY <1>8 DEF vars, netVars, serverVars, clientVars, poolVars, streamVars, callVars, history
  <2>2. TypeOK'
    <3>1. NetTypeOK' /\ ServerTypeOK'
      BY <2>1 DEF StreamInv, TypeOK, NetTypeOK, ServerTypeOK
    <3>2. ClientTypeOK'
      BY <2>1 DEF StreamInv, TypeOK, ClientTypeOK
    <3> QED
      BY <2>1, <3>1, <3>2 DEF StreamInv, TypeOK
  <2> QED
    BY <1>1, <2>1, <2>2, QuietKeepsStreams
<1> QED
  BY <1>2, <1>3, <1>4, <1>5, <1>6, <1>7, <1>8 DEF Next

LEMMA StreamInvariant == WholeRequests => (Spec => []StreamInv)
<1>1. WholeRequests /\ StreamInv /\ [Next]_vars => StreamInv'
  BY StreamStep
<1>2. WholeRequests => [](WholeRequests)
  OBVIOUS
<1> QED
  BY StreamInit, <1>1, <1>2, PTL DEF Spec

(* The program's variables have their types: what the server makes of the  *)
(* bytes it reads are sizes and bytes.                                     *)
THEOREM TypesAlways == WholeRequests => (Spec => []TypeOK)
<1>1. StreamInv => TypeOK
  BY DEF StreamInv
<1> QED
  BY StreamInvariant, <1>1, PTL

(* An "o" that a coroutine reads acknowledges its own request, whole.      *)
THEOREM AckedAlways == WholeRequests => (Spec => []Acked)
<1>1. StreamInv => Acked
  BY DEF StreamInv
<1> QED
  BY StreamInvariant, <1>1, PTL

(* The server does not panic where sizes are true and no segment ends      *)
(* inside a header.                                                        *)
THEOREM ServerLives == WholeRequests => (Spec => [](alive = TRUE))
<1>1. StreamInv => alive = TRUE
  BY DEF StreamInv
<1> QED
  BY StreamInvariant, <1>1, PTL

-----------------------------------------------------------------------------
(***************************************************************************)
(* The cache service.  A request waits from the moment its caller is the   *)
(* first to write on a connection until the server closes it; the server's *)
(* poll that finds the whole body is the step in which it takes effect.    *)
(***************************************************************************)

Waiting == {p \in Firsts : link[on[p]] # "closed"}
Wanted == [p \in Firsts |-> [Taken(call[p]) EXCEPT !.op = call[p].op]]
Wishes == {[Taken(r) EXCEPT !.op = r.op] : r \in Calls}

(* Who is first, by name. *)
LEMMA FirstsOf ==
  ASSUME StreamInv, NEW p, p \in Firsts
  PROVE  /\ p \in Callers /\ on[p] \in Conns /\ wrote[on[p]] # <<>> /\ wrote[on[p]][1] = p
         /\ pc[p] \notin {"start", "looking"}
<1>1. PICK c \in Conns : p \in FirstOn(c)
  BY DEF Firsts
<1>2. 1 \in DOMAIN wrote[c] /\ p = wrote[c][1]
  BY <1>1 DEF FirstOn
<1>3. wrote[c] # <<>>
  BY <1>2
<1> QED
  BY <1>2, <1>3, FirstCall

LEMMA IsFirst ==
  ASSUME StreamInv, NEW c \in Conns
  PROVE  FirstOn(c) = IF wrote[c] = <<>> THEN {} ELSE {wrote[c][1]}
<1>1. wrote[c] \in Seq(Callers)
  BY StreamTypes
<1>2. CASE wrote[c] = <<>>
  BY <1>2 DEF FirstOn
<1>3. CASE wrote[c] # <<>>
  <2>1. 1 \in DOMAIN wrote[c]
    BY <1>1, <1>3
  <2> QED
    BY <1>3, <2>1 DEF FirstOn
<1> QED
  BY <1>2, <1>3

(* What each step means to the service. *)
LEMMA ServiceStep ==
  ASSUME \/ cache' = cache /\ Waiting' = Waiting /\ Wanted' = Wanted
         \/ \E p \in Callers, r \in Wishes :
              /\ p \notin Waiting /\ Waiting' = Waiting \cup {p}
              /\ Wanted' = Put(Wanted, p, r) /\ cache' = cache
         \/ \E p \in Callers :
              /\ p \in Waiting /\ Waiting' = Waiting \ {p}
              /\ cache' = Service!Effect(cache, Wanted[p]) /\ Wanted' = Wanted
         \/ \E p \in Waiting :
              Waiting' = Waiting \ {p} /\ cache' = cache /\ Wanted' = Wanted
  PROVE  [Service!Next]_(Service!vars)
<1>1. CASE cache' = cache /\ Waiting' = Waiting /\ Wanted' = Wanted
  BY <1>1 DEF Service!vars, Waiting, Wanted
<1>2. ASSUME NEW p \in Callers, NEW r \in Wishes,
             p \notin Waiting, Waiting' = Waiting \cup {p},
             Wanted' = Put(Wanted, p, r), cache' = cache
      PROVE  Service!Next
  <2>1. Service!Submit(p, r)
    BY <1>2 DEF Service!Submit, Service!Put, Put, Waiting, Wanted
  <2> QED
    BY <2>1 DEF Service!Next, Wishes
<1>3. ASSUME NEW p \in Callers, p \in Waiting, Waiting' = Waiting \ {p},
             cache' = Service!Effect(cache, Wanted[p]), Wanted' = Wanted
      PROVE  Service!Next
  <2>1. Service!Perform(p)
    BY <1>3 DEF Service!Perform, Waiting, Wanted
  <2> QED
    BY <2>1 DEF Service!Next
<1>4. ASSUME NEW p \in Waiting, Waiting' = Waiting \ {p}, cache' = cache, Wanted' = Wanted
      PROVE  Service!Next
  <2>1. Service!Lose({p})
    BY <1>4 DEF Service!Lose, Waiting, Wanted
  <2>2. {p} \in SUBSET Waiting
    OBVIOUS
  <2> QED
    BY <2>1, <2>2 DEF Service!Next, Waiting
<1> QED
  BY <1>1, <1>2, <1>3, <1>4

(* Steps in which nobody becomes first and nothing ends. *)
LEMMA NothingHappens ==
  ASSUME StreamInv,
         \A c \in Conns : FirstOn(c)' = FirstOn(c),
         \A p \in Firsts : call'[p] = call[p] /\ on'[p] = on[p],
         \A c \in Conns : link'[c] = "closed" <=> link[c] = "closed",
         cache' = cache
  PROVE  [Service!Next]_(Service!vars)
<1>1. Firsts' = Firsts
  BY DEF Firsts
<1>2. Waiting' = Waiting
  BY <1>1, FirstsOf DEF Waiting
<1>3. Wanted' = Wanted
  BY <1>1 DEF Wanted
<1> QED
  BY <1>2, <1>3, ServiceStep

(* A connection that ends takes its first caller with it. *)
LEMMA ItsRequestEnds ==
  ASSUME StreamInv, NEW c \in Conns, UNCHANGED <<wrote, on, call>>,
         link' = [link EXCEPT ![c] = "closed"]
  PROVE  /\ Wanted' = Wanted
         /\ wrote[c] = <<>> => Waiting' = Waiting
         /\ wrote[c] # <<>> => Waiting' = Waiting \ {wrote[c][1]}
<1>1. Firsts' = Firsts
  BY DEF Firsts, FirstOn
<1>2. Wanted' = Wanted
  BY <1>1 DEF Wanted
<1>3. \A p \in Firsts : link'[on'[p]] # "closed" <=> on[p] # c /\ link[on[p]] # "closed"
  BY FirstsOf DEF StreamInv, ReplyInv, ReplyTypes, OverConns
<1>4. \A p \in Firsts : on[p] = c <=> wrote[c] # <<>> /\ p = wrote[c][1]
  BY FirstsOf, FirstCall
<1> QED
  BY <1>1, <1>2, <1>3, <1>4 DEF Waiting

(* The first bytes on a connection submit their writer's request. *)
LEMMA TakeServes ==
  ASSUME WholeRequests, StreamInv, StreamInv', NEW p \in Callers, NEW c \in Conns, TakeConn(p, c)
  PROVE  [Service!Next]_(Service!vars)
<1>1. /\ pc[p] = "looking" /\ on' = [on EXCEPT ![p] = c]
      /\ UNCHANGED <<link, call, cache, up>>
  BY DEF TakeConn, Take, serverVars
<1>2. \A q \in Callers : on'[q] = IF q = p THEN c ELSE on[q]
  BY <1>1 DEF StreamInv, TypeOK, ClientTypeOK
<1>3. p \notin Firsts /\ \A q \in Firsts : q # p /\ q \in Callers
  BY <1>1, FirstsOf
<1>4. \/ wrote' = wrote
      \/ c \notin lost /\ wrote' = [wrote EXCEPT ![c] = Append(@, p)]
  BY DEF TakeConn, Take, Write
<1>5. wrote \in [Conns -> Seq(Callers)]
  BY DEF StreamInv, TypeOK
<1>6. CASE wrote' = wrote \/ wrote[c] # <<>>
  <2>1. \A d \in Conns : wrote'[d] = wrote[d] \/ (d = c /\ wrote'[d] = Append(wrote[d], p))
    BY <1>4, <1>5
  <2>2. ASSUME NEW d \in Conns  PROVE FirstOn(d)' = FirstOn(d)
    <3>1. CASE wrote'[d] = wrote[d]
      BY <3>1 DEF FirstOn
    <3>2. CASE d = c /\ wrote[c] # <<>> /\ wrote'[c] = Append(wrote[c], p)
      <4>1. Append(wrote[c], p) # <<>> /\ Append(wrote[c], p)[1] = wrote[c][1]
        BY <1>5, <3>2
      <4>2. FirstOn(c)' = {wrote'[c][1]} /\ FirstOn(c) = {wrote[c][1]}
        <5>1. 1 \in DOMAIN wrote'[c] /\ 1 \in DOMAIN wrote[c]
          BY <1>5, <3>2
        <5> QED
          BY <5>1 DEF FirstOn
      <4> QED
        BY <3>2, <4>1, <4>2
    <3> QED
      BY <1>6, <2>1, <3>1, <3>2
  <2> QED
    BY <1>1, <1>2, <1>3, <2>2, NothingHappens
<1>7. CASE wrote' # wrote /\ wrote[c] = <<>>
  <2>1. c \notin lost /\ wrote' = [wrote EXCEPT ![c] = <<p>>]
    <3>1. Append(<<>>, p) = <<p>>
      OBVIOUS
    <3> QED
      BY <1>4, <1>5, <1>7, <3>1
  <2>2. link[c] # "closed"
    BY <1>7, <2>1 DEF StreamInv, Ended, TypeOK, ClientTypeOK
  <2>3. \A d \in Conns : FirstOn(d)' = IF d = c THEN {p} ELSE FirstOn(d)
    <3>1. wrote'[c] = <<p>> /\ \A d \in Conns \ {c} : wrote'[d] = wrote[d]
      BY <1>5, <2>1
    <3>2. FirstOn(c)' = {p}
      <4>1. <<p>>[1] = p /\ DOMAIN <<p>> = {1}
        OBVIOUS
      <4> QED
        BY <3>1, <4>1 DEF FirstOn
    <3> QED
      BY <3>1, <3>2 DEF FirstOn
  <2>4. FirstOn(c) = {}
    BY <1>7 DEF FirstOn
  <2>5. Firsts' = Firsts \cup {p}
    BY <2>3, <2>4 DEF Firsts
  <2>6. \A q \in Firsts : on'[q] = on[q]
    BY <1>2, <1>3
  <2>7. Waiting' = Waiting \cup {p}
    BY <1>1, <1>2, <2>2, <2>5, <2>6 DEF Waiting
  <2> DEFINE r == [Taken(call[p]) EXCEPT !.op = call[p].op]
  <2>8. Wanted' = Put(Wanted, p, r)
    BY <1>1, <1>3, <2>5 DEF Wanted, Put
  <2>9. r \in Wishes
    <3>1. call[p] \in Calls
      BY <1>1 DEF StreamInv, CallsMade
    <3> QED
      BY <3>1 DEF Wishes
  <2>10. p \notin Waiting
    BY <1>3 DEF Waiting
  <2> HIDE DEF r
  <2> QED
    BY <1>1, <2>7, <2>8, <2>9, <2>10, ServiceStep
<1> QED
  BY <1>6, <1>7

(* The server takes a request. *)
LEMMA ServeServes ==
  ASSUME WholeRequests, StreamInv, NEW c \in Conns, ServeOne(c)
  PROVE  [Service!Next]_(Service!vars)
<1> DEFINE p == wrote[c][1]
           r == First(c)
           m == Header(Filled(c))
<1>1. /\ link[c] = "accepted" /\ link' = [link EXCEPT ![c] = "closed"]
      /\ UNCHANGED <<wrote, on, call>>
      /\ cache' = Effect(m)
  BY DEF ServeOne, Serve, Polled, Answer, clientVars, callVars
<1>2. /\ wrote[c] # <<>>
      /\ [op |-> m.op, key |-> MessageKey(m), val |-> MessageVal(m)] = Taken(r)
  BY Taking DEF ServeOne
<1>3. p \in Callers /\ r \in Calls /\ on[p] = c /\ r = call[p]
  BY <1>2, FirstCall DEF First
<1>4. p \in Firsts
  <2>1. p \in FirstOn(c)
    BY <1>2, IsFirst
  <2> QED
    BY <2>1 DEF Firsts
<1>5. p \in Waiting
  BY <1>1, <1>3, <1>4 DEF Waiting
<1>6. Waiting' = Waiting \ {p} /\ Wanted' = Wanted
  BY <1>1, <1>2, ItsRequestEnds
<1>7. cache' = Service!Effect(cache, Wanted[p])
  <2> HIDE DEF m, r, p
  <2>1. Wanted[p] = [Taken(r) EXCEPT !.op = r.op]
    BY <1>3, <1>4 DEF Wanted
  <2>2. r.op \in {"add", "get"}
    BY <1>3 DEF WholeRequests
  <2>3. /\ Wanted[p].op = r.op /\ Wanted[p].key = Taken(r).key
        /\ Wanted[p].val = Taken(r).val
    BY <2>1 DEF Taken
  <2>4. /\ m.op = Taken(r).op /\ MessageKey(m) = Taken(r).key /\ MessageVal(m) = Taken(r).val
    <3> DEFINE k == MessageKey(m)
               v == MessageVal(m)
               o == m.op
    <3> HIDE DEF k, v, o
    <3>1. [op |-> o, key |-> k, val |-> v] = Taken(r)
      BY <1>2 DEF k, v, o
    <3>2. o = Taken(r).op /\ k = Taken(r).key /\ v = Taken(r).val
      BY <3>1
    <3> QED
      BY <3>2 DEF k, v, o
  <2>5. CASE r.op = "add"
    <3>1. cache' = Put(cache, Taken(r).key, Taken(r).val)
      <4>1. m.op = "a"
        BY <2>4, <2>5 DEF Taken
      <4> QED
        BY <1>1, <2>4, <4>1 DEF Effect, m
    <3>2. Service!Effect(cache, Wanted[p]) = Put(cache, Taken(r).key, Taken(r).val)
      BY <2>3, <2>5 DEF Service!Effect, Service!Put, Put
    <3> QED
      BY <3>1, <3>2
  <2>6. CASE r.op = "get"
    <3>1. cache' = cache
      <4>1. m.op = "g"
        BY <2>4, <2>6 DEF Taken
      <4> QED
        BY <1>1, <4>1 DEF Effect, m
    <3>2. Service!Effect(cache, Wanted[p]) = cache
      BY <2>3, <2>6 DEF Service!Effect
    <3> QED
      BY <3>1, <3>2
  <2> QED
    BY <2>2, <2>5, <2>6
<1> HIDE DEF p
<1> QED
  BY <1>3, <1>5, <1>6, <1>7, ServiceStep

(* Every step is a step of the service or none. *)
LEMMA EveryStepServes ==
  ASSUME WholeRequests, StreamInv, StreamInv', [Next]_vars
  PROVE  [Service!Next]_(Service!vars)
<1>1. ASSUME NEW p \in Callers, StartCall(p)
      PROVE  [Service!Next]_(Service!vars)
  <2>1. /\ pc[p] = "start" /\ \E r \in Calls : call' = [call EXCEPT ![p] = r]
        /\ UNCHANGED <<link, wrote, on, cache>>
    BY <1>1 DEF StartCall, Start, netVars, serverVars, history
  <2>2. \A q \in Firsts : q # p /\ q \in Callers
    BY <2>1, FirstsOf
  <2>3. \A q \in Firsts : call'[q] = call[q]
    BY <2>1, <2>2 DEF StreamInv, TypeOK, ClientTypeOK
  <2>4. \A c \in Conns : FirstOn(c)' = FirstOn(c)
    BY <2>1 DEF FirstOn
  <2> QED
    BY <2>1, <2>3, <2>4, NothingHappens
<1>2. CASE \E p \in Callers, c \in Conns : TakeConn(p, c)
  BY <1>2, TakeServes
<1>3. ASSUME UNCHANGED <<wrote, on, call, cache>>,
             \A c \in Conns : link'[c] = "closed" <=> link[c] = "closed"
      PROVE  [Service!Next]_(Service!vars)
  <2>1. \A c \in Conns : FirstOn(c)' = FirstOn(c)
    BY <1>3 DEF FirstOn
  <2> QED
    BY <1>3, <2>1, NothingHappens
<1>4. CASE (\E p \in Callers : FinishRead(p)) \/ CloseAll \/ UNCHANGED vars
  <2>1. UNCHANGED <<wrote, on, call, cache, link>>
    BY <1>4 DEF FinishRead, ReadReply, ReadEof, ReadRaises, CloseAll, Close, vars, netVars,
                serverVars, clientVars, callVars, history
  <2> QED
    BY <1>3, <2>1
<1>5. ASSUME NEW c \in Conns, OpenOne(c) \/ EventLoop(c) \/ Bytes(c)
      PROVE  [Service!Next]_(Service!vars)
  <2>1. /\ UNCHANGED <<wrote, on, call, cache>>
        /\ link' = link \/ (link[c] = "none" /\ link' = [link EXCEPT ![c] = "backlog"])
    BY <1>5 DEF OpenOne, Open, EventLoop, NoticeEof, NoticeReset, ConnectionLost, Bytes, Arrive,
                netVars, serverVars, clientVars, callVars, history
  <2>2. \A d \in Conns : link'[d] = "closed" <=> link[d] = "closed"
    BY <2>1 DEF StreamInv, TypeOK, NetTypeOK
  <2> QED
    BY <1>3, <2>1, <2>2
<1>6. ASSUME NEW c \in Conns, ServerStep(c)
      PROVE  [Service!Next]_(Service!vars)
  <2>1. CASE ServeOne(c)
    BY <2>1, ServeServes
  <2>2. CASE (Accept(c) \/ Await(c)) /\ UNCHANGED <<clientVars, history>>
    <3>1. /\ UNCHANGED <<wrote, on, call, cache>>
          /\ link' = link \/ (link[c] = "backlog" /\ link' = [link EXCEPT ![c] = "accepted"])
      BY <2>2 DEF Accept, Await, serverVars, clientVars, callVars, history
    <3>2. \A d \in Conns : link'[d] = "closed" <=> link[d] = "closed"
      BY <3>1 DEF StreamInv, TypeOK, NetTypeOK
    <3> QED
      BY <1>3, <3>1, <3>2
  <2>3. CASE Disconnect(c) /\ UNCHANGED <<clientVars, history>>
    <3>1. /\ UNCHANGED <<wrote, on, call, cache>>
          /\ link[c] = "accepted" /\ link' = [link EXCEPT ![c] = "closed"]
      BY <2>3 DEF Disconnect, Answer, Polled, clientVars, callVars, history
    <3>2. CASE wrote[c] = <<>>
      BY <3>1, <3>2, ItsRequestEnds, ServiceStep
    <3>3. CASE wrote[c] # <<>>
      <4> DEFINE p == wrote[c][1]
      <4>1. Waiting' = Waiting \ {p} /\ Wanted' = Wanted
        BY <3>1, <3>3, ItsRequestEnds
      <4>2. p \in FirstOn(c) /\ on[p] = c
        BY <3>3, IsFirst, FirstCall
      <4>3. p \in Waiting
        BY <3>1, <4>2 DEF Waiting, Firsts
      <4> HIDE DEF p
      <4> QED
        BY <3>1, <4>1, <4>3, ServiceStep
    <3> QED
      BY <3>2, <3>3
  <2>4. CASE Panic(c)
    BY <2>4, NoPanic DEF Panic
  <2> QED
    BY <1>6, <2>1, <2>2, <2>3, <2>4 DEF ServerStep
<1> QED
  BY <1>1, <1>2, <1>4, <1>5, <1>6 DEF Next

(* Server and pool implement the cache service: a request takes effect at  *)
(* most once, in one step and as it was made, and nothing else changes the *)
(* cache.                                                                  *)
THEOREM TakesEffectAtMostOnce == WholeRequests => (Spec => AtMostOnce)
<1>1. Init => Service!Init
  <2> SUFFICES ASSUME Init  PROVE Service!Init
    OBVIOUS
  <2>1. Firsts = {}
    BY DEF Init, Firsts, FirstOn
  <2> QED
    BY <2>1 DEF Init, ServerInit, Service!Init, Service!EmptyMap, EmptyMap
<1>2. WholeRequests /\ StreamInv /\ StreamInv' /\ [Next]_vars => [Service!Next]_(Service!vars)
  BY EveryStepServes
<1>3. WholeRequests => [](WholeRequests)
  OBVIOUS
<1> QED
  BY StreamInvariant, <1>1, <1>2, <1>3, PTL DEF Spec, AtMostOnce, Service!Spec

=============================================================================
