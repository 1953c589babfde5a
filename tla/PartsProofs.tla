---------------------------- MODULE PartsProofs ----------------------------
(***************************************************************************)
(* The invariants of the parts that run on their own: the receive array    *)
(* (WireReads), the control byte (ControlByte) and the servers' start      *)
(* (Startup), as theorems of their specifications; and the arithmetic on   *)
(* words (HashPolicy), for all words instead of those that TLC asks for.   *)
(***************************************************************************)
EXTENDS WireReads, MCHashPolicy, ControlByte, Startup, WireFormatProofs

-----------------------------------------------------------------------------
(* The receive array *)

InLaid ==
  /\ buf \in Buffer
  /\ sent.mode # "none" =>
       sent.key \in WireKey /\ Decode(buf) = Request(sent.mode, Shorn(sent.key), sent.val)

LEMMA Composed ==
  ASSUME NEW key
  PROVE  /\ ComposeGet(key) = SizeHead("g", Len(key)) \o key
         /\ ComposeRm(key) = SizeHead("d", Len(key)) \o key
BY DEF ComposeGet, ComposeRm, SizeHead, OneOf

LEMMA KeysFit ==
  ASSUME NEW key \in WireKey
  PROVE  /\ key \in Seq(Byte) /\ key # <<>>
         /\ Width(Len(key)) + 2 <= SepWindow
         /\ Len(ComposeGet(key)) <= BufLen /\ Len(ComposeRm(key)) <= BufLen
BY WireReadsAssumption DEF Width

(* The bytes of a request are bytes, and what is read back is the request. *)
LEMMA GetReadBack ==
  ASSUME NEW b \in Buffer, NEW key \in WireKey
  PROVE  /\ Overlay(b, ComposeGet(key)) \in Buffer
         /\ Decode(Overlay(b, ComposeGet(key))) = Request("g", Shorn(key), <<>>)
<1> DEFINE bytes == ComposeGet(key)
<1>1. "g" \in {"g", "d"} /\ "g" \in Byte
  BY WireAssumption
<1>2. bytes = SizeHead("g", Len(key)) \o key
  BY Composed
<1>3. key \in Seq(Byte) /\ key # <<>> /\ Width(Len(key)) + 2 <= SepWindow /\ Len(bytes) <= BufLen
  BY KeysFit
<1> HIDE DEF bytes
<1>4. LookupBytes(bytes, "g", key, Width(Len(key)))
  BY <1>1, <1>2, <1>3, GetBytes
<1>5. bytes \in Seq(Byte)
  BY <1>4 DEF LookupBytes
<1>6. Overlay(b, bytes) \in Buffer
  BY <1>3, <1>5, LaidOver
<1>7. Decode(Overlay(b, bytes)) = Request("g", Shorn(key), <<>>)
  BY <1>1, <1>2, <1>3, LookupReadBack
<1> QED
  BY <1>6, <1>7 DEF bytes

LEMMA RmReadBack ==
  ASSUME NEW b \in Buffer, NEW key \in WireKey
  PROVE  /\ Overlay(b, ComposeRm(key)) \in Buffer
         /\ Decode(Overlay(b, ComposeRm(key))) = Request("d", Shorn(key), <<>>)
<1> DEFINE bytes == ComposeRm(key)
<1>1. "d" \in {"g", "d"} /\ "d" \in Byte
  BY WireAssumption
<1>2. bytes = SizeHead("d", Len(key)) \o key
  BY Composed
<1>3. key \in Seq(Byte) /\ key # <<>> /\ Width(Len(key)) + 2 <= SepWindow /\ Len(bytes) <= BufLen
  BY KeysFit
<1> HIDE DEF bytes
<1>4. LookupBytes(bytes, "d", key, Width(Len(key)))
  BY <1>1, <1>2, <1>3, GetBytes
<1>5. bytes \in Seq(Byte)
  BY <1>4 DEF LookupBytes
<1>6. Overlay(b, bytes) \in Buffer
  BY <1>3, <1>5, LaidOver
<1>7. Decode(Overlay(b, bytes)) = Request("d", Shorn(key), <<>>)
  BY <1>1, <1>2, <1>3, LookupReadBack
<1> QED
  BY <1>6, <1>7 DEF bytes

LEMMA AddReadBack ==
  ASSUME NEW b \in Buffer, NEW mode \in {"i", "s"}, NEW key \in WireKey, NEW val \in WireVal
  PROVE  /\ Overlay(b, ComposeAdd(mode, key, val)) \in Buffer
         /\ Decode(Overlay(b, ComposeAdd(mode, key, val))) = Request(mode, Shorn(key), val)
<1> DEFINE bytes == ComposeAdd(mode, key, val)
<1>1. mode \in Byte /\ Len(bytes) <= BufLen
  BY WireAssumption, WireReadsAssumption
<1>2. key \in Seq(Byte) /\ key # <<>> /\ Width(Len(key)) + 2 <= SepWindow
  BY KeysFit
<1>3. val \in Seq(Byte) /\ Width(Len(val)) + 2 <= SepWindow
  BY WireReadsAssumption DEF Width
<1>4. bytes = ComposeAdd(mode, key, val)
  OBVIOUS
<1> HIDE DEF bytes
<1>5. InsertBytes(bytes, mode, key, val, Width(Len(key)), Width(Len(val)))
  BY <1>1, <1>2, <1>3, <1>4, AddBytes
<1>6. bytes \in Seq(Byte)
  BY <1>5 DEF InsertBytes
<1>7. Overlay(b, bytes) \in Buffer
  BY <1>1, <1>6, LaidOver
<1>8. Decode(Overlay(b, bytes)) = Request(mode, Shorn(key), val)
  BY <1>1, <1>2, <1>3, <1>4, InsertReadBack
<1> QED
  BY <1>7, <1>8 DEF bytes

LEMMA InLaidInit == WireInit => InLaid
<1> SUFFICES ASSUME WireInit PROVE InLaid
  OBVIOUS
<1>1. "0" \in Byte
  <2>1. 1 \in 1 .. 10 /\ DigitBytes[1] = "0"
    BY DEF DigitBytes
  <2> QED
    BY <2>1, WireAssumption
<1>2. buf \in Buffer
  BY <1>1 DEF WireInit, FreshArray, Buffer
<1>3. sent.mode = "none"
  BY RequestFields DEF WireInit
<1> QED
  BY <1>2, <1>3 DEF InLaid

LEMMA InLaidNext == InLaid /\ [WireNext]_wireVars => InLaid'
<1> SUFFICES ASSUME InLaid, [WireNext]_wireVars PROVE InLaid'
  OBVIOUS
<1>0. buf \in Buffer
  BY DEF InLaid
<1>1. ASSUME NEW mode \in {"i", "s"}, NEW key \in WireKey, NEW val \in WireVal,
             ReadInsert(mode, key, val)
      PROVE  InLaid'
  <2>1. sent'.mode = mode /\ sent'.key = key /\ sent'.val = val
    BY <1>1, RequestFields DEF ReadInsert
  <2>2. buf' \in Buffer /\ Decode(buf') = Request(mode, Shorn(key), val)
    BY <1>0, <1>1, AddReadBack DEF ReadInsert
  <2> QED
    BY <2>1, <2>2 DEF InLaid
<1>2. ASSUME NEW key \in WireKey, ReadGet(key) PROVE InLaid'
  <2>1. sent'.mode = "g" /\ sent'.key = key /\ sent'.val = <<>>
    BY <1>2, RequestFields DEF ReadGet
  <2>2. buf' \in Buffer /\ Decode(buf') = Request("g", Shorn(key), <<>>)
    BY <1>0, <1>2, GetReadBack DEF ReadGet
  <2> QED
    BY <2>1, <2>2 DEF InLaid
<1>3. ASSUME NEW key \in WireKey, ReadRm(key) PROVE InLaid'
  <2>1. sent'.mode = "d" /\ sent'.key = key /\ sent'.val = <<>>
    BY <1>3, RequestFields DEF ReadRm
  <2>2. buf' \in Buffer /\ Decode(buf') = Request("d", Shorn(key), <<>>)
    BY <1>0, <1>3, RmReadBack DEF ReadRm
  <2> QED
    BY <2>1, <2>2 DEF InLaid
<1>4. CASE UNCHANGED wireVars
  BY <1>4 DEF InLaid, wireVars
<1> QED
  BY <1>1, <1>2, <1>3, <1>4 DEF WireNext

LEMMA InLaidAlways == WireSpec => []InLaid
<1>1. WireInit => InLaid
  BY InLaidInit
<1>2. InLaid /\ [WireNext]_wireVars => InLaid'
  BY InLaidNext
<1> QED
  BY <1>1, <1>2, PTL DEF WireSpec

(* A request read whole is decoded from its own bytes, for any array, any  *)
(* window, any keys and any values that fit.                               *)
THEOREM LeftoversNeverMatter == WireSpec => []LeftoversIgnored
<1>1. InLaid => LeftoversIgnored
  <2> SUFFICES ASSUME InLaid, sent.mode # "none"
               PROVE  Decode(buf) = Request(sent.mode, SubSeq(sent.key, 1, Len(sent.key) - 1), sent.val)
    BY DEF LeftoversIgnored
  <2>1. sent.key \in WireKey /\ Decode(buf) = Request(sent.mode, Shorn(sent.key), sent.val)
    BY DEF InLaid
  <2>2. sent.key \in Seq(Byte) /\ sent.key # <<>>
    BY <2>1, KeysFit
  <2>3. SubSeq(sent.key, 1, Len(sent.key) - 1) = Shorn(sent.key)
    BY <2>2, ShornIs
  <2> QED
    BY <2>1, <2>3
<1> QED
  BY <1>1, InLaidAlways, PTL

(* The byte that the server cuts off a key is the same for all pickles: no *)
(* two pickled keys meet in the map.                                       *)
THEOREM PickledKeysNeverMeet == WireSpec => []PickledKeysDistinct
<1>1. InLaid => PickledKeysDistinct
  <2> SUFFICES ASSUME InLaid, sent.mode # "none", Pickled(sent.key),
                      NEW key \in WireKey, Pickled(key)
               PROVE  Decode(Overlay(buf, ComposeGet(key))).key = Decode(buf).key
                        <=> key = sent.key
    BY DEF PickledKeysDistinct
  <2> DEFINE l == sent.key
  <2>1. l \in WireKey /\ Decode(buf) = Request(sent.mode, Shorn(l), sent.val) /\ buf \in Buffer
    BY DEF InLaid
  <2>2. Decode(buf).key = Shorn(l)
    BY <2>1, RequestFields
  <2>3. Decode(Overlay(buf, ComposeGet(key))).key = Shorn(key)
    BY <2>1, GetReadBack, RequestFields
  <2>4. key[Len(key)] = l[Len(l)]
    BY DEF Pickled
  <2> HIDE DEF l
  <2>5. /\ key \in Seq(Byte) /\ key # <<>>
        /\ l \in Seq(Byte) /\ l # <<>>
    BY <2>1, KeysFit
  <2>6. Shorn(key) = Shorn(l) => key = l
    BY <2>4, <2>5, ShornDistinct
  <2> QED
    BY <2>2, <2>3, <2>6 DEF l
<1> QED
  BY <1>1, InLaidAlways, PTL

-----------------------------------------------------------------------------
(* The control byte *)

(* The byte as a function of the record: what each kind of slot has in the *)
(* upper bit, and the jump in the lower seven.                             *)
Encoded ==
  \/ record = [kind |-> "empty", jump |-> 0] /\ metadata = 255
  \/ record = [kind |-> "reserved", jump |-> 0] /\ metadata = 254
  \/ \E jump \in 0 .. 125 :
       \/ record = [kind |-> "direct", jump |-> jump] /\ metadata = jump
       \/ record = [kind |-> "list", jump |-> jump] /\ metadata = 128 + jump

LEMMA LowerSeven ==
  \A jump \in 0 .. 125 :
    /\ DistanceFrom(jump) = jump
    /\ DistanceFrom(128 + jump) = jump
BY SMT DEF DistanceFrom

LEMMA EncodedInit == ByteInit => Encoded
BY DEF ByteInit, Encoded, magic_for_empty

LEMMA EncodedNext == Encoded /\ [ByteNext]_byteVars => Encoded'
<1> SUFFICES ASSUME Encoded, [ByteNext]_byteVars PROVE Encoded'
  OBVIOUS
<1>1. ASSUME SetMetadata("empty", magic_for_empty) PROVE Encoded'
  BY <1>1 DEF SetMetadata, Encoded, magic_for_empty
<1>2. ASSUME SetMetadata("reserved", magic_for_reserved) PROVE Encoded'
  BY <1>2 DEF SetMetadata, Encoded, magic_for_reserved
<1>3. ASSUME SetMetadata("direct", magic_for_direct_hit) PROVE Encoded'
  <2>1. metadata' = 0 /\ record' = [kind |-> "direct", jump |-> 0]
    BY <1>3 DEF SetMetadata, magic_for_direct_hit
  <2> QED
    BY <2>1 DEF Encoded
<1>4. ASSUME SetMetadata("list", magic_for_list_entry) PROVE Encoded'
  <2>1. metadata' = 128 + 0 /\ record' = [kind |-> "list", jump |-> 0]
    BY <1>4 DEF SetMetadata, magic_for_list_entry
  <2> QED
    BY <2>1 DEF Encoded
<1>5. ASSUME NEW jump \in 0 .. num_jump_distances - 1, SetNext(jump) PROVE Encoded'
  <2>1. jump \in 0 .. 125
    BY DEF num_jump_distances
  <2>2. PICK old \in 0 .. 125 :
          \/ record = [kind |-> "direct", jump |-> old] /\ metadata = old
          \/ record = [kind |-> "list", jump |-> old] /\ metadata = 128 + old
    BY <1>5 DEF SetNext, Encoded
  <2>3. CASE record = [kind |-> "direct", jump |-> old] /\ metadata = old
    <3>1. metadata' = jump /\ record' = [kind |-> "direct", jump |-> jump]
      BY <1>5, <2>1, <2>3, LowerSeven DEF SetNext, WithNext
    <3> QED
      BY <2>1, <3>1 DEF Encoded
  <2>4. CASE record = [kind |-> "list", jump |-> old] /\ metadata = 128 + old
    <3>1. metadata' = 128 + jump /\ record' = [kind |-> "list", jump |-> jump]
      BY <1>5, <2>1, <2>4, LowerSeven DEF SetNext, WithNext
    <3> QED
      BY <2>1, <3>1 DEF Encoded
  <2> QED
    BY <2>2, <2>3, <2>4
<1>6. CASE UNCHANGED byteVars
  BY <1>6, SMTT(30) DEF byteVars, Encoded
<1> QED
  BY <1>1, <1>2, <1>3, <1>4, <1>5, <1>6 DEF ByteNext

LEMMA EncodedReads == Encoded => ByteIsRecord
<1> SUFFICES ASSUME Encoded PROVE ByteIsRecord
  OBVIOUS
<1> USE DEF ByteIsRecord, IsEmpty, IsMoved, IsDirectHit, HasNext,
            magic_for_empty, magic_for_reserved, magic_for_direct_hit
<1>1. CASE record = [kind |-> "empty", jump |-> 0] /\ metadata = 255
  BY <1>1 DEF DistanceFrom
<1>2. CASE record = [kind |-> "reserved", jump |-> 0] /\ metadata = 254
  BY <1>2 DEF DistanceFrom
<1>3. ASSUME NEW jump \in 0 .. 125,
             record = [kind |-> "direct", jump |-> jump], metadata = jump
      PROVE  ByteIsRecord
  BY <1>3, LowerSeven
<1>4. ASSUME NEW jump \in 0 .. 125,
             record = [kind |-> "list", jump |-> jump], metadata = 128 + jump
      PROVE  ByteIsRecord
  BY <1>4, LowerSeven
<1> QED
  BY <1>1, <1>2, <1>3, <1>4 DEF Encoded

(* What a slot reads out of its control byte is what was written last,     *)
(* after any sequence of set_metadata, set_next and clear_next: the bits   *)
(* of the jump never reach those of the kind, and no jump makes a list     *)
(* entry read as empty or reserved (bytell_hash_map.hpp:36-48, 801-840).   *)
THEOREM ByteIsRecordAlways == ByteSpec => []ByteIsRecord
<1>1. ByteSpec => []Encoded
  BY EncodedInit, EncodedNext, PTL DEF ByteSpec
<1> QED
  BY <1>1, EncodedReads, PTL

-----------------------------------------------------------------------------
(* The start *)

PCs == {"gone", "bind", "nonblock", "listen", "create", "add", "wait"}

StartTypes ==
  /\ pc \in [Proc -> PCs]
  /\ infos \in [Proc -> Seq(Address)]
  /\ bound \in [Proc -> Address \cup {NoAddress}]
  /\ sockets \in [Proc -> Nat]
  /\ handled \in [Proc -> BOOLEAN]

(* Before bind has succeeded a process holds nothing that it could leave   *)
(* behind when it is killed.                                               *)
NothingYet ==
  \A p \in Proc :
    pc[p] \in {"gone", "bind"} => bound[p] = NoAddress /\ sockets[p] = 0 /\ ~handled[p]

StartInv == StartTypes /\ NothingYet /\ OneServer

LEMMA InvInit == StartInit => StartInv
BY DEF StartInit, StartInv, StartTypes, NothingYet, OneServer, PCs

LEMMA TailOfAddresses ==
  ASSUME NEW s \in Seq(Address), s # <<>>
  PROVE  Tail(s) \in Seq(Address) /\ Head(s) \in Address
OBVIOUS

(* The end of a process that leaves the addresses as they are, or keeps    *)
(* its own for a while.                                                    *)
LEMMA EndKeeps ==
  ASSUME StartInv, NEW p \in Proc, End(p),
         lingering' = lingering \/ handled[p]
  PROVE  StartInv'
<1>1. /\ pc' = [pc EXCEPT ![p] = "gone"]
      /\ infos' = [infos EXCEPT ![p] = <<>>]
      /\ bound' = [bound EXCEPT ![p] = NoAddress]
      /\ sockets' = [sockets EXCEPT ![p] = 0]
      /\ handled' = [handled EXCEPT ![p] = FALSE]
  BY DEF End
<1>2. \A q \in Proc :
        /\ pc'[q] = IF q = p THEN "gone" ELSE pc[q]
        /\ bound'[q] = IF q = p THEN NoAddress ELSE bound[q]
        /\ sockets'[q] = IF q = p THEN 0 ELSE sockets[q]
        /\ handled'[q] = IF q = p THEN FALSE ELSE handled[q]
  BY <1>1 DEF StartInv, StartTypes
<1>3. StartTypes'
  <2>1. <<>> \in Seq(Address) /\ "gone" \in PCs
    BY DEF PCs
  <2> QED
    BY <1>1, <2>1 DEF StartInv, StartTypes
<1>4. NothingYet'
  BY <1>2 DEF StartInv, NothingYet
<1>5. OneServer'
  <2>1. CASE lingering' = lingering
    BY <1>2, <2>1 DEF StartInv, OneServer
  <2>2. CASE handled[p]
    <3>1. pc[p] \notin {"gone", "bind"}
      BY <2>2 DEF StartInv, NothingYet
    <3>2. \A q \in Proc \ {p} : bound[q] = NoAddress
      BY <3>1 DEF StartInv, OneServer
    <3>3. \A q \in Proc : pc'[q] \in {"gone", "bind"}
      BY <1>2, <3>2 DEF StartInv, OneServer
    <3> QED
      BY <3>3 DEF OneServer
  <2> QED
    BY <2>1, <2>2
<1> QED
  BY <1>3, <1>4, <1>5 DEF StartInv

(* The steps that change nothing but how far a process has got. *)
LEMMA StepKeeps ==
  ASSUME StartInv, NEW p \in Proc, NEW from, NEW to \in PCs \ {"gone", "bind"},
         from \notin {"gone", "bind"}, Step(p, from, to)
  PROVE  StartInv'
<1>1. /\ pc[p] = from /\ pc' = [pc EXCEPT ![p] = to]
      /\ UNCHANGED <<infos, bound, sockets, handled, lingering>>
  BY DEF Step
<1>2. \A q \in Proc : pc'[q] = IF q = p THEN to ELSE pc[q]
  BY <1>1 DEF StartInv, StartTypes
<1> QED
  BY <1>1, <1>2 DEF StartInv, StartTypes, NothingYet, OneServer

LEMMA StartKeeps ==
  ASSUME StartInv, NEW p \in Proc, Start(p)
  PROVE  StartInv'
<1>1. PICK list \in AddressLists :
        /\ pc[p] = "gone" /\ pc' = [pc EXCEPT ![p] = "bind"]
        /\ infos' = [infos EXCEPT ![p] = list]
        /\ UNCHANGED <<bound, sockets, handled, lingering>>
  BY DEF Start
<1>2. list \in Seq(Address)
  <2>1. "v4" \in Address /\ "v6" \in Address
    BY DEF Address
  <2>2. /\ <<"v4", "v6">> \in Seq(Address) /\ <<"v6", "v4">> \in Seq(Address)
        /\ <<"v4">> \in Seq(Address)
    BY <2>1
  <2> QED
    BY <2>2 DEF AddressLists
<1>3. \A q \in Proc : pc'[q] = IF q = p THEN "bind" ELSE pc[q]
  BY <1>1 DEF StartInv, StartTypes
<1>4. StartTypes'
  BY <1>1, <1>2 DEF StartInv, StartTypes, PCs
<1> QED
  BY <1>1, <1>3, <1>4 DEF StartInv, NothingYet, OneServer

(* An address is left out; what SocketFails and BindFails have in common.  *)
LEMMA NextAddressKeeps ==
  ASSUME StartInv, NEW p \in Proc, infos[p] # <<>>,
         infos' = [infos EXCEPT ![p] = Tail(@)],
         UNCHANGED <<pc, bound, sockets, handled, lingering>>
  PROVE  StartInv'
<1>1. Tail(infos[p]) \in Seq(Address)
  BY TailOfAddresses DEF StartInv, StartTypes
<1>2. StartTypes'
  BY <1>1 DEF StartInv, StartTypes
<1> QED
  BY <1>2 DEF StartInv, NothingYet, OneServer

LEMMA BindKeeps ==
  ASSUME StartInv, NEW p \in Proc, Bind(p)
  PROVE  StartInv'
<1>1. /\ pc[p] = "bind" /\ infos[p] # <<>>
      /\ lingering = {} /\ \A q \in Proc : bound[q] = NoAddress
      /\ pc' = [pc EXCEPT ![p] = "nonblock"]
      /\ bound' = [bound EXCEPT ![p] = Head(infos[p])]
      /\ sockets' = [sockets EXCEPT ![p] = @ + 1]
      /\ UNCHANGED <<infos, handled, lingering>>
  BY DEF Bind, PortFree
<1>2. Head(infos[p]) \in Address
  BY <1>1, TailOfAddresses DEF StartInv, StartTypes
<1>3. \A q \in Proc :
        /\ pc'[q] = IF q = p THEN "nonblock" ELSE pc[q]
        /\ bound'[q] = IF q = p THEN Head(infos[p]) ELSE bound[q]
        /\ sockets'[q] = IF q = p THEN sockets[p] + 1 ELSE sockets[q]
  BY <1>1 DEF StartInv, StartTypes
<1>4. StartTypes'
  BY <1>1, <1>2 DEF StartInv, StartTypes, PCs
<1>5. \A q \in Proc : pc[q] \in {"gone", "bind"}
  BY <1>1 DEF StartInv, OneServer
<1>6. sockets[p] = 0 /\ Head(infos[p]) # NoAddress
  BY <1>1, <1>2 DEF StartInv, NothingYet, Address, NoAddress
<1>7. NothingYet'
  BY <1>1, <1>3 DEF StartInv, NothingYet
<1>8. OneServer'
  BY <1>1, <1>3, <1>5, <1>6 DEF OneServer
<1> QED
  BY <1>4, <1>7, <1>8 DEF StartInv

LEMMA HandleKeeps ==
  ASSUME StartInv, NEW p \in Proc, Handle(p)
  PROVE  StartInv'
<1>1. /\ pc[p] = "wait" /\ handled' = [handled EXCEPT ![p] = TRUE]
      /\ UNCHANGED <<pc, infos, bound, sockets, lingering>>
  BY DEF Handle, procVars
<1>2. \A q \in Proc : handled'[q] = IF q = p THEN TRUE ELSE handled[q]
  BY <1>1 DEF StartInv, StartTypes
<1> QED
  BY <1>1, <1>2 DEF StartInv, StartTypes, NothingYet, OneServer

LEMMA InvNext == StartInv /\ [StartNext]_startVars => StartInv'
<1> SUFFICES ASSUME StartInv, [StartNext]_startVars PROVE StartInv'
  OBVIOUS
<1>1. ASSUME NEW p \in Proc, Start(p) PROVE StartInv'
  BY <1>1, StartKeeps
<1>2. ASSUME NEW p \in Proc, Run(p) PROVE StartInv'
  <2>1. CASE SocketFails(p)
    BY <2>1, NextAddressKeeps DEF SocketFails
  <2>2. CASE Bind(p)
    BY <2>2, BindKeeps
  <2>3. CASE BindFails(p)
    BY <2>3, NextAddressKeeps DEF BindFails
  <2>4. CASE NotBound(p)
    BY <2>4, EndKeeps DEF NotBound
  <2>5. CASE MakeNonblocking(p)
    BY <2>5, StepKeeps DEF MakeNonblocking, PCs
  <2>6. CASE Listen(p)
    BY <2>6, StepKeeps DEF Listen, PCs
  <2>7. CASE EpollCreate(p)
    BY <2>7, StepKeeps DEF EpollCreate, PCs
  <2>8. CASE CallFails(p)
    BY <2>8, EndKeeps DEF CallFails
  <2>9. CASE EpollAdd(p)
    <3>1. /\ pc[p] = "add" /\ pc' = [pc EXCEPT ![p] = "wait"]
          /\ UNCHANGED <<infos, bound, sockets, handled, lingering>>
      BY <2>9 DEF EpollAdd
    <3>2. \A q \in Proc : pc'[q] = IF q = p THEN "wait" ELSE pc[q]
      BY <3>1 DEF StartInv, StartTypes
    <3>3. StartTypes'
      BY <3>1 DEF StartInv, StartTypes, PCs
    <3> QED
      BY <3>1, <3>2, <3>3 DEF StartInv, NothingYet, OneServer
  <2>10. CASE EpollAddFails(p)
    BY <2>10, StepKeeps DEF EpollAddFails, PCs
  <2>11. CASE Handle(p)
    BY <2>11, HandleKeeps
  <2> QED
    BY <1>2, <2>1, <2>2, <2>3, <2>4, <2>5, <2>6, <2>7, <2>8, <2>9, <2>10, <2>11
       DEF Run
<1>3. ASSUME NEW p \in Proc, Connect(p) PROVE StartInv'
  BY <1>3 DEF Connect, procVars, StartInv, StartTypes, NothingYet, OneServer
<1>4. ASSUME NEW p \in Proc, Kill(p) PROVE StartInv'
  BY <1>4, EndKeeps DEF Kill
<1>5. CASE Expire
  BY <1>5 DEF Expire, procVars, StartInv, StartTypes, NothingYet, OneServer
<1>6. CASE UNCHANGED startVars
  BY <1>6 DEF startVars, procVars, StartInv, StartTypes, NothingYet, OneServer
<1> QED
  BY <1>1, <1>2, <1>3, <1>4, <1>5, <1>6 DEF StartNext

(* However many processes are started, killed and started again, in        *)
(* whatever order their calls happen and fail: a process that has got      *)
(* behind networking::bind holds one socket, and holds the port alone      *)
(* (networking.hpp:35-66, old_main.cpp:33-73).                             *)
THEOREM OneServerAlways == StartSpec => []OneServer
<1>1. StartInv => OneServer
  BY DEF StartInv
<1>2. StartSpec => []StartInv
  BY InvInit, InvNext, PTL DEF StartSpec
<1> QED
  BY <1>1, <1>2, PTL

-----------------------------------------------------------------------------
(* Words *)

(* The bits at most n - 1 places below a bit of w. *)
Spread(w, n) == {b \in Bits : \E c \in w : b <= c /\ c < b + n}

LEMMA SpreadTwice ==
  ASSUME NEW w, w \subseteq Bits, NEW n \in Nat \ {0}
  PROVE  OrShifted(Spread(w, n), n) = Spread(w, n + n)
<1>1. ASSUME NEW b \in Bits, NEW c \in w, b <= c, c < b + (n + n)
      PROVE  b \in OrShifted(Spread(w, n), n)
  <2>1. b \in Int /\ c \in Int /\ c \in Bits
    BY DEF Bits
  <2>2. CASE c < b + n
    BY <1>1, <2>2 DEF OrShifted, Spread
  <2>3. CASE ~(c < b + n)
    <3>1. b + n \in Bits /\ b + n <= c /\ c < (b + n) + n
      BY <1>1, <2>1, <2>3 DEF Bits
    <3>2. b + n \in Spread(w, n)
      BY <3>1 DEF Spread
    <3> QED
      BY <3>2 DEF OrShifted, Shr
  <2> QED
    BY <2>2, <2>3
<1>2. ASSUME NEW b \in OrShifted(Spread(w, n), n)
      PROVE  b \in Spread(w, n + n)
  <2>1. CASE b \in Spread(w, n)
    <3>1. PICK c \in w : b <= c /\ c < b + n
      BY <2>1 DEF Spread
    <3>2. b \in Bits /\ b \in Int /\ c \in Int
      BY <2>1 DEF Spread, Bits
    <3>3. c < b + (n + n)
      BY <3>1, <3>2
    <3> QED
      BY <3>1, <3>2, <3>3 DEF Spread
  <2>2. CASE b \in Bits /\ b + n \in Spread(w, n)
    <3>1. PICK c \in w : b + n <= c /\ c < (b + n) + n
      BY <2>2 DEF Spread
    <3>2. b \in Int /\ c \in Int
      BY <2>2 DEF Bits
    <3>3. b <= c /\ c < b + (n + n)
      BY <3>1, <3>2
    <3> QED
      BY <2>2, <3>1, <3>3 DEF Spread
  <2> QED
    BY <2>1, <2>2, <1>2 DEF OrShifted, Shr
<1>3. ASSUME NEW b \in Spread(w, n + n) PROVE b \in OrShifted(Spread(w, n), n)
  BY <1>1, <1>3 DEF Spread
<1> QED
  BY <1>2, <1>3

(* Six shifts set every bit below a bit of w. *)
LEMMA SmearIs ==
  ASSUME NEW w, w \subseteq Bits
  PROVE  Smear(w) = {b \in Bits : \E c \in w : b <= c}
<1>1. Spread(w, 1) = w
  <2>1. ASSUME NEW b \in Bits, NEW c \in w, b <= c, c < b + 1 PROVE b = c
    BY <2>1 DEF Bits
  <2>2. ASSUME NEW b \in w PROVE b \in Bits /\ b <= b /\ b < b + 1
    BY <2>2 DEF Bits
  <2> QED
    BY <2>1, <2>2 DEF Spread
<1>2. OrShifted(w, 1) = Spread(w, 2)
  <2>1. OrShifted(Spread(w, 1), 1) = Spread(w, 1 + 1)
    BY SpreadTwice
  <2> QED
    BY <1>1, <2>1
<1>3. OrShifted(Spread(w, 2), 2) = Spread(w, 4)
  <2>1. OrShifted(Spread(w, 2), 2) = Spread(w, 2 + 2)
    BY SpreadTwice
  <2> QED
    BY <2>1
<1>4. OrShifted(Spread(w, 4), 4) = Spread(w, 8)
  <2>1. OrShifted(Spread(w, 4), 4) = Spread(w, 4 + 4)
    BY SpreadTwice
  <2> QED
    BY <2>1
<1>5. OrShifted(Spread(w, 8), 8) = Spread(w, 16)
  <2>1. OrShifted(Spread(w, 8), 8) = Spread(w, 8 + 8)
    BY SpreadTwice
  <2> QED
    BY <2>1
<1>6. OrShifted(Spread(w, 16), 16) = Spread(w, 32)
  <2>1. OrShifted(Spread(w, 16), 16) = Spread(w, 16 + 16)
    BY SpreadTwice
  <2> QED
    BY <2>1
<1>7. OrShifted(Spread(w, 32), 32) = Spread(w, 64)
  <2>1. OrShifted(Spread(w, 32), 32) = Spread(w, 32 + 32)
    BY SpreadTwice
  <2> QED
    BY <2>1
<1>8. Smear(w) = Spread(w, 64)
  BY <1>2, <1>3, <1>4, <1>5, <1>6, <1>7 DEF Smear
<1>9. ASSUME NEW b \in Bits, NEW c \in w PROVE c < b + 64
  BY DEF Bits
<1> QED
  BY <1>8, <1>9 DEF Spread

(* The greatest bit of a word that is not 0 *)
LEMMA HighestBit ==
  ASSUME NEW w, w \subseteq Bits, w # {}
  PROVE  /\ Max(w) \in w /\ \A b \in w : b <= Max(w)
         /\ Smear(w) = 0 .. Max(w)
<1>1. w \subseteq Nat /\ \A b \in w : b <= 63
  BY DEF Bits
<1>2. Max(w) \in w /\ \A b \in w : b <= Max(w)
  <2>1. \E n \in w : \A m \in w : m <= n
    BY <1>1, GreatestNatural
  <2>2. \E n \in w : \A m \in w : n >= m
    BY <2>1, <1>1
  <2>3. Max(w) \in w /\ \A m \in w : Max(w) >= m
    BY <2>2 DEF Max
  <2> QED
    BY <2>3, <1>1
<1> DEFINE h == Max(w)
<1> HIDE DEF h
<1>3. h \in Nat /\ h <= 63 /\ h \in w /\ \A b \in w : b <= h
  BY <1>1, <1>2 DEF h
<1>4. \A b \in Bits : (\E c \in w : b <= c) <=> b \in 0 .. h
  <2>1. ASSUME NEW b \in Bits, NEW c \in w, b <= c PROVE b \in 0 .. h
    <3>1. b \in Nat /\ c \in Nat /\ c <= h
      BY <1>1, <1>3 DEF Bits
    <3> QED
      BY <2>1, <3>1, <1>3
  <2> QED
    BY <2>1, <1>3
<1>5. 0 .. h \subseteq Bits
  BY <1>3 DEF Bits
<1>6. Smear(w) = 0 .. h
  BY <1>4, <1>5, SmearIs
<1> QED
  BY <1>2, <1>6 DEF h

(* log2 looks at nothing but the highest bit. *)
THEOREM Log2OfHighest ==
  \A w \in SUBSET Bits : w # {} => Log2(w) = Log2({Max(w)})
<1> SUFFICES ASSUME NEW w \in SUBSET Bits, w # {} PROVE Log2(w) = Log2({Max(w)})
  OBVIOUS
<1> DEFINE v == {Max(w)}
<1>1. Log2(w) = BitOf(Smear(w)) /\ Log2(v) = BitOf(Smear(v))
  BY DEF Log2
<1>2. Max(w) \in w
  BY HighestBit
<1>3. v \subseteq Bits /\ v # {}
  BY <1>2
<1> HIDE DEF v
<1>4. Max(v) \in v /\ Smear(v) = 0 .. Max(v)
  BY <1>3, HighestBit
<1>5. Max(v) = Max(w)
  BY <1>4 DEF v
<1>6. Smear(w) = Smear(v)
  BY <1>4, <1>5, HighestBit
<1> QED
  BY <1>1, <1>6 DEF v

(* As numbers, a word is at most a power of two if it is this power, or    *)
(* all its bits are lower.                                                 *)
LEMMA AtMostPower ==
  ASSUME NEW w, w \subseteq Bits, NEW b \in Bits
  PROVE  AtMost(w, {b}) <=> w = {b} \/ \A c \in w : c < b
<1> DEFINE D == (w \ {b}) \cup ({b} \ w)
           h == Max(D)
<1>1. CASE w = {b}
  BY <1>1 DEF AtMost
<1>2. CASE w # {b}
  <2>1. D \subseteq Bits /\ D # {}
    BY <1>2
  <2>2. h \in D /\ \A c \in D : c <= h
    BY <2>1, HighestBit
  <2>3. AtMost(w, {b}) <=> h = b
    BY <1>2 DEF AtMost
  <2> HIDE DEF h
  <2>4. b \in Int /\ h \in Int /\ \A c \in w : c \in Int
    BY <2>1, <2>2 DEF Bits
  <2>5. ASSUME h = b, NEW c \in w PROVE c < b
    <3>1. b \notin w
      BY <2>2, <2>5
    <3>2. c # b /\ c <= b
      BY <3>1, <2>2, <2>5
    <3> QED
      BY <3>2, <2>4
  <2>6. ASSUME \A c \in w : c < b PROVE h = b
    <3>1. b \in D /\ b <= h
      BY <2>2, <2>4, <2>6
    <3>2. h \notin w
      BY <3>1, <2>4, <2>6
    <3> QED
      BY <3>2, <2>2
  <2> QED
    BY <1>2, <2>3, <2>5, <2>6
<1> QED
  BY <1>1, <1>2

(* ++ on a row of bits from 0 *)
LEMMA IncRow ==
  ASSUME NEW n \in 0 .. 64
  PROVE  Inc(0 .. n - 1) = IF n = 64 THEN {} ELSE {n}
<1>1. CASE n = 64
  BY <1>1 DEF Inc, Bits
<1>2. CASE n # 64
  <2> DEFINE l == Min(Bits \ (0 .. n - 1))
  <2>1. n \in Bits \ (0 .. n - 1) /\ Bits \ (0 .. n - 1) \subseteq Nat
    BY <1>2 DEF Bits
  <2>2. l \in Bits \ (0 .. n - 1) /\ l <= n
    BY <2>1, MinIsLeast
  <2>3. Inc(0 .. n - 1) = ((0 .. n - 1) \ (0 .. l - 1)) \cup {l}
    <3>1. 0 .. n - 1 # Bits
      BY <2>1
    <3> QED
      BY <3>1, Zenon DEF Inc
  <2> HIDE DEF l
  <2>4. l = n
    BY <2>2 DEF Bits
  <2> QED
    BY <1>2, <2>3, <2>4
<1> QED
  BY <1>1, <1>2

(* next_power_of_two of a single bit is that bit, and of any other word    *)
(* the bit above its highest one, which may be too high.                   *)
LEMMA NextPowerIs ==
  ASSUME NEW w, w \subseteq Bits, w # {}
  PROVE  NextPowerOfTwo(w) =
           IF w = {Max(w)} THEN w
           ELSE IF Max(w) = 63 THEN {} ELSE {Max(w) + 1}
<1> DEFINE h == Max(w)
           m == Min(w)
           d == Dec(w)
<1>1. w \subseteq Nat
  BY DEF Bits
<1>2. h \in w /\ \A b \in w : b <= h
  BY HighestBit
<1>3. m \in w /\ \A b \in w : m <= b
  BY <1>1, MinIsLeast
<1>4. d = (w \ {m}) \cup (0 .. m - 1)
  BY Zenon DEF Dec
<1>5. NextPowerOfTwo(w) = Inc(Smear(d))
  BY DEF NextPowerOfTwo
<1> HIDE DEF h, m, d
<1>6. h \in 0 .. 63 /\ m \in 0 .. 63 /\ m <= h
  BY <1>2, <1>3 DEF Bits
<1>7. d \subseteq Bits
  BY <1>4, <1>6 DEF Bits
<1>8. CASE w = {h}
  <2>1. m = h
    BY <1>3, <1>8
  <2>2. d = 0 .. h - 1
    BY <1>4, <1>8, <2>1
  <2>3. Smear(d) = 0 .. h - 1
    <3>1. \A b \in Bits : (\E c \in d : b <= c) <=> b \in 0 .. h - 1
      BY <2>2, <1>6 DEF Bits
    <3> QED
      BY <3>1, <1>7, SmearIs, <2>2
  <2>4. Inc(0 .. h - 1) = {h}
    <3>1. h \in 0 .. 64 /\ h # 64
      BY <1>6
    <3> QED
      BY <3>1, IncRow
  <2> QED
    BY <1>5, <1>8, <2>3, <2>4 DEF h
<1>9. CASE w # {h}
  <2>1. PICK c \in w : c # h
    BY <1>2, <1>9
  <2>2. m # h
    BY <2>1, <1>2, <1>3, <1>1
  <2>3. h \in d /\ \A b \in d : b <= h
    BY <1>1, <1>2, <1>4, <1>6, <2>2
  <2>4. Smear(d) = 0 .. h
    <3>1. \A b \in Bits : (\E x \in d : b <= x) <=> b \in 0 .. h
      <4>1. ASSUME NEW b \in Bits, NEW x \in d, b <= x PROVE b \in 0 .. h
        <5>1. x <= h /\ x \in Int /\ b \in Int /\ b >= 0
          BY <1>7, <2>3 DEF Bits
        <5> QED
          BY <4>1, <5>1, <1>6
      <4> QED
        BY <4>1, <2>3
    <3>2. 0 .. h \subseteq Bits
      BY <1>6 DEF Bits
    <3> QED
      BY <3>1, <3>2, <1>7, SmearIs
  <2>5. Inc(0 .. h) = IF h = 63 THEN {} ELSE {h + 1}
    <3> DEFINE n == h + 1
    <3>1. n \in 0 .. 64 /\ 0 .. h = 0 .. n - 1 /\ (n = 64 <=> h = 63)
      BY <1>6
    <3>2. Inc(0 .. n - 1) = IF n = 64 THEN {} ELSE {n}
      BY <3>1, IncRow
    <3> QED
      BY <3>1, <3>2
  <2> QED
    BY <1>5, <1>9, <2>4, <2>5 DEF h
<1> QED
  BY <1>8, <1>9

(* For every word of 64 bits next_power_of_two is the least power of two   *)
(* that is not less, or 0 if there is none.                                *)
THEOREM NextPowerAlways == word \subseteq Bits => NextPowerIsLeast
<1> SUFFICES ASSUME word \subseteq Bits, word # {}
             PROVE  LET answer == NextPowerOfTwo(word)
                    IN  /\ Cardinality(answer) <= 1
                        /\ \A b \in Bits : AtMost(word, {b}) <=> \E a \in answer : a <= b
  BY DEF NextPowerIsLeast
<1> DEFINE answer == NextPowerOfTwo(word)
           h == Max(word)
<1>1. answer = IF word = {h} THEN word ELSE IF h = 63 THEN {} ELSE {h + 1}
  BY NextPowerIs
<1>2. h \in word /\ \A c \in word : c <= h
  BY HighestBit
<1> HIDE DEF answer, h
<1>3. h \in Int /\ h >= 0 /\ h <= 63
  BY <1>2 DEF Bits
<1>4. answer = {} \/ \E x : answer = {x}
  BY <1>1
<1>5. Cardinality(answer) <= 1
  <2>1. Cardinality({}) = 0
    BY FS_EmptySet
  <2>2. ASSUME NEW x, answer = {x} PROVE Cardinality(answer) = 1
    BY <2>2, FS_Singleton
  <2> QED
    BY <1>4, <2>1, <2>2
<1>6. ASSUME NEW b \in Bits
      PROVE  AtMost(word, {b}) <=> \E a \in answer : a <= b
  <2>1. AtMost(word, {b}) <=> word = {b} \/ \A c \in word : c < b
    BY AtMostPower
  <2>2. b \in Int /\ b <= 63 /\ \A c \in word : c \in Int
    BY DEF Bits
  <2>3. (\A c \in word : c < b) <=> h < b
    BY <1>2, <1>3, <2>2
  <2>4. CASE word = {h}
    <3>1. answer = {h}
      BY <1>1, <2>4
    <3>2. word = {b} <=> h = b
      BY <2>4
    <3> QED
      BY <2>1, <2>2, <2>3, <3>1, <3>2, <1>3
  <2>5. CASE word # {h}
    <3>1. word # {b} \/ b # h
      BY <2>5
    <3>2. word # {b}
      BY <1>2, <3>1
    <3>3. (\E a \in answer : a <= b) <=> h + 1 <= b
      BY <1>1, <1>3, <2>2, <2>5
    <3> QED
      BY <2>1, <2>2, <2>3, <3>2, <3>3, <1>3
  <2> QED
    BY <2>4, <2>5
<1> QED
  BY <1>5, <1>6 DEF answer

=============================================================================
