----------------------------- MODULE WireReads -----------------------------
(***************************************************************************)
(* The receive array over a run of whole requests: every read lays one     *)
(* more request over what the earlier ones left, and the invariants say    *)
(* what the event loop takes out of the mixture.                           *)
(***************************************************************************)
EXTENDS WireFormat

CONSTANTS
  WireKey,     \* the keys that are sent, as bytes
  WireVal      \* the values

(* A key is the pickle of something and never empty.  A request fits the   *)
(* array, and its sizes have fewer digits than the window is wide.         *)
ASSUME WireReadsAssumption ==
  /\ \A key \in WireKey :
       /\ key \in Seq(Byte) /\ key # <<>>
       /\ Len(Itb[Len(key)]) + 2 <= SepWindow
       /\ Len(ComposeGet(key)) <= BufLen /\ Len(ComposeRm(key)) <= BufLen
  /\ \A val \in WireVal : val \in Seq(Byte) /\ Len(Itb[Len(val)]) + 2 <= SepWindow
  /\ \A mode \in {"i", "s"}, key \in WireKey, val \in WireVal :
       Len(ComposeAdd(mode, key, val)) <= BufLen

(* The last byte of every pickle is STOP, a '.'. *)
Pickled(key) == key[Len(key)] = "."

FreshArray == [i \in 1..BufLen |-> "0"]

VARIABLES buf, sent
wireVars == <<buf, sent>>

WireInit == buf = FreshArray /\ sent = Request("none", <<>>, <<>>)

ReadInsert(mode, key, val) ==
  /\ buf' = Overlay(buf, ComposeAdd(mode, key, val))
  /\ sent' = Request(mode, key, val)

ReadGet(key) ==
  /\ buf' = Overlay(buf, ComposeGet(key))
  /\ sent' = Request("g", key, <<>>)

ReadRm(key) ==
  /\ buf' = Overlay(buf, ComposeRm(key))
  /\ sent' = Request("d", key, <<>>)

WireNext ==
  \/ \E mode \in {"i", "s"}, key \in WireKey, val \in WireVal : ReadInsert(mode, key, val)
  \/ \E key \in WireKey : ReadGet(key)
  \/ \E key \in WireKey : ReadRm(key)

WireSpec == WireInit /\ [][WireNext]_wireVars

-----------------------------------------------------------------------------

(* arr_buff is never cleared, so a short request leaves the tail of longer *)
(* ones behind it.  A request that was read whole is nevertheless decoded  *)
(* from its own bytes alone: its mode, its key without the last byte, and  *)
(* its value, whatever the array held before and whatever bytes, '|' and   *)
(* digits included, the key and the value are made of.                     *)
LeftoversIgnored ==
  sent.mode # "none" =>
    Decode(buf) = Request(sent.mode, SubSeq(sent.key, 1, Len(sent.key) - 1), sent.val)

(* Two keys are told apart by the server whenever they were pickled: the   *)
(* byte the server loses is the same for all of them.  The request in the  *)
(* array is an insert or a lookup, the other one a lookup, so this is also *)
(* what makes a lookup find what an insert with the same key has stored.   *)
PickledKeysDistinct ==
  sent.mode # "none" /\ Pickled(sent.key) =>
    \A key \in WireKey :
      Pickled(key) =>
        (Decode(Overlay(buf, ComposeGet(key))).key = Decode(buf).key
           <=> key = sent.key)

=============================================================================
