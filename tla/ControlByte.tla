---------------------------- MODULE ControlByte ----------------------------
(***************************************************************************)
(* The control bytes of bytell_hash_map.  One byte per slot says whether   *)
(* the slot is empty, reserved, the head of a chain or a later entry, and, *)
(* in its lower seven bits, which jump leads to the next entry.  BytellMap *)
(* has a record in its place; this module is the byte, and the record      *)
(* beside it is what BytellMap would have.                                 *)
(*                                                                         *)
(* Bytes are taken as unsigned.                                            *)
(***************************************************************************)
EXTENDS Integers

magic_for_empty == 255
magic_for_reserved == 254
magic_for_direct_hit == 0
magic_for_list_entry == 128

(* Variant: as many jumps as seven bits can tell apart. *)
all_jump_distances == 128

num_jump_distances == 126

-----------------------------------------------------------------------------
(* What the table reads out of a byte. *)

(* metadata & bits_for_distance *)
DistanceFrom(metadata) == metadata % 128

(* (metadata & bits_for_direct_hit) == magic_for_direct_hit *)
IsDirectHit(metadata) == metadata - DistanceFrom(metadata) = magic_for_direct_hit

IsEmpty(metadata) == metadata = magic_for_empty
HasNext(metadata) == DistanceFrom(metadata) # 0

(* rehash moves the elements of these slots. *)
IsMoved(metadata) == metadata \notin {magic_for_empty, magic_for_reserved}

(* (metadata & ~bits_for_distance) | jump_index *)
WithNext(metadata, jump) == metadata - DistanceFrom(metadata) + jump

-----------------------------------------------------------------------------

VARIABLES metadata, record

byteVars == <<metadata, record>>

ByteInit ==
  /\ metadata = magic_for_empty
  /\ record = [kind |-> "empty", jump |-> 0]

(* set_metadata with one of the four constants. *)
SetMetadata(what, magic) ==
  /\ metadata' = magic
  /\ record' = [kind |-> what, jump |-> 0]

(* set_next, of the slots that belong to a chain; find_free_index finds    *)
(* the jump.                                                               *)
SetNext(jump) ==
  /\ record.kind \in {"direct", "list"}
  /\ metadata' = WithNext(metadata, jump)
  /\ record' = [record EXCEPT !.jump = jump]

ByteNext ==
  \/ SetMetadata("empty", magic_for_empty)
  \/ SetMetadata("reserved", magic_for_reserved)
  \/ SetMetadata("direct", magic_for_direct_hit)
  \/ SetMetadata("list", magic_for_list_entry)
  \/ \E jump \in 0 .. num_jump_distances - 1 : SetNext(jump)

ByteSpec == ByteInit /\ [][ByteNext]_byteVars

-----------------------------------------------------------------------------

(* The byte is the record: whatever was written to it before, a slot reads *)
(* as empty or reserved only if it is, as the head of a chain only if it   *)
(* is, and its jump as the one that was set last.  The two magic numbers   *)
(* lie in the range of list entries, just above the largest jump.          *)
ByteIsRecord ==
  /\ IsEmpty(metadata) <=> record.kind = "empty"
  /\ IsMoved(metadata) <=> record.kind \in {"direct", "list"}
  /\ IsDirectHit(metadata) <=> record.kind = "direct"
  /\ record.kind \in {"direct", "list"} =>
       /\ DistanceFrom(metadata) = record.jump
       /\ HasNext(metadata) <=> record.jump # 0

=============================================================================
