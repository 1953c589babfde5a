----------------------------- MODULE BytellMap -----------------------------
(***************************************************************************)
(* ska::bytell_hash_map, the container of both servers: one array of       *)
(* slots, each with a byte that says empty, reserved, direct hit or list   *)
(* entry and how far the next slot of the chain is.  An element whose slot *)
(* belongs to the chain of another one evicts that chain's tail element by *)
(* element, and a table without room is rehashed by emplacing everything   *)
(* again, which may itself have to grow.                                   *)
(*                                                                         *)
(* The calls that nest in the code (emplace, grow, rehash, emplace) are    *)
(* the sequence todo of the elements still to be emplaced: a rehash puts   *)
(* the elements of the old array before those that already wait.           *)
(***************************************************************************)
EXTENDS MapOps, Integers, Sequences, FiniteSets, FiniteSetsExt

CONSTANTS
  Key, Value,
  Hash,            \* the hash function, [Key -> Nat]
  JumpDistances,   \* jump_distances from index 1 on
  Sizes,           \* prime_list
  MinGrow,         \* the least size that grow asks for, 10
  DefaultLoad,     \* _max_load_factor, as <<15, 16>>
  Loads,           \* arguments of max_load_factor
  Requests,        \* arguments of rehash and reserve
  NoItem

ASSUME BytellAssumption ==
  /\ Hash \in [Key -> Nat]
  /\ JumpDistances \in Seq(Nat \ {0})
  /\ Sizes \subseteq Nat \ {0, 1} /\ Sizes # {}
  /\ MinGrow \in Nat \ {0}
  /\ Loads \subseteq (Nat \ {0}) \X (Nat \ {0}) /\ DefaultLoad \in Loads
  /\ Requests \subseteq Nat
  /\ NoItem \notin [key : Key, val : Value]

VARIABLES
  slots,         \* entries: a function on 0..bucket_count - 1
  numElements,
  maxLoad,
  todo,          \* elements to emplace, in order
  move,          \* the eviction under way in emplace_direct_hit
  doomed,        \* depth_in_chain: slots a range erase has still to erase
  range,         \* history: the keys of the range being erased
  cursor         \* an iterator of the caller, and the keys it has seen

tableVars == <<slots, numElements, todo>>
eraseVars == <<doomed, range>>

vars == <<tableVars, maxLoad, move, eraseVars, cursor>>

Item == [key : Key, val : Value]
Occupied(s) == {i \in DOMAIN s : s[i].item # NoItem}

Empty == [kind |-> "empty", jump |-> 0, item |-> NoItem]
Reserved == [kind |-> "reserved", jump |-> 0, item |-> NoItem]
Direct(x) == [kind |-> "direct", jump |-> 0, item |-> x]
Entry(x) == [kind |-> "list", jump |-> 0, item |-> x]
Fresh(n) == [i \in 0 .. n - 1 |-> Empty]

NoMove == [block |-> -1, at |-> -1, parent |-> -1, jump |-> 0]
NoCursor == [at |-> -1, seen |-> {}, valid |-> FALSE]

Size(s) == Cardinality(DOMAIN s)
Home(s, k) == Hash[k] % Size(s)
Target(s, i, j) == (i + JumpDistances[j]) % Size(s)

Follow(s, i) == IF s[i].jump = 0 THEN i ELSE Target(s, i, s[i].jump)

(* The slots from i on along the jumps. *)
Chain(s, i) ==
  LET next == [l \in DOMAIN s |-> Follow(s, l)]
      at[d \in 0 .. Size(s)] == IF d = 0 THEN i ELSE next[at[d - 1]]
  IN  at

Links(s, i) == LET at == Chain(s, i) IN {at[d] : d \in DOMAIN at}
Last(s, i) == CHOOSE l \in Links(s, i) : s[l].jump = 0
Before(s, i, c) ==
  CHOOSE p \in Links(s, i) : s[p].jump # 0 /\ Target(s, p, s[p].jump) = c
Parent(s, c) == Before(s, Home(s, s[c].item.key), c)
Depth(s, c) ==
  LET at == Chain(s, Home(s, s[c].item.key))
  IN  Min({d \in DOMAIN at : at[d] = c})

(* find: the slots where the search for a key stops with a hit. *)
Found(s, k) ==
  IF Size(s) = 0 \/ s[Home(s, k)].kind # "direct" THEN {}
  ELSE {i \in Links(s, Home(s, k)) : s[i].item # NoItem /\ s[i].item.key = k}

(* find_free_index: the first jump that leads to an empty slot, or 0. *)
FreeJump(s, i) ==
  LET free == {j \in 1 .. Len(JumpDistances) : s[Target(s, i, j)] = Empty}
  IN  IF free = {} THEN 0 ELSE Min(free)

(* num_buckets_for_reserve *)
CeilLoad(n) == (n * maxLoad[2] + maxLoad[1] - 1) \div maxLoad[1]

(* The least size that is large enough, as a set: it is empty if there is  *)
(* none.  Such an array cannot be allocated and the call throws.           *)
SizeOver(n) == {p \in Sizes : p >= n /\ \A q \in Sizes : q >= n => p <= q}

IsFull == (numElements + 1) * maxLoad[2] > Size(slots) * maxLoad[1]

Rank(s, i) == Cardinality({j \in Occupied(s) : j <= i})

(* Variant: the elements along the chains, less those behind the place     *)
(* where an eviction has taken a chain apart.                              *)
StoredByChains(s) ==
  LET linked == {i \in Occupied(s) : i \in Links(s, Home(s, s[i].item.key))}
  IN  [n \in 1 .. Cardinality(linked) |->
         s[CHOOSE i \in linked : Cardinality({j \in linked : j <= i}) = n].item]

(* The elements of an array in the order of its slots. *)
Stored(s) ==
  [n \in 1 .. Cardinality(Occupied(s)) |->
     s[CHOOSE i \in Occupied(s) : Rank(s, i) = n].item]

Idle == todo = <<>> /\ move = NoMove /\ DOMAIN doomed = {}

Init ==
  /\ slots = Fresh(0)
  /\ numElements = 0
  /\ maxLoad = DefaultLoad
  /\ todo = <<>>
  /\ move = NoMove
  /\ doomed = EmptyMap
  /\ range = {}
  /\ cursor = NoCursor

-----------------------------------------------------------------------------
(* rehash, up to the loop that emplaces the old elements *)

Wanted(n) == Max({n, CeilLoad(numElements)})

RehashTo(n) ==
  \/ /\ Wanted(n) = 0
     /\ slots' = Fresh(0)
     /\ UNCHANGED <<numElements, todo>>
  \/ /\ Wanted(n) # 0
     /\ Size(slots) \in SizeOver(Wanted(n))
     /\ UNCHANGED tableVars
  \/ /\ Wanted(n) # 0
     /\ \E m \in SizeOver(Wanted(n)) \ {Size(slots)} : slots' = Fresh(m)
     /\ numElements' = 0
     /\ todo' = Stored(slots) \o todo

-----------------------------------------------------------------------------
(* The loop of emplace on the first element that waits *)

Emplace(k, v) ==
  /\ Idle
  /\ todo' = <<[key |-> k, val |-> v]>>
  /\ cursor' = NoCursor
  /\ UNCHANGED <<slots, maxLoad, numElements, move, eraseVars>>

Waiting == todo # <<>> /\ move = NoMove
Absent == Found(slots, Head(todo).key) = {}

HomeIs(kind) ==
  Size(slots) # 0 /\ slots[Home(slots, Head(todo).key)].kind = kind

Present ==
  /\ Waiting /\ ~Absent
  /\ todo' = Tail(todo)
  /\ UNCHANGED <<slots, maxLoad, numElements, move, eraseVars, cursor>>

DirectHit ==
  /\ Waiting /\ ~IsFull
  /\ HomeIs("empty")
  /\ slots' = [slots EXCEPT ![Home(slots, Head(todo).key)] = Direct(Head(todo))]
  /\ numElements' = numElements + 1
  /\ todo' = Tail(todo)
  /\ UNCHANGED <<maxLoad, move, eraseVars, cursor>>

(* Variant: the new slot is not linked to the chain. *)
NewKeyUnlinked ==
  /\ Waiting /\ ~IsFull /\ Absent
  /\ HomeIs("direct")
  /\ LET l == Last(slots, Home(slots, Head(todo).key))
         j == FreeJump(slots, l)
     IN  j # 0 /\ slots' = [slots EXCEPT ![Target(slots, l, j)] = Entry(Head(todo))]
  /\ numElements' = numElements + 1
  /\ todo' = Tail(todo)
  /\ UNCHANGED <<maxLoad, move, eraseVars, cursor>>

NewKey ==
  /\ Waiting /\ ~IsFull /\ Absent
  /\ HomeIs("direct")
  /\ LET l == Last(slots, Home(slots, Head(todo).key))
         j == FreeJump(slots, l)
     IN  /\ j # 0
         /\ slots' = [slots EXCEPT ![Target(slots, l, j)] = Entry(Head(todo)),
                                   ![l].jump = j]
  /\ numElements' = numElements + 1
  /\ todo' = Tail(todo)
  /\ UNCHANGED <<maxLoad, move, eraseVars, cursor>>

(* emplace_direct_hit on a slot of another chain, before its loop *)
Evict ==
  /\ Waiting /\ ~IsFull
  /\ HomeIs("list")
  /\ LET h == Home(slots, Head(todo).key)
         p == Parent(slots, h)
     IN  /\ FreeJump(slots, p) # 0
         /\ move' = [block |-> h, at |-> h, parent |-> p,
                     jump |-> FreeJump(slots, p)]
  /\ UNCHANGED <<tableVars, maxLoad, eraseVars, cursor>>

Moved == Target(slots, move.parent, move.jump)

Copied ==
  [slots EXCEPT ![Moved] = Entry(slots[move.at].item),
                ![move.parent].jump = move.jump]

(* Variant: the slot that was moved is not emptied. *)
MoveOneCopied ==
  /\ move # NoMove /\ move.jump # 0
  /\ slots[move.at].jump # 0
  /\ slots' = [Copied EXCEPT ![move.block] = Reserved]
  /\ move' = [move EXCEPT !.at = Target(slots, move.at, slots[move.at].jump),
                          !.parent = Moved,
                          !.jump = FreeJump(slots', Moved)]
  /\ UNCHANGED <<numElements, maxLoad, todo, eraseVars, cursor>>

MoveOne ==
  /\ move # NoMove /\ move.jump # 0
  /\ slots[move.at].jump # 0
  /\ slots' = [Copied EXCEPT ![move.at] = Empty, ![move.block] = Reserved]
  /\ move' = [move EXCEPT !.at = Target(slots, move.at, slots[move.at].jump),
                          !.parent = Moved,
                          !.jump = FreeJump(slots', Moved)]
  /\ UNCHANGED <<numElements, maxLoad, todo, eraseVars, cursor>>

MoveLast ==
  /\ move # NoMove /\ move.jump # 0
  /\ slots[move.at].jump = 0
  /\ slots' = [Copied EXCEPT ![move.at] = Empty,
                             ![move.block] = Direct(Head(todo))]
  /\ numElements' = numElements + 1
  /\ todo' = Tail(todo)
  /\ move' = NoMove
  /\ UNCHANGED <<maxLoad, eraseVars, cursor>>

NoRoom ==
  \/ move # NoMove /\ move.jump = 0
  \/ /\ Waiting /\ Absent
     /\ \/ IsFull
        \/ /\ HomeIs("direct")
           /\ FreeJump(slots, Last(slots, Home(slots, Head(todo).key))) = 0
        \/ /\ HomeIs("list")
           /\ FreeJump(slots, Parent(slots, Home(slots, Head(todo).key))) = 0

(* Variant: the new array is as large as the old one. *)
GrowSame ==
  /\ NoRoom
  /\ RehashTo(Max({MinGrow, Size(slots)}))
  /\ move' = NoMove
  /\ UNCHANGED <<maxLoad, eraseVars, cursor>>

Grow ==
  /\ NoRoom
  /\ RehashTo(Max({MinGrow, 2 * Size(slots)}))
  /\ move' = NoMove
  /\ UNCHANGED <<maxLoad, eraseVars, cursor>>

-----------------------------------------------------------------------------
(* The other calls *)

(* insert_or_assign and operator[] = on a key that is there *)
Assign(k, v) ==
  /\ Idle
  /\ \E i \in Found(slots, k) : slots' = [slots EXCEPT ![i].item.val = v]
  /\ UNCHANGED <<numElements, maxLoad, todo, move, eraseVars, cursor>>

(* Variant: the byte of a direct hit without a chain is not cleared. *)
ErasedUnmarked(s, i) ==
  IF s[i].jump # 0
  THEN [s EXCEPT ![i].item = s[Last(s, i)].item,
                 ![Before(s, i, Last(s, i))].jump = 0,
                 ![Last(s, i)] = Empty]
  ELSE IF s[i].kind = "list"
  THEN [s EXCEPT ![Parent(s, i)].jump = 0, ![i] = Empty]
  ELSE [s EXCEPT ![i].item = NoItem]

(* erase(it): the last element of the chain comes into the gap. *)
Erased(s, i) ==
  IF s[i].jump # 0
  THEN [s EXCEPT ![i].item = s[Last(s, i)].item,
                 ![Before(s, i, Last(s, i))].jump = 0,
                 ![Last(s, i)] = Empty]
  ELSE IF s[i].kind = "list"
  THEN [s EXCEPT ![Parent(s, i)].jump = 0, ![i] = Empty]
  ELSE [s EXCEPT ![i] = Empty]

EraseSlot(i) ==
  /\ slots' = Erased(slots, i)
  /\ numElements' = numElements - 1

Erase(k) ==
  /\ Idle
  /\ \E i \in Found(slots, k) : EraseSlot(i)
  /\ cursor' = NoCursor
  /\ UNCHANGED <<maxLoad, todo, move, eraseVars>>

Cleared ==
  /\ slots' = Fresh(Size(slots))
  /\ numElements' = 0

Clear ==
  /\ Idle
  /\ Cleared
  /\ cursor' = NoCursor
  /\ UNCHANGED <<maxLoad, todo, move, eraseVars>>

Rehash(n) ==
  /\ Idle
  /\ RehashTo(n)
  /\ cursor' = NoCursor
  /\ UNCHANGED <<maxLoad, move, eraseVars>>

SetMaxLoad(l) ==
  /\ Idle
  /\ maxLoad' = l
  /\ UNCHANGED <<tableVars, move, eraseVars, cursor>>

Reserve(n) == CeilLoad(n) > Size(slots) /\ Rehash(CeilLoad(n))

ShrinkToFit == Rehash(Min({CeilLoad(numElements), Size(slots)}))

Reversed(items) == [n \in DOMAIN items |-> items[Len(items) + 1 - n]]

(* Copy construction: a table of its own size, filled by iteration. *)
Copy ==
  /\ Idle
  /\ slots # Fresh(0)
  /\ LET n == Min({CeilLoad(numElements), Size(slots)})
     IN  \E m \in IF n = 0 THEN {0} ELSE SizeOver(n) : slots' = Fresh(m)
  /\ numElements' = 0
  /\ todo' = Reversed(Stored(slots))
  /\ cursor' = NoCursor
  /\ UNCHANGED <<maxLoad, move, eraseVars>>

-----------------------------------------------------------------------------
(* Iteration: from the last slot down *)

Below(s, i) == Max({-1} \cup {j \in Occupied(s) : j < i})

Begin ==
  /\ Idle
  /\ cursor' = [at |-> Below(slots, Size(slots)), seen |-> {}, valid |-> TRUE]
  /\ UNCHANGED <<tableVars, maxLoad, move, eraseVars>>

OnElement == Idle /\ cursor.valid /\ cursor.at # -1

Advance ==
  /\ OnElement
  /\ cursor' = [cursor EXCEPT !.seen = @ \cup {slots[cursor.at].item.key},
                              !.at = Below(slots, cursor.at)]
  /\ UNCHANGED <<tableVars, maxLoad, move, eraseVars>>

(* Variant: always the next one. *)
AfterEraseNext(s, i) == Below(s, i)

(* The iterator that erase returns: the slot, or the next one if empty. *)
AfterErase(s, i) == IF i \in Occupied(s) THEN i ELSE Below(s, i)

EraseAtCursor ==
  /\ OnElement
  /\ EraseSlot(cursor.at)
  /\ cursor' = [cursor EXCEPT !.at = AfterErase(slots', cursor.at)]
  /\ UNCHANGED <<maxLoad, todo, move, eraseVars>>

Between(first, end) == {i \in Occupied(slots) : end < i /\ i <= first}

(* erase(it, end): one element is erased, the whole table cleared, and of  *)
(* any other range each slot is noted with its depth in its chain.         *)
EraseRange(end) ==
  /\ OnElement
  /\ end \in Occupied(slots) \cup {-1} /\ end < cursor.at
  /\ LET doom == Between(cursor.at, end)
     IN  \/ /\ doom = Occupied(slots) /\ Cardinality(doom) > 1
            /\ Cleared
            /\ cursor' = [cursor EXCEPT !.at = -1]
            /\ UNCHANGED <<maxLoad, todo, move, eraseVars>>
         \/ /\ doom # Occupied(slots) /\ Cardinality(doom) > 1
            /\ doomed' = [i \in doom |-> Depth(slots, i)]
            /\ range' = {slots[i].item.key : i \in doom}
            /\ UNCHANGED <<tableVars, maxLoad, move, cursor>>

(* Variant: from the front of depth_in_chain, the least depth first. *)
EraseShallowest ==
  \E i \in DOMAIN doomed :
    /\ \A f \in DOMAIN doomed : doomed[f] >= doomed[i]
    /\ EraseSlot(i)
    /\ doomed' = Remove(doomed, i)
    /\ cursor' = IF DOMAIN doomed = {i}
                 THEN [cursor EXCEPT !.at = AfterErase(slots', cursor.at)]
                 ELSE cursor
    /\ UNCHANGED <<maxLoad, todo, move, range>>

(* The deepest of them goes first; slots of equal depth in any order. *)
EraseNext ==
  \E i \in DOMAIN doomed :
    /\ \A d \in DOMAIN doomed : doomed[d] <= doomed[i]
    /\ EraseSlot(i)
    /\ doomed' = Remove(doomed, i)
    /\ cursor' = IF DOMAIN doomed = {i}
                 THEN [cursor EXCEPT !.at = AfterErase(slots', cursor.at)]
                 ELSE cursor
    /\ UNCHANGED <<maxLoad, todo, move, range>>

-----------------------------------------------------------------------------

Call ==
  \/ \E k \in Key, v \in Value : Emplace(k, v) \/ Assign(k, v)
  \/ \E k \in Key : Erase(k)
  \/ Clear
  \/ \E n \in Requests : Rehash(n) \/ Reserve(n)
  \/ \E l \in Loads : SetMaxLoad(l)
  \/ ShrinkToFit
  \/ Copy
  \/ Begin
  \/ Advance
  \/ EraseAtCursor
  \/ \E end \in DOMAIN slots \cup {-1} : EraseRange(end)

(* What a call that has begun still has to do. *)
Continue ==
  \/ Present
  \/ DirectHit
  \/ NewKey
  \/ Evict
  \/ MoveOne
  \/ MoveLast
  \/ Grow
  \/ EraseNext

Next == Call \/ Continue

Spec == Init /\ [][Next]_vars

(* A call runs on until it returns. *)
FairSpec == Spec /\ WF_vars(Continue)

-----------------------------------------------------------------------------

(* Every slot has an element exactly if its byte says so, the jumps are    *)
(* indices of jump_distances, and the count stays within the array.        *)
TypeOK ==
  /\ DOMAIN slots = 0 .. Size(slots) - 1
  /\ \A i \in DOMAIN slots :
       \/ slots[i] \in {Empty, Reserved}
       \/ /\ slots[i].kind \in {"direct", "list"}
          /\ slots[i].jump \in 0 .. Len(JumpDistances)
          /\ slots[i].item \in Item
  /\ numElements \in 0 .. Size(slots)
  /\ maxLoad \in Loads
  /\ todo \in Seq(Item)
  /\ move = NoMove \/ /\ {move.block, move.at, move.parent} \subseteq DOMAIN slots
                      /\ move.jump \in 0 .. Len(JumpDistances)
  /\ DOMAIN doomed \subseteq DOMAIN slots
  /\ range \subseteq Key
  /\ cursor.at \in DOMAIN slots \cup {-1} /\ cursor.seen \subseteq Key

(* Between calls and between the emplaces of a rehash every element can be *)
(* found: the search for its key ends in its slot and nowhere else.        *)
Findable ==
  move = NoMove =>
    \A i \in Occupied(slots) : Found(slots, slots[i].item.key) = {i}

(* A direct hit is at home, a chain has an end, it only goes on over list  *)
(* entries, and no slot stays reserved after the eviction: find_parent and *)
(* the searches, which loop for (;;), come to an end.                      *)
ChainsEnd ==
  move = NoMove =>
    \A i \in DOMAIN slots :
      /\ slots[i] # Reserved
      /\ slots[i].kind = "direct" =>
           /\ Home(slots, slots[i].item.key) = i
           /\ \E l \in Links(slots, i) : slots[l].jump = 0
           /\ \A l \in Links(slots, i) \ {i} : slots[l].kind = "list"

(* The array and its chains are in order. *)
WellFormed == TypeOK /\ ChainsEnd

(* size() counts the elements in the array also while one chain is taken   *)
(* apart and while a rehash fills the new array.                           *)
SizeCounts == numElements = Cardinality(Occupied(slots))

(* An element is never in two slots, nor in a slot of the new array and    *)
(* among those still to be moved there, whatever a growth interrupts.      *)
NothingTwice ==
  /\ \A i, j \in Occupied(slots) :
       slots[i].item.key = slots[j].item.key => i = j
  /\ \A i \in Occupied(slots), n \in 1 .. Len(todo) - 1 :
       slots[i].item.key # todo[n].key
  /\ \A m, n \in 1 .. Len(todo) - 1 : todo[m].key = todo[n].key => m = n

(* Every element is counted once and is there once, at every moment. *)
EachOnce == SizeCounts /\ NothingTwice

(* A pass of an iterator that erases some of the elements on its way, one  *)
(* by one or in ranges, misses none of those that stay, although erase     *)
(* brings the last element of the chain into the gap.                      *)
PassSeesAll ==
  Idle /\ cursor.valid /\ cursor.at = -1 =>
    \A i \in Occupied(slots) : slots[i].item.key \in cursor.seen

(* While a range is erased slot by slot, elements move between its slots:  *)
(* what is left to erase is always what is left of the range.              *)
RangeErased ==
  {i \in Occupied(slots) : slots[i].item.key \in range} = DOMAIN doomed
    \/ DOMAIN doomed = {}

(* The map the caller sees: the elements in the array and those on their   *)
(* way into it.                                                            *)
Contents ==
  LET inSlots == {slots[i].item : i \in Occupied(slots)}
      coming == {todo[n] : n \in {m \in DOMAIN todo :
                   \A x \in inSlots : x.key # todo[m].key}}
      items == inSlots \cup coming
  IN  [k \in {x.key : x \in items} |-> (CHOOSE x \in items : x.key = k).val]

(* The table implements KeyedMap, as the proofs derive from KeepsPromises: *)
(* growing in the middle of an eviction, rehashing, shrinking, copying and *)
(* iterating change nothing.                                               *)
Map == INSTANCE KeyedMap WITH map <- Contents
IsMap == Map!Spec

(* The map changes in the step of the call that promises it, in the        *)
(* way it promises: a rehash, whoever calls it, neither loses nor adds.    *)
Promise ==
  \/ UNCHANGED Contents
  \/ \E k \in Key, v \in Value :
       \/ Emplace(k, v) /\ Map!Emplace(k, v)
       \/ Assign(k, v) /\ Map!Assign(k, v)
  \/ \E k \in Key : Erase(k) /\ Map!Erase(k)
  \/ EraseAtCursor /\ Map!Erase(slots[cursor.at].item.key)
  \/ EraseNext /\ \E k \in range : Map!Erase(k)
  \/ Clear /\ Map!Clear
  \/ EraseRange(-1) /\ Map!Clear

KeepsPromises == [][Promise]_vars

(* Every call returns: growing ends, because the larger array has room.    *)
Returns == ~Idle ~> Idle

=============================================================================
