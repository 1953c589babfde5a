------------------------------ MODULE FlatMap ------------------------------
(***************************************************************************)
(* ska::flat_hash_map: one array in which an element lies at most          *)
(* max_lookups slots behind its desired one and no element lies further    *)
(* from home than its successor had to walk (robin hood).  Inserting may   *)
(* displace a row of elements, one after the other; if the last of them    *)
(* comes too far from home, it takes the place of the new one and the      *)
(* table is grown, which emplaces everything again.                        *)
(*                                                                         *)
(* The array has max_lookups slots more than the table; the last of them   *)
(* is a sentinel that ends searches and iteration.  As in BytellMap, todo  *)
(* has the elements that nested calls of emplace have still to bring in.   *)
(***************************************************************************)
EXTENDS MapOps, Integers, Sequences, FiniteSets, FiniteSetsExt

CONSTANTS
  Key, Value,
  Hash,            \* the hash function, [Key -> Nat]
  Sizes,           \* prime_list, or the powers of two
  MinLookups,      \* min_lookups, 4
  MinGrow,         \* the least size that grow asks for, 4
  DefaultLoad,     \* _max_load_factor, as <<1, 2>>
  Loads,           \* arguments of max_load_factor
  Requests,        \* arguments of rehash and reserve
  NoItem

ASSUME FlatAssumption ==
  /\ Hash \in [Key -> Nat]
  /\ Sizes \subseteq Nat \ {0} /\ Sizes # {}
  /\ MinLookups \in Nat \ {0, 1} /\ MinGrow \in Nat \ {0}
  /\ Loads \subseteq (Nat \ {0}) \X (Nat \ {0}) /\ DefaultLoad \in Loads
  /\ Requests \subseteq Nat
  /\ NoItem \notin [key : Key, val : Value]

(* Every number lies between two powers of two: the provers know nothing   *)
(* of exponents.                                                           *)
ASSUME PowersAssumption ==
  \A n \in Sizes : \E e \in 0 .. n : 2 ^ e <= n /\ n < 2 ^ (e + 1)

VARIABLES
  slots,         \* entries: a function on 0 .. End
  size,          \* bucket_count: num_slots_minus_one + 1
  lookups,       \* max_lookups
  numElements,
  maxLoad,
  todo,          \* elements to emplace, in order
  hand,          \* to_insert, while emplace_new_key displaces elements
  cursor         \* an iterator of the caller, and the keys it has seen

array == <<slots, size, lookups>>
vars == <<array, numElements, maxLoad, todo, hand, cursor>>

Item == [key : Key, val : Value]

Empty == [dist |-> -1, item |-> NoItem]
Sentinel == [dist |-> 0, item |-> NoItem]
NoHand == [item |-> NoItem, dist |-> 0, at |-> 0, result |-> 0]
NoCursor == [at |-> -1, seen |-> {}, valid |-> FALSE]

Fresh(n, l) == [i \in 0 .. n + l - 1 |-> IF i = n + l - 1 THEN Sentinel ELSE Empty]

End == size + lookups - 1
Occupied(s) == {i \in DOMAIN s : s[i].item # NoItem}
Home(k) == Hash[k] % size

(* compute_max_lookups *)
Log2(n) == CHOOSE e \in 0 .. n : 2 ^ e <= n /\ n < 2 ^ (e + 1)
LookupsFor == [n \in Sizes |-> Max({MinLookups, Log2(n)})]

Matches(i, k) == slots[i].item # NoItem /\ slots[i].item.key = k

(* Variant: an element as far from home ends the search. *)
GoesOnNearer(i, k) == slots[i].dist > i - Home(k) /\ ~Matches(i, k)

GoesOn(i, k) == slots[i].dist >= i - Home(k) /\ ~Matches(i, k)

(* Where the loop of find and emplace ends: at the key, or at the first    *)
(* slot whose element is nearer to its home than the key would be.         *)
Stop(k) ==
  CHOOSE i \in Home(k) .. End :
    ~GoesOn(i, k) /\ \A j \in Home(k) .. i - 1 : GoesOn(j, k)

Found(k) == {i \in {Stop(k)} : Matches(i, k)}

Ceil(n, l) == (n * l[2] + l[1] - 1) \div l[1]

(* num_buckets_for_reserve *)
ForReserve(n) == Max({2 * n, Ceil(n, maxLoad)})

(* The least size that is large enough, as a set: it is empty if there is  *)
(* none.  Such an array cannot be allocated and the call throws.           *)
SizeOver(n) == {p \in Sizes : p >= n /\ \A q \in Sizes : q >= n => p <= q}

(* The elements in the order of their slots. *)
Rank(s, i) == Cardinality({j \in Occupied(s) : j <= i})
Stored(s) ==
  [n \in 1 .. Cardinality(Occupied(s)) |->
     s[CHOOSE i \in Occupied(s) : Rank(s, i) = n].item]

Idle == todo = <<>>

Init ==
  /\ size = 1 /\ lookups = MinLookups - 1 /\ slots = Fresh(size, lookups)
  /\ numElements = 0
  /\ maxLoad = DefaultLoad
  /\ todo = <<>>
  /\ hand = NoHand
  /\ cursor = NoCursor

-----------------------------------------------------------------------------
(* rehash, up to the loop that emplaces the elements of the old array s *)

Wanted(n) == Max({n, Ceil(numElements, maxLoad)})

ResetToEmpty ==
  size' = 1 /\ lookups' = MinLookups - 1 /\ slots' = Fresh(1, MinLookups - 1)

NewArray(n) ==
  size' = n /\ lookups' = LookupsFor[n] /\ slots' = Fresh(n, LookupsFor[n])

RehashTo(n, s) ==
  \/ /\ Wanted(n) = 0
     /\ ResetToEmpty
     /\ UNCHANGED <<numElements, todo>>
  \/ /\ Wanted(n) # 0
     /\ \E m \in SizeOver(Wanted(n)) :
          \/ /\ m = size
             /\ slots' = s
             /\ UNCHANGED <<size, lookups, numElements, todo>>
          \/ /\ m # size
             /\ NewArray(m)
             /\ numElements' = 0
             /\ todo' = Stored(s) \o todo

(* Variant: grow asks for the size there is. *)
GrowSame(s) == RehashTo(Max({MinGrow, size}), s)

GrowFrom(s) == RehashTo(Max({MinGrow, 2 * size}), s)

-----------------------------------------------------------------------------
(* emplace and emplace_new_key on the first element that waits *)

Emplace(k, v) ==
  /\ Idle
  /\ todo' = <<[key |-> k, val |-> v]>>
  /\ cursor' = NoCursor
  /\ UNCHANGED <<array, numElements, maxLoad, hand>>

Waiting == todo # <<>> /\ hand = NoHand

NewKey == Waiting /\ Found(Head(todo).key) = {}

At == Stop(Head(todo).key)
Distance == At - Home(Head(todo).key)

NoRoom ==
  \/ size = 1
  \/ Distance = lookups
  \/ (numElements + 1) * maxLoad[2] > size * maxLoad[1]

Present ==
  /\ Waiting /\ ~NewKey
  /\ todo' = Tail(todo)
  /\ UNCHANGED <<array, numElements, maxLoad, hand, cursor>>

Grow ==
  /\ NewKey /\ NoRoom
  /\ GrowFrom(slots)
  /\ UNCHANGED <<maxLoad, hand, cursor>>

PutAt(i, x, d) ==
  /\ slots[i] = Empty
  /\ slots' = [slots EXCEPT ![i] = [dist |-> d, item |-> x]]
  /\ numElements' = numElements + 1
  /\ todo' = Tail(todo)
  /\ hand' = NoHand
  /\ UNCHANGED <<size, lookups, maxLoad, cursor>>

Insert == NewKey /\ ~NoRoom /\ PutAt(At, Head(todo), Distance)

(* The new element takes the slot and the one in it is carried on. *)
Displace ==
  /\ NewKey /\ ~NoRoom /\ slots[At] # Empty
  /\ slots' = [slots EXCEPT ![At] = [dist |-> Distance, item |-> Head(todo)]]
  /\ hand' = [item |-> slots[At].item, dist |-> slots[At].dist + 1,
              at |-> At + 1, result |-> At]
  /\ UNCHANGED <<size, lookups, numElements, maxLoad, todo, cursor>>

Carrying == hand # NoHand

CarryIn == Carrying /\ PutAt(hand.at, hand.item, hand.dist)

Swap ==
  /\ Carrying
  /\ slots[hand.at] # Empty /\ slots[hand.at].dist < hand.dist
  /\ slots' = [slots EXCEPT ![hand.at] = [dist |-> hand.dist, item |-> hand.item]]
  /\ hand' = [hand EXCEPT !.item = slots[hand.at].item,
                          !.dist = slots[hand.at].dist + 1,
                          !.at = @ + 1]
  /\ UNCHANGED <<size, lookups, numElements, maxLoad, todo, cursor>>

(* Variant: one lookup more. *)
TooFarLate == hand.dist > lookups

TooFar == hand.dist + 1 = lookups

PassOver ==
  /\ Carrying
  /\ slots[hand.at].dist >= hand.dist /\ ~TooFar
  /\ hand' = [hand EXCEPT !.dist = @ + 1, !.at = @ + 1]
  /\ UNCHANGED <<array, numElements, maxLoad, todo, cursor>>

(* Variant: what is in the hand is not put back. *)
PutBackNothing == slots

(* swap(to_insert, result.current->value) *)
PutBack == [slots EXCEPT ![hand.result].item = hand.item]

GiveUp ==
  /\ Carrying
  /\ slots[hand.at].dist >= hand.dist /\ TooFar
  /\ GrowFrom(PutBack)
  /\ hand' = NoHand
  /\ UNCHANGED <<maxLoad, cursor>>

-----------------------------------------------------------------------------
(* The other calls *)

(* operator[] = on a key that is there *)
Assign(k, v) ==
  /\ Idle
  /\ \E i \in Found(k) : slots' = [slots EXCEPT ![i].item.val = v]
  /\ UNCHANGED <<size, lookups, numElements, maxLoad, todo, hand, cursor>>

(* Variant: the elements behind the gap stay. *)
ErasedOnly(i) == [slots EXCEPT ![i] = Empty]

(* The first slot from i on that is empty or whose element is at home. *)
NextHome(i) == Min({j \in DOMAIN slots : j >= i /\ slots[j].dist <= 0})

(* erase(it): the elements behind move up, to the next that is at home. *)
Erased(i) ==
  LET next == NextHome(i + 1)
  IN  [j \in DOMAIN slots |->
         IF j \in i .. next - 2
         THEN [dist |-> slots[j + 1].dist - 1, item |-> slots[j + 1].item]
         ELSE IF j = next - 1 THEN Empty ELSE slots[j]]

Erase(k) ==
  /\ Idle
  /\ numElements' = numElements - 1
  /\ cursor' = NoCursor
  /\ \E i \in Found(k) : slots' = Erased(i)
  /\ UNCHANGED <<size, lookups, maxLoad, todo, hand>>

Clear ==
  /\ Idle
  /\ slots' = Fresh(size, lookups)
  /\ numElements' = 0
  /\ cursor' = NoCursor
  /\ UNCHANGED <<size, lookups, maxLoad, todo, hand>>

Rehash(n) ==
  /\ Idle
  /\ cursor' = NoCursor
  /\ RehashTo(n, slots)
  /\ UNCHANGED <<maxLoad, hand>>

SetMaxLoad(l) ==
  /\ Idle
  /\ maxLoad' = l
  /\ UNCHANGED <<array, numElements, todo, hand, cursor>>

Reserve(n) == ForReserve(n) > size /\ Rehash(ForReserve(n))

ShrinkToFit == Rehash(Min({ForReserve(numElements), size}))

(* Copy construction: a table of its own size, filled by iteration. *)
Copy ==
  /\ Idle
  /\ \/ numElements = 0 /\ ResetToEmpty
     \/ /\ numElements # 0
        /\ \E m \in SizeOver(Min({ForReserve(numElements), size})) : NewArray(m)
  /\ numElements' = 0
  /\ todo' = Stored(slots)
  /\ cursor' = NoCursor
  /\ UNCHANGED <<maxLoad, hand>>

-----------------------------------------------------------------------------
(* Iteration: upwards, to the sentinel *)

Above(s, i) == Min({j \in DOMAIN s : j > i /\ s[j].dist >= 0})

Begin ==
  /\ Idle
  /\ cursor' = [at |-> Above(slots, -1), seen |-> {}, valid |-> TRUE]
  /\ UNCHANGED <<array, numElements, maxLoad, todo, hand>>

OnElement == Idle /\ cursor.valid /\ cursor.at # End

Advance ==
  /\ OnElement
  /\ cursor' = [cursor EXCEPT !.seen = @ \cup {slots[cursor.at].item.key},
                              !.at = Above(slots, cursor.at)]
  /\ UNCHANGED <<array, numElements, maxLoad, todo, hand>>

(* Variant: always the next one. *)
AfterEraseNext(s, i) == Above(s, i)

(* The iterator that erase returns: the slot, or the next one if empty. *)
AfterErase(s, i) == Above(s, i - 1)

EraseAtCursor ==
  /\ OnElement
  /\ numElements' = numElements - 1
  /\ slots' = Erased(cursor.at)
  /\ cursor' = [cursor EXCEPT !.at = AfterErase(slots', cursor.at)]
  /\ UNCHANGED <<size, lookups, maxLoad, todo, hand>>

(* num_to_move: an element moves up by the length of the gap, but neither  *)
(* beyond its home nor by more than the ones before it.                    *)
MoveUp(first, end, i) == Min({end - first} \cup {slots[j].dist : j \in end .. i})

LeftAfter(first, end) ==
  numElements - Cardinality(Occupied(slots) \cap first .. end - 1)

ErasedRange(first, end) ==
  LET next == NextHome(end)
      goesTo(j) == {i \in end .. next - 1 : i - MoveUp(first, end, i) = j}
  IN  [j \in DOMAIN slots |->
         IF goesTo(j) # {}
         THEN LET i == Min(goesTo(j))
              IN  [dist |-> slots[i].dist - MoveUp(first, end, i), item |-> slots[i].item]
         ELSE IF j \in first .. next - 1 THEN Empty ELSE slots[j]]

(* to_return *)
AfterRange(first, end) == IF end = NextHome(end) THEN end ELSE end - MoveUp(first, end, end)

(* erase(it, end), of at least one element *)
EraseRange(end) ==
  /\ OnElement
  /\ end \in Occupied(slots) \cup {End} /\ cursor.at < end
  /\ numElements' = LeftAfter(cursor.at, end)
  /\ slots' = ErasedRange(cursor.at, end)
  /\ cursor' = [cursor EXCEPT !.at = AfterRange(cursor.at, end)]
  /\ UNCHANGED <<size, lookups, maxLoad, todo, hand>>

-----------------------------------------------------------------------------

(* Calls that only change how the elements are kept *)
Rearrange ==
  \/ \E n \in Requests : Rehash(n) \/ Reserve(n)
  \/ \E l \in Loads : SetMaxLoad(l)
  \/ ShrinkToFit
  \/ Copy
  \/ Begin
  \/ Advance

Call ==
  \/ \E k \in Key, v \in Value : Emplace(k, v) \/ Assign(k, v)
  \/ \E k \in Key : Erase(k)
  \/ Clear
  \/ Rearrange
  \/ EraseAtCursor
  \/ \E end \in DOMAIN slots : EraseRange(end)

(* What an emplace that has begun still has to do. *)
Continue ==
  \/ Present
  \/ Grow
  \/ Insert
  \/ Displace
  \/ CarryIn
  \/ Swap
  \/ PassOver
  \/ GiveUp

Next == Call \/ Continue

Spec == Init /\ [][Next]_vars

(* A call runs on until it returns. *)
FairSpec == Spec /\ WF_vars(Continue)

-----------------------------------------------------------------------------

(* Every slot but the sentinel is empty or has an element with its         *)
(* distance, within max_lookups, and the array is as long as the table     *)
(* and max_lookups say.                                                    *)
TypeOK ==
  /\ size \in Nat \ {0} /\ lookups \in Nat
  /\ DOMAIN slots = 0 .. End
  /\ \A i \in 0 .. End - 1 :
       \/ slots[i] = Empty
       \/ slots[i].dist \in 0 .. lookups - 1 /\ slots[i].item \in Item
  /\ numElements \in 0 .. End
  /\ maxLoad \in Loads
  /\ todo \in Seq(Item)
  /\ hand.item \in Item \cup {NoItem} /\ hand.dist \in 0 .. lookups
  /\ cursor.at \in DOMAIN slots \cup {-1} /\ cursor.seen \subseteq Key

(* The last slot is never written: an element that is carried on gives up  *)
(* in front of it, so that searches and iterators always find their end.   *)
SentinelKept == slots[End] = Sentinel /\ (hand # NoHand => hand.at < End)

(* The array and its end are in order. *)
WellFormed == TypeOK /\ SentinelKept

(* Whatever was displaced, moved up or given up: every element is found by *)
(* the search for its key, which stops at the first element nearer home.   *)
Findable ==
  hand = NoHand =>
    \A i \in Occupied(slots) : Found(slots[i].item.key) = {i}

(* size() counts the elements in the array, also while one is in the hand  *)
(* and while a rehash fills the new array.                                 *)
SizeCounts == numElements = Cardinality(Occupied(slots))

(* An element is never in two slots, nor in a slot and among those still   *)
(* to be moved into the new array.                                         *)
NothingTwice ==
  /\ \A i, j \in Occupied(slots) :
       slots[i].item.key = slots[j].item.key => i = j
  /\ \A i \in Occupied(slots), n \in 1 .. Len(todo) - 1 :
       slots[i].item.key = todo[n].key => hand # NoHand /\ n = 1

(* Every element is counted once and is there once, at every moment. *)
EachOnce == SizeCounts /\ NothingTwice

(* A pass of an iterator that erases some of the elements on its way, one  *)
(* by one or in ranges, sees each of those that stay once, although erase  *)
(* moves the elements behind it up.                                        *)
PassSeesAll ==
  Idle /\ cursor.valid =>
    \A i \in Occupied(slots) : slots[i].item.key \in cursor.seen <=> i < cursor.at

(* The map the caller sees: the elements in the array, the one in the hand *)
(* and those on their way into the array.                                  *)
InTable == {slots[i].item : i \in Occupied(slots)} \cup ({hand.item} \ {NoItem})
Coming == {x \in {todo[n] : n \in DOMAIN todo} : \A y \in InTable : y.key # x.key}
Items == InTable \cup Coming
Contents == [k \in {x.key : x \in Items} |-> (CHOOSE x \in Items : x.key = k).val]

Map == INSTANCE KeyedMap WITH map <- Contents

(* The map changes in the step of the call that promises it, in the way    *)
(* KeyedMap promises, and in every such step: growing in the middle of a   *)
(* displacement, rehashing, copying and iterating neither lose nor add an  *)
(* element.                                                                *)
Promise ==
  /\ \A k \in Key, v \in Value :
       /\ Emplace(k, v) =>
            IF k \in DOMAIN Contents THEN UNCHANGED Contents ELSE Map!Emplace(k, v)
       /\ Assign(k, v) => Map!Assign(k, v)
  /\ \A k \in Key : Erase(k) => Map!Erase(k)
  /\ EraseAtCursor => Map!Erase(slots[cursor.at].item.key)
  /\ \A end \in DOMAIN slots :
       EraseRange(end) =>
         LET gone == {slots[i].item.key : i \in Occupied(slots) \cap cursor.at .. end - 1}
         IN  Contents' = [k \in DOMAIN Contents \ gone |-> Contents[k]]
  /\ Clear => Map!Clear
  /\ Rearrange \/ Continue => UNCHANGED Contents

KeepsPromises == [][Promise]_vars

(* Every call returns: growing ends, because the larger array has room.    *)
Returns == ~Idle ~> Idle

=============================================================================
