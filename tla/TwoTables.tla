----------------------------- MODULE TwoTables -----------------------------
(***************************************************************************)
(* Who owns the arrays of the two hash maps.  Tables are constructed,      *)
(* copied, moved, swapped and destroyed, and growing one moves its         *)
(* elements into a new array while the old one belongs to the call of      *)
(* rehash alone; an allocation that fails or an element whose copy throws  *)
(* ends the calls under way.                                               *)
(*                                                                         *)
(* flat_hash_map and bytell_hash_map have the same text here but for the   *)
(* size of an array; kind says which one is meant.  Where an element lies  *)
(* and when a table is too full for one more is left open (FlatMap and     *)
(* BytellMap have it).  The static array of empty tables is Default.       *)
(***************************************************************************)
EXTENDS MapOps, Integers, Sequences, FiniteSets, FiniteSetsExt

CONSTANTS
  Table,           \* the variables of the program that hold a table
  Key,
  Allocator,       \* the allocators a table may be constructed with
  Array,           \* what may be allocated, as numbers
  Sizes,           \* prime_list
  MinLookups,      \* min_lookups of flat_hash_map, 4
  MinGrow,         \* the least size grow asks for
  BlockSize,       \* slots in a block of bytell_hash_map
  Spread,          \* slots asked for per element: 1 / max_load_factor
  Requests         \* arguments of rehash

Default == 0

TablesAssumption ==
  /\ Array \subseteq Nat \ {Default}
  /\ Sizes \subseteq Nat \ {0, 1} /\ Sizes # {}
  /\ MinLookups \in Nat \ {0} /\ MinGrow \in Nat \ {0}
  /\ BlockSize \in Nat \ {0} /\ Spread \in Nat \ {0}
  /\ Requests \subseteq Nat

(* Every number lies between two powers of two: the provers know nothing   *)
(* of exponents.                                                           *)
PowersKnown ==
  \A n \in Sizes : \E e \in 0 .. n : 2 ^ e <= n /\ n < 2 ^ (e + 1)

VARIABLES
  kind,            \* "flat" or "bytell"
  propagates,      \* the propagate_on_container traits of the allocator
  heap,            \* the arrays allocated: how long, and by which allocator
  alloc,           \* the allocators of the tables that are constructed
  store,           \* what swap_pointers exchanges
  frames,          \* the calls of rehash under way, the innermost first
  coming,          \* elements the call has still to insert
  call,            \* the call under way
  lost,            \* history: arrays a call of rehash had when it was ended
  alive            \* std::terminate was not called

fixed == <<kind, propagates>>
tableVars == <<fixed, heap, alloc, store, frames, coming, call, lost, alive>>

NoCall == [op |-> "none", on |-> Default, from |-> Default]
Idle == alive /\ call = NoCall

Built == DOMAIN alloc

-----------------------------------------------------------------------------
(* Sizes of arrays *)

FloorLog2(n) == CHOOSE e \in 0 .. n : 2 ^ e <= n /\ n < 2 ^ (e + 1)
MaxLookups(n) == Max({MinLookups, FloorLog2(n)})

(* Entries of flat_hash_map, as they are allocated and as they are freed. *)
FlatAllocated(n) == n + MaxLookups(n)
FlatFreed(s) == s.slotsMinusOne + s.lookups + 1

(* Bytes of bytell_hash_map, for elements of one byte: a control byte and  *)
(* an element per slot of a block, and control bytes past the end.         *)
Blocks(n) == n \div BlockSize + (IF n % BlockSize # 0 THEN 1 ELSE 0)
BytellAllocated(n) == 2 * BlockSize * Blocks(n) + BlockSize
BytellFreed(s) == 2 * BlockSize * Blocks(s.slotsMinusOne + 1) + BlockSize

Allocated(n) == IF kind = "flat" THEN FlatAllocated(n) ELSE BytellAllocated(n)
Freed(s) == IF kind = "flat" THEN FlatFreed(s) ELSE BytellFreed(s)

SizeOver(n) == Min({p \in Sizes : p >= n})
Fits(n) == \E p \in Sizes : p >= n

(* A table that was default constructed. *)
EmptyStore ==
  [entries |-> Default, slotsMinusOne |-> 0, mod |-> 0,
   lookups |-> MinLookups - 1, held |-> {}]

(* The new array of a rehash, with nothing in it. *)
NewStore(s, a, n) ==
  [entries |-> a, slotsMinusOne |-> n - 1, mod |-> n,
   lookups |-> MaxLookups(n), held |-> {}]

BucketCount(s) ==
  IF kind = "flat" \/ s.slotsMinusOne # 0 THEN s.slotsMinusOne + 1 ELSE 0

(* deallocate_data, which leaves the static array alone *)
Deallocate(h, s) == [a \in DOMAIN h \ {s.entries} |-> h[a]]

Cleared(s) == [s EXCEPT !.held = {}]

SwapPointers(T, t, u) == [T EXCEPT ![t] = T[u], ![u] = T[t]]

TablesInit ==
  /\ kind \in {"flat", "bytell"} /\ propagates \in BOOLEAN
  /\ heap = EmptyMap
  /\ alloc = EmptyMap
  /\ store = [t \in Table |-> EmptyStore]
  /\ frames = <<>>
  /\ coming = {}
  /\ call = NoCall
  /\ lost = {}
  /\ alive = TRUE

-----------------------------------------------------------------------------
(* rehash and exceptions.  T, H and A are the tables, the heap and the     *)
(* allocators as the call c has left them so far.                          *)

(* Variant: the copy constructor has no catch. *)
UnwindUncaught(c, A, T, H) ==
  /\ alloc' = IF c.op \in {"construct", "copy"} THEN Remove(A, c.on) ELSE A
  /\ heap' = IF c.op = "construct" THEN Deallocate(H, T[c.on]) ELSE H
  /\ store' = IF c.op \in {"construct", "copy"} THEN [T EXCEPT ![c.on] = EmptyStore] ELSE T
  /\ alive' = (c.op # "move")
  /\ lost' = lost \cup ({frames[i].entries : i \in DOMAIN frames} \ {Default})
  /\ frames' = <<>> /\ coming' = {} /\ call' = NoCall

(* An exception ends the call.  Nobody frees the arrays that calls of      *)
(* rehash have taken over; a table under construction is cleared and its   *)
(* array freed; the move assignment is noexcept.                           *)
Unwind(c, A, T, H) ==
  /\ alloc' = IF c.op \in {"construct", "copy"} THEN Remove(A, c.on) ELSE A
  /\ heap' = IF c.op \in {"construct", "copy"} THEN Deallocate(H, T[c.on]) ELSE H
  /\ store' = IF c.op \in {"construct", "copy"} THEN [T EXCEPT ![c.on] = EmptyStore] ELSE T
  /\ alive' = (c.op # "move")
  /\ lost' = lost \cup ({frames[i].entries : i \in DOMAIN frames} \ {Default})
  /\ frames' = <<>> /\ coming' = {} /\ call' = NoCall

GoOn(c, A, elements) ==
  alloc' = A /\ call' = c /\ coming' = elements /\ UNCHANGED <<lost, alive>>

Wanted(s, n) == Max({n, Spread * Cardinality(s.held)})

ToEmptyState(c, A, T, H, elements) ==
  /\ heap' = Deallocate(H, T[c.on])
  /\ store' = [T EXCEPT ![c.on] = EmptyStore]
  /\ GoOn(c, A, elements)
  /\ UNCHANGED frames

SameSize(c, A, T, H, elements) ==
  heap' = H /\ store' = T /\ GoOn(c, A, elements) /\ UNCHANGED frames

(* The old array becomes a local variable of rehash, with its elements. *)
NewArray(c, A, T, H, n, elements) ==
  /\ \E a \in Array \ DOMAIN H :
       /\ \A b \in Array \ DOMAIN H : a <= b
       /\ heap' = Put(H, a, [amount |-> Allocated(n), by |-> A[c.on]])
       /\ store' = [T EXCEPT ![c.on] = NewStore(@, a, n)]
  /\ frames' = <<T[c.on]>> \o frames
  /\ GoOn(c, A, elements)

(* Up to the loop that emplaces the elements of the old array. *)
Rehash(c, A, T, H, n, elements) ==
  LET wanted == Wanted(T[c.on], n)
      size == SizeOver(wanted)
      same == Fits(wanted) /\ size = T[c.on].slotsMinusOne + 1
  IN
  \/ wanted = 0 /\ ToEmptyState(c, A, T, H, elements)
  \/ wanted # 0 /\ same /\ SameSize(c, A, T, H, elements)
  \/ wanted # 0 /\ Fits(wanted) /\ ~same /\ NewArray(c, A, T, H, size, elements)
  \/ wanted # 0 /\ ~same /\ Unwind(c, A, T, H)

(* rehash_for_other_container *)
ForOther(s) == Min({Spread * Cardinality(s.held), BucketCount(s)})

-----------------------------------------------------------------------------
(* The calls.  Only one is under way at a time. *)

CallOf(op, t, u) == [op |-> op, on |-> t, from |-> u]

DefaultConstruct(t, a) ==
  /\ Idle /\ t \notin Built
  /\ alloc' = Put(alloc, t, a)
  /\ UNCHANGED <<fixed, heap, store, frames, coming, call, lost, alive>>

(* The constructors with a size, a range or a list; the delegating ones    *)
(* run the destructor if the insertion throws.                             *)
ConstructRange(t, a, n, elements) ==
  /\ Idle /\ t \notin Built
  /\ Rehash(CallOf("construct", t, t), Put(alloc, t, a), store, heap, n, elements)
  /\ UNCHANGED fixed

CopyConstruct(t, u, a) ==
  /\ Idle /\ t \notin Built /\ u \in Built
  /\ Rehash(CallOf("copy", t, u), Put(alloc, t, a), store, heap,
            ForOther(store[u]), store[u].held)
  /\ UNCHANGED fixed

(* The new table takes the other one's allocator, or an equal one. *)
MoveConstruct(t, u) ==
  /\ Idle /\ t \notin Built /\ u \in Built
  /\ alloc' = Put(alloc, t, alloc[u])
  /\ store' = SwapPointers(store, t, u)
  /\ UNCHANGED <<fixed, heap, frames, coming, call, lost, alive>>

Destroy(t) ==
  /\ Idle /\ t \in Built
  /\ heap' = Deallocate(heap, store[t])
  /\ alloc' = Remove(alloc, t)
  /\ store' = [store EXCEPT ![t] = EmptyStore]
  /\ UNCHANGED <<fixed, frames, coming, call, lost, alive>>

Insert(t, k) ==
  /\ Idle /\ t \in Built
  /\ call' = CallOf("insert", t, t) /\ coming' = {k}
  /\ UNCHANGED <<fixed, heap, alloc, store, frames, lost, alive>>

Erase(t, k) ==
  /\ Idle /\ t \in Built /\ k \in store[t].held
  /\ store' = [store EXCEPT ![t].held = @ \ {k}]
  /\ UNCHANGED <<fixed, heap, alloc, frames, coming, call, lost, alive>>

Clear(t) ==
  /\ Idle /\ t \in Built
  /\ store' = [store EXCEPT ![t] = Cleared(@)]
  /\ UNCHANGED <<fixed, heap, alloc, frames, coming, call, lost, alive>>

RehashCall(t, n) ==
  /\ Idle /\ t \in Built
  /\ Rehash(CallOf("rehash", t, t), alloc, store, heap, n, {})
  /\ UNCHANGED fixed

ShrinkToFit(t) ==
  /\ Idle /\ t \in Built
  /\ Rehash(CallOf("rehash", t, t), alloc, store, heap, ForOther(store[t]), {})
  /\ UNCHANGED fixed

(* Allocators that differ and are not exchanged are outside swap's         *)
(* contract.                                                               *)
Swap(t, u) ==
  /\ Idle /\ {t, u} \subseteq Built /\ t # u
  /\ propagates \/ alloc[t] = alloc[u]
  /\ store' = SwapPointers(store, t, u)
  /\ alloc' = [alloc EXCEPT ![t] = alloc[u], ![u] = alloc[t]]
  /\ UNCHANGED <<fixed, heap, frames, coming, call, lost, alive>>

Renewed(t) == [store EXCEPT ![t] = Cleared(@)]
Emptied(t) == [store EXCEPT ![t] = EmptyStore]

(* Variant: the array of the old allocator is kept for the new one. *)
CopyAssignKept(t, u) ==
  /\ Idle /\ {t, u} \subseteq Built /\ t # u
  /\ Rehash(CallOf("assign", t, u),
            IF propagates THEN [alloc EXCEPT ![t] = alloc[u]] ELSE alloc,
            Renewed(t), heap, ForOther(store[u]), store[u].held)
  /\ UNCHANGED fixed

CopyAssign(t, u) ==
  /\ Idle /\ {t, u} \subseteq Built /\ t # u
  /\ IF propagates /\ alloc[t] # alloc[u]
     THEN Rehash(CallOf("assign", t, u), [alloc EXCEPT ![t] = alloc[u]],
                 Emptied(t), Deallocate(heap, store[t]),
                 ForOther(store[u]), store[u].held)
     ELSE Rehash(CallOf("assign", t, u), alloc, Renewed(t), heap,
                 ForOther(store[u]), store[u].held)
  /\ UNCHANGED fixed

(* The three branches of the move assignment. *)
MoveAssignPropagating(t, u) ==
  /\ Idle /\ {t, u} \subseteq Built /\ t # u
  /\ propagates
  /\ heap' = Deallocate(heap, store[t])
  /\ alloc' = [alloc EXCEPT ![t] = alloc[u]]
  /\ store' = SwapPointers(Emptied(t), t, u)
  /\ UNCHANGED <<fixed, frames, coming, call, lost, alive>>

MoveAssignEqual(t, u) ==
  /\ Idle /\ {t, u} \subseteq Built /\ t # u
  /\ ~propagates /\ alloc[t] = alloc[u]
  /\ store' = SwapPointers(store, t, u)
  /\ UNCHANGED <<fixed, heap, alloc, frames, coming, call, lost, alive>>

MoveAssignEach(t, u) ==
  /\ Idle /\ {t, u} \subseteq Built /\ t # u
  /\ ~propagates /\ alloc[t] # alloc[u]
  /\ Rehash(CallOf("move", t, u), alloc, Renewed(t), heap,
            ForOther(store[u]), store[u].held)
  /\ UNCHANGED fixed

-----------------------------------------------------------------------------
(* emplace, on an element of the old array or one of the call's own *)

Running == alive /\ call # NoCall
Table0 == store[call.on]
Waiting == IF frames # <<>> THEN Head(frames).held ELSE coming

Taken(k) ==
  IF frames # <<>>
  THEN frames' = [frames EXCEPT ![1].held = @ \ {k}] /\ UNCHANGED coming
  ELSE coming' = coming \ {k} /\ UNCHANGED frames

Present(k) ==
  /\ Running /\ k \in Waiting \cap Table0.held
  /\ Taken(k)
  /\ UNCHANGED <<fixed, heap, alloc, store, call, lost, alive>>

HasRoom(s) == s.slotsMinusOne # 0 /\ Cardinality(s.held) <= s.slotsMinusOne

Place(k) ==
  /\ Running /\ k \in Waiting \ Table0.held
  /\ HasRoom(Table0)
  /\ store' = [store EXCEPT ![call.on].held = @ \cup {k}]
  /\ Taken(k)
  /\ UNCHANGED <<fixed, heap, alloc, call, lost, alive>>

(* The copy of an element throws; elements of an old array are moved. *)
CopyThrows(k) ==
  /\ Running /\ frames = <<>> /\ call.op # "move"
  /\ k \in coming \ Table0.held
  /\ HasRoom(Table0)
  /\ Unwind(call, alloc, store, heap)
  /\ UNCHANGED fixed

(* Too full, or no place near enough: grow and try again. *)
Grow(k) ==
  /\ Running /\ k \in Waiting \ Table0.held
  /\ Table0.slotsMinusOne = 0 \/ Table0.held # {}
  /\ Rehash(call, alloc, store, heap, Max({MinGrow, 2 * BucketCount(Table0)}), coming)
  /\ UNCHANGED fixed

EndRehash ==
  /\ Running /\ frames # <<>> /\ Waiting = {}
  /\ heap' = Deallocate(heap, Head(frames))
  /\ frames' = Tail(frames)
  /\ UNCHANGED <<fixed, alloc, store, coming, call, lost, alive>>

EndCall ==
  /\ Running /\ frames = <<>> /\ coming = {}
  /\ store' = IF call.op = "move" THEN [store EXCEPT ![call.from] = Cleared(@)] ELSE store
  /\ call' = NoCall
  /\ UNCHANGED <<fixed, heap, alloc, frames, coming, lost, alive>>

Call ==
  \/ \E t \in Table, a \in Allocator : DefaultConstruct(t, a)
  \/ \E t \in Table, a \in Allocator, n \in Requests, elements \in SUBSET Key :
       ConstructRange(t, a, n, elements)
  \/ \E t, u \in Table, a \in Allocator : CopyConstruct(t, u, a)
  \/ \E t, u \in Table : MoveConstruct(t, u)
  \/ \E t \in Table : Destroy(t)
  \/ \E t \in Table, k \in Key : Insert(t, k)
  \/ \E t \in Table, k \in Key : Erase(t, k)
  \/ \E t \in Table : Clear(t)
  \/ \E t \in Table, n \in Requests : RehashCall(t, n)
  \/ \E t \in Table : ShrinkToFit(t)
  \/ \E t, u \in Table : Swap(t, u)
  \/ \E t, u \in Table : CopyAssign(t, u)
  \/ \E t, u \in Table : MoveAssignPropagating(t, u)
  \/ \E t, u \in Table : MoveAssignEqual(t, u)
  \/ \E t, u \in Table : MoveAssignEach(t, u)

TablesNext ==
  \/ Call
  \/ \E k \in Key : Present(k)
  \/ \E k \in Key : Place(k)
  \/ \E k \in Key : CopyThrows(k)
  \/ \E k \in Key : Grow(k)
  \/ EndRehash
  \/ EndCall

TablesSpec == TablesInit /\ [][TablesNext]_tableVars

-----------------------------------------------------------------------------

(* The tables T, the arrays F that calls of rehash have taken over, the    *)
(* arrays H that are allocated and those L that are lost.                  *)
Owned(T, F, H, L) ==
  /\ \A t \in Table : T[t].entries \in {Default} \cup (DOMAIN H \ L)
  /\ \A i \in DOMAIN F : F[i].entries \in {Default} \cup (DOMAIN H \ L)
  /\ \A t, u \in Table :
       T[t].entries = T[u].entries => t = u \/ T[t].entries = Default
  /\ \A i, j \in DOMAIN F :
       F[i].entries = F[j].entries => i = j \/ F[i].entries = Default
  /\ \A t \in Table, i \in DOMAIN F :
       T[t].entries = F[i].entries => T[t].entries = Default
  /\ \A a \in DOMAIN H \ L :
       \/ \E t \in Table : T[t].entries = a
       \/ \E i \in DOMAIN F : F[i].entries = a
  /\ L \subseteq DOMAIN H

(* Every allocated array belongs to one table, to one call of rehash or is *)
(* lost, and nobody holds an array that was freed: destructors, catch      *)
(* blocks, swaps and moves free each array once.  An array is lost only    *)
(* when a growth inside a rehash fails (flat_hash_map.hpp:653).            *)
SoleOwner == Owned(store, frames, heap, lost)

Holders == {<<"table", t>> : t \in Table} \cup {<<"frame", i>> : i \in DOMAIN frames}

StoreOf(h) == IF h[1] = "table" THEN store[h[2]] ELSE frames[h[2]]

(* What deallocate_data would free is what was allocated, whoever holds    *)
(* the array by now: the size it computes from num_slots_minus_one and     *)
(* max_lookups, and the allocator of the table.                            *)
FreedAsAllocated ==
  \A h \in Holders :
    StoreOf(h).entries # Default =>
      heap[StoreOf(h).entries] =
        [amount |-> Freed(StoreOf(h)),
         by |-> alloc[IF h[1] = "table" THEN h[2] ELSE call.on]]

(* The function that maps hashes to slots is that of the table's size, or  *)
(* mod0 for the static array: with any other one, hashes would be mapped   *)
(* past the end of the array.                                              *)
PolicyFits ==
  \A t \in Table :
    LET s == store[t] IN
      IF s.entries = Default THEN s = [EmptyStore EXCEPT !.held = s.held]
      ELSE s.mod = s.slotsMinusOne + 1 /\ s.lookups = MaxLookups(s.mod)

(* All empty tables share one static array: nothing is ever put there. *)
StaticUntouched ==
  \A h \in Holders : StoreOf(h).entries = Default => StoreOf(h).held = {}

(* All that a holder of an array knows about it without asking: how it was *)
(* allocated, which slots it has and whether it may be written to.         *)
ArrayKnown == FreedAsAllocated /\ PolicyFits /\ StaticUntouched

=============================================================================
