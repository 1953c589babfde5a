-------------------------- MODULE TwoTablesProofs --------------------------
(***************************************************************************)
(* SoleOwner and ArrayKnown of TwoTables, as theorems about any number of  *)
(* tables, keys, allocators and arrays, and any sizes.                     *)
(*                                                                         *)
(* The lemmas are about the helpers the calls are built from, for tables,  *)
(* frames and heaps in any state in which Owned holds, because a call may  *)
(* use several of them in a row.                                           *)
(***************************************************************************)
EXTENDS TwoTables, CommonLemmas

(* A store has these fields, whatever is in them. *)
Shaped(s) ==
  s = [entries |-> s.entries, slotsMinusOne |-> s.slotsMinusOne, mod |-> s.mod,
       lookups |-> s.lookups, held |-> s.held]

AreTables(T) == T = [t \in Table |-> T[t]] /\ \A t \in Table : Shaped(T[t])

AreFrames(F) ==
  F \in Seq({F[i] : i \in DOMAIN F}) /\ \A i \in DOMAIN F : Shaped(F[i])

Sound(T, F, H, L) ==
  AreTables(T) /\ AreFrames(F) /\ Default \notin DOMAIN H /\ Owned(T, F, H, L)

CallKnown == call # NoCall => call.on \in Table /\ call.from \in Table

OwnerInv == Sound(store, frames, heap, lost) /\ CallKnown

-----------------------------------------------------------------------------
(* Stores *)

LEMMA EmptyIsShaped == Shaped(EmptyStore) /\ EmptyStore.entries = Default
BY DEF Shaped, EmptyStore

LEMMA NewIsShaped ==
  ASSUME NEW s, NEW a, NEW n
  PROVE  Shaped(NewStore(s, a, n)) /\ NewStore(s, a, n).entries = a
BY DEF Shaped, NewStore

LEMMA HeldIsShaped ==
  ASSUME NEW s, Shaped(s), NEW keys
  PROVE  Shaped([s EXCEPT !.held = keys]) /\ [s EXCEPT !.held = keys].entries = s.entries
<1>1. [s EXCEPT !.held = keys] =
        [entries |-> s.entries, slotsMinusOne |-> s.slotsMinusOne, mod |-> s.mod,
         lookups |-> s.lookups, held |-> keys]
  BY DEF Shaped
<1> QED
  BY <1>1 DEF Shaped

(* One table changed. *)
LEMMA Changed ==
  ASSUME NEW T, AreTables(T), NEW t \in Table, NEW s, Shaped(s)
  PROVE  /\ AreTables([T EXCEPT ![t] = s])
         /\ \A x \in Table : [T EXCEPT ![t] = s][x] = IF x = t THEN s ELSE T[x]
<1>1. \A x \in Table : [T EXCEPT ![t] = s][x] = IF x = t THEN s ELSE T[x]
  BY DEF AreTables
<1>2. [T EXCEPT ![t] = s] = [x \in Table |-> [T EXCEPT ![t] = s][x]]
  BY DEF AreTables
<1>3. \A x \in Table : Shaped([T EXCEPT ![t] = s][x])
  BY <1>1 DEF AreTables
<1> QED
  BY <1>1, <1>2, <1>3 DEF AreTables

(* Elements that come and go do not concern the arrays. *)
LEMMA SameArrays ==
  ASSUME NEW T, NEW F, NEW H, NEW L, Sound(T, F, H, L),
         NEW U, AreTables(U), \A t \in Table : U[t].entries = T[t].entries
  PROVE  Sound(U, F, H, L)
BY DEF Sound, Owned

(* A table gives its array back and takes the static one. *)
LEMMA Released ==
  ASSUME NEW T, NEW F, NEW H, NEW L, Sound(T, F, H, L), NEW t \in Table
  PROVE  Sound([T EXCEPT ![t] = EmptyStore], F, Deallocate(H, T[t]), L)
<1> DEFINE U == [T EXCEPT ![t] = EmptyStore]
           G == Deallocate(H, T[t])
<1>1. AreTables(U) /\ \A x \in Table : U[x].entries = IF x = t THEN Default ELSE T[x].entries
  BY Changed, EmptyIsShaped DEF Sound
<1>2. DOMAIN G = DOMAIN H \ {T[t].entries}
  BY DEF Deallocate
<1> HIDE DEF U, G
<1>3. Owned(U, F, G, L)
  BY <1>1, <1>2 DEF Owned, Sound
<1> QED
  BY <1>1, <1>2, <1>3 DEF Sound, U, G

(* swap_pointers *)
LEMMA Exchanged ==
  ASSUME NEW T, NEW F, NEW H, NEW L, Sound(T, F, H, L), NEW t \in Table, NEW u \in Table
  PROVE  Sound(SwapPointers(T, t, u), F, H, L)
<1> DEFINE U == SwapPointers(T, t, u)
           V == [T EXCEPT ![t] = T[u]]
<1>1. /\ AreTables(V)
      /\ \A x \in Table : V[x] = IF x = t THEN T[u] ELSE T[x]
  BY Changed DEF Sound, AreTables
<1> HIDE DEF V
<1>2. AreTables([V EXCEPT ![u] = T[t]])
      /\ \A x \in Table : [V EXCEPT ![u] = T[t]][x] = IF x = u THEN T[t] ELSE V[x]
  BY <1>1, Changed DEF Sound, AreTables
<1>3. U = [V EXCEPT ![u] = T[t]]
  BY DEF SwapPointers, V
<1> HIDE DEF U
<1>4. AreTables(U) /\ \A x \in Table : U[x] = IF x = u THEN T[t] ELSE IF x = t THEN T[u] ELSE T[x]
  BY <1>1, <1>2, <1>3
<1>5. Owned(U, F, H, L)
  BY <1>4 DEF Owned, Sound
<1> QED
  BY <1>4, <1>5 DEF Sound, U

-----------------------------------------------------------------------------
(* Frames *)

LEMMA OwnRange ==
  ASSUME NEW S, NEW F \in Seq(S)
  PROVE  F \in Seq({F[i] : i \in DOMAIN F})
<1>1. F = [i \in 1 .. Len(F) |-> F[i]] /\ DOMAIN F = 1 .. Len(F) /\ Len(F) \in Nat
  OBVIOUS
<1> QED
  BY <1>1

(* G has s in front of the frames F. *)
InFront(G, s, F) ==
  /\ AreFrames(G)
  /\ DOMAIN G = 1 .. Len(F) + 1 /\ Len(F) \in Nat /\ DOMAIN F = 1 .. Len(F)
  /\ G[1] = s
  /\ \A i \in DOMAIN F : G[i + 1] = F[i]

LEMMA FramePushed ==
  ASSUME NEW F, AreFrames(F), NEW s, Shaped(s)
  PROVE  InFront(<<s>> \o F, s, F)
<1> DEFINE S == {F[i] : i \in DOMAIN F} \cup {s}
           G == <<s>> \o F
<1>1. F \in Seq({F[i] : i \in DOMAIN F}) /\ \A i \in DOMAIN F : Shaped(F[i])
  BY DEF AreFrames
<1>2. F \in Seq(S) /\ <<s>> \in Seq(S)
  <2>1. {F[i] : i \in DOMAIN F} \subseteq S /\ s \in S
    OBVIOUS
  <2> HIDE DEF S
  <2> QED
    BY <1>1, <2>1
<1> HIDE DEF S
<1>3. /\ G \in Seq(S) /\ DOMAIN G = 1 .. Len(F) + 1 /\ Len(F) \in Nat /\ DOMAIN F = 1 .. Len(F)
      /\ G[1] = s /\ \A i \in DOMAIN F : G[i + 1] = F[i]
  BY <1>2
<1> HIDE DEF G
<1>4. \A i \in DOMAIN G : Shaped(G[i])
  <2> TAKE i \in DOMAIN G
  <2>1. i = 1 \/ (i - 1 \in DOMAIN F /\ i = (i - 1) + 1)
    BY <1>3
  <2> QED
    BY <1>1, <1>3, <2>1
<1>5. AreFrames(G)
  BY <1>3, <1>4, OwnRange DEF AreFrames
<1> QED
  BY <1>3, <1>5 DEF G, InFront

LEMMA FramePopped ==
  ASSUME NEW F, AreFrames(F), F # <<>>
  PROVE  /\ AreFrames(Tail(F))
         /\ 1 \in DOMAIN F /\ Head(F) = F[1]
         /\ \A i \in DOMAIN Tail(F) : i + 1 \in DOMAIN F /\ i + 1 # 1 /\ Tail(F)[i] = F[i + 1]
         /\ \A i \in DOMAIN F : i # 1 => i - 1 \in DOMAIN Tail(F) /\ Tail(F)[i - 1] = F[i]
         /\ \A i, j \in DOMAIN Tail(F) : i + 1 = j + 1 => i = j
<1> DEFINE S == {F[i] : i \in DOMAIN F}
           G == Tail(F)
<1>1. F \in Seq(S) /\ \A i \in DOMAIN F : Shaped(F[i])
  BY DEF AreFrames
<1> HIDE DEF S
<1>2. /\ G \in Seq(S) /\ DOMAIN F = 1 .. Len(F) /\ Len(F) \in Nat \ {0}
      /\ DOMAIN G = 1 .. Len(F) - 1 /\ Head(F) = F[1]
      /\ \A i \in 1 .. Len(F) - 1 : G[i] = F[i + 1]
  BY <1>1
<1> HIDE DEF G
<1>3. \A i \in DOMAIN G : i + 1 \in DOMAIN F /\ i + 1 # 1 /\ G[i] = F[i + 1]
  BY <1>2
<1>4. AreFrames(G)
  <2>1. G \in Seq({G[i] : i \in DOMAIN G})
    BY <1>2, OwnRange
  <2>2. \A i \in DOMAIN G : Shaped(G[i])
    BY <1>1, <1>3
  <2> QED
    BY <2>1, <2>2 DEF AreFrames
<1> QED
  BY <1>2, <1>3, <1>4 DEF G

(* An element leaves the innermost frame. *)
LEMMA FrameChanged ==
  ASSUME NEW F, AreFrames(F), F # <<>>, NEW keys
  PROVE  /\ AreFrames([F EXCEPT ![1].held = keys])
         /\ DOMAIN [F EXCEPT ![1].held = keys] = DOMAIN F
         /\ \A i \in DOMAIN F : [F EXCEPT ![1].held = keys][i].entries = F[i].entries
<1> DEFINE s == [F[1] EXCEPT !.held = keys]
           S == {F[i] : i \in DOMAIN F} \cup {s}
           G == [F EXCEPT ![1] = s]
<1>1. F \in Seq({F[i] : i \in DOMAIN F}) /\ 1 \in DOMAIN F
      /\ \A i \in DOMAIN F : Shaped(F[i])
  BY FramePopped DEF AreFrames
<1>2. Shaped(s) /\ s.entries = F[1].entries
  BY <1>1, HeldIsShaped
<1> HIDE DEF s
<1>3. F \in Seq(S) /\ s \in S
  <2>1. {F[i] : i \in DOMAIN F} \subseteq S /\ s \in S
    OBVIOUS
  <2> HIDE DEF S
  <2> QED
    BY <1>1, <2>1
<1> HIDE DEF S
<1>4. G \in Seq(S) /\ DOMAIN G = DOMAIN F /\ \A i \in DOMAIN F : G[i] = IF i = 1 THEN s ELSE F[i]
  BY <1>1, <1>3
<1> HIDE DEF G
<1>5. AreFrames(G)
  BY <1>1, <1>2, <1>4, OwnRange DEF AreFrames
<1>6. G = [F EXCEPT ![1].held = keys]
  BY DEF G, s
<1> QED
  BY <1>2, <1>4, <1>5, <1>6

-----------------------------------------------------------------------------
(* rehash and exceptions *)

LEMMA Pushed ==
  ASSUME NEW T, NEW F, NEW H, NEW L, Sound(T, F, H, L), NEW t \in Table,
         NEW a, a # Default, a \notin DOMAIN H,
         NEW s, Shaped(s), s.entries = a,
         NEW K, DOMAIN K = DOMAIN H \cup {a}
  PROVE  Sound([T EXCEPT ![t] = s], <<T[t]>> \o F, K, L)
<1> DEFINE U == [T EXCEPT ![t] = s]
           r == T[t]
           G == <<r>> \o F
<1>1. AreTables(U) /\ \A x \in Table : U[x].entries = IF x = t THEN a ELSE T[x].entries
  BY Changed DEF Sound
<1>2. /\ AreFrames(G) /\ DOMAIN G = 1 .. Len(F) + 1 /\ Len(F) \in Nat
      /\ DOMAIN F = 1 .. Len(F)
      /\ G[1] = T[t] /\ \A i \in DOMAIN F : G[i + 1] = F[i]
  <2>1. AreFrames(F) /\ Shaped(r)
    BY DEF Sound, AreTables
  <2>2. InFront(G, r, F)
    BY <2>1, FramePushed, Zenon
  <2> HIDE DEF G
  <2> QED
    BY <2>2 DEF InFront
<1> HIDE DEF U, G
<1>3. /\ \A i \in DOMAIN G : IF i = 1 THEN G[i].entries = T[t].entries
                             ELSE i - 1 \in DOMAIN F /\ G[i].entries = F[i - 1].entries
      /\ 1 \in DOMAIN G /\ G[1].entries = T[t].entries
      /\ \A i \in DOMAIN F : i + 1 \in DOMAIN G /\ G[i + 1].entries = F[i].entries
      /\ \A i, j \in DOMAIN G : i - 1 = j - 1 => i = j
  <2>1. \A i \in DOMAIN G : i # 1 => i - 1 \in DOMAIN F /\ i = (i - 1) + 1
    BY <1>2
  <2>2. \A i \in DOMAIN G : i # 1 => G[i] = F[i - 1]
    BY <1>2, <2>1
  <2>3. \A i \in DOMAIN F : i + 1 \in DOMAIN G
    BY <1>2
  <2>4. \A i, j \in DOMAIN G : i - 1 = j - 1 => i = j
    BY <1>2
  <2> QED
    BY <1>2, <2>1, <2>2, <2>3, <2>4
<1>4. Owned(U, G, K, L)
  <2> USE DEF Sound, Owned
  <2>1. L \subseteq DOMAIN K /\ a \notin L
    OBVIOUS
  <2>2. \A x \in Table : U[x].entries \in {Default} \cup (DOMAIN K \ L)
    BY <1>1, <2>1
  <2>3. \A i \in DOMAIN G : G[i].entries \in {Default} \cup (DOMAIN H \ L)
    BY <1>3
  <2>4. \A x, y \in Table : U[x].entries = U[y].entries => x = y \/ U[x].entries = Default
    BY <1>1
  <2>5. \A i, j \in DOMAIN G : G[i].entries = G[j].entries => i = j \/ G[i].entries = Default
    BY <1>3
  <2>6. \A x \in Table, i \in DOMAIN G :
          U[x].entries = G[i].entries => U[x].entries = Default
    BY <1>1, <1>3
  <2>7. ASSUME NEW b \in DOMAIN K \ L
        PROVE  \/ \E x \in Table : U[x].entries = b
               \/ \E i \in DOMAIN G : G[i].entries = b
    BY <1>1, <1>3
  <2> QED
    BY <2>1, <2>2, <2>3, <2>4, <2>5, <2>6, <2>7
<1>5. Default \notin DOMAIN K
  BY DEF Sound
<1> QED
  BY <1>1, <1>2, <1>4, <1>5 DEF Sound, U, G

(* The innermost call of rehash ends and frees the array it took over. *)
LEMMA Popped ==
  ASSUME NEW T, NEW F, NEW H, NEW L, Sound(T, F, H, L), F # <<>>
  PROVE  Sound(T, Tail(F), Deallocate(H, Head(F)), L)
<1> DEFINE G == Tail(F)
           K == Deallocate(H, Head(F))
<1>1. /\ AreFrames(G) /\ 1 \in DOMAIN F /\ Head(F) = F[1]
      /\ \A i \in DOMAIN G : i + 1 \in DOMAIN F /\ i + 1 # 1 /\ G[i] = F[i + 1]
      /\ \A i \in DOMAIN F : i # 1 => i - 1 \in DOMAIN G /\ G[i - 1] = F[i]
      /\ \A i, j \in DOMAIN G : i + 1 = j + 1 => i = j
  BY FramePopped DEF Sound
<1>2. DOMAIN K = DOMAIN H \ {F[1].entries}
  BY <1>1 DEF Deallocate
<1> HIDE DEF G, K
<1>3. Owned(T, G, K, L)
  <2> USE DEF Sound, Owned
  <2>1. L \subseteq DOMAIN K
    BY <1>1, <1>2
  <2>2. \A x \in Table : T[x].entries \in {Default} \cup (DOMAIN K \ L)
    BY <1>1, <1>2
  <2>3. \A i \in DOMAIN G : G[i].entries \in {Default} \cup (DOMAIN K \ L)
    BY <1>1, <1>2
  <2>4. \A i, j \in DOMAIN G : G[i].entries = G[j].entries => i = j \/ G[i].entries = Default
    BY <1>1
  <2>5. \A x \in Table, i \in DOMAIN G :
          T[x].entries = G[i].entries => T[x].entries = Default
    BY <1>1
  <2>6. ASSUME NEW b \in DOMAIN K \ L
        PROVE  \/ \E x \in Table : T[x].entries = b
               \/ \E i \in DOMAIN G : G[i].entries = b
    BY <1>1, <1>2
  <2> QED
    BY <2>1, <2>2, <2>3, <2>4, <2>5, <2>6
<1> QED
  BY <1>1, <1>2, <1>3 DEF Sound, G, K

(* The arrays of the frames are lost when an exception ends the call. *)
LEMMA Lost ==
  ASSUME NEW T, NEW F, NEW H, NEW L, Sound(T, F, H, L)
  PROVE  Sound(T, <<>>, H, L \cup ({F[i].entries : i \in DOMAIN F} \ {Default}))
<1> DEFINE M == L \cup ({F[i].entries : i \in DOMAIN F} \ {Default})
<1>1. AreFrames(<<>>)
  BY DEF AreFrames
<1>2. Owned(T, <<>>, H, M)
  <2> USE DEF Sound, Owned
  <2>1. M \subseteq DOMAIN H
    OBVIOUS
  <2>2. \A x \in Table : T[x].entries \in {Default} \cup (DOMAIN H \ M)
    OBVIOUS
  <2>3. ASSUME NEW b \in DOMAIN H \ M
        PROVE  \E x \in Table : T[x].entries = b
    OBVIOUS
  <2>4. DOMAIN <<>> = {}
    OBVIOUS
  <2> HIDE DEF M
  <2> QED
    BY <2>1, <2>2, <2>3, <2>4
<1> QED
  BY <1>1, <1>2 DEF Sound

(* The invariant in the next state, from what the lemmas establish. *)
LEMMA Primed ==
  ASSUME Sound(store', frames', heap', lost'), CallKnown'
  PROVE  OwnerInv'
BY DEF OwnerInv, Sound, Owned, AreTables, AreFrames

LEMMA Unwound ==
  ASSUME NEW c, NEW A, NEW T, NEW H, Sound(T, frames, H, lost), c.on \in Table,
         Unwind(c, A, T, H)
  PROVE  OwnerInv'
<1>1. /\ lost' = lost \cup ({frames[i].entries : i \in DOMAIN frames} \ {Default})
      /\ frames' = <<>> /\ CallKnown'
  BY DEF Unwind, CallKnown
<1>2. CASE c.op \in {"construct", "copy"}
  <2>1. store' = [T EXCEPT ![c.on] = EmptyStore] /\ heap' = Deallocate(H, T[c.on])
    BY <1>2 DEF Unwind
  <2>2. Sound(store', frames, heap', lost)
    BY <2>1, Released
  <2>3. Sound(store', frames', heap', lost')
    BY <1>1, <2>2, Lost
  <2> QED
    BY <1>1, <2>3, Primed
<1>3. CASE c.op \notin {"construct", "copy"}
  <2>1. store' = T /\ heap' = H
    BY <1>3 DEF Unwind
  <2>2. Sound(store', frames', heap', lost')
    BY <1>1, <2>1, Lost
  <2> QED
    BY <1>1, <2>2, Primed
<1> QED
  BY <1>2, <1>3

LEMMA Rehashed ==
  ASSUME TablesAssumption,
         NEW c, NEW A, NEW T, NEW H, NEW n, NEW elements,
         Sound(T, frames, H, lost), c.on \in Table, c.from \in Table,
         Rehash(c, A, T, H, n, elements)
  PROVE  OwnerInv'
<1>1. CASE ToEmptyState(c, A, T, H, elements)
  <2>1. /\ store' = [T EXCEPT ![c.on] = EmptyStore] /\ heap' = Deallocate(H, T[c.on])
        /\ call' = c /\ UNCHANGED <<frames, lost>>
    BY <1>1 DEF ToEmptyState, GoOn
  <2>2. Sound(store', frames', heap', lost')
    BY <2>1, Released
  <2> QED
    BY <2>1, <2>2, Primed DEF CallKnown
<1>2. CASE SameSize(c, A, T, H, elements)
  BY <1>2, Primed DEF SameSize, GoOn, CallKnown
<1>3. ASSUME NEW size, NewArray(c, A, T, H, size, elements) PROVE OwnerInv'
  <2>1. PICK a \in Array \ DOMAIN H :
          /\ heap' = Put(H, a, [amount |-> Allocated(size), by |-> A[c.on]])
          /\ store' = [T EXCEPT ![c.on] = NewStore(T[c.on], a, size)]
    BY <1>3 DEF NewArray, Sound, AreTables
  <2>2. frames' = <<T[c.on]>> \o frames /\ call' = c /\ UNCHANGED lost
    BY <1>3 DEF NewArray, GoOn
  <2>3. a # Default /\ DOMAIN heap' = DOMAIN H \cup {a}
    BY <2>1 DEF TablesAssumption, Put
  <2>4. Sound(store', frames', heap', lost')
    <3>1. Shaped(NewStore(T[c.on], a, size)) /\ NewStore(T[c.on], a, size).entries = a
      BY NewIsShaped
    <3> QED
      BY <2>1, <2>2, <2>3, <3>1, Pushed
  <2> QED
    BY <2>2, <2>4, Primed DEF CallKnown
<1> QED
  BY <1>1, <1>2, <1>3, Unwound DEF Rehash

-----------------------------------------------------------------------------
(* The calls and their steps *)

LEMMA OwnerInit == TablesAssumption /\ TablesInit => OwnerInv
<1> SUFFICES ASSUME TablesInit PROVE OwnerInv
  OBVIOUS
<1>1. /\ heap = EmptyMap /\ store = [t \in Table |-> EmptyStore]
      /\ frames = <<>> /\ call = NoCall /\ lost = {}
  BY DEF TablesInit
<1>2. AreTables(store) /\ \A t \in Table : store[t].entries = Default
  BY <1>1, EmptyIsShaped DEF AreTables
<1>3. AreFrames(frames) /\ DOMAIN frames = {}
  BY <1>1 DEF AreFrames
<1>4. DOMAIN heap = {}
  BY <1>1 DEF EmptyMap
<1>5. Owned(store, frames, heap, lost)
  BY <1>1, <1>2, <1>3, <1>4 DEF Owned
<1> QED
  BY <1>1, <1>2, <1>3, <1>4, <1>5 DEF OwnerInv, Sound, CallKnown

LEMMA HeldChanged ==
  ASSUME NEW T, NEW F, NEW H, NEW L, Sound(T, F, H, L), NEW t \in Table, NEW keys
  PROVE  Sound([T EXCEPT ![t].held = keys], F, H, L)
<1> DEFINE s == [T[t] EXCEPT !.held = keys]
           U == [T EXCEPT ![t] = s]
<1>1. Shaped(s) /\ s.entries = T[t].entries
  BY HeldIsShaped DEF Sound, AreTables
<1>2. AreTables(U) /\ \A x \in Table : U[x] = IF x = t THEN s ELSE T[x]
  <2> HIDE DEF s
  <2> QED
    BY <1>1, Changed DEF Sound
<1>3. [T EXCEPT ![t].held = keys] = U
  OBVIOUS
<1> HIDE DEF U, s
<1>4. Sound(U, F, H, L)
  BY <1>1, <1>2, SameArrays
<1> QED
  BY <1>3, <1>4

LEMMA CallKeeps ==
  ASSUME TablesAssumption, OwnerInv, Call PROVE OwnerInv'
<1> USE DEF CallOf
<1>0. Sound(store, frames, heap, lost) /\ CallKnown
  BY DEF OwnerInv
<1>1. ASSUME NEW t \in Table, NEW a \in Allocator, DefaultConstruct(t, a) PROVE OwnerInv'
  BY <1>0, <1>1, Primed DEF DefaultConstruct, CallKnown
<1>2. ASSUME NEW t \in Table, NEW a \in Allocator, NEW n \in Requests,
             NEW elements \in SUBSET Key, ConstructRange(t, a, n, elements)
      PROVE  OwnerInv'
  <2> DEFINE c == CallOf("construct", t, t)
  <2>1. Rehash(c, Put(alloc, t, a), store, heap, n, elements) /\ c.on = t /\ c.from = t
    BY <1>2 DEF ConstructRange
  <2> HIDE DEF c
  <2> QED
    BY <1>0, <2>1, Rehashed
<1>3. ASSUME NEW t \in Table, NEW u \in Table, NEW a \in Allocator, CopyConstruct(t, u, a)
      PROVE  OwnerInv'
  <2> DEFINE c == CallOf("copy", t, u)
  <2>1. /\ Rehash(c, Put(alloc, t, a), store, heap, ForOther(store[u]), store[u].held)
        /\ c.on = t /\ c.from = u
    BY <1>3 DEF CopyConstruct
  <2> HIDE DEF c
  <2> QED
    BY <1>0, <2>1, Rehashed
<1>4. ASSUME NEW t \in Table, NEW u \in Table, MoveConstruct(t, u) PROVE OwnerInv'
  BY <1>0, <1>4, Exchanged, Primed DEF MoveConstruct, CallKnown
<1>5. ASSUME NEW t \in Table, Destroy(t) PROVE OwnerInv'
  BY <1>0, <1>5, Released, Primed DEF Destroy, CallKnown
<1>6. ASSUME NEW t \in Table, NEW k \in Key, Insert(t, k) PROVE OwnerInv'
  BY <1>0, <1>6, Primed DEF Insert, CallKnown
<1>7. ASSUME NEW t \in Table, NEW k \in Key, Erase(t, k) PROVE OwnerInv'
  <2>1. /\ store' = [store EXCEPT ![t].held = store[t].held \ {k}]
        /\ UNCHANGED <<heap, frames, call, lost>>
    BY <1>7 DEF Erase
  <2>2. Sound(store', frames', heap', lost')
    BY <1>0, <2>1, HeldChanged
  <2> QED
    BY <1>0, <2>1, <2>2, Primed DEF CallKnown
<1>8. ASSUME NEW t \in Table, Clear(t) PROVE OwnerInv'
  <2>1. /\ store' = [store EXCEPT ![t].held = {}]
        /\ UNCHANGED <<heap, frames, call, lost>>
    BY <1>8 DEF Clear, Cleared
  <2>2. Sound(store', frames', heap', lost')
    BY <1>0, <2>1, HeldChanged
  <2> QED
    BY <1>0, <2>1, <2>2, Primed DEF CallKnown
<1>9. ASSUME NEW t \in Table, NEW n \in Requests, RehashCall(t, n) PROVE OwnerInv'
  <2> DEFINE c == CallOf("rehash", t, t)
  <2>1. Rehash(c, alloc, store, heap, n, {}) /\ c.on = t /\ c.from = t
    BY <1>9 DEF RehashCall
  <2> HIDE DEF c
  <2> QED
    BY <1>0, <2>1, Rehashed
<1>10. ASSUME NEW t \in Table, ShrinkToFit(t) PROVE OwnerInv'
  <2> DEFINE c == CallOf("rehash", t, t)
  <2>1. Rehash(c, alloc, store, heap, ForOther(store[t]), {}) /\ c.on = t /\ c.from = t
    BY <1>10 DEF ShrinkToFit
  <2> HIDE DEF c
  <2> QED
    BY <1>0, <2>1, Rehashed
<1>11. ASSUME NEW t \in Table, NEW u \in Table, Swap(t, u) PROVE OwnerInv'
  BY <1>0, <1>11, Exchanged, Primed DEF Swap, CallKnown
<1>12. ASSUME NEW t \in Table, Sound(store, frames, heap, lost)
       PROVE  Sound(Renewed(t), frames, heap, lost)
  <2>1. Renewed(t) = [store EXCEPT ![t].held = {}]
    BY DEF Renewed, Cleared
  <2>2. Sound([store EXCEPT ![t].held = {}], frames, heap, lost)
    BY <1>12, HeldChanged
  <2> QED
    BY <2>1, <2>2, Zenon
<1>13. ASSUME NEW t \in Table
       PROVE  Sound(Emptied(t), frames, Deallocate(heap, store[t]), lost)
  BY <1>0, Released DEF Emptied
<1>14. ASSUME NEW t \in Table, NEW u \in Table, CopyAssign(t, u) PROVE OwnerInv'
  <2> DEFINE c == CallOf("assign", t, u)
  <2>1. c.on = t /\ c.from = u
    OBVIOUS
  <2>2. \/ Rehash(c, [alloc EXCEPT ![t] = alloc[u]], Emptied(t), Deallocate(heap, store[t]),
                  ForOther(store[u]), store[u].held)
        \/ Rehash(c, alloc, Renewed(t), heap, ForOther(store[u]), store[u].held)
    BY <1>14 DEF CopyAssign
  <2> HIDE DEF c
  <2> QED
    BY <1>0, <1>12, <1>13, <2>1, <2>2, Rehashed
<1>15. ASSUME NEW t \in Table, NEW u \in Table, MoveAssignPropagating(t, u) PROVE OwnerInv'
  <2>1. /\ heap' = Deallocate(heap, store[t]) /\ store' = SwapPointers(Emptied(t), t, u)
        /\ UNCHANGED <<frames, call, lost>>
    BY <1>15 DEF MoveAssignPropagating
  <2>2. Sound(store', frames', heap', lost')
    BY <1>13, <2>1, Exchanged
  <2> QED
    BY <1>0, <2>1, <2>2, Primed DEF CallKnown
<1>16. ASSUME NEW t \in Table, NEW u \in Table, MoveAssignEqual(t, u) PROVE OwnerInv'
  BY <1>0, <1>16, Exchanged, Primed DEF MoveAssignEqual, CallKnown
<1>17. ASSUME NEW t \in Table, NEW u \in Table, MoveAssignEach(t, u) PROVE OwnerInv'
  <2> DEFINE c == CallOf("move", t, u)
  <2>1. /\ Rehash(c, alloc, Renewed(t), heap, ForOther(store[u]), store[u].held)
        /\ c.on = t /\ c.from = u
    BY <1>17 DEF MoveAssignEach
  <2> HIDE DEF c
  <2> QED
    BY <1>0, <1>12, <2>1, Rehashed
<1> QED
  BY <1>1, <1>2, <1>3, <1>4, <1>5, <1>6, <1>7, <1>8, <1>9, <1>10, <1>11, <1>14, <1>15,
     <1>16, <1>17 DEF Call

(* An element leaves the ones that wait. *)
LEMMA TakenKeeps ==
  ASSUME NEW T, Sound(T, frames, heap, lost), NEW k, Taken(k), UNCHANGED <<heap, lost>>
  PROVE  Sound(T, frames', heap', lost')
<1>1. CASE frames # <<>>
  <2> DEFINE keys == frames[1].held \ {k}
  <2>1. frames' = [frames EXCEPT ![1].held = keys]
    BY <1>1 DEF Taken
  <2> HIDE DEF keys
  <2>2. /\ AreFrames(frames') /\ DOMAIN frames' = DOMAIN frames
        /\ \A i \in DOMAIN frames : frames'[i].entries = frames[i].entries
    BY <1>1, <2>1, FrameChanged DEF Sound
  <2>3. Owned(T, frames', heap, lost)
    BY <2>2 DEF Sound, Owned
  <2> QED
    BY <2>2, <2>3 DEF Sound
<1>2. CASE frames = <<>>
  BY <1>2 DEF Taken
<1> QED
  BY <1>1, <1>2

LEMMA OwnerNext ==
  ASSUME TablesAssumption, OwnerInv, [TablesNext]_tableVars PROVE OwnerInv'
<1>0. Sound(store, frames, heap, lost) /\ CallKnown
  BY DEF OwnerInv
<1>1. CASE Call
  BY <1>1, CallKeeps
<1>2. ASSUME NEW k \in Key, Present(k) PROVE OwnerInv'
  <2>1. Taken(k) /\ UNCHANGED <<heap, store, call, lost>>
    BY <1>2 DEF Present
  <2>2. Sound(store', frames', heap', lost')
    BY <1>0, <2>1, TakenKeeps
  <2> QED
    BY <1>0, <2>1, <2>2, Primed DEF CallKnown
<1>3. ASSUME NEW k \in Key, Place(k) PROVE OwnerInv'
  <2>1. /\ store' = [store EXCEPT ![call.on].held = store[call.on].held \cup {k}]
        /\ Taken(k) /\ UNCHANGED <<heap, call, lost>>
    BY <1>3 DEF Place
  <2>2. call.on \in Table
    BY <1>0, <1>3 DEF Place, Running, CallKnown
  <2>3. Sound(store', frames, heap, lost)
    BY <1>0, <2>1, <2>2, HeldChanged
  <2>4. Sound(store', frames', heap', lost')
    BY <2>1, <2>3, TakenKeeps
  <2> QED
    BY <1>0, <2>1, <2>4, Primed DEF CallKnown
<1>4. ASSUME NEW k \in Key, CopyThrows(k) PROVE OwnerInv'
  <2>1. Unwind(call, alloc, store, heap) /\ call.on \in Table
    BY <1>0, <1>4 DEF CopyThrows, Running, CallKnown
  <2> QED
    BY <1>0, <2>1, Unwound
<1>5. ASSUME NEW k \in Key, Grow(k) PROVE OwnerInv'
  <2>1. /\ call.on \in Table /\ call.from \in Table
        /\ Rehash(call, alloc, store, heap, Max({MinGrow, 2 * BucketCount(Table0)}), coming)
    BY <1>0, <1>5 DEF Grow, Running, CallKnown
  <2> QED
    BY <1>0, <2>1, Rehashed
<1>6. CASE EndRehash
  <2>1. /\ frames # <<>> /\ heap' = Deallocate(heap, Head(frames)) /\ frames' = Tail(frames)
        /\ UNCHANGED <<store, call, lost>>
    BY <1>6 DEF EndRehash
  <2>2. Sound(store', frames', heap', lost')
    BY <1>0, <2>1, Popped
  <2> QED
    BY <1>0, <2>1, <2>2, Primed DEF CallKnown
<1>7. CASE EndCall
  <2>1. call' = NoCall /\ UNCHANGED <<heap, frames, lost>>
    BY <1>7 DEF EndCall
  <2>2. \/ store' = store
        \/ call.from \in Table /\ store' = [store EXCEPT ![call.from].held = {}]
    BY <1>0, <1>7 DEF EndCall, Cleared, Running, CallKnown
  <2>3. Sound(store', frames', heap', lost')
    BY <1>0, <2>1, <2>2, HeldChanged
  <2> QED
    BY <2>1, <2>3, Primed DEF CallKnown
<1>8. CASE UNCHANGED tableVars
  BY <1>0, <1>8, Primed DEF tableVars, CallKnown
<1> QED
  BY <1>1, <1>2, <1>3, <1>4, <1>5, <1>6, <1>7, <1>8 DEF TablesNext

(* After any calls, whichever of them fail and wherever they do: an array  *)
(* has one owner, nobody holds an array that was freed, and only arrays    *)
(* that an exception took from a call of rehash are nobody's               *)
(* (flat_hash_map.hpp:300-433 and 624-655, bytell_hash_map.hpp:164-300 and *)
(* 528-574).                                                               *)
THEOREM SoleOwnerAlways ==
  ASSUME TablesAssumption PROVE TablesSpec => []SoleOwner
<1>1. TablesInit => OwnerInv
  BY OwnerInit
<1>2. OwnerInv /\ [TablesNext]_tableVars => OwnerInv'
  BY OwnerNext
<1>3. OwnerInv => SoleOwner
  BY DEF OwnerInv, Sound, SoleOwner
<1> QED
  BY <1>1, <1>2, <1>3, PTL DEF TablesSpec

-----------------------------------------------------------------------------
(* What a holder knows of its array *)

(* A store is that of an empty table, or describes the array it holds: one *)
(* that the allocator b has allocated for as many slots as it says.        *)
KnownTo(s, H, b) ==
  \/ s = EmptyStore
  \/ /\ s.entries # Default
     /\ s.mod \in Sizes /\ s.slotsMinusOne = s.mod - 1 /\ s.lookups = MaxLookups(s.mod)
     /\ H[s.entries] = [amount |-> Allocated(s.mod), by |-> b]

(* A variable that holds no table yet, or no longer, is as it was.         *)
TablesKnown(T, H, A) ==
  \A t \in Table : IF t \in DOMAIN A THEN KnownTo(T[t], H, A[t]) ELSE T[t] = EmptyStore

FramesKnown(F, H, b) == \A i \in DOMAIN F : KnownTo(F[i], H, b)

(* The arrays of the frames belong to the allocator of the call's table.   *)
CallBuilt ==
  /\ call # NoCall => call.on \in Built
  /\ frames # <<>> => call # NoCall

KnownInv ==
  /\ OwnerInv
  /\ TablesKnown(store, heap, alloc)
  /\ FramesKnown(frames, heap, alloc[call.on])
  /\ CallBuilt

LEMMA MaxLookupsType ==
  ASSUME TablesAssumption, PowersKnown, NEW n \in Sizes
  PROVE  MaxLookups(n) \in Int
<1>1. FloorLog2(n) \in 0 .. n
  BY DEF FloorLog2, PowersKnown
<1>2. FloorLog2(n) \in Int /\ MinLookups \in Int
  BY <1>1 DEF TablesAssumption
<1> HIDE DEF FloorLog2
<1>3. Max({MinLookups, FloorLog2(n)}) \in {MinLookups, FloorLog2(n)}
  BY <1>2, MaxOfTwo
<1> QED
  BY <1>2, <1>3 DEF MaxLookups

(* deallocate_data computes the size that was allocated. *)
LEMMA FreesWhatItHas ==
  ASSUME TablesAssumption, PowersKnown, NEW s, s.mod \in Sizes,
         s.slotsMinusOne = s.mod - 1, s.lookups = MaxLookups(s.mod)
  PROVE  Freed(s) = Allocated(s.mod)
<1>1. s.mod \in Int /\ MaxLookups(s.mod) \in Int
  <2>0. Sizes \subseteq Int
    BY DEF TablesAssumption
  <2>1. s.mod \in Int
    BY <2>0
  <2>2. MaxLookups(s.mod) \in Int
    BY MaxLookupsType
  <2> QED
    BY <2>1, <2>2
<1>2. FlatFreed(s) = FlatAllocated(s.mod)
  <2> DEFINE m == s.mod
             l == MaxLookups(m)
  <2>1. (m - 1) + l + 1 = m + l
    <3> HIDE DEF m, l
    <3> SUFFICES ASSUME m \in Int, l \in Int PROVE (m - 1) + l + 1 = m + l
      BY <1>1 DEF m, l
    <3> QED
      OBVIOUS
  <2> QED
    BY <2>1 DEF FlatFreed, FlatAllocated
<1>3. BytellFreed(s) = BytellAllocated(s.mod)
  <2>1. s.slotsMinusOne + 1 = s.mod
    BY <1>1
  <2> QED
    BY <2>1 DEF BytellFreed, BytellAllocated
<1> QED
  BY <1>2, <1>3 DEF Freed, Allocated

LEMMA EmptyIsKnown ==
  ASSUME NEW H, NEW b PROVE KnownTo(EmptyStore, H, b)
BY DEF KnownTo

(* Arrays that are freed or allocated are none of a store's concern, as    *)
(* long as its own is left.                                                *)
LEMMA StillKnown ==
  ASSUME NEW s, NEW H, NEW b, KnownTo(s, H, b), NEW K,
         s.entries # Default => K[s.entries] = H[s.entries]
  PROVE  KnownTo(s, K, b)
BY DEF KnownTo

(* Elements may come and go but where nothing is ever put. *)
LEMMA HeldKnown ==
  ASSUME NEW s, Shaped(s), NEW H, NEW b, KnownTo(s, H, b), NEW keys,
         s.entries # Default \/ keys = {}
  PROVE  KnownTo([s EXCEPT !.held = keys], H, b)
<1>1. [s EXCEPT !.held = keys] =
        [entries |-> s.entries, slotsMinusOne |-> s.slotsMinusOne, mod |-> s.mod,
         lookups |-> s.lookups, held |-> keys]
  BY DEF Shaped
<1>2. CASE s = EmptyStore
  <2>1. s.entries = Default
    BY <1>2 DEF EmptyStore
  <2>2. [s EXCEPT !.held = keys] = EmptyStore
    BY <1>1, <1>2, <2>1 DEF EmptyStore
  <2> QED
    BY <2>2 DEF KnownTo
<1>3. CASE s # EmptyStore
  BY <1>1, <1>3 DEF KnownTo
<1> QED
  BY <1>2, <1>3

(* Where nothing is held, nothing is put. *)
LEMMA HoldsInArray ==
  ASSUME NEW s, NEW H, NEW b, KnownTo(s, H, b), s.held # {} \/ s.slotsMinusOne # 0
  PROVE  s.entries # Default
BY DEF KnownTo, EmptyStore

-----------------------------------------------------------------------------
(* Calls and what is known *)

(* One table changed, and with it perhaps the heap and the allocators. *)
LEMMA OneKnown ==
  ASSUME NEW T, NEW H, NEW A, TablesKnown(T, H, A), AreTables(T),
         NEW t \in Table, NEW s, Shaped(s), NEW K, NEW B,
         \A x \in Table \ {t} : x \in DOMAIN B <=> x \in DOMAIN A,
         \A x \in Table \ {t} : x \in DOMAIN A => B[x] = A[x],
         \A x \in Table \ {t} :
           T[x].entries # Default => K[T[x].entries] = H[T[x].entries],
         IF t \in DOMAIN B THEN KnownTo(s, K, B[t]) ELSE s = EmptyStore
  PROVE  TablesKnown([T EXCEPT ![t] = s], K, B)
<1> DEFINE U == [T EXCEPT ![t] = s]
<1>1. \A x \in Table : U[x] = IF x = t THEN s ELSE T[x]
  BY DEF AreTables
<1> HIDE DEF U
<1>2. ASSUME NEW x \in Table
      PROVE  IF x \in DOMAIN B THEN KnownTo(U[x], K, B[x]) ELSE U[x] = EmptyStore
  <2>1. CASE x = t
    BY <1>1, <2>1
  <2>2. CASE x # t
    <3>1. x \in Table \ {t} /\ U[x] = T[x]
      BY <1>1, <2>2
    <3>2. CASE x \in DOMAIN B
      <4>1. KnownTo(T[x], H, A[x]) /\ B[x] = A[x]
        BY <3>1, <3>2 DEF TablesKnown
      <4>2. T[x].entries # Default => K[T[x].entries] = H[T[x].entries]
        BY <3>1
      <4>3. KnownTo(T[x], K, A[x])
        BY <4>1, <4>2, StillKnown
      <4> QED
        BY <3>1, <3>2, <4>1, <4>3
    <3>3. CASE x \notin DOMAIN B
      BY <3>1, <3>3 DEF TablesKnown
    <3> QED
      BY <3>2, <3>3
  <2> QED
    BY <2>1, <2>2
<1> QED
  BY <1>2 DEF TablesKnown, U

(* Only one table gets another allocator, and it holds nothing. *)
LEMMA AllocatorKnown ==
  ASSUME NEW T, NEW H, NEW A, TablesKnown(T, H, A),
         NEW t \in Table, T[t] = EmptyStore, NEW B,
         \A x \in Table \ {t} : x \in DOMAIN B <=> x \in DOMAIN A,
         \A x \in Table \ {t} : x \in DOMAIN A => B[x] = A[x]
  PROVE  TablesKnown(T, H, B)
BY EmptyIsKnown DEF TablesKnown

(* A table gives its array back. *)
LEMMA ReleasedKnown ==
  ASSUME NEW T, NEW F, NEW H, NEW L, Sound(T, F, H, L), NEW A, TablesKnown(T, H, A),
         NEW b, FramesKnown(F, H, b), NEW t \in Table, NEW B,
         \A x \in Table \ {t} : x \in DOMAIN B <=> x \in DOMAIN A,
         \A x \in Table \ {t} : x \in DOMAIN A => B[x] = A[x]
  PROVE  /\ TablesKnown([T EXCEPT ![t] = EmptyStore], Deallocate(H, T[t]), B)
         /\ FramesKnown(F, Deallocate(H, T[t]), b)
<1> DEFINE K == Deallocate(H, T[t])
<1>1. \A a \in DOMAIN H : a # T[t].entries => K[a] = H[a]
  BY DEF Deallocate
<1> HIDE DEF K
<1>2. ASSUME NEW x \in Table \ {t}, T[x].entries # Default
      PROVE  K[T[x].entries] = H[T[x].entries]
  <2>1. T[x].entries # T[t].entries /\ T[x].entries \in DOMAIN H
    BY <1>2 DEF Sound, Owned
  <2> QED
    BY <1>1, <2>1
<1>3. TablesKnown([T EXCEPT ![t] = EmptyStore], K, B)
  <2>1. IF t \in DOMAIN B THEN KnownTo(EmptyStore, K, B[t]) ELSE EmptyStore = EmptyStore
    BY EmptyIsKnown
  <2> QED
    BY <1>2, <2>1, OneKnown, EmptyIsShaped DEF Sound
<1>4. ASSUME NEW i \in DOMAIN F PROVE KnownTo(F[i], K, b)
  <2>1. KnownTo(F[i], H, b)
    BY DEF FramesKnown
  <2>2. ASSUME F[i].entries # Default PROVE K[F[i].entries] = H[F[i].entries]
    <3>1. F[i].entries # T[t].entries /\ F[i].entries \in DOMAIN H
      BY <2>2 DEF Sound, Owned
    <3> QED
      BY <1>1, <3>1
  <2> QED
    BY <2>1, <2>2, StillKnown
<1> QED
  BY <1>3, <1>4 DEF FramesKnown, K

(* swap_pointers; the allocators go with the arrays or are equal. *)
LEMMA ExchangedKnown ==
  ASSUME NEW T, NEW H, NEW A, TablesKnown(T, H, A), AreTables(T),
         NEW t \in Table, NEW u \in Table, t # u, NEW B,
         \A x \in Table \ {t, u} : x \in DOMAIN B <=> x \in DOMAIN A,
         \A x \in Table \ {t, u} : x \in DOMAIN A => B[x] = A[x],
         t \in DOMAIN B, u \in DOMAIN B,
         KnownTo(T[t], H, B[u]), KnownTo(T[u], H, B[t])
  PROVE  TablesKnown(SwapPointers(T, t, u), H, B)
<1> DEFINE U == SwapPointers(T, t, u)
<1>1. \A x \in Table : U[x] = IF x = u THEN T[t] ELSE IF x = t THEN T[u] ELSE T[x]
  BY DEF SwapPointers, AreTables
<1> HIDE DEF U
<1>2. ASSUME NEW x \in Table
      PROVE  IF x \in DOMAIN B THEN KnownTo(U[x], H, B[x]) ELSE U[x] = EmptyStore
  <2>1. CASE x \in {t, u}
    BY <1>1, <2>1
  <2>2. CASE x \notin {t, u}
    BY <1>1, <2>2 DEF TablesKnown
  <2> QED
    BY <2>1, <2>2
<1> QED
  BY <1>2 DEF TablesKnown, U

(* The invariant in the next state, from what the lemmas establish. *)
LEMMA KnownPrimed ==
  ASSUME OwnerInv', TablesKnown(store', heap', alloc'),
         FramesKnown(frames', heap', alloc'[call'.on]), CallBuilt', UNCHANGED fixed
  PROVE  KnownInv'
BY DEF KnownInv, TablesKnown, FramesKnown, KnownTo, Allocated, fixed

LEMMA NothingFramed ==
  ASSUME NEW H, NEW b PROVE FramesKnown(<<>>, H, b)
BY DEF FramesKnown

LEMMA UnwoundKnown ==
  ASSUME NEW c, NEW A, NEW T, NEW H, Sound(T, frames, H, lost), c.on \in Table,
         TablesKnown(T, H, A), UNCHANGED fixed, Unwind(c, A, T, H)
  PROVE  KnownInv'
<1>1. frames' = <<>> /\ call' = NoCall
  BY DEF Unwind
<1>2. OwnerInv'
  BY Unwound
<1>3. CallBuilt' /\ FramesKnown(frames', heap', alloc'[call'.on])
  BY <1>1, NothingFramed DEF CallBuilt
<1>4. CASE c.op \in {"construct", "copy"}
  <2> DEFINE B == Remove(A, c.on)
  <2>1. /\ alloc' = B /\ heap' = Deallocate(H, T[c.on])
        /\ store' = [T EXCEPT ![c.on] = EmptyStore]
    BY <1>4 DEF Unwind
  <2>2. DOMAIN B = DOMAIN A \ {c.on} /\ \A x \in DOMAIN A \ {c.on} : B[x] = A[x]
    BY DEF Remove
  <2> HIDE DEF B
  <2>3. Sound(T, <<>>, H, lost \cup ({frames[i].entries : i \in DOMAIN frames} \ {Default}))
    BY Lost
  <2>4. /\ \A x \in Table \ {c.on} : x \in DOMAIN B <=> x \in DOMAIN A
        /\ \A x \in Table \ {c.on} : x \in DOMAIN A => B[x] = A[x]
    BY <2>2
  <2>5. TablesKnown(store', heap', alloc')
    BY <2>1, <2>3, <2>4, NothingFramed, ReleasedKnown
  <2> QED
    BY <1>2, <1>3, <2>5, KnownPrimed
<1>5. CASE c.op \notin {"construct", "copy"}
  <2>1. alloc' = A /\ heap' = H /\ store' = T
    BY <1>5 DEF Unwind
  <2> QED
    BY <1>2, <1>3, <2>1, KnownPrimed
<1> QED
  BY <1>4, <1>5


(* The old array stays with the call, the new one is as it was allocated. *)
LEMMA NewArrayKnown ==
  ASSUME TablesAssumption,
         NEW c, NEW A, NEW T, NEW H, NEW n, NEW elements,
         Sound(T, frames, H, lost), c.on \in Table, c.on \in DOMAIN A, c # NoCall,
         TablesKnown(T, H, A), FramesKnown(frames, H, A[c.on]), UNCHANGED fixed,
         n \in Sizes, NewArray(c, A, T, H, n, elements), OwnerInv'
  PROVE  KnownInv'
<1> DEFINE t == c.on
           b == A[t]
           v == [amount |-> Allocated(n), by |-> b]
           r == T[t]
<1>1. PICK a \in Array \ DOMAIN H :
        /\ heap' = Put(H, a, v)
        /\ store' = [T EXCEPT ![t] = NewStore(r, a, n)]
  BY DEF NewArray, Sound, AreTables
<1>2. frames' = <<r>> \o frames /\ call' = c /\ alloc' = A
  BY DEF NewArray, GoOn
<1> DEFINE s == NewStore(r, a, n)
           K == Put(H, a, v)
<1>3. K[a] = v /\ \A x \in DOMAIN H : K[x] = H[x]
  BY DEF Put
<1>4. /\ Shaped(s) /\ s.entries = a /\ s.mod = n
      /\ s.slotsMinusOne = n - 1 /\ s.lookups = MaxLookups(n) /\ a # Default
  BY NewIsShaped DEF NewStore, TablesAssumption
<1>5. t \in Table /\ t \in DOMAIN A /\ AreTables(T) /\ Shaped(r) /\ KnownTo(r, H, b)
  BY DEF Sound, AreTables, TablesKnown
<1> HIDE DEF K, s
<1>6. KnownTo(s, K, b)
  <2> HIDE DEF b
  <2> QED
    BY <1>3, <1>4 DEF KnownTo
<1>7. \A x \in Table : T[x].entries # Default => K[T[x].entries] = H[T[x].entries]
  BY <1>3 DEF Sound, Owned
<1>8. \A i \in DOMAIN frames :
        frames[i].entries # Default => K[frames[i].entries] = H[frames[i].entries]
  BY <1>3 DEF Sound, Owned
<1> HIDE DEF v, t, r
<1>9. TablesKnown(store', heap', alloc')
  <2>1. IF t \in DOMAIN A THEN KnownTo(s, K, A[t]) ELSE s = EmptyStore
    BY <1>5, <1>6
  <2>2. TablesKnown([T EXCEPT ![t] = s], K, A)
    BY <1>4, <1>5, <1>7, <2>1, OneKnown
  <2> QED
    BY <1>1, <1>2, <2>2 DEF K, s
<1> HIDE DEF b
<1>10. FramesKnown(frames', K, b)
  <2> DEFINE G == <<r>> \o frames
  <2>1. InFront(G, r, frames)
    BY <1>5, FramePushed, Zenon DEF Sound
  <2> HIDE DEF G
  <2>2. \A i \in DOMAIN G : i = 1 \/ (i - 1 \in DOMAIN frames /\ G[i] = frames[i - 1])
    BY <2>1 DEF InFront
  <2>3. KnownTo(r, K, b)
    <3>1. r.entries # Default => K[r.entries] = H[r.entries]
      BY <1>5, <1>7 DEF r
    <3> QED
      BY <1>5, <3>1, StillKnown
  <2>4. ASSUME NEW i \in DOMAIN frames PROVE KnownTo(frames[i], K, b)
    <3>1. KnownTo(frames[i], H, b)
      BY DEF FramesKnown, b, t
    <3> QED
      BY <1>8, <3>1, StillKnown
  <2>5. \A i \in DOMAIN G : KnownTo(G[i], K, b)
    BY <2>1, <2>2, <2>3, <2>4 DEF InFront
  <2> QED
    BY <1>2, <2>5 DEF FramesKnown, G
<1>11. FramesKnown(frames', heap', alloc'[call'.on])
  BY <1>1, <1>2, <1>10 DEF K, b, t
<1>12. CallBuilt'
  BY <1>2, <1>5 DEF CallBuilt, Built, t
<1> QED
  BY <1>9, <1>11, <1>12, KnownPrimed

LEMMA RehashedKnown ==
  ASSUME TablesAssumption,
         NEW c, NEW A, NEW T, NEW H, NEW n, NEW elements,
         Sound(T, frames, H, lost), c.on \in Table, c.from \in Table,
         c.on \in DOMAIN A, c # NoCall,
         TablesKnown(T, H, A), FramesKnown(frames, H, A[c.on]), UNCHANGED fixed,
         Rehash(c, A, T, H, n, elements)
  PROVE  KnownInv'
<1>0. OwnerInv'
  BY Rehashed
<1>1. CASE ToEmptyState(c, A, T, H, elements)
  <2>1. /\ store' = [T EXCEPT ![c.on] = EmptyStore] /\ heap' = Deallocate(H, T[c.on])
        /\ alloc' = A /\ call' = c /\ UNCHANGED frames
    BY <1>1 DEF ToEmptyState, GoOn
  <2>2. TablesKnown(store', heap', alloc') /\ FramesKnown(frames', heap', alloc'[call'.on])
    BY <2>1, ReleasedKnown
  <2>3. CallBuilt'
    BY <2>1 DEF CallBuilt, Built
  <2> QED
    BY <1>0, <2>2, <2>3, KnownPrimed
<1>2. CASE SameSize(c, A, T, H, elements)
  <2>1. store' = T /\ heap' = H /\ alloc' = A /\ call' = c /\ UNCHANGED frames
    BY <1>2 DEF SameSize, GoOn
  <2>2. CallBuilt'
    BY <2>1 DEF CallBuilt, Built
  <2> QED
    BY <1>0, <2>1, <2>2, KnownPrimed
<1>3. ASSUME NEW w, Fits(w), NewArray(c, A, T, H, SizeOver(w), elements) PROVE KnownInv'
  <2> DEFINE P == {p \in Sizes : p >= w}
  <2>1. P \subseteq Sizes /\ P \subseteq Nat /\ P # {}
    BY <1>3 DEF Fits, TablesAssumption
  <2> HIDE DEF P
  <2>2. Min(P) \in Sizes
    BY <2>1, MinIsLeast
  <2>3. SizeOver(w) \in Sizes
    BY <2>2 DEF SizeOver, P
  <2> QED
    BY <1>0, <1>3, <2>3, NewArrayKnown
<1>4. CASE Unwind(c, A, T, H)
  BY <1>4, UnwoundKnown
<1> QED
  BY <1>1, <1>2, <1>3, <1>4 DEF Rehash


LEMMA KnownInit == TablesAssumption /\ TablesInit => KnownInv
<1> SUFFICES ASSUME TablesAssumption, TablesInit PROVE KnownInv
  OBVIOUS
<1>1. /\ store = [t \in Table |-> EmptyStore] /\ DOMAIN alloc = {}
      /\ frames = <<>> /\ call = NoCall
  BY DEF TablesInit, EmptyMap
<1> QED
  BY <1>1, OwnerInit, NothingFramed DEF KnownInv, TablesKnown, CallBuilt

(* The elements of one table changed, and nothing else. *)
LEMMA HeldKeeps ==
  ASSUME KnownInv, OwnerInv', NEW t \in Table, NEW keys,
         store' = [store EXCEPT ![t].held = keys],
         store[t].entries # Default \/ keys = {},
         UNCHANGED <<fixed, heap, alloc>>
  PROVE  TablesKnown(store', heap', alloc')
<1> DEFINE s == [store[t] EXCEPT !.held = keys]
<1>1. AreTables(store) /\ Shaped(store[t]) /\ TablesKnown(store, heap, alloc)
  BY DEF KnownInv, OwnerInv, Sound, AreTables
<1>2. Shaped(s)
  BY <1>1, HeldIsShaped
<1>3. IF t \in DOMAIN alloc THEN KnownTo(s, heap, alloc[t]) ELSE s = EmptyStore
  <2>1. CASE t \in DOMAIN alloc
    BY <1>1, <2>1, HeldKnown DEF TablesKnown
  <2>2. CASE t \notin DOMAIN alloc
    <3>1. store[t] = EmptyStore
      BY <1>1, <2>2 DEF TablesKnown
    <3>2. keys = {}
      BY <3>1 DEF EmptyStore
    <3>3. s = EmptyStore
      BY <3>1, <3>2 DEF EmptyStore
    <3> QED
      BY <2>2, <3>3
  <2> QED
    BY <2>1, <2>2
<1> HIDE DEF s
<1>4. TablesKnown([store EXCEPT ![t] = s], heap, alloc)
  BY <1>1, <1>2, <1>3, OneKnown
<1> QED
  BY <1>4 DEF s

LEMMA CallKnownKeeps ==
  ASSUME TablesAssumption, KnownInv, Call PROVE KnownInv'
<1> USE DEF CallOf, NoCall
<1>0. /\ Sound(store, frames, heap, lost) /\ AreTables(store)
      /\ TablesKnown(store, heap, alloc) /\ CallBuilt
  BY DEF KnownInv, OwnerInv, Sound
<1>1. OwnerInv'
  BY CallKeeps DEF KnownInv
<1>2. ASSUME Idle PROVE frames = <<>> /\ \A K, b : FramesKnown(frames, K, b)
  BY <1>0, <1>2, NothingFramed DEF CallBuilt, Idle
<1>3. ASSUME Idle, UNCHANGED <<fixed, frames, call>>, TablesKnown(store', heap', alloc')
      PROVE  KnownInv'
  <2>1. CallBuilt'
    BY <1>2, <1>3 DEF CallBuilt, Idle
  <2> QED
    BY <1>1, <1>2, <1>3, <2>1, KnownPrimed
<1>4. ASSUME NEW t \in Table, NEW a \in Allocator, t \notin Built
      PROVE  /\ t \in DOMAIN Put(alloc, t, a)
             /\ TablesKnown(store, heap, Put(alloc, t, a))
  <2> DEFINE B == Put(alloc, t, a)
  <2>1. DOMAIN B = DOMAIN alloc \cup {t} /\ \A x \in DOMAIN alloc \ {t} : B[x] = alloc[x]
    BY DEF Put
  <2> HIDE DEF B
  <2>2. store[t] = EmptyStore
    BY <1>0, <1>4 DEF TablesKnown, Built
  <2>3. TablesKnown(store, heap, B)
    BY <1>0, <2>1, <2>2, AllocatorKnown
  <2> QED
    BY <2>1, <2>3 DEF B
<1>5. ASSUME NEW t \in Table, NEW a \in Allocator, DefaultConstruct(t, a) PROVE KnownInv'
  BY <1>3, <1>4, <1>5 DEF DefaultConstruct
<1>6. ASSUME NEW t \in Table, NEW a \in Allocator, NEW n \in Requests,
             NEW elements \in SUBSET Key, ConstructRange(t, a, n, elements)
      PROVE  KnownInv'
  <2> DEFINE c == CallOf("construct", t, t)
             B == Put(alloc, t, a)
  <2>1. /\ Rehash(c, B, store, heap, n, elements)
        /\ c.on = t /\ c.from = t /\ c # NoCall /\ UNCHANGED fixed /\ Idle /\ t \notin Built
    BY <1>6 DEF ConstructRange
  <2> HIDE DEF c, B
  <2>2. t \in DOMAIN B /\ TablesKnown(store, heap, B) /\ FramesKnown(frames, heap, B[c.on])
    BY <1>2, <1>4, <2>1 DEF B
  <2> QED
    BY <1>0, <2>1, <2>2, RehashedKnown
<1>7. ASSUME NEW t \in Table, NEW u \in Table, NEW a \in Allocator, CopyConstruct(t, u, a)
      PROVE  KnownInv'
  <2> DEFINE c == CallOf("copy", t, u)
             B == Put(alloc, t, a)
  <2>1. /\ Rehash(c, B, store, heap, ForOther(store[u]), store[u].held)
        /\ c.on = t /\ c.from = u /\ c # NoCall /\ UNCHANGED fixed /\ Idle /\ t \notin Built
    BY <1>7 DEF CopyConstruct
  <2> HIDE DEF c, B
  <2>2. t \in DOMAIN B /\ TablesKnown(store, heap, B) /\ FramesKnown(frames, heap, B[c.on])
    BY <1>2, <1>4, <2>1 DEF B
  <2> QED
    BY <1>0, <2>1, <2>2, RehashedKnown
<1>8. ASSUME NEW t \in Table, NEW u \in Table, MoveConstruct(t, u) PROVE KnownInv'
  <2> DEFINE B == Put(alloc, t, alloc[u])
  <2>1. /\ Idle /\ t \notin DOMAIN alloc /\ u \in DOMAIN alloc /\ t # u
        /\ alloc' = B /\ store' = SwapPointers(store, t, u)
        /\ UNCHANGED <<fixed, heap, frames, call>>
    BY <1>8 DEF MoveConstruct, Built
  <2>2. DOMAIN B = DOMAIN alloc \cup {t} /\ B[t] = alloc[u]
        /\ \A x \in DOMAIN alloc \ {t} : B[x] = alloc[x]
    BY DEF Put
  <2> HIDE DEF B
  <2>3. KnownTo(store[u], heap, B[t]) /\ KnownTo(store[t], heap, B[u])
    BY <1>0, <2>1, <2>2, EmptyIsKnown DEF TablesKnown
  <2>4. TablesKnown(SwapPointers(store, t, u), heap, B)
    BY <1>0, <2>1, <2>2, <2>3, ExchangedKnown
  <2> QED
    BY <1>3, <2>1, <2>4
<1>9. ASSUME NEW t \in Table, Destroy(t) PROVE KnownInv'
  <2> DEFINE B == Remove(alloc, t)
  <2>1. /\ Idle /\ alloc' = B /\ heap' = Deallocate(heap, store[t])
        /\ store' = [store EXCEPT ![t] = EmptyStore] /\ UNCHANGED <<fixed, frames, call>>
    BY <1>9 DEF Destroy
  <2>2. DOMAIN B = DOMAIN alloc \ {t} /\ \A x \in DOMAIN alloc \ {t} : B[x] = alloc[x]
    BY DEF Remove
  <2> HIDE DEF B
  <2>3. /\ \A x \in Table \ {t} : x \in DOMAIN B <=> x \in DOMAIN alloc
        /\ \A x \in Table \ {t} : x \in DOMAIN alloc => B[x] = alloc[x]
    BY <2>2
  <2>4. FramesKnown(frames, heap, alloc[t])
    BY <1>2, <2>1
  <2>5. TablesKnown([store EXCEPT ![t] = EmptyStore], Deallocate(heap, store[t]), B)
    BY <1>0, <2>3, <2>4, ReleasedKnown
  <2> QED
    BY <1>3, <2>1, <2>5
<1>10. ASSUME NEW t \in Table, NEW k \in Key, Insert(t, k) PROVE KnownInv'
  <2>1. /\ Idle /\ t \in Built /\ call' = CallOf("insert", t, t)
        /\ UNCHANGED <<fixed, heap, alloc, store, frames>>
    BY <1>10 DEF Insert
  <2>2. CallBuilt'
    BY <1>2, <2>1 DEF CallBuilt, Built
  <2>3. FramesKnown(frames', heap', alloc'[call'.on])
    BY <1>2, <2>1
  <2> QED
    BY <1>0, <1>1, <2>1, <2>2, <2>3, KnownPrimed
<1>11. ASSUME NEW t \in Table, NEW k \in Key, Erase(t, k) PROVE KnownInv'
  <2>1. /\ Idle /\ t \in Built /\ k \in store[t].held
        /\ store' = [store EXCEPT ![t].held = store[t].held \ {k}]
        /\ UNCHANGED <<fixed, heap, alloc, frames, call>>
    BY <1>11 DEF Erase
  <2>2. KnownTo(store[t], heap, alloc[t]) /\ store[t].held # {}
    BY <1>0, <2>1 DEF TablesKnown, Built
  <2>3. store[t].entries # Default
    BY <2>2, HoldsInArray
  <2>4. TablesKnown(store', heap', alloc')
    BY <1>1, <2>1, <2>3, HeldKeeps
  <2> QED
    BY <1>3, <2>1, <2>4
<1>12. ASSUME NEW t \in Table, Clear(t) PROVE KnownInv'
  <2>1. /\ Idle /\ store' = [store EXCEPT ![t].held = {}]
        /\ UNCHANGED <<fixed, heap, alloc, frames, call>>
    BY <1>12 DEF Clear, Cleared
  <2>2. TablesKnown(store', heap', alloc')
    BY <1>1, <2>1, HeldKeeps
  <2> QED
    BY <1>3, <2>1, <2>2
<1>13. ASSUME NEW t \in Table, NEW n,
              Idle, t \in Built, UNCHANGED fixed,
              Rehash(CallOf("rehash", t, t), alloc, store, heap, n, {})
       PROVE  KnownInv'
  <2> DEFINE c == CallOf("rehash", t, t)
  <2>1. c.on = t /\ c.from = t /\ c # NoCall
    OBVIOUS
  <2>2. Rehash(c, alloc, store, heap, n, {})
    BY <1>13
  <2> HIDE DEF c
  <2>3. t \in DOMAIN alloc /\ FramesKnown(frames, heap, alloc[c.on])
    BY <1>2, <1>13 DEF Built
  <2> QED
    BY <1>0, <1>13, <2>1, <2>2, <2>3, RehashedKnown
<1>14. ASSUME NEW t \in Table, NEW n \in Requests, RehashCall(t, n) PROVE KnownInv'
  BY <1>13, <1>14 DEF RehashCall
<1>15. ASSUME NEW t \in Table, ShrinkToFit(t) PROVE KnownInv'
  BY <1>13, <1>15 DEF ShrinkToFit
<1>16. ASSUME NEW t \in Table, NEW u \in Table, Swap(t, u) PROVE KnownInv'
  <2> DEFINE B == [alloc EXCEPT ![t] = alloc[u], ![u] = alloc[t]]
  <2>1. /\ Idle /\ t \in DOMAIN alloc /\ u \in DOMAIN alloc /\ t # u
        /\ alloc' = B /\ store' = SwapPointers(store, t, u)
        /\ UNCHANGED <<fixed, heap, frames, call>>
    BY <1>16 DEF Swap, Built
  <2>2. DOMAIN B = DOMAIN alloc /\ B[t] = alloc[u] /\ B[u] = alloc[t]
        /\ \A x \in DOMAIN alloc \ {t, u} : B[x] = alloc[x]
    BY <2>1
  <2> HIDE DEF B
  <2>3. KnownTo(store[u], heap, B[t]) /\ KnownTo(store[t], heap, B[u])
    BY <1>0, <2>1, <2>2 DEF TablesKnown
  <2>4. TablesKnown(SwapPointers(store, t, u), heap, B)
    BY <1>0, <2>1, <2>2, <2>3, ExchangedKnown
  <2> QED
    BY <1>3, <2>1, <2>4
<1>17. ASSUME NEW t \in Table
       PROVE  Sound(Renewed(t), frames, heap, lost) /\ TablesKnown(Renewed(t), heap, alloc)
  <2> DEFINE s == [store[t] EXCEPT !.held = {}]
  <2>1. Renewed(t) = [store EXCEPT ![t] = s]
    BY DEF Renewed, Cleared
  <2>2. Sound([store EXCEPT ![t].held = {}], frames, heap, lost)
    BY <1>0, HeldChanged
  <2>3. Shaped(store[t])
    BY <1>0 DEF AreTables
  <2>4. Shaped(s)
    BY <2>3, HeldIsShaped
  <2>5. IF t \in DOMAIN alloc THEN KnownTo(s, heap, alloc[t]) ELSE s = EmptyStore
    <3>1. CASE t \in DOMAIN alloc
      <4>1. KnownTo(store[t], heap, alloc[t])
        BY <1>0, <3>1 DEF TablesKnown
      <4>2. KnownTo(s, heap, alloc[t])
        BY <2>3, <4>1, HeldKnown
      <4> QED
        BY <3>1, <4>2
    <3>2. CASE t \notin DOMAIN alloc
      BY <1>0, <3>2 DEF TablesKnown, EmptyStore
    <3> QED
      BY <3>1, <3>2
  <2>6. [store EXCEPT ![t].held = {}] = [store EXCEPT ![t] = s]
    OBVIOUS
  <2> HIDE DEF s
  <2>7. TablesKnown([store EXCEPT ![t] = s], heap, alloc)
    BY <1>0, <2>4, <2>5, OneKnown
  <2> QED
    BY <2>1, <2>2, <2>6, <2>7
<1>18. ASSUME NEW t \in Table, NEW b, t \in DOMAIN alloc, Idle
       PROVE  /\ Sound(Emptied(t), frames, Deallocate(heap, store[t]), lost)
              /\ TablesKnown(Emptied(t), Deallocate(heap, store[t]), [alloc EXCEPT ![t] = b])
              /\ TablesKnown(Emptied(t), Deallocate(heap, store[t]), alloc)
  <2> DEFINE B == [alloc EXCEPT ![t] = b]
             K == Deallocate(heap, store[t])
             U == [store EXCEPT ![t] = EmptyStore]
  <2>1. /\ \A x \in Table \ {t} : x \in DOMAIN B <=> x \in DOMAIN alloc
        /\ \A x \in Table \ {t} : x \in DOMAIN alloc => B[x] = alloc[x]
    OBVIOUS
  <2>2. FramesKnown(frames, heap, alloc[t])
    BY <1>2, <1>18
  <2>3. Sound(U, frames, K, lost)
    BY <1>0, Released
  <2> HIDE DEF B
  <2>4. TablesKnown(U, K, B)
    BY <1>0, <2>1, <2>2, ReleasedKnown
  <2>5. TablesKnown(U, K, alloc)
    BY <1>0, <2>2, ReleasedKnown
  <2> QED
    BY <2>3, <2>4, <2>5 DEF Emptied, B
<1>19. ASSUME NEW t \in Table, NEW u \in Table, CopyAssign(t, u) PROVE KnownInv'
  <2> DEFINE c == CallOf("assign", t, u)
             B == [alloc EXCEPT ![t] = alloc[u]]
             K == Deallocate(heap, store[t])
             n == ForOther(store[u])
             elements == store[u].held
  <2>1. /\ c.on = t /\ c.from = u /\ c # NoCall /\ UNCHANGED fixed /\ Idle
        /\ t \in DOMAIN alloc /\ t \in DOMAIN B
    BY <1>19 DEF CopyAssign, Built
  <2>2. \/ Rehash(c, B, Emptied(t), K, n, elements)
        \/ Rehash(c, alloc, Renewed(t), heap, n, elements)
    BY <1>19 DEF CopyAssign
  <2>3. /\ Sound(Emptied(t), frames, K, lost) /\ TablesKnown(Emptied(t), K, B)
        /\ FramesKnown(frames, K, B[c.on]) /\ FramesKnown(frames, heap, alloc[c.on])
    BY <1>2, <1>18, <2>1
  <2> HIDE DEF c, B, K, n, elements
  <2>4. CASE Rehash(c, B, Emptied(t), K, n, elements)
    BY <2>1, <2>3, <2>4, RehashedKnown
  <2>5. CASE Rehash(c, alloc, Renewed(t), heap, n, elements)
    BY <1>17, <2>1, <2>3, <2>5, RehashedKnown
  <2> QED
    BY <2>2, <2>4, <2>5
<1>20. ASSUME NEW t \in Table, NEW u \in Table, MoveAssignPropagating(t, u) PROVE KnownInv'
  <2> DEFINE B == [alloc EXCEPT ![t] = alloc[u]]
             K == Deallocate(heap, store[t])
             U == Emptied(t)
  <2>1. /\ Idle /\ t \in DOMAIN alloc /\ u \in DOMAIN alloc /\ t # u
        /\ alloc' = B /\ heap' = K /\ store' = SwapPointers(U, t, u)
        /\ UNCHANGED <<fixed, frames, call>>
    BY <1>20 DEF MoveAssignPropagating, Built
  <2>2. DOMAIN B = DOMAIN alloc /\ B[t] = alloc[u] /\ B[u] = alloc[u]
    BY <2>1
  <2>3. AreTables(U) /\ TablesKnown(U, K, B)
    BY <1>18, <2>1 DEF Sound
  <2>4. U[t] = EmptyStore
    BY <1>0 DEF Emptied, AreTables
  <2> HIDE DEF B, K, U
  <2>5. KnownTo(U[u], K, B[t]) /\ KnownTo(U[t], K, B[u])
    BY <2>1, <2>2, <2>3, <2>4, EmptyIsKnown DEF TablesKnown
  <2>6. TablesKnown(SwapPointers(U, t, u), K, B)
    BY <2>1, <2>2, <2>3, <2>5, ExchangedKnown
  <2> QED
    BY <1>3, <2>1, <2>6
<1>21. ASSUME NEW t \in Table, NEW u \in Table, MoveAssignEqual(t, u) PROVE KnownInv'
  <2>1. /\ Idle /\ t \in DOMAIN alloc /\ u \in DOMAIN alloc /\ t # u
        /\ alloc[t] = alloc[u] /\ store' = SwapPointers(store, t, u)
        /\ UNCHANGED <<fixed, heap, alloc, frames, call>>
    BY <1>21 DEF MoveAssignEqual, Built
  <2>2. KnownTo(store[u], heap, alloc[t]) /\ KnownTo(store[t], heap, alloc[u])
    BY <1>0, <2>1 DEF TablesKnown
  <2>3. TablesKnown(SwapPointers(store, t, u), heap, alloc)
    BY <1>0, <2>1, <2>2, ExchangedKnown
  <2> QED
    BY <1>3, <2>1, <2>3
<1>22. ASSUME NEW t \in Table, NEW u \in Table, MoveAssignEach(t, u) PROVE KnownInv'
  <2> DEFINE c == CallOf("move", t, u)
             n == ForOther(store[u])
             elements == store[u].held
  <2>1. /\ Rehash(c, alloc, Renewed(t), heap, n, elements)
        /\ c.on = t /\ c.from = u /\ c # NoCall /\ UNCHANGED fixed /\ Idle
        /\ t \in DOMAIN alloc
    BY <1>22 DEF MoveAssignEach, Built
  <2> HIDE DEF c, n, elements
  <2>2. FramesKnown(frames, heap, alloc[c.on])
    BY <1>2, <2>1
  <2> QED
    BY <1>17, <2>1, <2>2, RehashedKnown
<1> QED
  BY <1>5, <1>6, <1>7, <1>8, <1>9, <1>10, <1>11, <1>12, <1>14, <1>15, <1>16, <1>19,
     <1>20, <1>21, <1>22 DEF Call


(* An element leaves a frame, which keeps its array. *)
LEMMA TakenKnown ==
  ASSUME KnownInv, NEW k, Taken(k), Running, UNCHANGED <<heap, alloc, call>>
  PROVE  CallBuilt' /\ FramesKnown(frames', heap', alloc'[call'.on])
<1>1. AreFrames(frames) /\ FramesKnown(frames, heap, alloc[call.on]) /\ CallBuilt
  BY DEF KnownInv, OwnerInv, Sound
<1>2. CallBuilt'
  BY <1>1 DEF CallBuilt, Built, Running
<1>3. CASE frames = <<>>
  BY <1>1, <1>2, <1>3 DEF Taken
<1>4. CASE frames # <<>>
  <2> DEFINE keys == frames[1].held \ {k}
             s == [frames[1] EXCEPT !.held = keys]
             b == alloc[call.on]
  <2>1. 1 \in DOMAIN frames /\ Shaped(frames[1]) /\ KnownTo(frames[1], heap, b)
    BY <1>1, <1>4, FramePopped DEF AreFrames, FramesKnown
  <2>2. frames[1].entries # Default \/ keys = {}
    BY <2>1 DEF KnownTo, EmptyStore
  <2>3. KnownTo(s, heap, b)
    BY <2>1, <2>2, HeldKnown
  <2>4. frames' = [frames EXCEPT ![1] = s]
    BY <1>4 DEF Taken
  <2> HIDE DEF s, b
  <2>5. \A i \in DOMAIN frames' : i \in DOMAIN frames /\ frames'[i] = IF i = 1 THEN s ELSE frames[i]
    BY <2>1, <2>4
  <2>6. FramesKnown(frames', heap, b)
    BY <1>1, <2>3, <2>5 DEF FramesKnown, b
  <2> QED
    BY <1>2, <2>6 DEF b
<1> QED
  BY <1>3, <1>4

LEMMA KnownNext ==
  ASSUME TablesAssumption, KnownInv, [TablesNext]_tableVars PROVE KnownInv'
<1>0. /\ Sound(store, frames, heap, lost) /\ AreTables(store) /\ CallKnown
      /\ TablesKnown(store, heap, alloc) /\ CallBuilt
      /\ FramesKnown(frames, heap, alloc[call.on])
  BY DEF KnownInv, OwnerInv, Sound
<1>1. OwnerInv'
  BY OwnerNext DEF KnownInv
<1>2. ASSUME Running PROVE call # NoCall /\ call.on \in Table /\ call.from \in Table
                           /\ call.on \in DOMAIN alloc
                           /\ KnownTo(Table0, heap, alloc[call.on])
  BY <1>0, <1>2 DEF CallKnown, CallBuilt, Built, Running, TablesKnown, Table0
<1>3. CASE Call
  BY <1>3, CallKnownKeeps
<1>4. ASSUME NEW k \in Key, Present(k) PROVE KnownInv'
  <2>1. Taken(k) /\ Running /\ UNCHANGED <<fixed, heap, alloc, store, call>>
    BY <1>4 DEF Present
  <2> QED
    BY <1>0, <1>1, <2>1, TakenKnown, KnownPrimed
<1>5. ASSUME NEW k \in Key, Place(k) PROVE KnownInv'
  <2>1. /\ store' = [store EXCEPT ![call.on].held = store[call.on].held \cup {k}]
        /\ Taken(k) /\ Running /\ HasRoom(Table0) /\ UNCHANGED <<fixed, heap, alloc, call>>
    BY <1>5 DEF Place
  <2>2. Table0.entries # Default
    BY <1>2, <2>1, HoldsInArray DEF HasRoom
  <2>3. TablesKnown(store', heap', alloc')
    BY <1>1, <1>2, <2>1, <2>2, HeldKeeps DEF Table0
  <2> QED
    BY <1>1, <2>1, <2>3, TakenKnown, KnownPrimed
<1>6. ASSUME NEW k \in Key, CopyThrows(k) PROVE KnownInv'
  <2>1. Unwind(call, alloc, store, heap) /\ Running /\ UNCHANGED fixed
    BY <1>6 DEF CopyThrows
  <2> QED
    BY <1>0, <1>2, <2>1, UnwoundKnown
<1>7. ASSUME NEW k \in Key, Grow(k) PROVE KnownInv'
  <2>1. /\ Running /\ UNCHANGED fixed
        /\ Rehash(call, alloc, store, heap, Max({MinGrow, 2 * BucketCount(Table0)}), coming)
    BY <1>7 DEF Grow
  <2> QED
    BY <1>0, <1>2, <2>1, RehashedKnown
<1>8. CASE EndRehash
  <2> DEFINE s == frames[1]
             K == Deallocate(heap, s)
             b == alloc[call.on]
  <2>1. /\ frames # <<>> /\ Running /\ heap' = Deallocate(heap, Head(frames))
        /\ frames' = Tail(frames) /\ UNCHANGED <<fixed, alloc, store, call>>
    BY <1>8 DEF EndRehash
  <2>2. /\ 1 \in DOMAIN frames /\ Head(frames) = s
        /\ \A i \in DOMAIN frames' : /\ i + 1 \in DOMAIN frames /\ i + 1 # 1
                                     /\ frames'[i] = frames[i + 1]
    BY <1>0, <2>1, FramePopped DEF Sound
  <2>3. \A a \in DOMAIN heap : a # s.entries => K[a] = heap[a]
    BY DEF Deallocate
  <2>4. heap' = K
    BY <2>1, <2>2
  <2> HIDE DEF K
  <2>5. ASSUME NEW t \in Table
        PROVE  IF t \in DOMAIN alloc THEN KnownTo(store[t], K, alloc[t])
               ELSE store[t] = EmptyStore
    <3>1. store[t].entries # Default => K[store[t].entries] = heap[store[t].entries]
      BY <1>0, <2>2, <2>3 DEF Sound, Owned
    <3> QED
      BY <1>0, <3>1, StillKnown DEF TablesKnown
  <2>6. ASSUME NEW i \in DOMAIN frames' PROVE KnownTo(frames'[i], K, b)
    <3> DEFINE f == frames[i + 1]
    <3>1. frames'[i] = f /\ KnownTo(f, heap, b)
      BY <1>0, <2>2 DEF FramesKnown
    <3>2. f.entries # Default => K[f.entries] = heap[f.entries]
      BY <1>0, <2>2, <2>3 DEF Sound, Owned
    <3> HIDE DEF f, b
    <3> QED
      BY <3>1, <3>2, StillKnown
  <2>7. TablesKnown(store', heap', alloc')
    BY <2>1, <2>4, <2>5 DEF TablesKnown
  <2>8. FramesKnown(frames', heap', alloc'[call'.on])
    BY <2>1, <2>4, <2>6 DEF FramesKnown
  <2>9. CallBuilt'
    BY <1>2, <2>1 DEF CallBuilt, Built
  <2> QED
    BY <1>1, <2>1, <2>7, <2>8, <2>9, KnownPrimed
<1>9. CASE EndCall
  <2>1. /\ frames = <<>> /\ call' = NoCall /\ Running /\ UNCHANGED <<fixed, heap, alloc, frames>>
    BY <1>9 DEF EndCall
  <2>2. TablesKnown(store', heap', alloc')
    <3>1. CASE store' = store
      BY <1>0, <2>1, <3>1
    <3>2. CASE store' = [store EXCEPT ![call.from].held = {}]
      BY <1>1, <1>2, <2>1, <3>2, HeldKeeps
    <3> QED
      BY <1>9, <3>1, <3>2 DEF EndCall, Cleared
  <2>3. CallBuilt' /\ FramesKnown(frames', heap', alloc'[call'.on])
    BY <2>1, NothingFramed DEF CallBuilt
  <2> QED
    BY <1>1, <2>1, <2>2, <2>3, KnownPrimed
<1>10. CASE UNCHANGED tableVars
  <2>1. UNCHANGED <<fixed, heap, alloc, store, frames, call>>
    BY <1>10 DEF tableVars
  <2>2. CallBuilt'
    BY <1>0, <2>1 DEF CallBuilt, Built
  <2> QED
    BY <1>0, <1>1, <2>1, <2>2, KnownPrimed
<1> QED
  BY <1>3, <1>4, <1>5, <1>6, <1>7, <1>8, <1>9, <1>10 DEF TablesNext

LEMMA KnownIsKnown ==
  ASSUME TablesAssumption, PowersKnown, KnownInv PROVE ArrayKnown
<1>1. \A t \in Table : store[t] = EmptyStore \/ (t \in DOMAIN alloc /\ KnownTo(store[t], heap, alloc[t]))
  BY DEF KnownInv, TablesKnown
<1>2. \A i \in DOMAIN frames : KnownTo(frames[i], heap, alloc[call.on])
  BY DEF KnownInv, FramesKnown
<1>3. ASSUME NEW s, NEW b, KnownTo(s, heap, b), s.entries # Default
      PROVE  heap[s.entries] = [amount |-> Freed(s), by |-> b]
  <2>1. /\ s.mod \in Sizes /\ s.slotsMinusOne = s.mod - 1 /\ s.lookups = MaxLookups(s.mod)
        /\ heap[s.entries] = [amount |-> Allocated(s.mod), by |-> b]
    BY <1>3 DEF KnownTo, EmptyStore
  <2>2. Freed(s) = Allocated(s.mod)
    BY <2>1, FreesWhatItHas
  <2> QED
    BY <2>1, <2>2
<1>4. FreedAsAllocated
  <2> SUFFICES ASSUME NEW h \in Holders, StoreOf(h).entries # Default
               PROVE  heap[StoreOf(h).entries] =
                        [amount |-> Freed(StoreOf(h)),
                         by |-> alloc[IF h[1] = "table" THEN h[2] ELSE call.on]]
    BY DEF FreedAsAllocated
  <2>1. CASE h \in {<<"table", t>> : t \in Table}
    <3>1. h[1] = "table" /\ h[2] \in Table /\ StoreOf(h) = store[h[2]]
      BY <2>1 DEF StoreOf
    <3>2. KnownTo(store[h[2]], heap, alloc[h[2]])
      BY <1>1, <3>1 DEF EmptyStore
    <3> QED
      BY <1>3, <3>1, <3>2
  <2>2. CASE h \in {<<"frame", i>> : i \in DOMAIN frames}
    <3>1. h[1] = "frame" /\ h[2] \in DOMAIN frames /\ StoreOf(h) = frames[h[2]]
      BY <2>2 DEF StoreOf
    <3> QED
      BY <1>2, <1>3, <3>1
  <2> QED
    BY <2>1, <2>2 DEF Holders
<1>5. PolicyFits
  <2> SUFFICES ASSUME NEW t \in Table
               PROVE  IF store[t].entries = Default
                      THEN store[t] = [EmptyStore EXCEPT !.held = store[t].held]
                      ELSE /\ store[t].mod = store[t].slotsMinusOne + 1
                           /\ store[t].lookups = MaxLookups(store[t].mod)
    BY DEF PolicyFits
  <2>1. CASE store[t] = EmptyStore
    BY <2>1 DEF EmptyStore
  <2>2. CASE store[t] # EmptyStore
    <3>1. /\ store[t].entries # Default /\ store[t].mod \in Sizes
          /\ store[t].slotsMinusOne = store[t].mod - 1
          /\ store[t].lookups = MaxLookups(store[t].mod)
      BY <1>1, <2>2 DEF KnownTo
    <3>2. Sizes \subseteq Int
      BY DEF TablesAssumption
    <3> QED
      BY <3>1, <3>2
  <2> QED
    BY <2>1, <2>2
<1>6. StaticUntouched
  <2>1. ASSUME NEW h \in Holders PROVE StoreOf(h).entries = Default => StoreOf(h).held = {}
    <3>0. ASSUME NEW s, NEW b, KnownTo(s, heap, b), s.entries = Default PROVE s.held = {}
      BY <3>0 DEF KnownTo, EmptyStore
    <3>1. CASE h \in {<<"table", t>> : t \in Table}
      <4>1. h[2] \in Table /\ StoreOf(h) = store[h[2]]
        BY <3>1 DEF StoreOf
      <4>2. store[h[2]] = EmptyStore \/ KnownTo(store[h[2]], heap, alloc[h[2]])
        BY <1>1, <4>1
      <4>3. EmptyStore.held = {}
        BY DEF EmptyStore
      <4> QED
        BY <3>0, <4>1, <4>2, <4>3
    <3>2. CASE h \in {<<"frame", i>> : i \in DOMAIN frames}
      <4>1. h[2] \in DOMAIN frames /\ StoreOf(h) = frames[h[2]]
        BY <3>2 DEF StoreOf
      <4> QED
        BY <1>2, <3>0, <4>1
    <3> QED
      BY <3>1, <3>2 DEF Holders
  <2> QED
    BY <2>1 DEF StaticUntouched
<1> QED
  BY <1>4, <1>5, <1>6 DEF ArrayKnown

(* Whoever has an array knows what it is: what is freed is what was        *)
(* allocated, by the same allocator, also when the table has been swapped, *)
(* moved or assigned since; no hash is mapped past the end of an array;    *)
(* and the static array of empty tables stays empty, however often rehash  *)
(* fails in the middle (flat_hash_map.hpp:300-433, 624-657 and 811-888,    *)
(* bytell_hash_map.hpp:164-300, 528-573 and 770-1004).                     *)
THEOREM ArrayKnownAlways ==
  ASSUME TablesAssumption, PowersKnown PROVE TablesSpec => []ArrayKnown
<1>1. TablesInit => KnownInv
  BY KnownInit
<1>2. KnownInv /\ [TablesNext]_tableVars => KnownInv'
  BY KnownNext
<1>3. KnownInv => ArrayKnown
  BY KnownIsKnown
<1> QED
  BY <1>1, <1>2, <1>3, PTL DEF TablesSpec

=============================================================================
