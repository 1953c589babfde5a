-------------------------- MODULE BytellMapProofs --------------------------
(***************************************************************************)
(* Proofs about BytellMap for every set of keys, every hash function, any  *)
(* list of jumps and any list of sizes: chains stay chains, also while one *)
(* is taken apart, every element is found, counted and there once, and the *)
(* calls change the map as KeyedMap promises.                              *)
(*                                                                         *)
(* What a chain is, is stated jump by jump (Linked): a jump leads to a     *)
(* list entry of the same home, no two jumps lead to one slot, every list  *)
(* entry is led to, and numbers grow along the jumps, so that chains are   *)
(* no circles.  That a search from home meets all elements of that home    *)
(* and no others follows by induction over the numbers (Links).            *)
(***************************************************************************)
EXTENDS BytellMap, CommonLemmas, SequenceTheorems

Full == [kind : {"direct", "list"}, jump : 0 .. Len(JumpDistances), item : Item]

Typed(s) ==
  /\ Size(s) \in Nat /\ DOMAIN s = 0 .. Size(s) - 1
  /\ \A i \in DOMAIN s : s[i] \in {Empty, Reserved} \/ s[i] \in Full

Hop(s, i) == Target(s, i, s[i].jump)
Jumps(s) == {i \in Occupied(s) : s[i].jump # 0}
HomeOf(s, i) == Home(s, s[i].item.key)

(* The chains of s, with numbers r; nobody needs to lead to loose slots.   *)
Linked(s, r, loose) ==
  /\ r \in [DOMAIN s -> Nat]
  /\ \A i \in Occupied(s) : s[i].kind = "direct" => HomeOf(s, i) = i
  /\ \A i \in Jumps(s) :
       /\ Hop(s, i) \in Occupied(s) /\ s[Hop(s, i)].kind = "list"
       /\ HomeOf(s, Hop(s, i)) = HomeOf(s, i)
       /\ r[i] < r[Hop(s, i)]
  /\ \A i, k \in Jumps(s) : Hop(s, i) = Hop(s, k) => i = k
  /\ \A i \in Occupied(s) \ loose :
       s[i].kind = "list" => \E p \in Jumps(s) : Hop(s, p) = i

Chains(s, r, loose) == Typed(s) /\ Linked(s, r, loose)

-----------------------------------------------------------------------------
(* Slots *)

LEMMA ItemFacts ==
  /\ NoItem \notin Item
  /\ \A k \in Key : Hash[k] \in Nat
  /\ \A x \in Item : x.key \in Key /\ x.val \in Value
  /\ \A k \in Key, v \in Value : [key |-> k, val |-> v] \in Item
BY BytellAssumption DEF BytellAssumption, Item

(* What a slot may hold. *)
LEMMA SlotFacts ==
  ASSUME NEW s, Typed(s)
  PROVE  /\ DOMAIN s = 0 .. Size(s) - 1 /\ Size(s) \in Nat
         /\ DOMAIN s \subseteq Nat
         /\ Occupied(s) \subseteq DOMAIN s
         /\ \A i \in Occupied(s) : s[i] \in Full
         /\ \A i \in DOMAIN s \ Occupied(s) : s[i] \in {Empty, Reserved}
<1>1. DOMAIN s = 0 .. Size(s) - 1 /\ Size(s) \in Nat
  BY DEF Typed
<1>2. ASSUME NEW i \in DOMAIN s
      PROVE  /\ i \in Occupied(s) => s[i] \in Full
             /\ i \notin Occupied(s) => s[i] \in {Empty, Reserved}
  <2>1. CASE s[i] \in {Empty, Reserved}
    BY <2>1 DEF Occupied, Empty, Reserved
  <2>2. CASE s[i] \in Full
    <3>1. s[i].item \in Item
      BY <2>2 DEF Full
    <3> QED
      BY <2>2, <3>1, ItemFacts DEF Occupied
  <2> QED
    BY <2>1, <2>2 DEF Typed
<1>3. Occupied(s) \subseteq DOMAIN s
  BY DEF Occupied
<1> QED
  BY <1>1, <1>2, <1>3

LEMMA FullFacts ==
  ASSUME NEW e \in Full
  PROVE  /\ e.kind \in {"direct", "list"}
         /\ e.jump \in 0 .. Len(JumpDistances)
         /\ e.item \in Item /\ e.item # NoItem /\ e.item.key \in Key
         /\ e = [kind |-> e.kind, jump |-> e.jump, item |-> e.item]
BY ItemFacts DEF Full

LEMMA BlankFacts ==
  ASSUME NEW e \in {Empty, Reserved}
  PROVE  e.kind \in {"empty", "reserved"} /\ e.jump = 0 /\ e.item = NoItem /\ e \notin Full
BY ItemFacts DEF Empty, Reserved, Full

(* Homes and targets lie in the array. *)
LEMMA HomeType ==
  ASSUME NEW s, Typed(s), Size(s) # 0, NEW k \in Key
  PROVE  Home(s, k) \in DOMAIN s
<1> DEFINE n == Size(s)
           x == Hash[k]
<1>1. n \in Nat /\ n # 0 /\ DOMAIN s = 0 .. n - 1 /\ x \in Nat
  BY ItemFacts, SlotFacts
<1> HIDE DEF n, x
<1>2. x % n \in 0 .. n - 1
  BY <1>1
<1> QED
  BY <1>1, <1>2 DEF Home, n, x

LEMMA TargetType ==
  ASSUME NEW s, Typed(s), NEW i \in DOMAIN s, NEW j \in 1 .. Len(JumpDistances)
  PROVE  Target(s, i, j) \in DOMAIN s
<1> DEFINE n == Size(s)
           x == JumpDistances[j]
<1>1. n \in Nat /\ DOMAIN s = 0 .. n - 1 /\ i \in 0 .. n - 1
  BY SlotFacts
<1>2. x \in Nat
  BY BytellAssumption DEF BytellAssumption
<1> HIDE DEF n, x
<1>3. n # 0 /\ i + x \in Nat
  BY <1>1, <1>2
<1>4. (i + x) % n \in 0 .. n - 1
  BY <1>1, <1>3
<1> QED
  BY <1>1, <1>4 DEF Target, n, x

LEMMA JumpFacts ==
  ASSUME NEW s, Typed(s), NEW i \in DOMAIN s, s[i].jump # 0
  PROVE  i \in Jumps(s) /\ s[i].jump \in 1 .. Len(JumpDistances) /\ Hop(s, i) \in DOMAIN s
<1>1. s[i] \in Full /\ i \in Occupied(s)
  BY SlotFacts, BlankFacts
<1>2. s[i].jump \in 1 .. Len(JumpDistances)
  BY <1>1, FullFacts, BytellAssumption DEF BytellAssumption
<1> QED
  BY <1>1, <1>2, TargetType DEF Jumps, Hop

LEMMA OccupiedFinite ==
  ASSUME NEW s, Typed(s)
  PROVE  IsFiniteSet(Occupied(s)) /\ Occupied(s) \subseteq Nat /\ Cardinality(Occupied(s)) \in 0 .. Size(s)
<1> DEFINE n == Size(s)
<1>1. n \in Nat /\ Occupied(s) \in SUBSET (0 .. n - 1) /\ Occupied(s) \subseteq Nat
  BY SlotFacts
<1> HIDE DEF n
<1>2. IsFiniteSet(0 .. n - 1) /\ Cardinality(0 .. n - 1) <= n
  <2>1. IsFiniteSet(0 .. n - 1) /\ Cardinality(0 .. n - 1) = IF 0 > n - 1 THEN 0 ELSE (n - 1) - 0 + 1
    BY <1>1, FS_Interval
  <2> QED
    BY <1>1, <2>1
<1>3. IsFiniteSet(Occupied(s)) /\ Cardinality(Occupied(s)) <= Cardinality(0 .. n - 1)
  BY <1>1, <1>2, FS_Subset
<1>4. Cardinality(Occupied(s)) \in Nat /\ Cardinality(0 .. n - 1) \in Nat
  BY <1>2, <1>3, FS_CardinalityType
<1> QED
  BY <1>1, <1>2, <1>3, <1>4 DEF n

-----------------------------------------------------------------------------
(* Chains *)

(* What repeating a step a number of times gives. *)
Repeat(next, i, n) ==
  CHOOSE g : g = [d \in 0 .. n |-> IF d = 0 THEN i ELSE next[g[d - 1]]]

Repeats(at, D, next, i, n) ==
  /\ at \in [0 .. n -> D] /\ at[0] = i
  /\ \A d \in 0 .. n - 1 : at[d + 1] = next[at[d]]

LEMMA Iteration ==
  ASSUME NEW D, NEW next \in [D -> D], NEW i \in D, NEW n \in Nat
  PROVE  Repeats(Repeat(next, i, n), D, next, i, n)
<1> DEFINE at == Repeat(next, i, n)
<1> DEFINE Good(g, m) == g \in [0 .. m -> D] /\ g[0] = i /\ \A d \in 0 .. m - 1 : g[d + 1] = next[g[d]]
           T == {m \in Nat : \E g : Good(g, m)}
           Rec(g) == g = [d \in 0 .. n |-> IF d = 0 THEN i ELSE next[g[d - 1]]]
<1>1. 0 \in T
  <2> DEFINE g == [d \in 0 .. 0 |-> i]
  <2>1. Good(g, 0)
    OBVIOUS
  <2> QED
    BY <2>1
<1>2. ASSUME NEW m \in Nat, m \in T PROVE m + 1 \in T
  <2>1. PICK g : Good(g, m)
    BY <1>2
  <2> DEFINE h == [d \in 0 .. m + 1 |-> IF d <= m THEN g[d] ELSE next[g[m]]]
  <2>2. g[m] \in D /\ next[g[m]] \in D
    BY <2>1
  <2>3. h \in [0 .. m + 1 -> D]
    BY <2>1, <2>2
  <2>4. (\A d \in 0 .. m : h[d] = g[d]) /\ h[m + 1] = next[g[m]]
    OBVIOUS
  <2>5. ASSUME NEW d \in 0 .. (m + 1) - 1 PROVE h[d + 1] = next[h[d]]
    <3>1. CASE d = m
      BY <2>4, <3>1
    <3>2. CASE d # m
      <4>1. d \in 0 .. m - 1 /\ d + 1 \in 0 .. m /\ d \in 0 .. m
        BY <3>2
      <4> QED
        BY <2>1, <2>4, <4>1
    <3> QED
      BY <3>1, <3>2
  <2>6. h[0] = i
    BY <2>1, <2>4
  <2>7. Good(h, m + 1)
    BY <2>3, <2>5, <2>6
  <2> HIDE DEF Good
  <2> QED
    BY <2>7
<1>3. n \in T
  <2> HIDE DEF T
  <2> QED
    BY <1>1, <1>2, SetInduction
<1>4. PICK g : Good(g, n)
  BY <1>3
<1>5. Rec(g)
  <2>1. ASSUME NEW d \in 0 .. n, d # 0 PROVE g[d] = next[g[d - 1]]
    <3>1. d - 1 \in 0 .. n - 1 /\ (d - 1) + 1 = d
      BY <2>1
    <3> QED
      BY <1>4, <3>1
  <2> QED
    BY <1>4, <2>1
<1>6. Rec(at)
  <2> HIDE DEF Rec
  <2>1. at = CHOOSE f : Rec(f)
    BY DEF Rec, Repeat
  <2> HIDE DEF at
  <2> QED
    BY <1>5, <2>1
<1> HIDE DEF at
<1>7. at[0] = i /\ \A d \in 0 .. n : d # 0 => at[d] = next[at[d - 1]]
  <2>1. \A d \in 0 .. n : at[d] = IF d = 0 THEN i ELSE next[at[d - 1]]
    BY <1>6, Zenon
  <2>2. 0 \in 0 .. n
    OBVIOUS
  <2> QED
    BY <2>1, <2>2
<1>8. ASSUME NEW d \in 0 .. n - 1 PROVE at[d + 1] = next[at[d]]
  <2>1. d + 1 \in 0 .. n /\ d + 1 # 0 /\ (d + 1) - 1 = d
    OBVIOUS
  <2> QED
    BY <1>7, <2>1
<1>9. at \in [0 .. n -> D]
  <2> DEFINE S == {m \in Nat : m <= n => at[m] \in D}
  <2>1. 0 \in S
    BY <1>7
  <2>2. ASSUME NEW m \in Nat, m \in S PROVE m + 1 \in S
    <3>1. m + 1 <= n => m \in 0 .. n - 1 /\ m <= n
      OBVIOUS
    <3> QED
      BY <1>8, <2>2, <3>1
  <2>3. Nat \subseteq S
    <3> HIDE DEF S
    <3> QED
      BY <2>1, <2>2, SetInduction
  <2>4. at = [d \in 0 .. n |-> at[d]]
    BY <1>6
  <2>5. \A d \in 0 .. n : at[d] \in D
    BY <2>3
  <2> QED
    BY <2>4, <2>5
<1> QED
  BY <1>7, <1>8, <1>9 DEF at, Repeats

LEMMA ChainIs ==
  ASSUME NEW s, Typed(s), NEW i \in DOMAIN s
  PROVE  /\ Chain(s, i) \in [0 .. Size(s) -> DOMAIN s] /\ Chain(s, i)[0] = i
         /\ \A d \in 0 .. Size(s) - 1 : Chain(s, i)[d + 1] = Follow(s, Chain(s, i)[d])
<1> DEFINE D == DOMAIN s
           next == [l \in D |-> Follow(s, l)]
           n == Size(s)
           at == Chain(s, i)
<1>1. n \in Nat
  BY SlotFacts
<1>2. ASSUME NEW l \in DOMAIN s PROVE Follow(s, l) \in DOMAIN s
  BY JumpFacts DEF Follow, Hop
<1>3. next \in [D -> D] /\ i \in D
  BY <1>2
<1>4. at = Repeat(next, i, n)
  BY DEF Chain, Repeat
<1>5. \A l \in D : next[l] = Follow(s, l)
  OBVIOUS
<1> HIDE DEF at, next, n, D
<1>6. /\ at \in [0 .. n -> D] /\ at[0] = i
      /\ \A d \in 0 .. n - 1 : at[d + 1] = next[at[d]]
  <2>1. Repeats(Repeat(next, i, n), D, next, i, n)
    BY <1>1, <1>3, Iteration
  <2> QED
    BY <1>4, <2>1 DEF Repeats
<1>7. \A d \in 0 .. n - 1 : at[d] \in D
  BY <1>1, <1>6
<1> QED
  BY <1>5, <1>6, <1>7 DEF n, at, D

LEMMA LinkedFacts ==
  ASSUME NEW s, NEW r, NEW loose, Chains(s, r, loose)
  PROVE  /\ Typed(s)
         /\ \A i \in Occupied(s) : i \in DOMAIN s /\ s[i] \in Full /\ r[i] \in Nat
         /\ \A i \in Occupied(s) : s[i].kind = "direct" => HomeOf(s, i) = i
         /\ \A i \in Jumps(s) :
              /\ i \in Occupied(s)
              /\ Hop(s, i) \in Occupied(s) /\ s[Hop(s, i)].kind = "list"
              /\ HomeOf(s, Hop(s, i)) = HomeOf(s, i) /\ r[i] < r[Hop(s, i)]
         /\ \A i, k \in Jumps(s) : Hop(s, i) = Hop(s, k) => i = k
         /\ \A i \in Occupied(s) \ loose :
              s[i].kind = "list" => \E p \in Jumps(s) : Hop(s, p) = i
<1>1. Typed(s) /\ Linked(s, r, loose)
  BY DEF Chains
<1>2. \A i \in Occupied(s) : i \in DOMAIN s /\ s[i] \in Full
  BY <1>1, SlotFacts
<1>3. r \in [DOMAIN s -> Nat]
  BY <1>1 DEF Linked
<1>4. \A i \in Jumps(s) : i \in Occupied(s)
  BY DEF Jumps
<1> QED
  BY <1>1, <1>2, <1>3, <1>4 DEF Linked

(* Each link of a chain is an element, the next one is where it jumps to,  *)
(* and the last has no jump: numbers grow, and there are not enough slots. *)
LEMMA ChainFacts ==
  ASSUME NEW s, NEW r, NEW loose, Chains(s, r, loose), NEW i \in Occupied(s),
         NEW at, at = Chain(s, i), NEW n, n = Size(s)
  PROVE  /\ n \in Nat /\ at[0] = i
         /\ \A d \in 0 .. n : at[d] \in Occupied(s)
         /\ \A d \in 0 .. n - 1 :
              at[d + 1] = IF at[d] \in Jumps(s) THEN Hop(s, at[d]) ELSE at[d]
         /\ at[n] \notin Jumps(s)
<1>1. /\ n \in Nat /\ DOMAIN s = 0 .. n - 1 /\ i \in DOMAIN s
      /\ at \in [0 .. n -> DOMAIN s] /\ at[0] = i
      /\ \A d \in 0 .. n - 1 : at[d + 1] = Follow(s, at[d])
  BY LinkedFacts, SlotFacts, ChainIs
<1>2. ASSUME NEW l \in Occupied(s)
      PROVE  /\ Follow(s, l) = IF l \in Jumps(s) THEN Hop(s, l) ELSE l
             /\ Follow(s, l) \in Occupied(s)
  BY LinkedFacts DEF Follow, Hop, Jumps
<1>3. \A d \in 0 .. n : at[d] \in Occupied(s)
  <2> DEFINE T == {d \in Nat : d <= n => at[d] \in Occupied(s)}
  <2>1. 0 \in T
    BY <1>1
  <2>2. ASSUME NEW d \in Nat, d \in T PROVE d + 1 \in T
    <3>1. d + 1 <= n => d \in 0 .. n - 1 /\ d <= n
      BY <1>1
    <3> QED
      BY <1>1, <1>2, <2>2, <3>1
  <2>3. Nat \subseteq T
    <3> HIDE DEF T
    <3> QED
      BY <2>1, <2>2, SetInduction
  <2> QED
    BY <2>3, <1>1
<1>4. \A d \in 0 .. n - 1 : at[d + 1] = IF at[d] \in Jumps(s) THEN Hop(s, at[d]) ELSE at[d]
  <2> SUFFICES ASSUME NEW d \in 0 .. n - 1
               PROVE  at[d + 1] = IF at[d] \in Jumps(s) THEN Hop(s, at[d]) ELSE at[d]
    OBVIOUS
  <2>1. d \in 0 .. n
    BY <1>1
  <2> QED
    BY <2>1, <1>1, <1>2, <1>3
<1>5. \A d \in 0 .. n - 1 :
        at[d] \in Jumps(s) => \A e \in 0 .. d : at[e] \in Jumps(s) /\ r[at[e]] < r[at[d + 1]]
  <2> DEFINE Up(d) == at[d] \in Jumps(s) =>
                        \A e \in 0 .. d : at[e] \in Jumps(s) /\ r[at[e]] < r[at[d + 1]]
             T == {d \in Nat : d + 1 <= n => Up(d)}
  <2>0. ASSUME NEW d \in 0 .. n - 1, at[d] \in Jumps(s)
        PROVE  at[d + 1] = Hop(s, at[d]) /\ r[at[d]] < r[at[d + 1]] /\ r[at[d]] \in Nat
               /\ r[at[d + 1]] \in Nat
    <3>1. at[d + 1] = Hop(s, at[d])
      BY <2>0, <1>4
    <3> QED
      BY <2>0, <3>1, LinkedFacts
  <2>1. 0 \in T
    <3>1. 0 + 1 <= n => 0 \in 0 .. n - 1
      BY <1>1
    <3>2. \A e \in 0 .. 0 : e = 0
      OBVIOUS
    <3> QED
      BY <2>0, <3>1, <3>2
  <2>2. ASSUME NEW d \in Nat, d \in T PROVE d + 1 \in T
    <3> SUFFICES ASSUME (d + 1) + 1 <= n, at[d + 1] \in Jumps(s), NEW e \in 0 .. d + 1
                 PROVE  at[e] \in Jumps(s) /\ r[at[e]] < r[at[(d + 1) + 1]]
      OBVIOUS
    <3>1. d + 1 <= n /\ d \in 0 .. n - 1 /\ d + 1 \in 0 .. n - 1
      BY <1>1
    <3>2. r[at[d + 1]] < r[at[(d + 1) + 1]] /\ r[at[d + 1]] \in Nat /\ r[at[(d + 1) + 1]] \in Nat
      BY <2>0, <3>1
    <3>3. CASE e = d + 1
      BY <3>2, <3>3
    <3>4. CASE e # d + 1
      <4>1. e \in 0 .. d
        BY <3>4
      <4>2. at[d] \in Jumps(s)
        BY <1>4, <3>1
      <4>3. at[e] \in Jumps(s) /\ r[at[e]] < r[at[d + 1]]
        BY <2>2, <3>1, <4>1, <4>2
      <4>4. r[at[e]] \in Nat
        BY <4>3, LinkedFacts
      <4> QED
        BY <3>2, <4>3, <4>4
    <3> QED
      BY <3>3, <3>4
  <2>3. Nat \subseteq T
    <3> HIDE DEF T
    <3> QED
      BY <2>1, <2>2, SetInduction
  <2>4. ASSUME NEW d \in 0 .. n - 1 PROVE Up(d)
    <3>1. d \in T /\ d + 1 <= n
      BY <2>3, <1>1
    <3> QED
      BY <3>1
  <2> QED
    BY <2>4
<1>6. at[n] \notin Jumps(s)
  <2> SUFFICES ASSUME at[n] \in Jumps(s) PROVE FALSE
    OBVIOUS
  <2>1. ASSUME NEW d \in 0 .. n, NEW e \in 0 .. n, e < d PROVE at[e] # at[d]
    <3>1. d - 1 \in 0 .. n - 1 /\ (d - 1) + 1 = d /\ e \in 0 .. d - 1 /\ n # 0 /\ n - 1 \in 0 .. n - 1 /\ (n - 1) + 1 = n
      BY <2>1, <1>1
    <3>2. at[n - 1] \in Jumps(s)
      BY <3>1, <1>4
    <3>3. at[d - 1] \in Jumps(s)
      BY <3>1, <3>2, <1>5
    <3>4. r[at[e]] < r[at[d]]
      BY <3>1, <3>3, <1>5
    <3>5. r[at[e]] \in Nat
      BY <1>3, LinkedFacts
    <3> QED
      BY <3>4, <3>5
  <2> DEFINE D == 0 .. n
             E == 0 .. n - 1
  <2>2. /\ IsFiniteSet(D) /\ IsFiniteSet(E)
        /\ Cardinality(D) = n + 1 /\ Cardinality(E) = n
    <3>1. IsFiniteSet(0 .. n) /\ Cardinality(0 .. n) = n + 1
      BY <1>1, FS_Interval
    <3>2. IsFiniteSet(0 .. n - 1) /\ Cardinality(0 .. n - 1) = n
      <4> DEFINE m == n - 1
      <4>1. m \in Int /\ (0 > m => n = 0) /\ m + 1 = n
        BY <1>1
      <4> HIDE DEF m
      <4>2. IsFiniteSet(0 .. m) /\ Cardinality(0 .. m) = IF 0 > m THEN 0 ELSE m - 0 + 1
        BY <4>1, FS_Interval
      <4>3. Cardinality(0 .. m) = n
        BY <4>1, <4>2
      <4> QED
        BY <4>2, <4>3 DEF m
    <3> QED
      BY <3>1, <3>2
  <2>3. at \in [D -> E] /\ Cardinality(E) < Cardinality(D)
    BY <1>1, <2>2
  <2> HIDE DEF D, E
  <2>4. \E x, y \in D : x # y /\ at[x] = at[y]
    BY <2>2, <2>3, FS_PigeonHole
  <2>5. PICK x \in 0 .. n, y \in 0 .. n : x # y /\ at[x] = at[y]
    BY <2>4 DEF D
  <2>6. x < y \/ y < x
    BY <2>5
  <2> QED
    BY <2>1, <2>5, <2>6
<1> QED
  BY <1>1, <1>3, <1>4, <1>6

(* The links of a chain: what the jumps lead to, and no more. *)
LEMMA LinksFacts ==
  ASSUME NEW s, NEW r, NEW loose, Chains(s, r, loose), NEW i \in Occupied(s)
  PROVE  /\ i \in Links(s, i) /\ Links(s, i) \subseteq Occupied(s)
         /\ \A p \in Links(s, i) : p \in Jumps(s) => Hop(s, p) \in Links(s, i)
         /\ \E l \in Links(s, i) : l \notin Jumps(s)
         /\ \A c \in Links(s, i) \ {i} :
              /\ s[c].kind = "list" /\ HomeOf(s, c) = HomeOf(s, i) /\ r[i] < r[c]
              /\ \E p \in Links(s, i) : p \in Jumps(s) /\ Hop(s, p) = c
<1> DEFINE at == Chain(s, i)
           n == Size(s)
           L == Links(s, i)
<1>1. /\ n \in Nat /\ at[0] = i
      /\ \A d \in 0 .. n : at[d] \in Occupied(s)
      /\ \A d \in 0 .. n - 1 :
           at[d + 1] = IF at[d] \in Jumps(s) THEN Hop(s, at[d]) ELSE at[d]
      /\ at[n] \notin Jumps(s)
  BY ChainFacts
<1>2. L = {at[d] : d \in 0 .. n}
  <2>1. i \in DOMAIN s /\ Typed(s)
    BY LinkedFacts
  <2>2. DOMAIN at = 0 .. n
    BY <2>1, ChainIs
  <2> QED
    BY <2>2 DEF Links
<1> HIDE DEF at, n, L
<1>3. i \in L /\ L \subseteq Occupied(s) /\ at[n] \in L
  <2>1. 0 \in 0 .. n /\ n \in 0 .. n
    BY <1>1
  <2> QED
    BY <1>1, <1>2, <2>1
<1>4. ASSUME NEW p \in L, p \in Jumps(s) PROVE Hop(s, p) \in L
  <2>1. PICK d \in 0 .. n : p = at[d]
    BY <1>2
  <2>2. d # n
    BY <1>1, <1>4, <2>1
  <2>3. d \in 0 .. n - 1 /\ d + 1 \in 0 .. n
    BY <1>1, <2>2
  <2> QED
    BY <1>1, <1>2, <1>4, <2>1, <2>3
<1>5. ASSUME NEW c \in L, c # i
      PROVE  /\ s[c].kind = "list" /\ HomeOf(s, c) = HomeOf(s, i) /\ r[i] < r[c]
             /\ \E p \in L : p \in Jumps(s) /\ Hop(s, p) = c
  <2> DEFINE Good(x) == /\ s[x].kind = "list" /\ HomeOf(s, x) = HomeOf(s, i) /\ r[i] < r[x]
                        /\ \E p \in L : p \in Jumps(s) /\ Hop(s, p) = x
             T == {d \in Nat : d <= n => at[d] = i \/ Good(at[d])}
  <2>1. 0 \in T
    BY <1>1
  <2>2. ASSUME NEW d \in Nat, d \in T PROVE d + 1 \in T
    <3> SUFFICES ASSUME d + 1 <= n PROVE at[d + 1] = i \/ Good(at[d + 1])
      OBVIOUS
    <3>1. d \in 0 .. n - 1 /\ d \in 0 .. n /\ d <= n
      BY <1>1
    <3>2. at[d] = i \/ Good(at[d])
      BY <2>2, <3>1
    <3>3. CASE at[d] \notin Jumps(s)
      BY <3>1, <3>2, <3>3, <1>1
    <3>4. CASE at[d] \in Jumps(s)
      <4> DEFINE p == at[d]
                 q == Hop(s, p)
      <4>1. at[d + 1] = q /\ p \in L /\ p \in Jumps(s)
        BY <3>1, <3>4, <1>1, <1>2
      <4>2. /\ q \in Occupied(s) /\ s[q].kind = "list" /\ HomeOf(s, q) = HomeOf(s, p)
            /\ r[p] < r[q] /\ r[p] \in Nat /\ r[q] \in Nat
        BY <4>1, LinkedFacts
      <4>3. HomeOf(s, p) = HomeOf(s, i) /\ (r[p] = r[i] \/ r[i] < r[p]) /\ r[i] \in Nat
        BY <3>2, LinkedFacts
      <4> HIDE DEF p
      <4>4. r[i] < r[q]
        BY <4>2, <4>3
      <4>5. Good(q)
        BY <4>1, <4>2, <4>3, <4>4
      <4> QED
        BY <4>1, <4>5
    <3> QED
      BY <3>3, <3>4
  <2>3. Nat \subseteq T
    <3> HIDE DEF T
    <3> QED
      BY <2>1, <2>2, SetInduction
  <2>4. PICK d \in 0 .. n : c = at[d]
    BY <1>2
  <2>5. d \in T /\ d <= n
    BY <2>3, <1>1
  <2>6. Good(c)
    BY <1>5, <2>4, <2>5
  <2> QED
    BY <2>6
<1> QED
  BY <1>1, <1>3, <1>4, <1>5 DEF L

(* Every element is in the chain that begins at its home. *)
LEMMA HomeLinks ==
  ASSUME NEW s, NEW r, Chains(s, r, {}), NEW i \in Occupied(s)
  PROVE  LET h == HomeOf(s, i)
         IN  h \in Occupied(s) /\ s[h].kind = "direct" /\ i \in Links(s, h)
<1> DEFINE Good(x) == /\ HomeOf(s, x) \in Occupied(s) /\ s[HomeOf(s, x)].kind = "direct"
                      /\ x \in Links(s, HomeOf(s, x))
           T == {m \in Nat : \A x \in Occupied(s) : r[x] = m => Good(x)}
<1>1. ASSUME NEW m \in Nat, \A k \in Nat : k < m => k \in T
      PROVE  m \in T
  <2> SUFFICES ASSUME NEW x \in Occupied(s), r[x] = m PROVE Good(x)
    OBVIOUS
  <2>1. s[x] \in Full /\ s[x].kind \in {"direct", "list"}
    BY LinkedFacts, FullFacts
  <2>2. CASE s[x].kind = "direct"
    <3>1. HomeOf(s, x) = x
      BY <2>2, LinkedFacts
    <3>2. x \in Links(s, x)
      BY LinksFacts
    <3> QED
      BY <2>2, <3>1, <3>2
  <2>3. CASE s[x].kind = "list"
    <3>1. PICK p \in Jumps(s) : Hop(s, p) = x
      BY <2>3, LinkedFacts
    <3>2. p \in Occupied(s) /\ HomeOf(s, x) = HomeOf(s, p) /\ r[p] < m /\ r[p] \in Nat
      BY <3>1, LinkedFacts
    <3>3. Good(p)
      BY <1>1, <3>2
    <3>4. x \in Links(s, HomeOf(s, x))
      BY <3>1, <3>2, <3>3, LinksFacts
    <3> QED
      BY <3>2, <3>3, <3>4
  <2> QED
    BY <2>1, <2>2, <2>3
<1>2. Nat \subseteq T
  <2> HIDE DEF T
  <2> QED
    BY <1>1, StrongInduction
<1>3. r[i] \in T
  BY <1>2, LinkedFacts
<1> QED
  BY <1>3

(* No two slots have the same key. *)
Apart(s) == \A i, j \in Occupied(s) : s[i].item.key = s[j].item.key => i = j

(* A search stops in the slot that has the key, and nowhere if none has.   *)
LEMMA Finds ==
  ASSUME NEW s, NEW r, Chains(s, r, {}), NEW k \in Key
  PROVE  Found(s, k) = {i \in Occupied(s) : s[i].item.key = k}
<1> DEFINE h == Home(s, k)
<1>1. Typed(s) /\ Size(s) \in Nat /\ DOMAIN s = 0 .. Size(s) - 1
  BY LinkedFacts, SlotFacts
<1>2. ASSUME NEW i \in Found(s, k) PROVE i \in Occupied(s) /\ s[i].item.key = k
  <2>1. Size(s) # 0 /\ s[h].kind = "direct" /\ i \in Links(s, h) /\ s[i].item.key = k
    BY DEF Found
  <2>2. h \in DOMAIN s
    BY <1>1, <2>1, HomeType
  <2>3. h \in Occupied(s)
    BY <1>1, <2>1, <2>2, SlotFacts, BlankFacts
  <2> QED
    BY <2>1, <2>3, LinksFacts
<1>3. ASSUME NEW i \in Occupied(s), s[i].item.key = k PROVE i \in Found(s, k)
  <2>1. h \in Occupied(s) /\ s[h].kind = "direct" /\ i \in Links(s, h)
    BY <1>3, HomeLinks DEF HomeOf
  <2>2. Size(s) # 0 /\ s[i].item # NoItem
    BY <1>1, LinkedFacts, FullFacts
  <2> QED
    BY <1>3, <2>1, <2>2 DEF Found
<1> QED
  BY <1>2, <1>3

(* Nobody's home is a slot without a direct hit. *)
LEMMA NoneFrom ==
  ASSUME NEW s, NEW r, Chains(s, r, {}), NEW k \in Key, s[Home(s, k)].kind # "direct"
  PROVE  \A i \in Occupied(s) : s[i].item.key # k
BY HomeLinks DEF HomeOf

(* The end of a chain, and the slot before one of its links *)
LEMMA LastFacts ==
  ASSUME NEW s, NEW r, NEW loose, Chains(s, r, loose), NEW i \in Occupied(s)
  PROVE  /\ Last(s, i) \in Links(s, i) /\ Last(s, i) \in Occupied(s)
         /\ s[Last(s, i)].jump = 0
         /\ HomeOf(s, Last(s, i)) = HomeOf(s, i)
         /\ i \in Jumps(s) => Last(s, i) # i /\ s[Last(s, i)].kind = "list" /\ r[i] < r[Last(s, i)]
<1>1. PICK l \in Links(s, i) : l \notin Jumps(s)
  BY LinksFacts
<1>2. l \in Occupied(s) /\ s[l].jump = 0
  BY <1>1, LinksFacts DEF Jumps
<1>3. Last(s, i) \in Links(s, i) /\ s[Last(s, i)].jump = 0
  BY <1>2 DEF Last
<1>4. i \in Jumps(s) => Last(s, i) # i
  BY <1>3 DEF Jumps
<1> QED
  BY <1>3, <1>4, LinksFacts

LEMMA BeforeFacts ==
  ASSUME NEW s, NEW r, NEW loose, Chains(s, r, loose), NEW i \in Occupied(s),
         NEW c \in Links(s, i), c # i
  PROVE  /\ Before(s, i, c) \in Jumps(s)
         /\ Hop(s, Before(s, i, c)) = c
<1>1. PICK p \in Links(s, i) : p \in Jumps(s) /\ Hop(s, p) = c
  BY LinksFacts
<1>2. s[p].jump # 0 /\ Target(s, p, s[p].jump) = c
  BY <1>1 DEF Jumps, Hop
<1>3. /\ Before(s, i, c) \in Links(s, i) /\ s[Before(s, i, c)].jump # 0
      /\ Target(s, Before(s, i, c), s[Before(s, i, c)].jump) = c
  BY <1>2 DEF Before
<1> QED
  BY <1>3, LinksFacts DEF Jumps, Hop

LEMMA ParentFacts ==
  ASSUME NEW s, NEW r, Chains(s, r, {}), NEW c \in Occupied(s), s[c].kind = "list"
  PROVE  Parent(s, c) \in Jumps(s) /\ Hop(s, Parent(s, c)) = c
<1> DEFINE h == HomeOf(s, c)
<1>1. h \in Occupied(s) /\ s[h].kind = "direct" /\ c \in Links(s, h)
  BY HomeLinks
<1>2. Parent(s, c) = Before(s, h, c) /\ h # c
  BY <1>1 DEF Parent, HomeOf
<1> HIDE DEF h
<1> QED
  BY <1>1, <1>2, BeforeFacts

(* Depths grow along the jumps. *)
LEMMA DepthGrows ==
  ASSUME NEW s, NEW r, Chains(s, r, {}), NEW p \in Jumps(s)
  PROVE  Depth(s, p) \in Nat /\ Depth(s, Hop(s, p)) \in Nat /\ Depth(s, p) < Depth(s, Hop(s, p))
<1> DEFINE h == HomeOf(s, p)
           c == Hop(s, p)
           at == Chain(s, h)
           n == Size(s)
           T(x) == {d \in DOMAIN at : at[d] = x}
<1>1. /\ p \in Occupied(s) /\ c \in Occupied(s) /\ s[c].kind = "list" /\ HomeOf(s, c) = h
      /\ h \in Occupied(s) /\ s[h].kind = "direct" /\ p \in Links(s, h) /\ c \in Links(s, h)
  BY LinkedFacts, HomeLinks
<1>2. Depth(s, p) = Min(T(p)) /\ Depth(s, c) = Min(T(c))
  BY <1>1 DEF Depth, HomeOf
<1>3. /\ n \in Nat /\ at[0] = h
      /\ \A d \in 0 .. n : at[d] \in Occupied(s)
      /\ \A d \in 0 .. n - 1 :
           at[d + 1] = IF at[d] \in Jumps(s) THEN Hop(s, at[d]) ELSE at[d]
  BY <1>1, ChainFacts
<1>4. DOMAIN at = 0 .. n
  BY <1>1, LinkedFacts, ChainIs
<1>5. \A x \in Links(s, h) : T(x) \subseteq Nat /\ T(x) # {}
  BY <1>3, <1>4 DEF Links
<1> HIDE DEF at, n, h, c
<1>6. /\ Min(T(p)) \in T(p) /\ \A m \in T(p) : Min(T(p)) <= m
      /\ Min(T(c)) \in T(c) /\ \A m \in T(c) : Min(T(c)) <= m
  <2> DEFINE A == T(p)
             B == T(c)
  <2>1. A \subseteq Nat /\ A # {} /\ B \subseteq Nat /\ B # {}
    BY <1>1, <1>5
  <2> HIDE DEF A, B
  <2>2. Min(A) \in A /\ (\A m \in A : Min(A) <= m) /\ Min(B) \in B /\ \A m \in B : Min(B) <= m
    BY <2>1, MinIsLeast
  <2> QED
    BY <2>2 DEF A, B
<1>7. PICK a \in 0 .. n : a = Min(T(p)) /\ at[a] = p /\ \A m \in 0 .. n : at[m] = p => a <= m
  BY <1>4, <1>6
<1>8. PICK b \in 0 .. n : b = Min(T(c)) /\ at[b] = c /\ \A m \in 0 .. n : at[m] = c => b <= m
  BY <1>4, <1>6
<1>9. b # 0
  BY <1>1, <1>3, <1>8
<1>10. b - 1 \in 0 .. n - 1 /\ b - 1 \in 0 .. n /\ (b - 1) + 1 = b
  BY <1>3, <1>9
<1>11. at[b - 1] \in Jumps(s) /\ Hop(s, at[b - 1]) = c
  <2>1. at[b] = IF at[b - 1] \in Jumps(s) THEN Hop(s, at[b - 1]) ELSE at[b - 1]
    BY <1>3, <1>10
  <2>2. at[b - 1] # c
    BY <1>8, <1>10
  <2> QED
    BY <2>1, <2>2, <1>8
<1>12. at[b - 1] = p
  BY <1>11, LinkedFacts DEF c
<1>13. a <= b - 1
  BY <1>7, <1>10, <1>12
<1> QED
  BY <1>2, <1>3, <1>7, <1>8, <1>13 DEF c

LEMMA DepthType ==
  ASSUME NEW s, NEW r, Chains(s, r, {}), NEW i \in Occupied(s)
  PROVE  Depth(s, i) \in Nat
<1> DEFINE h == HomeOf(s, i)
           at == Chain(s, h)
           T == {d \in DOMAIN at : at[d] = i}
<1>1. h \in Occupied(s) /\ i \in Links(s, h)
  BY HomeLinks
<1>2. DOMAIN at = 0 .. Size(s) /\ Size(s) \in Nat
  BY <1>1, LinkedFacts, SlotFacts, ChainIs
<1>3. T \subseteq Nat /\ T # {}
  BY <1>1, <1>2 DEF Links
<1>4. Depth(s, i) = Min(T)
  BY DEF Depth, HomeOf
<1> HIDE DEF T
<1> QED
  BY <1>3, <1>4, MinIsLeast

-----------------------------------------------------------------------------
(* Changes of an array *)

(* Homes and targets depend on the size alone. *)
LEMMA SameSize ==
  ASSUME NEW s, NEW w, DOMAIN w = DOMAIN s
  PROVE  /\ Size(w) = Size(s)
         /\ \A k : Home(w, k) = Home(s, k)
         /\ \A i, j : Target(w, i, j) = Target(s, i, j)
BY DEF Size, Home, Target

(* What stays as it is, where an element stays. *)
LEMMA SameElement ==
  ASSUME NEW s, NEW w, DOMAIN w = DOMAIN s, NEW i
  PROVE  /\ w[i].item = s[i].item => HomeOf(w, i) = HomeOf(s, i)
         /\ w[i].jump = s[i].jump => Hop(w, i) = Hop(s, i)
BY SameSize DEF HomeOf, Hop

LEMMA FreeJumpFacts ==
  ASSUME NEW s, Typed(s), NEW i \in DOMAIN s
  PROVE  /\ FreeJump(s, i) \in 0 .. Len(JumpDistances)
         /\ FreeJump(s, i) # 0 => /\ Target(s, i, FreeJump(s, i)) \in DOMAIN s
                                  /\ s[Target(s, i, FreeJump(s, i))] = Empty
<1> DEFINE T == {j \in 1 .. Len(JumpDistances) : s[Target(s, i, j)] = Empty}
<1>1. Len(JumpDistances) \in Nat
  BY BytellAssumption DEF BytellAssumption
<1>2. FreeJump(s, i) = IF T = {} THEN 0 ELSE Min(T)
  BY DEF FreeJump
<1>3. CASE T = {}
  BY <1>1, <1>2, <1>3
<1>4. CASE T # {}
  <2>1. T \subseteq Nat
    OBVIOUS
  <2>2. Min(T) \in T
    <3> HIDE DEF T
    <3> QED
      BY <1>4, <2>1, MinIsLeast
  <2>3. FreeJump(s, i) \in T
    BY <1>2, <1>4, <2>2
  <2> QED
    BY <2>3, <1>1, TargetType
<1> QED
  BY <1>3, <1>4

(* The end of a chain is taken away. *)
LEMMA Unlinked ==
  ASSUME NEW s, NEW r, Chains(s, r, {}), NEW l \in Occupied(s), s[l].jump = 0,
         NEW w, DOMAIN w = DOMAIN s, w[l] = Empty,
         \A j \in DOMAIN s \ Occupied(s) : w[j] = s[j],
         \A j \in Occupied(s) \ {l} :
           /\ w[j] \in Full /\ w[j].kind = s[j].kind /\ HomeOf(w, j) = HomeOf(s, j)
           /\ w[j].jump = IF j \in Jumps(s) /\ Hop(s, j) = l THEN 0 ELSE s[j].jump
  PROVE  Chains(w, r, {}) /\ Occupied(w) = Occupied(s) \ {l}
<1>1. /\ Typed(s) /\ \A i \in Occupied(s) : i \in DOMAIN s
      /\ \A i \in Occupied(s) : s[i].kind = "direct" => HomeOf(s, i) = i
      /\ \A i \in Jumps(s) :
           /\ i \in Occupied(s)
           /\ Hop(s, i) \in Occupied(s) /\ s[Hop(s, i)].kind = "list"
           /\ HomeOf(s, Hop(s, i)) = HomeOf(s, i) /\ r[i] < r[Hop(s, i)]
      /\ \A i, k \in Jumps(s) : Hop(s, i) = Hop(s, k) => i = k
      /\ \A i \in Occupied(s) : s[i].kind = "list" => \E p \in Jumps(s) : Hop(s, p) = i
  BY LinkedFacts
<1>2. Occupied(w) = Occupied(s) \ {l}
  <2>1. ASSUME NEW j \in Occupied(s), j # l PROVE j \in Occupied(w)
    BY <1>1, <2>1, FullFacts DEF Occupied
  <2>2. l \notin Occupied(w)
    BY BlankFacts DEF Occupied
  <2>3. ASSUME NEW j \in Occupied(w) PROVE j \in Occupied(s)
    BY DEF Occupied
  <2> QED
    BY <2>1, <2>2, <2>3
<1>3. Size(w) = Size(s) /\ \A i, j : Target(w, i, j) = Target(s, i, j)
  BY SameSize
<1>4. Typed(w)
  <2>1. ASSUME NEW j \in DOMAIN w PROVE w[j] \in {Empty, Reserved} \/ w[j] \in Full
    <3>1. j \in DOMAIN s \ Occupied(s) => s[j] \in {Empty, Reserved}
      BY <1>1, SlotFacts
    <3> QED
      BY <3>1
  <2> QED
    BY <1>1, <1>3, <2>1 DEF Typed
<1>5. \A j : j \in Jumps(w) <=> j \in Jumps(s) /\ Hop(s, j) # l
  BY <1>1, <1>2 DEF Jumps
<1>6. \A j \in Jumps(w) : Hop(w, j) = Hop(s, j) /\ Hop(w, j) \in Occupied(w) /\ j \in Occupied(w)
  <2> SUFFICES ASSUME NEW j \in Jumps(w)
               PROVE  Hop(w, j) = Hop(s, j) /\ Hop(w, j) \in Occupied(w) /\ j \in Occupied(w)
    OBVIOUS
  <2>1. j \in Jumps(s) /\ Hop(s, j) # l /\ j \in Occupied(w)
    BY <1>5 DEF Jumps
  <2>2. w[j].jump = s[j].jump
    BY <2>1, <1>2
  <2> QED
    BY <1>1, <1>2, <1>3, <2>1, <2>2 DEF Hop
<1>7. \A j \in Occupied(w) : w[j].kind = s[j].kind /\ HomeOf(w, j) = HomeOf(s, j)
  BY <1>2
<1>8. \A i \in Occupied(w) : w[i].kind = "direct" => HomeOf(w, i) = i
  BY <1>1, <1>2, <1>7
<1>9. \A i \in Jumps(w) :
        /\ Hop(w, i) \in Occupied(w) /\ w[Hop(w, i)].kind = "list"
        /\ HomeOf(w, Hop(w, i)) = HomeOf(w, i) /\ r[i] < r[Hop(w, i)]
  BY <1>1, <1>5, <1>6, <1>7
<1>10. \A i, k \in Jumps(w) : Hop(w, i) = Hop(w, k) => i = k
  BY <1>1, <1>5, <1>6
<1>11. \A i \in Occupied(w) : w[i].kind = "list" => \E p \in Jumps(w) : Hop(w, p) = i
  <2> SUFFICES ASSUME NEW i \in Occupied(w), w[i].kind = "list"
               PROVE  \E p \in Jumps(w) : Hop(w, p) = i
    OBVIOUS
  <2>1. PICK p \in Jumps(s) : Hop(s, p) = i
    BY <1>1, <1>2, <1>7
  <2>2. p \in Jumps(w)
    BY <2>1, <1>2, <1>5
  <2> QED
    BY <2>1, <2>2, <1>6
<1>12. r \in [DOMAIN w -> Nat]
  BY DEF Chains, Linked
<1> QED
  BY <1>2, <1>4, <1>8, <1>9, <1>10, <1>11, <1>12 DEF Chains, Linked

(* Other contents or another jump in a slot that is occupied *)
LEMMA FullChanges ==
  ASSUME NEW e \in Full, NEW x \in Item, NEW j \in 0 .. Len(JumpDistances)
  PROVE  /\ [e EXCEPT !.jump = j] = [kind |-> e.kind, jump |-> j, item |-> e.item]
         /\ [e EXCEPT !.item = x] = [kind |-> e.kind, jump |-> e.jump, item |-> x]
         /\ [kind |-> e.kind, jump |-> j, item |-> x] \in Full
         /\ [kind |-> e.kind, jump |-> j, item |-> e.item] \in Full
         /\ [kind |-> e.kind, jump |-> e.jump, item |-> x] \in Full
BY DEF Full

(* An erase empties the last slot of the chain, whose element comes into   *)
(* the slot of the one that is erased.                                     *)
Takes(s, r, w, i, l) ==
  /\ Occupied(w) = Occupied(s) \ {l}
  /\ l # i => r[i] < r[l] /\ w[i].item = s[l].item
  /\ \A j \in Occupied(s) \ {i, l} : w[j].item = s[j].item

LEMMA ErasedFacts ==
  ASSUME NEW s, NEW r, Chains(s, r, {}), NEW i \in Occupied(s)
  PROVE  /\ Chains(Erased(s, i), r, {}) /\ DOMAIN Erased(s, i) = DOMAIN s
         /\ \A j \in DOMAIN s : s[j] # Reserved => Erased(s, i)[j] # Reserved
         /\ \E l \in Occupied(s) : Takes(s, r, Erased(s, i), i, l)
<1> DEFINE w == Erased(s, i)
<1>0. /\ Typed(s) /\ i \in DOMAIN s /\ 0 \in 0 .. Len(JumpDistances)
      /\ \A j \in Occupied(s) : /\ j \in DOMAIN s /\ s[j] \in Full /\ s[j].item \in Item
                                /\ s[j].jump \in 0 .. Len(JumpDistances)
      /\ Empty # Reserved /\ \A e \in Full : e # Reserved /\ e # Empty
  <2>1. Empty # Reserved /\ \A e \in Full : e # Reserved /\ e # Empty
    BY BlankFacts DEF Empty, Reserved
  <2>2. 0 \in 0 .. Len(JumpDistances)
    BY BytellAssumption DEF BytellAssumption
  <2> QED
    BY <2>1, <2>2, LinkedFacts, FullFacts
<1>1. \A j \in Jumps(s) : j \in Occupied(s) /\ s[j].jump # 0 /\ s[Hop(s, j)].kind = "list"
  BY LinkedFacts DEF Jumps
<1>2. ASSUME NEW l \in Occupied(s), s[l].jump = 0, DOMAIN w = DOMAIN s, w[l] = Empty,
             l # i => r[i] < r[l] /\ HomeOf(s, l) = HomeOf(s, i),
             \A j \in DOMAIN s \ Occupied(s) : w[j] = s[j],
             \A j \in Occupied(s) \ {l} :
               w[j] = [kind |-> s[j].kind,
                       jump |-> IF j \in Jumps(s) /\ Hop(s, j) = l THEN 0 ELSE s[j].jump,
                       item |-> IF j = i THEN s[l].item ELSE s[j].item]
      PROVE  /\ Chains(w, r, {}) /\ DOMAIN w = DOMAIN s
             /\ \A j \in DOMAIN s : s[j] # Reserved => w[j] # Reserved
             /\ \E q \in Occupied(s) : Takes(s, r, w, i, q)
  <2> HIDE DEF w
  <2>1. ASSUME NEW j \in Occupied(s) \ {l}
        PROVE  /\ w[j] \in Full /\ w[j].kind = s[j].kind /\ HomeOf(w, j) = HomeOf(s, j)
               /\ w[j].jump = IF j \in Jumps(s) /\ Hop(s, j) = l THEN 0 ELSE s[j].jump
               /\ w[j].item = IF j = i THEN s[l].item ELSE s[j].item
    <3> DEFINE u == IF j \in Jumps(s) /\ Hop(s, j) = l THEN 0 ELSE s[j].jump
               x == IF j = i THEN s[l].item ELSE s[j].item
    <3>1. u \in 0 .. Len(JumpDistances) /\ x \in Item
      BY <1>0
    <3>2. w[j] = [kind |-> s[j].kind, jump |-> u, item |-> x]
      BY <1>2
    <3>3. HomeOf(s, j) = Home(s, x.key)
      BY <1>2 DEF HomeOf
    <3> HIDE DEF u, x
    <3>4. w[j] \in Full /\ w[j].kind = s[j].kind /\ w[j].jump = u /\ w[j].item = x
      <4>1. s[j].kind \in {"direct", "list"}
        BY <1>0, FullFacts
      <4> QED
        BY <3>1, <3>2, <4>1 DEF Full
    <3>5. HomeOf(w, j) = Home(s, x.key)
      BY <1>2, <3>4, SameSize DEF HomeOf
    <3> QED
      BY <3>3, <3>4, <3>5 DEF u, x
  <2>2. Chains(w, r, {}) /\ Occupied(w) = Occupied(s) \ {l}
    BY <1>2, <2>1, Unlinked
  <2>3. ASSUME NEW j \in DOMAIN s, s[j] # Reserved PROVE w[j] # Reserved
    BY <1>0, <1>2, <2>1, <2>3
  <2>4. Takes(s, r, w, i, l)
    BY <1>2, <2>1, <2>2 DEF Takes
  <2> QED
    BY <1>2, <2>2, <2>3, <2>4
<1>3. CASE s[i].jump # 0
  <2> DEFINE l == Last(s, i)
             p == Before(s, i, l)
             x == s[l].item
  <2>1. i \in Jumps(s)
    BY <1>3 DEF Jumps
  <2>2. /\ l \in Occupied(s) /\ s[l].jump = 0 /\ l # i /\ r[i] < r[l] /\ l \in Links(s, i)
        /\ HomeOf(s, l) = HomeOf(s, i)
    BY <2>1, LastFacts
  <2>3. p \in Jumps(s) /\ Hop(s, p) = l
    <3> HIDE DEF l
    <3> QED
      BY <2>2, BeforeFacts
  <2>4. w = [s EXCEPT ![i].item = x, ![p].jump = 0, ![l] = Empty]
    BY <1>3 DEF Erased
  <2> HIDE DEF l, p, w
  <2>5. \A j \in Jumps(s) : Hop(s, j) = l <=> j = p
    BY <2>3, LinkedFacts
  <2>6. x \in Item /\ p # l /\ p \in Occupied(s)
    BY <1>0, <1>1, <2>2, <2>3 DEF l
  <2>7. DOMAIN w = DOMAIN s /\ w[l] = Empty /\ \A j \in DOMAIN s : j \notin {i, p, l} => w[j] = s[j]
    BY <2>2, <2>4, <1>0
  <2>8. ASSUME NEW j \in Occupied(s) \ {l}
        PROVE  w[j] = [kind |-> s[j].kind,
                       jump |-> IF j \in Jumps(s) /\ Hop(s, j) = l THEN 0 ELSE s[j].jump,
                       item |-> IF j = i THEN x ELSE s[j].item]
    <3>1. j \in DOMAIN s /\ s[j] \in Full /\ s[j].item \in Item
      BY <1>0
    <3>2. CASE j = i /\ j = p
      <4>1. w[j] = [[s[j] EXCEPT !.item = x] EXCEPT !.jump = 0]
        BY <2>4, <3>1, <3>2
      <4>2. [s[j] EXCEPT !.item = x] = [kind |-> s[j].kind, jump |-> s[j].jump, item |-> x]
        BY <1>0, <2>6, <3>1, FullChanges
      <4> HIDE DEF x
      <4>3. w[j] = [kind |-> s[j].kind, jump |-> 0, item |-> x]
        BY <4>1, <4>2
      <4> QED
        BY <3>2, <4>3, <2>3
    <3>3. CASE j = i /\ j # p
      <4>1. w[j] = [s[j] EXCEPT !.item = x]
        BY <2>4, <3>1, <3>3
      <4>2. [s[j] EXCEPT !.item = x] = [kind |-> s[j].kind, jump |-> s[j].jump, item |-> x]
        BY <1>0, <2>6, <3>1, FullChanges
      <4> QED
        BY <3>3, <4>1, <4>2, <2>5
    <3>4. CASE j # i /\ j = p
      <4>1. w[j] = [s[j] EXCEPT !.jump = 0]
        BY <2>4, <3>1, <3>4
      <4>2. [s[j] EXCEPT !.jump = 0] = [kind |-> s[j].kind, jump |-> 0, item |-> s[j].item]
        BY <1>0, <3>1, FullChanges
      <4> QED
        BY <3>4, <4>1, <4>2, <2>3
    <3>5. CASE j # i /\ j # p
      <4>1. w[j] = s[j] /\ ~ (j \in Jumps(s) /\ Hop(s, j) = l)
        BY <2>5, <2>7, <3>1, <3>5
      <4> QED
        BY <3>1, <3>5, <4>1, FullFacts
    <3> QED
      BY <3>2, <3>3, <3>4, <3>5
  <2>9. \A j \in DOMAIN s \ Occupied(s) : w[j] = s[j]
    BY <2>2, <2>6, <2>7
  <2> QED
    BY <2>2, <2>7, <2>8, <2>9, <1>2 DEF w
<1>4. CASE s[i].jump = 0 /\ s[i].kind = "list"
  <2> DEFINE p == Parent(s, i)
  <2>1. p \in Jumps(s) /\ Hop(s, p) = i /\ p \in Occupied(s) /\ p # i
    BY <1>1, <1>4, ParentFacts
  <2>2. w = [s EXCEPT ![p].jump = 0, ![i] = Empty]
    BY <1>4 DEF Erased
  <2> HIDE DEF p, w
  <2>3. \A j \in Jumps(s) : Hop(s, j) = i <=> j = p
    BY <2>1, LinkedFacts
  <2>4. DOMAIN w = DOMAIN s /\ w[i] = Empty /\ \A j \in DOMAIN s : j \notin {i, p} => w[j] = s[j]
    BY <2>2, <1>0
  <2>5. ASSUME NEW j \in Occupied(s) \ {i}
        PROVE  w[j] = [kind |-> s[j].kind,
                       jump |-> IF j \in Jumps(s) /\ Hop(s, j) = i THEN 0 ELSE s[j].jump,
                       item |-> IF j = i THEN s[i].item ELSE s[j].item]
    <3>1. j \in DOMAIN s /\ s[j] \in Full /\ s[j].item \in Item
      BY <1>0
    <3>2. CASE j = p
      <4>1. w[j] = [s[j] EXCEPT !.jump = 0]
        BY <2>2, <3>1, <3>2
      <4>2. [s[j] EXCEPT !.jump = 0] = [kind |-> s[j].kind, jump |-> 0, item |-> s[j].item]
        BY <1>0, <3>1, FullChanges
      <4> QED
        BY <3>2, <4>1, <4>2, <2>1
    <3>3. CASE j # p
      <4>1. w[j] = s[j] /\ ~ (j \in Jumps(s) /\ Hop(s, j) = i)
        BY <2>3, <2>4, <3>1, <3>3
      <4> QED
        BY <3>1, <4>1, FullFacts
    <3> QED
      BY <3>2, <3>3
  <2>6. \A j \in DOMAIN s \ Occupied(s) : w[j] = s[j]
    BY <2>1, <2>4
  <2> QED
    BY <1>4, <2>4, <2>5, <2>6, <1>2 DEF w
<1>5. CASE s[i].jump = 0 /\ s[i].kind # "list"
  <2>1. w = [s EXCEPT ![i] = Empty]
    BY <1>5 DEF Erased
  <2> HIDE DEF w
  <2>2. DOMAIN w = DOMAIN s /\ w[i] = Empty /\ \A j \in DOMAIN s : j # i => w[j] = s[j]
    BY <2>1, <1>0
  <2>3. ASSUME NEW j \in Occupied(s) \ {i}
        PROVE  w[j] = [kind |-> s[j].kind,
                       jump |-> IF j \in Jumps(s) /\ Hop(s, j) = i THEN 0 ELSE s[j].jump,
                       item |-> IF j = i THEN s[i].item ELSE s[j].item]
    <3>1. ~ (j \in Jumps(s) /\ Hop(s, j) = i)
      BY <1>1, <1>5
    <3> QED
      BY <1>0, <2>2, <3>1, FullFacts
  <2>4. \A j \in DOMAIN s \ Occupied(s) : w[j] = s[j]
    BY <2>2
  <2> QED
    BY <1>5, <2>2, <2>3, <2>4, <1>2 DEF w
<1> QED
  BY <1>3, <1>4, <1>5 DEF w

LEMMA NewSlots ==
  ASSUME NEW x \in Item
  PROVE  /\ Direct(x) \in Full /\ Direct(x).kind = "direct" /\ Direct(x).jump = 0
         /\ Direct(x).item = x
         /\ Entry(x) \in Full /\ Entry(x).kind = "list" /\ Entry(x).jump = 0
         /\ Entry(x).item = x
         /\ x # NoItem
BY ItemFacts, BytellAssumption DEF BytellAssumption, Direct, Entry, Full

(* A slot with nothing in it gets a direct hit, or is reserved for one. *)
LEMMA DirectLinked ==
  ASSUME NEW s, NEW r, Chains(s, r, {}), NEW h \in DOMAIN s \ Occupied(s), NEW x \in Item,
         Home(s, x.key) = h,
         NEW w, DOMAIN w = DOMAIN s, w[h] = Direct(x), \A j \in DOMAIN s \ {h} : w[j] = s[j]
  PROVE  Chains(w, r, {}) /\ Occupied(w) = Occupied(s) \cup {h}
<1>1. /\ Typed(s) /\ \A i \in Occupied(s) : i \in DOMAIN s
      /\ \A i \in Occupied(s) : s[i].kind = "direct" => HomeOf(s, i) = i
      /\ \A i \in Jumps(s) :
           /\ i \in Occupied(s)
           /\ Hop(s, i) \in Occupied(s) /\ s[Hop(s, i)].kind = "list"
           /\ HomeOf(s, Hop(s, i)) = HomeOf(s, i) /\ r[i] < r[Hop(s, i)]
      /\ \A i, k \in Jumps(s) : Hop(s, i) = Hop(s, k) => i = k
      /\ \A i \in Occupied(s) : s[i].kind = "list" => \E p \in Jumps(s) : Hop(s, p) = i
  BY LinkedFacts
<1> DEFINE e == Direct(x)
<1>2. e \in Full /\ e.kind = "direct" /\ e.jump = 0 /\ e.item = x /\ x # NoItem
  BY NewSlots
<1> HIDE DEF e
<1>3. DOMAIN w = DOMAIN s /\ w[h] = e /\ \A j \in DOMAIN s : j # h => w[j] = s[j]
  BY DEF e
<1>4. Size(w) = Size(s) /\ \A k : Home(w, k) = Home(s, k)
  BY <1>3, SameSize
<1>5. Occupied(w) = Occupied(s) \cup {h}
  BY <1>2, <1>3 DEF Occupied
<1>6. \A j \in Occupied(s) : j \in DOMAIN s /\ j # h /\ w[j] = s[j]
  BY <1>1, <1>3
<1>7. Typed(w)
  BY <1>1, <1>2, <1>3, <1>4 DEF Typed
<1>8. \A j : j \in Jumps(w) <=> j \in Jumps(s)
  BY <1>2, <1>3, <1>5, <1>6 DEF Jumps
<1>9. \A j \in Jumps(w) : Hop(w, j) = Hop(s, j)
  BY <1>1, <1>3, <1>6, <1>8, SameElement
<1>10. \A j \in Occupied(s) : HomeOf(w, j) = HomeOf(s, j)
  BY <1>3, <1>6, SameElement
<1>11. HomeOf(w, h) = h
  BY <1>2, <1>3, <1>4 DEF HomeOf
<1>12. \A i \in Occupied(w) : w[i].kind = "direct" => HomeOf(w, i) = i
  BY <1>1, <1>5, <1>6, <1>10, <1>11
<1>13. \A i \in Jumps(w) :
        /\ Hop(w, i) \in Occupied(w) /\ w[Hop(w, i)].kind = "list"
        /\ HomeOf(w, Hop(w, i)) = HomeOf(w, i) /\ r[i] < r[Hop(w, i)]
  BY <1>1, <1>5, <1>6, <1>8, <1>9, <1>10
<1>14. \A i, k \in Jumps(w) : Hop(w, i) = Hop(w, k) => i = k
  BY <1>1, <1>8, <1>9
<1>15. \A i \in Occupied(w) : w[i].kind = "list" => \E p \in Jumps(w) : Hop(w, p) = i
  <2> SUFFICES ASSUME NEW i \in Occupied(w), w[i].kind = "list"
               PROVE  \E p \in Jumps(w) : Hop(w, p) = i
    OBVIOUS
  <2>1. i \in Occupied(s) /\ s[i].kind = "list"
    BY <1>2, <1>3, <1>5, <1>6
  <2>2. PICK p \in Jumps(s) : Hop(s, p) = i
    BY <1>1, <2>1
  <2> QED
    BY <2>2, <1>8, <1>9
<1>16. r \in [DOMAIN w -> Nat]
  BY <1>3 DEF Chains, Linked
<1> QED
  BY <1>5, <1>7, <1>12, <1>13, <1>14, <1>15, <1>16 DEF Chains, Linked

LEMMA BlankLinked ==
  ASSUME NEW s, NEW r, NEW loose, Chains(s, r, loose), NEW h \in DOMAIN s \ Occupied(s),
         NEW w, DOMAIN w = DOMAIN s, w[h] = Reserved, \A j \in DOMAIN s \ {h} : w[j] = s[j]
  PROVE  Chains(w, r, loose) /\ Occupied(w) = Occupied(s) /\ Jumps(w) = Jumps(s)
         /\ \A i \in Jumps(s) : Hop(w, i) = Hop(s, i)
<1>1. DOMAIN w = DOMAIN s /\ w[h] = Reserved /\ \A j \in DOMAIN s : j # h => w[j] = s[j]
  OBVIOUS
<1>2. /\ Typed(s) /\ \A i \in Occupied(s) : i \in DOMAIN s
  BY LinkedFacts
<1>3. Size(w) = Size(s)
  BY <1>1, SameSize
<1>4. Occupied(w) = Occupied(s)
  BY <1>1, BlankFacts DEF Occupied
<1>5. \A j \in Occupied(s) : j \in DOMAIN s /\ w[j] = s[j]
  BY <1>1, <1>2
<1>6. Typed(w)
  BY <1>1, <1>2, <1>3 DEF Typed
<1>7. Jumps(w) = Jumps(s)
  BY <1>4, <1>5 DEF Jumps
<1>8. \A j \in Jumps(s) : j \in Occupied(s) /\ Hop(w, j) = Hop(s, j)
  BY <1>1, <1>5, SameElement DEF Jumps
<1>9. \A j \in Occupied(s) : HomeOf(w, j) = HomeOf(s, j)
  BY <1>1, <1>5, SameElement
<1>10. Linked(s, r, loose)
  BY DEF Chains
<1>11. Linked(w, r, loose)
  BY <1>1, <1>4, <1>5, <1>7, <1>8, <1>9, <1>10 DEF Linked
<1> QED
  BY <1>4, <1>6, <1>7, <1>8, <1>11 DEF Chains

(* A chain gets one more link at its end. *)
LEMMA EntryLinked ==
  ASSUME NEW s, NEW r, Chains(s, r, {}), NEW l \in Occupied(s), s[l].jump = 0,
         NEW x \in Item, Home(s, x.key) = HomeOf(s, l),
         NEW j \in 1 .. Len(JumpDistances), NEW t \in DOMAIN s \ Occupied(s), t = Target(s, l, j),
         NEW w, DOMAIN w = DOMAIN s, w[t] = Entry(x), w[l] = [s[l] EXCEPT !.jump = j],
         \A i \in DOMAIN s \ {t, l} : w[i] = s[i]
  PROVE  /\ \E q : Chains(w, q, {})
         /\ Occupied(w) = Occupied(s) \cup {t} /\ w[t].item = x
         /\ \A i \in Occupied(s) : w[i].item = s[i].item
         /\ DOMAIN w = DOMAIN s /\ \A i \in DOMAIN s : s[i] # Reserved => w[i] # Reserved
<1>1. /\ Typed(s) /\ \A i \in Occupied(s) : i \in DOMAIN s /\ s[i] \in Full /\ r[i] \in Nat
      /\ \A i \in Occupied(s) : s[i].kind = "direct" => HomeOf(s, i) = i
      /\ \A i \in Jumps(s) :
           /\ i \in Occupied(s)
           /\ Hop(s, i) \in Occupied(s) /\ s[Hop(s, i)].kind = "list"
           /\ HomeOf(s, Hop(s, i)) = HomeOf(s, i) /\ r[i] < r[Hop(s, i)]
      /\ \A i, k \in Jumps(s) : Hop(s, i) = Hop(s, k) => i = k
      /\ \A i \in Occupied(s) : s[i].kind = "list" => \E p \in Jumps(s) : Hop(s, p) = i
  BY LinkedFacts
<1> DEFINE e == Entry(x)
           f == [kind |-> s[l].kind, jump |-> j, item |-> s[l].item]
           q == [r EXCEPT ![t] = r[l] + 1]
<1>2. e \in Full /\ e.kind = "list" /\ e.jump = 0 /\ e.item = x /\ x # NoItem
  BY NewSlots
<1>3. j \in 0 .. Len(JumpDistances) /\ j # 0 /\ t # l
  BY <1>1
<1>4. f \in Full /\ f.kind = s[l].kind /\ f.jump = j /\ f.item = s[l].item /\ f = [s[l] EXCEPT !.jump = j]
  <2>1. s[l] \in Full /\ s[l].item \in Item
    BY <1>1, FullFacts
  <2> QED
    BY <1>3, <2>1, FullChanges
<1> HIDE DEF e, f
<1>5. /\ DOMAIN w = DOMAIN s /\ w[t] = e /\ w[l] = f
      /\ \A i \in DOMAIN s : i \notin {t, l} => w[i] = s[i]
  BY <1>1, <1>3, <1>4 DEF e
<1>6. Size(w) = Size(s) /\ (\A k : Home(w, k) = Home(s, k)) /\ Target(w, l, j) = t
  BY <1>5, SameSize
<1>7. \A i \in Occupied(s) : i \in DOMAIN s /\ i # t /\ s[i].item # NoItem
                             /\ w[i].item = s[i].item /\ w[i].kind = s[i].kind
  BY <1>1, <1>4, <1>5, FullFacts
<1>8. Occupied(w) = Occupied(s) \cup {t}
  <2>1. ASSUME NEW i \in Occupied(w), i # t PROVE i \in Occupied(s)
    BY <2>1, <1>5 DEF Occupied
  <2>2. ASSUME NEW i \in Occupied(s) PROVE i \in Occupied(w)
    BY <1>5, <1>7 DEF Occupied
  <2>3. t \in Occupied(w)
    BY <1>2, <1>5 DEF Occupied
  <2> QED
    BY <2>1, <2>2, <2>3
<1>9. Typed(w)
  BY <1>1, <1>2, <1>4, <1>5, <1>6 DEF Typed
<1>10. \A i : i \in Jumps(w) <=> i \in Jumps(s) \/ i = l
  <2>1. l \in Jumps(w) /\ t \notin Jumps(w) /\ t \notin Jumps(s)
    BY <1>2, <1>3, <1>4, <1>5, <1>8 DEF Jumps
  <2>2. \A i : i \notin {t, l} => (i \in Jumps(w) <=> i \in Jumps(s))
    BY <1>1, <1>5, <1>8 DEF Jumps
  <2> QED
    BY <2>1, <2>2
<1>11. l \notin Jumps(s)
  BY DEF Jumps
<1>12. \A i \in Jumps(s) : Hop(w, i) = Hop(s, i) /\ i # l /\ Hop(s, i) # t /\ i # t
  <2> SUFFICES ASSUME NEW i \in Jumps(s)
               PROVE  Hop(w, i) = Hop(s, i) /\ i # l /\ Hop(s, i) # t /\ i # t
    OBVIOUS
  <2>1. i \in Occupied(s) /\ Hop(s, i) \in Occupied(s) /\ i # l
    BY <1>1, <1>11
  <2>2. w[i] = s[i] /\ i # t
    BY <1>1, <1>5, <2>1
  <2> QED
    BY <1>5, <2>1, <2>2, SameElement
<1>13. Hop(w, l) = t
  BY <1>4, <1>5, <1>6 DEF Hop
<1>14. \A i \in Occupied(s) : HomeOf(w, i) = HomeOf(s, i)
  BY <1>5, <1>7, SameElement
<1>15. HomeOf(w, t) = HomeOf(s, l) /\ w[t].kind = "list"
  BY <1>2, <1>5, <1>6 DEF HomeOf
<1>16. q \in [DOMAIN w -> Nat] /\ q[t] = r[l] + 1 /\ \A i \in Occupied(s) : q[i] = r[i]
  <2>1. r \in [DOMAIN s -> Nat]
    BY DEF Chains, Linked
  <2> QED
    BY <2>1, <1>1, <1>5, <1>7
<1> HIDE DEF q
<1>17. \A i \in Occupied(w) : w[i].kind = "direct" => HomeOf(w, i) = i
  BY <1>1, <1>7, <1>8, <1>14, <1>15
<1>18. ASSUME NEW i \in Jumps(w)
       PROVE  /\ Hop(w, i) \in Occupied(w) /\ w[Hop(w, i)].kind = "list"
              /\ HomeOf(w, Hop(w, i)) = HomeOf(w, i) /\ q[i] < q[Hop(w, i)]
  <2>1. CASE i = l
    BY <2>1, <1>1, <1>8, <1>13, <1>14, <1>15, <1>16
  <2>2. CASE i \in Jumps(s)
    BY <2>2, <1>1, <1>7, <1>8, <1>12, <1>14, <1>16
  <2> QED
    BY <2>1, <2>2, <1>10
<1>19. \A i, k \in Jumps(w) : Hop(w, i) = Hop(w, k) => i = k
  BY <1>1, <1>10, <1>12, <1>13
<1>20. \A i \in Occupied(w) : w[i].kind = "list" => \E p \in Jumps(w) : Hop(w, p) = i
  <2> SUFFICES ASSUME NEW i \in Occupied(w), w[i].kind = "list"
               PROVE  \E p \in Jumps(w) : Hop(w, p) = i
    OBVIOUS
  <2>1. CASE i = t
    BY <2>1, <1>10, <1>13
  <2>2. CASE i # t
    <3>1. i \in Occupied(s) /\ s[i].kind = "list"
      BY <2>2, <1>7, <1>8
    <3>2. PICK p \in Jumps(s) : Hop(s, p) = i
      BY <1>1, <3>1
    <3> QED
      BY <3>2, <1>10, <1>12
  <2> QED
    BY <2>1, <2>2
<1>21. Chains(w, q, {})
  BY <1>9, <1>16, <1>17, <1>18, <1>19, <1>20 DEF Chains, Linked
<1>22. \A i \in DOMAIN s : s[i] # Reserved => w[i] # Reserved
  <2>1. e # Reserved /\ f # Reserved
    BY <1>2, <1>4, BlankFacts
  <2> QED
    BY <2>1, <1>5
<1> QED
  BY <1>2, <1>5, <1>7, <1>8, <1>21, <1>22

(* What is known while a chain is taken apart: at comes next, to a place   *)
(* after the end parent of the new part, to which nobody else leads.       *)
Torn(s, r, p, at) ==
  /\ p \in Occupied(s) /\ at \in Occupied(s)
  /\ Chains(s, r, {at})
  /\ s[at].kind = "list" /\ HomeOf(s, p) = HomeOf(s, at) /\ r[p] < r[at]
  /\ \A i \in Jumps(s) : i = p <=> Hop(s, i) = at

(* One more element has moved, and if it was the last the chain is whole.  *)
LEMMA MovedLinked ==
  ASSUME NEW s, NEW r, NEW p, NEW at, Torn(s, r, p, at),
         NEW j \in 1 .. Len(JumpDistances), NEW t \in DOMAIN s \ Occupied(s), t = Target(s, p, j),
         NEW w, DOMAIN w = DOMAIN s, w[t] = Entry(s[at].item), w[p] = [s[p] EXCEPT !.jump = j],
         w[at] = Empty, \A i \in DOMAIN s \ {t, p, at} : w[i] = s[i]
  PROVE  /\ s[at].jump = 0 => \E q : Chains(w, q, {})
         /\ s[at].jump # 0 => \E q : Torn(w, q, t, Hop(s, at))
         /\ Occupied(w) = (Occupied(s) \ {at}) \cup {t} /\ w[t].item = s[at].item
         /\ \A i \in Occupied(s) \ {at} : w[i].item = s[i].item
<1>0. /\ p \in Occupied(s) /\ at \in Occupied(s) /\ Chains(s, r, {at})
      /\ s[at].kind = "list" /\ HomeOf(s, p) = HomeOf(s, at) /\ r[p] < r[at]
      /\ \A i \in Jumps(s) : i = p <=> Hop(s, i) = at
  BY DEF Torn
<1>1. /\ Typed(s) /\ \A i \in Occupied(s) : i \in DOMAIN s /\ s[i] \in Full /\ r[i] \in Nat
      /\ \A i \in Occupied(s) : s[i].kind = "direct" => HomeOf(s, i) = i
      /\ \A i \in Jumps(s) :
           /\ i \in Occupied(s)
           /\ Hop(s, i) \in Occupied(s) /\ s[Hop(s, i)].kind = "list"
           /\ HomeOf(s, Hop(s, i)) = HomeOf(s, i) /\ r[i] < r[Hop(s, i)]
      /\ \A i, k \in Jumps(s) : Hop(s, i) = Hop(s, k) => i = k
      /\ \A i \in Occupied(s) \ {at} : s[i].kind = "list" => \E m \in Jumps(s) : Hop(s, m) = i
  BY <1>0, LinkedFacts
<1> DEFINE x == s[at].item
           e == Entry(x)
           f == [kind |-> s[p].kind, jump |-> j, item |-> s[p].item]
           q == [r EXCEPT ![t] = r[at]]
           n == Hop(s, at)
           loose == IF s[at].jump = 0 THEN {} ELSE {n}
<1>2. e \in Full /\ e.kind = "list" /\ e.jump = 0 /\ e.item = x /\ x # NoItem /\ x \in Item
  <2>1. x \in Item
    BY <1>0, <1>1, FullFacts
  <2> HIDE DEF x
  <2> QED
    BY <2>1, NewSlots
<1>3. j \in 0 .. Len(JumpDistances) /\ j # 0 /\ t # p /\ t # at /\ p # at
  BY <1>0, <1>1
<1>4. f \in Full /\ f.kind = s[p].kind /\ f.jump = j /\ f.item = s[p].item /\ f = [s[p] EXCEPT !.jump = j]
  <2>1. s[p] \in Full /\ s[p].item \in Item
    BY <1>0, <1>1, FullFacts
  <2> QED
    BY <1>3, <2>1, FullChanges
<1>5. HomeOf(s, at) = Home(s, x.key)
  BY DEF HomeOf
<1> HIDE DEF e, f, x
<1>6. /\ w[t] = e /\ w[p] = f /\ \A i \in DOMAIN s : i \notin {t, p, at} => w[i] = s[i]
  BY <1>4 DEF e, x
<1>7. Size(w) = Size(s) /\ (\A k : Home(w, k) = Home(s, k)) /\ Target(w, p, j) = t
  BY SameSize
<1>8. \A i \in Occupied(s) \ {at} : i \in DOMAIN s /\ i # t /\ s[i].item # NoItem
                                    /\ w[i].item = s[i].item /\ w[i].kind = s[i].kind
  BY <1>1, <1>4, <1>6, FullFacts
<1>9. Occupied(w) = (Occupied(s) \ {at}) \cup {t}
  <2>1. ASSUME NEW i \in Occupied(w), i # t PROVE i \in Occupied(s) \ {at}
    <3>1. i # at
      BY BlankFacts DEF Occupied
    <3> QED
      BY <2>1, <3>1, <1>0, <1>6 DEF Occupied
  <2>2. ASSUME NEW i \in Occupied(s) \ {at} PROVE i \in Occupied(w)
    BY <1>8 DEF Occupied
  <2>3. t \in Occupied(w)
    BY <1>2, <1>6 DEF Occupied
  <2> QED
    BY <2>1, <2>2, <2>3
<1>10. Typed(w)
  BY <1>1, <1>2, <1>4, <1>6, <1>7 DEF Typed
<1>11. \A i : i \in Jumps(w) <=> (i \in Jumps(s) /\ i # at) \/ i = p
  <2>1. p \in Jumps(w) /\ t \notin Jumps(w) /\ t \notin Jumps(s)
    BY <1>0, <1>2, <1>3, <1>4, <1>6, <1>9 DEF Jumps
  <2>2. at \notin Jumps(w)
    BY <1>3, <1>9 DEF Jumps
  <2>3. \A i : i \notin {t, p, at} => (i \in Jumps(w) <=> i \in Jumps(s))
    BY <1>1, <1>6, <1>9 DEF Jumps
  <2> QED
    BY <2>1, <2>2, <2>3
<1>12. \A i \in Jumps(s) \ {p, at} :
         Hop(w, i) = Hop(s, i) /\ Hop(s, i) # t /\ Hop(s, i) # at /\ i # t
  <2> SUFFICES ASSUME NEW i \in Jumps(s) \ {p, at}
               PROVE  Hop(w, i) = Hop(s, i) /\ Hop(s, i) # t /\ Hop(s, i) # at /\ i # t
    OBVIOUS
  <2>1. i \in Occupied(s) /\ Hop(s, i) \in Occupied(s) /\ Hop(s, i) # at
    BY <1>0, <1>1
  <2>2. w[i] = s[i] /\ i # t
    BY <1>1, <1>6, <2>1
  <2> QED
    BY <2>1, <2>2, SameElement
<1>13. Hop(w, p) = t
  BY <1>4, <1>6, <1>7 DEF Hop
<1>14. \A i \in Occupied(s) \ {at} : HomeOf(w, i) = HomeOf(s, i)
  BY <1>8, SameElement
<1>15. HomeOf(w, t) = HomeOf(s, at) /\ w[t].kind = "list"
  BY <1>2, <1>5, <1>6, <1>7 DEF HomeOf
<1>16. q \in [DOMAIN w -> Nat] /\ q[t] = r[at] /\ \A i \in Occupied(s) : q[i] = r[i]
  <2>1. r \in [DOMAIN s -> Nat]
    BY <1>0 DEF Chains, Linked
  <2>2. r[at] \in Nat /\ \A i \in Occupied(s) : i # t /\ i \in DOMAIN s
    BY <1>0, <1>1
  <2> QED
    BY <2>1, <2>2
<1> HIDE DEF q
<1>17. \A i \in Occupied(w) : w[i].kind = "direct" => HomeOf(w, i) = i
  BY <1>1, <1>8, <1>9, <1>14, <1>15
<1>18. ASSUME NEW i \in Jumps(w)
       PROVE  /\ Hop(w, i) \in Occupied(w) /\ w[Hop(w, i)].kind = "list"
              /\ HomeOf(w, Hop(w, i)) = HomeOf(w, i) /\ q[i] < q[Hop(w, i)]
  <2>1. CASE i = p
    BY <2>1, <1>0, <1>3, <1>9, <1>13, <1>14, <1>15, <1>16
  <2>2. CASE i # p
    <3>1. i \in Jumps(s) \ {p, at} /\ i \in Occupied(s) \ {at} /\ Hop(s, i) \in Occupied(s) \ {at}
      BY <2>2, <1>1, <1>11, <1>12
    <3> QED
      BY <3>1, <1>1, <1>8, <1>9, <1>12, <1>14, <1>16
  <2> QED
    BY <2>1, <2>2
<1>19. \A i, k \in Jumps(w) : Hop(w, i) = Hop(w, k) => i = k
  BY <1>1, <1>11, <1>12, <1>13
<1>20. ASSUME NEW i \in Occupied(w) \ loose, w[i].kind = "list"
       PROVE  \E m \in Jumps(w) : Hop(w, m) = i
  <2>1. CASE i = t
    BY <2>1, <1>11, <1>13
  <2>2. CASE i # t
    <3>1. i \in Occupied(s) \ {at} /\ s[i].kind = "list"
      BY <1>20, <2>2, <1>8, <1>9
    <3>2. PICK m \in Jumps(s) : Hop(s, m) = i
      BY <1>1, <3>1
    <3>3. m # p
      BY <1>0, <3>1, <3>2
    <3>4. m # at
      BY <1>20, <3>2 DEF Jumps
    <3> QED
      BY <3>2, <3>3, <3>4, <1>11, <1>12
  <2> QED
    BY <2>1, <2>2
<1>21. Chains(w, q, loose)
  <2> HIDE DEF loose
  <2> QED
    BY <1>10, <1>16, <1>17, <1>18, <1>19, <1>20 DEF Chains, Linked
<1>22. CASE s[at].jump = 0
  <2>1. Chains(w, q, {})
    BY <1>21, <1>22
  <2> QED
    BY <1>2, <1>6, <1>8, <1>9, <1>22, <2>1 DEF x
<1>23. CASE s[at].jump # 0
  <2>1. at \in Jumps(s)
    BY <1>0, <1>23 DEF Jumps
  <2>2. /\ n \in Occupied(s) /\ s[n].kind = "list" /\ HomeOf(s, n) = HomeOf(s, at)
        /\ r[at] < r[n] /\ n # at
    BY <1>1, <2>1
  <2>3. /\ n \in Occupied(w) /\ w[n].kind = "list" /\ HomeOf(w, t) = HomeOf(w, n) /\ q[t] < q[n]
        /\ n # t
    BY <2>2, <1>8, <1>9, <1>14, <1>15, <1>16
  <2>4. ASSUME NEW i \in Jumps(w) PROVE i = t <=> Hop(w, i) = n
    <3>1. i # t
      BY <1>1, <1>3, <1>11, <1>12
    <3>2. Hop(w, i) # n
      <4>1. CASE i = p
        BY <4>1, <1>13, <2>3
      <4>2. CASE i # p
        BY <4>2, <1>1, <1>11, <1>12, <2>1
      <4> QED
        BY <4>1, <4>2
    <3> QED
      BY <3>1, <3>2
  <2>5. Chains(w, q, {n})
    BY <1>21, <1>23
  <2> HIDE DEF n
  <2>6. Torn(w, q, t, n)
    BY <1>9, <2>3, <2>4, <2>5 DEF Torn
  <2> QED
    BY <1>2, <1>6, <1>8, <1>9, <1>23, <2>6 DEF x, n
<1> QED
  BY <1>22, <1>23


-----------------------------------------------------------------------------
(* The inductive invariant *)

Loose == IF move = NoMove THEN {} ELSE {move.at}

(* The array is in order with numbers r, and no chain is torn but the one  *)
(* that is being moved.  What is left of a range has its depths as numbers.*)
Numbered(r) ==
  /\ Chains(slots, r, Loose)
  /\ move # NoMove => Torn(slots, r, move.parent, move.at)
  /\ \A i \in DOMAIN doomed : r[i] = doomed[i]

(* The slots of an eviction: the block has been left by its element, or is *)
(* still to be left as the next one, and the one that waits belongs there. *)
Moving ==
  /\ todo # <<>>
  /\ move \in [block : DOMAIN slots, at : DOMAIN slots, parent : DOMAIN slots,
               jump : 0 .. Len(JumpDistances)]
  /\ move.block = Home(slots, Head(todo).key)
  /\ move.jump = FreeJump(slots, move.parent)
  /\ \A i \in DOMAIN slots : slots[i] = Reserved <=> (i = move.block /\ i # move.at)
  /\ \A i \in Occupied(slots) : slots[i].item.key # Head(todo).key

MoveInv ==
  IF move = NoMove THEN \A i \in DOMAIN slots : slots[i] # Reserved ELSE Moving

(* What waits is not in the array, except that emplace may be called with  *)
(* a key that is.                                                          *)
TodoInv ==
  /\ todo \in Seq(Item) /\ Distinct(todo)
  /\ Len(todo) = 1 \/ \A x \in Waits(todo) : \A i \in Occupied(slots) : slots[i].item.key # x.key

(* An iterator has seen what is above it, and there is none while elements *)
(* wait.                                                                   *)
CursorInv ==
  \/ cursor = NoCursor
  \/ /\ cursor \in [at : DOMAIN slots \cup {-1}, seen : SUBSET Key, valid : {TRUE}]
     /\ todo = <<>>
     /\ DOMAIN doomed = {} => cursor.at \in Occupied(slots) \cup {-1}
     /\ \A i \in Occupied(slots) : i > cursor.at => slots[i].item.key \in cursor.seen

(* What is left to erase is what is left of the range, below the iterator. *)
DoomInv ==
  /\ range \subseteq Key
  /\ DOMAIN doomed # {} =>
       /\ cursor # NoCursor
       /\ DOMAIN doomed \subseteq Occupied(slots)
       /\ \A i \in DOMAIN doomed : i <= cursor.at
       /\ \A i \in Occupied(slots) : slots[i].item.key \in range <=> i \in DOMAIN doomed

IInv ==
  /\ \E r : Numbered(r)
  /\ Apart(slots)
  /\ SizeCounts
  /\ maxLoad \in Loads
  /\ MoveInv
  /\ TodoInv
  /\ CursorInv
  /\ DoomInv

-----------------------------------------------------------------------------
(* Elements in the array and on their way into it *)

Inside(s) == {s[i].item : i \in Occupied(s)}

Coming == {x \in Waits(todo) : \A y \in Inside(slots) : y.key # x.key}

Items == Inside(slots) \cup Coming

(* An array with no chain torn, no slot reserved and no key twice *)
Whole(s) ==
  /\ \E r : Chains(s, r, {})
  /\ Apart(s)
  /\ \A i \in DOMAIN s : s[i] # Reserved

LEMMA WholeFacts ==
  ASSUME NEW s, Whole(s)
  PROVE  /\ Typed(s) /\ Apart(s)
         /\ \A k \in Key : Found(s, k) = {i \in Occupied(s) : s[i].item.key = k}
<1>1. PICK r : Chains(s, r, {})
  BY DEF Whole
<1>2. \A k \in Key : Found(s, k) = {i \in Occupied(s) : s[i].item.key = k}
  BY <1>1, Finds
<1> QED
  BY <1>1, <1>2 DEF Whole, Chains

LEMMA InsideFacts ==
  ASSUME NEW s, Typed(s)
  PROVE  Inside(s) \subseteq Item /\ \A i \in Occupied(s) : s[i].item \in Item /\ s[i].item.key \in Key
BY SlotFacts, FullFacts DEF Inside

(* An array without elements *)
LEMMA FreshWhole ==
  ASSUME NEW n \in Nat
  PROVE  Whole(Fresh(n)) /\ Occupied(Fresh(n)) = {} /\ Inside(Fresh(n)) = {} /\ Size(Fresh(n)) = n
<1> DEFINE f == Fresh(n)
<1>1. DOMAIN f = 0 .. n - 1 /\ \A i \in DOMAIN f : f[i] = Empty
  BY DEF Fresh
<1>2. Cardinality(0 .. n - 1) = n
  <2>1. 0 \in Int /\ n - 1 \in Int
    OBVIOUS
  <2>2. Cardinality(0 .. n - 1) = IF 0 > n - 1 THEN 0 ELSE (n - 1) - 0 + 1
    BY <2>1, FS_Interval
  <2> QED
    BY <2>2
<1> HIDE DEF f
<1>3. Size(f) = n
  BY <1>1, <1>2 DEF Size
<1>4. Typed(f)
  BY <1>1, <1>3 DEF Typed
<1>5. Occupied(f) = {}
  BY <1>1, BlankFacts DEF Occupied
<1>6. Jumps(f) = {}
  BY <1>5 DEF Jumps
<1> DEFINE r == [i \in DOMAIN f |-> 0]
<1>7. Linked(f, r, {})
  BY <1>5, <1>6 DEF Linked
<1>8. Chains(f, r, {})
  BY <1>4, <1>7 DEF Chains
<1> HIDE DEF r
<1>9. \A i \in DOMAIN f : f[i] # Reserved
  BY <1>1 DEF Empty, Reserved
<1>10. Whole(f) /\ Inside(f) = {}
  BY <1>5, <1>8, <1>9 DEF Whole, Apart, Inside
<1> QED
  BY <1>3, <1>5, <1>10 DEF f

(* One more element *)
Gains(s, w, t, x) ==
  /\ t \notin Occupied(s) /\ \A i \in Occupied(s) : s[i].item.key # x.key
  /\ Occupied(w) = Occupied(s) \cup {t} /\ w[t].item = x
  /\ \A i \in Occupied(s) : w[i].item = s[i].item

LEMMA Added ==
  ASSUME NEW s, Typed(s), Apart(s), NEW w, NEW t, NEW x, Gains(s, w, t, x)
  PROVE  /\ Apart(w) /\ Inside(w) = Inside(s) \cup {x}
         /\ Cardinality(Occupied(w)) = Cardinality(Occupied(s)) + 1
<1>1. Apart(w)
  BY DEF Apart, Gains
<1>2. Inside(w) = Inside(s) \cup {x}
  BY DEF Inside, Gains
<1>3. Cardinality(Occupied(w)) = Cardinality(Occupied(s)) + 1
  BY OccupiedFinite, FS_AddElement DEF Gains
<1> QED
  BY <1>1, <1>2, <1>3

(* An element in another slot *)
Shifts(s, w, at, t) ==
  /\ at \in Occupied(s) /\ t \notin Occupied(s)
  /\ Occupied(w) = (Occupied(s) \ {at}) \cup {t} /\ w[t].item = s[at].item
  /\ \A i \in Occupied(s) \ {at} : w[i].item = s[i].item

LEMMA Shifted ==
  ASSUME NEW s, Typed(s), Apart(s), NEW w, NEW at, NEW t, Shifts(s, w, at, t)
  PROVE  /\ Apart(w) /\ Inside(w) = Inside(s)
         /\ Cardinality(Occupied(w)) = Cardinality(Occupied(s))
<1>0. /\ at \in Occupied(s) /\ t \notin Occupied(s)
      /\ Occupied(w) = (Occupied(s) \ {at}) \cup {t} /\ w[t].item = s[at].item
      /\ \A i \in Occupied(s) \ {at} : w[i].item = s[i].item
  BY DEF Shifts
<1>1. Apart(w)
  BY <1>0 DEF Apart
<1>2. Inside(w) = Inside(s)
  BY <1>0 DEF Inside
<1>3. Cardinality(Occupied(w)) = Cardinality(Occupied(s))
  <2> DEFINE O == Occupied(s)
  <2>1. IsFiniteSet(O) /\ at \in O /\ t \notin O
    BY <1>0, OccupiedFinite
  <2> HIDE DEF O
  <2>2. IsFiniteSet(O \ {at}) /\ Cardinality(O \ {at}) = Cardinality(O) - 1 /\ Cardinality(O) \in Nat
    BY <2>1, FS_RemoveElement, FS_CardinalityType
  <2>3. Cardinality((O \ {at}) \cup {t}) = Cardinality(O \ {at}) + 1
    BY <2>1, <2>2, FS_AddElement
  <2> QED
    BY <1>0, <2>2, <2>3 DEF O
<1> QED
  BY <1>1, <1>2, <1>3

(* One element less *)
LEMMA Taken ==
  ASSUME NEW s, Typed(s), Apart(s), NEW r, NEW i \in Occupied(s), NEW l \in Occupied(s),
         NEW w, Takes(s, r, w, i, l)
  PROVE  /\ Apart(w) /\ Inside(w) = {x \in Inside(s) : x.key # s[i].item.key}
         /\ Cardinality(Occupied(w)) = Cardinality(Occupied(s)) - 1
<1>0. /\ Occupied(w) = Occupied(s) \ {l}
      /\ l # i => w[i].item = s[l].item
      /\ \A j \in Occupied(s) \ {i, l} : w[j].item = s[j].item
  BY DEF Takes
<1>1. Apart(w)
  BY <1>0 DEF Apart
<1>2. ASSUME NEW j \in Occupied(s), j # i
      PROVE  \E m \in Occupied(w) : w[m].item = s[j].item
  BY <1>0, <1>2
<1>3. ASSUME NEW m \in Occupied(w)
      PROVE  \E j \in Occupied(s) : j # i /\ w[m].item = s[j].item
  BY <1>0
<1>4. \A j \in Occupied(s) : s[j].item.key # s[i].item.key <=> j # i
  BY DEF Apart
<1>5. Inside(w) = {x \in Inside(s) : x.key # s[i].item.key}
  BY <1>2, <1>3, <1>4 DEF Inside
<1>6. Cardinality(Occupied(w)) = Cardinality(Occupied(s)) - 1
  BY <1>0, OccupiedFinite, FS_RemoveElement
<1> QED
  BY <1>1, <1>5, <1>6


-----------------------------------------------------------------------------
(* The invariant between calls and while elements wait *)

LEMMA OrderFacts ==
  ASSUME IInv
  PROVE  /\ Typed(slots) /\ Apart(slots) /\ numElements = Cardinality(Occupied(slots))
         /\ numElements \in Nat /\ maxLoad \in Loads
         /\ todo \in Seq(Item) /\ Distinct(todo) /\ range \subseteq Key
         /\ move = NoMove => Whole(slots)
<1>1. PICK r : Numbered(r)
  BY DEF IInv
<1>2. Typed(slots)
  BY <1>1 DEF Numbered, Chains
<1>3. Apart(slots) /\ numElements = Cardinality(Occupied(slots)) /\ maxLoad \in Loads
  BY DEF IInv, SizeCounts
<1>4. numElements \in Nat
  BY <1>2, <1>3, OccupiedFinite
<1>5. todo \in Seq(Item) /\ Distinct(todo) /\ range \subseteq Key
  BY DEF IInv, TodoInv, DoomInv
<1>6. ASSUME move = NoMove PROVE Whole(slots)
  <2>1. Chains(slots, r, {})
    BY <1>1, <1>6 DEF Numbered, Loose
  <2>2. \A i \in DOMAIN slots : slots[i] # Reserved
    BY <1>6 DEF IInv, MoveInv
  <2> QED
    BY <1>3, <2>1, <2>2 DEF Whole
<1> QED
  BY <1>2, <1>3, <1>4, <1>5, <1>6

LEMMA Settled ==
  ASSUME Whole(slots'), numElements' = Cardinality(Occupied(slots')), maxLoad' \in Loads,
         move' = NoMove, DOMAIN doomed' = {}, range' \subseteq Key, TodoInv', CursorInv'
  PROVE  IInv'
<1>1. PICK r : Chains(slots', r, {})
  BY DEF Whole
<1>2. Loose' = {}
  BY DEF Loose
<1>3. Numbered(r)'
  BY <1>1, <1>2 DEF Numbered
<1>4. MoveInv'
  BY DEF MoveInv, Whole
<1>5. Apart(slots')
  BY DEF Whole
<1> QED
  BY <1>3, <1>4, <1>5 DEF IInv, SizeCounts, DoomInv

LEMMA ItemsNow ==
  ASSUME todo = <<>>
  PROVE  Items = Inside(slots)
<1>1. Waits(todo) = {}
  BY DEF Waits
<1> QED
  BY <1>1 DEF Items, Coming

LEMMA ItemsThen ==
  ASSUME todo' = <<>>
  PROVE  Items' = Inside(slots')
<1>1. Waits(todo') = {}
  BY DEF Waits
<1> QED
  BY <1>1 DEF Items, Coming

LEMMA NoneWaits == Distinct(<<>>) /\ <<>> \in Seq(Item) /\ Waits(<<>>) = {}
BY DEF Distinct, Waits

LEMMA IdleFacts ==
  ASSUME IInv, Idle
  PROVE  /\ Whole(slots) /\ Typed(slots) /\ Apart(slots)
         /\ numElements = Cardinality(Occupied(slots)) /\ numElements \in Nat
         /\ maxLoad \in Loads /\ todo = <<>> /\ move = NoMove /\ DOMAIN doomed = {}
         /\ range \subseteq Key /\ Items = Inside(slots)
         /\ \A k \in Key : Found(slots, k) = {i \in Occupied(slots) : slots[i].item.key = k}
BY OrderFacts, ItemsNow, WholeFacts DEF Idle

(* A call that is done at once *)
LEMMA AtOnce ==
  ASSUME IInv, Idle, Whole(slots'), numElements' = Cardinality(Occupied(slots')),
         maxLoad' \in Loads, todo' = todo, move' = move, doomed' = doomed, range' = range,
         CursorInv'
  PROVE  IInv' /\ Items' = Inside(slots')
<1>1. todo = <<>> /\ move = NoMove /\ DOMAIN doomed = {} /\ range \subseteq Key
  BY IdleFacts
<1>2. TodoInv'
  <2>1. todo' = <<>>
    BY <1>1
  <2> QED
    BY <2>1, NoneWaits DEF TodoInv
<1>3. Items' = Inside(slots')
  BY <1>1, ItemsThen
<1> QED
  BY <1>1, <1>2, <1>3, Settled

LEMMA BusyFacts ==
  ASSUME IInv, todo # <<>>
  PROVE  /\ cursor = NoCursor /\ DOMAIN doomed = {} /\ range \subseteq Key
         /\ Head(todo) \in Item /\ Tail(todo) \in Seq(Item) /\ Distinct(Tail(todo))
         /\ Waits(todo) = {Head(todo)} \cup Waits(Tail(todo))
         /\ \A x \in Waits(Tail(todo)) :
              /\ x \in Item /\ x.key # Head(todo).key
              /\ \A y \in Inside(slots) : y.key # x.key
<1>1. cursor = NoCursor
  BY DEF IInv, CursorInv
<1>2. DOMAIN doomed = {} /\ range \subseteq Key
  BY <1>1 DEF IInv, DoomInv
<1>3. /\ todo \in Seq(Item) /\ Distinct(todo)
      /\ Len(todo) = 1 \/ \A x \in Waits(todo) : \A i \in Occupied(slots) : slots[i].item.key # x.key
  BY DEF IInv, TodoInv
<1>4. /\ Head(todo) \in Item /\ Tail(todo) \in Seq(Item) /\ Distinct(Tail(todo))
      /\ Waits(todo) = {Head(todo)} \cup Waits(Tail(todo))
      /\ \A x \in Waits(Tail(todo)) : x \in Item /\ x.key # Head(todo).key
      /\ Waits(Tail(todo)) # {} => Len(todo) # 1
  BY <1>3, HeadAndTail
<1>5. ASSUME NEW x \in Waits(Tail(todo)), NEW y \in Inside(slots) PROVE y.key # x.key
  <2>1. Len(todo) # 1
    BY <1>4
  <2>2. x \in Waits(todo)
    BY <1>4
  <2> QED
    BY <2>1, <2>2, <1>3 DEF Inside
<1> QED
  BY <1>1, <1>2, <1>4, <1>5

(* What a key's absence means *)
LEMMA AbsentFacts ==
  ASSUME IInv, todo # <<>>, move = NoMove
  PROVE  Absent <=> \A y \in Inside(slots) : y.key # Head(todo).key
<1>1. Head(todo) \in Item
  BY BusyFacts
<1>2. Head(todo).key \in Key
  BY <1>1, ItemFacts
<1>3. Whole(slots)
  BY OrderFacts
<1>4. Found(slots, Head(todo).key) = {i \in Occupied(slots) : slots[i].item.key = Head(todo).key}
  BY <1>2, <1>3, WholeFacts
<1> QED
  BY <1>4 DEF Absent, Inside

(* The first element that waits comes into the array. *)
LEMMA HeadComesIn ==
  ASSUME IInv, todo # <<>>, \A y \in Inside(slots) : y.key # Head(todo).key,
         Inside(slots') = Inside(slots) \cup {Head(todo)}, todo' = Tail(todo)
  PROVE  TodoInv' /\ Items' = Items
<1> DEFINE F == Tail(todo)
           x == Head(todo)
<1>1. /\ x \in Item /\ F \in Seq(Item) /\ Distinct(F) /\ Waits(todo) = {x} \cup Waits(F)
      /\ \A z \in Waits(F) : z.key # x.key /\ \A y \in Inside(slots) : y.key # z.key
  BY BusyFacts
<1>2. todo' = F
  OBVIOUS
<1> HIDE DEF F, x
<1>3. Inside(slots') = Inside(slots) \cup {x}
  BY DEF x
<1>4. \A z \in Waits(F) : \A y \in Inside(slots') : y.key # z.key
  BY <1>1, <1>3
<1>5. TodoInv'
  BY <1>1, <1>2, <1>4 DEF TodoInv, Inside
<1>6. Items = Inside(slots) \cup {x} \cup Waits(F)
  BY <1>1 DEF Items, Coming, x
<1>7. Items' = Inside(slots') \cup Waits(F)
  BY <1>2, <1>4 DEF Items, Coming
<1> QED
  BY <1>3, <1>5, <1>6, <1>7


-----------------------------------------------------------------------------
(* New arrays *)

(* Stored has each element once. *)
LEMMA StoredFacts ==
  ASSUME NEW s, Typed(s), Apart(s)
  PROVE  Stored(s) \in Seq(Item) /\ Distinct(Stored(s)) /\ Waits(Stored(s)) = Inside(s)
<1> DEFINE N == Cardinality(Occupied(s))
           at(n) == CHOOSE i \in Occupied(s) : Rank(s, i) = n
<1>1. /\ IsFiniteSet(Occupied(s)) /\ Occupied(s) \subseteq Nat
      /\ \A i \in Occupied(s) : s[i].item \in Item
  BY OccupiedFinite, InsideFacts
<1>2. /\ N \in Nat
      /\ \A i \in Occupied(s) : Rank(s, i) \in 1 .. N
      /\ \A i, k \in Occupied(s) : Rank(s, i) = Rank(s, k) => i = k
      /\ \A n \in 1 .. N : \E i \in Occupied(s) : Rank(s, i) = n
  BY <1>1, RankBijection DEF Rank
<1>3. \A n \in 1 .. N : at(n) \in Occupied(s) /\ Rank(s, at(n)) = n
  BY <1>2
<1>4. \A i \in Occupied(s) : at(Rank(s, i)) = i
  BY <1>2
<1>5. Stored(s) = [n \in 1 .. N |-> s[at(n)].item]
  BY DEF Stored
<1> HIDE DEF N, at
<1>6. DOMAIN Stored(s) = 1 .. N /\ \A n \in 1 .. N : Stored(s)[n] = s[at(n)].item
  BY <1>5
<1>7. Stored(s) \in Seq(Item)
  <2>1. \A n \in 1 .. N : s[at(n)].item \in Item
    BY <1>1, <1>3
  <2> QED
    BY <2>1, <1>2, <1>5
<1>8. Distinct(Stored(s))
  <2> SUFFICES ASSUME NEW m \in 1 .. N, NEW n \in 1 .. N,
                      Stored(s)[m].key = Stored(s)[n].key
               PROVE  m = n
    BY <1>6 DEF Distinct
  <2>1. s[at(m)].item.key = s[at(n)].item.key
    BY <1>6
  <2>2. at(m) = at(n)
    BY <2>1, <1>3 DEF Apart
  <2> QED
    BY <2>2, <1>3
<1>9. ASSUME NEW n \in DOMAIN Stored(s) PROVE Stored(s)[n] \in Inside(s)
  BY <1>3, <1>6 DEF Inside
<1>10. ASSUME NEW i \in Occupied(s) PROVE s[i].item \in Waits(Stored(s))
  <2>1. Rank(s, i) \in DOMAIN Stored(s) /\ Stored(s)[Rank(s, i)] = s[i].item
    BY <1>2, <1>4, <1>6
  <2> QED
    BY <2>1 DEF Waits
<1>11. Waits(Stored(s)) = Inside(s)
  BY <1>9, <1>10 DEF Waits, Inside
<1> QED
  BY <1>7, <1>8, <1>11

(* The other way round it has the same elements. *)
LEMMA ReversedFacts ==
  ASSUME NEW F \in Seq(Item), Distinct(F)
  PROVE  Reversed(F) \in Seq(Item) /\ Distinct(Reversed(F)) /\ Waits(Reversed(F)) = Waits(F)
<1> DEFINE N == Len(F)
<1>1. N \in Nat /\ DOMAIN F = 1 .. N /\ \A n \in 1 .. N : F[n] \in Item
  OBVIOUS
<1>2. Reversed(F) = [n \in 1 .. N |-> F[N + 1 - n]]
  BY <1>1 DEF Reversed
<1> HIDE DEF N
<1>3. \A n \in 1 .. N : (N + 1) - n \in 1 .. N /\ (N + 1) - ((N + 1) - n) = n /\ N + 1 - n = (N + 1) - n
  BY <1>1
<1>4. DOMAIN Reversed(F) = 1 .. N /\ \A n \in 1 .. N : Reversed(F)[n] = F[(N + 1) - n]
  BY <1>2, <1>3
<1>5. Reversed(F) \in Seq(Item)
  <2>1. \A n \in 1 .. N : F[N + 1 - n] \in Item
    BY <1>1, <1>3
  <2> QED
    BY <2>1, <1>1, <1>2
<1>6. Distinct(Reversed(F))
  <2> SUFFICES ASSUME NEW m \in 1 .. N, NEW n \in 1 .. N,
                      Reversed(F)[m].key = Reversed(F)[n].key
               PROVE  m = n
    BY <1>4 DEF Distinct
  <2>1. (N + 1) - m = (N + 1) - n
    BY <1>1, <1>3, <1>4 DEF Distinct
  <2> QED
    BY <2>1, <1>3
<1>7. ASSUME NEW n \in 1 .. N PROVE Reversed(F)[n] \in Waits(F) /\ F[n] \in Waits(Reversed(F))
  <2>1. (N + 1) - n \in 1 .. N /\ Reversed(F)[(N + 1) - n] = F[n]
    BY <1>3, <1>4
  <2> QED
    BY <2>1, <1>1, <1>4 DEF Waits
<1>8. Waits(Reversed(F)) = Waits(F)
  BY <1>1, <1>4, <1>7 DEF Waits
<1> QED
  BY <1>5, <1>6, <1>8

(* A new array begins empty, with everything still to come. *)
LEMMA StartsAnew ==
  ASSUME NEW n \in Nat, NEW F \in Seq(Item), Distinct(F), todo' = F,
         slots' = Fresh(n), numElements' = 0, maxLoad' \in Loads, move' = NoMove,
         DOMAIN doomed' = {}, range' \subseteq Key, cursor' = NoCursor
  PROVE  IInv' /\ Items' = Waits(F)
<1>1. Whole(slots') /\ Occupied(slots') = {} /\ Inside(slots') = {}
  BY FreshWhole
<1>2. numElements' = Cardinality(Occupied(slots'))
  BY <1>1, FS_EmptySet
<1>3. TodoInv'
  BY <1>1 DEF TodoInv
<1>4. CursorInv'
  BY DEF CursorInv
<1>5. IInv'
  BY <1>1, <1>2, <1>3, <1>4, Settled
<1>6. Items' = Waits(F)
  BY <1>1 DEF Items, Coming
<1> QED
  BY <1>5, <1>6

(* The elements of the array go before those that wait. *)
LEMMA StoredFirst ==
  ASSUME IInv, \A x \in Waits(todo), y \in Inside(slots) : y.key # x.key
  PROVE  /\ Stored(slots) \o todo \in Seq(Item) /\ Distinct(Stored(slots) \o todo)
         /\ Waits(Stored(slots) \o todo) = Items
<1> DEFINE F == Stored(slots)
<1>1. F \in Seq(Item) /\ Distinct(F) /\ Waits(F) = Inside(slots)
  BY OrderFacts, StoredFacts
<1>2. todo \in Seq(Item) /\ Distinct(todo)
  BY OrderFacts
<1> HIDE DEF F
<1>3. \A x \in Waits(F), y \in Waits(todo) : x.key # y.key
  BY <1>1
<1>4. F \o todo \in Seq(Item) /\ Distinct(F \o todo)
      /\ Waits(F \o todo) = Waits(F) \cup Waits(todo)
  BY <1>1, <1>2, <1>3, ConcatDistinct
<1>5. Items = Inside(slots) \cup Waits(todo)
  BY DEF Items, Coming
<1> QED
  BY <1>1, <1>4, <1>5 DEF F

-----------------------------------------------------------------------------
(* Sizes that calls ask for *)

(* Rounding up gives nothing only for nothing. *)
LEMMA CeilFacts ==
  ASSUME NEW n \in Nat, maxLoad \in Loads
  PROVE  CeilLoad(n) \in Nat /\ (CeilLoad(n) = 0 => n = 0)
<1> DEFINE a == maxLoad[1]
           b == maxLoad[2]
<1>1. a \in Nat \ {0} /\ b \in Nat \ {0}
  BY BytellAssumption DEF BytellAssumption
<1>2. CeilLoad(n) = (n * b + a - 1) \div a
  BY DEF CeilLoad
<1> HIDE DEF a, b
<1>3. n * b \in Nat
  BY <1>1
<1>4. (n * b + a - 1) \in Nat
  BY <1>1, <1>3
<1>5. (n * b + a - 1) \div a \in Nat
  BY <1>1, <1>4
<1>6. (n * b + a - 1) \div a = 0 => n = 0
  BY <1>1
<1> QED
  BY <1>2, <1>5, <1>6

LEMMA WantedFacts ==
  ASSUME numElements \in Nat, maxLoad \in Loads, NEW n \in Nat
  PROVE  Wanted(n) \in Nat /\ Wanted(n) >= n /\ (Wanted(n) = 0 => numElements = 0)
<1> DEFINE c == CeilLoad(numElements)
<1>1. c \in Nat /\ (c = 0 => numElements = 0)
  BY CeilFacts
<1>2. Wanted(n) = Max({n, c})
  BY DEF Wanted
<1> HIDE DEF c
<1>3. Max({n, c}) \in {n, c} /\ Max({n, c}) >= n /\ Max({n, c}) >= c
  <2>1. c \in Int /\ n \in Int
    BY <1>1
  <2> QED
    BY <2>1, MaxOfTwo
<1> QED
  BY <1>1, <1>2, <1>3

LEMMA SizeOverFacts ==
  ASSUME NEW n \in Nat, NEW m \in SizeOver(n)
  PROVE  m \in Nat /\ m >= n
BY BytellAssumption DEF BytellAssumption, SizeOver

(* grow always replaces the array: a size that is twice as large is never  *)
(* the size there is.                                                      *)
LEMMA GrowReplaces ==
  ASSUME Size(slots) \in Nat, numElements \in Nat, maxLoad \in Loads,
         RehashTo(Max({MinGrow, 2 * Size(slots)}))
  PROVE  /\ \E m \in Nat : slots' = Fresh(m)
         /\ numElements' = 0 /\ todo' = Stored(slots) \o todo
<1> DEFINE n == Size(slots)
           g == Max({MinGrow, 2 * n})
<1>1. MinGrow \in Nat \ {0} /\ n \in Nat
  BY BytellAssumption DEF BytellAssumption
<1>2. RehashTo(g)
  OBVIOUS
<1> HIDE DEF n
<1>3. g \in Nat /\ g >= 1 /\ g > n
  <2>1. MinGrow \in Int /\ 2 * n \in Int
    BY <1>1
  <2>2. g \in {MinGrow, 2 * n} /\ g >= 2 * n /\ g >= MinGrow
    BY <2>1, MaxOfTwo
  <2> HIDE DEF g
  <2> QED
    BY <1>1, <2>2
<1> HIDE DEF g
<1>4. Wanted(g) \in Nat /\ Wanted(g) >= g
  BY <1>3, WantedFacts
<1>5. Wanted(g) # 0
  BY <1>3, <1>4
<1>6. ASSUME NEW m \in SizeOver(Wanted(g)) PROVE m \in Nat /\ m # n
  <2>1. m \in Nat /\ m >= Wanted(g)
    BY <1>4, SizeOverFacts
  <2> QED
    BY <2>1, <1>1, <1>3, <1>4
<1> QED
  BY <1>2, <1>5, <1>6 DEF RehashTo, n

LEMMA NoRoomAbsent ==
  ASSUME IInv, NoRoom
  PROVE  todo # <<>> /\ \A x \in Waits(todo), y \in Inside(slots) : y.key # x.key
<1>1. ASSUME move # NoMove
      PROVE  todo # <<>> /\ \A y \in Inside(slots) : y.key # Head(todo).key
  BY <1>1 DEF IInv, MoveInv, Moving, Inside
<1>2. ASSUME Waiting, Absent
      PROVE  todo # <<>> /\ \A y \in Inside(slots) : y.key # Head(todo).key
  BY <1>2, AbsentFacts DEF Waiting
<1>3. todo # <<>> /\ \A y \in Inside(slots) : y.key # Head(todo).key
  BY <1>1, <1>2 DEF NoRoom
<1> QED
  BY <1>3, BusyFacts

(* Growing loses nothing, also in the middle of an eviction. *)
LEMMA GrowStep ==
  ASSUME IInv, Grow
  PROVE  IInv' /\ Items' = Items
<1>1. /\ todo # <<>> /\ \A x \in Waits(todo), y \in Inside(slots) : y.key # x.key
      /\ cursor = NoCursor /\ DOMAIN doomed = {} /\ range \subseteq Key
  BY NoRoomAbsent, BusyFacts DEF Grow
<1>2. numElements \in Nat /\ maxLoad \in Loads /\ Size(slots) \in Nat
  BY OrderFacts, SlotFacts
<1>3. PICK m \in Nat : slots' = Fresh(m) /\ numElements' = 0 /\ todo' = Stored(slots) \o todo
  BY <1>2, GrowReplaces DEF Grow
<1>4. /\ Stored(slots) \o todo \in Seq(Item) /\ Distinct(Stored(slots) \o todo)
      /\ Waits(Stored(slots) \o todo) = Items
  BY <1>1, StoredFirst
<1>5. /\ move' = NoMove /\ maxLoad' = maxLoad /\ doomed' = doomed /\ range' = range
      /\ cursor' = cursor
  BY DEF Grow, eraseVars
<1> DEFINE F == Stored(slots) \o todo
<1>6. F \in Seq(Item) /\ Distinct(F) /\ todo' = F /\ Waits(F) = Items
  BY <1>3, <1>4
<1> HIDE DEF F
<1>7. IInv' /\ Items' = Waits(F)
  BY <1>1, <1>2, <1>3, <1>5, <1>6, StartsAnew
<1> QED
  BY <1>6, <1>7


-----------------------------------------------------------------------------
(* Steps of an emplace *)

LEMMA CameIn ==
  ASSUME IInv, todo # <<>>, \A y \in Inside(slots) : y.key # Head(todo).key,
         Whole(slots'), Inside(slots') = Inside(slots) \cup {Head(todo)},
         Cardinality(Occupied(slots')) = Cardinality(Occupied(slots)) + 1,
         numElements' = numElements + 1, todo' = Tail(todo), move' = NoMove,
         maxLoad' = maxLoad, doomed' = doomed, range' = range, cursor' = cursor
  PROVE  IInv' /\ Items' = Items
<1>1. TodoInv' /\ Items' = Items
  BY HeadComesIn
<1>2. cursor = NoCursor /\ DOMAIN doomed = {} /\ range \subseteq Key
  BY BusyFacts
<1>3. numElements = Cardinality(Occupied(slots)) /\ maxLoad \in Loads
  BY OrderFacts
<1>4. CursorInv'
  BY <1>2 DEF CursorInv
<1> QED
  BY <1>1, <1>2, <1>3, <1>4, Settled

LEMMA PresentStep ==
  ASSUME IInv, Present
  PROVE  IInv' /\ Items' = Items
<1> DEFINE F == Tail(todo)
           x == Head(todo)
<1>1. /\ Waiting /\ ~Absent /\ todo' = F
      /\ slots' = slots /\ maxLoad' = maxLoad /\ numElements' = numElements /\ move' = move
      /\ doomed' = doomed /\ range' = range /\ cursor' = cursor
  BY DEF Present, eraseVars
<1>2. todo # <<>> /\ move = NoMove
  BY <1>1 DEF Waiting
<1>3. /\ cursor = NoCursor /\ DOMAIN doomed = {} /\ range \subseteq Key
      /\ F \in Seq(Item) /\ Distinct(F) /\ Waits(todo) = {x} \cup Waits(F)
      /\ \A z \in Waits(F) : \A y \in Inside(slots) : y.key # z.key
  BY <1>2, BusyFacts
<1>4. ~ \A y \in Inside(slots) : y.key # x.key
  BY <1>1, <1>2, AbsentFacts
<1> HIDE DEF F, x
<1>5. Whole(slots) /\ numElements = Cardinality(Occupied(slots)) /\ maxLoad \in Loads
  BY <1>2, OrderFacts
<1>6. TodoInv'
  BY <1>1, <1>3 DEF TodoInv, Inside
<1>7. CursorInv'
  BY <1>1, <1>3 DEF CursorInv
<1>8. IInv'
  BY <1>1, <1>2, <1>3, <1>5, <1>6, <1>7, Settled
<1>9. Items' = Inside(slots) \cup Waits(F)
  BY <1>1, <1>3 DEF Items, Coming
<1>10. Items = Inside(slots) \cup Waits(F)
  BY <1>3, <1>4 DEF Items, Coming
<1> QED
  BY <1>8, <1>9, <1>10

LEMMA HomeFacts ==
  ASSUME IInv, Waiting, Size(slots) # 0
  PROVE  /\ Head(todo) \in Item /\ Head(todo).key \in Key
         /\ Home(slots, Head(todo).key) \in DOMAIN slots
         /\ todo # <<>> /\ move = NoMove /\ Whole(slots)
<1>1. todo # <<>> /\ move = NoMove
  BY DEF Waiting
<1>2. Head(todo) \in Item /\ Head(todo).key \in Key
  BY <1>1, BusyFacts, ItemFacts
<1> QED
  BY <1>1, <1>2, OrderFacts, HomeType

LEMMA DirectHitStep ==
  ASSUME IInv, DirectHit
  PROVE  IInv' /\ Items' = Items
<1> DEFINE s == slots
           x == Head(todo)
           h == Home(s, x.key)
           w == [s EXCEPT ![h] = Direct(x)]
<1>1. /\ Waiting /\ Size(s) # 0 /\ s[h].kind = "empty" /\ slots' = w
      /\ numElements' = numElements + 1 /\ todo' = Tail(todo) /\ maxLoad' = maxLoad
      /\ move' = move /\ doomed' = doomed /\ range' = range /\ cursor' = cursor
  BY DEF DirectHit, HomeIs, eraseVars
<1>2. x \in Item /\ x.key \in Key /\ h \in DOMAIN s /\ todo # <<>> /\ move = NoMove /\ Whole(s)
  BY <1>1, HomeFacts
<1>3. PICK r : Chains(s, r, {})
  BY <1>2 DEF Whole
<1>4. DOMAIN w = DOMAIN s /\ w[h] = Direct(x) /\ \A j \in DOMAIN s \ {h} : w[j] = s[j]
  BY <1>2
<1>5. Home(s, x.key) = h
  OBVIOUS
<1> HIDE DEF w, h, x
<1>6. Typed(s) /\ Apart(s) /\ \A j \in DOMAIN s : s[j] # Reserved
  BY <1>2, <1>3 DEF Whole, Chains
<1>7. h \in DOMAIN s \ Occupied(s)
  BY <1>1, <1>2, <1>6, SlotFacts, FullFacts
<1>8. \A i \in Occupied(s) : s[i].item.key # x.key
  BY <1>1, <1>2, <1>3, <1>5, NoneFrom
<1>9. Chains(w, r, {}) /\ Occupied(w) = Occupied(s) \cup {h}
  BY <1>2, <1>3, <1>4, <1>5, <1>7, DirectLinked
<1>10. w[h].item = x /\ w[h] # Reserved
  <2>1. Direct(x) \in Full /\ Direct(x).item = x
    BY <1>2, NewSlots
  <2> QED
    BY <2>1, <1>4, BlankFacts
<1>11. \A i \in Occupied(s) : w[i].item = s[i].item
  BY <1>4, <1>6, <1>7, SlotFacts
<1>12. /\ Apart(w) /\ Inside(w) = Inside(s) \cup {x}
       /\ Cardinality(Occupied(w)) = Cardinality(Occupied(s)) + 1
  <2>1. Gains(s, w, h, x)
    BY <1>7, <1>8, <1>9, <1>10, <1>11 DEF Gains
  <2> QED
    BY <2>1, <1>6, Added
<1>13. Whole(w)
  BY <1>4, <1>6, <1>9, <1>10, <1>12 DEF Whole
<1>14. \A y \in Inside(s) : y.key # x.key
  BY <1>8 DEF Inside
<1> QED
  BY <1>1, <1>2, <1>12, <1>13, <1>14, CameIn DEF x


(* The home of the first element, if another element is in it *)
LEMMA HomeTaken ==
  ASSUME IInv, Waiting, Size(slots) # 0, NEW h, h = Home(slots, Head(todo).key),
         slots[h].kind \in {"direct", "list"}
  PROVE  h \in Occupied(slots)
<1>1. h \in DOMAIN slots /\ Typed(slots)
  BY HomeFacts, OrderFacts
<1> QED
  BY <1>1, SlotFacts, BlankFacts

LEMMA NewKeyStep ==
  ASSUME IInv, NewKey
  PROVE  IInv' /\ Items' = Items
<1> DEFINE s == slots
           x == Head(todo)
           h == Home(s, x.key)
           l == Last(s, h)
           j == FreeJump(s, l)
           t == Target(s, l, j)
           w == [s EXCEPT ![t] = Entry(x), ![l].jump = j]
<1>1. /\ Waiting /\ Absent /\ Size(s) # 0 /\ s[h].kind = "direct" /\ slots' = w /\ j # 0
      /\ numElements' = numElements + 1 /\ todo' = Tail(todo) /\ maxLoad' = maxLoad
      /\ move' = move /\ doomed' = doomed /\ range' = range /\ cursor' = cursor
  BY DEF NewKey, HomeIs, eraseVars
<1>2. /\ x \in Item /\ x.key \in Key /\ h \in DOMAIN s /\ todo # <<>> /\ move = NoMove
      /\ Whole(s) /\ h \in Occupied(s)
  BY <1>1, HomeFacts, HomeTaken
<1>3. PICK r : Chains(s, r, {})
  BY <1>2 DEF Whole
<1>4. Typed(s) /\ Apart(s) /\ \A i \in DOMAIN s : s[i] # Reserved
  BY <1>2, <1>3 DEF Whole, Chains
<1>5. HomeOf(s, h) = h /\ Home(s, x.key) = h
  BY <1>1, <1>2, <1>3, LinkedFacts
<1> HIDE DEF h
<1>6. l \in Occupied(s) /\ l \in DOMAIN s /\ s[l].jump = 0 /\ HomeOf(s, l) = h
  BY <1>2, <1>3, <1>4, <1>5, LastFacts, SlotFacts
<1> HIDE DEF l
<1>7. j \in 1 .. Len(JumpDistances) /\ t \in DOMAIN s /\ s[t] = Empty
  <2>1. j \in 0 .. Len(JumpDistances) /\ t \in DOMAIN s /\ s[t] = Empty
    BY <1>1, <1>4, <1>6, FreeJumpFacts
  <2> HIDE DEF j
  <2>2. Len(JumpDistances) \in Nat
    BY BytellAssumption DEF BytellAssumption
  <2> QED
    BY <2>1, <2>2, <1>1
<1>8. t = Target(s, l, j)
  OBVIOUS
<1> HIDE DEF j
<1>9. t \in DOMAIN s \ Occupied(s) /\ t # l
  BY <1>6, <1>7, BlankFacts DEF Occupied
<1> HIDE DEF t
<1>10. /\ DOMAIN w = DOMAIN s /\ w[t] = Entry(x) /\ w[l] = [s[l] EXCEPT !.jump = j]
       /\ \A i \in DOMAIN s \ {t, l} : w[i] = s[i]
  BY <1>6, <1>9
<1> HIDE DEF w, x
<1>11. /\ \E q : Chains(w, q, {})
       /\ Occupied(w) = Occupied(s) \cup {t} /\ w[t].item = x
       /\ \A i \in Occupied(s) : w[i].item = s[i].item
       /\ DOMAIN w = DOMAIN s /\ \A i \in DOMAIN s : s[i] # Reserved => w[i] # Reserved
  BY <1>2, <1>3, <1>5, <1>6, <1>7, <1>8, <1>9, <1>10, EntryLinked
<1>12. \A y \in Inside(s) : y.key # x.key
  BY <1>1, <1>2, AbsentFacts DEF x
<1>13. /\ Apart(w) /\ Inside(w) = Inside(s) \cup {x}
       /\ Cardinality(Occupied(w)) = Cardinality(Occupied(s)) + 1
  <2>1. Gains(s, w, t, x)
    BY <1>9, <1>11, <1>12 DEF Gains, Inside
  <2> QED
    BY <2>1, <1>4, Added
<1>14. Whole(w)
  BY <1>4, <1>11, <1>13 DEF Whole
<1> QED
  BY <1>1, <1>2, <1>12, <1>13, <1>14, CameIn DEF x

(* The slot of the chain that is evicted from its own end on is only left  *)
(* by the first step of the loop.                                          *)
LEMMA EvictStep ==
  ASSUME IInv, Evict
  PROVE  IInv' /\ Items' = Items
<1> DEFINE s == slots
           x == Head(todo)
           h == Home(s, x.key)
           p == Parent(s, h)
           j == FreeJump(s, p)
<1>1. /\ Waiting /\ Size(s) # 0 /\ s[h].kind = "list" /\ j # 0
      /\ move' = [block |-> h, at |-> h, parent |-> p, jump |-> j]
      /\ slots' = s /\ numElements' = numElements /\ todo' = todo /\ maxLoad' = maxLoad
      /\ doomed' = doomed /\ range' = range /\ cursor' = cursor
  BY DEF Evict, HomeIs, tableVars, eraseVars
<1>2. /\ x \in Item /\ x.key \in Key /\ h \in DOMAIN s /\ todo # <<>> /\ move = NoMove
      /\ Whole(s) /\ h \in Occupied(s)
  BY <1>1, HomeFacts, HomeTaken
<1>3. PICK r : Chains(s, r, {})
  BY <1>2 DEF Whole
<1>4. Typed(s) /\ Apart(s) /\ \A i \in DOMAIN s : s[i] # Reserved
  BY <1>2, <1>3 DEF Whole, Chains
<1>5. Home(s, x.key) = h
  OBVIOUS
<1> HIDE DEF h
<1>6. p \in Jumps(s) /\ Hop(s, p) = h
  BY <1>1, <1>2, <1>3, ParentFacts
<1> HIDE DEF p
<1>7. /\ p \in Occupied(s) /\ p \in DOMAIN s /\ HomeOf(s, h) = HomeOf(s, p) /\ r[p] < r[h]
      /\ \A i \in Jumps(s) : i = p <=> Hop(s, i) = h
  BY <1>3, <1>4, <1>6, LinkedFacts, SlotFacts
<1>8. j \in 0 .. Len(JumpDistances)
  BY <1>4, <1>7, FreeJumpFacts
<1>9. Chains(s, r, {h})
  BY <1>3 DEF Chains, Linked
<1>10. Torn(s, r, p, h)
  BY <1>1, <1>2, <1>7, <1>9 DEF Torn
<1>11. \A i \in Occupied(s) : s[i].item.key # x.key
  BY <1>1, <1>2, <1>3, <1>5, NoneFrom
<1>12. move'.block = h /\ move'.at = h /\ move'.parent = p /\ move'.jump = j
  BY <1>1
<1>13. move' # NoMove /\ h # -1
  <2>1. h \in Nat
    BY <1>2, <1>4, SlotFacts
  <2> QED
    BY <2>1, <1>12 DEF NoMove
<1>14. Loose' = {h}
  BY <1>12, <1>13 DEF Loose
<1>15. cursor = NoCursor /\ DOMAIN doomed = {} /\ range \subseteq Key
  BY <1>2, BusyFacts
<1>16. Numbered(r)'
  BY <1>1, <1>9, <1>10, <1>12, <1>14, <1>15 DEF Numbered
<1>17. MoveInv'
  <2>1. move' \in [block : DOMAIN s, at : DOMAIN s, parent : DOMAIN s, jump : 0 .. Len(JumpDistances)]
    BY <1>1, <1>2, <1>7, <1>8
  <2>2. todo' = todo /\ slots' = s
    BY <1>1
  <2>3. h = Home(s, Head(todo).key) /\ \A i \in Occupied(s) : s[i].item.key # Head(todo).key
    BY <1>5, <1>11
  <2>4. move'.jump = FreeJump(s, move'.parent)
    BY <1>12
  <2>5. \A i \in DOMAIN s : s[i] = Reserved <=> (i = move'.block /\ i # move'.at)
    BY <1>4, <1>12
  <2> HIDE DEF s, x
  <2>6. Moving'
    BY <2>1, <2>2, <2>3, <2>4, <2>5, <1>2, <1>12 DEF Moving
  <2> QED
    BY <2>6, <1>13 DEF MoveInv
<1>18. CursorInv' /\ DoomInv'
  BY <1>1, <1>15 DEF CursorInv, DoomInv
<1>19. TodoInv' /\ SizeCounts' /\ maxLoad' \in Loads /\ Apart(slots')
  BY <1>1, <1>4 DEF IInv, TodoInv, SizeCounts
<1>20. IInv'
  BY <1>16, <1>17, <1>18, <1>19 DEF IInv
<1>21. Items' = Items
  BY <1>1 DEF Items, Coming
<1> QED
  BY <1>20, <1>21


(* What is known while a chain is moved *)
LEMMA MovingFacts ==
  ASSUME IInv, move # NoMove
  PROVE  /\ todo # <<>> /\ Head(todo) \in Item
         /\ move \in [block : DOMAIN slots, at : DOMAIN slots, parent : DOMAIN slots,
                      jump : 0 .. Len(JumpDistances)]
         /\ move.block = Home(slots, Head(todo).key)
         /\ move.jump = FreeJump(slots, move.parent)
         /\ \A i \in DOMAIN slots : slots[i] = Reserved <=> (i = move.block /\ i # move.at)
         /\ \A i \in Occupied(slots) : slots[i].item.key # Head(todo).key
         /\ \E r : Torn(slots, r, move.parent, move.at)
BY BusyFacts DEF IInv, MoveInv, Moving, Numbered

(* The array after an element has moved and its slot has been emptied *)
LeftBehind == [Copied EXCEPT ![move.at] = Empty]

LEMMA LeftFacts ==
  ASSUME IInv, move # NoMove, move.jump # 0
  PROVE  /\ DOMAIN LeftBehind = DOMAIN slots /\ Moved \in DOMAIN slots
         /\ slots[move.at].jump = 0 => \E q : Chains(LeftBehind, q, {})
         /\ slots[move.at].jump # 0 => \E q : Torn(LeftBehind, q, Moved, Hop(slots, move.at))
         /\ Apart(LeftBehind) /\ Inside(LeftBehind) = Inside(slots)
         /\ Cardinality(Occupied(LeftBehind)) = Cardinality(Occupied(slots))
         /\ move.block \in DOMAIN slots \ Occupied(LeftBehind)
         /\ \A i \in DOMAIN slots \ {move.block} : LeftBehind[i] # Reserved
<1> DEFINE s == slots
           at == move.at
           p == move.parent
           j == move.jump
           b == move.block
           t == Moved
           w == LeftBehind
<1>1. /\ b \in DOMAIN s /\ at \in DOMAIN s /\ p \in DOMAIN s /\ j \in 0 .. Len(JumpDistances)
      /\ j = FreeJump(s, p) /\ \A i \in DOMAIN s : s[i] = Reserved <=> (i = b /\ i # at)
      /\ j # 0
  BY MovingFacts
<1>2. PICK r : Torn(s, r, p, at)
  BY MovingFacts
<1>3. Typed(s) /\ Apart(s)
  BY OrderFacts
<1>4. /\ p \in Occupied(s) /\ at \in Occupied(s) /\ r[p] < r[at] /\ Chains(s, r, {at})
  BY <1>2 DEF Torn
<1>5. p # at /\ s[p] \in Full /\ s[at] \in Full /\ r[p] \in Nat
  BY <1>3, <1>4, LinkedFacts
<1>6. t = Target(s, p, j)
  BY DEF Moved
<1>7. t \in DOMAIN s /\ s[t] = Empty
  BY <1>1, <1>3, <1>6, FreeJumpFacts
<1>8. t \in DOMAIN s \ Occupied(s) /\ t # p /\ t # at
  BY <1>4, <1>7, BlankFacts DEF Occupied
<1>9. w = [[[s EXCEPT ![t] = Entry(s[at].item)] EXCEPT ![p].jump = j] EXCEPT ![at] = Empty]
  BY DEF LeftBehind, Copied
<1> HIDE DEF t, w
<1>10. /\ DOMAIN w = DOMAIN s /\ w[t] = Entry(s[at].item) /\ w[p] = [s[p] EXCEPT !.jump = j]
       /\ w[at] = Empty /\ \A i \in DOMAIN s \ {t, p, at} : w[i] = s[i]
  BY <1>1, <1>5, <1>8, <1>9
<1> HIDE DEF s, at, p, j, b
<1>11. j \in 1 .. Len(JumpDistances)
  <2>1. Len(JumpDistances) \in Nat
    BY BytellAssumption DEF BytellAssumption
  <2> QED
    BY <2>1, <1>1
<1>12. /\ s[at].jump = 0 => \E q : Chains(w, q, {})
       /\ s[at].jump # 0 => \E q : Torn(w, q, t, Hop(s, at))
       /\ Occupied(w) = (Occupied(s) \ {at}) \cup {t} /\ w[t].item = s[at].item
       /\ \A i \in Occupied(s) \ {at} : w[i].item = s[i].item
  BY <1>2, <1>6, <1>8, <1>10, <1>11, MovedLinked
<1>13. /\ Apart(w) /\ Inside(w) = Inside(s)
       /\ Cardinality(Occupied(w)) = Cardinality(Occupied(s))
  <2>1. Shifts(s, w, at, t)
    BY <1>4, <1>8, <1>12 DEF Shifts
  <2> QED
    BY <2>1, <1>3, Shifted
<1>14. b \notin Occupied(w)
  <2>1. CASE b = at
    BY <2>1, <1>8, <1>12
  <2>2. CASE b # at
    <3>1. s[b] = Reserved
      BY <2>2, <1>1
    <3>2. b \notin Occupied(s) /\ b # t
      BY <3>1, <1>7, BlankFacts DEF Occupied, Empty, Reserved
    <3> QED
      BY <3>2, <1>12
  <2> QED
    BY <2>1, <2>2
<1>15. ASSUME NEW i \in DOMAIN s, i # b PROVE w[i] # Reserved
  <2>1. s[i] # Reserved
    BY <1>1, <1>15
  <2>2. CASE i = t
    <3>1. s[at].item \in Item
      BY <1>5, FullFacts
    <3>2. w[t] \in Full
      BY <3>1, <1>10, NewSlots
    <3> QED
      BY <2>2, <3>2, BlankFacts
  <2>3. CASE i = p
    <3>1. w[p] = [kind |-> s[p].kind, jump |-> j, item |-> s[p].item]
      BY <1>1, <1>5, <1>10, FullChanges, FullFacts
    <3>2. s[p].kind # "reserved"
      BY <1>5, FullFacts
    <3> QED
      BY <2>3, <3>1, <3>2 DEF Reserved
  <2>4. CASE i = at
    BY <2>4, <1>10 DEF Empty, Reserved
  <2>5. CASE i \notin {t, p, at}
    BY <2>1, <2>5, <1>10
  <2> QED
    BY <2>2, <2>3, <2>4, <2>5
<1> QED
  BY <1>1, <1>7, <1>10, <1>12, <1>13, <1>14, <1>15 DEF s, at, b, t, w

(* The block is reserved, or is so already, and the next element of the    *)
(* chain has to find a place behind the one that has moved.                *)
LEMMA MoveOneStep ==
  ASSUME IInv, MoveOne
  PROVE  IInv' /\ Items' = Items
<1> DEFINE s == slots
           at == move.at
           b == move.block
           t == Moved
           u == LeftBehind
           w == [u EXCEPT ![b] = Reserved]
           m == Hop(s, at)
           k == FreeJump(slots', t)
<1>1. /\ move # NoMove /\ move.jump # 0 /\ s[at].jump # 0
      /\ slots' = [Copied EXCEPT ![move.at] = Empty, ![move.block] = Reserved]
      /\ move' = [move EXCEPT !.at = Target(slots, move.at, slots[move.at].jump),
                              !.parent = Moved, !.jump = FreeJump(slots', Moved)]
      /\ numElements' = numElements /\ maxLoad' = maxLoad /\ todo' = todo
      /\ doomed' = doomed /\ range' = range /\ cursor' = cursor
  BY DEF MoveOne, eraseVars
<1>2. /\ todo # <<>> /\ Head(todo) \in Item
      /\ move \in [block : DOMAIN s, at : DOMAIN s, parent : DOMAIN s, jump : 0 .. Len(JumpDistances)]
      /\ b = Home(s, Head(todo).key)
      /\ \A i \in Occupied(s) : s[i].item.key # Head(todo).key
  BY <1>1, MovingFacts
<1>3. /\ DOMAIN u = DOMAIN s /\ t \in DOMAIN s
      /\ Apart(u) /\ Inside(u) = Inside(s)
      /\ Cardinality(Occupied(u)) = Cardinality(Occupied(s))
      /\ b \in DOMAIN s \ Occupied(u)
      /\ \A i \in DOMAIN s \ {b} : u[i] # Reserved
  BY <1>1, LeftFacts
<1>4. PICK q : Torn(u, q, t, m)
  BY <1>1, LeftFacts
<1>5. slots' = w
  BY <1>1 DEF LeftBehind
<1>6. move' = [block |-> b, at |-> m, parent |-> t, jump |-> k]
  BY <1>1, <1>2 DEF Hop
<1>7. numElements = Cardinality(Occupied(s)) /\ maxLoad \in Loads
  BY OrderFacts
<1> HIDE DEF u, t, m, k
<1>8. DOMAIN w = DOMAIN u /\ w[b] = Reserved /\ \A i \in DOMAIN u \ {b} : w[i] = u[i]
  BY <1>3
<1> HIDE DEF w
<1>9. Chains(u, q, {m}) /\ t \in Occupied(u) /\ m \in Occupied(u)
  BY <1>4 DEF Torn
<1>10. /\ Chains(w, q, {m}) /\ Occupied(w) = Occupied(u) /\ Jumps(w) = Jumps(u)
       /\ \A i \in Jumps(u) : Hop(w, i) = Hop(u, i)
  BY <1>3, <1>8, <1>9, BlankLinked
<1>11. \A i \in Occupied(u) : w[i] = u[i] /\ i # b /\ i \in DOMAIN u
  BY <1>3, <1>8 DEF Occupied
<1>12. Torn(w, q, t, m)
  <2>1. HomeOf(w, t) = HomeOf(u, t) /\ HomeOf(w, m) = HomeOf(u, m)
    BY <1>8, <1>9, <1>11, SameElement
  <2>2. w[m].kind = u[m].kind
    BY <1>9, <1>11
  <2> QED
    BY <2>1, <2>2, <1>4, <1>9, <1>10 DEF Torn
<1>13. /\ Apart(w) /\ Inside(w) = Inside(u)
       /\ Cardinality(Occupied(w)) = Cardinality(Occupied(u))
  BY <1>3, <1>10, <1>11 DEF Apart, Inside
<1>14. Typed(w) /\ t \in DOMAIN w /\ m \in DOMAIN w /\ b \in DOMAIN w /\ DOMAIN w = DOMAIN s
  BY <1>3, <1>8, <1>9, <1>10, <1>11 DEF Chains
<1>15. k \in 0 .. Len(JumpDistances) /\ k = FreeJump(w, t)
  BY <1>5, <1>14, FreeJumpFacts DEF k
<1>16. move'.block = b /\ move'.at = m /\ move'.parent = t /\ move'.jump = k
  BY <1>6
<1>17. move' # NoMove
  <2>1. m \in Nat
    BY <1>14, SlotFacts
  <2> QED
    BY <2>1, <1>16 DEF NoMove
<1>18. Loose' = {m}
  BY <1>16, <1>17 DEF Loose
<1>19. cursor = NoCursor /\ DOMAIN doomed = {} /\ range \subseteq Key
  BY <1>2, BusyFacts
<1>20. Numbered(q)'
  BY <1>1, <1>5, <1>10, <1>12, <1>16, <1>18, <1>19 DEF Numbered
<1>21. Home(w, Head(todo).key) = b
  BY <1>2, <1>14, SameSize
<1>22. \A i \in DOMAIN w : w[i] = Reserved <=> (i = b /\ i # m)
  BY <1>3, <1>8, <1>9, <1>11
<1>23. \A y \in Inside(w) : y.key # Head(todo).key
  BY <1>2, <1>3, <1>13 DEF Inside
<1>24. MoveInv'
  <2>1. move' \in [block : DOMAIN w, at : DOMAIN w, parent : DOMAIN w, jump : 0 .. Len(JumpDistances)]
    BY <1>6, <1>14, <1>15
  <2>2. todo' = todo /\ slots' = w
    BY <1>1, <1>5
  <2> HIDE DEF b, s
  <2>3. Moving'
    BY <2>1, <2>2, <1>2, <1>15, <1>16, <1>21, <1>22, <1>23 DEF Moving, Inside
  <2> QED
    BY <2>3, <1>17 DEF MoveInv
<1>25. CursorInv' /\ DoomInv'
  BY <1>1, <1>19 DEF CursorInv, DoomInv
<1>26. Inside(slots') = Inside(slots)
  BY <1>3, <1>5, <1>13
<1>27. TodoInv' /\ Items' = Items
  <2>1. /\ todo \in Seq(Item) /\ Distinct(todo)
        /\ Len(todo) = 1 \/ \A x \in Waits(todo) : \A y \in Inside(slots) : y.key # x.key
    BY DEF IInv, TodoInv, Inside
  <2>2. /\ todo' \in Seq(Item) /\ Distinct(todo')
        /\ Len(todo') = 1 \/ \A x \in Waits(todo') : \A y \in Inside(slots') : y.key # x.key
    BY <2>1, <1>1, <1>26
  <2>3. TodoInv'
    BY <2>2 DEF TodoInv, Inside
  <2>4. Items' = Items
    BY <1>1, <1>26 DEF Items, Coming
  <2> QED
    BY <2>3, <2>4
<1>28. SizeCounts' /\ maxLoad' \in Loads /\ Apart(slots')
  BY <1>1, <1>3, <1>5, <1>7, <1>13 DEF SizeCounts
<1>29. IInv'
  BY <1>20, <1>24, <1>25, <1>27, <1>28 DEF IInv
<1> QED
  BY <1>27, <1>29

(* The last element of the chain has moved: the block is free for the one  *)
(* that belongs there.                                                     *)
LEMMA MoveLastStep ==
  ASSUME IInv, MoveLast
  PROVE  IInv' /\ Items' = Items
<1> DEFINE s == slots
           b == move.block
           u == LeftBehind
           x == Head(todo)
           w == [u EXCEPT ![b] = Direct(x)]
<1>1. /\ move # NoMove /\ move.jump # 0 /\ s[move.at].jump = 0
      /\ slots' = [Copied EXCEPT ![move.at] = Empty, ![move.block] = Direct(Head(todo))]
      /\ numElements' = numElements + 1 /\ todo' = Tail(todo) /\ move' = NoMove
      /\ maxLoad' = maxLoad /\ doomed' = doomed /\ range' = range /\ cursor' = cursor
  BY DEF MoveLast, eraseVars
<1>2. /\ todo # <<>> /\ x \in Item /\ b = Home(s, x.key)
      /\ \A i \in Occupied(s) : s[i].item.key # x.key
  BY <1>1, MovingFacts
<1>3. /\ DOMAIN u = DOMAIN s /\ Apart(u) /\ Inside(u) = Inside(s)
      /\ Cardinality(Occupied(u)) = Cardinality(Occupied(s))
      /\ b \in DOMAIN s \ Occupied(u)
      /\ \A i \in DOMAIN s \ {b} : u[i] # Reserved
  BY <1>1, LeftFacts
<1>4. PICK q : Chains(u, q, {})
  BY <1>1, LeftFacts
<1>5. slots' = w
  BY <1>1 DEF LeftBehind
<1> HIDE DEF u, x
<1>6. DOMAIN w = DOMAIN u /\ w[b] = Direct(x) /\ \A i \in DOMAIN u \ {b} : w[i] = u[i]
  BY <1>3
<1> HIDE DEF w
<1>7. Typed(u)
  BY <1>4 DEF Chains
<1>8. Home(u, x.key) = b /\ b \in DOMAIN u \ Occupied(u)
  BY <1>2, <1>3, SameSize
<1>9. Chains(w, q, {}) /\ Occupied(w) = Occupied(u) \cup {b}
  BY <1>2, <1>4, <1>6, <1>8, DirectLinked
<1>10. w[b].item = x /\ w[b] # Reserved
  <2>1. Direct(x) \in Full /\ Direct(x).item = x
    BY <1>2, NewSlots
  <2> QED
    BY <2>1, <1>6, BlankFacts
<1>11. \A y \in Inside(s) : y.key # x.key
  BY <1>2 DEF Inside
<1>12. /\ Apart(w) /\ Inside(w) = Inside(u) \cup {x}
       /\ Cardinality(Occupied(w)) = Cardinality(Occupied(u)) + 1
  <2>1. \A i \in Occupied(u) : u[i].item.key # x.key
    BY <1>3, <1>11 DEF Inside
  <2>2. \A i \in Occupied(u) : w[i].item = u[i].item
    BY <1>6, <1>7, <1>8, SlotFacts
  <2>3. Gains(u, w, b, x)
    BY <2>1, <2>2, <1>8, <1>9, <1>10 DEF Gains
  <2> QED
    BY <2>3, <1>3, <1>7, Added
<1>13. Whole(w)
  BY <1>3, <1>6, <1>9, <1>10, <1>12 DEF Whole
<1> QED
  BY <1>1, <1>2, <1>3, <1>5, <1>11, <1>12, <1>13, CameIn DEF x


-----------------------------------------------------------------------------
(* Steps of the other calls *)

(* An iterator stays right where nothing moves. *)
LEMMA CursorKept ==
  ASSUME IInv, cursor' = cursor, todo' = todo, doomed' = doomed,
         DOMAIN slots' = DOMAIN slots, Occupied(slots') = Occupied(slots),
         \A i \in Occupied(slots) : slots'[i].item.key = slots[i].item.key
  PROVE  CursorInv'
BY DEF IInv, CursorInv

LEMMA EmplaceStep ==
  ASSUME IInv, NEW k \in Key, NEW v \in Value, Emplace(k, v)
  PROVE  /\ IInv'
         /\ Items' = Items \cup {z \in {[key |-> k, val |-> v]} : \A y \in Items : y.key # z.key}
<1> DEFINE x == [key |-> k, val |-> v]
           F == <<x>>
<1>1. /\ Idle /\ todo' = F /\ cursor' = NoCursor
      /\ slots' = slots /\ maxLoad' = maxLoad /\ numElements' = numElements /\ move' = move
      /\ doomed' = doomed /\ range' = range
  BY DEF Emplace, eraseVars
<1>2. x \in Item
  BY ItemFacts
<1> HIDE DEF x
<1>3. F \in Seq(Item) /\ Len(F) = 1 /\ DOMAIN F = {1} /\ F[1] = x
  BY <1>2
<1> HIDE DEF F
<1>4. Distinct(F) /\ Waits(F) = {x}
  BY <1>3 DEF Distinct, Waits
<1>5. TodoInv' /\ CursorInv'
  BY <1>1, <1>3, <1>4 DEF TodoInv, CursorInv
<1>6. /\ Whole(slots) /\ numElements = Cardinality(Occupied(slots)) /\ maxLoad \in Loads
      /\ move = NoMove /\ DOMAIN doomed = {} /\ range \subseteq Key /\ Items = Inside(slots)
  BY <1>1, IdleFacts
<1>7. IInv'
  BY <1>1, <1>5, <1>6, Settled
<1>8. Items' = Inside(slots) \cup {z \in {x} : \A y \in Inside(slots) : y.key # z.key}
  BY <1>1, <1>4 DEF Items, Coming
<1> QED
  BY <1>6, <1>7, <1>8 DEF x

(* Another value for the same key *)
Revalues(s, w, i, x) ==
  /\ x \in Item /\ x.key = s[i].item.key
  /\ DOMAIN w = DOMAIN s
  /\ w[i] = [kind |-> s[i].kind, jump |-> s[i].jump, item |-> x]
  /\ \A j \in DOMAIN s \ {i} : w[j] = s[j]

LEMMA ValueLinked ==
  ASSUME NEW s, NEW r, Chains(s, r, {}), NEW i \in Occupied(s),
         NEW w, NEW x, Revalues(s, w, i, x)
  PROVE  Chains(w, r, {}) /\ Occupied(w) = Occupied(s)
<1>0. /\ x \in Item /\ x.key = s[i].item.key
      /\ DOMAIN w = DOMAIN s
      /\ w[i] = [kind |-> s[i].kind, jump |-> s[i].jump, item |-> x]
      /\ \A j \in DOMAIN s \ {i} : w[j] = s[j]
  BY DEF Revalues
<1>1. /\ Typed(s) /\ i \in DOMAIN s /\ s[i] \in Full
      /\ \A j \in Occupied(s) : j \in DOMAIN s /\ s[j] \in Full
  BY LinkedFacts
<1>2. w[i] \in Full /\ w[i].kind = s[i].kind /\ w[i].jump = s[i].jump /\ w[i].item = x
  BY <1>0, <1>1, FullFacts DEF Full
<1>3. Occupied(w) = Occupied(s)
  BY <1>0, <1>1, <1>2, FullFacts DEF Occupied
<1>4. Typed(w)
  <2>1. Size(w) = Size(s)
    BY <1>0, SameSize
  <2> QED
    BY <2>1, <1>0, <1>1, <1>2 DEF Typed
<1>5. \A j \in DOMAIN s : w[j].kind = s[j].kind /\ w[j].jump = s[j].jump
  BY <1>0, <1>1, <1>2
<1>6. ASSUME NEW j \in DOMAIN s PROVE Hop(w, j) = Hop(s, j) /\ HomeOf(w, j) = HomeOf(s, j)
  <2>1. Hop(w, j) = Hop(s, j)
    BY <1>0, <1>5, SameElement
  <2>2. CASE j = i
    <3>1. Home(w, x.key) = Home(s, x.key)
      BY <1>0, SameSize
    <3> QED
      BY <2>1, <2>2, <3>1, <1>0, <1>2 DEF HomeOf
  <2>3. CASE j # i
    BY <2>1, <2>3, <1>0, SameElement
  <2> QED
    BY <2>2, <2>3
<1>7. Jumps(w) = Jumps(s)
  BY <1>1, <1>3, <1>5 DEF Jumps
<1>8. Linked(s, r, {}) /\ \A j \in Jumps(s) : j \in DOMAIN s /\ Hop(s, j) \in DOMAIN s
  BY <1>1, LinkedFacts DEF Chains
<1>9. Linked(w, r, {})
  BY <1>0, <1>1, <1>3, <1>5, <1>6, <1>7, <1>8 DEF Linked
<1> QED
  BY <1>3, <1>4, <1>9 DEF Chains

LEMMA AssignStep ==
  ASSUME IInv, NEW k \in Key, NEW v \in Value, Assign(k, v)
  PROVE  IInv' /\ \E y \in Items : y.key = k /\ Items' = (Items \ {y}) \cup {[key |-> k, val |-> v]}
<1> DEFINE s == slots
           x == [key |-> k, val |-> v]
<1>1. /\ Idle /\ maxLoad' = maxLoad /\ numElements' = numElements /\ todo' = todo
      /\ move' = move /\ doomed' = doomed /\ range' = range /\ cursor' = cursor
  BY DEF Assign, eraseVars
<1>2. /\ Whole(s) /\ Typed(s) /\ Apart(s) /\ numElements = Cardinality(Occupied(s))
      /\ maxLoad \in Loads /\ Items = Inside(s)
      /\ Found(s, k) = {i \in Occupied(s) : s[i].item.key = k}
  BY <1>1, IdleFacts
<1>3. PICK i \in Found(s, k) : slots' = [s EXCEPT ![i].item.val = v]
  BY DEF Assign
<1>4. i \in Occupied(s) /\ i \in DOMAIN s /\ s[i].item.key = k /\ s[i] \in Full
  BY <1>2, <1>3, SlotFacts
<1>5. PICK r : Chains(s, r, {})
  BY <1>2 DEF Whole
<1> DEFINE w == [s EXCEPT ![i].item.val = v]
<1>6. /\ DOMAIN w = DOMAIN s /\ \A j \in DOMAIN s \ {i} : w[j] = s[j]
      /\ w[i] = [s[i] EXCEPT !.item = [s[i].item EXCEPT !.val = v]]
  BY <1>4
<1> HIDE DEF w
<1>7. [s[i].item EXCEPT !.val = v] = x
  <2>1. s[i].item \in [key : Key, val : Value]
    BY <1>4, FullFacts DEF Item
  <2> QED
    BY <2>1, <1>4
<1>8. x \in Item /\ x.key = k
  BY ItemFacts
<1> HIDE DEF x
<1>9. w[i] = [kind |-> s[i].kind, jump |-> s[i].jump, item |-> x]
  BY <1>4, <1>6, <1>7, <1>8, FullChanges, FullFacts
<1>10. Chains(w, r, {}) /\ Occupied(w) = Occupied(s)
  <2>1. Revalues(s, w, i, x)
    BY <1>4, <1>6, <1>8, <1>9 DEF Revalues
  <2> QED
    BY <2>1, <1>4, <1>5, ValueLinked
<1>11. w[i].item = x /\ w[i].kind = s[i].kind
  BY <1>9
<1>12. \A j \in Occupied(s) : w[j].item.key = s[j].item.key
  BY <1>2, <1>4, <1>6, <1>8, <1>11, SlotFacts
<1>13. Apart(w)
  BY <1>2, <1>10, <1>12 DEF Apart
<1>14. \A j \in DOMAIN w : w[j] # Reserved
  <2>1. w[i] # Reserved
    BY <1>4, <1>11, FullFacts DEF Reserved
  <2> QED
    BY <2>1, <1>2, <1>6 DEF Whole
<1>15. Whole(w)
  BY <1>10, <1>13, <1>14 DEF Whole
<1>16. slots' = w
  BY <1>3 DEF w
<1>17. CursorInv'
  BY <1>1, <1>6, <1>10, <1>12, <1>16, CursorKept
<1>18. IInv' /\ Items' = Inside(w)
  BY <1>1, <1>2, <1>10, <1>15, <1>16, <1>17, AtOnce
<1>19. Inside(w) = (Inside(s) \ {s[i].item}) \cup {x}
  <2>1. \A j \in Occupied(s) \ {i} : w[j].item = s[j].item /\ s[j].item # s[i].item
    BY <1>2, <1>4, <1>6, SlotFacts DEF Apart
  <2> QED
    BY <2>1, <1>4, <1>10, <1>11 DEF Inside
<1>20. s[i].item \in Items
  BY <1>2, <1>4 DEF Inside
<1> QED
  BY <1>2, <1>4, <1>18, <1>19, <1>20 DEF x

LEMMA ErasedWhole ==
  ASSUME NEW s, Whole(s), NEW i \in Occupied(s)
  PROVE  /\ Whole(Erased(s, i)) /\ DOMAIN Erased(s, i) = DOMAIN s
         /\ Inside(Erased(s, i)) = {x \in Inside(s) : x.key # s[i].item.key}
         /\ Cardinality(Occupied(Erased(s, i))) = Cardinality(Occupied(s)) - 1
<1>1. PICK r : Chains(s, r, {})
  BY DEF Whole
<1> DEFINE w == Erased(s, i)
<1>2. /\ Chains(w, r, {}) /\ DOMAIN w = DOMAIN s
      /\ \A j \in DOMAIN s : s[j] # Reserved => w[j] # Reserved
  BY <1>1, ErasedFacts
<1>3. PICK l \in Occupied(s) : Takes(s, r, w, i, l)
  BY <1>1, ErasedFacts
<1>4. Typed(s) /\ Apart(s) /\ \A j \in DOMAIN s : s[j] # Reserved
  BY <1>1 DEF Whole, Chains
<1> HIDE DEF w
<1>5. /\ Apart(w) /\ Inside(w) = {x \in Inside(s) : x.key # s[i].item.key}
      /\ Cardinality(Occupied(w)) = Cardinality(Occupied(s)) - 1
  BY <1>3, <1>4, Taken
<1>6. Whole(w)
  BY <1>2, <1>4, <1>5 DEF Whole
<1> QED
  BY <1>2, <1>5, <1>6 DEF w

LEMMA EraseStep ==
  ASSUME IInv, NEW k \in Key, Erase(k)
  PROVE  IInv' /\ Items' = {x \in Items : x.key # k} /\ \E x \in Items : x.key = k
<1> DEFINE s == slots
<1>1. /\ Idle /\ cursor' = NoCursor /\ maxLoad' = maxLoad /\ todo' = todo
      /\ move' = move /\ doomed' = doomed /\ range' = range
  BY DEF Erase, eraseVars
<1>2. /\ Whole(s) /\ numElements = Cardinality(Occupied(s)) /\ maxLoad \in Loads
      /\ Items = Inside(s) /\ Found(s, k) = {i \in Occupied(s) : s[i].item.key = k}
  BY <1>1, IdleFacts
<1>3. PICK i \in Found(s, k) : slots' = Erased(s, i) /\ numElements' = numElements - 1
  BY DEF Erase, EraseSlot
<1>4. i \in Occupied(s) /\ s[i].item.key = k
  BY <1>2, <1>3
<1>5. /\ Whole(slots')
      /\ Inside(slots') = {x \in Inside(s) : x.key # k}
      /\ Cardinality(Occupied(slots')) = Cardinality(Occupied(s)) - 1
  BY <1>2, <1>3, <1>4, ErasedWhole
<1>6. CursorInv'
  BY <1>1 DEF CursorInv
<1>7. IInv' /\ Items' = Inside(slots')
  BY <1>1, <1>2, <1>3, <1>5, <1>6, AtOnce
<1>8. s[i].item \in Items
  BY <1>2, <1>4 DEF Inside
<1> QED
  BY <1>2, <1>4, <1>5, <1>7, <1>8

LEMMA ClearedFacts ==
  ASSUME IInv, Idle, Cleared
  PROVE  /\ Whole(slots') /\ Inside(slots') = {} /\ DOMAIN slots' = DOMAIN slots
         /\ numElements' = Cardinality(Occupied(slots')) /\ Occupied(slots') = {}
<1>1. Typed(slots)
  BY IdleFacts
<1>2. Size(slots) \in Nat /\ DOMAIN slots = 0 .. Size(slots) - 1
  BY <1>1 DEF Typed
<1>3. slots' = Fresh(Size(slots)) /\ numElements' = 0
  BY DEF Cleared
<1>4. Whole(slots') /\ Inside(slots') = {} /\ Occupied(slots') = {}
  BY <1>2, <1>3, FreshWhole
<1>5. DOMAIN slots' = DOMAIN slots
  BY <1>2, <1>3 DEF Fresh
<1> QED
  BY <1>3, <1>4, <1>5, FS_EmptySet

LEMMA ClearStep ==
  ASSUME IInv, Clear
  PROVE  IInv' /\ Items' = {}
<1>1. /\ Idle /\ Cleared /\ cursor' = NoCursor /\ maxLoad' = maxLoad /\ todo' = todo
      /\ move' = move /\ doomed' = doomed /\ range' = range
  BY DEF Clear, eraseVars
<1>2. /\ Whole(slots') /\ Inside(slots') = {}
      /\ numElements' = Cardinality(Occupied(slots')) /\ maxLoad \in Loads
  BY <1>1, ClearedFacts, IdleFacts
<1>3. CursorInv'
  BY <1>1 DEF CursorInv
<1> QED
  BY <1>1, <1>2, <1>3, AtOnce

LEMMA RehashStep ==
  ASSUME IInv, NEW n \in Nat, Rehash(n)
  PROVE  IInv' /\ Items' = Items
<1>1. /\ Idle /\ RehashTo(n) /\ cursor' = NoCursor /\ maxLoad' = maxLoad
      /\ move' = move /\ doomed' = doomed /\ range' = range
  BY DEF Rehash, eraseVars
<1>2. /\ Whole(slots) /\ Typed(slots) /\ numElements = Cardinality(Occupied(slots))
      /\ numElements \in Nat /\ maxLoad \in Loads /\ todo = <<>> /\ move = NoMove
      /\ DOMAIN doomed = {} /\ range \subseteq Key /\ Items = Inside(slots)
  BY <1>1, IdleFacts
<1>3. CursorInv'
  BY <1>1 DEF CursorInv
<1>4. Wanted(n) \in Nat /\ (Wanted(n) = 0 => numElements = 0)
  BY <1>2, WantedFacts
<1>5. CASE Wanted(n) = 0 /\ slots' = Fresh(0) /\ UNCHANGED <<numElements, todo>>
  <2>1. IsFiniteSet(Occupied(slots)) /\ Cardinality(Occupied(slots)) = 0
    BY <1>2, <1>4, <1>5, OccupiedFinite
  <2>2. Occupied(slots) = {}
    BY <2>1, FS_EmptySet
  <2>3. Inside(slots) = {}
    BY <2>2 DEF Inside
  <2>4. Whole(slots') /\ Occupied(slots') = {} /\ Inside(slots') = {}
    BY <1>5, FreshWhole
  <2>5. numElements' = Cardinality(Occupied(slots'))
    BY <2>2, <2>4, <1>2, <1>5
  <2>6. IInv' /\ Items' = Inside(slots')
    BY <2>4, <2>5, <1>1, <1>2, <1>3, <1>5, AtOnce
  <2> QED
    BY <2>3, <2>4, <2>6, <1>2
<1>6. CASE UNCHANGED tableVars
  <2>1. slots' = slots /\ numElements' = numElements /\ todo' = todo
    BY <1>6 DEF tableVars
  <2>2. IInv' /\ Items' = Inside(slots')
    BY <2>1, <1>1, <1>2, <1>3, AtOnce
  <2> QED
    BY <2>1, <2>2, <1>2
<1>7. CASE /\ Wanted(n) # 0
           /\ \E m \in SizeOver(Wanted(n)) \ {Size(slots)} : slots' = Fresh(m)
           /\ numElements' = 0 /\ todo' = Stored(slots) \o todo
  <2>1. PICK m \in SizeOver(Wanted(n)) : slots' = Fresh(m)
    BY <1>7
  <2>2. m \in Nat
    BY <1>4, SizeOverFacts
  <2> DEFINE F == Stored(slots) \o todo
  <2>3. F \in Seq(Item) /\ Distinct(F) /\ Waits(F) = Items
    <3>1. \A x \in Waits(todo), y \in Inside(slots) : y.key # x.key
      BY <1>2, NoneWaits
    <3> QED
      BY <3>1, StoredFirst
  <2>4. todo' = F
    BY <1>7
  <2> HIDE DEF F
  <2>5. IInv' /\ Items' = Waits(F)
    BY <2>1, <2>2, <2>3, <2>4, <1>1, <1>2, <1>7, StartsAnew
  <2> QED
    BY <2>3, <2>5
<1> QED
  BY <1>1, <1>5, <1>6, <1>7 DEF RehashTo

LEMMA SetMaxLoadStep ==
  ASSUME IInv, NEW l \in Loads, SetMaxLoad(l)
  PROVE  IInv' /\ Items' = Items
<1>1. /\ Idle /\ maxLoad' = l /\ slots' = slots /\ numElements' = numElements /\ todo' = todo
      /\ move' = move /\ doomed' = doomed /\ range' = range /\ cursor' = cursor
  BY DEF SetMaxLoad, tableVars, eraseVars
<1>2. Whole(slots) /\ numElements = Cardinality(Occupied(slots)) /\ Items = Inside(slots)
  BY <1>1, IdleFacts
<1>3. CursorInv'
  BY <1>1, CursorKept
<1>4. IInv' /\ Items' = Inside(slots')
  BY <1>1, <1>2, <1>3, AtOnce
<1> QED
  BY <1>1, <1>2, <1>4

LEMMA CopyStep ==
  ASSUME IInv, Copy
  PROVE  IInv' /\ Items' = Items
<1> DEFINE n == Min({CeilLoad(numElements), Size(slots)})
           F == Reversed(Stored(slots))
<1>1. /\ Idle /\ \E m \in IF n = 0 THEN {0} ELSE SizeOver(n) : slots' = Fresh(m)
      /\ numElements' = 0 /\ todo' = F /\ cursor' = NoCursor /\ maxLoad' = maxLoad
      /\ move' = move /\ doomed' = doomed /\ range' = range
  BY DEF Copy, eraseVars
<1>2. /\ Typed(slots) /\ Apart(slots) /\ numElements \in Nat /\ maxLoad \in Loads
      /\ move = NoMove /\ DOMAIN doomed = {} /\ range \subseteq Key /\ Items = Inside(slots)
  BY <1>1, IdleFacts
<1>3. n \in Nat
  <2>1. CeilLoad(numElements) \in Nat /\ Size(slots) \in Nat
    BY <1>2, CeilFacts, SlotFacts
  <2>2. CeilLoad(numElements) \in Int /\ Size(slots) \in Int
    BY <2>1
  <2>3. n \in {CeilLoad(numElements), Size(slots)}
    BY <2>2, MinOfTwo
  <2> QED
    BY <2>1, <2>3
<1> HIDE DEF n
<1>4. PICK m \in IF n = 0 THEN {0} ELSE SizeOver(n) : slots' = Fresh(m)
  BY <1>1
<1>5. m \in Nat
  BY <1>3, SizeOverFacts
<1>6. F \in Seq(Item) /\ Distinct(F) /\ Waits(F) = Inside(slots)
  <2> DEFINE G == Stored(slots)
  <2>1. G \in Seq(Item) /\ Distinct(G) /\ Waits(G) = Inside(slots)
    BY <1>2, StoredFacts
  <2> HIDE DEF G
  <2>2. Reversed(G) \in Seq(Item) /\ Distinct(Reversed(G)) /\ Waits(Reversed(G)) = Waits(G)
    BY <2>1, ReversedFacts
  <2> QED
    BY <2>1, <2>2 DEF G
<1> HIDE DEF F
<1>7. IInv' /\ Items' = Waits(F)
  BY <1>1, <1>2, <1>4, <1>5, <1>6, StartsAnew
<1> QED
  BY <1>2, <1>6, <1>7


-----------------------------------------------------------------------------
(* Iteration *)

(* The next element below a slot, or -1 *)
LEMMA BelowFacts ==
  ASSUME NEW s, Typed(s), NEW i \in Nat
  PROVE  /\ Below(s, i) \in Occupied(s) \cup {-1} /\ Below(s, i) \in Int /\ Below(s, i) < i
         /\ \A j \in Occupied(s) : j < i => j <= Below(s, i)
<1> DEFINE T == {j \in Occupied(s) : j < i}
           U == {-1} \cup T
<1>1. T \subseteq Nat /\ \A j \in T : j <= i
  BY OccupiedFinite
<1>2. \E m \in U : \A j \in U : m >= j
  <2>1. CASE T = {}
    BY <2>1
  <2>2. CASE T # {}
    <3> HIDE DEF T
    <3>1. PICK m \in T : \A j \in T : j <= m
      BY <1>1, <2>2, GreatestNatural
    <3>2. m \in Nat
      BY <1>1, <3>1
    <3>3. \A j \in U : j \in Int /\ m >= j
      BY <1>1, <3>1, <3>2
    <3> QED
      BY <3>1, <3>3
  <2> QED
    BY <2>1, <2>2
<1> HIDE DEF U
<1>3. Max(U) \in U /\ \A j \in U : Max(U) >= j
  BY <1>2 DEF Max
<1>4. Below(s, i) = Max(U)
  BY DEF Below, U, T
<1> DEFINE b == Below(s, i)
<1>5. b \in U /\ \A j \in U : b >= j
  BY <1>3, <1>4
<1> HIDE DEF b
<1>6. b \in Occupied(s) \cup {-1} /\ b \in Int /\ b < i
  BY <1>1, <1>5 DEF U, T
<1>7. ASSUME NEW j \in Occupied(s), j < i PROVE j <= b
  <2>1. j \in U /\ j \in Nat
    BY <1>7, <1>1 DEF U, T
  <2> QED
    BY <2>1, <1>5, <1>6
<1> QED
  BY <1>6, <1>7 DEF b

LEMMA BeginStep ==
  ASSUME IInv, Begin
  PROVE  IInv' /\ Items' = Items
<1> DEFINE s == slots
           a == Below(s, Size(s))
<1>1. /\ Idle /\ cursor' = [at |-> a, seen |-> {}, valid |-> TRUE]
      /\ slots' = s /\ numElements' = numElements /\ todo' = todo /\ maxLoad' = maxLoad
      /\ move' = move /\ doomed' = doomed /\ range' = range
  BY DEF Begin, tableVars, eraseVars
<1>2. /\ Whole(s) /\ Typed(s) /\ numElements = Cardinality(Occupied(s))
      /\ maxLoad \in Loads /\ Items = Inside(s) /\ todo = <<>>
  BY <1>1, IdleFacts
<1>3. Size(s) \in Nat /\ Occupied(s) \subseteq 0 .. Size(s) - 1 /\ DOMAIN s = 0 .. Size(s) - 1
  BY <1>2, SlotFacts
<1>4. /\ a \in Occupied(s) \cup {-1} /\ a \in Int
      /\ \A j \in Occupied(s) : j < Size(s) => j <= a
  BY <1>2, <1>3, BelowFacts
<1> HIDE DEF a
<1>5. \A j \in Occupied(s) : ~ (j > a)
  BY <1>3, <1>4
<1>6. CursorInv'
  <2>1. cursor' \in [at : DOMAIN s \cup {-1}, seen : SUBSET Key, valid : {TRUE}]
    BY <1>1, <1>3, <1>4
  <2>2. cursor'.at = a
    BY <1>1
  <2> HIDE DEF s
  <2> QED
    BY <2>1, <2>2, <1>1, <1>2, <1>4, <1>5 DEF CursorInv
<1>7. IInv' /\ Items' = Inside(slots')
  BY <1>1, <1>2, <1>6, AtOnce
<1> QED
  BY <1>1, <1>2, <1>7

LEMMA OnElementFacts ==
  ASSUME IInv, OnElement
  PROVE  /\ cursor \in [at : DOMAIN slots \cup {-1}, seen : SUBSET Key, valid : {TRUE}]
         /\ cursor.at \in Occupied(slots) /\ cursor.at \in Nat
         /\ \A i \in Occupied(slots) : i > cursor.at => slots[i].item.key \in cursor.seen
<1>1. cursor # NoCursor /\ cursor.at # -1 /\ Idle
  BY DEF OnElement, NoCursor
<1>2. DOMAIN doomed = {} /\ Typed(slots)
  BY <1>1, IdleFacts
<1>3. /\ cursor \in [at : DOMAIN slots \cup {-1}, seen : SUBSET Key, valid : {TRUE}]
      /\ cursor.at \in Occupied(slots)
      /\ \A i \in Occupied(slots) : i > cursor.at => slots[i].item.key \in cursor.seen
  BY <1>1, <1>2 DEF IInv, CursorInv
<1> QED
  BY <1>2, <1>3, OccupiedFinite

LEMMA AdvanceStep ==
  ASSUME IInv, Advance
  PROVE  IInv' /\ Items' = Items
<1> DEFINE s == slots
           c == cursor.at
           a == Below(s, c)
           seen == cursor.seen \cup {s[c].item.key}
<1>1. /\ OnElement /\ Idle
      /\ cursor' = [cursor EXCEPT !.seen = @ \cup {slots[cursor.at].item.key},
                                  !.at = Below(slots, cursor.at)]
      /\ slots' = s /\ numElements' = numElements /\ todo' = todo /\ maxLoad' = maxLoad
      /\ move' = move /\ doomed' = doomed /\ range' = range
  BY DEF Advance, OnElement, tableVars, eraseVars
<1>2. /\ Whole(s) /\ Typed(s) /\ numElements = Cardinality(Occupied(s))
      /\ maxLoad \in Loads /\ Items = Inside(s) /\ todo = <<>>
  BY <1>1, IdleFacts
<1>3. /\ cursor \in [at : DOMAIN s \cup {-1}, seen : SUBSET Key, valid : {TRUE}]
      /\ c \in Occupied(s) /\ c \in Nat
      /\ \A i \in Occupied(s) : i > c => s[i].item.key \in cursor.seen
  BY <1>1, OnElementFacts
<1>4. cursor' = [at |-> a, seen |-> seen, valid |-> TRUE]
  BY <1>1, <1>3
<1>5. seen \subseteq Key
  BY <1>2, <1>3, InsideFacts
<1> HIDE DEF c
<1>6. /\ a \in Occupied(s) \cup {-1} /\ a \in Int
      /\ \A j \in Occupied(s) : j < c => j <= a
  BY <1>2, <1>3, BelowFacts
<1> HIDE DEF a
<1>7. Occupied(s) \subseteq Nat /\ Occupied(s) \subseteq DOMAIN s
  BY <1>2, OccupiedFinite, SlotFacts
<1>8. ASSUME NEW i \in Occupied(s), i > a PROVE s[i].item.key \in seen
  <2>1. i \in Nat /\ ~ (i < c)
    BY <1>6, <1>7, <1>8
  <2>2. i = c \/ i > c
    BY <2>1, <1>3
  <2> QED
    BY <2>2, <1>3
<1> HIDE DEF seen
<1>9. CursorInv'
  <2>1. cursor' \in [at : DOMAIN s \cup {-1}, seen : SUBSET Key, valid : {TRUE}]
    BY <1>4, <1>5, <1>6, <1>7
  <2>2. cursor'.at = a /\ cursor'.seen = seen
    BY <1>4
  <2> HIDE DEF s
  <2> QED
    BY <2>1, <2>2, <1>1, <1>2, <1>6, <1>8 DEF CursorInv
<1>10. IInv' /\ Items' = Inside(slots')
  BY <1>1, <1>2, <1>9, AtOnce
<1> QED
  BY <1>1, <1>2, <1>10

(* Where an erase at or below an iterator leaves what the iterator has     *)
(* seen: it stays, or goes on to the next element below.                   *)
LEMMA AfterEraseFacts ==
  ASSUME NEW s, Typed(s), NEW r, NEW c \in Nat, NEW i \in Occupied(s), i <= c, NEW l,
         NEW w, Typed(w), Takes(s, r, w, i, l)
  PROVE  /\ AfterErase(w, c) \in Occupied(w) \cup {-1}
         /\ \A j \in Occupied(w) : j > AfterErase(w, c) =>
              j > c /\ j \in Occupied(s) /\ w[j].item = s[j].item
         /\ \A j \in Occupied(w) : j > c => j \in Occupied(s) /\ w[j].item = s[j].item
<1>1. Occupied(w) \subseteq Nat /\ Occupied(s) \subseteq Nat
  BY OccupiedFinite
<1>2. /\ Below(w, c) \in Occupied(w) \cup {-1} /\ Below(w, c) \in Int
      /\ \A j \in Occupied(w) : j < c => j <= Below(w, c)
  BY BelowFacts
<1> DEFINE a == AfterErase(w, c)
<1>3. a = IF c \in Occupied(w) THEN c ELSE Below(w, c)
  BY DEF AfterErase
<1> HIDE DEF a
<1>4. a \in Occupied(w) \cup {-1}
  BY <1>2, <1>3
<1>5. ASSUME NEW j \in Occupied(w), j > a PROVE j > c
  <2>1. CASE c \in Occupied(w)
    BY <2>1, <1>3, <1>5
  <2>2. CASE c \notin Occupied(w)
    <3>1. a = Below(w, c) /\ j # c
      BY <2>2, <1>3
    <3>2. ~ (j < c)
      BY <3>1, <1>1, <1>2, <1>5
    <3> QED
      BY <3>1, <3>2, <1>1
  <2> QED
    BY <2>1, <2>2
<1>6. ASSUME NEW j \in Occupied(w), j > c PROVE j \in Occupied(s) /\ w[j].item = s[j].item
  <2>1. j # i
    BY <1>1, <1>6
  <2> QED
    BY <2>1 DEF Takes
<1> QED
  BY <1>4, <1>5, <1>6 DEF a

LEMMA EraseAtCursorStep ==
  ASSUME IInv, EraseAtCursor
  PROVE  /\ IInv'
         /\ Items' = {x \in Items : x.key # slots[cursor.at].item.key}
         /\ slots[cursor.at].item \in Items
<1> DEFINE s == slots
           c == cursor.at
           w == Erased(s, c)
           a == AfterErase(w, c)
<1>1. /\ OnElement /\ Idle /\ slots' = w /\ numElements' = numElements - 1
      /\ cursor' = [cursor EXCEPT !.at = a]
      /\ maxLoad' = maxLoad /\ todo' = todo /\ move' = move /\ doomed' = doomed /\ range' = range
  <2>1. slots' = w /\ cursor' = [cursor EXCEPT !.at = AfterErase(slots', cursor.at)]
    BY DEF EraseAtCursor, EraseSlot
  <2> QED
    BY <2>1 DEF EraseAtCursor, EraseSlot, OnElement, eraseVars
<1>2. /\ Whole(s) /\ Typed(s) /\ numElements = Cardinality(Occupied(s))
      /\ maxLoad \in Loads /\ Items = Inside(s) /\ todo = <<>>
  BY <1>1, IdleFacts
<1>3. /\ cursor \in [at : DOMAIN s \cup {-1}, seen : SUBSET Key, valid : {TRUE}]
      /\ c \in Occupied(s) /\ c \in Nat
      /\ \A i \in Occupied(s) : i > c => s[i].item.key \in cursor.seen
  BY <1>1, OnElementFacts
<1>4. cursor' = [at |-> a, seen |-> cursor.seen, valid |-> TRUE]
  BY <1>1, <1>3
<1> HIDE DEF c
<1>5. /\ Whole(w) /\ DOMAIN w = DOMAIN s
      /\ Inside(w) = {x \in Inside(s) : x.key # s[c].item.key}
      /\ Cardinality(Occupied(w)) = Cardinality(Occupied(s)) - 1
  BY <1>2, <1>3, ErasedWhole
<1>6. PICK r : Chains(s, r, {})
  BY <1>2 DEF Whole
<1>7. PICK l \in Occupied(s) : Takes(s, r, w, c, l)
  BY <1>3, <1>6, ErasedFacts
<1>8. Typed(w)
  BY <1>5, WholeFacts
<1> HIDE DEF w
<1>9. /\ a \in Occupied(w) \cup {-1}
      /\ \A j \in Occupied(w) : j > a => j > c /\ j \in Occupied(s) /\ w[j].item = s[j].item
  <2>1. c <= c
    BY <1>3
  <2> QED
    BY <2>1, <1>2, <1>3, <1>7, <1>8, AfterEraseFacts
<1> HIDE DEF a
<1>10. CursorInv'
  <2>1. Occupied(w) \subseteq DOMAIN w
    BY <1>8, SlotFacts
  <2>2. cursor' \in [at : DOMAIN w \cup {-1}, seen : SUBSET Key, valid : {TRUE}]
    BY <2>1, <1>3, <1>4, <1>9
  <2>3. cursor'.at = a /\ cursor'.seen = cursor.seen
    BY <1>4
  <2>4. \A j \in Occupied(w) : j > a => w[j].item.key \in cursor.seen
    BY <1>3, <1>9
  <2> QED
    BY <2>2, <2>3, <2>4, <1>1, <1>2, <1>9 DEF CursorInv
<1>11. IInv' /\ Items' = Inside(slots')
  BY <1>1, <1>2, <1>5, <1>10, AtOnce
<1>12. s[c].item \in Items
  BY <1>2, <1>3 DEF Inside
<1> QED
  BY <1>1, <1>2, <1>5, <1>11, <1>12 DEF c


-----------------------------------------------------------------------------
(* Ranges *)

(* A range that is all of the table is everything up to the end. *)
LEMMA RangeStep ==
  ASSUME IInv, NEW end \in DOMAIN slots \cup {-1}, EraseRange(end)
  PROVE  /\ IInv'
         /\ \/ Items' = Items
            \/ Items' = {} /\ EraseRange(-1)
<1> DEFINE s == slots
           c == cursor.at
           doom == Between(c, end)
           whole == doom = Occupied(s) /\ Cardinality(doom) > 1 /\ Cleared
           part == doom # Occupied(s) /\ Cardinality(doom) > 1
<1>1. /\ OnElement /\ Idle /\ end \in Occupied(s) \cup {-1} /\ end < c
      /\ \/ /\ whole
            /\ cursor' = [cursor EXCEPT !.at = -1]
            /\ UNCHANGED <<maxLoad, todo, move, eraseVars>>
         \/ /\ part
            /\ doomed' = [i \in doom |-> Depth(slots, i)]
            /\ range' = {slots[i].item.key : i \in doom}
            /\ UNCHANGED <<tableVars, maxLoad, move, cursor>>
  BY DEF EraseRange, OnElement
<1>2. /\ Whole(s) /\ Typed(s) /\ Apart(s) /\ numElements = Cardinality(Occupied(s))
      /\ maxLoad \in Loads /\ Items = Inside(s) /\ todo = <<>> /\ move = NoMove
  BY <1>1, IdleFacts
<1>3. /\ cursor \in [at : DOMAIN s \cup {-1}, seen : SUBSET Key, valid : {TRUE}]
      /\ c \in Occupied(s) /\ c \in Nat
      /\ \A i \in Occupied(s) : i > c => s[i].item.key \in cursor.seen
  BY <1>1, OnElementFacts
<1>4. doom \subseteq Occupied(s) /\ (\A i \in doom : i <= c) /\ end \notin doom
  <2>1. Occupied(s) \subseteq Nat
    BY <1>2, OccupiedFinite
  <2>2. end \notin doom
    <3>1. end \in Int
      BY <1>1, <2>1
    <3>2. ~ (end < end)
      BY <3>1
    <3> QED
      BY <3>2 DEF Between
  <2> QED
    BY <2>2 DEF Between
<1>5. ASSUME whole, cursor' = [cursor EXCEPT !.at = -1], UNCHANGED <<maxLoad, todo, move, eraseVars>>
      PROVE  IInv' /\ Items' = {} /\ EraseRange(-1)
  <2>1. maxLoad' = maxLoad /\ todo' = todo /\ move' = move /\ doomed' = doomed /\ range' = range
    BY <1>5 DEF eraseVars
  <2>2. /\ Whole(slots') /\ Inside(slots') = {}
        /\ numElements' = Cardinality(Occupied(slots')) /\ Occupied(slots') = {}
    BY <1>1, <1>5, ClearedFacts
  <2>3. CursorInv'
    <3>1. cursor' = [at |-> -1, seen |-> cursor.seen, valid |-> TRUE]
      BY <1>3, <1>5
    <3>2. cursor' \in [at : DOMAIN slots' \cup {-1}, seen : SUBSET Key, valid : {TRUE}]
      BY <1>3, <3>1
    <3> QED
      BY <3>1, <3>2, <2>1, <2>2, <1>2 DEF CursorInv
  <2>4. IInv' /\ Items' = {}
    BY <2>1, <2>2, <2>3, <1>1, <1>2, AtOnce
  <2>5. end = -1
    BY <1>1, <1>4, <1>5
  <2> QED
    BY <2>4, <2>5
<1>6. ASSUME part, doomed' = [i \in doom |-> Depth(slots, i)],
             range' = {slots[i].item.key : i \in doom},
             UNCHANGED <<tableVars, maxLoad, move, cursor>>
      PROVE  IInv' /\ Items' = Items
  <2>1. /\ slots' = s /\ numElements' = numElements /\ todo' = todo /\ maxLoad' = maxLoad
        /\ move' = move /\ cursor' = cursor
    BY <1>6 DEF tableVars
  <2>2. PICK q : Chains(s, q, {})
    BY <1>2 DEF Whole
  <2> DEFINE r == [i \in DOMAIN s |-> IF i \in Occupied(s) THEN Depth(s, i) ELSE 0]
  <2>3. r \in [DOMAIN s -> Nat]
    BY <2>2, DepthType
  <2>4. \A i \in Occupied(s) : r[i] = Depth(s, i)
    BY <1>2, SlotFacts
  <2>5. ASSUME NEW i \in Jumps(s) PROVE r[i] < r[Hop(s, i)]
    <3>1. i \in Occupied(s) /\ Hop(s, i) \in Occupied(s)
      BY <2>2, LinkedFacts
    <3>2. Depth(s, i) < Depth(s, Hop(s, i))
      BY <2>2, DepthGrows
    <3> QED
      BY <3>1, <3>2, <2>4
  <2> HIDE DEF r
  <2>6. Chains(s, r, {})
    BY <2>2, <2>3, <2>5 DEF Chains, Linked
  <2>7. PICK n : Chains(s, n, {}) /\ \A i \in Occupied(s) : n[i] = Depth(s, i)
    BY <2>4, <2>6
  <2>8. DOMAIN doomed' = doom /\ \A i \in doom : doomed'[i] = Depth(s, i)
    BY <1>6
  <2> HIDE DEF doom, part
  <2>9. Loose' = {}
    BY <2>1, <1>2 DEF Loose
  <2>10. Numbered(n)'
    BY <2>1, <2>8, <2>9, <2>7, <1>2, <1>4 DEF Numbered
  <2>11. MoveInv' /\ TodoInv'
    BY <2>1, <1>2 DEF IInv, MoveInv, TodoInv
  <2>12. cursor # NoCursor
    BY <1>3 DEF NoCursor
  <2>13. CursorInv'
    BY <2>1, <1>1, <1>2, <1>3 DEF CursorInv
  <2>14. range' \subseteq Key
    <3>1. \A i \in doom : slots[i].item.key \in Key
      BY <1>2, <1>4, InsideFacts
    <3> QED
      BY <3>1, <1>6
  <2>15. \A i \in Occupied(s) : s[i].item.key \in range' <=> i \in doom
    BY <1>2, <1>4, <1>6 DEF Apart
  <2>16. DoomInv'
    BY <2>1, <2>8, <2>12, <2>14, <2>15, <1>4 DEF DoomInv
  <2>17. SizeCounts' /\ maxLoad' \in Loads /\ Apart(slots')
    BY <2>1, <1>2 DEF SizeCounts
  <2>18. IInv'
    BY <2>10, <2>11, <2>13, <2>16, <2>17 DEF IInv
  <2>19. Items' = Items
    BY <2>1 DEF Items, Coming
  <2> QED
    BY <2>18, <2>19
<1> QED
  BY <1>1, <1>5, <1>6

(* The element that comes into the gap is deeper than every element that   *)
(* is still to be erased, and therefore not one of them.                   *)
LEMMA EraseNextStep ==
  ASSUME IInv, EraseNext
  PROVE  /\ IInv'
         /\ \E k \in range : Items' = {x \in Items : x.key # k} /\ \E x \in Items : x.key = k
<1> DEFINE s == slots
           c == cursor.at
           D == DOMAIN doomed
<1>1. PICK i \in D :
        /\ \A d \in D : doomed[d] <= doomed[i]
        /\ EraseSlot(i)
        /\ doomed' = Remove(doomed, i)
        /\ cursor' = IF D = {i} THEN [cursor EXCEPT !.at = AfterErase(slots', cursor.at)] ELSE cursor
        /\ UNCHANGED <<maxLoad, todo, move, range>>
  BY DEF EraseNext
<1> DEFINE w == Erased(s, i)
           a == IF D = {i} THEN AfterErase(w, c) ELSE c
<1>2. /\ slots' = w /\ numElements' = numElements - 1 /\ maxLoad' = maxLoad /\ todo' = todo
      /\ move' = move /\ range' = range
  BY <1>1 DEF EraseSlot
<1>3. DOMAIN doomed' = D \ {i} /\ \A d \in D \ {i} : doomed'[d] = doomed[d]
  BY <1>1 DEF Remove
<1>4. /\ D \subseteq Occupied(s) /\ (\A d \in D : d <= c) /\ cursor # NoCursor /\ range \subseteq Key
      /\ \A j \in Occupied(s) : s[j].item.key \in range <=> j \in D
  BY <1>1 DEF IInv, DoomInv
<1>5. /\ cursor \in [at : DOMAIN s \cup {-1}, seen : SUBSET Key, valid : {TRUE}] /\ todo = <<>>
      /\ \A j \in Occupied(s) : j > c => s[j].item.key \in cursor.seen
  BY <1>4 DEF IInv, CursorInv
<1>6. move = NoMove
  BY <1>5 DEF IInv, MoveInv, Moving
<1>7. /\ Whole(s) /\ Typed(s) /\ Apart(s) /\ numElements = Cardinality(Occupied(s))
      /\ maxLoad \in Loads /\ Items = Inside(s)
  BY <1>5, <1>6, OrderFacts, ItemsNow
<1>8. PICK r : Numbered(r)
  BY DEF IInv
<1>9. Chains(s, r, {}) /\ \A d \in D : r[d] = doomed[d]
  BY <1>6, <1>8 DEF Numbered, Loose
<1>10. i \in Occupied(s) /\ i <= c
  BY <1>4
<1>11. c \in Nat
  <2>1. Occupied(s) \subseteq Nat /\ DOMAIN s \subseteq Nat
    BY <1>7, OccupiedFinite, SlotFacts
  <2>2. i \in Nat /\ i <= c /\ c \in DOMAIN s \cup {-1}
    BY <2>1, <1>5, <1>10
  <2> QED
    BY <2>1, <2>2
<1>12. Chains(w, r, {}) /\ DOMAIN w = DOMAIN s
  BY <1>9, <1>10, ErasedFacts
<1>13. PICK l \in Occupied(s) : Takes(s, r, w, i, l)
  BY <1>9, <1>10, ErasedFacts
<1>14. /\ Whole(w)
       /\ Inside(w) = {x \in Inside(s) : x.key # s[i].item.key}
       /\ Cardinality(Occupied(w)) = Cardinality(Occupied(s)) - 1
  BY <1>7, <1>10, ErasedWhole
<1>15. cursor' = [at |-> a, seen |-> cursor.seen, valid |-> TRUE]
  <2>1. CASE D = {i}
    BY <2>1, <1>1, <1>2, <1>5
  <2>2. CASE D # {i}
    BY <2>2, <1>1, <1>5
  <2> QED
    BY <2>1, <2>2
<1>16. Typed(w)
  BY <1>12 DEF Chains
<1> HIDE DEF w, c
<1>17. /\ AfterErase(w, c) \in Occupied(w) \cup {-1}
       /\ \A j \in Occupied(w) : j > AfterErase(w, c) =>
            j > c /\ j \in Occupied(s) /\ w[j].item = s[j].item
       /\ \A j \in Occupied(w) : j > c => j \in Occupied(s) /\ w[j].item = s[j].item
  BY <1>7, <1>10, <1>11, <1>13, <1>16, AfterEraseFacts
<1>18. l # i => l \notin D
  <2> SUFFICES ASSUME l # i, l \in D PROVE FALSE
    OBVIOUS
  <2>1. r[i] < r[l]
    BY <1>13 DEF Takes
  <2>2. r[l] <= r[i]
    BY <1>1, <1>9
  <2>3. r[i] \in Nat /\ r[l] \in Nat
    BY <1>9, <1>10, LinkedFacts
  <2> QED
    BY <2>1, <2>2, <2>3
<1>19. /\ Occupied(w) = Occupied(s) \ {l}
       /\ l # i => w[i].item = s[l].item
       /\ \A j \in Occupied(s) \ {i, l} : w[j].item = s[j].item
  BY <1>13 DEF Takes
<1>20. D \ {i} \subseteq Occupied(w)
  BY <1>4, <1>18, <1>19
<1>21. ASSUME NEW j \in Occupied(w) PROVE w[j].item.key \in range <=> j \in D \ {i}
  <2>1. CASE j = i
    BY <2>1, <1>4, <1>18, <1>19
  <2>2. CASE j # i
    BY <2>2, <1>4, <1>19
  <2> QED
    BY <2>1, <2>2
<1>22. Occupied(w) \subseteq DOMAIN w /\ Occupied(s) \subseteq DOMAIN s
  BY <1>7, <1>16, SlotFacts
<1>23. a \in DOMAIN w \cup {-1} /\ (D = {i} => a \in Occupied(w) \cup {-1})
  <2>1. c \in DOMAIN w \cup {-1}
    BY <1>5, <1>12 DEF c
  <2> QED
    BY <2>1, <1>17, <1>22
<1>24. ASSUME NEW j \in Occupied(w), j > a PROVE w[j].item.key \in cursor.seen
  <2>1. j > c /\ j \in Occupied(s) /\ w[j].item = s[j].item
    BY <1>17, <1>24
  <2> QED
    BY <2>1, <1>5 DEF c
<1>25. \A d \in D \ {i} : d <= a
  BY <1>4 DEF c
<1>26. cursor'.at = a /\ cursor'.seen = cursor.seen
  BY <1>15
<1> HIDE DEF a
<1>27. cursor' \in [at : DOMAIN w \cup {-1}, seen : SUBSET Key, valid : {TRUE}]
  BY <1>5, <1>15, <1>23
<1> HIDE DEF D
<1>28. D \ {i} = {} => D = {i}
  BY <1>1
<1>29. CursorInv'
  BY <1>2, <1>3, <1>5, <1>23, <1>24, <1>26, <1>27, <1>28 DEF CursorInv
<1>30. cursor' # NoCursor
  BY <1>15 DEF NoCursor
<1>31. DoomInv'
  BY <1>2, <1>3, <1>4, <1>20, <1>21, <1>25, <1>26, <1>30 DEF DoomInv
<1>32. Numbered(r)'
  <2>1. Loose' = {}
    BY <1>2, <1>6 DEF Loose
  <2> QED
    BY <2>1, <1>2, <1>3, <1>6, <1>9, <1>12 DEF Numbered
<1>33. MoveInv' /\ Apart(slots')
  BY <1>2, <1>6, <1>14 DEF MoveInv, Whole
<1>34. TodoInv' /\ Items' = Inside(w)
  BY <1>2, <1>5, NoneWaits, ItemsThen DEF TodoInv
<1>35. SizeCounts' /\ maxLoad' \in Loads
  BY <1>2, <1>7, <1>14 DEF SizeCounts
<1>36. IInv'
  BY <1>29, <1>31, <1>32, <1>33, <1>34, <1>35 DEF IInv
<1>37. s[i].item.key \in range /\ s[i].item \in Items
  BY <1>1, <1>4, <1>7, <1>10 DEF Inside
<1> QED
  BY <1>7, <1>14, <1>34, <1>36, <1>37


-----------------------------------------------------------------------------
(* The invariant *)

LEMMA InitIInv ==
  ASSUME Init
  PROVE  IInv /\ Items = {}
<1>1. /\ slots = Fresh(0) /\ numElements = 0 /\ maxLoad = DefaultLoad /\ todo = <<>>
      /\ move = NoMove /\ DOMAIN doomed = {} /\ range = {} /\ cursor = NoCursor
  BY DEF Init, EmptyMap
<1>2. Whole(slots) /\ Occupied(slots) = {} /\ Inside(slots) = {}
  BY <1>1, FreshWhole
<1>3. PICK r : Chains(slots, r, {})
  BY <1>2 DEF Whole
<1>4. Numbered(r)
  <2>1. Loose = {}
    BY <1>1 DEF Loose
  <2> QED
    BY <2>1, <1>1, <1>3 DEF Numbered
<1>5. Apart(slots) /\ MoveInv
  BY <1>1, <1>2 DEF Whole, MoveInv
<1>6. SizeCounts
  BY <1>1, <1>2, FS_EmptySet DEF SizeCounts
<1>7. maxLoad \in Loads
  BY <1>1, BytellAssumption DEF BytellAssumption
<1>8. TodoInv /\ CursorInv /\ DoomInv
  BY <1>1, NoneWaits DEF TodoInv, CursorInv, DoomInv
<1> QED
  BY <1>1, <1>2, <1>4, <1>5, <1>6, <1>7, <1>8, ItemsNow DEF IInv

LEMMA ContinueStep ==
  ASSUME IInv, Continue
  PROVE  /\ IInv'
         /\ ~ EraseNext => Items' = Items
BY PresentStep, DirectHitStep, NewKeyStep, EvictStep, MoveOneStep, MoveLastStep, GrowStep,
   EraseNextStep DEF Continue

(* Calls that change nothing of the map *)
Rearrange ==
  \/ \E n \in Requests : Rehash(n) \/ Reserve(n)
  \/ \E l \in Loads : SetMaxLoad(l)
  \/ ShrinkToFit
  \/ Copy
  \/ Begin
  \/ Advance

LEMMA RearrangeStep ==
  ASSUME IInv, Rearrange
  PROVE  IInv' /\ Items' = Items
<1>1. ASSUME NEW n \in Requests, Rehash(n) PROVE IInv' /\ Items' = Items
  BY <1>1, RehashStep, BytellAssumption DEF BytellAssumption
<1>2. ASSUME NEW n \in Requests, Reserve(n) PROVE IInv' /\ Items' = Items
  <2>1. n \in Nat /\ maxLoad \in Loads
    BY BytellAssumption, OrderFacts DEF BytellAssumption
  <2>2. CeilLoad(n) \in Nat
    BY <2>1, CeilFacts
  <2>3. Rehash(CeilLoad(n))
    BY <1>2 DEF Reserve
  <2> QED
    BY <2>2, <2>3, RehashStep
<1>3. ASSUME NEW l \in Loads, SetMaxLoad(l) PROVE IInv' /\ Items' = Items
  BY <1>3, SetMaxLoadStep
<1>4. CASE ShrinkToFit
  <2> DEFINE n == Min({CeilLoad(numElements), Size(slots)})
  <2>1. Rehash(n)
    BY <1>4 DEF ShrinkToFit
  <2>2. maxLoad \in Loads /\ numElements \in Nat /\ Size(slots) \in Nat
    BY OrderFacts, SlotFacts
  <2>3. CeilLoad(numElements) \in Nat
    BY <2>2, CeilFacts
  <2>4. n \in Nat
    <3>1. CeilLoad(numElements) \in Int /\ Size(slots) \in Int
      BY <2>2, <2>3
    <3>2. n \in {CeilLoad(numElements), Size(slots)}
      BY <3>1, MinOfTwo
    <3> QED
      BY <3>2, <2>2, <2>3
  <2> HIDE DEF n
  <2> QED
    BY <2>1, <2>4, RehashStep
<1> QED
  BY <1>1, <1>2, <1>3, <1>4, CopyStep, BeginStep, AdvanceStep DEF Rearrange

LEMMA NextCases ==
  ASSUME Next
  PROVE  \/ \E k \in Key, v \in Value : Emplace(k, v) \/ Assign(k, v)
         \/ \E k \in Key : Erase(k)
         \/ Clear \/ Rearrange \/ EraseAtCursor \/ Continue
         \/ \E end \in DOMAIN slots \cup {-1} : EraseRange(end)
BY DEF Next, Call, Rearrange

LEMMA NextIInv ==
  ASSUME IInv, [Next]_vars
  PROVE  IInv'
<1>1. ASSUME NEW k \in Key, NEW v \in Value, Emplace(k, v) \/ Assign(k, v) PROVE IInv'
  BY <1>1, EmplaceStep, AssignStep
<1>2. ASSUME NEW k \in Key, Erase(k) PROVE IInv'
  BY <1>2, EraseStep
<1>3. CASE Clear
  BY <1>3, ClearStep
<1>4. CASE Rearrange
  BY <1>4, RearrangeStep
<1>5. CASE EraseAtCursor
  BY <1>5, EraseAtCursorStep
<1>6. ASSUME NEW end \in DOMAIN slots \cup {-1}, EraseRange(end) PROVE IInv'
  BY <1>6, RangeStep
<1>7. CASE Continue
  BY <1>7, ContinueStep
<1>8. CASE UNCHANGED vars
  BY <1>8 DEF vars, tableVars, eraseVars, IInv, Numbered, Loose, SizeCounts, MoveInv, Moving,
     TodoInv, CursorInv, DoomInv
<1> QED
  BY <1>1, <1>2, <1>3, <1>4, <1>5, <1>6, <1>7, <1>8, NextCases

(* Chains stay chains but for the one that is moved, the elements come in  *)
(* once, an iterator has seen what is above it, and what is left to erase  *)
(* is what is left of the range, in every behaviour of the map.            *)
THEOREM Invariance == Spec => []IInv
BY InitIInv, NextIInv, PTL DEF Spec

LEMMA TypeHolds ==
  ASSUME IInv
  PROVE  TypeOK
<1>1. /\ Typed(slots) /\ numElements = Cardinality(Occupied(slots)) /\ maxLoad \in Loads
      /\ todo \in Seq(Item) /\ range \subseteq Key
  BY OrderFacts
<1>2. DOMAIN slots = 0 .. Size(slots) - 1
  BY <1>1 DEF Typed
<1>3. ASSUME NEW i \in DOMAIN slots
      PROVE  \/ slots[i] \in {Empty, Reserved}
             \/ /\ slots[i].kind \in {"direct", "list"}
                /\ slots[i].jump \in 0 .. Len(JumpDistances)
                /\ slots[i].item \in Item
  BY <1>1, FullFacts DEF Typed
<1>4. numElements \in 0 .. Size(slots)
  BY <1>1, OccupiedFinite
<1>5. move = NoMove \/ /\ {move.block, move.at, move.parent} \subseteq DOMAIN slots
                       /\ move.jump \in 0 .. Len(JumpDistances)
  <2> SUFFICES ASSUME move # NoMove
               PROVE  /\ {move.block, move.at, move.parent} \subseteq DOMAIN slots
                      /\ move.jump \in 0 .. Len(JumpDistances)
    OBVIOUS
  <2>1. move \in [block : DOMAIN slots, at : DOMAIN slots, parent : DOMAIN slots,
                  jump : 0 .. Len(JumpDistances)]
    BY MovingFacts
  <2> QED
    BY <2>1
<1>6. DOMAIN doomed \subseteq DOMAIN slots
  <2>1. DOMAIN doomed \subseteq Occupied(slots)
    BY DEF IInv, DoomInv
  <2> QED
    BY <2>1, <1>1, SlotFacts
<1>7. cursor.at \in DOMAIN slots \cup {-1} /\ cursor.seen \subseteq Key
  <2>1. CASE cursor = NoCursor
    BY <2>1 DEF NoCursor
  <2>2. CASE cursor \in [at : DOMAIN slots \cup {-1}, seen : SUBSET Key, valid : {TRUE}]
    BY <2>2
  <2> QED
    BY <2>1, <2>2 DEF IInv, CursorInv
<1> QED
  BY <1>1, <1>2, <1>3, <1>4, <1>5, <1>6, <1>7 DEF TypeOK

LEMMA ChainsEndHolds ==
  ASSUME IInv
  PROVE  ChainsEnd
<1> SUFFICES ASSUME move = NoMove, NEW i \in DOMAIN slots
             PROVE  /\ slots[i] # Reserved
                    /\ slots[i].kind = "direct" =>
                         /\ Home(slots, slots[i].item.key) = i
                         /\ \E l \in Links(slots, i) : slots[l].jump = 0
                         /\ \A l \in Links(slots, i) \ {i} : slots[l].kind = "list"
  BY DEF ChainsEnd
<1>1. Whole(slots) /\ Typed(slots)
  BY OrderFacts
<1>2. slots[i] # Reserved
  BY <1>1 DEF Whole
<1>3. PICK r : Chains(slots, r, {})
  BY <1>1 DEF Whole
<1>4. ASSUME slots[i].kind = "direct"
      PROVE  /\ Home(slots, slots[i].item.key) = i
             /\ \E l \in Links(slots, i) : slots[l].jump = 0
             /\ \A l \in Links(slots, i) \ {i} : slots[l].kind = "list"
  <2>1. i \in Occupied(slots)
    BY <1>1, <1>4, SlotFacts, BlankFacts
  <2>2. Home(slots, slots[i].item.key) = i
    BY <2>1, <1>3, <1>4, LinkedFacts DEF HomeOf
  <2>3. /\ Links(slots, i) \subseteq Occupied(slots)
        /\ \E l \in Links(slots, i) : l \notin Jumps(slots)
        /\ \A l \in Links(slots, i) \ {i} : slots[l].kind = "list"
    BY <2>1, <1>3, LinksFacts
  <2>4. \E l \in Links(slots, i) : slots[l].jump = 0
    BY <2>3 DEF Jumps
  <2> QED
    BY <2>2, <2>3, <2>4
<1> QED
  BY <1>2, <1>4

LEMMA FindableHolds ==
  ASSUME IInv
  PROVE  Findable
<1> SUFFICES ASSUME move = NoMove, NEW i \in Occupied(slots)
             PROVE  Found(slots, slots[i].item.key) = {i}
  BY DEF Findable
<1>1. Whole(slots)
  BY OrderFacts
<1>2. /\ Apart(slots) /\ slots[i].item.key \in Key
      /\ \A k \in Key : Found(slots, k) = {j \in Occupied(slots) : slots[j].item.key = k}
  BY <1>1, WholeFacts, InsideFacts
<1> QED
  BY <1>2 DEF Apart

LEMMA EachOnceHolds ==
  ASSUME IInv
  PROVE  EachOnce
<1>1. /\ Apart(slots) /\ SizeCounts /\ todo \in Seq(Item) /\ Distinct(todo)
      /\ Len(todo) = 1 \/ \A x \in Waits(todo) : \A i \in Occupied(slots) : slots[i].item.key # x.key
  BY DEF IInv, TodoInv
<1>2. Len(todo) \in Nat /\ DOMAIN todo = 1 .. Len(todo)
  BY <1>1
<1>3. \A n \in 1 .. Len(todo) - 1 : n \in DOMAIN todo /\ Len(todo) # 1
  BY <1>2
<1>4. \A i \in Occupied(slots), n \in 1 .. Len(todo) - 1 : slots[i].item.key # todo[n].key
  BY <1>1, <1>3 DEF Waits
<1>5. \A m, n \in 1 .. Len(todo) - 1 : todo[m].key = todo[n].key => m = n
  BY <1>1, <1>3 DEF Distinct
<1> QED
  BY <1>1, <1>4, <1>5 DEF EachOnce, NothingTwice, Apart

LEMMA PassSeesAllHolds ==
  ASSUME IInv
  PROVE  PassSeesAll
<1>1. cursor.valid => cursor # NoCursor
  BY DEF NoCursor
<1>2. CursorInv /\ Typed(slots)
  BY OrderFacts DEF IInv
<1>3. \A i \in Occupied(slots) : i > -1
  <2>1. Occupied(slots) \subseteq Nat
    BY <1>2, OccupiedFinite
  <2> QED
    BY <2>1
<1> QED
  BY <1>1, <1>2, <1>3 DEF CursorInv, PassSeesAll

LEMMA RangeErasedHolds ==
  ASSUME IInv
  PROVE  RangeErased
BY DEF IInv, DoomInv, RangeErased

(* In a table of any size, with any jumps, every slot has an element       *)
(* exactly if its byte says so, and between two emplaces every chain       *)
(* begins at home, goes over list entries only and has an end.             *)
THEOREM StaysWellFormed == Spec => []WellFormed
<1>1. IInv => WellFormed
  BY TypeHolds, ChainsEndHolds DEF WellFormed
<1> QED
  BY <1>1, Invariance, PTL

(* Evicting, growing, and erasing with the last element of a chain in the  *)
(* gap leave every element where the search for its key ends.              *)
THEOREM StaysFindable == Spec => []Findable
BY Invariance, FindableHolds, PTL

(* No element is lost from the count, twice in the array or twice on its   *)
(* way into a new one, also while a chain is taken apart.                  *)
THEOREM StaysOnce == Spec => []EachOnce
BY Invariance, EachOnceHolds, PTL

(* A pass that erases on its way, one by one or in ranges, misses none of  *)
(* the elements that stay.                                                 *)
THEOREM PassesSeeAll == Spec => []PassSeesAll
BY Invariance, PassSeesAllHolds, PTL

(* Erasing the deepest slot first, a range erase never moves an element of *)
(* the range into a slot that it does not erase, nor one that stays into a *)
(* slot that it does.                                                      *)
THEOREM ErasesTheRange == Spec => []RangeErased
BY Invariance, RangeErasedHolds, PTL

-----------------------------------------------------------------------------
(* What the calls promise *)

(* The map that elements in an array and elements in a row stand for *)
Reads(S, F) ==
  LET coming == {F[n] : n \in {m \in DOMAIN F : \A x \in S : x.key # F[m].key}}
      items == S \cup coming
  IN  [k \in {x.key : x \in items} |-> (CHOOSE x \in items : x.key = k).val]

LEMMA ReadsIs ==
  ASSUME NEW S, NEW F
  PROVE  Reads(S, F) = MapOf(S \cup {x \in Waits(F) : \A y \in S : y.key # x.key})
<1> DEFINE C == {F[n] : n \in {m \in DOMAIN F : \A x \in S : x.key # F[m].key}}
<1>1. C = {x \in Waits(F) : \A y \in S : y.key # x.key}
  BY DEF Waits
<1>2. Reads(S, F) = MapOf(S \cup C)
  BY DEF Reads, MapOf, Keys
<1> QED
  BY <1>1, <1>2

LEMMA ItemsOne ==
  ASSUME IInv
  PROVE  OneEach(Items) /\ Contents = MapOf(Items)
<1>1. Apart(slots) /\ Distinct(todo)
  BY OrderFacts
<1>2. OneEach(Inside(slots))
  BY <1>1 DEF OneEach, Inside, Apart
<1>3. OneEach(Waits(todo))
  BY <1>1 DEF OneEach, Waits, Distinct
<1>4. Coming \subseteq Waits(todo) /\ \A x \in Coming, y \in Inside(slots) : y.key # x.key
  BY DEF Coming
<1>5. OneEach(Items)
  BY <1>2, <1>3, <1>4 DEF Items, OneEach
<1>6. Contents = Reads(Inside(slots), todo)
  BY DEF Contents, Reads, Inside
<1>7. Contents = MapOf(Items)
  BY <1>6, ReadsIs DEF Items, Coming
<1> QED
  BY <1>5, <1>7

LEMMA ContentsAfter == Contents' = MapOf(Items')
<1>1. Contents' = Reads(Inside(slots'), todo')
  BY DEF Contents, Reads, Inside
<1> QED
  BY <1>1, ReadsIs DEF Items, Coming

(* An item that is in the map or is not, by its key *)
LEMMA InMap ==
  ASSUME IInv, NEW k
  PROVE  k \in DOMAIN Contents <=> \E x \in Items : x.key = k
BY ItemsOne DEF MapOf, Keys

LEMMA EmplacePromise ==
  ASSUME IInv, NEW k \in Key, NEW v \in Value, Emplace(k, v)
  PROVE  UNCHANGED Contents \/ Map!Emplace(k, v)
<1> DEFINE x == [key |-> k, val |-> v]
<1>1. Items' = Items \cup {z \in {x} : \A y \in Items : y.key # z.key}
  BY EmplaceStep
<1>2. OneEach(Items) /\ Contents = MapOf(Items) /\ Contents' = MapOf(Items')
  BY ItemsOne, ContentsAfter
<1>3. x.key = k /\ x.val = v
  OBVIOUS
<1> HIDE DEF x
<1>4. CASE k \in DOMAIN Contents
  <2>1. PICK y \in Items : y.key = k
    BY <1>4, InMap
  <2>2. Items' = Items
    BY <1>1, <1>3, <2>1
  <2> QED
    BY <1>2, <2>2
<1>5. CASE k \notin DOMAIN Contents
  <2>1. \A y \in Items : y.key # k
    BY <1>5, InMap
  <2>2. Items' = Items \cup {x} /\ x.key \notin Keys(Items)
    BY <1>1, <1>3, <2>1 DEF Keys
  <2>3. MapOf(Items \cup {x}) = Put(MapOf(Items), x.key, x.val)
    BY <1>2, <2>2, MapAdd
  <2>4. Contents' = Put(Contents, k, v)
    BY <1>2, <1>3, <2>2, <2>3
  <2> QED
    BY <1>5, <2>4 DEF Map!Emplace, Map!Put, Put
<1> QED
  BY <1>4, <1>5

LEMMA AssignPromise ==
  ASSUME IInv, NEW k \in Key, NEW v \in Value, Assign(k, v)
  PROVE  Map!Assign(k, v)
<1> DEFINE x == [key |-> k, val |-> v]
<1>1. PICK y \in Items : y.key = k /\ Items' = (Items \ {y}) \cup {x}
  BY AssignStep
<1>2. OneEach(Items) /\ Contents = MapOf(Items) /\ Contents' = MapOf(Items')
  BY ItemsOne, ContentsAfter
<1>3. x.key = k /\ x.val = v
  OBVIOUS
<1> HIDE DEF x
<1>4. MapOf((Items \ {y}) \cup {x}) = Put(MapOf(Items), x.key, x.val)
  BY <1>1, <1>2, <1>3, MapReplace
<1>5. k \in DOMAIN Contents
  BY <1>1, InMap
<1>6. Contents' = Put(Contents, k, v)
  BY <1>1, <1>2, <1>3, <1>4
<1> QED
  BY <1>5, <1>6 DEF Map!Assign, Map!Put, Put

LEMMA TakeOut ==
  ASSUME IInv, NEW k, Items' = {x \in Items : x.key # k}, \E x \in Items : x.key = k
  PROVE  Map!Erase(k)
<1>1. OneEach(Items) /\ Contents = MapOf(Items) /\ Contents' = MapOf(Items')
  BY ItemsOne, ContentsAfter
<1>2. Items' = {x \in Items : x.key \notin {k}}
  OBVIOUS
<1>3. MapOf({x \in Items : x.key \notin {k}})
        = [j \in DOMAIN MapOf(Items) \ {k} |-> MapOf(Items)[j]]
  BY <1>1, MapWithout
<1>4. Contents' = Remove(Contents, k)
  BY <1>1, <1>2, <1>3 DEF Remove
<1>5. k \in DOMAIN Contents
  BY InMap
<1> QED
  BY <1>4, <1>5 DEF Map!Erase, Map!Remove, Remove

LEMMA NothingLeft ==
  ASSUME Items' = {}
  PROVE  Map!Clear
BY ContentsAfter, MapOfNothing DEF Map!Clear, EmptyMap, Map!EmptyMap

LEMMA Unchanged ==
  ASSUME IInv, Items' = Items
  PROVE  UNCHANGED Contents
BY ItemsOne, ContentsAfter


LEMMA PromiseHolds ==
  ASSUME IInv, Next
  PROVE  Promise
<1>1. ASSUME NEW k \in Key, NEW v \in Value, Emplace(k, v) PROVE Promise
  BY <1>1, EmplacePromise DEF Promise
<1>2. ASSUME NEW k \in Key, NEW v \in Value, Assign(k, v) PROVE Promise
  BY <1>2, AssignPromise DEF Promise
<1>3. ASSUME NEW k \in Key, Erase(k) PROVE Promise
  <2>1. Map!Erase(k)
    BY <1>3, EraseStep, TakeOut
  <2> QED
    BY <2>1, <1>3 DEF Promise
<1>4. ASSUME EraseAtCursor PROVE Promise
  <2> DEFINE k == slots[cursor.at].item.key
  <2>1. Items' = {x \in Items : x.key # k} /\ \E x \in Items : x.key = k
    BY <1>4, EraseAtCursorStep
  <2> HIDE DEF k
  <2>2. Map!Erase(k)
    BY <2>1, TakeOut
  <2> QED
    BY <2>2, <1>4 DEF Promise, k
<1>5. ASSUME EraseNext PROVE Promise
  <2>1. PICK k \in range : Items' = {x \in Items : x.key # k} /\ \E x \in Items : x.key = k
    BY <1>5, EraseNextStep
  <2>2. Map!Erase(k)
    BY <2>1, TakeOut
  <2> QED
    BY <2>2, <1>5 DEF Promise
<1>6. CASE Clear
  <2>1. Map!Clear
    BY <1>6, ClearStep, NothingLeft
  <2> QED
    BY <2>1, <1>6 DEF Promise
<1>7. ASSUME NEW end \in DOMAIN slots \cup {-1}, EraseRange(end) PROVE Promise
  <2>1. CASE Items' = Items
    BY <2>1, Unchanged DEF Promise
  <2>2. CASE Items' = {} /\ EraseRange(-1)
    <3>1. Map!Clear
      BY <2>2, NothingLeft
    <3> QED
      BY <2>2, <3>1 DEF Promise
  <2> QED
    BY <2>1, <2>2, <1>7, RangeStep
<1>8. CASE Rearrange
  BY <1>8, RearrangeStep, Unchanged DEF Promise
<1>9. CASE Continue
  <2>1. ~ EraseNext => Items' = Items
    BY <1>9, ContinueStep
  <2> QED
    BY <2>1, <1>5, Unchanged DEF Promise
<1> QED
  BY <1>1, <1>2, <1>3, <1>4, <1>5, <1>6, <1>7, <1>8, <1>9, NextCases

LEMMA PromiseAlways ==
  ASSUME IInv, [Next]_vars
  PROVE  [Promise]_vars
BY PromiseHolds

(* Every call does to the map what KeyedMap promises of it, in one step,   *)
(* and no other step changes the map: not the evicting and growing that    *)
(* the call goes on with, and no rehash.                                   *)
THEOREM PromisesKept == Spec => KeepsPromises
BY Invariance, PromiseAlways, PTL DEF Spec, KeepsPromises

(* What each promise is to KeyedMap: one of its steps. *)
LEMMA PromiseIsStep ==
  ASSUME IInv, [Next]_vars
  PROVE  [Map!Next]_Contents
<1>1. CASE UNCHANGED vars
  BY <1>1 DEF vars, tableVars, Contents
<1>2. CASE Next
  <2>1. Promise
    BY <1>2, PromiseHolds
  <2>2. ASSUME NEW k \in Key, NEW v \in Value, Map!Emplace(k, v) \/ Map!Assign(k, v)
        PROVE  Map!Next
    BY <2>2 DEF Map!Next
  <2>3. ASSUME NEW k \in Key, Map!Erase(k) PROVE Map!Next
    BY <2>3 DEF Map!Next
  <2>4. Map!Clear => Map!Next
    BY DEF Map!Next
  <2>5. EraseAtCursor => slots[cursor.at].item.key \in Key
    BY OnElementFacts, OrderFacts, InsideFacts DEF EraseAtCursor
  <2>6. range \subseteq Key
    BY OrderFacts
  <2> QED
    BY <2>1, <2>2, <2>3, <2>4, <2>5, <2>6 DEF Promise
<1> QED
  BY <1>1, <1>2

LEMMA BeginsEmpty ==
  ASSUME Init
  PROVE  Map!Init
<1>1. IInv /\ Items = {}
  BY InitIInv
<1>2. Contents = EmptyMap
  BY <1>1, ItemsOne, MapOfNothing
<1> QED
  BY <1>2 DEF Map!Init, EmptyMap, Map!EmptyMap

(* The table implements KeyedMap: chains, evictions, growth, iterators and *)
(* range erases do not show.                                               *)
THEOREM ImplementsMap == Spec => IsMap
BY BeginsEmpty, Invariance, PromiseIsStep, PTL DEF Spec, IsMap, Map!Spec

=============================================================================
