--------------------------- MODULE FlatMapProofs ---------------------------
(***************************************************************************)
(* Proofs about FlatMap for every set of keys, every hash function, every  *)
(* list of sizes and any number of lookups: the array keeps its order,     *)
(* every element is found, counted and there once, an iterator misses and  *)
(* repeats nothing, and the calls change the map as KeyedMap promises.     *)
(*                                                                         *)
(* The order of the array is Layout: an element is as far from home as its *)
(* distance says, and unless it is at home the slot before it has an       *)
(* element that is at most one nearer to its own.  From this row of local  *)
(* facts follows what a search relies on (Chain).                          *)
(***************************************************************************)
EXTENDS FlatMap, CommonLemmas, SequenceTheorems

Element(s, i, n, l) ==
  /\ s[i] \in [dist : 0 .. l - 1, item : Item]
  /\ s[i].dist = i - (Hash[s[i].item.key] % n)
  /\ s[i].dist = 0 \/ s[i - 1].dist >= s[i].dist - 1

(* Array s of a table of n buckets and l lookups *)
Layout(s, n, l) ==
  /\ DOMAIN s = 0 .. n + l - 1
  /\ s[n + l - 1] = Sentinel
  /\ \A i \in 0 .. n + l - 2 : s[i] = Empty \/ Element(s, i, n, l)

(* No two slots have the same key. *)
Apart(s) == \A i, j \in Occupied(s) : s[i].item.key = s[j].item.key => i = j

-----------------------------------------------------------------------------
(* Slots *)

LEMMA ItemFacts ==
  /\ NoItem \notin Item
  /\ \A k \in Key : Hash[k] \in Nat
  /\ \A x \in Item : x.key \in Key /\ x.val \in Value
  /\ \A k \in Key, v \in Value : [key |-> k, val |-> v] \in Item
  /\ Empty.dist = -1 /\ Empty.item = NoItem
  /\ Sentinel.dist = 0 /\ Sentinel.item = NoItem
BY FlatAssumption DEF FlatAssumption, Item, Empty, Sentinel

(* What a slot of an array in order may hold. *)
LEMMA Slots ==
  ASSUME NEW s, NEW n \in Nat \ {0}, NEW l \in Nat \ {0}, Layout(s, n, l)
  PROVE  /\ DOMAIN s = 0 .. n + l - 1
         /\ \A i \in 0 .. n + l - 1 : s[i].dist \in Int /\ s[i].dist >= -1 /\ s[i].dist < l
         /\ \A i \in 0 .. n + l - 1 :
              i \in Occupied(s) <=> i # n + l - 1 /\ s[i].dist >= 0
         /\ \A i \in 0 .. n + l - 2 : s[i] = Empty <=> s[i].dist = -1
         /\ \A i \in Occupied(s) :
              i \in 0 .. n + l - 2 /\ s[i].item \in Item /\ Element(s, i, n, l)
         /\ s[n + l - 1].dist = 0
         /\ s[0].dist \in {-1, 0}
<1>1. DOMAIN s = 0 .. n + l - 1
  BY DEF Layout
<1>2. s[n + l - 1].dist = 0 /\ s[n + l - 1].item = NoItem
  BY ItemFacts DEF Layout
<1>3. ASSUME NEW i \in 0 .. n + l - 2
      PROVE  /\ s[i].dist \in Int /\ s[i].dist >= -1 /\ s[i].dist < l
             /\ i \in Occupied(s) <=> s[i].dist >= 0
             /\ s[i] = Empty <=> s[i].dist = -1
             /\ i \in Occupied(s) => s[i].item \in Item /\ Element(s, i, n, l)
  <2>1. CASE s[i] = Empty
    BY <2>1, <1>1, ItemFacts DEF Occupied
  <2>2. CASE Element(s, i, n, l)
    <3>1. s[i].dist \in 0 .. l - 1 /\ s[i].item \in Item
      BY <2>2 DEF Element
    <3>2. s[i].item # NoItem /\ s[i] # Empty
      BY <3>1, ItemFacts
    <3> QED
      BY <2>2, <3>1, <3>2, <1>1 DEF Occupied
  <2> QED
    BY <2>1, <2>2 DEF Layout
<1>4. \A i \in 0 .. n + l - 1 : i \in 0 .. n + l - 2 \/ i = n + l - 1
  OBVIOUS
<1>5. n + l - 1 \notin Occupied(s)
  BY <1>2 DEF Occupied
<1>6. s[0].dist \in {-1, 0}
  <2>1. 0 \in 0 .. n + l - 2
    OBVIOUS
  <2>2. CASE s[0] = Empty
    BY <2>2, ItemFacts
  <2>3. CASE Element(s, 0, n, l)
    <3>1. s[0].item.key \in Key /\ s[0].dist \in Nat /\ s[0].dist = 0 - (Hash[s[0].item.key] % n)
      BY <2>3, ItemFacts DEF Element
    <3>2. Hash[s[0].item.key] % n \in 0 .. n - 1
      BY <3>1, ItemFacts
    <3> QED
      BY <3>1, <3>2
  <2> QED
    BY <2>1, <2>2, <2>3 DEF Layout
<1>7. Occupied(s) \subseteq 0 .. n + l - 1
  BY <1>1 DEF Occupied
<1> QED
  BY <1>1, <1>2, <1>3, <1>4, <1>5, <1>6, <1>7

LEMMA OccupiedFinite ==
  ASSUME NEW s, NEW n \in Nat \ {0}, NEW l \in Nat \ {0}, Layout(s, n, l)
  PROVE  IsFiniteSet(Occupied(s)) /\ Occupied(s) \subseteq Nat /\ Occupied(s) \subseteq 0 .. n + l - 2
<1>1. Occupied(s) \in SUBSET (0 .. n + l - 2)
  BY Slots
<1>2. IsFiniteSet(0 .. n + l - 2)
  BY FS_Interval
<1> QED
  BY <1>1, <1>2, FS_Subset

(* No slot between an element's home and the element is nearer to its own  *)
(* home than the element would be there.                                   *)
LEMMA Chain ==
  ASSUME NEW s, NEW n \in Nat \ {0}, NEW l \in Nat \ {0}, Layout(s, n, l),
         NEW i \in Occupied(s)
  PROVE  LET h == Hash[s[i].item.key] % n
         IN  /\ h \in 0 .. n - 1 /\ h <= i
             /\ \A j \in h .. i : s[j].dist >= j - h
<1> DEFINE h == Hash[s[i].item.key] % n
           Bad == {j \in h .. i : ~ (s[j].dist >= j - h)}
<1>0. i \in 0 .. n + l - 2 /\ Element(s, i, n, l)
  BY Slots
<1>1. /\ i \in 0 .. n + l - 2 /\ s[i].item.key \in Key
      /\ s[i].dist \in 0 .. l - 1 /\ s[i].dist = i - h
  BY <1>0, ItemFacts DEF Element
<1>2. h \in 0 .. n - 1
  BY <1>1, ItemFacts
<1>3. h <= i
  <2> HIDE DEF h
  <2> QED
    BY <1>1, <1>2
<1>4. Bad = {}
  <2> HIDE DEF h
  <2> SUFFICES ASSUME Bad # {} PROVE FALSE
    OBVIOUS
  <2>0. h \in Nat /\ i \in Nat /\ i <= n + l - 2 /\ h <= i
    BY <1>1, <1>2, <1>3
  <2>1. Bad \subseteq Nat /\ \A j \in Bad : j <= i
    BY <2>0
  <2>2. PICK j \in Bad : \A m \in Bad : m <= j
    <3> HIDE DEF Bad
    <3> QED
      BY <2>0, <2>1, GreatestNatural
  <2>3. j \in h .. i /\ ~ (s[j].dist >= j - h) /\ j # i
    <3>1. s[i].dist >= i - h
      BY <1>1, <2>0
    <3> QED
      BY <3>1
  <2>4. j + 1 \in h .. i /\ j + 1 \notin Bad
    <3>1. j + 1 \in h .. i /\ ~ (j + 1 <= j)
      BY <2>3, <2>0
    <3> QED
      BY <2>2, <3>1
  <2>5. s[j + 1].dist >= (j + 1) - h
    <3>1. \A m \in h .. i : m \notin Bad => s[m].dist >= m - h
      OBVIOUS
    <3> HIDE DEF Bad
    <3> QED
      BY <2>4, <3>1
  <2>6. j \in 0 .. n + l - 1 /\ j + 1 \in 0 .. n + l - 1 /\ j + 1 # n + l - 1
    BY <2>4, <2>3, <2>0
  <2>7. s[j].dist \in Int /\ s[j + 1].dist \in Int
    BY <2>6, Slots
  <2>8. s[j + 1].dist >= 1
    BY <2>5, <2>7, <2>3, <2>0
  <2>81. j + 1 \in Occupied(s)
    <3>1. s[j + 1].dist >= 0
      BY <2>7, <2>8
    <3> QED
      BY <2>6, <3>1, Slots
  <2>82. Element(s, j + 1, n, l)
    BY <2>81, Slots
  <2>9. s[(j + 1) - 1].dist >= s[j + 1].dist - 1
    BY <2>8, <2>82, <2>7 DEF Element
  <2>10. (j + 1) - 1 = j
    BY <2>6
  <2> QED
    BY <2>3, <2>5, <2>7, <2>9, <2>10, <2>0
<1> QED
  BY <1>2, <1>3, <1>4

-----------------------------------------------------------------------------
(* Searching *)

InOrder ==
  /\ size \in Nat \ {0} /\ lookups \in Nat \ {0}
  /\ Layout(slots, size, lookups)
  /\ Apart(slots)

(* A search ends in the array, at most lookups slots from home. *)
LEMMA Search ==
  ASSUME InOrder, NEW k \in Key
  PROVE  /\ Home(k) \in 0 .. size - 1
         /\ Stop(k) \in Home(k) .. End
         /\ Stop(k) <= Home(k) + lookups
         /\ ~ GoesOn(Stop(k), k)
         /\ \A j \in Home(k) .. Stop(k) - 1 : GoesOn(j, k)
<1> DEFINE h == Home(k)
           T == {i \in h .. End : ~ GoesOn(i, k)}
<1>1. size \in Nat \ {0} /\ lookups \in Nat \ {0} /\ Layout(slots, size, lookups)
  BY DEF InOrder
<1>2. h \in 0 .. size - 1
  BY <1>1, ItemFacts DEF Home
<1>3. h + lookups \in h .. End /\ h \in Nat /\ End \in Nat
  BY <1>1, <1>2 DEF End
<1>4. ~ GoesOn(h + lookups, k)
  <2>1. h + lookups \in 0 .. size + lookups - 1
    BY <1>1, <1>2
  <2>2. slots[h + lookups].dist \in Int /\ slots[h + lookups].dist < lookups
    BY <2>1, <1>1, Slots
  <2>3. (h + lookups) - h = lookups
    BY <1>1, <1>2
  <2> QED
    BY <2>2, <2>3, <1>1 DEF GoesOn
<1> HIDE DEF h
<1>5. h + lookups \in T /\ T \subseteq Nat
  BY <1>3, <1>4
<1>6. PICK i \in T : \A m \in T : i <= m
  BY <1>5, LeastNatural
<1>7. i \in h .. End /\ ~ GoesOn(i, k)
  BY <1>6
<1>8. \A j \in h .. i - 1 : GoesOn(j, k)
  <2> SUFFICES ASSUME NEW j \in h .. i - 1, ~ GoesOn(j, k) PROVE FALSE
    OBVIOUS
  <2>1. j \in h .. End /\ ~ (i <= j)
    BY <1>7, <1>3
  <2>2. j \in T
    BY <2>1
  <2> QED
    BY <1>6, <2>1, <2>2
<1>9. /\ Stop(k) \in h .. End
      /\ ~ GoesOn(Stop(k), k)
      /\ \A j \in h .. Stop(k) - 1 : GoesOn(j, k)
  BY <1>7, <1>8 DEF Stop, h
<1>10. Stop(k) <= h + lookups
  <2> SUFFICES ASSUME ~ (Stop(k) <= h + lookups) PROVE FALSE
    OBVIOUS
  <2>1. h + lookups \in h .. Stop(k) - 1
    BY <1>9, <1>3, <1>1
  <2> QED
    BY <2>1, <1>9, <1>4 DEF h
<1> QED
  BY <1>2, <1>9, <1>10 DEF h

(* The search for the key of an element ends at the element. *)
LEMMA Finds ==
  ASSUME InOrder, NEW i \in Occupied(slots)
  PROVE  /\ slots[i].item.key \in Key
         /\ Stop(slots[i].item.key) = i
         /\ Found(slots[i].item.key) = {i}
<1> DEFINE k == slots[i].item.key
           h == Home(k)
           n == Stop(k)
<1>1. size \in Nat \ {0} /\ lookups \in Nat \ {0} /\ Layout(slots, size, lookups)
  BY DEF InOrder
<1>2. slots[i].item \in Item /\ i \in 0 .. size + lookups - 2
  BY <1>1, Slots
<1>3. k \in Key
  BY <1>2, ItemFacts
<1>4. Matches(i, k)
  BY DEF Matches, Occupied
<1>5. /\ h \in Nat /\ n \in h .. End /\ ~ GoesOn(n, k)
      /\ \A j \in h .. n - 1 : GoesOn(j, k)
  <2> HIDE DEF k
  <2> QED
    BY <1>3, Search
<1>6. h <= i /\ \A j \in h .. i : slots[j].dist >= j - h
  BY <1>1, Chain DEF Home
<1>7. ~ (i < n)
  <2> SUFFICES ASSUME i < n PROVE FALSE
    OBVIOUS
  <2>1. i \in h .. n - 1
    BY <1>2, <1>5, <1>6
  <2> QED
    BY <2>1, <1>4, <1>5 DEF GoesOn
<1>8. ~ (n < i)
  <2> SUFFICES ASSUME n < i PROVE FALSE
    OBVIOUS
  <2>1. n \in h .. i
    BY <1>2, <1>5
  <2>2. slots[n].dist >= n - h
    BY <2>1, <1>6
  <2>3. Matches(n, k)
    BY <2>2, <1>5 DEF GoesOn
  <2>4. n \in DOMAIN slots
    BY <2>1, <1>5, <1>1, Slots DEF End
  <2>5. n \in Occupied(slots) /\ slots[n].item.key = k
    BY <2>3, <2>4 DEF Matches, Occupied
  <2>6. n = i
    BY <2>5 DEF InOrder, Apart
  <2> QED
    BY <2>6, <1>2
<1>9. n = i
  BY <1>7, <1>8, <1>5, <1>2
<1> QED
  BY <1>3, <1>4, <1>9 DEF Found

(* What a search that finds the key, or does not, says of the array *)
LEMMA FoundOrNot ==
  ASSUME InOrder, NEW k \in Key
  PROVE  /\ \A i \in Found(k) : i \in Occupied(slots) /\ slots[i].item.key = k /\ i = Stop(k)
         /\ Found(k) # {} => Found(k) = {Stop(k)}
         /\ Found(k) = {} =>
              /\ \A i \in Occupied(slots) : slots[i].item.key # k
              /\ slots[Stop(k)].dist < Stop(k) - Home(k)
              /\ \/ Stop(k) = Home(k)
                 \/ slots[Stop(k) - 1].dist >= (Stop(k) - 1) - Home(k)
<1>1. size \in Nat \ {0} /\ lookups \in Nat \ {0} /\ Layout(slots, size, lookups)
  BY DEF InOrder
<1>2. /\ Home(k) \in 0 .. size - 1 /\ Stop(k) \in Home(k) .. End
      /\ ~ GoesOn(Stop(k), k)
      /\ \A j \in Home(k) .. Stop(k) - 1 : GoesOn(j, k)
  BY Search
<1>3. Stop(k) \in 0 .. size + lookups - 1
  BY <1>1, <1>2 DEF End
<1>4. Stop(k) \in DOMAIN slots /\ slots[Stop(k)].dist \in Int
  <2>1. DOMAIN slots = 0 .. size + lookups - 1
    BY <1>1 DEF Layout
  <2>2. slots[Stop(k)].dist \in Int
    BY <1>1, <1>3, Slots
  <2> QED
    BY <1>3, <2>1, <2>2
<1>5. ASSUME NEW i \in Found(k)
      PROVE  i \in Occupied(slots) /\ slots[i].item.key = k /\ i = Stop(k)
  BY <1>4 DEF Found, Matches, Occupied
<1>6. Found(k) # {} => Found(k) = {Stop(k)}
  BY DEF Found
<1>7. ASSUME Found(k) = {} PROVE \A i \in Occupied(slots) : slots[i].item.key # k
  BY <1>7, Finds
<1>8. ASSUME Found(k) = {} PROVE slots[Stop(k)].dist < Stop(k) - Home(k)
  <2>1. ~ Matches(Stop(k), k)
    BY <1>8 DEF Found
  <2>2. ~ (slots[Stop(k)].dist >= Stop(k) - Home(k))
    BY <2>1, <1>2 DEF GoesOn
  <2> QED
    BY <2>2, <1>4, <1>2, <1>3
<1>9. \/ Stop(k) = Home(k)
      \/ slots[Stop(k) - 1].dist >= (Stop(k) - 1) - Home(k)
  <2> SUFFICES ASSUME Stop(k) # Home(k)
               PROVE  slots[Stop(k) - 1].dist >= (Stop(k) - 1) - Home(k)
    OBVIOUS
  <2>1. Stop(k) - 1 \in Home(k) .. Stop(k) - 1
    BY <1>2, <1>3
  <2> QED
    BY <2>1, <1>2 DEF GoesOn
<1> QED
  BY <1>5, <1>6, <1>7, <1>8, <1>9

-----------------------------------------------------------------------------
(* Writing a slot *)

Written(s, i, x, d) == [s EXCEPT ![i] = [dist |-> d, item |-> x]]

(* An element takes a slot that is empty or whose element is nearer home.  *)
LEMMA WrittenLayout ==
  ASSUME NEW s, NEW n \in Nat \ {0}, NEW l \in Nat \ {0}, Layout(s, n, l),
         NEW i \in 0 .. n + l - 2, NEW x \in Item, NEW d \in 0 .. l - 1,
         d = i - (Hash[x.key] % n),
         d = 0 \/ s[i - 1].dist >= d - 1,
         s[i].dist < d
  PROVE  Layout(Written(s, i, x, d), n, l)
<1> DEFINE w == Written(s, i, x, d)
<1>1. /\ DOMAIN w = 0 .. n + l - 1
      /\ \A j \in 0 .. n + l - 1 : w[j] = IF j = i THEN [dist |-> d, item |-> x] ELSE s[j]
  BY DEF Written, Layout
<1>2. w[n + l - 1] = Sentinel
  BY <1>1 DEF Layout
<1>3. ASSUME NEW j \in 0 .. n + l - 2 PROVE w[j] = Empty \/ Element(w, j, n, l)
  <2> HIDE DEF w
  <2>1. j \in 0 .. n + l - 1 /\ i \in 0 .. n + l - 1
    OBVIOUS
  <2>2. CASE j = i
    <3>1. w[j] = [dist |-> d, item |-> x]
      BY <1>1, <2>1, <2>2
    <3>2. w[j].dist = d /\ w[j].item = x /\ w[j] \in [dist : 0 .. l - 1, item : Item]
      BY <3>1
    <3>3. d # 0 => w[i - 1] = s[i - 1]
      <4> SUFFICES ASSUME d # 0 PROVE w[i - 1] = s[i - 1]
        OBVIOUS
      <4>1. Hash[x.key] % n \in Nat
        BY ItemFacts
      <4>2. i - 1 \in 0 .. n + l - 1 /\ i - 1 # i
        BY <4>1
      <4> QED
        BY <4>2, <1>1
    <3> QED
      BY <3>2, <3>3, <2>2 DEF Element
  <2>3. CASE j # i /\ s[j] = Empty
    BY <2>3, <1>1, <2>1
  <2>4. CASE j # i /\ Element(s, j, n, l)
    <3>1. w[j] = s[j]
      BY <2>4, <1>1, <2>1
    <3>2. s[j].dist \in 0 .. l - 1 /\ s[j].item.key \in Key
      BY <2>4, ItemFacts DEF Element
    <3>3. CASE s[j].dist = 0
      BY <2>4, <3>1, <3>3 DEF Element
    <3>4. CASE s[j].dist # 0
      <4>1. Hash[s[j].item.key] % n \in Nat
        BY <3>2, ItemFacts
      <4>2. j - 1 \in 0 .. n + l - 1
        BY <3>2, <3>4, <4>1, <2>4 DEF Element
      <4>3. s[j - 1].dist \in Int /\ s[i].dist \in Int
        BY <4>2, <2>1, Slots
      <4>4. s[j - 1].dist >= s[j].dist - 1
        BY <2>4, <3>4 DEF Element
      <4>5. w[j - 1].dist >= s[j - 1].dist
        <5>1. CASE j - 1 = i
          BY <5>1, <4>2, <4>3, <1>1
        <5>2. CASE j - 1 # i
          BY <5>2, <4>2, <4>3, <1>1
        <5> QED
          BY <5>1, <5>2
      <4>6. w[j - 1].dist \in Int
        BY <4>2, <4>3, <1>1
      <4>7. w[j - 1].dist >= w[j].dist - 1
        BY <4>4, <4>5, <4>6, <4>3, <3>1, <3>2
      <4> QED
        BY <4>7, <3>1, <2>4 DEF Element
    <3> QED
      BY <3>3, <3>4
  <2> QED
    BY <2>2, <2>3, <2>4 DEF Layout
<1> QED
  BY <1>1, <1>2, <1>3 DEF Layout

LEMMA WrittenElements ==
  ASSUME NEW s, NEW n \in Nat \ {0}, NEW l \in Nat \ {0}, Layout(s, n, l), Apart(s),
         NEW i \in 0 .. n + l - 2, NEW x \in Item, NEW d,
         \A j \in Occupied(s) \ {i} : s[j].item.key # x.key
  PROVE  LET w == Written(s, i, x, d)
         IN  /\ Occupied(w) = Occupied(s) \cup {i}
             /\ w[i].item = x
             /\ \A j \in Occupied(s) \ {i} : w[j] = s[j]
             /\ Apart(w)
             /\ i \notin Occupied(s) => Cardinality(Occupied(w)) = Cardinality(Occupied(s)) + 1
<1> DEFINE w == Written(s, i, x, d)
<1>1. /\ DOMAIN w = DOMAIN s /\ i \in DOMAIN s
      /\ \A j \in DOMAIN s : w[j] = IF j = i THEN [dist |-> d, item |-> x] ELSE s[j]
  <2>1. DOMAIN s = 0 .. n + l - 1
    BY DEF Layout
  <2>2. i \in 0 .. n + l - 1
    OBVIOUS
  <2> QED
    BY <2>1, <2>2 DEF Written
<1>2. w[i].item = x /\ x # NoItem
  BY <1>1, ItemFacts
<1> HIDE DEF w
<1>3. Occupied(w) = Occupied(s) \cup {i}
  BY <1>1, <1>2 DEF Occupied
<1>4. \A j \in Occupied(s) \ {i} : w[j] = s[j]
  BY <1>1 DEF Occupied
<1>5. Apart(w)
  BY <1>2, <1>3, <1>4 DEF Apart
<1>6. IsFiniteSet(Occupied(s))
  BY OccupiedFinite
<1>7. i \notin Occupied(s) => Cardinality(Occupied(w)) = Cardinality(Occupied(s)) + 1
  BY <1>3, <1>6, FS_AddElement
<1> QED
  BY <1>2, <1>3, <1>4, <1>5, <1>7 DEF w

-----------------------------------------------------------------------------
(* Erasing one element *)

(* The row of elements that are not at home ends in the array. *)
LEMMA RowEnds ==
  ASSUME InOrder, NEW i \in 0 .. size + lookups - 1
  PROVE  /\ NextHome(i) \in i .. size + lookups - 1
         /\ slots[NextHome(i)].dist <= 0
         /\ \A j \in i .. NextHome(i) - 1 : j \in Occupied(slots) /\ slots[j].dist >= 1
<1> DEFINE E == size + lookups - 1
           T == {j \in DOMAIN slots : j >= i /\ slots[j].dist <= 0}
<1>1. size \in Nat \ {0} /\ lookups \in Nat \ {0} /\ Layout(slots, size, lookups)
  BY DEF InOrder
<1>2. DOMAIN slots = 0 .. E /\ slots[E].dist = 0 /\ E \in Nat
  BY <1>1, ItemFacts DEF Layout
<1>3. E \in T /\ T \subseteq Nat
  BY <1>2
<1>4. NextHome(i) \in T /\ \A j \in T : NextHome(i) <= j
  BY <1>3, MinIsLeast DEF NextHome
<1>5. NextHome(i) \in i .. E /\ slots[NextHome(i)].dist <= 0
  BY <1>4, <1>2
<1>6. ASSUME NEW j \in i .. NextHome(i) - 1 PROVE j \in Occupied(slots) /\ slots[j].dist >= 1
  <2>1. j \in 0 .. E /\ j # E /\ ~ (NextHome(i) <= j)
    BY <1>5, <1>2
  <2>2. j \notin T
    BY <1>4, <2>1
  <2>3. slots[j].dist \in Int
    BY <1>1, <2>1, Slots
  <2>4. ~ (slots[j].dist <= 0)
    BY <2>1, <2>2, <1>2
  <2>5. slots[j].dist >= 1 /\ slots[j].dist >= 0
    BY <2>3, <2>4
  <2>6. j \in Occupied(slots)
    BY <1>1, <2>1, <2>5, Slots
  <2> QED
    BY <2>5, <2>6
<1> QED
  BY <1>5, <1>6

LEMMA ErasedElements ==
  ASSUME InOrder, NEW i \in Occupied(slots)
  PROVE  LET w == Erased(i)
             last == NextHome(i + 1) - 1
         IN  /\ last \in i .. size + lookups - 2 /\ last \in Occupied(slots)
             /\ slots[last + 1].dist <= 0
             /\ \A j \in i + 1 .. last : j \in Occupied(slots) /\ slots[j].dist >= 1
             /\ DOMAIN w = 0 .. size + lookups - 1
             /\ \A j \in 0 .. size + lookups - 1 :
                  w[j] = IF j \in i .. last - 1
                         THEN [dist |-> slots[j + 1].dist - 1, item |-> slots[j + 1].item]
                         ELSE IF j = last THEN Empty ELSE slots[j]
             /\ Occupied(w) = Occupied(slots) \ {last}
<1> DEFINE E == size + lookups - 1
           next == NextHome(i + 1)
           last == next - 1
           w == Erased(i)
<1>1. size \in Nat \ {0} /\ lookups \in Nat \ {0} /\ Layout(slots, size, lookups)
  BY DEF InOrder
<1>2. i \in 0 .. size + lookups - 2
  BY <1>1, Slots
<1>3. i + 1 \in 0 .. E /\ E \in Nat /\ i \in Nat
  BY <1>1, <1>2
<1>4. /\ next \in i + 1 .. E
      /\ slots[next].dist <= 0
      /\ \A j \in i + 1 .. next - 1 : j \in Occupied(slots) /\ slots[j].dist >= 1
  BY <1>3, RowEnds
<1>5. last \in i .. size + lookups - 2 /\ last + 1 = next
  <2> HIDE DEF next
  <2> QED
    BY <1>4, <1>3, <1>1
<1>6. last \in Occupied(slots)
  <2> HIDE DEF next
  <2>1. CASE last = i
    BY <2>1
  <2>2. CASE last # i
    BY <2>2, <1>4, <1>5, <1>3
  <2> QED
    BY <2>1, <2>2
<1>7. DOMAIN slots = 0 .. E
  BY <1>1 DEF Layout
<1>8. /\ DOMAIN w = 0 .. E
      /\ \A j \in 0 .. E :
           w[j] = IF j \in i .. next - 2
                  THEN [dist |-> slots[j + 1].dist - 1, item |-> slots[j + 1].item]
                  ELSE IF j = next - 1 THEN Empty ELSE slots[j]
  BY <1>7 DEF Erased
<1>9. next - 2 = last - 1
  <2> HIDE DEF next
  <2> QED
    BY <1>4, <1>3
<1>10. Occupied(w) = Occupied(slots) \ {last}
  <2> HIDE DEF next, w
  <2>1. \A j \in Occupied(slots) : j \in 0 .. E
    BY <1>7 DEF Occupied
  <2>2. \A j \in Occupied(w) : j \in 0 .. E
    BY <1>8 DEF Occupied
  <2>3. ASSUME NEW j \in 0 .. E
        PROVE  j \in Occupied(w) <=> j \in Occupied(slots) /\ j # last
    <3>1. CASE j \in i .. next - 2
      <4>1. j + 1 \in Occupied(slots)
        BY <3>1, <1>4, <1>3
      <4>2. j \in Occupied(slots)
        <5>1. CASE j = i
          BY <5>1
        <5>2. CASE j # i
          BY <5>2, <3>1, <1>4, <1>3
        <5> QED
          BY <5>1, <5>2
      <4>3. j # last
        BY <3>1, <1>4, <1>3
      <4>4. w[j].item = slots[j + 1].item
        BY <3>1, <1>8
      <4> QED
        BY <4>1, <4>2, <4>3, <4>4, <1>8 DEF Occupied
    <3>2. CASE j = last
      <4>1. w[j] = Empty
        BY <3>2, <1>8, <1>4, <1>3
      <4> QED
        BY <3>2, <4>1, ItemFacts DEF Occupied
    <3>3. CASE j \notin i .. next - 2 /\ j # last
      <4>1. w[j] = slots[j]
        BY <3>3, <1>8
      <4> QED
        BY <3>3, <4>1, <1>7, <1>8 DEF Occupied
    <3> QED
      BY <3>1, <3>2, <3>3
  <2> QED
    BY <2>1, <2>2, <2>3
<1> HIDE DEF next, w
<1>11. \A j \in 0 .. E :
         w[j] = IF j \in i .. last - 1
                THEN [dist |-> slots[j + 1].dist - 1, item |-> slots[j + 1].item]
                ELSE IF j = last THEN Empty ELSE slots[j]
  BY <1>8, <1>9
<1> QED
  BY <1>4, <1>5, <1>6, <1>8, <1>10, <1>11 DEF next, w

(* Moving up by one keeps each element within reach of its home. *)
LEMMA ErasedLayout ==
  ASSUME InOrder, NEW i \in Occupied(slots)
  PROVE  Layout(Erased(i), size, lookups)
<1> DEFINE E == size + lookups - 1
           last == NextHome(i + 1) - 1
           w == Erased(i)
<1>1. size \in Nat \ {0} /\ lookups \in Nat \ {0} /\ Layout(slots, size, lookups)
  BY DEF InOrder
<1>2. /\ last \in i .. size + lookups - 2
      /\ slots[last + 1].dist <= 0
      /\ \A j \in i + 1 .. last : j \in Occupied(slots) /\ slots[j].dist >= 1
      /\ DOMAIN w = 0 .. E
      /\ \A j \in 0 .. E :
           w[j] = IF j \in i .. last - 1
                  THEN [dist |-> slots[j + 1].dist - 1, item |-> slots[j + 1].item]
                  ELSE IF j = last THEN Empty ELSE slots[j]
  BY ErasedElements
<1>3. i \in Nat /\ i <= size + lookups - 2 /\ last \in Nat /\ E \in Nat /\ E = size + lookups - 1
  <2> HIDE DEF last
  <2>1. i \in 0 .. size + lookups - 2
    BY <1>1, Slots
  <2> QED
    BY <2>1, <1>1, <1>2
<1> HIDE DEF last, w
<1>4. w[E] = Sentinel
  <2>1. E \in 0 .. E /\ E \notin i .. last - 1 /\ E # last
    BY <1>1, <1>2, <1>3
  <2>2. w[E] = slots[E]
    BY <2>1, <1>2
  <2> QED
    BY <2>2, <1>1 DEF Layout
<1>5. ASSUME NEW j \in 0 .. size + lookups - 2
      PROVE  w[j] = Empty \/ Element(w, j, size, lookups)
  <2>1. j \in 0 .. E /\ j \in Nat
    BY <1>3, <1>1
  <2>2. slots[j].dist \in Int /\ slots[j].dist >= -1
    BY <2>1, <1>1, <1>3, Slots
  <2>3. CASE j \in i .. last - 1
    <3>1. j + 1 \in Occupied(slots) /\ slots[j + 1].dist >= 1
      BY <2>3, <1>2, <1>3
    <3>2. Element(slots, j + 1, size, lookups)
      BY <3>1, <1>1, Slots
    <3>3. /\ slots[j + 1].dist \in 0 .. lookups - 1 /\ slots[j + 1].item \in Item
          /\ slots[j + 1].dist = (j + 1) - (Hash[slots[j + 1].item.key] % size)
          /\ slots[j + 1].dist = 0 \/ slots[(j + 1) - 1].dist >= slots[j + 1].dist - 1
      BY <3>2 DEF Element
    <3>4. (j + 1) - 1 = j
      BY <2>1
    <3>5. slots[j].dist >= slots[j + 1].dist - 1
      BY <3>1, <3>3, <3>4, <1>1
    <3>6. w[j] = [dist |-> slots[j + 1].dist - 1, item |-> slots[j + 1].item]
      BY <2>3, <2>1, <1>2
    <3>7. slots[j + 1].item.key \in Key
      BY <3>3, ItemFacts
    <3>8. Hash[slots[j + 1].item.key] % size \in Nat
      BY <3>7, <1>1, ItemFacts
    <3>9. /\ w[j].dist = slots[j + 1].dist - 1
          /\ w[j].item = slots[j + 1].item
          /\ w[j] \in [dist : 0 .. lookups - 1, item : Item]
          /\ w[j].dist \in Nat
      <4>1. slots[j + 1].dist - 1 \in 0 .. lookups - 1 /\ slots[j + 1].dist - 1 \in Nat
        BY <3>1, <3>3, <1>1
      <4> QED
        BY <3>6, <3>3, <4>1
    <3>10. w[j].dist = j - (Hash[w[j].item.key] % size)
      BY <3>9, <3>3, <3>8, <2>1
    <3>11. w[j].dist = 0 \/ w[j - 1].dist >= w[j].dist - 1
      <4> SUFFICES ASSUME w[j].dist # 0 PROVE w[j - 1].dist >= w[j].dist - 1
        OBVIOUS
      <4>0. w[j].dist \in Nat /\ w[j].dist >= 1
        <5>1. \A m \in Nat : m # 0 => m >= 1
          OBVIOUS
        <5> QED
          BY <3>9, <5>1, Zenon
      <4>1. j - 1 \in 0 .. E
        BY <4>0, <3>10, <3>8, <3>9, <2>1, <1>3
      <4>2. slots[j].dist >= 1 /\ slots[j].dist >= w[j].dist
        BY <3>5, <3>9, <4>0, <3>3, <2>2, <1>1
      <4>3. CASE j = i
        <5>1. w[j - 1] = slots[j - 1]
          BY <4>1, <4>3, <1>2, <1>3
        <5>2. Element(slots, j, size, lookups)
          BY <4>3, <1>1, Slots
        <5>3. slots[j - 1].dist >= slots[j].dist - 1
          BY <5>2, <4>2, <2>2 DEF Element
        <5>4. slots[j - 1].dist \in Int
          BY <4>1, <1>1, <1>3, Slots
        <5> QED
          BY <5>1, <5>3, <5>4, <4>0, <4>2, <2>2
      <4>4. CASE j # i
        <5>1. j - 1 \in i .. last - 1
          BY <4>4, <2>3, <1>3
        <5>2. w[j - 1] = [dist |-> slots[(j - 1) + 1].dist - 1, item |-> slots[(j - 1) + 1].item]
          BY <5>1, <4>1, <1>2
        <5>3. w[j - 1].dist = slots[j].dist - 1
          <6>1. (j - 1) + 1 = j
            BY <2>1
          <6> QED
            BY <5>2, <6>1
        <5> QED
          BY <5>3, <4>0, <4>2, <2>2
      <4> QED
        BY <4>3, <4>4
    <3> QED
      BY <3>9, <3>10, <3>11 DEF Element
  <2>4. CASE j = last
    BY <2>4, <2>1, <1>2, <1>3
  <2>5. CASE j \notin i .. last
    <3>1. w[j] = slots[j]
      BY <2>5, <2>1, <1>2, <1>3
    <3>2. CASE slots[j] = Empty
      BY <3>1, <3>2
    <3>3. CASE Element(slots, j, size, lookups) /\ slots[j].dist = 0
      BY <3>1, <3>3 DEF Element
    <3>4. CASE Element(slots, j, size, lookups) /\ slots[j].dist # 0
      <4>1. slots[j].dist >= 1 /\ slots[j].item.key \in Key
        BY <3>4, <2>2, ItemFacts DEF Element
      <4>2. Hash[slots[j].item.key] % size \in Nat
        BY <4>1, <1>1, ItemFacts
      <4>3. j - 1 \in 0 .. E
        BY <3>4, <4>1, <4>2, <2>1, <2>2, <1>3 DEF Element
      <4>4. j # last + 1
        BY <4>1, <1>2, <2>2
      <4>5. j - 1 \notin i .. last
        BY <4>4, <2>5, <1>3, <2>1
      <4>6. w[j - 1] = slots[j - 1]
        BY <4>3, <4>5, <1>2, <1>3
      <4> QED
        BY <3>1, <3>4, <4>6 DEF Element
    <3> QED
      BY <3>2, <3>3, <3>4, <1>1 DEF Layout
  <2> QED
    BY <2>3, <2>4, <2>5, <1>3
<1> QED
  BY <1>2, <1>4, <1>5, <1>3 DEF Layout, w

LEMMA ErasedItems ==
  ASSUME InOrder, NEW i \in Occupied(slots)
  PROVE  LET w == Erased(i)
         IN  /\ Apart(w)
             /\ Cardinality(Occupied(w)) = Cardinality(Occupied(slots)) - 1
             /\ {w[j].item : j \in Occupied(w)} = {slots[j].item : j \in Occupied(slots) \ {i}}
             /\ \A j \in Occupied(w) :
                  \/ j < i /\ j \in Occupied(slots) /\ w[j] = slots[j]
                  \/ j >= i /\ \E m \in Occupied(slots) : m > i /\ w[j].item = slots[m].item
             /\ \A j \in Occupied(slots) : j < i => j \in Occupied(w) /\ w[j] = slots[j]
<1> DEFINE E == size + lookups - 1
           last == NextHome(i + 1) - 1
           w == Erased(i)
           from(j) == IF j \in i .. last - 1 THEN j + 1 ELSE j
<1>1. size \in Nat \ {0} /\ lookups \in Nat \ {0} /\ Layout(slots, size, lookups) /\ Apart(slots)
  BY DEF InOrder
<1>2. /\ last \in i .. size + lookups - 2 /\ last \in Occupied(slots)
      /\ \A j \in i + 1 .. last : j \in Occupied(slots)
      /\ \A j \in 0 .. E :
           w[j] = IF j \in i .. last - 1
                  THEN [dist |-> slots[j + 1].dist - 1, item |-> slots[j + 1].item]
                  ELSE IF j = last THEN Empty ELSE slots[j]
      /\ Occupied(w) = Occupied(slots) \ {last}
  BY ErasedElements
<1>3. \A j \in Occupied(slots) : j \in 0 .. E /\ j \in Nat
  <2>1. Occupied(slots) \subseteq 0 .. size + lookups - 2
    BY <1>1, OccupiedFinite
  <2> QED
    BY <2>1, <1>1
<1>4. i \in Nat /\ last \in Nat
  <2> HIDE DEF last
  <2> QED
    BY <1>2, <1>3
<1> HIDE DEF last, w, E
<1>5. ASSUME NEW j \in Occupied(w)
      PROVE  /\ j \in Nat /\ j # last
             /\ from(j) \in Occupied(slots) \ {i} /\ w[j].item = slots[from(j)].item
             /\ j < i => w[j] = slots[j]
  <2>1. j \in Occupied(slots) /\ j # last /\ j \in 0 .. E /\ j \in Nat
    BY <1>2, <1>3
  <2>2. CASE j \in i .. last - 1
    <3>1. j + 1 \in Occupied(slots) /\ j + 1 # i /\ ~ (j < i)
      BY <2>2, <1>2, <1>4
    <3>2. w[j].item = slots[j + 1].item
      <4>1. w[j] = [dist |-> slots[j + 1].dist - 1, item |-> slots[j + 1].item]
        BY <2>1, <2>2, <1>2
      <4> QED
        BY <4>1
    <3> QED
      BY <2>1, <2>2, <3>1, <3>2
  <2>3. CASE j \notin i .. last - 1
    <3>1. w[j] = slots[j]
      BY <2>1, <2>3, <1>2
    <3>2. j # i
      BY <2>1, <2>3, <1>2, <1>4
    <3> QED
      BY <2>1, <2>3, <3>1, <3>2
  <2> QED
    BY <2>2, <2>3
<1>6. ASSUME NEW m \in Occupied(slots) \ {i}
      PROVE  \E j \in Occupied(w) : from(j) = m
  <2>0. m \in Nat /\ m \in Occupied(slots) /\ m # i
    BY <1>3
  <2>1. CASE m \in i + 1 .. last
    <3>1. m - 1 \in i .. last - 1 /\ (m - 1) + 1 = m /\ m - 1 # last
      BY <2>1, <2>0, <1>4
    <3>2. m - 1 \in Occupied(slots)
      <4>1. m - 1 = i \/ m - 1 \in i + 1 .. last
        BY <3>1, <1>4
      <4> QED
        BY <4>1, <1>2
    <3> QED
      BY <3>1, <3>2, <1>2
  <2>2. CASE m \notin i + 1 .. last
    <3>1. m # last /\ m \notin i .. last - 1
      BY <2>2, <2>0, <1>4, <1>2
    <3> QED
      BY <3>1, <2>0, <1>2
  <2> QED
    BY <2>1, <2>2
<1>7. ASSUME NEW j \in Occupied(w), NEW m \in Occupied(w), from(j) = from(m)
      PROVE  j = m
  <2>1. /\ j \in Nat /\ m \in Nat /\ j # last /\ m # last
    BY <1>5
  <2>2. from(j) = IF j \in i .. last - 1 THEN j + 1 ELSE j
    OBVIOUS
  <2>3. from(m) = IF m \in i .. last - 1 THEN m + 1 ELSE m
    OBVIOUS
  <2> QED
    BY <2>1, <2>2, <2>3, <1>7, <1>4, <1>2
<1>8. Apart(w)
  <2> SUFFICES ASSUME NEW j \in Occupied(w), NEW m \in Occupied(w),
                      w[j].item.key = w[m].item.key
               PROVE  j = m
    BY DEF Apart
  <2> HIDE DEF from
  <2>1. from(j) \in Occupied(slots) /\ from(m) \in Occupied(slots)
        /\ slots[from(j)].item.key = slots[from(m)].item.key
    BY <1>5
  <2>2. from(j) = from(m)
    BY <2>1, <1>1 DEF Apart
  <2> QED
    BY <2>2, <1>7
<1>9. Cardinality(Occupied(w)) = Cardinality(Occupied(slots)) - 1
  <2>1. IsFiniteSet(Occupied(slots))
    BY <1>1, OccupiedFinite
  <2> QED
    BY <2>1, <1>2, FS_RemoveElement
<1>10. {w[j].item : j \in Occupied(w)} = {slots[j].item : j \in Occupied(slots) \ {i}}
  <2> HIDE DEF from
  <2>1. ASSUME NEW j \in Occupied(w)
        PROVE  \E m \in Occupied(slots) \ {i} : w[j].item = slots[m].item
    BY <1>5
  <2>2. ASSUME NEW m \in Occupied(slots) \ {i}
        PROVE  \E j \in Occupied(w) : slots[m].item = w[j].item
    BY <1>5, <1>6
  <2> QED
    BY <2>1, <2>2
<1>11. ASSUME NEW j \in Occupied(w)
       PROVE  \/ j < i /\ j \in Occupied(slots) /\ w[j] = slots[j]
              \/ j >= i /\ \E m \in Occupied(slots) : m > i /\ w[j].item = slots[m].item
  <2>1. CASE j < i
    BY <2>1, <1>5, <1>2
  <2>2. CASE ~ (j < i)
    <3>1. j >= i /\ j \in Nat
      BY <2>2, <1>5, <1>4
    <3>2. from(j) >= i
      BY <3>1, <1>4
    <3>3. from(j) \in Occupied(slots) /\ from(j) # i /\ from(j) \in Nat
          /\ w[j].item = slots[from(j)].item
      BY <1>5, <1>3
    <3> HIDE DEF from
    <3>4. from(j) > i
      BY <3>2, <3>3, <1>4
    <3> QED
      BY <3>1, <3>3, <3>4
  <2> QED
    BY <2>1, <2>2
<1>12. ASSUME NEW j \in Occupied(slots), j < i
       PROVE  j \in Occupied(w) /\ w[j] = slots[j]
  <2>1. j # last
    BY <1>12, <1>2, <1>3, <1>4
  <2>2. j \in Occupied(w)
    BY <2>1, <1>2
  <2> QED
    BY <2>2, <1>12, <1>5
<1> QED
  BY <1>8, <1>9, <1>10, <1>11, <1>12 DEF w

-----------------------------------------------------------------------------
(* Erasing a range *)

(* How far the elements behind the range move up: never beyond their home, *)
(* never more than the one before.                                         *)
LEMMA MoveUpFacts ==
  ASSUME InOrder, NEW first \in Nat, NEW end \in first + 1 .. size + lookups - 1,
         NEW i \in end .. NextHome(end) - 1
  PROVE  LET up(k) == MoveUp(first, end, k)
         IN  /\ slots[i].dist \in Nat /\ slots[i].dist >= 1
             /\ up(i) \in 1 .. end - first /\ up(i) <= slots[i].dist
             /\ \A k \in i .. NextHome(end) - 1 : up(k) <= up(i)
             /\ i = end => up(i) \in {slots[i].dist, end - first}
             /\ i # end => up(i) \in {slots[i].dist, up(i - 1)}
<1> DEFINE next == NextHome(end)
           S(k) == {end - first} \cup {slots[j].dist : j \in end .. k}
           up(k) == MoveUp(first, end, k)
<1>1. size \in Nat \ {0} /\ lookups \in Nat \ {0} /\ Layout(slots, size, lookups)
  BY DEF InOrder
<1>2. end \in 0 .. size + lookups - 1 /\ end \in Nat /\ end - first \in Nat /\ end - first >= 1
  BY <1>1
<1>3. /\ next \in end .. size + lookups - 1
      /\ \A j \in end .. next - 1 : j \in Occupied(slots) /\ slots[j].dist >= 1
  BY <1>2, RowEnds
<1> HIDE DEF next
<1>4. ASSUME NEW j \in end .. next - 1
      PROVE  slots[j].dist \in Nat /\ slots[j].dist >= 1 /\ j \in Nat
  <2>1. j \in 0 .. size + lookups - 1 /\ j \in Nat
    BY <1>2, <1>3, <1>1
  <2>2. slots[j].dist \in Int /\ slots[j].dist >= 1
    BY <2>1, <1>1, <1>3, Slots
  <2> QED
    BY <2>1, <2>2
<1>5. ASSUME NEW k \in end .. next - 1
      PROVE  up(k) \in S(k) /\ \A m \in S(k) : up(k) <= m
  <2>1. end .. k \subseteq end .. next - 1
    BY <1>2, <1>3
  <2>2. S(k) \subseteq Nat
    BY <2>1, <1>2, <1>4
  <2>3. S(k) # {}
    OBVIOUS
  <2> HIDE DEF S
  <2>4. Min(S(k)) \in S(k) /\ \A m \in S(k) : Min(S(k)) <= m
    BY <2>2, <2>3, MinIsLeast
  <2> QED
    BY <2>4 DEF MoveUp, S
<1>6. ASSUME NEW k \in end .. next - 1
      PROVE  up(k) \in 1 .. end - first /\ up(k) <= slots[k].dist
  <2>1. \A m \in S(k) : m \in Nat /\ m >= 1
    <3>1. \A j \in end .. k : j \in end .. next - 1
      BY <1>2, <1>3
    <3> QED
      BY <3>1, <1>4, <1>2
  <2>2. end - first \in S(k) /\ slots[k].dist \in S(k)
    <3>1. k \in end .. k
      BY <1>2
    <3> QED
      BY <3>1
  <2> HIDE DEF S, up
  <2>3. up(k) \in Nat /\ up(k) >= 1 /\ up(k) <= end - first /\ up(k) <= slots[k].dist
    BY <2>1, <2>2, <1>5
  <2> QED
    BY <2>3, <1>2
<1>7. i \in end .. next - 1 /\ i \in Nat
  BY <1>4 DEF next
<1>8. ASSUME NEW k \in i .. next - 1 PROVE up(k) <= up(i)
  <2>1. k \in end .. next - 1 /\ k \in Nat
    BY <1>7, <1>2
  <2>2. S(i) \subseteq S(k)
    <3>1. \A j \in end .. i : j \in end .. k
      BY <1>7, <1>2
    <3> QED
      BY <3>1
  <2> HIDE DEF S, up
  <2> QED
    BY <2>1, <2>2, <1>5, <1>7
<1>9. i = end => up(i) \in {slots[i].dist, end - first}
  <2>1. ASSUME i = end PROVE S(i) = {end - first} \cup {slots[i].dist}
    <3>1. end .. i = {i}
      BY <2>1, <1>2
    <3> QED
      BY <3>1
  <2> HIDE DEF S, up
  <2> QED
    BY <2>1, <1>5, <1>7
<1>10. i # end => up(i) \in {slots[i].dist, up(i - 1)}
  <2> SUFFICES ASSUME i # end PROVE up(i) \in {slots[i].dist, up(i - 1)}
    OBVIOUS
  <2>1. i - 1 \in end .. next - 1
    BY <1>7, <1>2, <1>3
  <2>2. S(i) = S(i - 1) \cup {slots[i].dist}
    <3>1. end .. i = (end .. i - 1) \cup {i}
      BY <1>7, <1>2
    <3> QED
      BY <3>1
  <2> HIDE DEF S, up
  <2>3. up(i) \in S(i) /\ up(i - 1) \in S(i - 1) /\ \A m \in S(i) : up(i) <= m
    BY <2>1, <1>5, <1>7
  <2>4. \A m \in S(i - 1) : up(i - 1) <= m
    BY <2>1, <1>5
  <2>5. up(i) \in Nat /\ up(i - 1) \in Nat
    <3>1. up(i) \in 1 .. end - first /\ up(i - 1) \in 1 .. end - first
      BY <2>1, <1>6, <1>7
    <3> QED
      BY <3>1, <1>2
  <2>6. CASE up(i) = slots[i].dist
    BY <2>6
  <2>7. CASE up(i) \in S(i - 1)
    <3>1. up(i - 1) <= up(i) /\ up(i) <= up(i - 1)
      BY <2>2, <2>3, <2>4, <2>7
    <3> QED
      BY <3>1, <2>5
  <2> QED
    BY <2>2, <2>3, <2>6, <2>7
<1> QED
  BY <1>4, <1>6, <1>7, <1>8, <1>9, <1>10 DEF next

(* Where the elements of the row behind the range are afterwards *)
LEMMA RangeElements ==
  ASSUME InOrder, NEW first \in Nat, NEW end \in first + 1 .. size + lookups - 1
  PROVE  LET w == ErasedRange(first, end)
             next == NextHome(end)
             up(i) == MoveUp(first, end, i)
         IN  /\ next \in end .. size + lookups - 1
             /\ \A i \in end .. next - 1 :
                  /\ i \in Occupied(slots)
                  /\ i - up(i) \in first .. next - 2
                  /\ w[i - up(i)] = [dist |-> slots[i].dist - up(i), item |-> slots[i].item]
             /\ \A i, k \in end .. next - 1 : i < k => i - up(i) < k - up(k)
             /\ \A j \in first .. next - 1 :
                  \/ w[j] = Empty
                  \/ \E i \in end .. next - 1 : i - up(i) = j
             /\ \A j \in 0 .. size + lookups - 1 : j \notin first .. next - 1 => w[j] = slots[j]
             /\ DOMAIN w = 0 .. size + lookups - 1
<1> DEFINE next == NextHome(end)
           up(i) == MoveUp(first, end, i)
           w == ErasedRange(first, end)
           To(j) == {i \in end .. next - 1 : i - MoveUp(first, end, i) = j}
<1>1. size \in Nat \ {0} /\ lookups \in Nat \ {0} /\ Layout(slots, size, lookups)
  BY DEF InOrder
<1>2. end \in 0 .. size + lookups - 1 /\ end \in Nat /\ first < end
  BY <1>1
<1>3. /\ next \in end .. size + lookups - 1
      /\ \A j \in end .. next - 1 : j \in Occupied(slots)
  BY <1>2, RowEnds
<1>4. next \in Nat /\ \A i \in end .. next - 1 : i \in Nat
  <2> HIDE DEF next
  <2> QED
    BY <1>2, <1>3
<1>5. ASSUME NEW i \in end .. next - 1
      PROVE  /\ up(i) \in 1 .. end - first
             /\ \A k \in i .. next - 1 : up(k) <= up(i)
  BY MoveUpFacts
<1>6. ASSUME NEW i \in end .. next - 1, NEW k \in end .. next - 1, i < k
      PROVE  i - up(i) < k - up(k)
  <2> HIDE DEF next, up
  <2>1. k \in i .. next - 1 /\ i \in Nat /\ k \in Nat
    BY <1>4, <1>6
  <2>2. up(k) <= up(i) /\ up(k) \in Int /\ up(i) \in Int
    BY <2>1, <1>5
  <2> QED
    BY <2>1, <2>2, <1>6
<1>7. ASSUME NEW i \in end .. next - 1
      PROVE  i - up(i) \in first .. next - 2 /\ i - up(i) \in 0 .. size + lookups - 1
  <2> HIDE DEF next, up
  <2> QED
    BY <1>1, <1>2, <1>3, <1>4, <1>5
<1>8. ASSUME NEW i \in end .. next - 1 PROVE To(i - up(i)) = {i}
  <2>1. i \in To(i - up(i))
    OBVIOUS
  <2>2. ASSUME NEW k \in To(i - up(i)) PROVE k = i
    <3>1. k \in end .. next - 1 /\ k - up(k) = i - up(i)
      OBVIOUS
    <3> HIDE DEF next, up, To
    <3>2. ~ (i < k) /\ ~ (k < i)
      <4>1. up(i) \in Int /\ up(k) \in Int /\ i \in Nat /\ k \in Nat
        BY <3>1, <1>4, <1>5
      <4>2. i < k => i - up(i) < k - up(k)
        BY <3>1, <1>6
      <4>3. k < i => k - up(k) < i - up(i)
        BY <3>1, <1>6
      <4> QED
        BY <3>1, <4>1, <4>2, <4>3
    <3> QED
      BY <3>1, <3>2, <1>4
  <2> HIDE DEF To
  <2> QED
    BY <2>1, <2>2
<1>9. DOMAIN slots = 0 .. size + lookups - 1
  BY <1>1 DEF Layout
<1>10. /\ DOMAIN w = 0 .. size + lookups - 1
       /\ \A j \in 0 .. size + lookups - 1 :
            w[j] = IF To(j) # {}
                   THEN [dist |-> slots[Min(To(j))].dist - MoveUp(first, end, Min(To(j))),
                         item |-> slots[Min(To(j))].item]
                   ELSE IF j \in first .. next - 1 THEN Empty ELSE slots[j]
  BY <1>9, Zenon DEF ErasedRange
<1> HIDE DEF w
<1>11. ASSUME NEW i \in end .. next - 1
       PROVE  w[i - up(i)] = [dist |-> slots[i].dist - up(i), item |-> slots[i].item]
  <2>1. To(i - up(i)) # {} /\ i - up(i) \in 0 .. size + lookups - 1
    BY <1>7, <1>8
  <2>2. Min(To(i - up(i))) = i
    <3>1. To(i - up(i)) \subseteq Nat /\ To(i - up(i)) # {}
      BY <1>4, <2>1
    <3> HIDE DEF To
    <3>2. Min(To(i - up(i))) \in To(i - up(i))
      BY <3>1, MinIsLeast
    <3> QED
      BY <3>2, <1>8
  <2> HIDE DEF To
  <2> QED
    BY <2>1, <2>2, <1>10
<1>12. ASSUME NEW j \in first .. next - 1
       PROVE  w[j] = Empty \/ \E i \in end .. next - 1 : i - up(i) = j
  <2>1. j \in 0 .. size + lookups - 1
    <3> HIDE DEF next
    <3> QED
      BY <1>1, <1>3, <1>4
  <2>2. CASE To(j) = {}
    BY <2>1, <2>2, <1>10
  <2>3. CASE To(j) # {}
    BY <2>3
  <2> QED
    BY <2>2, <2>3
<1>13. ASSUME NEW j \in 0 .. size + lookups - 1, j \notin first .. next - 1
       PROVE  w[j] = slots[j]
  <2>1. To(j) = {}
    <3> SUFFICES ASSUME NEW i \in To(j) PROVE FALSE
      OBVIOUS
    <3>1. i \in end .. next - 1 /\ i - up(i) = j
      OBVIOUS
    <3> HIDE DEF To, next, up
    <3>2. j \in first .. next - 2
      BY <3>1, <1>7
    <3>3. j \in first .. next - 1
      BY <3>2, <1>4
    <3> QED
      BY <3>3, <1>13
  <2> QED
    BY <2>1, <1>10, <1>13
<1> HIDE DEF next, up
<1> QED
  BY <1>3, <1>6, <1>7, <1>10, <1>11, <1>12, <1>13 DEF next, up, w

LEMMA RangeItems ==
  ASSUME InOrder, NEW first \in Nat, NEW end \in first + 1 .. size + lookups - 1,
         end \in Occupied(slots) \cup {End}
  PROVE  LET w == ErasedRange(first, end)
             at == AfterRange(first, end)
             left == Occupied(slots) \ (first .. end - 1)
         IN  /\ Apart(w)
             /\ Cardinality(Occupied(w)) = Cardinality(Occupied(slots))
                  - Cardinality(Occupied(slots) \cap (first .. end - 1))
             /\ {w[j].item : j \in Occupied(w)} = {slots[j].item : j \in left}
             /\ at \in Occupied(w) \cup {End} /\ at >= first
             /\ \A j \in Occupied(w) :
                  \/ j < at /\ j < first /\ j \in Occupied(slots) /\ w[j] = slots[j]
                  \/ j >= at /\ \E m \in Occupied(slots) : m >= end /\ w[j].item = slots[m].item
             /\ \A j \in Occupied(slots) : j < first => j \in Occupied(w) /\ w[j] = slots[j]
<1> DEFINE w == ErasedRange(first, end)
           next == NextHome(end)
           up(i) == MoveUp(first, end, i)
           left == Occupied(slots) \ (first .. end - 1)
           to(i) == IF i \in end .. next - 1 THEN i - up(i) ELSE i
           at == AfterRange(first, end)
<1>1. size \in Nat \ {0} /\ lookups \in Nat \ {0} /\ Layout(slots, size, lookups) /\ Apart(slots)
  BY DEF InOrder
<1>2. /\ next \in end .. size + lookups - 1
      /\ \A i \in end .. next - 1 :
           /\ i \in Occupied(slots)
           /\ i - up(i) \in first .. next - 2
           /\ w[i - up(i)] = [dist |-> slots[i].dist - up(i), item |-> slots[i].item]
      /\ \A i, k \in end .. next - 1 : i < k => i - up(i) < k - up(k)
      /\ \A j \in first .. next - 1 :
           \/ w[j] = Empty
           \/ \E i \in end .. next - 1 : i - up(i) = j
      /\ \A j \in 0 .. size + lookups - 1 : j \notin first .. next - 1 => w[j] = slots[j]
      /\ DOMAIN w = 0 .. size + lookups - 1
  BY RangeElements
<1>3. end \in Nat /\ first < end /\ end <= size + lookups - 1 /\ End = size + lookups - 1 /\ End \in Nat
  BY <1>1 DEF End
<1>4. next \in Nat
  <2> HIDE DEF next
  <2> QED
    BY <1>2, <1>3
<1>5. DOMAIN slots = 0 .. size + lookups - 1
  BY <1>1 DEF Layout
<1> HIDE DEF w, next, up, at
<1>6. \A m \in Occupied(slots) : m \in 0 .. size + lookups - 1 /\ m \in Nat /\ slots[m].item # NoItem
  BY <1>5 DEF Occupied
<1>7. ASSUME NEW m \in left
      PROVE  to(m) \in Occupied(w) /\ w[to(m)].item = slots[m].item
  <2>1. m \in Occupied(slots) /\ m \notin first .. end - 1
    OBVIOUS
  <2>2. CASE m \in end .. next - 1
    <3>1. m - up(m) \in first .. next - 2 /\ w[m - up(m)] = [dist |-> slots[m].dist - up(m), item |-> slots[m].item]
      BY <2>2, <1>2
    <3>2. m - up(m) \in DOMAIN w
      BY <3>1, <1>2, <1>3, <1>4
    <3>3. w[m - up(m)].item = slots[m].item
      BY <3>1
    <3> QED
      BY <2>1, <2>2, <3>2, <3>3, <1>6 DEF Occupied
  <2>3. CASE m \notin end .. next - 1
    <3>1. m \notin first .. next - 1
      BY <2>1, <2>3, <1>6, <1>3, <1>4
    <3>2. w[m] = slots[m]
      BY <2>1, <3>1, <1>2, <1>6
    <3> QED
      BY <2>1, <2>3, <3>2, <1>2, <1>6 DEF Occupied
  <2> QED
    BY <2>2, <2>3
<1>8. ASSUME NEW j \in Occupied(w)
      PROVE  \E m \in left : to(m) = j
  <2>1. j \in 0 .. size + lookups - 1 /\ w[j].item # NoItem
    BY <1>2 DEF Occupied
  <2>2. CASE j \in first .. next - 1
    <3>1. w[j] # Empty
      BY <2>1, ItemFacts
    <3>2. PICK i \in end .. next - 1 : i - up(i) = j
      BY <2>2, <3>1, <1>2
    <3>3. i \in left
      <4>1. i \in Occupied(slots)
        BY <1>2
      <4>2. i \notin first .. end - 1
        BY <1>3, <1>4
      <4> QED
        BY <4>1, <4>2
    <3> QED
      BY <3>2, <3>3
  <2>3. CASE j \notin first .. next - 1
    <3>1. w[j] = slots[j]
      BY <2>1, <2>3, <1>2
    <3>2. j \in Occupied(slots)
      BY <2>1, <3>1, <1>5 DEF Occupied
    <3>3. j \notin first .. end - 1 /\ j \notin end .. next - 1
      BY <2>1, <2>3, <1>2, <1>3, <1>4
    <3> QED
      BY <3>2, <3>3
  <2> QED
    BY <2>2, <2>3
<1>9. ASSUME NEW m \in left, NEW n \in left, to(m) = to(n)
      PROVE  m = n
  <2>1. /\ m \in Nat /\ n \in Nat /\ m \notin first .. end - 1 /\ n \notin first .. end - 1
    BY <1>6
  <2>2. CASE m \in end .. next - 1 /\ n \in end .. next - 1
    <3>1. m - up(m) = n - up(n)
      BY <2>2, <1>9
    <3>2. m - up(m) \in first .. next - 2 /\ n - up(n) \in first .. next - 2
      BY <2>2, <1>2
    <3>3. (m < n => m - up(m) < n - up(n)) /\ (n < m => n - up(n) < m - up(m))
      BY <2>2, <1>2
    <3>4. ~ (m < n) /\ ~ (n < m)
      BY <3>1, <3>2, <3>3, <1>4
    <3> QED
      BY <3>4, <2>1
  <2>3. CASE m \in end .. next - 1 /\ n \notin end .. next - 1
    <3>1. n = m - up(m)
      BY <2>3, <1>9
    <3>2. n \in first .. next - 2
      BY <2>3, <1>2, <3>1
    <3> QED
      BY <3>2, <2>1, <2>3, <1>3, <1>4
  <2>4. CASE n \in end .. next - 1 /\ m \notin end .. next - 1
    <3>1. m = n - up(n)
      BY <2>4, <1>9
    <3>2. m \in first .. next - 2
      BY <2>4, <1>2, <3>1
    <3> QED
      BY <3>2, <2>1, <2>4, <1>3, <1>4
  <2>5. CASE m \notin end .. next - 1 /\ n \notin end .. next - 1
    BY <2>5, <1>9
  <2> QED
    BY <2>2, <2>3, <2>4, <2>5
<1>10. Apart(w)
  <2> SUFFICES ASSUME NEW j \in Occupied(w), NEW k \in Occupied(w),
                      w[j].item.key = w[k].item.key
               PROVE  j = k
    BY DEF Apart
  <2> HIDE DEF to
  <2>1. PICK m \in left : to(m) = j
    BY <1>8
  <2>2. PICK n \in left : to(n) = k
    BY <1>8
  <2>3. slots[m].item.key = slots[n].item.key
    BY <2>1, <2>2, <1>7
  <2>4. m = n
    BY <2>3, <1>1 DEF Apart
  <2> QED
    BY <2>1, <2>2, <2>4
<1>11. Cardinality(Occupied(w)) = Cardinality(Occupied(slots))
           - Cardinality(Occupied(slots) \cap (first .. end - 1))
  <2> DEFINE f == [m \in left |-> to(m)]
  <2>1. IsFiniteSet(Occupied(slots))
    BY <1>1, OccupiedFinite
  <2>2. IsFiniteSet(left) /\ Cardinality(left) = Cardinality(Occupied(slots)) - Cardinality(Occupied(slots) \cap (first .. end - 1))
    BY <2>1, FS_Difference
  <2>3. f \in Bijection(left, Occupied(w))
    <3> HIDE DEF to, left
    <3>1. f \in [left -> Occupied(w)]
      BY <1>7
    <3>2. IsInjective(f)
      BY <1>9 DEF IsInjective
    <3>3. \A j \in Occupied(w) : \E m \in left : f[m] = j
      BY <1>8
    <3> HIDE DEF f
    <3> QED
      BY <3>1, <3>2, <3>3 DEF Bijection, Injection, Surjection
  <2>4. ExistsBijection(left, Occupied(w))
    <3> HIDE DEF f, left
    <3> QED
      BY <2>3 DEF ExistsBijection
  <2>5. Cardinality(Occupied(w)) = Cardinality(left)
    <3> HIDE DEF left
    <3> QED
      BY <2>2, <2>4, FS_Bijection
  <2> QED
    BY <2>2, <2>5
<1>12. {w[j].item : j \in Occupied(w)} = {slots[j].item : j \in left}
  <2> HIDE DEF to, left
  <2>1. ASSUME NEW j \in Occupied(w) PROVE \E m \in left : w[j].item = slots[m].item
    BY <1>7, <1>8
  <2>2. ASSUME NEW m \in left PROVE \E j \in Occupied(w) : slots[m].item = w[j].item
    BY <1>7
  <2> QED
    BY <2>1, <2>2
<1>13. at = to(end) /\ (end = End => at = End)
  <2>1. CASE end = next
    <3>1. end \notin end .. next - 1
      BY <2>1, <1>3
    <3> QED
      BY <2>1, <3>1, <1>3 DEF AfterRange, at, next
  <2>2. CASE end # next
    <3>1. end \in end .. next - 1 /\ end # End
      BY <2>2, <1>2, <1>3, <1>4
    <3> QED
      BY <2>2, <3>1 DEF AfterRange, at, next, up
  <2> QED
    BY <2>1, <2>2
<1>14. at \in Nat /\ at >= first
  <2>1. CASE end \in end .. next - 1
    <3>1. end - up(end) \in first .. next - 2
      BY <2>1, <1>2
    <3> QED
      BY <2>1, <3>1, <1>13, <1>4
  <2>2. CASE end \notin end .. next - 1
    BY <2>2, <1>13, <1>3
  <2> QED
    BY <2>1, <2>2
<1>15. at \in Occupied(w) \cup {End}
  <2>1. CASE end = End
    BY <2>1, <1>13
  <2>2. CASE end # End
    <3>1. end \in left
      BY <2>2, <1>3
    <3> QED
      BY <3>1, <1>7, <1>13
  <2> QED
    BY <2>1, <2>2
<1>16. ASSUME NEW m \in left
       PROVE  /\ m < first => to(m) = m /\ to(m) < at
              /\ ~ (m < first) => m >= end /\ to(m) >= at
  <2>1. m \in Nat /\ m \notin first .. end - 1
    BY <1>6
  <2>2. ASSUME m < first PROVE to(m) = m /\ to(m) < at
    BY <2>1, <2>2, <1>3, <1>14
  <2>3. ASSUME ~ (m < first) PROVE m >= end /\ to(m) >= at
    <3>1. m >= end
      BY <2>1, <2>3, <1>3
    <3>2. CASE m \in end .. next - 1
      <4>1. end \in end .. next - 1
        BY <3>2, <1>3, <1>4
      <4>2. m - up(m) \in first .. next - 2 /\ end - up(end) \in first .. next - 2
        BY <3>2, <4>1, <1>2
      <4>3. end < m => end - up(end) < m - up(m)
        BY <3>2, <4>1, <1>2
      <4>4. at = end - up(end) /\ to(m) = m - up(m)
        BY <4>1, <3>2, <1>13
      <4>5. m = end \/ end < m
        BY <3>1, <2>1, <1>3
      <4> QED
        BY <3>1, <4>2, <4>3, <4>4, <4>5
    <3>3. CASE m \notin end .. next - 1
      <4>1. m >= next
        BY <3>1, <3>3, <2>1, <1>3, <1>4
      <4>2. at <= next
        <5>1. CASE end \in end .. next - 1
          <6>1. end - up(end) \in first .. next - 2
            BY <5>1, <1>2
          <6> QED
            BY <5>1, <6>1, <1>13, <1>4
        <5>2. CASE end \notin end .. next - 1
          BY <5>2, <1>13, <1>2, <1>3
        <5> QED
          BY <5>1, <5>2
      <4> QED
        BY <3>1, <3>3, <4>1, <4>2, <2>1, <1>4, <1>14
    <3> QED
      BY <3>1, <3>2, <3>3
  <2> QED
    BY <2>2, <2>3
<1>17. ASSUME NEW j \in Occupied(w)
       PROVE  \/ j < at /\ j < first /\ j \in Occupied(slots) /\ w[j] = slots[j]
              \/ j >= at /\ \E m \in Occupied(slots) : m >= end /\ w[j].item = slots[m].item
  <2>1. PICK m \in left : to(m) = j
    BY <1>8
  <2>2. CASE m < first
    <3>1. m = j /\ j < at /\ j \in Occupied(slots)
      BY <2>1, <2>2, <1>16
    <3>2. w[j] = slots[j]
      BY <3>1, <2>2, <1>2, <1>6
    <3> QED
      BY <3>1, <3>2, <2>2
  <2>3. CASE ~ (m < first)
    <3> HIDE DEF to
    <3> QED
      BY <2>1, <2>3, <1>7, <1>16
  <2> QED
    BY <2>2, <2>3
<1>18. ASSUME NEW j \in Occupied(slots), j < first
       PROVE  j \in Occupied(w) /\ w[j] = slots[j]
  <2>1. j \notin first .. next - 1 /\ j \in 0 .. size + lookups - 1
    BY <1>18, <1>6
  <2>2. w[j] = slots[j]
    BY <2>1, <1>2
  <2> QED
    BY <2>1, <2>2, <1>2, <1>6 DEF Occupied
<1> QED
  BY <1>10, <1>11, <1>12, <1>14, <1>15, <1>17, <1>18 DEF w, at

(* Moving a row up leaves each element within reach of its home, the first *)
(* of them included: before the gap lay what it had passed on its way.     *)
LEMMA RangeLayout ==
  ASSUME InOrder, NEW first \in Nat, NEW end \in first + 1 .. size + lookups - 1
  PROVE  Layout(ErasedRange(first, end), size, lookups)
<1> DEFINE E == size + lookups - 1
           w == ErasedRange(first, end)
           next == NextHome(end)
           up(i) == MoveUp(first, end, i)
<1>1. size \in Nat \ {0} /\ lookups \in Nat \ {0} /\ Layout(slots, size, lookups)
  BY DEF InOrder
<1>2. /\ next \in end .. E
      /\ \A i \in end .. next - 1 :
           /\ i \in Occupied(slots)
           /\ i - up(i) \in first .. next - 2
           /\ w[i - up(i)] = [dist |-> slots[i].dist - up(i), item |-> slots[i].item]
      /\ \A j \in first .. next - 1 :
           \/ w[j] = Empty
           \/ \E i \in end .. next - 1 : i - up(i) = j
      /\ \A j \in 0 .. E : j \notin first .. next - 1 => w[j] = slots[j]
      /\ DOMAIN w = 0 .. E
  BY RangeElements
<1>3. \A i \in end .. next - 1 :
        /\ slots[i].dist \in Nat /\ slots[i].dist >= 1
        /\ up(i) \in 1 .. end - first /\ up(i) <= slots[i].dist
        /\ i = end => up(i) \in {slots[i].dist, end - first}
        /\ i # end => up(i) \in {slots[i].dist, up(i - 1)}
  BY MoveUpFacts
<1>4. end \in 0 .. E /\ end \in Nat /\ first < end /\ E \in Nat /\ E = size + lookups - 1
  BY <1>1
<1>5. slots[next].dist <= 0
  BY <1>4, RowEnds
<1> HIDE DEF w, next, up, E
<1>6. next \in Nat
  BY <1>2, <1>4
<1>7. w[E] = Sentinel
  <2>1. E \in 0 .. E /\ E \notin first .. next - 1
    BY <1>2, <1>4, <1>6
  <2>2. w[E] = slots[E]
    BY <2>1, <1>2
  <2> QED
    BY <2>2, <1>1, <1>4 DEF Layout
<1>8. ASSUME NEW i \in end .. next - 1
      PROVE  Element(w, i - up(i), size, lookups)
  <2> DEFINE j == i - up(i)
  <2>1. /\ i \in Occupied(slots) /\ j \in first .. next - 2
        /\ w[j] = [dist |-> slots[i].dist - up(i), item |-> slots[i].item]
    BY <1>2
  <2>2. /\ slots[i].dist \in Nat /\ slots[i].dist >= 1
        /\ up(i) \in Nat /\ up(i) >= 1 /\ up(i) <= slots[i].dist
        /\ i = end => up(i) \in {slots[i].dist, end - first}
        /\ i # end => up(i) \in {slots[i].dist, up(i - 1)}
    BY <1>3
  <2>3. Element(slots, i, size, lookups) /\ i \in Nat
    BY <2>1, <1>1, <1>4, Slots
  <2>4. /\ slots[i].dist \in 0 .. lookups - 1 /\ slots[i].item \in Item
        /\ slots[i].item.key \in Key
        /\ slots[i].dist = i - (Hash[slots[i].item.key] % size)
    BY <2>3, ItemFacts DEF Element
  <2>5. Hash[slots[i].item.key] % size \in Nat
    BY <2>4, <1>1, ItemFacts
  <2>6. w[j].dist = slots[i].dist - up(i) /\ w[j].item = slots[i].item
    BY <2>1
  <2>7. slots[i].dist - up(i) \in 0 .. lookups - 1
    BY <2>2, <2>4, <1>1
  <2>8. w[j] \in [dist : 0 .. lookups - 1, item : Item]
    BY <2>1, <2>4, <2>7
  <2>9. w[j].dist = j - (Hash[w[j].item.key] % size)
    BY <2>2, <2>3, <2>4, <2>5, <2>6
  <2>10. w[j].dist = 0 \/ w[j - 1].dist >= w[j].dist - 1
    <3> SUFFICES ASSUME up(i) # slots[i].dist PROVE w[j - 1].dist >= w[j].dist - 1
      BY <2>2, <2>6
    <3>1. CASE i = end
      <4>1. up(i) = end - first /\ j = first
        BY <3>1, <2>2, <1>4
      <4>2. /\ Hash[slots[i].item.key] % size <= first - 1 /\ first - 1 <= i /\ first - 1 \in 0 .. E
        BY <4>1, <3>1, <2>2, <2>4, <2>5, <1>4
      <4>3. slots[first - 1].dist >= (first - 1) - (Hash[slots[i].item.key] % size)
        <5>1. \A m \in (Hash[slots[i].item.key] % size) .. i :
                slots[m].dist >= m - (Hash[slots[i].item.key] % size)
          BY <2>1, <1>1, Chain
        <5>2. first - 1 \in (Hash[slots[i].item.key] % size) .. i
          BY <4>2, <2>3, <2>5
        <5> QED
          BY <5>1, <5>2
      <4>4. slots[first - 1].dist \in Int
        BY <4>2, <1>1, <1>4, Slots
      <4>5. w[j - 1] = slots[first - 1]
        BY <4>1, <4>2, <1>2, <1>6
      <4> QED
        BY <4>1, <4>3, <4>4, <4>5, <3>1, <2>2, <2>4, <2>5, <2>6, <1>4
    <3>2. CASE i # end
      <4>1. up(i) = up(i - 1) /\ i - 1 \in end .. next - 1
        BY <3>2, <2>2, <1>4, <1>6
      <4>2. w[(i - 1) - up(i - 1)] = [dist |-> slots[i - 1].dist - up(i - 1), item |-> slots[i - 1].item]
        BY <4>1, <1>2
      <4>3. (i - 1) - up(i - 1) = j - 1
        BY <4>1, <2>2, <2>3
      <4>4. w[j - 1].dist = slots[i - 1].dist - up(i)
        BY <4>1, <4>2, <4>3
      <4>5. slots[i - 1].dist >= slots[i].dist - 1
        BY <2>2, <2>3 DEF Element
      <4>6. slots[i - 1].dist \in Nat
        BY <4>1, <1>3
      <4> QED
        BY <4>4, <4>5, <4>6, <2>2, <2>6
    <3> QED
      BY <3>1, <3>2
  <2> QED
    BY <2>8, <2>9, <2>10 DEF Element
<1>9. ASSUME NEW j \in 0 .. size + lookups - 2
      PROVE  w[j] = Empty \/ Element(w, j, size, lookups)
  <2>1. j \in 0 .. E /\ j \in Nat
    BY <1>4, <1>1
  <2>2. CASE j \in first .. next - 1
    <3>1. CASE w[j] = Empty
      BY <3>1
    <3>2. CASE \E i \in end .. next - 1 : i - up(i) = j
      BY <3>2, <1>8
    <3> QED
      BY <2>2, <3>1, <3>2, <1>2
  <2>3. CASE j \notin first .. next - 1
    <3>1. w[j] = slots[j]
      BY <2>1, <2>3, <1>2
    <3>2. slots[j].dist \in Int
      BY <2>1, <1>1, <1>4, Slots
    <3>3. CASE slots[j] = Empty
      BY <3>1, <3>3
    <3>4. CASE Element(slots, j, size, lookups) /\ slots[j].dist = 0
      BY <3>1, <3>4 DEF Element
    <3>5. CASE Element(slots, j, size, lookups) /\ slots[j].dist # 0
      <4>1. slots[j].dist >= 1 /\ slots[j].item.key \in Key
        BY <3>5, <3>2, ItemFacts DEF Element
      <4>2. Hash[slots[j].item.key] % size \in Nat
        BY <4>1, <1>1, ItemFacts
      <4>3. j - 1 \in 0 .. E
        BY <3>5, <4>1, <4>2, <2>1, <3>2, <1>4 DEF Element
      <4>4. j # next
        BY <4>1, <1>5, <3>2
      <4>5. j - 1 \notin first .. next - 1
        BY <4>4, <2>3, <1>6, <2>1
      <4>6. w[j - 1] = slots[j - 1]
        BY <4>3, <4>5, <1>2
      <4> QED
        BY <3>1, <3>5, <4>6 DEF Element
    <3> QED
      BY <3>3, <3>4, <3>5, <1>1 DEF Layout
  <2> QED
    BY <2>2, <2>3
<1> QED
  BY <1>2, <1>4, <1>7, <1>9 DEF Layout, w

-----------------------------------------------------------------------------
(* The inductive invariant *)

(* The element in the hand belongs in front of it, the one before where it *)
(* is tried is not nearer to its home, the new element has its place, and  *)
(* there is a lookup left, so that the end of the array is not reached.    *)
InHand ==
  /\ hand \in [item : Item, dist : 1 .. lookups - 1,
               at : 0 .. size + lookups - 2, result : 0 .. size + lookups - 2]
  /\ hand.dist = hand.at - (Hash[hand.item.key] % size)
  /\ slots[hand.at - 1].dist >= hand.dist - 1
  /\ hand.result < hand.at
  /\ todo # <<>> /\ slots[hand.result].item = Head(todo)
  /\ \A i \in Occupied(slots) : slots[i].item.key # hand.item.key

HandInv == hand = NoHand \/ InHand

(* What comes is there once.  Only an element that a caller emplaces may   *)
(* have a key of the table; one that a rehash brings has not.              *)
Comes(n) ==
  \/ IF hand = NoHand THEN Len(todo) = 1 ELSE n = 1
  \/ /\ \A i \in Occupied(slots) : slots[i].item.key # todo[n].key
     /\ hand = NoHand \/ hand.item.key # todo[n].key

TodoInv ==
  /\ todo \in Seq(Item)
  /\ Distinct(todo)
  /\ \A n \in DOMAIN todo : Comes(n)

(* An iterator is on an element or at the end, nothing waits, and it has   *)
(* seen what is before it.                                                 *)
CursorInv ==
  \/ cursor = NoCursor
  \/ /\ cursor \in [at : Nat, seen : SUBSET Key, valid : {TRUE}]
     /\ todo = <<>>
     /\ cursor.at \in Occupied(slots) \cup {End}
     /\ \A i \in Occupied(slots) : slots[i].item.key \in cursor.seen <=> i < cursor.at

IInv ==
  /\ InOrder
  /\ maxLoad \in Loads
  /\ SizeCounts
  /\ HandInv
  /\ TodoInv
  /\ CursorInv

-----------------------------------------------------------------------------
(* New arrays and what a rehash brings into them *)

LEMMA FreshLayout ==
  ASSUME NEW n \in Nat \ {0}, NEW l \in Nat \ {0}
  PROVE  Layout(Fresh(n, l), n, l) /\ Occupied(Fresh(n, l)) = {} /\ Apart(Fresh(n, l))
<1> DEFINE f == Fresh(n, l)
<1>1. /\ DOMAIN f = 0 .. n + l - 1
      /\ \A i \in 0 .. n + l - 1 : f[i] = IF i = n + l - 1 THEN Sentinel ELSE Empty
  BY DEF Fresh
<1> HIDE DEF f
<1>2. f[n + l - 1] = Sentinel /\ \A i \in 0 .. n + l - 2 : f[i] = Empty
  BY <1>1
<1>3. Layout(f, n, l)
  BY <1>1, <1>2 DEF Layout
<1>4. Occupied(f) = {}
  BY <1>1, ItemFacts DEF Occupied
<1> QED
  BY <1>3, <1>4 DEF Apart, f

(* Every size has its number of lookups. *)
LEMMA LookupsType ==
  ASSUME NEW m \in Sizes
  PROVE  m \in Nat \ {0} /\ LookupsFor[m] \in Nat \ {0}
<1>1. m \in Nat \ {0} /\ MinLookups \in Nat \ {0, 1}
  BY FlatAssumption DEF FlatAssumption
<1>2. Log2(m) \in 0 .. m
  BY PowersAssumption DEF PowersAssumption, Log2
<1>3. /\ Max({MinLookups, Log2(m)}) \in {MinLookups, Log2(m)}
      /\ Max({MinLookups, Log2(m)}) >= MinLookups
  <2>1. MinLookups \in Int /\ Log2(m) \in Int
    BY <1>1, <1>2
  <2> QED
    BY <2>1, MaxOfTwo
<1>4. LookupsFor[m] = Max({MinLookups, Log2(m)})
  BY DEF LookupsFor
<1> QED
  BY <1>1, <1>2, <1>3, <1>4

(* An array with elements, whatever their distances say *)
Holds(s) ==
  /\ IsFiniteSet(Occupied(s)) /\ Occupied(s) \subseteq Nat
  /\ \A i \in Occupied(s) : s[i].item \in Item
  /\ Apart(s)

LEMMA InOrderHolds ==
  ASSUME InOrder
  PROVE  Holds(slots)
<1>1. size \in Nat \ {0} /\ lookups \in Nat \ {0} /\ Layout(slots, size, lookups) /\ Apart(slots)
  BY DEF InOrder
<1>2. IsFiniteSet(Occupied(slots)) /\ Occupied(slots) \subseteq Nat
  BY <1>1, OccupiedFinite
<1>3. \A i \in Occupied(slots) : slots[i].item \in Item
  BY <1>1, Slots
<1> QED
  BY <1>1, <1>2, <1>3 DEF Holds

(* Stored has each element once. *)
LEMMA StoredFacts ==
  ASSUME NEW s, Holds(s)
  PROVE  /\ Stored(s) \in Seq(Item) /\ Distinct(Stored(s))
         /\ \A n \in DOMAIN Stored(s) : \E i \in Occupied(s) : Stored(s)[n] = s[i].item
         /\ \A i \in Occupied(s) : \E n \in DOMAIN Stored(s) : Stored(s)[n] = s[i].item
<1> DEFINE N == Cardinality(Occupied(s))
           at(n) == CHOOSE i \in Occupied(s) : Rank(s, i) = n
<1>1. IsFiniteSet(Occupied(s)) /\ Occupied(s) \subseteq Nat
  BY DEF Holds
<1>2. /\ N \in Nat
      /\ \A i \in Occupied(s) : Rank(s, i) \in 1 .. N
      /\ \A i, k \in Occupied(s) : Rank(s, i) = Rank(s, k) => i = k
      /\ \A n \in 1 .. N : \E i \in Occupied(s) : Rank(s, i) = n
  BY <1>1, RankBijection DEF Rank
<1>3. \A n \in 1 .. N : at(n) \in Occupied(s) /\ Rank(s, at(n)) = n
  BY <1>2
<1>4. \A i \in Occupied(s) : at(Rank(s, i)) = i
  BY <1>2
<1>5. /\ DOMAIN Stored(s) = 1 .. N
      /\ \A n \in 1 .. N : Stored(s)[n] = s[at(n)].item
  BY DEF Stored
<1> HIDE DEF N, at
<1>6. Stored(s) \in Seq(Item)
  <2>1. Stored(s) = [n \in 1 .. N |-> s[at(n)].item]
    BY DEF Stored, N, at
  <2>2. \A n \in 1 .. N : s[at(n)].item \in Item
    BY <1>3 DEF Holds
  <2> QED
    BY <2>1, <2>2, <1>2
<1>7. Distinct(Stored(s))
  <2> SUFFICES ASSUME NEW m \in 1 .. N, NEW n \in 1 .. N,
                      Stored(s)[m].key = Stored(s)[n].key
               PROVE  m = n
    BY <1>5 DEF Distinct
  <2>1. s[at(m)].item.key = s[at(n)].item.key
    BY <1>5
  <2>2. at(m) = at(n)
    BY <2>1, <1>3 DEF Holds, Apart
  <2> QED
    BY <2>2, <1>3
<1>8. \A n \in DOMAIN Stored(s) : \E i \in Occupied(s) : Stored(s)[n] = s[i].item
  BY <1>3, <1>5
<1>9. \A i \in Occupied(s) : \E n \in DOMAIN Stored(s) : Stored(s)[n] = s[i].item
  BY <1>2, <1>4, <1>5
<1> QED
  BY <1>6, <1>7, <1>8, <1>9

(* A new array begins empty, with everything still to come. *)
LEMMA Refill ==
  ASSUME NEW s, Holds(s), todo \in Seq(Item), Distinct(todo),
         \A i \in Occupied(s), n \in DOMAIN todo : s[i].item.key # todo[n].key,
         NEW n \in Nat \ {0}, NEW l \in Nat \ {0},
         size' = n, lookups' = l, slots' = Fresh(n, l), numElements' = 0,
         todo' = Stored(s) \o todo, hand' = NoHand, cursor' = NoCursor, maxLoad' \in Loads
  PROVE  /\ IInv'
         /\ {todo'[m] : m \in DOMAIN todo'}
              = {s[i].item : i \in Occupied(s)} \cup {todo[m] : m \in DOMAIN todo}
<1> DEFINE F == Stored(s)
<1>1. /\ F \in Seq(Item) /\ Distinct(F)
      /\ \A m \in DOMAIN F : \E i \in Occupied(s) : F[m] = s[i].item
      /\ \A i \in Occupied(s) : \E m \in DOMAIN F : F[m] = s[i].item
  BY StoredFacts
<1> HIDE DEF F
<1>2. ASSUME NEW x \in Waits(F), NEW y \in Waits(todo) PROVE x.key # y.key
  <2>1. PICK m \in DOMAIN F, k \in DOMAIN todo : x = F[m] /\ y = todo[k]
    BY DEF Waits
  <2>2. PICK i \in Occupied(s) : F[m] = s[i].item
    BY <1>1
  <2> QED
    BY <2>1, <2>2
<1>3. /\ todo' \in Seq(Item) /\ Distinct(todo')
      /\ {todo'[m] : m \in DOMAIN todo'}
           = {F[m] : m \in DOMAIN F} \cup {todo[m] : m \in DOMAIN todo}
  <2>1. todo' = F \o todo
    BY DEF F
  <2>2. /\ F \o todo \in Seq(Item) /\ Distinct(F \o todo)
        /\ Waits(F \o todo) = Waits(F) \cup Waits(todo)
    BY <1>1, <1>2, ConcatDistinct
  <2> QED
    BY <2>1, <2>2 DEF Waits
<1>4. {F[m] : m \in DOMAIN F} = {s[i].item : i \in Occupied(s)}
  <2>1. ASSUME NEW m \in DOMAIN F PROVE \E i \in Occupied(s) : F[m] = s[i].item
    BY <1>1
  <2>2. ASSUME NEW i \in Occupied(s) PROVE \E m \in DOMAIN F : s[i].item = F[m]
    BY <1>1
  <2> QED
    BY <2>1, <2>2
<1>5. Layout(slots', n, l) /\ Occupied(slots') = {} /\ Apart(slots')
  BY FreshLayout
<1>6. InOrder'
  BY <1>5 DEF InOrder
<1>7. SizeCounts'
  BY <1>5, FS_EmptySet DEF SizeCounts
<1>8. HandInv'
  BY DEF HandInv
<1>9. TodoInv'
  BY <1>3, <1>5 DEF TodoInv, Comes
<1>10. CursorInv'
  BY DEF CursorInv
<1> QED
  BY <1>3, <1>4, <1>6, <1>7, <1>8, <1>9, <1>10 DEF IInv

-----------------------------------------------------------------------------
(* Sizes that calls ask for *)

(* Rounding up gives nothing only for nothing. *)
LEMMA CeilFacts ==
  ASSUME NEW n \in Nat, NEW l \in Loads
  PROVE  Ceil(n, l) \in Nat /\ (Ceil(n, l) = 0 => n = 0)
<1>1. l[1] \in Nat \ {0} /\ l[2] \in Nat \ {0}
  BY FlatAssumption DEF FlatAssumption
<1> DEFINE a == l[1]
           b == l[2]
<1>2. a \in Nat \ {0} /\ b \in Nat \ {0}
  BY <1>1
<1>3. Ceil(n, l) = (n * b + a - 1) \div a
  BY DEF Ceil
<1> HIDE DEF a, b
<1>4. n * b \in Nat
  BY <1>2
<1>5. (n * b + a - 1) \in Nat
  BY <1>2, <1>4
<1>6. (n * b + a - 1) \div a \in Nat
  BY <1>2, <1>5
<1>7. (n * b + a - 1) \div a = 0 => n = 0
  BY <1>2
<1> QED
  BY <1>3, <1>6, <1>7

LEMMA WantedFacts ==
  ASSUME numElements \in Nat, maxLoad \in Loads, NEW n \in Nat
  PROVE  Wanted(n) \in Nat /\ Wanted(n) >= n /\ (Wanted(n) = 0 => numElements = 0)
<1>1. Ceil(numElements, maxLoad) \in Nat /\ (Ceil(numElements, maxLoad) = 0 => numElements = 0)
  BY CeilFacts
<1> DEFINE c == Ceil(numElements, maxLoad)
<1>2. c \in Int /\ n \in Int
  BY <1>1
<1>3. Wanted(n) = Max({n, c})
  BY DEF Wanted
<1> HIDE DEF c
<1>4. Max({n, c}) \in {n, c} /\ Max({n, c}) >= n /\ Max({n, c}) >= c
  BY <1>2, MaxOfTwo
<1>5. c \in Nat /\ (c = 0 => numElements = 0)
  BY <1>1 DEF c
<1> QED
  BY <1>3, <1>4, <1>5

LEMMA ForReserveFacts ==
  ASSUME maxLoad \in Loads, NEW n \in Nat
  PROVE  ForReserve(n) \in Nat
<1>1. Ceil(n, maxLoad) \in Nat
  BY CeilFacts
<1>2. 2 * n \in Nat
  OBVIOUS
<1>3. Max({2 * n, Ceil(n, maxLoad)}) \in {2 * n, Ceil(n, maxLoad)}
  <2>1. 2 * n \in Int /\ Ceil(n, maxLoad) \in Int
    BY <1>1, <1>2
  <2> QED
    BY <2>1, MaxOfTwo
<1> QED
  BY <1>1, <1>2, <1>3 DEF ForReserve

(* grow always replaces the array: a size that is twice as large is never  *)
(* the size there is.                                                      *)
LEMMA GrowReplaces ==
  ASSUME size \in Nat \ {0}, numElements \in Nat, maxLoad \in Loads, NEW s, GrowFrom(s)
  PROVE  \E m \in Sizes : /\ size' = m /\ lookups' = LookupsFor[m]
                          /\ slots' = Fresh(m, LookupsFor[m])
                          /\ numElements' = 0 /\ todo' = Stored(s) \o todo
<1> DEFINE g == Max({MinGrow, 2 * size})
<1>1. MinGrow \in Nat \ {0}
  BY FlatAssumption DEF FlatAssumption
<1>2. g \in Nat /\ g >= 1 /\ g > size
  <2>1. MinGrow \in Int /\ 2 * size \in Int
    BY <1>1
  <2>2. g \in {MinGrow, 2 * size} /\ g >= 2 * size
    BY <2>1, MaxOfTwo
  <2> QED
    BY <1>1, <2>2
<1>3. RehashTo(g, s)
  BY DEF GrowFrom
<1> HIDE DEF g
<1>4. Wanted(g) \in Nat /\ Wanted(g) >= g
  BY <1>2, WantedFacts
<1>5. Wanted(g) # 0
  BY <1>2, <1>4
<1>6. ASSUME NEW m \in SizeOver(Wanted(g)) PROVE m \in Sizes /\ m # size
  <2>1. m \in Sizes /\ m >= Wanted(g)
    BY DEF SizeOver
  <2>2. m \in Nat
    BY <2>1, LookupsType
  <2> QED
    BY <2>1, <2>2, <1>2, <1>4
<1> QED
  BY <1>3, <1>5, <1>6 DEF RehashTo, NewArray

-----------------------------------------------------------------------------
(* Steps of an emplace *)

LEMMA FirstAndRest ==
  ASSUME IInv, todo # <<>>
  PROVE  /\ Head(todo) \in Item /\ Tail(todo) \in Seq(Item)
         /\ 1 \in DOMAIN todo /\ todo[1] = Head(todo)
         /\ Waits(todo) = {Head(todo)} \cup Waits(Tail(todo))
         /\ Distinct(Tail(todo))
         /\ \A x \in Waits(Tail(todo)) :
              /\ x \in Item
              /\ x.key # Head(todo).key
              /\ \A i \in Occupied(slots) : slots[i].item.key # x.key
              /\ hand = NoHand \/ hand.item.key # x.key
<1>1. todo \in Seq(Item) /\ Distinct(todo) /\ \A n \in DOMAIN todo : Comes(n)
  BY DEF IInv, TodoInv
<1>2. /\ Head(todo) \in Item /\ Tail(todo) \in Seq(Item) /\ Distinct(Tail(todo))
      /\ 1 \in DOMAIN todo /\ todo[1] = Head(todo)
      /\ Waits(todo) = {Head(todo)} \cup Waits(Tail(todo))
      /\ \A x \in Waits(Tail(todo)) : x \in Item /\ x.key # Head(todo).key
      /\ Waits(Tail(todo)) # {} => Len(todo) # 1
  BY <1>1, HeadAndTail
<1>3. ASSUME NEW x \in Waits(Tail(todo))
      PROVE  /\ \A i \in Occupied(slots) : slots[i].item.key # x.key
             /\ hand = NoHand \/ hand.item.key # x.key
  <2>1. Len(todo) # 1
    BY <1>2
  <2>2. PICK n \in DOMAIN todo : x = todo[n]
    BY <1>2 DEF Waits
  <2>3. n # 1
    BY <2>2, <1>2
  <2>4. Comes(n)
    BY <1>1
  <2> QED
    BY <2>1, <2>2, <2>3, <2>4 DEF Comes
<1> QED
  BY <1>2, <1>3

(* While something waits there is no iterator. *)
LEMMA NoCursorWhileBusy ==
  ASSUME IInv, todo # <<>>
  PROVE  cursor = NoCursor
BY DEF IInv, CursorInv

LEMMA HandType ==
  ASSUME IInv
  PROVE  /\ hand = NoHand => hand.item = NoItem
         /\ hand # NoHand => InHand /\ hand.item \in Item /\ hand.item # NoItem
         /\ hand # NoHand => todo # <<>>
<1>1. hand # NoHand => InHand
  BY DEF IInv, HandInv
<1>2. InHand => hand.item \in Item /\ todo # <<>>
  BY DEF InHand
<1> QED
  BY <1>1, <1>2, ItemFacts DEF NoHand

LEMMA PresentStep ==
  ASSUME IInv, Present
  PROVE  IInv' /\ Items' = Items
<1> DEFINE x == Head(todo)
<1>1. /\ todo # <<>> /\ hand = NoHand /\ ~ NewKey /\ todo' = Tail(todo)
      /\ UNCHANGED <<array, numElements, maxLoad, hand, cursor>>
  BY DEF Present, Waiting
<1>2. UNCHANGED <<slots, size, lookups>>
  BY <1>1 DEF array
<1>3. /\ x \in Item /\ Tail(todo) \in Seq(Item) /\ Distinct(Tail(todo))
      /\ Waits(todo) = {x} \cup Waits(Tail(todo))
      /\ \A y \in Waits(Tail(todo)) : \A i \in Occupied(slots) : slots[i].item.key # y.key
  BY <1>1, FirstAndRest
<1>4. InOrder /\ maxLoad \in Loads /\ SizeCounts /\ cursor = NoCursor
  BY <1>1, NoCursorWhileBusy DEF IInv
<1>5. InOrder' /\ SizeCounts' /\ maxLoad' \in Loads
  BY <1>1, <1>2, <1>4 DEF InOrder, SizeCounts
<1>6. HandInv' /\ CursorInv'
  BY <1>1, <1>4 DEF HandInv, CursorInv
<1>7. TodoInv'
  BY <1>1, <1>2, <1>3 DEF TodoInv, Comes, Waits
<1>8. PICK j \in Occupied(slots) : slots[j].item.key = x.key
  <2>1. x.key \in Key /\ Found(x.key) # {}
    BY <1>1, <1>3, ItemFacts DEF NewKey, Waiting
  <2> QED
    BY <2>1, <1>4, FoundOrNot
<1>9. InTable' = InTable /\ slots[j].item \in InTable
  BY <1>1, <1>2 DEF InTable
<1>10. Coming' = Coming
  <2>1. x \notin Coming
    BY <1>8, <1>9 DEF Coming
  <2>2. Coming = {y \in Waits(todo) : \A z \in InTable : z.key # y.key}
    BY DEF Coming, Waits
  <2>3. Coming' = {y \in Waits(Tail(todo)) : \A z \in InTable : z.key # y.key}
    BY <1>1, <1>9 DEF Coming, Waits
  <2> QED
    BY <2>1, <2>2, <2>3, <1>3
<1> QED
  BY <1>5, <1>6, <1>7, <1>9, <1>10 DEF IInv, Items

(* The elements of an array *)
Kept(s) == {s[i].item : i \in Occupied(s)}

LEMMA ItemsApart ==
  ASSUME \A y \in Waits(todo) : \A i \in Occupied(slots) : slots[i].item.key # y.key,
         hand.item = NoItem
  PROVE  Items = Kept(slots) \cup Waits(todo)
<1>1. InTable = Kept(slots)
  BY DEF InTable, Kept
<1>2. Coming = Waits(todo)
  BY <1>1 DEF Coming, Kept, Waits
<1> QED
  BY <1>1, <1>2 DEF Items

(* While a row of elements is displaced, the first that waits is in it.    *)
LEMMA ItemsInHand ==
  ASSUME IInv, hand # NoHand
  PROVE  /\ Items = Kept(slots) \cup {hand.item} \cup Waits(Tail(todo))
         /\ Head(todo) \in Kept(slots)
<1>1. InHand /\ hand.item # NoItem
  BY HandType
<1>2. InOrder
  BY DEF IInv
<1>3. Head(todo) \in Kept(slots)
  <2>1. hand.result \in 0 .. size + lookups - 2 /\ slots[hand.result].item = Head(todo)
    BY <1>1 DEF InHand
  <2>2. todo # <<>> /\ Head(todo) \in Item
    BY <1>1, FirstAndRest DEF InHand
  <2>3. hand.result \in DOMAIN slots
    BY <2>1, <1>2 DEF InOrder, Layout
  <2> QED
    BY <2>1, <2>2, <2>3, ItemFacts DEF Kept, Occupied
<1>4. InTable = Kept(slots) \cup {hand.item}
  BY <1>1 DEF InTable, Kept
<1>5. /\ Waits(todo) = {Head(todo)} \cup Waits(Tail(todo))
      /\ \A y \in Waits(Tail(todo)) :
           /\ \A i \in Occupied(slots) : slots[i].item.key # y.key
           /\ hand.item.key # y.key
  BY <1>1, FirstAndRest DEF InHand
<1>6. \A y \in Waits(Tail(todo)) : \A z \in InTable : z.key # y.key
  BY <1>4, <1>5 DEF Kept
<1>7. Coming = {y \in Waits(todo) : \A z \in InTable : z.key # y.key}
  BY DEF Coming, Waits
<1>8. Coming = Waits(Tail(todo))
  BY <1>3, <1>4, <1>5, <1>6, <1>7
<1> QED
  BY <1>3, <1>4, <1>8 DEF Items

(* Where a new key belongs *)
LEMMA NewKeyFacts ==
  ASSUME IInv, NewKey
  PROVE  /\ InOrder /\ todo # <<>> /\ hand = NoHand
         /\ Head(todo) \in Item /\ Head(todo).key \in Key
         /\ \A i \in Occupied(slots) : slots[i].item.key # Head(todo).key
         /\ Items = Kept(slots) \cup Waits(todo)
         /\ ~ NoRoom =>
              /\ At \in 0 .. size + lookups - 2 /\ Distance \in 0 .. lookups - 1
              /\ Distance = At - (Hash[Head(todo).key] % size)
              /\ slots[At].dist < Distance
              /\ Distance = 0 \/ slots[At - 1].dist >= Distance - 1
<1> DEFINE k == Head(todo).key
<1>1. InOrder /\ todo # <<>> /\ hand = NoHand /\ Found(k) = {}
  BY DEF IInv, NewKey, Waiting
<1>2. /\ Head(todo) \in Item
      /\ Waits(todo) = {Head(todo)} \cup Waits(Tail(todo))
      /\ \A y \in Waits(Tail(todo)) : \A i \in Occupied(slots) : slots[i].item.key # y.key
  BY <1>1, FirstAndRest
<1>3. k \in Key
  BY <1>2, ItemFacts
<1> HIDE DEF k
<1>4. /\ \A i \in Occupied(slots) : slots[i].item.key # k
      /\ slots[Stop(k)].dist < Stop(k) - Home(k)
      /\ \/ Stop(k) = Home(k)
         \/ slots[Stop(k) - 1].dist >= (Stop(k) - 1) - Home(k)
  BY <1>1, <1>3, FoundOrNot
<1>5. Items = Kept(slots) \cup Waits(todo)
  <2>1. \A y \in Waits(todo) : \A i \in Occupied(slots) : slots[i].item.key # y.key
    BY <1>2, <1>4 DEF k
  <2>2. hand.item = NoItem
    BY <1>1 DEF NoHand
  <2> QED
    BY <2>1, <2>2, ItemsApart
<1>6. ASSUME ~ NoRoom
      PROVE  /\ At \in 0 .. size + lookups - 2 /\ Distance \in 0 .. lookups - 1
             /\ Distance = At - (Hash[k] % size)
             /\ slots[At].dist < Distance
             /\ Distance = 0 \/ slots[At - 1].dist >= Distance - 1
  <2>1. At = Stop(k) /\ Distance = Stop(k) - Home(k) /\ Home(k) = Hash[k] % size
    BY DEF At, Distance, Home, k
  <2>2. Home(k) \in 0 .. size - 1 /\ Stop(k) \in Home(k) .. End /\ Stop(k) <= Home(k) + lookups
    BY <1>1, <1>3, Search
  <2>3. Distance # lookups
    BY <1>6 DEF NoRoom
  <2>4. End = size + lookups - 1 /\ size \in Nat \ {0} /\ lookups \in Nat \ {0}
    BY <1>1 DEF End, InOrder
  <2>5. Home(k) \in Nat /\ Stop(k) \in Nat
    BY <2>2, <2>4
  <2>6. Distance \in 0 .. lookups - 1 /\ At \in 0 .. size + lookups - 2
    BY <2>1, <2>2, <2>3, <2>4, <2>5
  <2>7. Distance = 0 \/ slots[At - 1].dist >= Distance - 1
    <3>1. CASE Stop(k) = Home(k)
      BY <3>1, <2>1, <2>5
    <3>2. CASE slots[Stop(k) - 1].dist >= (Stop(k) - 1) - Home(k)
      <4>1. (Stop(k) - 1) - Home(k) = Distance - 1
        BY <2>1, <2>5
      <4> QED
        BY <3>2, <4>1, <2>1
    <3> QED
      BY <3>1, <3>2, <1>4
  <2> QED
    BY <1>4, <2>1, <2>6, <2>7
<1> QED
  BY <1>1, <1>2, <1>3, <1>4, <1>5, <1>6 DEF k

(* An element is put into an empty slot: the first that waits, or the one  *)
(* in the hand.                                                            *)
LEMMA SettleStep ==
  ASSUME IInv, todo # <<>>,
         NEW i \in 0 .. size + lookups - 2, NEW x \in Item, NEW d \in 0 .. lookups - 1,
         d = i - (Hash[x.key] % size),
         d = 0 \/ slots[i - 1].dist >= d - 1,
         PutAt(i, x, d),
         \A j \in Occupied(slots) : slots[j].item.key # x.key,
         \A y \in Waits(Tail(todo)) : y.key # x.key,
         Items = Kept(slots) \cup {x} \cup Waits(Tail(todo))
  PROVE  IInv' /\ Items' = Items
<1>1. /\ slots[i] = Empty /\ slots' = Written(slots, i, x, d)
      /\ numElements' = numElements + 1 /\ todo' = Tail(todo) /\ hand' = NoHand
      /\ size' = size /\ lookups' = lookups /\ maxLoad' = maxLoad /\ cursor' = cursor
  BY DEF PutAt, Written
<1>2. /\ size \in Nat \ {0} /\ lookups \in Nat \ {0} /\ Layout(slots, size, lookups)
      /\ Apart(slots) /\ maxLoad \in Loads /\ cursor = NoCursor
      /\ numElements = Cardinality(Occupied(slots))
  BY NoCursorWhileBusy DEF IInv, InOrder, SizeCounts
<1>3. slots[i].dist < d /\ i \notin Occupied(slots)
  BY <1>1, ItemFacts DEF Occupied
<1>4. Layout(slots', size, lookups)
  BY <1>1, <1>2, <1>3, WrittenLayout
<1>5. /\ Occupied(slots') = Occupied(slots) \cup {i}
      /\ slots'[i].item = x
      /\ \A j \in Occupied(slots) \ {i} : slots'[j] = slots[j]
      /\ Apart(slots')
      /\ Cardinality(Occupied(slots')) = Cardinality(Occupied(slots)) + 1
  BY <1>1, <1>2, <1>3, WrittenElements
<1>6. /\ Tail(todo) \in Seq(Item) /\ Distinct(Tail(todo))
      /\ \A y \in Waits(Tail(todo)) : \A j \in Occupied(slots) : slots[j].item.key # y.key
  BY FirstAndRest
<1>7. \A y \in Waits(todo') : \A j \in Occupied(slots') : slots'[j].item.key # y.key
  BY <1>1, <1>3, <1>5, <1>6
<1>8. InOrder' /\ SizeCounts'
  BY <1>1, <1>2, <1>4, <1>5 DEF InOrder, SizeCounts
<1>9. HandInv' /\ CursorInv' /\ maxLoad' \in Loads
  BY <1>1, <1>2, SMTT(30) DEF HandInv, CursorInv
<1>10. TodoInv'
  BY <1>1, <1>6, <1>7 DEF TodoInv, Comes, Waits
<1>11. Items' = Kept(slots') \cup Waits(todo')
  <2>1. hand'.item = NoItem
    BY <1>1 DEF NoHand
  <2>2. InTable' = Kept(slots')
    BY <2>1 DEF InTable, Kept
  <2>3. Coming' = Waits(todo')
    BY <2>2, <1>7 DEF Coming, Kept, Waits
  <2> QED
    BY <2>2, <2>3 DEF Items
<1>12. Kept(slots') = Kept(slots) \cup {x}
  BY <1>3, <1>5 DEF Kept
<1> QED
  BY <1>1, <1>8, <1>9, <1>10, <1>11, <1>12 DEF IInv

LEMMA InsertStep ==
  ASSUME IInv, Insert
  PROVE  IInv' /\ Items' = Items
<1> DEFINE x == Head(todo)
<1>1. NewKey /\ ~ NoRoom /\ PutAt(At, x, Distance)
  BY DEF Insert
<1>2. /\ todo # <<>> /\ x \in Item
      /\ \A i \in Occupied(slots) : slots[i].item.key # x.key
      /\ Items = Kept(slots) \cup Waits(todo)
      /\ At \in 0 .. size + lookups - 2 /\ Distance \in 0 .. lookups - 1
      /\ Distance = At - (Hash[x.key] % size)
      /\ Distance = 0 \/ slots[At - 1].dist >= Distance - 1
  BY <1>1, NewKeyFacts
<1>3. /\ Waits(todo) = {x} \cup Waits(Tail(todo))
      /\ \A y \in Waits(Tail(todo)) : y.key # x.key
  BY <1>2, FirstAndRest
<1>4. Items = Kept(slots) \cup {x} \cup Waits(Tail(todo))
  BY <1>2, <1>3
<1> HIDE DEF x
<1> QED
  BY <1>1, <1>2, <1>3, <1>4, SettleStep

LEMMA CarryInStep ==
  ASSUME IInv, CarryIn
  PROVE  IInv' /\ Items' = Items
<1>1. hand # NoHand /\ PutAt(hand.at, hand.item, hand.dist)
  BY DEF CarryIn, Carrying
<1>2. InHand /\ hand.item \in Item
  BY <1>1, HandType
<1>3. /\ todo # <<>>
      /\ hand.at \in 0 .. size + lookups - 2 /\ hand.dist \in 1 .. lookups - 1
      /\ hand.dist = hand.at - (Hash[hand.item.key] % size)
      /\ slots[hand.at - 1].dist >= hand.dist - 1
      /\ \A i \in Occupied(slots) : slots[i].item.key # hand.item.key
  BY <1>2 DEF InHand
<1>4. \A y \in Waits(Tail(todo)) : y.key # hand.item.key
  BY <1>1, <1>3, FirstAndRest
<1>5. Items = Kept(slots) \cup {hand.item} \cup Waits(Tail(todo))
  BY <1>1, ItemsInHand
<1>6. hand.dist \in 0 .. lookups - 1
  BY <1>3
<1> QED
  BY <1>1, <1>2, <1>3, <1>4, <1>5, <1>6, SettleStep

(* An element takes the slot of one that is nearer to its home and gives   *)
(* it into the hand.                                                       *)
LEMMA TakeSlotStep ==
  ASSUME IInv, todo # <<>>,
         NEW i \in 0 .. size + lookups - 2, NEW x \in Item, NEW d \in 0 .. lookups - 1,
         NEW r \in 0 .. i,
         d = i - (Hash[x.key] % size),
         d = 0 \/ slots[i - 1].dist >= d - 1,
         slots[i] # Empty, slots[i].dist < d,
         slots' = Written(slots, i, x, d),
         hand' = [item |-> slots[i].item, dist |-> slots[i].dist + 1, at |-> i + 1, result |-> r],
         UNCHANGED <<size, lookups, numElements, maxLoad, todo, cursor>>,
         slots'[r].item = Head(todo),
         \A j \in Occupied(slots) : slots[j].item.key # x.key,
         \A y \in Waits(Tail(todo)) : y.key # x.key,
         Items = Kept(slots) \cup {x} \cup Waits(Tail(todo))
  PROVE  IInv' /\ Items' = Items
<1> DEFINE y == slots[i].item
<1>1. /\ size \in Nat \ {0} /\ lookups \in Nat \ {0} /\ Layout(slots, size, lookups)
      /\ Apart(slots) /\ maxLoad \in Loads /\ cursor = NoCursor
      /\ numElements = Cardinality(Occupied(slots))
      /\ todo \in Seq(Item) /\ Distinct(todo)
  BY NoCursorWhileBusy DEF IInv, InOrder, SizeCounts, TodoInv
<1>2. i \in Occupied(slots) /\ Element(slots, i, size, lookups)
  <2>1. slots[i] # Empty => Element(slots, i, size, lookups)
    BY <1>1 DEF Layout
  <2>2. Element(slots, i, size, lookups)
    BY <2>1
  <2>3. slots[i].item \in Item /\ i \in DOMAIN slots
    BY <2>2, <1>1 DEF Element, Layout
  <2> QED
    BY <2>2, <2>3, ItemFacts DEF Occupied
<1>3. y \in Item /\ slots[i].dist \in 0 .. lookups - 1 /\ slots[i].dist = i - (Hash[y.key] % size)
  BY <1>2 DEF Element
<1>4. Layout(slots', size, lookups)
  BY <1>1, WrittenLayout
<1>5. /\ Occupied(slots') = Occupied(slots)
      /\ slots'[i].item = x
      /\ \A j \in Occupied(slots) \ {i} : slots'[j] = slots[j]
      /\ Apart(slots')
  <2>1. /\ Occupied(slots') = Occupied(slots) \cup {i}
        /\ slots'[i].item = x
        /\ \A j \in Occupied(slots) \ {i} : slots'[j] = slots[j]
        /\ Apart(slots')
    BY <1>1, WrittenElements
  <2> QED
    BY <2>1, <1>2
<1>6. slots'[i].dist = d
  BY <1>1 DEF Written, Layout
<1>7. \A j \in Occupied(slots') : slots'[j].item.key # y.key
  <2>1. x.key # y.key
    BY <1>2
  <2>2. \A j \in Occupied(slots) \ {i} : slots[j].item.key # y.key
    BY <1>1, <1>2 DEF Apart
  <2> QED
    BY <2>1, <2>2, <1>5
<1>8. /\ hand' \in [item : Item, dist : 1 .. lookups - 1,
                    at : 0 .. size + lookups - 2, result : 0 .. size + lookups - 2]
      /\ hand'.dist = hand'.at - (Hash[y.key] % size)
      /\ slots'[hand'.at - 1].dist >= hand'.dist - 1
      /\ hand'.result < hand'.at
      /\ hand'.item = y
  <2>1. hand'.dist = slots[i].dist + 1 /\ hand'.at = i + 1 /\ hand'.item = y /\ hand'.result = r
    OBVIOUS
  <2>2. Hash[y.key] % size \in 0 .. size - 1
    <3>1. Hash[y.key] \in Nat
      BY <1>3, ItemFacts
    <3> QED
      BY <1>1, <3>1, SMTT(30)
  <2> DEFINE h == Hash[y.key] % size
             e == slots[i].dist
  <2>3. e \in Nat /\ e = i - h /\ h \in 0 .. size - 1 /\ e < d
    BY <1>3, <2>2
  <2>4. hand'.dist = e + 1
    BY <2>1
  <2> HIDE DEF h, e
  <2>5. e + 1 \in 1 .. lookups - 1
    BY <2>3, <1>1
  <2>6. i + 1 \in 0 .. size + lookups - 2 /\ r \in 0 .. size + lookups - 2
    BY <2>3, <1>1
  <2>7. e + 1 = (i + 1) - h /\ (i + 1) - 1 = i /\ d >= (e + 1) - 1 /\ r < i + 1
    BY <2>3
  <2>8. slots'[hand'.at - 1].dist >= hand'.dist - 1
    BY <2>1, <2>4, <2>7, <1>6
  <2>9. hand' = [item |-> y, dist |-> e + 1, at |-> i + 1, result |-> r]
    BY DEF e
  <2> QED
    BY <2>1, <2>4, <2>5, <2>6, <2>7, <2>8, <2>9, <1>3 DEF h
<1>9. /\ Waits(todo) = {Head(todo)} \cup Waits(Tail(todo))
      /\ \A z \in Waits(Tail(todo)) : \A j \in Occupied(slots) : slots[j].item.key # z.key
      /\ todo[1] = Head(todo) /\ 1 \in DOMAIN todo
  BY FirstAndRest, SMTT(30)
<1> HIDE DEF y
<1>10. InHand'
  BY <1>7, <1>8, todo' = todo, size' = size, lookups' = lookups DEF InHand
<1>11. hand' # NoHand
  BY <1>8, <1>3, ItemFacts DEF NoHand
<1>12. \A z \in Waits(Tail(todo)) :
         /\ \A j \in Occupied(slots') : slots'[j].item.key # z.key
         /\ y.key # z.key
  BY <1>2, <1>5, <1>9 DEF y
<1>13. TodoInv'
  <2>1. ASSUME NEW n \in DOMAIN todo, n # 1 PROVE todo[n] \in Waits(Tail(todo))
    <3>1. todo[n] \in Waits(todo)
      BY DEF Waits
    <3>2. todo[n] # Head(todo)
      BY <2>1, <1>1, <1>9 DEF Distinct
    <3> QED
      BY <3>1, <3>2, <1>9
  <2>2. ASSUME NEW n \in DOMAIN todo PROVE Comes(n)'
    <3>1. CASE n = 1
      BY <3>1, <1>11, SMTT(30) DEF Comes
    <3>2. CASE n # 1
      BY <3>2, <2>1, <1>12, <1>8 DEF Comes
    <3> QED
      BY <3>1, <3>2
  <2> QED
    BY <2>2, <1>1 DEF TodoInv
<1>14. Kept(slots') \cup {y} = Kept(slots) \cup {x}
  BY <1>2, <1>5 DEF Kept, y
<1>15. Items' = Kept(slots') \cup {y} \cup Waits(Tail(todo))
  <2>1. InTable' = Kept(slots') \cup {y}
    BY <1>8, <1>3, ItemFacts DEF InTable, Kept
  <2>2. Head(todo) \in Kept(slots')
    <3>1. r \in 0 .. size + lookups - 1
      BY <1>1
    <3>2. r \in DOMAIN slots'
      BY <3>1, <1>4 DEF Layout
    <3>3. Head(todo) \in Item
      BY FirstAndRest
    <3> QED
      BY <3>2, <3>3, ItemFacts DEF Kept, Occupied
  <2>3. \A z \in Waits(Tail(todo)) : \A w \in InTable' : w.key # z.key
    BY <2>1, <1>12, SMTT(30) DEF Kept
  <2>4. Coming' = {z \in Waits(todo) : \A w \in InTable' : w.key # z.key}
    BY todo' = todo DEF Coming, Waits
  <2>5. Coming' = Waits(Tail(todo))
    BY <2>1, <2>2, <2>3, <2>4, <1>9
  <2> QED
    BY <2>1, <2>5, SMTT(30) DEF Items
<1>16. InOrder' /\ SizeCounts' /\ HandInv' /\ CursorInv' /\ maxLoad' \in Loads
  BY <1>1, <1>4, <1>5, <1>10, SMTT(30) DEF InOrder, SizeCounts, HandInv, CursorInv
<1> QED
  BY <1>13, <1>14, <1>15, <1>16 DEF IInv

LEMMA DisplaceStep ==
  ASSUME IInv, Displace
  PROVE  IInv' /\ Items' = Items
<1> DEFINE x == Head(todo)
<1>1. /\ NewKey /\ ~ NoRoom /\ slots[At] # Empty
      /\ slots' = Written(slots, At, x, Distance)
      /\ hand' = [item |-> slots[At].item, dist |-> slots[At].dist + 1,
                  at |-> At + 1, result |-> At]
      /\ UNCHANGED <<size, lookups, numElements, maxLoad, todo, cursor>>
  BY DEF Displace, Written
<1>2. /\ InOrder /\ todo # <<>> /\ x \in Item
      /\ \A i \in Occupied(slots) : slots[i].item.key # x.key
      /\ Items = Kept(slots) \cup Waits(todo)
      /\ At \in 0 .. size + lookups - 2 /\ Distance \in 0 .. lookups - 1
      /\ Distance = At - (Hash[x.key] % size)
      /\ slots[At].dist < Distance
      /\ Distance = 0 \/ slots[At - 1].dist >= Distance - 1
  BY <1>1, NewKeyFacts
<1>3. /\ Waits(todo) = {x} \cup Waits(Tail(todo))
      /\ \A y \in Waits(Tail(todo)) : y.key # x.key
  BY <1>2, FirstAndRest
<1>4. Items = Kept(slots) \cup {x} \cup Waits(Tail(todo))
  BY <1>2, <1>3
<1>5. At \in 0 .. At
  BY <1>2
<1>6. slots'[At].item = x
  <2>1. At \in DOMAIN slots
    BY <1>2, SMTT(30) DEF InOrder, Layout
  <2> QED
    BY <1>1, <2>1 DEF Written
<1> HIDE DEF x
<1> QED
  BY <1>1, <1>2, <1>3, <1>4, <1>5, <1>6, TakeSlotStep DEF x

LEMMA SwapStep ==
  ASSUME IInv, Swap
  PROVE  IInv' /\ Items' = Items
<1>1. /\ hand # NoHand /\ slots[hand.at] # Empty /\ slots[hand.at].dist < hand.dist
      /\ slots' = Written(slots, hand.at, hand.item, hand.dist)
      /\ UNCHANGED <<size, lookups, numElements, maxLoad, todo, cursor>>
  BY DEF Swap, Carrying, Written
<1>2. InHand /\ hand.item \in Item
  BY <1>1, HandType
<1>3. hand' = [item |-> slots[hand.at].item, dist |-> slots[hand.at].dist + 1,
               at |-> hand.at + 1, result |-> hand.result]
  BY <1>2 DEF Swap, InHand
<1>4. /\ todo # <<>>
      /\ hand.at \in 0 .. size + lookups - 2 /\ hand.dist \in 1 .. lookups - 1
      /\ hand.result \in 0 .. size + lookups - 2 /\ hand.result < hand.at
      /\ hand.dist = hand.at - (Hash[hand.item.key] % size)
      /\ slots[hand.at - 1].dist >= hand.dist - 1
      /\ \A i \in Occupied(slots) : slots[i].item.key # hand.item.key
      /\ slots[hand.result].item = Head(todo)
  BY <1>2 DEF InHand
<1>5. \A y \in Waits(Tail(todo)) : y.key # hand.item.key
  BY <1>1, <1>4, FirstAndRest
<1>6. Items = Kept(slots) \cup {hand.item} \cup Waits(Tail(todo))
  BY <1>1, ItemsInHand
<1>7. hand.dist \in 0 .. lookups - 1 /\ hand.result \in 0 .. hand.at /\ hand.result # hand.at
  BY <1>4
<1>8. slots'[hand.result].item = Head(todo)
  BY <1>1, <1>4, <1>7 DEF Written
<1> QED
  BY <1>1, <1>2, <1>3, <1>4, <1>5, <1>6, <1>7, <1>8, TakeSlotStep

LEMMA PassOverStep ==
  ASSUME IInv, PassOver
  PROVE  IInv' /\ Items' = Items
<1>1. /\ hand # NoHand /\ slots[hand.at].dist >= hand.dist /\ hand.dist + 1 # lookups
      /\ hand' = [hand EXCEPT !.dist = @ + 1, !.at = @ + 1]
      /\ UNCHANGED <<array, numElements, maxLoad, todo, cursor>>
  BY DEF PassOver, Carrying, TooFar
<1>2. InHand /\ hand.item # NoItem /\ InOrder
  BY <1>1, HandType DEF IInv
<1>3. /\ hand.dist \in 1 .. lookups - 1 /\ hand.at \in 0 .. size + lookups - 2
      /\ hand.dist = hand.at - (Hash[hand.item.key] % size)
      /\ hand.item \in Item /\ hand.result \in 0 .. size + lookups - 2 /\ hand.result < hand.at
      /\ hand' = [item |-> hand.item, dist |-> hand.dist + 1,
                  at |-> hand.at + 1, result |-> hand.result]
  BY <1>1, <1>2 DEF InHand
<1>4. slots' = slots /\ size' = size /\ lookups' = lookups
  BY <1>1 DEF array
<1>5. /\ hand.dist + 1 \in 1 .. lookups - 1
      /\ hand.at + 1 \in 0 .. size + lookups - 2
      /\ hand.dist + 1 = (hand.at + 1) - (Hash[hand.item.key] % size)
      /\ (hand.at + 1) - 1 = hand.at /\ (hand.dist + 1) - 1 = hand.dist
      /\ hand.result < hand.at + 1
  <2> DEFINE h == Hash[hand.item.key] % size
  <2>1. h \in 0 .. size - 1 /\ size \in Nat \ {0} /\ lookups \in Nat \ {0}
    BY <1>2, <1>3, ItemFacts DEF InOrder
  <2>2. hand.dist = hand.at - h
    BY <1>3
  <2> HIDE DEF h
  <2>3. hand.dist + 1 \in 1 .. lookups - 1 /\ hand.at + 1 \in 0 .. size + lookups - 2
    BY <1>1, <1>3, <2>1, <2>2
  <2>4. hand.dist + 1 = (hand.at + 1) - h
    BY <1>3, <2>1, <2>2
  <2> QED
    BY <1>3, <2>3, <2>4 DEF h
<1>6. InHand' /\ hand' # NoHand
  <2>1. hand'.dist = hand.dist + 1 /\ hand'.at = hand.at + 1 /\ hand'.item = hand.item
        /\ hand'.result = hand.result
    BY <1>3
  <2>2. slots'[hand'.at - 1].dist >= hand'.dist - 1
    BY <1>1, <1>4, <1>5, <2>1
  <2>3. hand' \in [item : Item, dist : 1 .. lookups - 1,
                   at : 0 .. size + lookups - 2, result : 0 .. size + lookups - 2]
    BY <1>3, <1>5
  <2> QED
    BY <1>1, <1>2, <1>4, <1>5, <2>1, <2>2, <2>3 DEF InHand, NoHand
<1>7. TodoInv'
  <2>1. ASSUME NEW n \in DOMAIN todo PROVE Comes(n)'
    BY <1>1, <1>3, <1>4, <1>6 DEF IInv, TodoInv, Comes
  <2> QED
    BY <1>1, <2>1 DEF IInv, TodoInv
<1>8. Items' = Items
  <2>1. InTable' = InTable
    BY <1>3, <1>4 DEF InTable
  <2> QED
    BY <1>1, <2>1 DEF Items, Coming
<1>9. todo # <<>> /\ cursor = NoCursor
  BY <1>2, NoCursorWhileBusy DEF InHand
<1> QED
  BY <1>1, <1>2, <1>4, <1>6, <1>7, <1>8, <1>9 DEF IInv, InOrder, SizeCounts, HandInv, CursorInv

(* A new array has the items of the old one and those that waited.         *)
LEMMA RefillItems ==
  ASSUME NEW s, Holds(s), todo \in Seq(Item), Distinct(todo), maxLoad \in Loads,
         \A i \in Occupied(s) : \A y \in Waits(todo) : s[i].item.key # y.key,
         NEW n \in Nat \ {0}, NEW l \in Nat \ {0},
         size' = n, lookups' = l, slots' = Fresh(n, l), numElements' = 0,
         todo' = Stored(s) \o todo, hand' = NoHand, cursor' = NoCursor, maxLoad' = maxLoad
  PROVE  IInv' /\ Items' = Kept(s) \cup Waits(todo)
<1>1. \A i \in Occupied(s), m \in DOMAIN todo : s[i].item.key # todo[m].key
  BY DEF Waits
<1>2. /\ IInv'
      /\ {todo'[m] : m \in DOMAIN todo'}
           = {s[i].item : i \in Occupied(s)} \cup {todo[m] : m \in DOMAIN todo}
  BY <1>1, Refill
<1>3. Occupied(slots') = {} /\ hand'.item = NoItem
  BY FreshLayout DEF NoHand
<1>4. InTable' = {}
  BY <1>3 DEF InTable
<1>5. Items' = Waits(todo')
  BY <1>4 DEF Items, Coming, Waits
<1> QED
  BY <1>2, <1>5 DEF Kept, Waits

LEMMA GrowStep ==
  ASSUME IInv, Grow
  PROVE  IInv' /\ Items' = Items
<1>1. /\ NewKey /\ GrowFrom(slots)
      /\ maxLoad' = maxLoad /\ hand' = hand /\ cursor' = cursor
  BY DEF Grow
<1>2. /\ InOrder /\ todo # <<>> /\ hand = NoHand
      /\ \A i \in Occupied(slots) : slots[i].item.key # Head(todo).key
      /\ Items = Kept(slots) \cup Waits(todo)
  BY <1>1, NewKeyFacts
<1>3. /\ maxLoad \in Loads /\ todo \in Seq(Item) /\ Distinct(todo) /\ cursor = NoCursor
      /\ numElements = Cardinality(Occupied(slots))
  BY <1>2, NoCursorWhileBusy DEF IInv, TodoInv, SizeCounts
<1>4. Holds(slots) /\ size \in Nat \ {0} /\ numElements \in Nat
  BY <1>2, <1>3, InOrderHolds, FS_CardinalityType DEF InOrder, Holds
<1>5. \A i \in Occupied(slots) : \A y \in Waits(todo) : slots[i].item.key # y.key
  BY <1>2, FirstAndRest
<1>6. PICK m \in Sizes : /\ size' = m /\ lookups' = LookupsFor[m]
                         /\ slots' = Fresh(m, LookupsFor[m])
                         /\ numElements' = 0 /\ todo' = Stored(slots) \o todo
  BY <1>1, <1>3, <1>4, GrowReplaces
<1>7. m \in Nat \ {0} /\ LookupsFor[m] \in Nat \ {0}
  BY LookupsType
<1>8. IInv' /\ Items' = Kept(slots) \cup Waits(todo)
  BY <1>1, <1>2, <1>3, <1>4, <1>5, <1>6, <1>7, RefillItems
<1> QED
  BY <1>2, <1>8

(* What is in the hand goes where the new element is, which waits again.   *)
LEMMA PutBackFacts ==
  ASSUME IInv, hand # NoHand
  PROVE  /\ Holds(PutBack)
         /\ \A i \in Occupied(PutBack) : \A y \in Waits(todo) : PutBack[i].item.key # y.key
         /\ Kept(PutBack) \cup Waits(todo) = Items
<1> DEFINE s == PutBack
           r == hand.result
<1>1. InHand /\ hand.item \in Item /\ hand.item # NoItem /\ InOrder
  BY HandType DEF IInv
<1>2. /\ todo # <<>> /\ r \in 0 .. size + lookups - 2 /\ slots[r].item = Head(todo)
      /\ \A i \in Occupied(slots) : slots[i].item.key # hand.item.key
  BY <1>1 DEF InHand
<1>3. DOMAIN slots = 0 .. size + lookups - 1 /\ Apart(slots)
  BY <1>1 DEF InOrder, Layout
<1>4. /\ Head(todo) \in Item
      /\ Waits(todo) = {Head(todo)} \cup Waits(Tail(todo))
      /\ \A y \in Waits(Tail(todo)) :
           /\ \A i \in Occupied(slots) : slots[i].item.key # y.key
           /\ hand.item.key # y.key
  BY <1>2, FirstAndRest
<1>5. r \in DOMAIN slots /\ r \in Occupied(slots)
  <2>1. r \in DOMAIN slots
    BY <1>1, <1>2, <1>3 DEF InOrder
  <2> QED
    BY <2>1, <1>2, <1>4, ItemFacts DEF Occupied
<1>6. /\ DOMAIN s = DOMAIN slots
      /\ s[r].item = hand.item
      /\ \A i \in DOMAIN slots : i # r => s[i] = slots[i]
  <2>1. slots[r] \in [dist : 0 .. lookups - 1, item : Item]
    BY <1>1, <1>5, Slots DEF InOrder, Element
  <2> QED
    BY <2>1, <1>5 DEF PutBack
<1> HIDE DEF s
<1>7. Occupied(s) = Occupied(slots)
  BY <1>1, <1>5, <1>6 DEF Occupied
<1>8. Holds(slots)
  BY <1>1, InOrderHolds
<1>9. Apart(s)
  <2> SUFFICES ASSUME NEW i \in Occupied(s), NEW j \in Occupied(s),
                      s[i].item.key = s[j].item.key
               PROVE  i = j
    BY DEF Apart
  <2>1. i \in DOMAIN slots /\ j \in DOMAIN slots /\ i \in Occupied(slots) /\ j \in Occupied(slots)
    BY <1>7 DEF Occupied
  <2>2. CASE i = r \/ j = r
    BY <2>1, <2>2, <1>2, <1>6
  <2>3. CASE i # r /\ j # r
    BY <2>1, <2>3, <1>3, <1>6 DEF Apart
  <2> QED
    BY <2>2, <2>3
<1>10. \A i \in Occupied(s) : i \in DOMAIN slots /\ (i = r \/ s[i] = slots[i])
  BY <1>6, <1>7 DEF Occupied
<1>11. Holds(s)
  BY <1>1, <1>6, <1>7, <1>8, <1>9, <1>10 DEF Holds
<1>12. ASSUME NEW i \in Occupied(s), NEW y \in Waits(todo) PROVE s[i].item.key # y.key
  <2>1. CASE i = r
    <3>1. hand.item.key # Head(todo).key
      BY <1>2, <1>5
    <3> QED
      BY <3>1, <2>1, <1>4, <1>6
  <2>2. CASE i # r
    <3>1. s[i] = slots[i] /\ i \in Occupied(slots)
      BY <2>2, <1>7, <1>10
    <3>2. slots[i].item.key # Head(todo).key
      BY <3>1, <2>2, <1>2, <1>3, <1>5 DEF Apart
    <3> QED
      BY <3>1, <3>2, <1>4
  <2> QED
    BY <2>1, <2>2
<1>13. Kept(s) \cup {Head(todo)} = Kept(slots) \cup {hand.item}
  <2>1. ASSUME NEW i \in Occupied(s)
        PROVE  s[i].item \in Kept(slots) \cup {hand.item}
    BY <1>6, <1>7, <1>10 DEF Kept
  <2>2. ASSUME NEW i \in Occupied(slots)
        PROVE  slots[i].item \in Kept(s) \cup {Head(todo)}
    BY <1>2, <1>7, <1>10 DEF Kept
  <2>3. hand.item \in Kept(s) /\ Head(todo) \in Kept(slots)
    BY <1>2, <1>5, <1>6, <1>7 DEF Kept
  <2> QED
    BY <2>1, <2>2, <2>3 DEF Kept
<1>14. Items = Kept(slots) \cup {hand.item} \cup Waits(Tail(todo))
  BY ItemsInHand
<1>15. Kept(s) \cup Waits(todo) = Items
  BY <1>4, <1>13, <1>14
<1> QED
  BY <1>11, <1>12, <1>15 DEF s

LEMMA GiveUpStep ==
  ASSUME IInv, GiveUp
  PROVE  IInv' /\ Items' = Items
<1>1. /\ hand # NoHand /\ GrowFrom(PutBack) /\ hand' = NoHand
      /\ maxLoad' = maxLoad /\ cursor' = cursor
  BY DEF GiveUp, Carrying
<1>2. /\ todo # <<>> /\ InOrder /\ maxLoad \in Loads /\ todo \in Seq(Item) /\ Distinct(todo)
      /\ numElements = Cardinality(Occupied(slots))
  BY <1>1, HandType DEF IInv, TodoInv, SizeCounts
<1>3. cursor = NoCursor
  BY <1>2, NoCursorWhileBusy
<1>4. size \in Nat \ {0} /\ numElements \in Nat
  BY <1>2, InOrderHolds, FS_CardinalityType DEF InOrder, Holds
<1>5. /\ Holds(PutBack)
      /\ \A i \in Occupied(PutBack) : \A y \in Waits(todo) : PutBack[i].item.key # y.key
      /\ Kept(PutBack) \cup Waits(todo) = Items
  BY <1>1, PutBackFacts
<1> DEFINE s == PutBack
<1>6. PICK m \in Sizes : /\ size' = m /\ lookups' = LookupsFor[m]
                         /\ slots' = Fresh(m, LookupsFor[m])
                         /\ numElements' = 0 /\ todo' = Stored(s) \o todo
  BY <1>1, <1>2, <1>4, GrowReplaces
<1>7. m \in Nat \ {0} /\ LookupsFor[m] \in Nat \ {0}
  BY LookupsType
<1> HIDE DEF s
<1>8. /\ Holds(s)
      /\ \A i \in Occupied(s) : \A y \in Waits(todo) : s[i].item.key # y.key
      /\ Kept(s) \cup Waits(todo) = Items
  BY <1>5 DEF s
<1>9. IInv' /\ Items' = Kept(s) \cup Waits(todo)
  BY <1>1, <1>2, <1>3, <1>6, <1>7, <1>8, RefillItems
<1> QED
  BY <1>8, <1>9

-----------------------------------------------------------------------------
(* The other calls *)

LEMMA IdleFacts ==
  ASSUME IInv, Idle
  PROVE  /\ InOrder /\ todo = <<>> /\ hand = NoHand /\ maxLoad \in Loads
         /\ Waits(todo) = {} /\ Items = Kept(slots)
         /\ numElements = Cardinality(Occupied(slots)) /\ numElements \in Nat
<1>1. InOrder /\ todo = <<>> /\ maxLoad \in Loads /\ numElements = Cardinality(Occupied(slots))
  BY DEF IInv, Idle, SizeCounts
<1>2. hand = NoHand
  BY <1>1, HandType
<1>3. Waits(todo) = {}
  BY <1>1 DEF Waits
<1>4. Items = Kept(slots)
  BY <1>2, <1>3, ItemsApart DEF NoHand
<1>5. numElements \in Nat
  BY <1>1, InOrderHolds, FS_CardinalityType DEF Holds
<1> QED
  BY <1>1, <1>2, <1>3, <1>4, <1>5

(* A call that returns at once with an array in order. *)
LEMMA AtOnce ==
  ASSUME IInv, Idle, InOrder', SizeCounts', CursorInv', maxLoad' \in Loads,
         hand' = hand, todo' = todo
  PROVE  IInv' /\ Items' = Kept(slots')
<1>1. hand' = NoHand /\ todo' = <<>>
  BY IdleFacts
<1>2. HandInv' /\ TodoInv'
  BY <1>1 DEF HandInv, TodoInv, Distinct
<1>3. Items' = Kept(slots')
  BY <1>1 DEF Items, InTable, Coming, Kept, NoHand
<1> QED
  BY <1>2, <1>3 DEF IInv

LEMMA EmplaceStep ==
  ASSUME IInv, NEW k \in Key, NEW v \in Value, Emplace(k, v)
  PROVE  /\ IInv'
         /\ Items' = Items \cup {x \in {[key |-> k, val |-> v]} : \A y \in Items : y.key # x.key}
<1> DEFINE x == [key |-> k, val |-> v]
<1>1. /\ Idle /\ todo' = <<x>> /\ cursor' = NoCursor
      /\ UNCHANGED <<array, numElements, maxLoad, hand>>
  BY DEF Emplace
<1>2. slots' = slots /\ size' = size /\ lookups' = lookups
  BY <1>1 DEF array
<1>3. x \in Item /\ todo' \in Seq(Item)
  BY <1>1, ItemFacts
<1> HIDE DEF x
<1>4. DOMAIN todo' = {1} /\ Len(todo') = 1 /\ todo'[1] = x
  BY <1>1
<1>5. /\ InOrder /\ hand = NoHand /\ maxLoad \in Loads /\ Items = Kept(slots) /\ SizeCounts
  BY <1>1, IdleFacts DEF IInv
<1>6. hand' = NoHand
  BY <1>1, <1>5
<1>7. TodoInv'
  BY <1>3, <1>4, <1>6 DEF TodoInv, Distinct, Comes
<1>8. IInv'
  BY <1>1, <1>2, <1>5, <1>6, <1>7 DEF IInv, InOrder, SizeCounts, HandInv, CursorInv
<1>9. InTable' = Items
  BY <1>2, <1>5, <1>6 DEF InTable, Kept, NoHand
<1>10. Coming' = {y \in {x} : \A z \in Items : z.key # y.key}
  BY <1>4, <1>9 DEF Coming
<1> QED
  BY <1>8, <1>9, <1>10 DEF Items, x

LEMMA AssignStep ==
  ASSUME IInv, NEW k \in Key, NEW v \in Value, Assign(k, v)
  PROVE  /\ IInv'
         /\ \E y \in Items : /\ y.key = k
                             /\ Items' = (Items \ {y}) \cup {[key |-> k, val |-> v]}
<1> DEFINE x == [key |-> k, val |-> v]
<1>1. /\ Idle /\ size' = size /\ lookups' = lookups /\ numElements' = numElements
      /\ maxLoad' = maxLoad /\ todo' = todo /\ hand' = hand /\ cursor' = cursor
  BY DEF Assign
<1>2. PICK i \in Found(k) : slots' = [slots EXCEPT ![i].item.val = v]
  BY DEF Assign
<1>3. /\ InOrder /\ maxLoad \in Loads /\ Items = Kept(slots) /\ SizeCounts /\ CursorInv
      /\ size \in Nat \ {0} /\ lookups \in Nat \ {0}
      /\ Layout(slots, size, lookups) /\ Apart(slots)
  BY <1>1, IdleFacts DEF IInv, InOrder
<1>4. i \in Occupied(slots) /\ slots[i].item.key = k
  BY <1>3, FoundOrNot
<1>5. i \in 0 .. size + lookups - 2 /\ Element(slots, i, size, lookups)
  BY <1>3, <1>4, Slots
<1> DEFINE E == size + lookups - 1
<1>6. DOMAIN slots = 0 .. E /\ i \in 0 .. E /\ i # E /\ E \in Nat
  BY <1>3, <1>5 DEF Layout
<1>7. x \in Item /\ x.key = k
  BY ItemFacts
<1>8. slots[i] = [dist |-> slots[i].dist, item |-> [key |-> k, val |-> slots[i].item.val]]
  BY <1>4, <1>5 DEF Element, Item
<1>9. /\ DOMAIN slots' = 0 .. E
      /\ slots'[i] = [dist |-> slots[i].dist, item |-> x]
      /\ \A j \in 0 .. E : j # i => slots'[j] = slots[j]
  <2>1. slots' = [slots EXCEPT ![i] = [slots[i] EXCEPT !.item = [slots[i].item EXCEPT !.val = v]]]
    BY <1>2
  <2>2. [slots[i].item EXCEPT !.val = v] = x
    BY <1>8
  <2>3. [slots[i] EXCEPT !.item = x] = [dist |-> slots[i].dist, item |-> x]
    BY <1>8
  <2> HIDE DEF x
  <2> QED
    BY <2>1, <2>2, <2>3, <1>6
<1> HIDE DEF x
<1>10. slots'[i].dist = slots[i].dist /\ slots'[i].item = x
  BY <1>9
<1>11. \A j \in 0 .. E : slots'[j].dist = slots[j].dist
  BY <1>9, <1>10
<1>12. Occupied(slots') = Occupied(slots)
  <2>1. x # NoItem /\ slots[i].item # NoItem
    BY <1>4, <1>7, ItemFacts DEF Occupied
  <2> QED
    BY <2>1, <1>6, <1>9, <1>10 DEF Occupied
<1>13. \A j \in Occupied(slots) : j \in 0 .. E /\ slots'[j].item.key = slots[j].item.key
  BY <1>4, <1>6, <1>7, <1>9, <1>10 DEF Occupied
<1>14. Layout(slots', size, lookups)
  <2>1. slots'[E] = Sentinel
    BY <1>3, <1>6, <1>9 DEF Layout
  <2>2. ASSUME NEW j \in 0 .. size + lookups - 2
        PROVE  slots'[j] = Empty \/ Element(slots', j, size, lookups)
    <3>1. j \in 0 .. E
      BY <1>3
    <3>2. CASE slots[j] = Empty
      <4>1. j # i
        BY <3>2, <1>4, ItemFacts DEF Occupied
      <4> QED
        BY <4>1, <3>1, <3>2, <1>9
    <3>3. CASE Element(slots, j, size, lookups)
      <4>1. slots[j].dist = 0 \/ slots'[j - 1].dist = slots[j - 1].dist
        <5>1. j = 0 \/ j - 1 \in 0 .. E
          BY <3>1, <1>6
        <5>2. j = 0 => slots[j].dist = 0
          <6>1. j = 0 => slots[0].dist \in {-1, 0}
            BY <1>3, Slots
          <6>2. slots[j].dist \in 0 .. lookups - 1
            BY <3>3 DEF Element
          <6> QED
            BY <6>1, <6>2
        <5> QED
          BY <5>1, <5>2, <1>11
      <4>2. /\ slots'[j] \in [dist : 0 .. lookups - 1, item : Item]
            /\ slots'[j].dist = slots[j].dist /\ slots'[j].item.key = slots[j].item.key
        BY <3>1, <3>3, <1>4, <1>7, <1>9, <1>10 DEF Element
      <4> QED
        BY <4>1, <4>2, <3>3 DEF Element
    <3> QED
      BY <3>2, <3>3, <1>3 DEF Layout
  <2> QED
    BY <2>1, <2>2, <1>9 DEF Layout
<1>15. Apart(slots')
  BY <1>3, <1>12, <1>13 DEF Apart
<1>16. InOrder' /\ SizeCounts' /\ maxLoad' \in Loads
  BY <1>1, <1>3, <1>12, <1>14, <1>15 DEF InOrder, SizeCounts
<1>17. CursorInv'
  BY <1>1, <1>3, <1>12, <1>13 DEF CursorInv, End
<1>18. IInv' /\ Items' = Kept(slots')
  BY <1>1, <1>16, <1>17, AtOnce
<1>19. Kept(slots') = (Kept(slots) \ {slots[i].item}) \cup {x}
  <2>1. ASSUME NEW j \in Occupied(slots), j # i
        PROVE  slots'[j].item = slots[j].item /\ slots[j].item # slots[i].item
    BY <2>1, <1>3, <1>4, <1>9, <1>13 DEF Apart
  <2> QED
    BY <2>1, <1>4, <1>10, <1>12 DEF Kept
<1> DEFINE y == slots[i].item
<1>20. y \in Items /\ y.key = k
  BY <1>3, <1>4 DEF Kept
<1>21. Items' = (Items \ {y}) \cup {x}
  BY <1>3, <1>18, <1>19
<1> HIDE DEF y
<1> QED
  BY <1>18, <1>20, <1>21 DEF x

(* What an erase leaves *)
LEMMA EraseStep ==
  ASSUME IInv, NEW k \in Key, Erase(k)
  PROVE  /\ IInv'
         /\ Items' = {x \in Items : x.key # k}
         /\ \E x \in Items : x.key = k
<1>1. /\ Idle /\ size' = size /\ lookups' = lookups /\ numElements' = numElements - 1
      /\ maxLoad' = maxLoad /\ todo' = todo /\ hand' = hand /\ cursor' = NoCursor
  BY DEF Erase
<1>2. PICK i \in Found(k) : slots' = Erased(i)
  BY DEF Erase
<1>3. /\ InOrder /\ maxLoad \in Loads /\ Items = Kept(slots)
      /\ numElements = Cardinality(Occupied(slots)) /\ Apart(slots)
  BY <1>1, IdleFacts DEF InOrder
<1>4. i \in Occupied(slots) /\ slots[i].item.key = k
  BY <1>3, FoundOrNot
<1>5. Layout(slots', size, lookups)
  BY <1>2, <1>3, <1>4, ErasedLayout
<1>6. /\ Apart(slots')
      /\ Cardinality(Occupied(slots')) = Cardinality(Occupied(slots)) - 1
      /\ {slots'[j].item : j \in Occupied(slots')} = {slots[j].item : j \in Occupied(slots) \ {i}}
  BY <1>2, <1>3, <1>4, ErasedItems, ZenonT(60)
<1>7. InOrder' /\ SizeCounts' /\ CursorInv'
  BY <1>1, <1>3, <1>5, <1>6 DEF InOrder, SizeCounts, CursorInv
<1>8. IInv' /\ Items' = Kept(slots')
  BY <1>1, <1>3, <1>7, AtOnce
<1>9. Kept(slots') = {x \in Kept(slots) : x.key # k}
  <2>1. \A j \in Occupied(slots) : slots[j].item.key # k <=> j # i
    BY <1>3, <1>4 DEF Apart
  <2>2. Kept(slots') = {slots[j].item : j \in Occupied(slots) \ {i}}
    BY <1>6 DEF Kept
  <2> QED
    BY <2>1, <2>2 DEF Kept
<1>10. slots[i].item \in Items
  BY <1>3, <1>4 DEF Kept
<1> QED
  BY <1>3, <1>4, <1>8, <1>9, <1>10

LEMMA ClearStep ==
  ASSUME IInv, Clear
  PROVE  IInv' /\ Items' = {}
<1>1. /\ Idle /\ slots' = Fresh(size, lookups) /\ numElements' = 0 /\ cursor' = NoCursor
      /\ size' = size /\ lookups' = lookups /\ maxLoad' = maxLoad /\ todo' = todo /\ hand' = hand
  BY DEF Clear
<1>2. size \in Nat \ {0} /\ lookups \in Nat \ {0} /\ maxLoad \in Loads
  BY <1>1, IdleFacts DEF InOrder
<1>3. Layout(slots', size, lookups) /\ Occupied(slots') = {} /\ Apart(slots')
  BY <1>1, <1>2, FreshLayout
<1>4. InOrder' /\ SizeCounts' /\ CursorInv'
  BY <1>1, <1>2, <1>3, FS_EmptySet DEF InOrder, SizeCounts, CursorInv
<1>5. IInv' /\ Items' = Kept(slots')
  BY <1>1, <1>2, <1>4, AtOnce
<1> QED
  BY <1>3, <1>5 DEF Kept

LEMMA ResetType == MinLookups - 1 \in Nat \ {0}
BY FlatAssumption DEF FlatAssumption

LEMMA NothingStored ==
  ASSUME IInv, Idle, numElements = 0
  PROVE  Occupied(slots) = {} /\ Items = {}
<1>1. /\ InOrder /\ numElements = Cardinality(Occupied(slots)) /\ Items = Kept(slots)
  BY IdleFacts
<1>2. IsFiniteSet(Occupied(slots))
  BY <1>1, InOrderHolds DEF Holds
<1>3. Occupied(slots) = {}
  BY <1>1, <1>2, FS_EmptySet
<1> QED
  BY <1>1, <1>3 DEF Kept

LEMMA RehashStep ==
  ASSUME IInv, NEW n \in Nat, Rehash(n)
  PROVE  IInv' /\ Items' = Items
<1>1. /\ Idle /\ RehashTo(n, slots) /\ cursor' = NoCursor /\ maxLoad' = maxLoad /\ hand' = hand
  BY DEF Rehash
<1>2. /\ InOrder /\ todo = <<>> /\ hand = NoHand /\ maxLoad \in Loads /\ Waits(todo) = {}
      /\ Items = Kept(slots) /\ SizeCounts /\ numElements \in Nat
  BY <1>1, IdleFacts DEF IInv
<1>3. CASE /\ Wanted(n) = 0 /\ ResetToEmpty
           /\ UNCHANGED <<numElements, todo>>
  <2>1. numElements = 0
    BY <1>2, <1>3, WantedFacts
  <2>2. Items = {}
    BY <1>1, <2>1, NothingStored
  <2>3. /\ size' = 1 /\ lookups' = MinLookups - 1 /\ slots' = Fresh(1, MinLookups - 1)
        /\ numElements' = 0 /\ todo' = todo
    BY <1>3, <2>1 DEF ResetToEmpty
  <2>4. Layout(slots', 1, MinLookups - 1) /\ Occupied(slots') = {} /\ Apart(slots')
    <3> DEFINE l == MinLookups - 1
    <3>1. l \in Nat \ {0} /\ 1 \in Nat \ {0} /\ slots' = Fresh(1, l)
      BY <2>3, ResetType
    <3> HIDE DEF l
    <3>2. Layout(slots', 1, l) /\ Occupied(slots') = {} /\ Apart(slots')
      BY <3>1, FreshLayout
    <3> QED
      BY <3>2 DEF l
  <2>5. InOrder' /\ SizeCounts' /\ CursorInv'
    BY <1>1, <2>3, <2>4, ResetType, FS_EmptySet DEF InOrder, SizeCounts, CursorInv
  <2>6. IInv' /\ Items' = Kept(slots')
    BY <1>1, <1>2, <2>3, <2>5, AtOnce
  <2> QED
    BY <2>2, <2>4, <2>6 DEF Kept
<1>4. CASE slots' = slots /\ UNCHANGED <<size, lookups, numElements, todo>>
  <2>1. InOrder' /\ SizeCounts' /\ CursorInv'
    BY <1>1, <1>2, <1>4 DEF InOrder, SizeCounts, CursorInv
  <2>2. IInv' /\ Items' = Kept(slots')
    BY <1>1, <1>2, <1>4, <2>1, AtOnce
  <2> QED
    BY <1>2, <1>4, <2>2
<1>5. ASSUME NEW m \in Sizes, NewArray(m), numElements' = 0, todo' = Stored(slots) \o todo
      PROVE  IInv' /\ Items' = Items
  <2>1. m \in Nat \ {0} /\ LookupsFor[m] \in Nat \ {0}
    BY LookupsType
  <2>2. size' = m /\ lookups' = LookupsFor[m] /\ slots' = Fresh(m, LookupsFor[m])
    BY <1>5 DEF NewArray
  <2>3. /\ todo \in Seq(Item) /\ Distinct(todo) /\ Holds(slots)
        /\ \A i \in Occupied(slots) : \A y \in Waits(todo) : slots[i].item.key # y.key
    BY <1>2, InOrderHolds DEF IInv, TodoInv
  <2>4. IInv' /\ Items' = Kept(slots) \cup Waits(todo)
    BY <1>1, <1>2, <1>5, <2>1, <2>2, <2>3, RefillItems
  <2> QED
    BY <1>2, <2>4
<1> QED
  BY <1>1, <1>3, <1>4, <1>5 DEF RehashTo, SizeOver

LEMMA CopyStep ==
  ASSUME IInv, Copy
  PROVE  IInv' /\ Items' = Items
<1>1. /\ Idle /\ numElements' = 0 /\ todo' = Stored(slots) /\ cursor' = NoCursor
      /\ maxLoad' = maxLoad /\ hand' = hand
  BY DEF Copy
<1>2. /\ InOrder /\ todo = <<>> /\ hand = NoHand /\ maxLoad \in Loads /\ Waits(todo) = {}
      /\ Items = Kept(slots) /\ todo \in Seq(Item) /\ Distinct(todo) /\ Holds(slots)
  BY <1>1, IdleFacts, InOrderHolds DEF IInv, TodoInv
<1>3. PICK n \in Nat \ {0}, l \in Nat \ {0} : size' = n /\ lookups' = l /\ slots' = Fresh(n, l)
  <2>1. CASE ResetToEmpty
    <3> DEFINE l == MinLookups - 1
    <3>1. l \in Nat \ {0} /\ 1 \in Nat \ {0}
      BY ResetType
    <3>2. size' = 1 /\ lookups' = l /\ slots' = Fresh(1, l)
      BY <2>1 DEF ResetToEmpty
    <3> HIDE DEF l
    <3> QED
      BY <3>1, <3>2
  <2>2. ASSUME NEW m \in Sizes, NewArray(m)
        PROVE  \E n \in Nat \ {0}, l \in Nat \ {0} :
                 size' = n /\ lookups' = l /\ slots' = Fresh(n, l)
    <3>1. m \in Nat \ {0} /\ LookupsFor[m] \in Nat \ {0}
      BY LookupsType
    <3> QED
      BY <3>1, <2>2 DEF NewArray
  <2> QED
    BY <2>1, <2>2 DEF Copy, SizeOver
<1>4. todo' = Stored(slots) \o todo
  <2>1. Stored(slots) \in Seq(Item)
    BY <1>2, StoredFacts
  <2> DEFINE F == Stored(slots)
  <2> HIDE DEF F
  <2>2. F \in Seq(Item) => F \o <<>> = F
    BY ConcatEmptySeq
  <2> QED
    BY <1>1, <1>2, <2>1, <2>2 DEF F
<1>5. \A i \in Occupied(slots) : \A y \in Waits(todo) : slots[i].item.key # y.key
  BY <1>2
<1>6. IInv' /\ Items' = Kept(slots) \cup Waits(todo)
  BY <1>1, <1>2, <1>3, <1>4, <1>5, RefillItems
<1> QED
  BY <1>2, <1>6

LEMMA SetMaxLoadStep ==
  ASSUME IInv, NEW l \in Loads, SetMaxLoad(l)
  PROVE  IInv' /\ Items' = Items
<1>1. /\ Idle /\ maxLoad' = l
      /\ UNCHANGED <<array, numElements, todo, hand, cursor>>
  BY DEF SetMaxLoad
<1>2. slots' = slots /\ size' = size /\ lookups' = lookups
  BY <1>1 DEF array
<1>3. InOrder' /\ SizeCounts' /\ CursorInv'
  BY <1>1, <1>2 DEF IInv, InOrder, SizeCounts, CursorInv, End
<1>4. IInv' /\ Items' = Kept(slots')
  BY <1>1, <1>3, AtOnce
<1> QED
  BY <1>1, <1>2, <1>4, IdleFacts

(* The next element or the end *)
LEMMA AboveFacts ==
  ASSUME NEW s, NEW n \in Nat \ {0}, NEW l \in Nat \ {0}, Layout(s, n, l),
         NEW i \in -1 .. n + l - 2
  PROVE  /\ Above(s, i) \in Occupied(s) \cup {n + l - 1}
         /\ Above(s, i) > i /\ Above(s, i) \in Nat
         /\ \A j \in Occupied(s) : j > i => j >= Above(s, i)
<1> DEFINE T == {j \in DOMAIN s : j > i /\ s[j].dist >= 0}
           E == n + l - 1
<1>1. /\ DOMAIN s = 0 .. E /\ s[E].dist = 0
      /\ \A j \in Occupied(s) : j \in 0 .. n + l - 2
  <2>1. DOMAIN s = 0 .. n + l - 1 /\ s[n + l - 1] = Sentinel
    BY DEF Layout
  <2>2. s[n + l - 1].dist = 0
    BY <2>1 DEF Sentinel
  <2>3. \A j \in Occupied(s) : j \in 0 .. n + l - 2
    BY Slots
  <2> QED
    BY <2>1, <2>2, <2>3
<1>2. \A j \in 0 .. n + l - 1 : j \in Occupied(s) <=> j # n + l - 1 /\ s[j].dist >= 0
  BY Slots
<1>3. E \in T /\ T \subseteq Nat
  <2>1. E \in 0 .. E /\ E > i
    OBVIOUS
  <2> QED
    BY <1>1, <2>1
<1>4. Above(s, i) = Min(T)
  BY DEF Above
<1>5. \A j \in Occupied(s) : j > i => j \in T
  BY <1>1, <1>2
<1>6. \A j \in T : j > i /\ (j = E \/ j \in Occupied(s))
  BY <1>1, <1>2
<1> HIDE DEF T
<1>7. Min(T) \in T /\ \A j \in T : Min(T) <= j
  BY <1>3, MinIsLeast
<1>8. \A j \in Occupied(s) : j \in Nat
  BY <1>1
<1> QED
  BY <1>3, <1>4, <1>5, <1>6, <1>7, <1>8

LEMMA BeginStep ==
  ASSUME IInv, Begin
  PROVE  IInv' /\ Items' = Items
<1>1. /\ Idle /\ cursor' = [at |-> Above(slots, -1), seen |-> {}, valid |-> TRUE]
      /\ UNCHANGED <<array, numElements, maxLoad, todo, hand>>
  BY DEF Begin
<1>2. slots' = slots /\ size' = size /\ lookups' = lookups
  BY <1>1 DEF array
<1>3. /\ size \in Nat \ {0} /\ lookups \in Nat \ {0} /\ Layout(slots, size, lookups)
      /\ InOrder /\ SizeCounts /\ maxLoad \in Loads /\ todo = <<>>
  BY <1>1, IdleFacts DEF IInv, InOrder
<1>4. -1 \in -1 .. size + lookups - 2
  BY <1>3
<1>5. /\ Above(slots, -1) \in Occupied(slots) \cup {size + lookups - 1}
      /\ Above(slots, -1) \in Nat
      /\ \A j \in Occupied(slots) : j > -1 => j >= Above(slots, -1)
  BY <1>3, <1>4, AboveFacts
<1>6. \A j \in Occupied(slots) : j \in Nat /\ j > -1
  <2>1. Occupied(slots) \subseteq Nat
    BY <1>3, OccupiedFinite
  <2> QED
    BY <2>1
<1>7. CursorInv'
  <2> DEFINE a == Above(slots, -1)
  <2> HIDE DEF a
  <2>1. cursor' = [at |-> a, seen |-> {}, valid |-> TRUE]
    BY <1>1 DEF a
  <2>2. /\ a \in Occupied(slots) \cup {size + lookups - 1} /\ a \in Nat
        /\ \A j \in Occupied(slots) : ~ (j < a)
    BY <1>5, <1>6 DEF a
  <2> QED
    BY <1>1, <1>2, <1>3, <2>1, <2>2 DEF CursorInv, End
<1>8. IInv' /\ Items' = Kept(slots')
  BY <1>1, <1>2, <1>3, <1>7, AtOnce DEF InOrder, SizeCounts
<1> QED
  BY <1>1, <1>2, <1>8, IdleFacts

LEMMA OnElementFacts ==
  ASSUME IInv, OnElement
  PROVE  /\ cursor \in [at : Nat, seen : SUBSET Key, valid : {TRUE}]
         /\ cursor.at \in Occupied(slots) /\ cursor.at \in 0 .. size + lookups - 2
         /\ \A i \in Occupied(slots) : slots[i].item.key \in cursor.seen <=> i < cursor.at
<1>1. Idle /\ cursor # NoCursor /\ cursor.at # End
  BY DEF OnElement, NoCursor
<1>2. /\ cursor \in [at : Nat, seen : SUBSET Key, valid : {TRUE}]
      /\ cursor.at \in Occupied(slots)
      /\ \A i \in Occupied(slots) : slots[i].item.key \in cursor.seen <=> i < cursor.at
  BY <1>1 DEF IInv, CursorInv
<1>3. cursor.at \in 0 .. size + lookups - 2
  <2>1. size \in Nat \ {0} /\ lookups \in Nat \ {0} /\ Layout(slots, size, lookups)
    BY <1>1, IdleFacts DEF InOrder
  <2> QED
    BY <1>2, <2>1, OccupiedFinite
<1> QED
  BY <1>2, <1>3

LEMMA AdvanceStep ==
  ASSUME IInv, Advance
  PROVE  IInv' /\ Items' = Items
<1> DEFINE c == cursor.at
           a == Above(slots, c)
<1>1. /\ OnElement /\ Idle
      /\ cursor' = [cursor EXCEPT !.seen = @ \cup {slots[cursor.at].item.key},
                                  !.at = Above(slots, cursor.at)]
      /\ UNCHANGED <<array, numElements, maxLoad, todo, hand>>
  BY DEF Advance, OnElement
<1>2. slots' = slots /\ size' = size /\ lookups' = lookups
  BY <1>1 DEF array
<1>3. /\ size \in Nat \ {0} /\ lookups \in Nat \ {0} /\ Layout(slots, size, lookups)
      /\ InOrder /\ SizeCounts /\ maxLoad \in Loads /\ todo = <<>> /\ Apart(slots)
  BY <1>1, IdleFacts DEF IInv, InOrder
<1>4. /\ cursor \in [at : Nat, seen : SUBSET Key, valid : {TRUE}]
      /\ c \in Occupied(slots) /\ c \in 0 .. size + lookups - 2
      /\ \A i \in Occupied(slots) : slots[i].item.key \in cursor.seen <=> i < c
  BY <1>1, OnElementFacts
<1>5. cursor' = [at |-> a, seen |-> cursor.seen \cup {slots[c].item.key}, valid |-> TRUE]
  BY <1>1, <1>4
<1>6. slots[c].item.key \in Key
  <2>1. slots[c].item \in Item
    BY <1>3, <1>4, Slots
  <2> QED
    BY <2>1, ItemFacts
<1> HIDE DEF c
<1>7. /\ a \in Occupied(slots) \cup {size + lookups - 1} /\ a > c /\ a \in Nat
      /\ \A j \in Occupied(slots) : j > c => j >= a
  <2>1. c \in -1 .. size + lookups - 2
    BY <1>3, <1>4
  <2> QED
    BY <1>3, <2>1, AboveFacts
<1> HIDE DEF a
<1>8. \A j \in Occupied(slots) : j \in Nat
  <2>1. Occupied(slots) \subseteq Nat
    BY <1>3, OccupiedFinite
  <2> QED
    BY <2>1
<1>9. ASSUME NEW j \in Occupied(slots)
      PROVE  slots[j].item.key \in cursor.seen \cup {slots[c].item.key} <=> j < a
  <2>1. slots[j].item.key = slots[c].item.key <=> j = c
    BY <1>3, <1>4 DEF Apart
  <2>2. j < a <=> j < c \/ j = c
    BY <1>4, <1>7, <1>8, SMTT(30)
  <2> QED
    BY <2>1, <2>2, <1>4
<1>10. CursorInv'
  <2>1. cursor' \in [at : Nat, seen : SUBSET Key, valid : {TRUE}]
    BY <1>4, <1>5, <1>6, <1>7
  <2>2. cursor'.at = a /\ cursor'.seen = cursor.seen \cup {slots[c].item.key}
    BY <1>5
  <2> QED
    BY <1>1, <1>2, <1>3, <1>7, <1>9, <2>1, <2>2 DEF CursorInv, End
<1>11. IInv' /\ Items' = Kept(slots')
  BY <1>1, <1>2, <1>3, <1>10, AtOnce DEF InOrder, SizeCounts
<1> QED
  BY <1>1, <1>2, <1>11, IdleFacts

LEMMA EraseAtCursorStep ==
  ASSUME IInv, EraseAtCursor
  PROVE  /\ IInv'
         /\ Items' = {x \in Items : x.key # slots[cursor.at].item.key}
         /\ slots[cursor.at].item \in Items
<1> DEFINE c == cursor.at
           w == Erased(c)
           a == Above(w, c - 1)
<1>1. /\ OnElement /\ Idle /\ slots' = w /\ numElements' = numElements - 1
      /\ cursor' = [cursor EXCEPT !.at = a]
      /\ size' = size /\ lookups' = lookups /\ maxLoad' = maxLoad /\ todo' = todo /\ hand' = hand
  <2>1. slots' = Erased(cursor.at) /\ cursor' = [cursor EXCEPT !.at = AfterErase(slots', cursor.at)]
    BY DEF EraseAtCursor
  <2> QED
    BY <2>1 DEF EraseAtCursor, OnElement, AfterErase
<1>2. /\ cursor \in [at : Nat, seen : SUBSET Key, valid : {TRUE}]
      /\ c \in Occupied(slots) /\ c \in 0 .. size + lookups - 2
      /\ \A i \in Occupied(slots) : slots[i].item.key \in cursor.seen <=> i < c
  BY <1>1, OnElementFacts
<1>3. /\ size \in Nat \ {0} /\ lookups \in Nat \ {0}
      /\ InOrder /\ maxLoad \in Loads /\ todo = <<>> /\ Apart(slots)
      /\ numElements = Cardinality(Occupied(slots)) /\ Items = Kept(slots)
  BY <1>1, IdleFacts DEF InOrder
<1>4. cursor' = [at |-> a, seen |-> cursor.seen, valid |-> TRUE]
  BY <1>1, <1>2
<1> HIDE DEF c
<1>5. Layout(w, size, lookups)
  BY <1>2, <1>3, ErasedLayout
<1>6. /\ Apart(w)
      /\ Cardinality(Occupied(w)) = Cardinality(Occupied(slots)) - 1
      /\ {w[j].item : j \in Occupied(w)} = {slots[j].item : j \in Occupied(slots) \ {c}}
      /\ \A j \in Occupied(w) :
           \/ j < c /\ j \in Occupied(slots) /\ w[j] = slots[j]
           \/ j >= c /\ \E m \in Occupied(slots) : m > c /\ w[j].item = slots[m].item
  BY <1>2, <1>3, ErasedItems
<1> HIDE DEF w
<1>7. /\ a \in Occupied(w) \cup {size + lookups - 1} /\ a > c - 1 /\ a \in Nat
      /\ \A j \in Occupied(w) : j > c - 1 => j >= a
  <2>1. c - 1 \in -1 .. size + lookups - 2
    BY <1>2, <1>3
  <2> QED
    BY <1>3, <1>5, <2>1, AboveFacts
<1> HIDE DEF a
<1>8. (\A j \in Occupied(slots) : j \in Nat) /\ \A j \in Occupied(w) : j \in Nat
  <2>1. Occupied(w) \subseteq Nat
    BY <1>3, <1>5, OccupiedFinite
  <2>2. Occupied(slots) \subseteq Nat
    BY <1>3, OccupiedFinite DEF InOrder
  <2> QED
    BY <2>1, <2>2
<1>9. ASSUME NEW j \in Occupied(w)
      PROVE  w[j].item.key \in cursor.seen <=> j < a
  <2>1. CASE j < c /\ j \in Occupied(slots) /\ w[j] = slots[j]
    BY <2>1, <1>2, <1>7, <1>8
  <2>2. ASSUME j >= c, NEW m \in Occupied(slots), m > c, w[j].item = slots[m].item
        PROVE  w[j].item.key \in cursor.seen <=> j < a
    <3>1. slots[m].item.key \notin cursor.seen
      BY <2>2, <1>2, <1>8
    <3>2. ~ (j < a)
      BY <2>2, <1>2, <1>7, <1>8
    <3> QED
      BY <3>1, <3>2, <2>2
  <2> QED
    BY <2>1, <2>2, <1>6
<1>10. CursorInv'
  <2>1. cursor' \in [at : Nat, seen : SUBSET Key, valid : {TRUE}]
    BY <1>2, <1>4, <1>7
  <2>2. cursor'.at = a /\ cursor'.seen = cursor.seen
    BY <1>4
  <2> QED
    BY <1>1, <1>3, <1>7, <1>9, <2>1, <2>2 DEF CursorInv, End
<1>11. InOrder' /\ SizeCounts'
  BY <1>1, <1>3, <1>5, <1>6 DEF InOrder, SizeCounts
<1>12. IInv' /\ Items' = Kept(slots')
  BY <1>1, <1>3, <1>10, <1>11, AtOnce
<1>13. Kept(slots') = {x \in Kept(slots) : x.key # slots[c].item.key}
  <2>1. \A j \in Occupied(slots) : slots[j].item.key # slots[c].item.key <=> j # c
    BY <1>2, <1>3 DEF Apart
  <2>2. Kept(slots') = {slots[j].item : j \in Occupied(slots) \ {c}}
    BY <1>1, <1>6 DEF Kept
  <2> QED
    BY <2>1, <2>2 DEF Kept
<1>14. slots[c].item \in Items
  BY <1>2, <1>3 DEF Kept
<1> QED
  BY <1>3, <1>12, <1>13, <1>14 DEF c

(* The keys of the slots from first up to end *)
Gone(first, end) == {slots[i].item.key : i \in Occupied(slots) \cap (first .. end - 1)}

LEMMA EraseRangeStep ==
  ASSUME IInv, NEW end \in DOMAIN slots, EraseRange(end)
  PROVE  IInv' /\ Items' = {x \in Items : x.key \notin Gone(cursor.at, end)}
<1> DEFINE c == cursor.at
           w == ErasedRange(c, end)
           a == AfterRange(c, end)
<1>1. /\ OnElement /\ Idle /\ slots' = w
      /\ numElements' = numElements - Cardinality(Occupied(slots) \cap (c .. end - 1))
      /\ cursor' = [cursor EXCEPT !.at = a]
      /\ size' = size /\ lookups' = lookups /\ maxLoad' = maxLoad /\ todo' = todo /\ hand' = hand
      /\ end \in Occupied(slots) \cup {End} /\ c < end
  BY DEF EraseRange, OnElement, LeftAfter
<1>2. /\ cursor \in [at : Nat, seen : SUBSET Key, valid : {TRUE}]
      /\ c \in Occupied(slots) /\ c \in 0 .. size + lookups - 2
      /\ \A i \in Occupied(slots) : slots[i].item.key \in cursor.seen <=> i < c
  BY <1>1, OnElementFacts
<1>3. /\ size \in Nat \ {0} /\ lookups \in Nat \ {0} /\ Layout(slots, size, lookups)
      /\ InOrder /\ maxLoad \in Loads /\ todo = <<>> /\ Apart(slots)
      /\ numElements = Cardinality(Occupied(slots)) /\ Items = Kept(slots)
  BY <1>1, IdleFacts DEF InOrder
<1>4. cursor' = [at |-> a, seen |-> cursor.seen, valid |-> TRUE]
  BY <1>1, <1>2
<1>5. c \in Nat /\ end \in c + 1 .. size + lookups - 1
  <2>1. end \in 0 .. size + lookups - 1
    BY <1>3 DEF Layout
  <2> QED
    BY <2>1, <1>1, <1>2, <1>3
<1> HIDE DEF c
<1>6. Layout(w, size, lookups)
  BY <1>3, <1>5, RangeLayout
<1>7. /\ Apart(w)
      /\ Cardinality(Occupied(w)) = Cardinality(Occupied(slots))
           - Cardinality(Occupied(slots) \cap (c .. end - 1))
      /\ {w[j].item : j \in Occupied(w)} = {slots[j].item : j \in Occupied(slots) \ (c .. end - 1)}
      /\ a \in Occupied(w) \cup {End} /\ a >= c
      /\ \A j \in Occupied(w) :
           \/ j < a /\ j < c /\ j \in Occupied(slots) /\ w[j] = slots[j]
           \/ j >= a /\ \E m \in Occupied(slots) : m >= end /\ w[j].item = slots[m].item
  BY <1>1, <1>3, <1>5, RangeItems
<1> HIDE DEF w, a
<1>8. \A j \in Occupied(slots) : j \in Nat
  <2>1. Occupied(slots) \subseteq Nat
    BY <1>3, OccupiedFinite
  <2> QED
    BY <2>1
<1>9. (\A j \in Occupied(w) : j \in Nat) /\ a \in Nat
  <2>1. Occupied(w) \subseteq Nat
    BY <1>3, <1>6, OccupiedFinite
  <2>2. End \in Nat
    BY <1>3 DEF End
  <2> QED
    BY <2>1, <2>2, <1>7
<1>10. ASSUME NEW j \in Occupied(w)
       PROVE  w[j].item.key \in cursor.seen <=> j < a
  <2>1. CASE j < a /\ j < c /\ j \in Occupied(slots) /\ w[j] = slots[j]
    BY <2>1, <1>2
  <2>2. ASSUME j >= a, NEW m \in Occupied(slots), m >= end, w[j].item = slots[m].item
        PROVE  w[j].item.key \in cursor.seen <=> j < a
    <3>1. slots[m].item.key \notin cursor.seen
      BY <2>2, <1>2, <1>5, <1>8
    <3>2. ~ (j < a)
      BY <2>2, <1>9
    <3> QED
      BY <3>1, <3>2, <2>2
  <2> QED
    BY <2>1, <2>2, <1>7
<1>11. CursorInv'
  <2>1. cursor' \in [at : Nat, seen : SUBSET Key, valid : {TRUE}]
    BY <1>2, <1>4, <1>9
  <2>2. cursor'.at = a /\ cursor'.seen = cursor.seen
    BY <1>4
  <2> QED
    BY <1>1, <1>3, <1>7, <1>10, <2>1, <2>2 DEF CursorInv, End
<1>12. InOrder' /\ SizeCounts'
  BY <1>1, <1>3, <1>6, <1>7 DEF InOrder, SizeCounts
<1>13. IInv' /\ Items' = Kept(slots')
  BY <1>1, <1>3, <1>11, <1>12, AtOnce
<1>14. Kept(slots') = {x \in Kept(slots) : x.key \notin Gone(c, end)}
  <2>1. ASSUME NEW j \in Occupied(slots)
        PROVE  slots[j].item.key \in Gone(c, end) <=> j \in c .. end - 1
    BY <1>3 DEF Apart, Gone
  <2>2. Kept(slots') = {slots[j].item : j \in Occupied(slots) \ (c .. end - 1)}
    BY <1>1, <1>7 DEF Kept
  <2> QED
    BY <2>1, <2>2 DEF Kept
<1> QED
  BY <1>3, <1>13, <1>14 DEF c

-----------------------------------------------------------------------------
(* The invariant *)

LEMMA InitIInv ==
  ASSUME Init
  PROVE  IInv /\ Items = {}
<1>1. /\ size = 1 /\ lookups = MinLookups - 1 /\ slots = Fresh(size, lookups)
      /\ numElements = 0 /\ maxLoad = DefaultLoad /\ todo = <<>>
      /\ hand = NoHand /\ cursor = NoCursor
  BY DEF Init
<1>2. size \in Nat \ {0} /\ lookups \in Nat \ {0} /\ maxLoad \in Loads
  BY <1>1, ResetType, FlatAssumption DEF FlatAssumption
<1>3. Layout(slots, size, lookups) /\ Occupied(slots) = {} /\ Apart(slots)
  BY <1>1, <1>2, FreshLayout
<1>4. InOrder /\ SizeCounts
  BY <1>1, <1>2, <1>3, FS_EmptySet DEF InOrder, SizeCounts
<1>5. HandInv /\ TodoInv /\ CursorInv
  BY <1>1 DEF HandInv, TodoInv, Distinct, CursorInv
<1>6. Items = {}
  BY <1>1, <1>3 DEF Items, InTable, Coming, NoHand
<1> QED
  BY <1>2, <1>4, <1>5, <1>6 DEF IInv

LEMMA ContinueStep ==
  ASSUME IInv, Continue
  PROVE  IInv' /\ Items' = Items
BY PresentStep, GrowStep, InsertStep, DisplaceStep, CarryInStep, SwapStep, PassOverStep,
   GiveUpStep DEF Continue

LEMMA RearrangeStep ==
  ASSUME IInv, Rearrange
  PROVE  IInv' /\ Items' = Items
<1>1. ASSUME NEW n \in Requests, Rehash(n) PROVE IInv' /\ Items' = Items
  BY <1>1, RehashStep, FlatAssumption DEF FlatAssumption
<1>2. ASSUME NEW n \in Requests, Reserve(n) PROVE IInv' /\ Items' = Items
  <2>1. n \in Nat /\ maxLoad \in Loads
    BY FlatAssumption DEF FlatAssumption, IInv
  <2>2. ForReserve(n) \in Nat
    BY <2>1, ForReserveFacts
  <2>3. Rehash(ForReserve(n))
    BY <1>2 DEF Reserve
  <2> QED
    BY <2>2, <2>3, RehashStep
<1>3. ASSUME NEW l \in Loads, SetMaxLoad(l) PROVE IInv' /\ Items' = Items
  BY <1>3, SetMaxLoadStep
<1>4. CASE ShrinkToFit
  <2> DEFINE n == Min({ForReserve(numElements), size})
  <2>1. Rehash(n)
    BY <1>4 DEF ShrinkToFit
  <2>2. Idle
    BY <2>1 DEF Rehash
  <2>3. maxLoad \in Loads /\ numElements \in Nat /\ size \in Nat
    BY <2>2, IdleFacts DEF InOrder
  <2>4. ForReserve(numElements) \in Nat
    BY <2>3, ForReserveFacts
  <2>5. n \in Nat
    <3>1. ForReserve(numElements) \in Int /\ size \in Int
      BY <2>3, <2>4
    <3>2. n \in {ForReserve(numElements), size}
      BY <3>1, MinOfTwo
    <3> QED
      BY <3>2, <2>3, <2>4
  <2> HIDE DEF n
  <2> QED
    BY <2>1, <2>5, RehashStep
<1> QED
  BY <1>1, <1>2, <1>3, <1>4, CopyStep, BeginStep, AdvanceStep DEF Rearrange

LEMMA NextIInv ==
  ASSUME IInv, [Next]_vars
  PROVE  IInv'
<1>1. ASSUME NEW k \in Key, NEW v \in Value, Emplace(k, v) \/ Assign(k, v) PROVE IInv'
  BY <1>1, EmplaceStep, AssignStep
<1>2. ASSUME NEW k \in Key, Erase(k) PROVE IInv'
  BY <1>2, EraseStep
<1>3. CASE Clear
  BY <1>3, ClearStep
<1>4. CASE Rearrange
  BY <1>4, RearrangeStep
<1>5. CASE EraseAtCursor
  BY <1>5, EraseAtCursorStep
<1>6. ASSUME NEW end \in DOMAIN slots, EraseRange(end) PROVE IInv'
  BY <1>6, EraseRangeStep
<1>7. CASE Continue
  BY <1>7, ContinueStep
<1>8. CASE UNCHANGED vars
  BY <1>8 DEF vars, array, IInv, InOrder, SizeCounts, HandInv, InHand, TodoInv, Comes, CursorInv, End
<1> QED
  BY <1>1, <1>2, <1>3, <1>4, <1>5, <1>6, <1>7, <1>8 DEF Next, Call

(* The array keeps its order, the elements come in once and an iterator    *)
(* has seen what is before it, in every behaviour of the map.              *)
THEOREM Invariance == Spec => []IInv
BY InitIInv, NextIInv, PTL DEF Spec

LEMMA WellFormedHolds ==
  ASSUME IInv
  PROVE  WellFormed
<1>1. /\ size \in Nat \ {0} /\ lookups \in Nat \ {0} /\ Layout(slots, size, lookups)
      /\ maxLoad \in Loads /\ todo \in Seq(Item) /\ numElements = Cardinality(Occupied(slots))
  BY DEF IInv, InOrder, TodoInv, SizeCounts
<1>2. End = size + lookups - 1 /\ End \in Nat
  BY <1>1 DEF End
<1>3. DOMAIN slots = 0 .. End /\ slots[End] = Sentinel
  BY <1>1, <1>2 DEF Layout
<1>4. ASSUME NEW i \in 0 .. End - 1
      PROVE  slots[i] = Empty \/ (slots[i].dist \in 0 .. lookups - 1 /\ slots[i].item \in Item)
  <2>1. i \in 0 .. size + lookups - 2
    BY <1>1, <1>2
  <2> QED
    BY <2>1, <1>1 DEF Layout, Element
<1>5. numElements \in 0 .. End
  <2>1. /\ IsFiniteSet(Occupied(slots))
        /\ Occupied(slots) \subseteq 0 .. size + lookups - 2
    BY <1>1, OccupiedFinite
  <2>2. /\ IsFiniteSet(0 .. size + lookups - 2)
        /\ Cardinality(0 .. size + lookups - 2) = size + lookups - 1
    <3> DEFINE b == size + lookups - 2
    <3>1. 0 \in Int /\ b \in Int /\ (0 > b => b + 1 = 0)
      BY <1>1
    <3> HIDE DEF b
    <3>2. IsFiniteSet(0 .. b) /\ Cardinality(0 .. b) = b + 1
      BY <3>1, FS_Interval
    <3> QED
      BY <3>2, <1>1 DEF b
  <2>3. Cardinality(Occupied(slots)) <= Cardinality(0 .. size + lookups - 2)
    BY <2>1, <2>2, FS_Subset
  <2>4. Cardinality(Occupied(slots)) \in Nat
    BY <2>1, FS_CardinalityType
  <2> QED
    BY <2>2, <2>3, <2>4, <1>1, <1>2
<1>6. /\ hand.item \in Item \cup {NoItem} /\ hand.dist \in 0 .. lookups
      /\ hand # NoHand => hand.at < End
  <2>1. CASE hand = NoHand
    BY <2>1, <1>1 DEF NoHand
  <2>2. CASE InHand
    <3>1. hand.dist \in 1 .. lookups - 1 /\ hand.at \in 0 .. size + lookups - 2 /\ hand.item \in Item
      BY <2>2 DEF InHand
    <3> QED
      BY <3>1, <1>1, <1>2
  <2> QED
    BY <2>1, <2>2 DEF IInv, HandInv
<1>7. cursor.at \in DOMAIN slots \cup {-1} /\ cursor.seen \subseteq Key
  <2>1. CASE cursor = NoCursor
    BY <2>1 DEF NoCursor
  <2>2. CASE /\ cursor \in [at : Nat, seen : SUBSET Key, valid : {TRUE}]
             /\ cursor.at \in Occupied(slots) \cup {End}
    <3>1. cursor.at \in DOMAIN slots
      BY <2>2, <1>2, <1>3 DEF Occupied
    <3> QED
      BY <2>2, <3>1
  <2> QED
    BY <2>1, <2>2 DEF IInv, CursorInv
<1>8. TypeOK
  BY <1>1, <1>3, <1>4, <1>5, <1>6, <1>7 DEF TypeOK
<1> QED
  BY <1>3, <1>6, <1>8 DEF WellFormed, SentinelKept

LEMMA FindableHolds ==
  ASSUME IInv
  PROVE  Findable
BY Finds DEF IInv, Findable

LEMMA EachOnceHolds ==
  ASSUME IInv
  PROVE  EachOnce
<1>1. SizeCounts /\ Apart(slots) /\ todo \in Seq(Item) /\ \A n \in DOMAIN todo : Comes(n)
  BY DEF IInv, InOrder, TodoInv
<1>2. ASSUME NEW i \in Occupied(slots), NEW n \in 1 .. Len(todo) - 1,
             slots[i].item.key = todo[n].key
      PROVE  hand # NoHand /\ n = 1
  <2>1. Len(todo) \in Nat /\ n \in DOMAIN todo /\ Len(todo) # 1
    BY <1>1
  <2> QED
    BY <2>1, <1>1, <1>2 DEF Comes
<1> QED
  BY <1>1, <1>2 DEF EachOnce, NothingTwice, Apart

LEMMA PassSeesAllHolds ==
  ASSUME IInv
  PROVE  PassSeesAll
<1>1. cursor.valid => cursor # NoCursor
  BY DEF NoCursor
<1>2. CursorInv
  BY DEF IInv
<1> QED
  BY <1>1, <1>2 DEF CursorInv, PassSeesAll

(* In a table of any size, with any number of elements and lookups, the    *)
(* array and its sentinel stay in order.                                   *)
THEOREM StaysWellFormed == Spec => []WellFormed
BY Invariance, WellFormedHolds, PTL

(* Displacing, moving up, giving up and growing leave every element where  *)
(* the search for its key finds it.                                        *)
THEOREM StaysFindable == Spec => []Findable
BY Invariance, FindableHolds, PTL

(* No element is lost from the count, twice in the array or twice on its   *)
(* way into a new one.                                                     *)
THEOREM StaysOnce == Spec => []EachOnce
BY Invariance, EachOnceHolds, PTL

(* A pass that erases on its way, one by one or in ranges, misses none of  *)
(* the elements that stay and sees none of them twice.                     *)
THEOREM PassesSeeAll == Spec => []PassSeesAll
BY Invariance, PassSeesAllHolds, PTL

-----------------------------------------------------------------------------
(* What the calls promise *)

LEMMA ItemsOne ==
  ASSUME IInv
  PROVE  OneEach(Items) /\ Contents = MapOf(Items)
<1>1. /\ Apart(slots) /\ Distinct(todo)
      /\ hand.item # NoItem => \A i \in Occupied(slots) : slots[i].item.key # hand.item.key
  <2>1. hand.item # NoItem => InHand
    BY HandType
  <2> QED
    BY <2>1 DEF IInv, InOrder, TodoInv, InHand
<1>2. OneEach(InTable)
  <2> SUFFICES ASSUME NEW x \in InTable, NEW y \in InTable, x.key = y.key
               PROVE  x = y
    BY DEF OneEach
  <2>1. \A z \in InTable : (\E i \in Occupied(slots) : z = slots[i].item)
                             \/ (z = hand.item /\ hand.item # NoItem)
    BY DEF InTable
  <2> QED
    BY <2>1, <1>1 DEF Apart
<1>3. OneEach(Coming)
  <2> SUFFICES ASSUME NEW x \in Coming, NEW y \in Coming, x.key = y.key
               PROVE  x = y
    BY DEF OneEach
  <2>1. \A z \in Coming : \E n \in DOMAIN todo : z = todo[n]
    BY DEF Coming
  <2> QED
    BY <2>1, <1>1 DEF Distinct
<1>4. \A x \in Coming, y \in InTable : y.key # x.key
  BY DEF Coming
<1>5. OneEach(Items)
  BY <1>2, <1>3, <1>4 DEF Items, OneEach
<1>6. Contents = MapOf(Items)
  BY DEF Contents, MapOf, Keys
<1> QED
  BY <1>5, <1>6

LEMMA ContentsAfter == Contents' = MapOf(Items')
BY DEF Contents, MapOf, Keys

(* An item that is in the map or is not, by its key *)
LEMMA InMap ==
  ASSUME IInv, NEW k
  PROVE  k \in DOMAIN Contents <=> \E x \in Items : x.key = k
BY ItemsOne DEF MapOf, Keys

LEMMA EmplacePromise ==
  ASSUME IInv, NEW k \in Key, NEW v \in Value, Emplace(k, v)
  PROVE  IF k \in DOMAIN Contents THEN UNCHANGED Contents ELSE Map!Emplace(k, v)
<1> DEFINE x == [key |-> k, val |-> v]
<1>1. Items' = Items \cup {z \in {x} : \A y \in Items : y.key # z.key}
  BY EmplaceStep
<1>2. OneEach(Items) /\ Contents = MapOf(Items) /\ Contents' = MapOf(Items')
  BY ItemsOne, ContentsAfter
<1>3. x.key = k /\ x.val = v
  OBVIOUS
<1> HIDE DEF x
<1>4. CASE k \in DOMAIN Contents
  <2>1. PICK y \in Items : y.key = k
    BY <1>4, InMap
  <2>2. Items' = Items
    BY <1>1, <1>3, <2>1
  <2> QED
    BY <1>2, <1>4, <2>2
<1>5. CASE k \notin DOMAIN Contents
  <2>1. \A y \in Items : y.key # k
    BY <1>5, InMap
  <2>2. Items' = Items \cup {x} /\ x.key \notin Keys(Items)
    BY <1>1, <1>3, <2>1 DEF Keys
  <2>3. MapOf(Items \cup {x}) = Put(MapOf(Items), x.key, x.val)
    BY <1>2, <2>2, MapAdd
  <2>4. Contents' = Put(Contents, k, v)
    BY <1>2, <1>3, <2>2, <2>3
  <2> QED
    BY <1>5, <2>4 DEF Map!Emplace, Map!Put, Put
<1> QED
  BY <1>4, <1>5

LEMMA AssignPromise ==
  ASSUME IInv, NEW k \in Key, NEW v \in Value, Assign(k, v)
  PROVE  Map!Assign(k, v)
<1> DEFINE x == [key |-> k, val |-> v]
<1>1. PICK y \in Items : y.key = k /\ Items' = (Items \ {y}) \cup {x}
  BY AssignStep
<1>2. OneEach(Items) /\ Contents = MapOf(Items) /\ Contents' = MapOf(Items')
  BY ItemsOne, ContentsAfter
<1>3. x.key = k /\ x.val = v
  OBVIOUS
<1> HIDE DEF x
<1>4. MapOf((Items \ {y}) \cup {x}) = Put(MapOf(Items), x.key, x.val)
  BY <1>1, <1>2, <1>3, MapReplace
<1>5. k \in DOMAIN Contents
  BY <1>1, InMap
<1>6. Contents' = Put(Contents, k, v)
  BY <1>1, <1>2, <1>3, <1>4
<1> QED
  BY <1>5, <1>6 DEF Map!Assign, Map!Put, Put

(* Taking out one key, and taking out all of some *)
LEMMA TakeOut ==
  ASSUME IInv, NEW k, Items' = {x \in Items : x.key # k}, \E x \in Items : x.key = k
  PROVE  Map!Erase(k)
<1>1. OneEach(Items) /\ Contents = MapOf(Items) /\ Contents' = MapOf(Items')
  BY ItemsOne, ContentsAfter
<1>2. Items' = {x \in Items : x.key \notin {k}}
  OBVIOUS
<1>3. MapOf({x \in Items : x.key \notin {k}})
        = [j \in DOMAIN MapOf(Items) \ {k} |-> MapOf(Items)[j]]
  BY <1>1, MapWithout
<1>4. Contents' = Remove(Contents, k)
  BY <1>1, <1>2, <1>3 DEF Remove
<1>5. k \in DOMAIN Contents
  BY InMap
<1> QED
  BY <1>4, <1>5 DEF Map!Erase, Map!Remove, Remove

LEMMA EraseRangePromise ==
  ASSUME IInv, NEW end \in DOMAIN slots, EraseRange(end)
  PROVE  Contents' = [k \in DOMAIN Contents \ Gone(cursor.at, end) |-> Contents[k]]
<1> DEFINE G == Gone(cursor.at, end)
<1>1. Items' = {x \in Items : x.key \notin G}
  BY EraseRangeStep
<1>2. OneEach(Items) /\ Contents = MapOf(Items) /\ Contents' = MapOf(Items')
  BY ItemsOne, ContentsAfter
<1> HIDE DEF G
<1>3. MapOf({x \in Items : x.key \notin G}) = [k \in DOMAIN MapOf(Items) \ G |-> MapOf(Items)[k]]
  BY <1>2, MapWithout
<1> QED
  BY <1>1, <1>2, <1>3 DEF G

LEMMA ClearPromise ==
  ASSUME IInv, Clear
  PROVE  Map!Clear
BY ClearStep, ContentsAfter, MapOfNothing DEF Map!Clear, EmptyMap, Map!EmptyMap

LEMMA PromiseHolds ==
  ASSUME IInv
  PROVE  Promise
<1>1. ASSUME NEW k \in Key, NEW v \in Value
      PROVE  /\ Emplace(k, v) =>
                  IF k \in DOMAIN Contents THEN UNCHANGED Contents ELSE Map!Emplace(k, v)
             /\ Assign(k, v) => Map!Assign(k, v)
  BY EmplacePromise, AssignPromise
<1>2. ASSUME NEW k \in Key, Erase(k) PROVE Map!Erase(k)
  BY <1>2, EraseStep, TakeOut
<1>3. ASSUME EraseAtCursor PROVE Map!Erase(slots[cursor.at].item.key)
  <2> DEFINE k == slots[cursor.at].item.key
  <2>1. Items' = {x \in Items : x.key # k} /\ \E x \in Items : x.key = k
    BY <1>3, EraseAtCursorStep
  <2> HIDE DEF k
  <2>2. Map!Erase(k)
    BY <2>1, TakeOut
  <2> QED
    BY <2>2 DEF k
<1>4. ASSUME NEW end \in DOMAIN slots, EraseRange(end)
      PROVE  LET gone == {slots[i].item.key : i \in Occupied(slots) \cap cursor.at .. end - 1}
             IN  Contents' = [k \in DOMAIN Contents \ gone |-> Contents[k]]
  BY <1>4, EraseRangePromise DEF Gone
<1>5. Clear => Map!Clear
  BY ClearPromise
<1>6. ASSUME Rearrange \/ Continue PROVE UNCHANGED Contents
  <2>1. Items' = Items
    BY <1>6, RearrangeStep, ContinueStep
  <2>2. Contents = MapOf(Items) /\ Contents' = MapOf(Items')
    BY ItemsOne, ContentsAfter
  <2> QED
    BY <2>1, <2>2
<1> QED
  BY <1>1, <1>2, <1>3, <1>4, <1>5, <1>6 DEF Promise

(* Every call does to the map what KeyedMap promises of it, in one step,   *)
(* and no other step changes the map: not the displacing, moving, giving   *)
(* up and growing that the call goes on with, and no rehash.               *)
THEOREM PromisesKept == Spec => KeepsPromises
<1>1. Spec => []IInv
  BY Invariance
<1>2. IInv => [Promise]_vars
  BY PromiseHolds
<1> QED
  BY <1>1, <1>2, PTL DEF KeepsPromises

=============================================================================
