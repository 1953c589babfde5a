---------------------------- MODULE CommonLemmas ----------------------------
(***************************************************************************)
(* What the proofs about several modules rest on.                          *)
(*                                                                         *)
(* Induction over the natural numbers as statements about sets of them,    *)
(* which need no operator as a parameter: every set of naturals has a      *)
(* least member.  From it come the minimum and maximum the models choose,  *)
(* induction, and the position of a member in the order of its set.        *)
(*                                                                         *)
(* And the map that a set of pairs of a key and a value stands for: what   *)
(* becomes of it when one is added, replaced or taken out.  And the        *)
(* sequences of such pairs that wait for their place in a new array.       *)
(***************************************************************************)
EXTENDS MapOps, Integers, Sequences, FiniteSets, FiniteSetsExt,
        FunctionTheorems, FiniteSetTheorems, SequenceTheorems, WellFoundedInduction, TLAPS

LessThan == {p \in Nat \X Nat : p[1] < p[2]}

(* A set of naturals that is not empty has a least member. *)
LEMMA LeastNatural ==
  ASSUME NEW T, T \subseteq Nat, T # {}
  PROVE  \E n \in T : \A m \in T : n <= m
<1>1. OpToRel(<, Nat) = LessThan
  BY DEF OpToRel, LessThan
<1>2. IsWellFoundedOn(LessThan, Nat)
  BY <1>1, NatLessThanWellFounded
<1>3. PICK n \in T : \A m \in T : ~ (<<m, n>> \in LessThan)
  BY <1>2, WFMin
<1>4. ASSUME NEW m \in T PROVE n <= m
  <2>1. m \in Nat /\ n \in Nat
    OBVIOUS
  <2>2. ~ (<<m, n>> \in LessThan)
    BY <1>3
  <2>3. ~ (m < n)
    BY <2>1, <2>2 DEF LessThan
  <2> QED
    BY <2>1, <2>3
<1> QED
  BY <1>4

(* The least member is what Min chooses. *)
LEMMA MinIsLeast ==
  ASSUME NEW T, T \subseteq Nat, T # {}
  PROVE  Min(T) \in T /\ \A m \in T : Min(T) <= m
BY LeastNatural DEF Min

(* The greater and the lesser of two numbers *)
LEMMA MaxOfTwo ==
  ASSUME NEW a \in Int, NEW b \in Int
  PROVE  Max({a, b}) \in {a, b} /\ Max({a, b}) >= a /\ Max({a, b}) >= b
<1>1. a >= a /\ b >= b /\ (a >= b \/ b >= a)
  OBVIOUS
<1>2. \E x \in {a, b} : \A y \in {a, b} : x >= y
  BY <1>1
<1> QED
  BY <1>2 DEF Max

LEMMA MinOfTwo ==
  ASSUME NEW a \in Int, NEW b \in Int
  PROVE  Min({a, b}) \in {a, b} /\ Min({a, b}) <= a /\ Min({a, b}) <= b
<1>1. a <= a /\ b <= b /\ (a <= b \/ b <= a)
  OBVIOUS
<1>2. \E x \in {a, b} : \A y \in {a, b} : x <= y
  BY <1>1
<1> QED
  BY <1>2 DEF Min

(* A bounded set of naturals has a greatest member. *)
LEMMA GreatestNatural ==
  ASSUME NEW T, T \subseteq Nat, T # {}, NEW b \in Nat, \A m \in T : m <= b
  PROVE  \E n \in T : \A m \in T : m <= n
<1> DEFINE U == {u \in Nat : \A m \in T : m <= u}
<1>1. U \subseteq Nat /\ U # {}
  <2>1. b \in U
    OBVIOUS
  <2> QED
    BY <2>1
<1>2. PICK u \in U : \A w \in U : u <= w
  BY <1>1, LeastNatural
<1>3. u \in T
  <2> SUFFICES ASSUME u \notin T PROVE FALSE
    OBVIOUS
  <2>1. PICK m \in T : TRUE
    OBVIOUS
  <2>2. u - 1 \in U
    <3>1. u \in Nat /\ m \in Nat /\ m <= u /\ m # u
      OBVIOUS
    <3>2. u - 1 \in Nat
      BY <3>1
    <3>3. ASSUME NEW x \in T PROVE x <= u - 1
      <4>1. x \in Nat /\ x <= u /\ x # u
        OBVIOUS
      <4> QED
        BY <4>1, <3>1
    <3> QED
      BY <3>2, <3>3
  <2>3. u <= u - 1
    BY <2>2, <1>2
  <2>4. u \in Nat
    OBVIOUS
  <2> QED
    BY <2>3, <2>4
<1> QED
  BY <1>3

(* Induction: a set with 0 and every successor has every natural. *)
LEMMA SetInduction ==
  ASSUME NEW T, 0 \in T, \A n \in Nat : n \in T => n + 1 \in T
  PROVE  Nat \subseteq T
<1> SUFFICES ASSUME Nat \ T # {} PROVE FALSE
  OBVIOUS
<1>1. PICK n \in Nat \ T : \A m \in Nat \ T : n <= m
  <2>1. Nat \ T \subseteq Nat
    OBVIOUS
  <2> QED
    BY <2>1, LeastNatural
<1>2. n \in Nat /\ n # 0 /\ n \notin T
  OBVIOUS
<1>3. n - 1 \in Nat /\ n - 1 \in T
  BY <1>1, <1>2
<1>4. (n - 1) + 1 \in T
  BY <1>3
<1> QED
  BY <1>2, <1>4

(* Strong induction: every natural is in a set that has it whenever it has *)
(* all lesser ones.                                                        *)
LEMMA StrongInduction ==
  ASSUME NEW T, \A n \in Nat : (\A m \in Nat : m < n => m \in T) => n \in T
  PROVE  Nat \subseteq T
<1> SUFFICES ASSUME Nat \ T # {} PROVE FALSE
  OBVIOUS
<1>1. PICK n \in Nat \ T : \A m \in Nat \ T : n <= m
  <2>1. Nat \ T \subseteq Nat
    OBVIOUS
  <2> QED
    BY <2>1, LeastNatural
<1>2. \A m \in Nat : m < n => m \in T
  BY <1>1
<1> QED
  BY <1>1, <1>2

(* Counting upwards gives every member of a finite set of naturals a       *)
(* number of its own, and every number up to the set's size to a member.   *)
LEMMA RankBijection ==
  ASSUME NEW O, O \subseteq Nat, IsFiniteSet(O)
  PROVE  /\ Cardinality(O) \in Nat
         /\ \A i \in O : Cardinality({j \in O : j <= i}) \in 1 .. Cardinality(O)
         /\ \A i, k \in O : Cardinality({j \in O : j <= i}) = Cardinality({j \in O : j <= k})
                              => i = k
         /\ \A n \in 1 .. Cardinality(O) : \E i \in O : Cardinality({j \in O : j <= i}) = n
<1> DEFINE Upto(i) == {j \in O : j <= i}
           rank == [i \in O |-> Cardinality(Upto(i))]
           N == Cardinality(O)
<1>1. N \in Nat
  BY FS_CardinalityType
<1>2. ASSUME NEW i \in O
      PROVE  IsFiniteSet(Upto(i)) /\ Cardinality(Upto(i)) \in 1 .. N
  <2>1. Upto(i) \in SUBSET O
    OBVIOUS
  <2> HIDE DEF N
  <2>2. IsFiniteSet(Upto(i)) /\ Cardinality(Upto(i)) <= N
    BY <2>1, FS_Subset DEF N
  <2>3. i \in Upto(i)
    OBVIOUS
  <2>4. Cardinality(Upto(i)) \in Nat /\ Cardinality(Upto(i)) # 0
    BY <2>2, <2>3, FS_CardinalityType, FS_EmptySet
  <2> HIDE DEF Upto
  <2> QED
    BY <2>2, <2>4, <1>1
<1>3. ASSUME NEW i \in O, NEW k \in O, i < k
      PROVE  Cardinality(Upto(i)) < Cardinality(Upto(k))
  <2>0. i \in Nat /\ k \in Nat /\ \A j \in O : j \in Nat
    OBVIOUS
  <2>1. Upto(i) \in SUBSET Upto(k) /\ k \in Upto(k) /\ k \notin Upto(i)
    <3>1. ASSUME NEW j \in Upto(i) PROVE j \in Upto(k)
      <4>1. j \in Nat /\ j <= i
        BY <2>0
      <4> QED
        BY <4>1, <1>3, <2>0
    <3>2. k <= k /\ ~ (k <= i)
      BY <1>3, <2>0
    <3> QED
      BY <3>1, <3>2
  <2> HIDE DEF Upto
  <2>2. Upto(i) # Upto(k)
    BY <2>1
  <2>3. Cardinality(Upto(i)) <= Cardinality(Upto(k))
        /\ Cardinality(Upto(i)) # Cardinality(Upto(k))
    BY <2>1, <2>2, <1>2, FS_Subset
  <2>4. Cardinality(Upto(i)) \in Nat /\ Cardinality(Upto(k)) \in Nat
    BY <1>2, FS_CardinalityType
  <2> QED
    BY <2>3, <2>4
<1>4. ASSUME NEW i \in O, NEW k \in O, Cardinality(Upto(i)) = Cardinality(Upto(k))
      PROVE  i = k
  <2>1. i \in Nat /\ k \in Nat
    OBVIOUS
  <2>2. Cardinality(Upto(i)) \in Nat
    BY <1>2, FS_CardinalityType
  <2>3. ~ (i < k) /\ ~ (k < i)
    <3> HIDE DEF Upto
    <3> QED
      BY <1>3, <1>4, <2>2
  <2> QED
    BY <2>1, <2>3
<1>5. ASSUME NEW n \in 1 .. N PROVE \E i \in O : Cardinality(Upto(i)) = n
  <2>1. rank \in Injection(O, 1 .. N)
    <3>1. rank \in [O -> 1 .. N]
      BY <1>2
    <3>2. IsInjective(rank)
      BY <1>4 DEF IsInjective
    <3> QED
      BY <3>1, <3>2 DEF Injection
  <2>2. IsFiniteSet(1 .. N) /\ Cardinality(1 .. N) = N
    BY <1>1, FS_Interval
  <2>3. rank \in Surjection(O, 1 .. N)
    <3> HIDE DEF rank
    <3> QED
      BY <2>1, <2>2, FS_Injection
  <2>4. PICK i \in O : rank[i] = n
    <3> HIDE DEF rank
    <3> QED
      BY <2>3 DEF Surjection
  <2> QED
    BY <2>4
<1> QED
  BY <1>1, <1>2, <1>4, <1>5

-----------------------------------------------------------------------------
(* Maps as sets of pairs *)

(* One value for each key *)
OneEach(I) == \A x, y \in I : x.key = y.key => x = y

Keys(I) == {x.key : x \in I}

MapOf(I) == [k \in Keys(I) |-> (CHOOSE x \in I : x.key = k).val]

LEMMA MapAt ==
  ASSUME NEW I, OneEach(I)
  PROVE  /\ DOMAIN MapOf(I) = Keys(I)
         /\ \A x \in I : x.key \in Keys(I) /\ MapOf(I)[x.key] = x.val
<1>1. DOMAIN MapOf(I) = Keys(I)
  BY DEF MapOf
<1>2. ASSUME NEW x \in I PROVE x.key \in Keys(I) /\ MapOf(I)[x.key] = x.val
  <2>1. x.key \in Keys(I)
    BY DEF Keys
  <2>2. (CHOOSE y \in I : y.key = x.key) = x
    BY DEF OneEach
  <2> QED
    BY <2>1, <2>2 DEF MapOf
<1> QED
  BY <1>1, <1>2

(* A pair with a new key *)
LEMMA MapAdd ==
  ASSUME NEW I, OneEach(I), NEW x, x.key \notin Keys(I)
  PROVE  MapOf(I \cup {x}) = Put(MapOf(I), x.key, x.val)
<1> DEFINE J == I \cup {x}
<1>1. OneEach(J)
  BY DEF OneEach, Keys
<1>2. Keys(J) = Keys(I) \cup {x.key}
  BY DEF Keys
<1>3. x \in J /\ \A y \in I : y \in J
  OBVIOUS
<1> HIDE DEF J
<1>4. MapOf(J)[x.key] = x.val
  BY <1>1, <1>3, MapAt
<1>5. ASSUME NEW k \in Keys(I) PROVE MapOf(J)[k] = MapOf(I)[k]
  <2>1. PICK y \in I : y.key = k
    BY DEF Keys
  <2>2. MapOf(I)[k] = y.val
    BY <2>1, MapAt
  <2>3. MapOf(J)[k] = y.val
    BY <2>1, <1>1, <1>3, MapAt
  <2> QED
    BY <2>2, <2>3
<1>6. DOMAIN MapOf(I) = Keys(I)
  BY DEF MapOf
<1>7. MapOf(J) = [k \in Keys(J) |-> MapOf(J)[k]]
  BY DEF MapOf
<1>8. \A k \in Keys(J) : MapOf(J)[k] = IF k = x.key THEN x.val ELSE MapOf(I)[k]
  BY <1>2, <1>4, <1>5
<1> DEFINE M == MapOf(J)
           N == MapOf(I)
<1> HIDE DEF M, N
<1>9. M = [k \in Keys(I) \cup {x.key} |-> IF k = x.key THEN x.val ELSE N[k]]
  BY <1>2, <1>7, <1>8 DEF M, N
<1> QED
  BY <1>6, <1>9 DEF Put, M, N, J

(* A pair in the place of one with the same key *)
LEMMA MapReplace ==
  ASSUME NEW I, OneEach(I), NEW y \in I, NEW x, x.key = y.key
  PROVE  MapOf((I \ {y}) \cup {x}) = Put(MapOf(I), x.key, x.val)
<1> DEFINE J == I \ {y}
<1>1. OneEach(J) /\ x.key \notin Keys(J)
  BY DEF OneEach, Keys
<1>2. Keys(J) \cup {x.key} = Keys(I) \cup {x.key}
  BY DEF Keys
<1>3. \A z \in J : z \in I
  OBVIOUS
<1> HIDE DEF J
<1>4. MapOf(J \cup {x}) = Put(MapOf(J), x.key, x.val)
  BY <1>1, MapAdd
<1>5. ASSUME NEW k \in Keys(J) PROVE MapOf(J)[k] = MapOf(I)[k]
  <2>1. PICK z \in J : z.key = k
    BY DEF Keys
  <2>2. MapOf(J)[k] = z.val
    BY <2>1, <1>1, MapAt
  <2>3. MapOf(I)[k] = z.val
    BY <2>1, <1>3, MapAt
  <2> QED
    BY <2>2, <2>3
<1>6. DOMAIN MapOf(I) = Keys(I) /\ DOMAIN MapOf(J) = Keys(J)
  BY DEF MapOf
<1> DEFINE M == MapOf(J)
           N == MapOf(I)
<1> HIDE DEF M, N
<1>7. [k \in Keys(J) \cup {x.key} |-> IF k = x.key THEN x.val ELSE M[k]]
        = [k \in Keys(I) \cup {x.key} |-> IF k = x.key THEN x.val ELSE N[k]]
  BY <1>2, <1>5 DEF M, N
<1> QED
  BY <1>4, <1>6, <1>7 DEF Put, M, N, J

(* Without the pairs whose keys are gone *)
LEMMA MapWithout ==
  ASSUME NEW I, OneEach(I), NEW G
  PROVE  MapOf({x \in I : x.key \notin G}) = [k \in DOMAIN MapOf(I) \ G |-> MapOf(I)[k]]
<1> DEFINE J == {x \in I : x.key \notin G}
<1>1. OneEach(J)
  BY DEF OneEach
<1>2. Keys(J) = Keys(I) \ G
  BY DEF Keys
<1>3. \A z \in J : z \in I
  OBVIOUS
<1> HIDE DEF J
<1>4. ASSUME NEW k \in Keys(J) PROVE MapOf(J)[k] = MapOf(I)[k]
  <2>1. PICK z \in J : z.key = k
    BY DEF Keys
  <2>2. MapOf(J)[k] = z.val
    BY <2>1, <1>1, MapAt
  <2>3. MapOf(I)[k] = z.val
    BY <2>1, <1>3, MapAt
  <2> QED
    BY <2>2, <2>3
<1>5. DOMAIN MapOf(I) = Keys(I) /\ MapOf(J) = [k \in Keys(J) |-> MapOf(J)[k]]
  BY DEF MapOf
<1> DEFINE M == MapOf(J)
           N == MapOf(I)
<1> HIDE DEF M, N
<1>6. M = [k \in Keys(I) \ G |-> N[k]]
  BY <1>2, <1>4, <1>5 DEF M, N
<1> QED
  BY <1>5, <1>6 DEF M, N, J

LEMMA MapOfNothing == MapOf({}) = EmptyMap
BY DEF MapOf, Keys, EmptyMap

-----------------------------------------------------------------------------
(* Pairs in a row *)

(* No two elements of a sequence have the same key. *)
Distinct(F) == \A m, n \in DOMAIN F : F[m].key = F[n].key => m = n

(* The elements of a sequence, as a set *)
Waits(F) == {F[n] : n \in DOMAIN F}

LEMMA ConcatDistinct ==
  ASSUME NEW S, NEW F \in Seq(S), NEW G \in Seq(S), Distinct(F), Distinct(G),
         \A x \in Waits(F), y \in Waits(G) : x.key # y.key
  PROVE  /\ F \o G \in Seq(S) /\ Distinct(F \o G)
         /\ Waits(F \o G) = Waits(F) \cup Waits(G)
<1>0. \A m \in DOMAIN F, n \in DOMAIN G : F[m].key # G[n].key
  BY DEF Waits
<1> DEFINE H == F \o G
<1>1. /\ H \in Seq(S)
      /\ DOMAIN F = 1 .. Len(F) /\ DOMAIN G = 1 .. Len(G)
      /\ Len(F) \in Nat /\ Len(G) \in Nat
      /\ DOMAIN H = 1 .. Len(F) + Len(G)
      /\ \A i \in 1 .. Len(F) + Len(G) : H[i] = IF i <= Len(F) THEN F[i] ELSE G[i - Len(F)]
  <2>1. /\ H \in Seq(S) /\ Len(H) = Len(F) + Len(G)
        /\ \A i \in 1 .. Len(F) + Len(G) : H[i] = IF i <= Len(F) THEN F[i] ELSE G[i - Len(F)]
    BY ConcatProperties
  <2>2. DOMAIN F = 1 .. Len(F) /\ DOMAIN G = 1 .. Len(G) /\ Len(F) \in Nat /\ Len(G) \in Nat
    OBVIOUS
  <2> HIDE DEF H
  <2>3. DOMAIN H = 1 .. Len(H)
    BY <2>1
  <2> QED
    BY <2>1, <2>2, <2>3
<1> HIDE DEF H
<1>2. ASSUME NEW m \in DOMAIN H, NEW n \in DOMAIN H, H[m].key = H[n].key PROVE m = n
  <2>1. m \in 1 .. Len(F) + Len(G) /\ n \in 1 .. Len(F) + Len(G)
    BY <1>1
  <2>2. CASE m <= Len(F) /\ n <= Len(F)
    <3>1. m \in DOMAIN F /\ n \in DOMAIN F /\ F[m].key = F[n].key
      BY <2>1, <2>2, <1>1, <1>2
    <3> QED
      BY <3>1 DEF Distinct
  <2>3. CASE ~ (m <= Len(F)) /\ ~ (n <= Len(F))
    <3>1. /\ m - Len(F) \in DOMAIN G /\ n - Len(F) \in DOMAIN G
          /\ G[m - Len(F)].key = G[n - Len(F)].key
      BY <2>1, <2>3, <1>1, <1>2, SMTT(30)
    <3>2. m - Len(F) = n - Len(F)
      BY <3>1 DEF Distinct
    <3> QED
      BY <3>2, <2>1, <1>1
  <2>4. CASE m <= Len(F) /\ ~ (n <= Len(F))
    <3>1. m \in DOMAIN F /\ n - Len(F) \in DOMAIN G /\ F[m].key = G[n - Len(F)].key
      BY <2>1, <2>4, <1>1, <1>2
    <3> QED
      BY <3>1, <1>0
  <2>5. CASE ~ (m <= Len(F)) /\ n <= Len(F)
    <3>1. n \in DOMAIN F /\ H[n] = F[n]
      BY <2>1, <2>5, <1>1
    <3>2. m - Len(F) \in DOMAIN G /\ H[m] = G[m - Len(F)]
      BY <2>1, <2>5, <1>1
    <3> QED
      BY <3>1, <3>2, <1>0, <1>2
  <2> QED
    BY <2>2, <2>3, <2>4, <2>5
<1>3. ASSUME NEW n \in DOMAIN H
      PROVE  (\E m \in DOMAIN F : H[n] = F[m]) \/ (\E m \in DOMAIN G : H[n] = G[m])
  <2>1. n \in 1 .. Len(F) + Len(G)
    BY <1>1
  <2>2. CASE n <= Len(F)
    BY <2>1, <2>2, <1>1
  <2>3. CASE ~ (n <= Len(F))
    <3>1. n - Len(F) \in DOMAIN G /\ H[n] = G[n - Len(F)]
      BY <2>1, <2>3, <1>1
    <3> QED
      BY <3>1
  <2> QED
    BY <2>2, <2>3
<1>4. ASSUME NEW n \in DOMAIN F PROVE \E m \in DOMAIN H : F[n] = H[m]
  <2>1. n \in DOMAIN H /\ H[n] = F[n]
    BY <1>1
  <2> QED
    BY <2>1
<1>5. ASSUME NEW n \in DOMAIN G PROVE \E m \in DOMAIN H : G[n] = H[m]
  <2>1. n \in 1 .. Len(G)
    BY <1>1
  <2>2. Len(F) + n \in 1 .. Len(F) + Len(G) /\ ~ (Len(F) + n <= Len(F)) /\ (Len(F) + n) - Len(F) = n
    BY <2>1, <1>1
  <2>3. Len(F) + n \in DOMAIN H /\ H[Len(F) + n] = G[n]
    BY <2>2, <1>1
  <2> QED
    BY <2>3
<1>6. {H[n] : n \in DOMAIN H} = {F[n] : n \in DOMAIN F} \cup {G[n] : n \in DOMAIN G}
  BY <1>3, <1>4, <1>5
<1> QED
  BY <1>1, <1>2, <1>6 DEF Distinct, Waits, H

(* The first pair and the others *)
LEMMA HeadAndTail ==
  ASSUME NEW S, NEW F \in Seq(S), F # <<>>, Distinct(F)
  PROVE  /\ Head(F) \in S /\ Tail(F) \in Seq(S) /\ Distinct(Tail(F))
         /\ 1 \in DOMAIN F /\ F[1] = Head(F)
         /\ Waits(F) = {Head(F)} \cup Waits(Tail(F))
         /\ \A x \in Waits(Tail(F)) : x \in S /\ x.key # Head(F).key
         /\ Waits(Tail(F)) # {} => Len(F) # 1
<1> DEFINE G == Tail(F)
<1>1. /\ Len(F) \in Nat /\ Len(F) >= 1 /\ DOMAIN F = 1 .. Len(F)
      /\ Head(F) = F[1] /\ Head(F) \in S
      /\ G \in Seq(S) /\ DOMAIN G = 1 .. Len(F) - 1
      /\ \A n \in 1 .. Len(F) - 1 : G[n] = F[n + 1]
  <2>1. /\ Head(F) \in S /\ Tail(F) \in Seq(S) /\ Len(Tail(F)) = Len(F) - 1
        /\ \A n \in 1 .. Len(Tail(F)) : Tail(F)[n] = F[n + 1]
    BY HeadTailProperties
  <2>2. Len(F) \in Nat /\ DOMAIN F = 1 .. Len(F) /\ Len(F) # 0
    OBVIOUS
  <2>3. DOMAIN Tail(F) = 1 .. Len(Tail(F))
    BY <2>1
  <2>4. Head(F) = F[1]
    OBVIOUS
  <2>5. Len(F) >= 1
    BY <2>2
  <2> QED
    BY <2>1, <2>2, <2>3, <2>4, <2>5
<1> HIDE DEF G
<1>2. 1 \in DOMAIN F
  BY <1>1
<1>3. ASSUME NEW n \in DOMAIN F, n # 1 PROVE n - 1 \in DOMAIN G /\ G[n - 1] = F[n]
  <2>1. n - 1 \in 1 .. Len(F) - 1 /\ (n - 1) + 1 = n
    BY <1>1, <1>3
  <2> QED
    BY <2>1, <1>1
<1>4. ASSUME NEW n \in DOMAIN G
      PROVE  n + 1 \in DOMAIN F /\ F[n + 1] = G[n] /\ n + 1 # 1 /\ n \in Nat
  BY <1>1
<1>5. Waits(F) = {Head(F)} \cup Waits(G)
  <2>1. ASSUME NEW x \in Waits(F) PROVE x \in {Head(F)} \cup Waits(G)
    <3>1. PICK n \in DOMAIN F : x = F[n]
      BY DEF Waits
    <3> QED
      BY <3>1, <1>1, <1>3 DEF Waits
  <2>2. ASSUME NEW x \in Waits(G) PROVE x \in Waits(F)
    BY <1>4 DEF Waits
  <2>3. Head(F) \in Waits(F)
    BY <1>1, <1>2 DEF Waits
  <2> QED
    BY <2>1, <2>2, <2>3
<1>6. Distinct(G)
  <2> SUFFICES ASSUME NEW m \in DOMAIN G, NEW n \in DOMAIN G, G[m].key = G[n].key
               PROVE  m = n
    BY DEF Distinct
  <2>1. m + 1 = n + 1
    BY <1>4 DEF Distinct
  <2> QED
    BY <2>1, <1>4
<1>7. ASSUME NEW n \in DOMAIN G PROVE G[n] \in S /\ G[n].key # Head(F).key
  <2>1. n + 1 \in DOMAIN F /\ F[n + 1] = G[n] /\ n + 1 # 1
    BY <1>4
  <2>2. G[n] \in S
    BY <1>1
  <2> QED
    BY <2>1, <2>2, <1>1, <1>2 DEF Distinct
<1>8. DOMAIN G # {} => Len(F) # 1
  BY <1>1
<1> QED
  BY <1>1, <1>2, <1>5, <1>6, <1>7, <1>8 DEF Waits, G

=============================================================================
