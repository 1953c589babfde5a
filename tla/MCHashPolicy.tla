---------------------------- MODULE MCHashPolicy ----------------------------
(***************************************************************************)
(* Questions to HashPolicy: one word, or one request for a size, at a      *)
(* time.  Words are the intervals and the pairs of bits, so that every     *)
(* highest bit occurs alone, with any other bit and with all bits below.   *)
(***************************************************************************)
EXTENDS HashPolicy

Seqs == INSTANCE SequencesExt

Intervals == {l .. h : l, h \in Bits}
Pairs == {{l, h} : l, h \in Bits}
Words == Intervals \cup Pairs

(* Small sizes, and what lies around the primes. *)
LastPrime == PrimeList[Len(PrimeList)]
Asked ==
  {n \in (0 .. 200) \cup UNION {(p - 1) .. (p + 1) : p \in Seqs!ToSet(PrimeList)} :
     n <= LastPrime}

Root == 46340      \* the square root of 2^31

VARIABLES word, request
policyVars == <<word, request>>

None == -1

PolicyInit == word = {} /\ request = None

Unasked == word = {} /\ request = None

AskWord(w) == Unasked /\ word' = w /\ UNCHANGED request
AskSize(n) == Unasked /\ request' = n /\ UNCHANGED word

PolicyNext ==
  \/ \E w \in Words : AskWord(w)
  \/ \E n \in Asked : AskSize(n)

-----------------------------------------------------------------------------

(* log2 of flat_hash_map.hpp is the position of the highest bit, for every *)
(* width: no shift is missing and no entry of its table is out of place.   *)
(* max_lookups of a table is computed with it.                             *)
Log2IsExact == word # {} => Log2(word) = Max(word)

(* w <= v as numbers. *)
AtMost(w, v) ==
  w = v \/ Max((w \ v) \cup (v \ w)) \in v

(* next_power_of_two is the least power of two that is not less than its   *)
(* argument, and 0 if there is none below 2^64.  It is asked by the power  *)
(* of two policy on every rehash, and a table smaller than its request     *)
(* would be grown for ever.                                                *)
NextPowerIsLeast ==
  word # {} =>
    LET answer == NextPowerOfTwo(word)
    IN  /\ Cardinality(answer) <= 1
        /\ \A b \in Bits : AtMost(word, {b}) <=> \E a \in answer : a <= b

(* What the header computes on words with shifts and a table is what the   *)
(* names promise (flat_hash_map.hpp:208, 252).                             *)
BitTricksExact == Log2IsExact /\ NextPowerIsLeast

(* The answer of the prime policy is large enough, the function that comes *)
(* with it is that of this very size, so that hash_policy maps every hash  *)
(* and every jump into the array and reaches each slot, and the size is    *)
(* prime.  prime_list and mod_functions are two lists kept by hand, of     *)
(* which one has an entry more.                                            *)
IndicesFitSizes ==
  request # None =>
    LET answer == NextSizeOver(request)
        size == answer.size
    IN  /\ size >= request
        /\ \A i \in {0, 1, size - 1, size, size + 1} :
             /\ Apply(answer.mod, i) = i % size
             /\ KeepInRange(answer.mod, i, size - 1) = i % size
        /\ size = request =>
             \A d \in 2 .. Min({Root, size - 1}) :
               d <= size \div d => size % d # 0

(* A table has at most half again as many slots as were asked for: the     *)
(* primes have no large gaps, "which you would hit if somebody called      *)
(* reserve() with an unlucky number".                                      *)
SmallGaps ==
  request > 2 => NextSizeOver(request).size - request <= request \div 2

(* The two lists of primes fit each other and any request. *)
SizesFit == IndicesFitSizes /\ SmallGaps

=============================================================================
