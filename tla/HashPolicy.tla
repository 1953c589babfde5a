----------------------------- MODULE HashPolicy -----------------------------
(***************************************************************************)
(* The arithmetic under both hash maps: log2 and next_power_of_two on      *)
(* 64-bit words, and the two policies that turn a request into a size and  *)
(* a hash into a slot.                                                     *)
(*                                                                         *)
(* A word is the set of the positions of its 1 bits, so that | is union,   *)
(* & intersection, and the subtraction of a subset is set difference.      *)
(* Sizes of the prime policy are integers; prime_list and mod_functions    *)
(* are cut off at 2^31, and the last prime below stands for the last one   *)
(* of the list.                                                            *)
(***************************************************************************)
EXTENDS Integers, Sequences, FiniteSets, FiniteSetsExt

Bits == 0 .. 63

Shr(w, n) == {b \in Bits : b + n \in w}
Shl(w, n) == {b \in Bits : b - n \in w}

(* --w and ++w, which wrap around. *)
Dec(w) ==
  IF w = {} THEN Bits ELSE (w \ {Min(w)}) \cup (0 .. Min(w) - 1)

Inc(w) ==
  IF w = Bits THEN {}
  ELSE LET l == Min(Bits \ w) IN (w \ (0 .. l - 1)) \cup {l}

OrShifted(w, n) == w \cup Shr(w, n)

(* Variant: the last shift is missing, as in code for 32-bit words. *)
SmearHalf(w) ==
  LET byte == OrShifted(OrShifted(OrShifted(w, 1), 2), 4)
  IN  OrShifted(OrShifted(byte, 8), 16)

(* w |= w >> 1 up to w |= w >> 32: every bit below the highest one. *)
Smear(w) ==
  LET byte == OrShifted(OrShifted(OrShifted(w, 1), 2), 4)
  IN  OrShifted(OrShifted(OrShifted(byte, 8), 16), 32)

-----------------------------------------------------------------------------
(* log2: the de Bruijn sequence 0x07EDD5E59A4E28C2, shifted by the highest *)
(* bit, has in its upper six bits the index of that bit's position.        *)

MagicDigits == <<0, 7, 14, 13, 13, 5, 14, 5, 9, 10, 4, 14, 2, 8, 12, 2>>
Magic == {b \in Bits : (MagicDigits[16 - b \div 4] \div 2 ^ (b % 4)) % 2 = 1}

Log2Table ==
  << 63,  0, 58,  1, 59, 47, 53,  2, 60, 39, 48, 27, 54, 33, 42,  3,
     61, 51, 37, 40, 49, 18, 28, 20, 55, 30, 34, 11, 43, 14, 22,  4,
     62, 57, 46, 52, 38, 26, 32, 41, 50, 36, 17, 19, 29, 10, 13, 21,
     56, 45, 25, 31, 35, 16,  9, 12, 44, 24, 15,  8, 23,  7,  6,  5 >>

BitOf(smeared) ==
  LET top == smeared \ Shr(smeared, 1)
      product == UNION {Shl(Magic, b) : b \in top}
  IN  Log2Table[1 + SumSet({2 ^ (b - 58) : b \in product \cap (58 .. 63)})]

Log2(w) == BitOf(Smear(w))

NextPowerOfTwo(w) == Inc(Smear(Dec(w)))

-----------------------------------------------------------------------------
(* prime_number_hash_policy *)

PrimeList ==
  <<
    2, 3, 5, 7, 11, 13, 17, 23, 29, 37, 47, 59, 73, 97, 127, 151, 197, 251,
    313, 397, 499, 631, 797, 1009, 1259, 1597, 2011, 2539, 3203, 4027, 5087,
    6421, 8089, 10193, 12853, 16193, 20399, 25717, 32401, 40823, 51437,
    64811, 81649, 102877, 129607, 163307, 205759, 259229, 326617, 411527,
    518509, 653267, 823117, 1037059, 1306601, 1646237, 2074129, 2613229,
    3292489, 4148279, 5226491, 6584983, 8296553, 10453007, 13169977,
    16593127, 20906033, 26339969, 33186281, 41812097, 52679969, 66372617,
    83624237, 105359939, 132745199, 167248483, 210719881, 265490441,
    334496971, 421439783, 530980861, 668993977, 842879579, 1061961721,
    1337987929, 1685759167, 2123923447
  >>

(* mod_functions, each as the number it divides by; the first one is mod0. *)
ModFunctions ==
  <<
    0, 2, 3, 5, 7, 11, 13, 17, 23, 29, 37, 47, 59, 73, 97, 127, 151, 197,
    251, 313, 397, 499, 631, 797, 1009, 1259, 1597, 2011, 2539, 3203, 4027,
    5087, 6421, 8089, 10193, 12853, 16193, 20399, 25717, 32401, 40823,
    51437, 64811, 81649, 102877, 129607, 163307, 205759, 259229, 326617,
    411527, 518509, 653267, 823117, 1037059, 1306601, 1646237, 2074129,
    2613229, 3292489, 4148279, 5226491, 6584983, 8296553, 10453007,
    13169977, 16593127, 20906033, 26339969, 33186281, 41812097, 52679969,
    66372617, 83624237, 105359939, 132745199, 167248483, 210719881,
    265490441, 334496971, 421439783, 530980861, 668993977, 842879579,
    1061961721, 1337987929, 1685759167, 2123923447
  >>

(* std::lower_bound over all but the last prime: the first one that is not *)
(* below size, or the last one.                                            *)
LowerBound(size) ==
  LET found == {i \in 1 .. Len(PrimeList) - 1 : PrimeList[i] >= size}
  IN  IF found = {} THEN Len(PrimeList) ELSE Min(found)

(* Variant: mod0 is forgotten. *)
NextSizeOverByOne(size) ==
  LET found == LowerBound(size)
  IN  [size |-> PrimeList[found], mod |-> ModFunctions[found]]

(* next_size_over: the new size and the function to commit with it. *)
NextSizeOver(size) ==
  LET found == LowerBound(size)
  IN  [size |-> PrimeList[found], mod |-> ModFunctions[1 + found]]

Apply(mod, hash) == IF mod = 0 THEN 0 ELSE hash % mod

KeepInRange(mod, index, lastSlot) ==
  IF index > lastSlot THEN Apply(mod, index) ELSE index

=============================================================================
