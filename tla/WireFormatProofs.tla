-------------------------- MODULE WireFormatProofs --------------------------
(***************************************************************************)
(* What the server's reading of its receive array comes to, for any length *)
(* of the array, any window and any bytes: what it takes out of an array   *)
(* is made of bytes, and what it takes out of one that a request was laid  *)
(* over is that request without the last byte of its key, whatever the     *)
(* array held before.                                                      *)
(***************************************************************************)
EXTENDS WireFormat, CommonLemmas, SequenceTheorems

-----------------------------------------------------------------------------
(* Searching the array *)

LEMMA FindSepFinds ==
  ASSUME NEW buf, NEW first \in Nat, NEW last \in Nat, first <= last
  PROVE  /\ FindSep(buf, first, last) \in first .. last
         /\ FindSep(buf, first, last) # last => buf[FindSep(buf, first, last)] = Sep
         /\ \A p \in Nat :
              first <= p /\ p < last /\ buf[p] = Sep => FindSep(buf, first, last) <= p
<1> DEFINE hits == {p \in first .. (last - 1) : buf[p] = Sep}
           found == FindSep(buf, first, last)
<1>1. hits \subseteq Nat /\ \A p \in hits : p \in first .. last /\ buf[p] = Sep
  OBVIOUS
<1>2. found = IF hits = {} THEN last ELSE Min(hits)
  BY DEF FindSep
<1>3. \A p \in Nat : first <= p /\ p < last /\ buf[p] = Sep => p \in hits
  OBVIOUS
<1> HIDE DEF hits, found
<1>4. hits # {} => Min(hits) \in hits /\ \A p \in hits : Min(hits) <= p
  BY <1>1, MinIsLeast
<1>5. found \in first .. last /\ (found # last => buf[found] = Sep)
  BY <1>1, <1>2, <1>4
<1>6. ASSUME NEW p \in Nat, first <= p, p < last, buf[p] = Sep PROVE found <= p
  BY <1>2, <1>3, <1>4, <1>6
<1> QED
  BY <1>5, <1>6 DEF found

LEMMA DigitsEndFinds ==
  ASSUME NEW buf, NEW first \in Nat, NEW last \in Nat, first <= last
  PROVE  /\ DigitsEnd(buf, first, last) \in first .. last
         /\ \A p \in first .. (DigitsEnd(buf, first, last) - 1) : IsDigit(buf[p])
         /\ (\A p \in first .. (last - 1) : IsDigit(buf[p]))
              => DigitsEnd(buf, first, last) = last
<1> DEFINE stops == {p \in first .. (last - 1) : ~IsDigit(buf[p])}
           end == DigitsEnd(buf, first, last)
<1>1. stops \subseteq Nat /\ \A p \in stops : p \in first .. last /\ ~IsDigit(buf[p])
  OBVIOUS
<1>2. end = IF stops = {} THEN last ELSE Min(stops)
  BY DEF DigitsEnd
<1>3. \A p \in first .. (last - 1) : ~IsDigit(buf[p]) => p \in stops
  OBVIOUS
<1> HIDE DEF stops, end
<1>4. stops # {} => Min(stops) \in stops /\ \A p \in stops : Min(stops) <= p
  BY <1>1, MinIsLeast
<1>5. end \in first .. last /\ \A p \in stops : end <= p
  BY <1>1, <1>2, <1>4
<1>6. ASSUME NEW p \in first .. (end - 1) PROVE IsDigit(buf[p])
  <2>1. p \in first .. (last - 1) /\ ~(end <= p)
    BY <1>5
  <2> QED
    BY <1>3, <1>5, <2>1
<1>7. (\A p \in first .. (last - 1) : IsDigit(buf[p])) => stops = {}
  BY DEF stops
<1> QED
  BY <1>2, <1>5, <1>6, <1>7 DEF end

LEMMA DigitValues ==
  /\ \A b : IsDigit(b) => DigitValue(b) \in 0 .. 9
  /\ \A i \in 1 .. 10 : IsDigit(DigitBytes[i]) /\ DigitValue(DigitBytes[i]) = i - 1
<1>1. ASSUME NEW b, IsDigit(b) PROVE DigitValue(b) \in 0 .. 9
  <2>1. (CHOOSE i \in 1 .. 10 : DigitBytes[i] = b) \in 1 .. 10
    BY <1>1 DEF IsDigit
  <2> QED
    BY <2>1 DEF DigitValue
<1>2. ASSUME NEW i \in 1 .. 10
      PROVE  IsDigit(DigitBytes[i]) /\ DigitValue(DigitBytes[i]) = i - 1
  <2>1. \A j \in 1 .. 10 : DigitBytes[j] = DigitBytes[i] => j = i
    BY DEF DigitBytes
  <2>2. (CHOOSE j \in 1 .. 10 : DigitBytes[j] = DigitBytes[i]) = i
    BY <2>1
  <2> QED
    BY <2>2 DEF DigitValue, IsDigit
<1> QED
  BY <1>1, <1>2

(* Reading digits from some place on, from left to right *)
Horner(buf, first, last, v) ==
  \A p \in (first - 1) .. (last - 1) :
    v[p] = IF p < first THEN 0 ELSE 10 * v[p - 1] + DigitValue(buf[p])

LEMMA StoiReads ==
  ASSUME NEW buf, NEW first \in Nat \ {0}, NEW last \in Nat, first <= last
  PROVE  \E v : /\ Horner(buf, first, last, v)
                /\ Stoi(buf, first, last) = v[DigitsEnd(buf, first, last) - 1]
<1> DEFINE s == first - 1
           dv(p) == DigitValue(buf[p])
           Good(g, n) ==
             /\ g = [p \in s .. s + n |-> g[p]]
             /\ \A p \in s .. s + n : g[p] = IF p < first THEN 0 ELSE 10 * g[p - 1] + dv(p)
           T == {n \in Nat : \E g : Good(g, n)}
<1>0. s \in Nat /\ first = s + 1 /\ last - 1 \in Nat /\ s <= last - 1
  OBVIOUS
<1> HIDE DEF s, dv
<1>1. 0 \in T
  <2> DEFINE g == [p \in s .. s + 0 |-> 0]
  <2>1. \A p \in s .. s + 0 : p < first /\ g[p] = 0
    BY <1>0
  <2>2. g = [p \in s .. s + 0 |-> g[p]]
    OBVIOUS
  <2> HIDE DEF g
  <2>3. Good(g, 0)
    BY <2>1, <2>2
  <2> QED
    BY <2>3
<1>2. ASSUME NEW n \in Nat, n \in T PROVE n + 1 \in T
  <2>1. PICK g : Good(g, n)
    BY <1>2
  <2> DEFINE m == s + n
             h == [p \in s .. s + (n + 1) |-> IF p <= m THEN g[p] ELSE 10 * g[m] + dv(p)]
  <2>2. m \in Nat /\ s + (n + 1) = m + 1 /\ s <= m
    BY <1>0
  <2>3. \A p \in s .. m : h[p] = g[p]
    BY <1>0, <2>2
  <2>4. h[m + 1] = 10 * g[m] + dv(m + 1)
    BY <1>0, <2>2
  <2>5. h = [p \in s .. s + (n + 1) |-> h[p]]
    OBVIOUS
  <2> HIDE DEF h
  <2>6. ASSUME NEW p \in s .. s + (n + 1)
        PROVE  h[p] = IF p < first THEN 0 ELSE 10 * h[p - 1] + dv(p)
    <3>1. CASE p = m + 1
      <4>1. ~(p < first) /\ p - 1 = m /\ h[m] = g[m]
        BY <1>0, <2>2, <2>3, <3>1
      <4> QED
        BY <2>4, <3>1, <4>1
    <3>2. CASE p # m + 1
      <4>1. p \in s .. m
        BY <1>0, <2>2, <3>2
      <4>2. g[p] = IF p < first THEN 0 ELSE 10 * g[p - 1] + dv(p)
        BY <2>1, <4>1 DEF m
      <4>3. ~(p < first) => p - 1 \in s .. m
        BY <1>0, <2>2, <4>1
      <4> QED
        BY <2>3, <4>1, <4>2, <4>3
    <3> QED
      BY <3>1, <3>2
  <2>7. Good(h, n + 1)
    BY <2>5, <2>6
  <2> HIDE DEF Good
  <2> QED
    BY <2>7
<1>3. last - 1 - s \in T /\ s + ((last - 1) - s) = last - 1
  <2>1. Nat \subseteq T
    <3> HIDE DEF T
    <3> QED
      BY <1>1, <1>2, SetInduction
  <2>2. (last - 1) - s \in Nat /\ s + ((last - 1) - s) = last - 1
    BY <1>0
  <2> QED
    BY <2>1, <2>2
<1> DEFINE Rec(g) == g = [p \in s .. (last - 1) |->
                            IF p < first THEN 0 ELSE 10 * g[p - 1] + dv(p)]
           v == CHOOSE g : Rec(g)
<1>4. \E g : Rec(g)
  <2>1. PICK g : Good(g, (last - 1) - s)
    BY <1>3
  <2>2. Rec(g)
    BY <1>3, <2>1
  <2> QED
    BY <2>2
<1>5. Rec(v)
  <2> HIDE DEF Rec
  <2> QED
    BY <1>4
<1>6. Stoi(buf, first, last) = v[DigitsEnd(buf, first, last) - 1]
  BY DEF Stoi, s, dv
<1> HIDE DEF v
<1>7. Horner(buf, first, last, v)
  BY <1>5 DEF Horner, s, dv
<1> QED
  BY <1>6, <1>7

(* A size is a number. *)
LEMMA StoiNat ==
  ASSUME NEW buf, NEW first \in Nat \ {0}, NEW last \in Nat, first <= last
  PROVE  Stoi(buf, first, last) \in Nat
<1> DEFINE end == DigitsEnd(buf, first, last)
<1>1. PICK v : /\ Horner(buf, first, last, v)
               /\ Stoi(buf, first, last) = v[end - 1]
  BY StoiReads
<1>2. end \in first .. last /\ \A p \in first .. (end - 1) : IsDigit(buf[p])
  BY DigitsEndFinds
<1> HIDE DEF end
<1> DEFINE T == {n \in Nat : (first - 1) + n <= end - 1 => v[(first - 1) + n] \in Nat}
<1>3. 0 \in T
  <2>1. (first - 1) + 0 = first - 1 /\ first - 1 \in (first - 1) .. (last - 1) /\ first - 1 < first
    OBVIOUS
  <2>2. v[first - 1] = 0
    BY <1>1, <2>1 DEF Horner
  <2> QED
    BY <2>1, <2>2
<1>4. ASSUME NEW n \in Nat, n \in T PROVE n + 1 \in T
  <2> SUFFICES ASSUME (first - 1) + (n + 1) <= end - 1
               PROVE  v[(first - 1) + (n + 1)] \in Nat
    OBVIOUS
  <2> DEFINE q == first + n
  <2>1. /\ q \in first .. (end - 1) /\ q \in (first - 1) .. (last - 1) /\ ~(q < first)
        /\ q - 1 = (first - 1) + n /\ (first - 1) + n <= end - 1 /\ (first - 1) + (n + 1) = q
    BY <1>2
  <2>2. v[q - 1] \in Nat
    BY <1>4, <2>1
  <2> HIDE DEF q
  <2>3. DigitValue(buf[q]) \in 0 .. 9
    BY <1>2, <2>1, DigitValues
  <2>4. v[q] = 10 * v[q - 1] + DigitValue(buf[q])
    BY <1>1, <2>1 DEF Horner
  <2> QED
    BY <2>1, <2>2, <2>3, <2>4
<1>5. Nat \subseteq T
  <2> HIDE DEF T
  <2> QED
    BY <1>3, <1>4, SetInduction
<1>6. end - first \in Nat /\ (first - 1) + (end - first) = end - 1
  BY <1>2
<1>7. v[end - 1] \in Nat
  <2>1. end - first \in T
    BY <1>5, <1>6
  <2> QED
    BY <1>2, <1>6, <2>1
<1> QED
  BY <1>1, <1>7

-----------------------------------------------------------------------------
(* What is taken out of an array is made of bytes. *)

LEMMA Slices ==
  ASSUME NEW buf \in Buffer, NEW first \in Nat \ {0}, NEW last \in Nat,
         first <= last, last <= BufLen + 1
  PROVE  /\ Slice(buf, first, last) \in Seq(Byte)
         /\ Len(Slice(buf, first, last)) = last - first
         /\ \A i \in 1 .. last - first : Slice(buf, first, last)[i] = buf[first + i - 1]
<1> DEFINE n == last - first
           s == Slice(buf, first, last)
<1>1. n \in Nat /\ BufLen \in Nat
  BY WireAssumption
<1>2. s = [i \in 1 .. n |-> buf[first + i - 1]]
  BY DEF Slice
<1>3. \A i \in 1 .. n : first + i - 1 \in 1 .. BufLen
  BY <1>1
<1>4. \A i \in 1 .. n : buf[first + i - 1] \in Byte
  BY <1>3 DEF Buffer
<1> HIDE DEF s, n
<1>5. s \in [1 .. n -> Byte]
  BY <1>2, <1>4
<1>6. s \in Seq(Byte) /\ Len(s) = n
  BY <1>1, <1>5
<1> QED
  BY <1>2, <1>6 DEF s, n

IsRequest(r) ==
  r.mode \in Byte \cup {"throw", "overrun"} /\ r.key \in Seq(Byte) /\ r.val \in Seq(Byte)

LEMMA RequestFields ==
  ASSUME NEW m, NEW k, NEW v
  PROVE  /\ Request(m, k, v).mode = m /\ Request(m, k, v).key = k /\ Request(m, k, v).val = v
         /\ Thrown.mode = "throw" /\ Thrown.key = <<>> /\ Thrown.val = <<>>
         /\ Overrun.mode = "overrun" /\ Overrun.key = <<>> /\ Overrun.val = <<>>
BY DEF Request, Thrown, Overrun

LEMMA DecodeTyped ==
  ASSUME NEW buf \in Buffer
  PROVE  IsRequest(Decode(buf))
<1>0. /\ BufLen \in Nat /\ SepWindow \in Nat /\ SepWindow # 0 /\ 2 * SepWindow + 1 <= BufLen
      /\ buf[1] \in Byte /\ <<>> \in Seq(Byte)
  <2>1. 1 \in 1 .. BufLen
    BY WireAssumption
  <2> QED
    BY <2>1, WireAssumption DEF Buffer
<1>1. IsRequest(Thrown) /\ IsRequest(Overrun)
  BY <1>0, RequestFields DEF IsRequest
<1> DEFINE one == FindSep(buf, 1, 1 + SepWindow)
           two == FindSep(buf, one + 1, one + SepWindow)
           ks == Stoi(buf, 2, one)
           vs == Stoi(buf, one + 1, two)
<1>2. one \in 1 .. 1 + SepWindow /\ (one # 1 + SepWindow => buf[one] = Sep)
  BY <1>0, FindSepFinds
<1>3. ASSUME buf[1] # Sep
      PROVE  one \in 2 .. 1 + SepWindow /\ ks \in Nat
  <2> HIDE DEF one
  <2>1. one \in 2 .. 1 + SepWindow
    BY <1>0, <1>2, <1>3
  <2> QED
    BY <2>1, <1>0, StoiNat
<1>4. CASE buf[1] \in {"i", "s"}
  <2>1. one \in 2 .. 1 + SepWindow /\ ks \in Nat
    BY <1>3, <1>4 DEF Sep
  <2>2. two \in one + 1 .. one + SepWindow
    <3> HIDE DEF one
    <3>1. one + 1 \in Nat /\ one + SepWindow \in Nat /\ one + 1 <= one + SepWindow
      BY <1>0, <2>1
    <3> QED
      BY <3>1, FindSepFinds
  <2>3. vs \in Nat
    <3> HIDE DEF one, two
    <3>1. one + 1 \in Nat \ {0} /\ two \in Nat /\ one + 1 <= two
      BY <1>0, <2>1, <2>2
    <3> QED
      BY <3>1, StoiNat
  <2>4. Decode(buf) = DecodeInsert(buf)
    BY <1>4 DEF Decode
  <2> DEFINE key == Slice(buf, two + 1, two + ks)
             val == Slice(buf, two + ks + 1, two + ks + vs + 1)
  <2>5. Decode(buf) = IF Throws(buf, 2, one) \/ Throws(buf, one + 1, two) \/ ks = 0
                      THEN Thrown
                      ELSE IF two + ks + vs > BufLen THEN Overrun
                      ELSE Request(buf[1], key, val)
    BY <2>4 DEF DecodeInsert
  <2>6. ASSUME ks # 0, ~(two + ks + vs > BufLen)
        PROVE  key \in Seq(Byte) /\ val \in Seq(Byte)
    <3> HIDE DEF one, two, ks, vs
    <3>1. two \in Nat /\ two <= BufLen
      BY <1>0, <2>1, <2>2
    <3>2. /\ two + 1 \in Nat \ {0} /\ two + ks \in Nat /\ two + 1 <= two + ks
          /\ two + ks <= BufLen + 1
          /\ two + ks + 1 \in Nat \ {0} /\ two + ks + vs + 1 \in Nat
          /\ two + ks + 1 <= two + ks + vs + 1 /\ two + ks + vs + 1 <= BufLen + 1
      BY <1>0, <2>1, <2>3, <2>6, <3>1
    <3>3. key \in Seq(Byte)
      BY <3>2, Slices
    <3>4. val \in Seq(Byte)
      BY <3>2, Slices
    <3> QED
      BY <3>3, <3>4
  <2> HIDE DEF one, two, ks, vs, key, val
  <2> QED
    BY <1>0, <1>1, <2>5, <2>6, RequestFields DEF IsRequest
<1>5. CASE buf[1] \in {"g", "d"}
  <2>1. one \in 2 .. 1 + SepWindow /\ ks \in Nat
    BY <1>3, <1>5 DEF Sep
  <2> DEFINE key == Slice(buf, one + 1, one + ks)
  <2>2. Decode(buf) = IF Throws(buf, 2, one) \/ ks = 0 THEN Thrown
                      ELSE IF one + ks > BufLen + 1 THEN Overrun
                      ELSE Request(buf[1], key, <<>>)
    <3>1. Decode(buf) = DecodeLookup(buf)
      BY <1>5 DEF Decode
    <3> QED
      BY <3>1 DEF DecodeLookup
  <2>3. ASSUME ks # 0, ~(one + ks > BufLen + 1)
        PROVE  key \in Seq(Byte)
    <3> HIDE DEF one, ks
    <3>1. one + 1 \in Nat \ {0} /\ one + ks \in Nat /\ one + 1 <= one + ks /\ one + ks <= BufLen + 1
      BY <1>0, <2>1, <2>3
    <3> QED
      BY <3>1, Slices
  <2> HIDE DEF one, ks, key
  <2> QED
    BY <1>0, <1>1, <2>2, <2>3, RequestFields DEF IsRequest
<1>6. CASE buf[1] \notin {"i", "s", "g", "d"}
  <2>1. Decode(buf) = Request(buf[1], <<>>, <<>>)
    BY <1>6 DEF Decode
  <2> DEFINE r == Decode(buf)
  <2>2. r.mode = buf[1] /\ r.key = <<>> /\ r.val = <<>>
    BY <2>1, RequestFields
  <2> HIDE DEF r
  <2>3. IsRequest(r)
    BY <1>0, <2>2 DEF IsRequest
  <2> QED
    BY <2>3 DEF r
<1> QED
  BY <1>4, <1>5, <1>6

-----------------------------------------------------------------------------
(* The decimal digits of a number *)

Digits == {DigitBytes[i] : i \in 1 .. 10}

LastDigit(n) == <<DigitBytes[(n % 10) + 1]>>

LEMMA DivisionByTen ==
  ASSUME NEW n \in Nat
  PROVE  /\ n \div 10 \in Nat /\ n % 10 \in 0 .. 9 /\ n = 10 * (n \div 10) + (n % 10)
         /\ n >= 10 => n \div 10 < n
         /\ n < 10 => n % 10 = n
<1>1. n \div 10 \in Nat /\ n % 10 \in 0 .. 9 /\ n = 10 * (n \div 10) + (n % 10)
  OBVIOUS
<1>2. n >= 10 => n \div 10 < n
  OBVIOUS
<1>3. n < 10 => n % 10 = n
  OBVIOUS
<1> QED
  BY <1>1, <1>2, <1>3

LEMMA ItbIs ==
  ASSUME NEW n \in Nat
  PROVE  Itb[n] = IF n < 10 THEN <<DigitBytes[n + 1]>> ELSE Itb[n \div 10] \o LastDigit(n)
<1> DEFINE Step(g, k) == IF k < 10 THEN <<DigitBytes[k + 1]>> ELSE g[k \div 10] \o LastDigit(k)
           Good(g, m) == g = [k \in 0 .. m |-> g[k]] /\ \A k \in 0 .. m : g[k] = Step(g, k)
           T == {m \in Nat : \E g : Good(g, m)}
<1>1. ASSUME NEW g, NEW h, NEW m \in Nat, NEW l \in Nat, Good(g, m), Good(h, l)
      PROVE  \A k \in Nat : k <= m /\ k <= l => g[k] = h[k]
  <2> DEFINE E == {k \in Nat : k <= m /\ k <= l => g[k] = h[k]}
  <2>1. ASSUME NEW k \in Nat, \A j \in Nat : j < k => j \in E
        PROVE  k \in E
    <3> SUFFICES ASSUME k <= m, k <= l PROVE g[k] = h[k]
      OBVIOUS
    <3>0. k \in 0 .. m /\ k \in 0 .. l
      OBVIOUS
    <3>1. g[k] = Step(g, k) /\ h[k] = Step(h, k)
      <4> HIDE DEF Step
      <4>1. \A i \in 0 .. m : g[i] = Step(g, i)
        BY <1>1
      <4>2. \A i \in 0 .. l : h[i] = Step(h, i)
        BY <1>1
      <4> QED
        BY <3>0, <4>1, <4>2
    <3>2. k >= 10 => g[k \div 10] = h[k \div 10]
      <4> DEFINE j == k \div 10
      <4> SUFFICES ASSUME k >= 10 PROVE g[j] = h[j]
        OBVIOUS
      <4>1. j \in Nat /\ j < k
        BY DivisionByTen
      <4> HIDE DEF j
      <4>2. j \in E /\ j <= m /\ j <= l
        BY <2>1, <4>1
      <4> QED
        BY <4>2
    <3>3. k >= 10 \/ k < 10
      OBVIOUS
    <3> QED
      BY <3>1, <3>2, <3>3
  <2>2. Nat \subseteq E
    <3> HIDE DEF E
    <3> QED
      BY <2>1, StrongInduction
  <2> QED
    BY <2>2
<1>2. Nat \subseteq T
  <2>1. 0 \in T
    <3> DEFINE g == [k \in 0 .. 0 |-> <<DigitBytes[k + 1]>>]
    <3>1. g = [k \in 0 .. 0 |-> g[k]] /\ \A k \in 0 .. 0 : k < 10 /\ g[k] = <<DigitBytes[k + 1]>>
      OBVIOUS
    <3> HIDE DEF g
    <3>2. Good(g, 0)
      BY <3>1
    <3> HIDE DEF Good
    <3> QED
      BY <3>2
  <2>2. ASSUME NEW m \in Nat, m \in T PROVE m + 1 \in T
    <3>1. PICK g : Good(g, m)
      BY <2>2
    <3> DEFINE h == [k \in 0 .. m + 1 |-> IF k <= m THEN g[k] ELSE Step(g, k)]
    <3>2. h = [k \in 0 .. m + 1 |-> h[k]] /\ \A k \in 0 .. m : h[k] = g[k]
      OBVIOUS
    <3>3. h[m + 1] = Step(g, m + 1)
      OBVIOUS
    <3> HIDE DEF h
    <3>4. ASSUME NEW k \in 0 .. m + 1 PROVE h[k] = Step(h, k)
      <4> DEFINE j == k \div 10
      <4>1. h[k] = Step(g, k)
        <5>1. CASE k = m + 1
          BY <3>3, <5>1
        <5>2. CASE k # m + 1
          <6>1. k \in 0 .. m
            BY <5>2
          <6> QED
            BY <3>1, <3>2, <6>1
        <5> QED
          BY <5>1, <5>2
      <4>2. k >= 10 => j \in 0 .. m
        BY DivisionByTen
      <4>3. k >= 10 => h[j] = g[j]
        BY <3>2, <4>2
      <4> HIDE DEF j
      <4>4. k \in Nat /\ (k >= 10 \/ k < 10)
        OBVIOUS
      <4> QED
        BY <4>1, <4>3, <4>4 DEF j
    <3>5. Good(h, m + 1)
      BY <3>2, <3>4
    <3> HIDE DEF Good
    <3> QED
      BY <3>5
  <2> HIDE DEF T
  <2> QED
    BY <2>1, <2>2, SetInduction
<1> DEFINE G(m) == CHOOSE g : Good(g, m)
           F == [k \in Nat |-> G(k)[k]]
           Rec(g) == g = [k \in Nat |-> IF k < 10 THEN <<DigitBytes[k + 1]>>
                                        ELSE g[k \div 10] \o <<DigitBytes[(k % 10) + 1]>>]
<1>3. \A m \in Nat : Good(G(m), m)
  <2> TAKE m \in Nat
  <2>1. \E g : Good(g, m)
    BY <1>2
  <2> HIDE DEF Good
  <2> QED
    BY <2>1
<1>4. \A k \in Nat : F[k] = Step(F, k)
  <2> TAKE k \in Nat
  <2> DEFINE j == k \div 10
  <2>1. F[k] = G(k)[k] /\ k \in 0 .. k
    OBVIOUS
  <2>2. G(k)[k] = Step(G(k), k)
    <3> HIDE DEF G
    <3> QED
      BY <1>3, <2>1
  <2>3. k >= 10 => j \in Nat /\ j <= k /\ j <= j
    BY DivisionByTen
  <2> HIDE DEF j
  <2>4. k >= 10 => G(k)[j] = G(j)[j]
    <3> HIDE DEF G, Good
    <3> QED
      BY <1>1, <1>3, <2>3
  <2>5. k >= 10 => F[j] = G(k)[j]
    <3> HIDE DEF G
    <3> QED
      BY <2>3, <2>4
  <2> HIDE DEF F, G
  <2>6. k >= 10 \/ k < 10
    OBVIOUS
  <2> QED
    BY <2>1, <2>2, <2>5, <2>6 DEF j
<1>5. Rec(F)
  <2>1. F = [k \in Nat |-> F[k]]
    OBVIOUS
  <2> HIDE DEF F
  <2> QED
    BY <1>4, <2>1 DEF LastDigit
<1>6. Rec(Itb)
  <2>1. Itb = CHOOSE g : Rec(g)
    BY DEF Itb
  <2> HIDE DEF Rec, F
  <2> QED
    BY <1>5, <2>1
<1> QED
  BY <1>6, Zenon DEF LastDigit

LEMMA ItbCases ==
  ASSUME NEW n \in Nat
  PROVE  /\ n < 10 => Itb[n] = <<DigitBytes[n + 1]>>
         /\ n >= 10 => Itb[n] = Itb[n \div 10] \o <<DigitBytes[(n % 10) + 1]>>
<1> DEFINE small == <<DigitBytes[n + 1]>>
           large == Itb[n \div 10] \o LastDigit(n)
           is == Itb[n]
<1>1. is = IF n < 10 THEN small ELSE large
  BY ItbIs
<1>2. LastDigit(n) = <<DigitBytes[(n % 10) + 1]>>
  BY DEF LastDigit
<1>3. n >= 10 => ~(n < 10)
  OBVIOUS
<1> HIDE DEF small, large, is
<1>4. (n < 10 => is = small) /\ (n >= 10 => is = large)
  BY <1>1, <1>3
<1>5. large = Itb[n \div 10] \o <<DigitBytes[(n % 10) + 1]>>
  BY <1>2, Zenon DEF large
<1> QED
  BY <1>4, <1>5, Zenon DEF small, is

LEMMA Joined ==
  ASSUME NEW S, NEW s \in Seq(S), NEW t \in Seq(S)
  PROVE  /\ s \o t \in Seq(S) /\ Len(s) \in Nat /\ Len(t) \in Nat
         /\ Len(s \o t) = Len(s) + Len(t)
         /\ \A i \in 1 .. Len(s) : (s \o t)[i] = s[i]
         /\ \A i \in 1 .. Len(t) : (s \o t)[Len(s) + i] = t[i]
<1>1. Len(s) \in Nat /\ Len(t) \in Nat
  OBVIOUS
<1>2. s \o t \in Seq(S) /\ Len(s \o t) = Len(s) + Len(t)
      /\ \A i \in 1 .. Len(s) + Len(t) :
           (s \o t)[i] = IF i <= Len(s) THEN s[i] ELSE t[i - Len(s)]
  BY ConcatProperties
<1> DEFINE m == Len(s)
           n == Len(t)
           u == s \o t
<1> HIDE DEF m, n, u
<1>3. \A i \in 1 .. m : i \in 1 .. m + n /\ i <= m
  BY <1>1 DEF m, n
<1>4. \A i \in 1 .. n : m + i \in 1 .. m + n /\ ~(m + i <= m) /\ (m + i) - m = i
  BY <1>1 DEF m, n
<1>5. \A i \in 1 .. m + n : u[i] = IF i <= m THEN s[i] ELSE t[i - m]
  BY <1>2 DEF m, n, u
<1>6. \A i \in 1 .. m : u[i] = s[i]
  BY <1>3, <1>5
<1>7. \A i \in 1 .. n : u[m + i] = t[i]
  BY <1>4, <1>5
<1> QED
  BY <1>1, <1>2, <1>6, <1>7 DEF m, n, u

LEMMA ItbBytes ==
  ASSUME NEW n \in Nat
  PROVE  Itb[n] \in Seq(Digits) /\ Len(Itb[n]) \in Nat /\ Len(Itb[n]) >= 1
<1> DEFINE T == {k \in Nat : Itb[k] \in Seq(Digits) /\ Len(Itb[k]) >= 1}
<1>1. ASSUME NEW i \in 0 .. 9
      PROVE  <<DigitBytes[i + 1]>> \in Seq(Digits) /\ Len(<<DigitBytes[i + 1]>>) = 1
  <2> DEFINE x == DigitBytes[i + 1]
  <2>1. x \in Digits
    <3>1. i + 1 \in 1 .. 10
      OBVIOUS
    <3> QED
      BY <3>1 DEF Digits
  <2> HIDE DEF x
  <2>2. <<x>> \in Seq(Digits) /\ Len(<<x>>) = 1
    BY <2>1
  <2> QED
    BY <2>2 DEF x
<1>2. ASSUME NEW k \in Nat, \A j \in Nat : j < k => j \in T
      PROVE  k \in T
  <2>1. CASE k < 10
    <3>1. k \in 0 .. 9
      BY <2>1
    <3> DEFINE b == <<DigitBytes[k + 1]>>
    <3>2. Itb[k] = b
      BY <2>1, ItbCases
    <3>3. b \in Seq(Digits) /\ Len(b) = 1
      BY <1>1, <3>1
    <3> HIDE DEF b
    <3>4. b \in Seq(Digits) /\ Len(b) >= 1
      BY <3>3
    <3>5. Itb[k] \in Seq(Digits) /\ Len(Itb[k]) >= 1
      BY <3>2, <3>4, Zenon
    <3> QED
      BY <3>5, Zenon
  <2>2. CASE k >= 10
    <3> DEFINE j == k \div 10
               r == k % 10
               a == Itb[j]
               b == <<DigitBytes[r + 1]>>
    <3>1. j \in Nat /\ j < k /\ r \in 0 .. 9
      BY <2>2, DivisionByTen
    <3>2. Itb[k] = a \o b
      BY <2>2, ItbCases
    <3> HIDE DEF j, r
    <3>3. a \in Seq(Digits) /\ Len(a) >= 1
      BY <1>2, <3>1
    <3>4. b \in Seq(Digits) /\ Len(b) = 1
      BY <1>1, <3>1
    <3> HIDE DEF a, b
    <3>5. a \o b \in Seq(Digits) /\ Len(a \o b) = Len(a) + Len(b) /\ Len(a) \in Nat
      BY <3>3, <3>4, Joined
    <3>6. Len(a \o b) >= 1
      BY <3>3, <3>4, <3>5
    <3> QED
      BY <3>2, <3>5, <3>6
  <2> QED
    BY <2>1, <2>2
<1>3. Nat \subseteq T
  <2> HIDE DEF T
  <2> QED
    BY <1>2, StrongInduction
<1>4. Itb[n] \in Seq(Digits) /\ Len(Itb[n]) >= 1
  BY <1>3
<1> QED
  BY <1>4

(* std::stoi reads the number that itb wrote. *)
ReadAs(buf, first, last, v) ==
  \A n \in Nat :
    first + Len(Itb[n]) <= last
    /\ (\A i \in 1 .. Len(Itb[n]) : buf[first + i - 1] = Itb[n][i])
      => v[first + Len(Itb[n]) - 1] = n

LEMMA ReadsBack ==
  ASSUME NEW buf, NEW first \in Nat \ {0}, NEW last \in Nat, NEW v,
         Horner(buf, first, last, v)
  PROVE  ReadAs(buf, first, last, v)
<1> DEFINE Written(n) == /\ first + Len(Itb[n]) <= last
                         /\ \A i \in 1 .. Len(Itb[n]) : buf[first + i - 1] = Itb[n][i]
           T == {n \in Nat : Written(n) => v[first + Len(Itb[n]) - 1] = n}
<1>1. ASSUME NEW p \in Nat, first <= p, p <= last - 1
      PROVE  v[p] = 10 * v[p - 1] + DigitValue(buf[p])
  BY <1>1 DEF Horner
<1>2. ASSUME NEW n \in Nat, \A m \in Nat : m < n => m \in T
      PROVE  n \in T
  <2>1. SUFFICES ASSUME Written(n) PROVE v[first + Len(Itb[n]) - 1] = n
    OBVIOUS
  <2>2. CASE n < 10
    <3>1. Itb[n] = <<DigitBytes[n + 1]>>
      BY <2>2, ItbCases
    <3>2. Len(Itb[n]) = 1 /\ Itb[n][1] = DigitBytes[n + 1]
      BY <3>1
    <3>3. buf[first + 1 - 1] = DigitBytes[n + 1] /\ first + 1 <= last
      BY <2>1, <3>2
    <3>4. buf[first] = DigitBytes[n + 1] /\ first <= last - 1 /\ n + 1 \in 1 .. 10
          /\ first - 1 \in (first - 1) .. (last - 1) /\ first - 1 < first
      BY <2>2, <3>3
    <3>5. DigitValue(buf[first]) = n
      <4>1. DigitValue(DigitBytes[n + 1]) = (n + 1) - 1
        BY <3>4, DigitValues
      <4> QED
        BY <3>4, <4>1
    <3>6. v[first - 1] = 0
      BY <3>4 DEF Horner
    <3>7. v[first] = 10 * v[first - 1] + DigitValue(buf[first])
      BY <1>1, <3>4
    <3>8. v[first] = n
      BY <3>5, <3>6, <3>7
    <3> QED
      BY <3>2, <3>8
  <2>3. CASE n >= 10
    <3> DEFINE m == n \div 10
               r == n % 10
               a == Itb[m]
               b == <<DigitBytes[r + 1]>>
    <3>1. m \in Nat /\ m < n /\ r \in 0 .. 9 /\ n = 10 * m + r
      BY <2>3, DivisionByTen
    <3>2. Itb[n] = a \o b
      BY <2>3, ItbCases
    <3> HIDE DEF m, r
    <3>3. a \in Seq(Digits) /\ Len(a) \in Nat /\ Len(a) >= 1
      BY <3>1, ItbBytes
    <3>4. b \in Seq(Digits) /\ Len(b) = 1 /\ b[1] = DigitBytes[r + 1]
      <4> DEFINE x == DigitBytes[r + 1]
      <4>1. x \in Digits
        <5>1. r + 1 \in 1 .. 10
          BY <3>1
        <5> QED
          BY <5>1 DEF Digits
      <4> HIDE DEF x
      <4>2. <<x>> \in Seq(Digits) /\ Len(<<x>>) = 1 /\ <<x>>[1] = x
        BY <4>1
      <4> QED
        BY <4>2 DEF x
    <3> DEFINE l == Len(a)
    <3>5. /\ Len(Itb[n]) = l + 1 /\ l \in Nat
          /\ \A i \in 1 .. l : Itb[n][i] = a[i]
          /\ Itb[n][l + 1] = DigitBytes[r + 1]
      <4> HIDE DEF a, b
      <4>1. /\ Len(a \o b) = Len(a) + Len(b)
            /\ \A i \in 1 .. Len(a) : (a \o b)[i] = a[i]
            /\ \A i \in 1 .. Len(b) : (a \o b)[Len(a) + i] = b[i]
        BY <3>3, <3>4, Joined
      <4>2. 1 \in 1 .. Len(b)
        BY <3>4
      <4> QED
        BY <3>2, <3>3, <3>4, <4>1, <4>2
    <3>6. l = Len(Itb[m])
      OBVIOUS
    <3>7. \A i \in 1 .. l : a[i] = Itb[m][i]
      OBVIOUS
    <3> HIDE DEF a, b, l
    <3>8. /\ first + (l + 1) <= last
          /\ \A i \in 1 .. l + 1 : buf[first + i - 1] = Itb[n][i]
      BY <2>1, <3>5
    <3>9. Written(m)
      <4>1. first + l <= last
        BY <3>5, <3>8
      <4>2. \A i \in 1 .. l : i \in 1 .. l + 1
        BY <3>5
      <4>3. \A i \in 1 .. l : buf[first + i - 1] = Itb[m][i]
        BY <3>5, <3>7, <3>8, <4>2
      <4> QED
        BY <3>6, <4>1, <4>3
    <3>10. v[first + l - 1] = m
      BY <1>2, <3>1, <3>6, <3>9
    <3> DEFINE p == first + l
    <3>11. /\ p \in Nat /\ first <= p /\ p <= last - 1 /\ p - 1 = first + l - 1
           /\ p = first + (l + 1) - 1 /\ l + 1 \in 1 .. l + 1
      BY <3>5, <3>8
    <3>12. buf[p] = DigitBytes[r + 1]
      BY <3>5, <3>8, <3>11
    <3> HIDE DEF p
    <3>13. v[p] = 10 * v[p - 1] + DigitValue(buf[p])
      BY <1>1, <3>11
    <3>14. DigitValue(buf[p]) = r
      <4>1. r + 1 \in 1 .. 10 /\ (r + 1) - 1 = r
        BY <3>1
      <4>2. DigitValue(DigitBytes[r + 1]) = (r + 1) - 1
        BY <4>1, DigitValues
      <4> QED
        BY <3>12, <4>1, <4>2
    <3>15. v[p] = n
      BY <3>1, <3>10, <3>11, <3>13, <3>14
    <3> QED
      BY <3>5, <3>11, <3>15
  <2> QED
    BY <2>2, <2>3
<1>3. Nat \subseteq T
  <2> HIDE DEF T
  <2> QED
    BY <1>2, StrongInduction
<1> QED
  BY <1>3 DEF ReadAs

-----------------------------------------------------------------------------
(* A request in the array *)

(* u is s and t joined, of lengths m and n *)
Glue(S, u, s, t, m, n) ==
  /\ u \in Seq(S) /\ m \in Nat /\ n \in Nat /\ Len(u) = m + n
  /\ \A i \in 1 .. m : u[i] = s[i]
  /\ \A i \in 1 .. n : u[m + i] = t[i]

LEMMA Glued ==
  ASSUME NEW S, NEW s \in Seq(S), NEW t \in Seq(S)
  PROVE  Glue(S, s \o t, s, t, Len(s), Len(t))
BY Joined DEF Glue

LEMMA DigitsAreBytes ==
  /\ Digits \subseteq Byte
  /\ \A x \in Digits : IsDigit(x) /\ x # Sep
<1>1. Digits \subseteq Byte
  BY WireAssumption DEF Digits
<1>2. \A x \in Digits : IsDigit(x) /\ x # Sep
  BY DEF Digits, IsDigit, Sep, DigitBytes
<1> QED
  BY <1>1, <1>2

LEMMA ItbInBytes ==
  ASSUME NEW n \in Nat
  PROVE  Itb[n] \in Seq(Byte)
<1> DEFINE x == Itb[n]
<1>1. x \in Seq(Digits) /\ Digits \subseteq Byte
  BY ItbBytes, DigitsAreBytes
<1> HIDE DEF x
<1>2. x \in Seq(Byte)
  BY <1>1, SeqMonotonic
<1> QED
  BY <1>2 DEF x

OneOf(x) == <<x>>

LEMMA Single ==
  ASSUME NEW S, NEW x \in S
  PROVE  OneOf(x) \in Seq(S) /\ Len(OneOf(x)) = 1 /\ OneOf(x)[1] = x
BY DEF OneOf

(* The mode, a size and its separator *)
SizeHead(mode, n) == (OneOf(mode) \o Itb[n]) \o OneOf(Sep)

(* How many digits a number has *)
Width(n) == Len(Itb[n])

HeadIs(h, mode, n, a) ==
  /\ h \in Seq(Byte) /\ a \in Nat /\ Len(h) = a + 2
  /\ h[1] = mode
  /\ \A i \in 1 .. a : h[i + 1] = Itb[n][i]
  /\ h[a + 2] = Sep

LEMMA HeadBytes ==
  ASSUME NEW mode \in Byte, NEW n \in Nat
  PROVE  HeadIs(SizeHead(mode, n), mode, n, Width(n))
<1> DEFINE m == OneOf(mode)
           t == Itb[n]
           s == OneOf(Sep)
           u == m \o t
           a == Len(t)
<1>1. m \in Seq(Byte) /\ Len(m) = 1 /\ m[1] = mode
  BY Single
<1>2. t \in Seq(Byte) /\ a \in Nat
  BY ItbInBytes, ItbBytes
<1>3. s \in Seq(Byte) /\ Len(s) = 1 /\ s[1] = Sep
  BY Single, WireAssumption
<1>4. SizeHead(mode, n) = u \o s
  BY DEF SizeHead
<1> DEFINE w == u \o s
<1>5. a = Len(t) /\ u = m \o t /\ w = u \o s
  OBVIOUS
<1> HIDE DEF m, t, s, a, u, w
<1>60. Glue(Byte, u, m, t, 1, a)
  BY <1>1, <1>2, <1>5, Glued
<1>6. /\ u \in Seq(Byte) /\ Len(u) = 1 + a
      /\ \A i \in 1 .. 1 : u[i] = m[i]
      /\ \A i \in 1 .. a : u[1 + i] = t[i]
  BY <1>60 DEF Glue
<1>70. Glue(Byte, w, u, s, 1 + a, 1)
  BY <1>3, <1>5, <1>6, Glued
<1>7. /\ w \in Seq(Byte) /\ Len(w) = (1 + a) + 1
      /\ \A i \in 1 .. 1 + a : w[i] = u[i]
      /\ \A i \in 1 .. 1 : w[(1 + a) + i] = s[i]
  BY <1>70 DEF Glue
<1>8. /\ w \in Seq(Byte) /\ Len(w) = a + 2
      /\ w[1] = mode
      /\ \A i \in 1 .. a : w[i + 1] = t[i]
      /\ w[a + 2] = Sep
  <2>1. w \in Seq(Byte) /\ Len(w) = a + 2
    BY <1>2, <1>7
  <2>2. w[1] = mode
    <3>1. 1 \in 1 .. 1 + a /\ 1 \in 1 .. 1
      BY <1>2
    <3> QED
      BY <1>1, <1>6, <1>7, <3>1
  <2>3. ASSUME NEW i \in 1 .. a PROVE w[i + 1] = t[i]
    <3>1. i + 1 \in 1 .. 1 + a /\ i + 1 = 1 + i
      BY <1>2
    <3> QED
      BY <1>6, <1>7, <3>1
  <2>4. w[a + 2] = Sep
    <3>1. 1 \in 1 .. 1 /\ (1 + a) + 1 = a + 2
      BY <1>2
    <3> QED
      BY <1>3, <1>7, <3>1
  <2> QED
    BY <2>1, <2>2, <2>3, <2>4
<1> QED
  BY <1>2, <1>4, <1>5, <1>8 DEF t, HeadIs, Width

(* x is a mode, a size, a separator and a key. *)
LookupBytes(x, mode, key, a) ==
  /\ x \in Seq(Byte) /\ a \in Nat /\ Len(key) \in Nat
  /\ Len(x) = (a + 2) + Len(key)
  /\ x[1] = mode
  /\ \A i \in 1 .. a : x[i + 1] = Itb[Len(key)][i]
  /\ x[a + 2] = Sep
  /\ \A i \in 1 .. Len(key) : x[(a + 2) + i] = key[i]

LEMMA GetBytes ==
  ASSUME NEW mode \in Byte, NEW key \in Seq(Byte), NEW x, x = SizeHead(mode, Len(key)) \o key,
         NEW a, a = Width(Len(key))
  PROVE  LookupBytes(x, mode, key, a)
<1> DEFINE n == Len(key)
           h == SizeHead(mode, n)
<1>0. n \in Nat
  OBVIOUS
<1>1. /\ h \in Seq(Byte) /\ a \in Nat /\ Len(h) = a + 2 /\ h[1] = mode
      /\ \A i \in 1 .. a : h[i + 1] = Itb[n][i]
      /\ h[a + 2] = Sep
  <2>1. HeadIs(h, mode, n, a)
    BY <1>0, HeadBytes
  <2> QED
    BY <2>1 DEF HeadIs
<1>2. x = h \o key /\ n = Len(key)
  OBVIOUS
<1> HIDE DEF h, n
<1>30. Glue(Byte, x, h, key, a + 2, n)
  BY <1>0, <1>1, <1>2, Glued
<1>3. /\ x \in Seq(Byte) /\ Len(x) = (a + 2) + n
      /\ \A i \in 1 .. a + 2 : x[i] = h[i]
      /\ \A i \in 1 .. n : x[(a + 2) + i] = key[i]
  BY <1>30 DEF Glue
<1>4. x[1] = mode /\ x[a + 2] = Sep
  <2>1. 1 \in 1 .. a + 2 /\ a + 2 \in 1 .. a + 2
    BY <1>1
  <2> QED
    BY <1>1, <1>3, <2>1
<1>5. ASSUME NEW i \in 1 .. a PROVE x[i + 1] = Itb[n][i]
  <2>1. i + 1 \in 1 .. a + 2
    BY <1>1
  <2> QED
    BY <1>1, <1>3, <2>1
<1> QED
  BY <1>0, <1>1, <1>2, <1>3, <1>4, <1>5 DEF LookupBytes

(* x is a mode, two sizes with a separator each, a key and a value. *)
InsertBytes(x, mode, key, val, a, b) ==
  /\ x \in Seq(Byte) /\ a \in Nat /\ b \in Nat /\ Len(key) \in Nat /\ Len(val) \in Nat
  /\ Len(x) = (((a + 2) + (b + 1)) + Len(key)) + Len(val)
  /\ x[1] = mode
  /\ \A i \in 1 .. a : x[i + 1] = Itb[Len(key)][i]
  /\ x[a + 2] = Sep
  /\ \A i \in 1 .. b : x[(a + 2) + i] = Itb[Len(val)][i]
  /\ x[(a + 2) + (b + 1)] = Sep
  /\ \A i \in 1 .. Len(key) : x[((a + 2) + (b + 1)) + i] = key[i]
  /\ \A i \in 1 .. Len(val) : x[(((a + 2) + (b + 1)) + Len(key)) + i] = val[i]

LEMMA AddBytes ==
  ASSUME NEW mode \in Byte, NEW key \in Seq(Byte), NEW val \in Seq(Byte),
         NEW x, x = ComposeAdd(mode, key, val),
         NEW a, a = Width(Len(key)), NEW b, b = Width(Len(val))
  PROVE  InsertBytes(x, mode, key, val, a, b)
<1> DEFINE n == Len(key)
           h == SizeHead(mode, n)
           l == Len(val)
           t == Itb[l]
           s == OneOf(Sep)
           ht == h \o t
           hs == ht \o s
           hk == hs \o key
<1>0. n \in Nat /\ l \in Nat
  OBVIOUS
<1>1. /\ h \in Seq(Byte) /\ a \in Nat /\ Len(h) = a + 2 /\ h[1] = mode
      /\ \A i \in 1 .. a : h[i + 1] = Itb[n][i]
      /\ h[a + 2] = Sep
  <2>1. HeadIs(h, mode, n, a)
    BY <1>0, HeadBytes
  <2> QED
    BY <2>1 DEF HeadIs
<1>2. t \in Seq(Byte) /\ b \in Nat /\ Len(t) = b
  <2>1. b = Len(Itb[l])
    BY DEF Width
  <2> HIDE DEF l
  <2> QED
    BY <1>0, <2>1, ItbInBytes, ItbBytes
<1>25. a \in Nat /\ b \in Nat
  BY <1>1, <1>2
<1>3. s \in Seq(Byte) /\ Len(s) = 1 /\ s[1] = Sep
  BY Single, WireAssumption
<1>4. /\ n = Len(key) /\ l = Len(val)
      /\ ht = h \o t /\ hs = ht \o s /\ hk = hs \o key
  OBVIOUS
<1>20. x = hk \o val
  BY DEF ComposeAdd, SizeHead, OneOf
<1> HIDE DEF h, t, s, ht, hs, hk, n, l
<1>50. Glue(Byte, ht, h, t, a + 2, b)
  BY <1>1, <1>2, <1>4, Glued
<1>5. /\ ht \in Seq(Byte) /\ Len(ht) = (a + 2) + b
      /\ \A i \in 1 .. a + 2 : ht[i] = h[i]
      /\ \A i \in 1 .. b : ht[(a + 2) + i] = t[i]
  BY <1>50 DEF Glue
<1>60. Glue(Byte, hs, ht, s, (a + 2) + b, 1)
  BY <1>3, <1>4, <1>5, Glued
<1>6. /\ hs \in Seq(Byte) /\ Len(hs) = ((a + 2) + b) + 1
      /\ \A i \in 1 .. (a + 2) + b : hs[i] = ht[i]
      /\ \A i \in 1 .. 1 : hs[((a + 2) + b) + i] = s[i]
  BY <1>60 DEF Glue
<1> DEFINE k == (a + 2) + (b + 1)
<1>7. k \in Nat /\ ((a + 2) + b) + 1 = k /\ 1 \in 1 .. 1
  BY <1>25
<1>8. Len(hs) = k /\ hs[k] = Sep
  BY <1>3, <1>6, <1>7
<1> HIDE DEF k
<1>90. Glue(Byte, hk, hs, key, k, n)
  BY <1>0, <1>4, <1>6, <1>8, Glued
<1>9. /\ hk \in Seq(Byte) /\ Len(hk) = k + n
      /\ \A i \in 1 .. k : hk[i] = hs[i]
      /\ \A i \in 1 .. n : hk[k + i] = key[i]
  BY <1>90 DEF Glue
<1>100. Glue(Byte, x, hk, val, k + n, l)
  BY <1>0, <1>4, <1>20, <1>9, Glued
<1>10. /\ x \in Seq(Byte) /\ Len(x) = (k + n) + l
       /\ \A i \in 1 .. k + n : x[i] = hk[i]
       /\ \A i \in 1 .. l : x[(k + n) + i] = val[i]
  BY <1>100 DEF Glue
<1>11. \A i \in 1 .. k : x[i] = hs[i]
  <2> TAKE i \in 1 .. k
  <2>1. i \in 1 .. k + n
    BY <1>0, <1>7
  <2> QED
    BY <1>9, <1>10, <2>1
<1>12. \A i \in 1 .. n : x[k + i] = key[i]
  <2> TAKE i \in 1 .. n
  <2>1. k + i \in 1 .. k + n
    BY <1>0, <1>7
  <2> QED
    BY <1>9, <1>10, <2>1
<1>13. k \in 1 .. k
  BY <1>25, <1>7, SMTT(30) DEF k
<1>14. x[k] = Sep
  BY <1>8, <1>11, <1>13
<1>15. \A i \in 1 .. (a + 2) + b : x[i] = ht[i]
  <2> TAKE i \in 1 .. (a + 2) + b
  <2>1. i \in 1 .. k
    BY <1>25 DEF k
  <2> QED
    BY <1>6, <1>11, <2>1
<1>16. \A i \in 1 .. a + 2 : x[i] = h[i]
  <2> TAKE i \in 1 .. a + 2
  <2>1. i \in 1 .. (a + 2) + b
    BY <1>25
  <2> QED
    BY <1>5, <1>15, <2>1
<1>17. \A i \in 1 .. b : x[(a + 2) + i] = t[i]
  <2> TAKE i \in 1 .. b
  <2>1. (a + 2) + i \in 1 .. (a + 2) + b
    BY <1>25
  <2> QED
    BY <1>5, <1>15, <2>1
<1>18. x[1] = mode /\ x[a + 2] = Sep
  <2>1. 1 \in 1 .. a + 2 /\ a + 2 \in 1 .. a + 2
    BY <1>1
  <2> QED
    BY <1>1, <1>16, <2>1
<1>19. \A i \in 1 .. a : x[i + 1] = Itb[n][i]
  <2> TAKE i \in 1 .. a
  <2>1. i + 1 \in 1 .. a + 2
    BY <1>1
  <2> QED
    BY <1>1, <1>16, <2>1
<1> QED
  BY <1>0, <1>1, <1>2, <1>10, <1>12, <1>14, <1>17, <1>18, <1>19, <1>4 DEF k, t, InsertBytes

LEMMA SepAt ==
  ASSUME NEW buf, NEW first \in Nat, NEW last \in Nat, NEW p \in Nat,
         first <= p, p < last, buf[p] = Sep,
         \A q \in Nat : first <= q /\ q < p => buf[q] # Sep
  PROVE  FindSep(buf, first, last) = p
<1> DEFINE found == FindSep(buf, first, last)
<1>0. first <= last
  OBVIOUS
<1>1. /\ found \in first .. last
      /\ found # last => buf[found] = Sep
      /\ found <= p
  BY <1>0, FindSepFinds
<1> HIDE DEF found
<1>2. found \in Nat /\ first <= found /\ found # last
  BY <1>1
<1>3. ~(found < p)
  BY <1>1, <1>2
<1>4. found = p
  BY <1>1, <1>2, <1>3
<1> QED
  BY <1>4 DEF found

(* The array holds s right after a place. *)
Stands(buf, at, n, s) == \A i \in 1 .. n : buf[at + i] = s[i]

(* A stretch of the array holds a number and nothing else. *)
NumberRead(buf, first, last, n) ==
  /\ \A p \in Nat : first <= p /\ p < last => buf[p] # Sep
  /\ ~Throws(buf, first, last)
  /\ Stoi(buf, first, last) = n

(* A size that stands in the array is read as it was written. *)
LEMMA NumberAt ==
  ASSUME NEW buf, NEW at \in Nat, NEW n \in Nat, Stands(buf, at, Width(n), Itb[n])
  PROVE  NumberRead(buf, at + 1, (at + 1) + Width(n), n)
<1> DEFINE t == Itb[n]
           w == Width(n)
           first == at + 1
           last == first + w
<1>0. first \in Nat \ {0} /\ at = first - 1 /\ last = first + w
  OBVIOUS
<1>1. t \in Seq(Digits) /\ w \in Nat /\ w >= 1 /\ w = Len(t)
  BY ItbBytes DEF Width
<1> HIDE DEF t, w, first
<1>2. last \in Nat /\ first <= last
  BY <1>0, <1>1
<1> HIDE DEF last
<1>9. \A i \in 1 .. w : buf[first + i - 1] = t[i]
  <2>1. \A i \in 1 .. w : first + i - 1 = at + i
    BY <1>0, <1>1
  <2> QED
    BY <2>1 DEF Stands, w, t
<1>3. ASSUME NEW p \in Nat, first <= p, p < last
      PROVE  IsDigit(buf[p]) /\ buf[p] # Sep
  <2> DEFINE i == p - first + 1
  <2>1. i \in 1 .. w /\ first + i - 1 = p
    BY <1>0, <1>1, <1>2, <1>3
  <2> HIDE DEF i
  <2>2. buf[p] = t[i]
    BY <1>9, <2>1
  <2>3. t[i] \in Digits
    <3>1. i \in 1 .. Len(t)
      BY <1>1, <2>1
    <3> QED
      BY <1>1, <3>1
  <2> QED
    BY <2>2, <2>3, DigitsAreBytes
<1>4. DigitsEnd(buf, first, last) = last
  <2>1. \A p \in first .. (last - 1) : IsDigit(buf[p])
    <3> TAKE p \in first .. (last - 1)
    <3>1. p \in Nat /\ first <= p /\ p < last
      BY <1>0, <1>2
    <3> QED
      BY <1>3, <3>1
  <2>2. (\A p \in first .. (last - 1) : IsDigit(buf[p])) => DigitsEnd(buf, first, last) = last
    BY <1>0, <1>2, DigitsEndFinds
  <2> QED
    BY <2>1, <2>2
<1>5. ~Throws(buf, first, last)
  <2>1. ~(last <= first)
    BY <1>0, <1>1
  <2> QED
    BY <1>4, <2>1 DEF Throws
<1>6. PICK v : /\ Horner(buf, first, last, v)
               /\ Stoi(buf, first, last) = v[last - 1]
  BY <1>0, <1>2, <1>4, StoiReads
<1>7. v[first + w - 1] = n
  <2>1. first + Len(Itb[n]) <= last
    BY <1>0, <1>1, <1>2 DEF t
  <2>2. \A i \in 1 .. Len(Itb[n]) : buf[first + i - 1] = Itb[n][i]
    BY <1>1, <1>9 DEF t
  <2>3. ReadAs(buf, first, last, v)
    BY <1>0, <1>2, <1>6, ReadsBack
  <2>4. v[first + Len(Itb[n]) - 1] = n
    BY <2>1, <2>2, <2>3 DEF ReadAs
  <2> QED
    BY <1>1, <2>4 DEF t
<1>8. Stoi(buf, first, last) = n
  <2>1. first + w - 1 = last - 1
    BY <1>0, <1>1
  <2> QED
    BY <1>6, <1>7, <2>1
<1>10. NumberRead(buf, first, last, n)
  BY <1>3, <1>5, <1>8 DEF NumberRead
<1> QED
  BY <1>10 DEF last, first, w

(* A request laid over the array stands at its front. *)
LEMMA LaidOver ==
  ASSUME NEW buf \in Buffer, NEW bytes \in Seq(Byte), Len(bytes) <= BufLen
  PROVE  /\ Overlay(buf, bytes) \in Buffer
         /\ \A i \in Nat : 1 <= i /\ i <= Len(bytes) => Overlay(buf, bytes)[i] = bytes[i]
<1> DEFINE n == Len(bytes)
<1>0. n \in Nat /\ n <= BufLen /\ BufLen \in Nat
  BY WireAssumption
<1>1. \A i \in 1 .. n : bytes[i] \in Byte
  OBVIOUS
<1> HIDE DEF n
<1>2. Overlay(buf, bytes) = [i \in 1 .. BufLen |-> IF i <= n THEN bytes[i] ELSE buf[i]]
  BY DEF Overlay, n
<1>3. \A i \in 1 .. BufLen : (IF i <= n THEN bytes[i] ELSE buf[i]) \in Byte
  BY <1>0, <1>1 DEF Buffer
<1>4. Overlay(buf, bytes) \in Buffer
  BY <1>2, <1>3 DEF Buffer
<1>5. ASSUME NEW i \in Nat, 1 <= i, i <= n PROVE Overlay(buf, bytes)[i] = bytes[i]
  <2>1. i \in 1 .. BufLen
    BY <1>0, <1>5
  <2> QED
    BY <1>2, <1>5, <2>1
<1> QED
  BY <1>4, <1>5 DEF n

(* A key as the server keeps it *)
Prefix(s, l) == [i \in 1 .. l |-> s[i]]
Shorn(key) == Prefix(key, Len(key) - 1)

(* The bytes of one field of the array *)
FieldIs(buf, at, l, s) == Slice(buf, at + 1, (at + l) + 1) = Prefix(s, l)

LEMMA FieldAt ==
  ASSUME NEW buf, NEW at \in Nat, NEW n \in Nat, NEW l \in Nat, NEW s,
         l <= n, Stands(buf, at, n, s)
  PROVE  FieldIs(buf, at, l, s)
<1>1. (at + l) + 1 - (at + 1) = l
  OBVIOUS
<1>2. \A i \in 1 .. l : (at + 1) + i - 1 = at + i /\ i \in 1 .. n
  OBVIOUS
<1>3. \A i \in 1 .. l : buf[(at + 1) + i - 1] = s[i]
  BY <1>2 DEF Stands
<1>4. Slice(buf, at + 1, (at + l) + 1) = [i \in 1 .. l |-> buf[(at + 1) + i - 1]]
  BY <1>1 DEF Slice
<1> QED
  BY <1>3, <1>4 DEF Prefix, FieldIs

(* A lookup or a removal, read back *)
LEMMA LookupReadBack ==
  ASSUME NEW buf \in Buffer, NEW mode \in {"g", "d"}, NEW key \in Seq(Byte), key # <<>>,
         Width(Len(key)) + 2 <= SepWindow,
         NEW bytes, bytes = SizeHead(mode, Len(key)) \o key, Len(bytes) <= BufLen
  PROVE  Decode(Overlay(buf, bytes)) = Request(mode, Shorn(key), <<>>)
<1> DEFINE B == Overlay(buf, bytes)
           n == Len(key)
           a == Width(n)
           t == Itb[n]
<1>0. mode \in Byte /\ mode # Sep
  BY WireAssumption DEF Sep
<1>1. /\ bytes \in Seq(Byte) /\ a \in Nat /\ n \in Nat
      /\ Len(bytes) = (a + 2) + n
      /\ bytes[1] = mode
      /\ \A i \in 1 .. a : bytes[i + 1] = t[i]
      /\ bytes[a + 2] = Sep
      /\ \A i \in 1 .. n : bytes[(a + 2) + i] = key[i]
  <2>1. LookupBytes(bytes, mode, key, a)
    <3> HIDE DEF a
    <3> QED
      BY <1>0, GetBytes DEF a, n
  <2> QED
    BY <2>1 DEF LookupBytes
<1>2. n # 0 /\ a + 2 <= SepWindow /\ SepWindow \in Nat /\ BufLen \in Nat
  <2>1. n # 0
    BY EmptySeq
  <2> QED
    BY <2>1, WireAssumption
<1>3. a = Width(n) /\ t = Itb[n]
  OBVIOUS
<1>4. B \in Buffer /\ \A i \in Nat : 1 <= i /\ i <= (a + 2) + n => B[i] = bytes[i]
  BY <1>1, LaidOver
<1>5. (a + 2) + n <= BufLen
  BY <1>1
<1>6. a \in Nat /\ n \in Nat
  BY <1>1
<1> HIDE DEF B, n, a, t
<1>7. B[1] = mode /\ B[a + 2] = Sep
  <2>1. 1 <= (a + 2) + n /\ a + 2 \in Nat /\ 1 <= a + 2 /\ a + 2 <= (a + 2) + n
    BY <1>6
  <2> QED
    BY <1>1, <1>4, <2>1, SMTT(30)
<1>8. Stands(B, 1, a, t)
  <2> SUFFICES ASSUME NEW i \in 1 .. a PROVE B[1 + i] = t[i]
    BY DEF Stands
  <2>1. 1 + i = i + 1 /\ i + 1 \in Nat /\ 1 <= i + 1 /\ i + 1 <= (a + 2) + n
    BY <1>6
  <2> QED
    BY <1>1, <1>4, <2>1
<1>9. Stands(B, a + 2, n, key)
  <2> SUFFICES ASSUME NEW i \in 1 .. n PROVE B[(a + 2) + i] = key[i]
    BY DEF Stands
  <2>1. (a + 2) + i \in Nat /\ 1 <= (a + 2) + i /\ (a + 2) + i <= (a + 2) + n
    BY <1>6
  <2> QED
    BY <1>1, <1>4, <2>1
<1>10. NumberRead(B, 2, a + 2, n)
  <2>1. a + 2 = (1 + 1) + a /\ 1 + 1 = 2 /\ 1 \in Nat
    BY <1>6
  <2>2. NumberRead(B, 1 + 1, (1 + 1) + a, n)
    BY <1>3, <1>6, <1>8, NumberAt
  <2> QED
    BY <2>1, <2>2
<1>11. FindSep(B, 1, 1 + SepWindow) = a + 2
  <2>1. a + 2 \in Nat /\ 1 <= a + 2 /\ a + 2 < 1 + SepWindow /\ 1 + SepWindow \in Nat /\ 1 \in Nat
    BY <1>2, <1>6
  <2>2. ASSUME NEW q \in Nat, 1 <= q, q < a + 2 PROVE B[q] # Sep
    BY <1>0, <1>7, <1>10, <2>2 DEF NumberRead
  <2> QED
    BY <1>7, <2>1, <2>2, SepAt
<1> DEFINE l == n - 1
           field == Slice(B, (a + 2) + 1, (a + 2) + n)
<1>12. field = Shorn(key)
  <2>1. l \in Nat /\ l <= n /\ a + 2 \in Nat /\ (a + 2) + n <= BufLen
        /\ ((a + 2) + l) + 1 = (a + 2) + n
    BY <1>2, <1>5, <1>6
  <2> HIDE DEF l
  <2>2. FieldIs(B, a + 2, l, key)
    BY <1>6, <1>9, <2>1, FieldAt
  <2> QED
    BY <2>1, <2>2 DEF l, n, Shorn, FieldIs
<1>13. Decode(B) = DecodeLookup(B)
  BY <1>7 DEF Decode
<1>14. DecodeLookup(B) = Request(mode, field, <<>>)
  <2>1. ~((a + 2) + n > BufLen + 1)
    BY <1>2, <1>5, <1>6
  <2> QED
    BY <1>2, <1>7, <1>10, <1>11, <2>1 DEF DecodeLookup, NumberRead
<1> QED
  BY <1>12, <1>13, <1>14 DEF B

(* An insert, read back *)
LEMMA InsertReadBack ==
  ASSUME NEW buf \in Buffer, NEW mode \in {"i", "s"},
         NEW key \in Seq(Byte), key # <<>>, NEW val \in Seq(Byte),
         Width(Len(key)) + 2 <= SepWindow, Width(Len(val)) + 2 <= SepWindow,
         NEW bytes, bytes = ComposeAdd(mode, key, val), Len(bytes) <= BufLen
  PROVE  Decode(Overlay(buf, bytes)) = Request(mode, Shorn(key), val)
<1> DEFINE B == Overlay(buf, bytes)
           n == Len(key)
           m == Len(val)
           a == Width(n)
           b == Width(m)
           k == (a + 2) + (b + 1)
           t == Itb[n]
           u == Itb[m]
<1>0. mode \in Byte /\ mode # Sep
  BY WireAssumption DEF Sep
<1>1. /\ bytes \in Seq(Byte) /\ a \in Nat /\ b \in Nat /\ n \in Nat /\ m \in Nat
      /\ Len(bytes) = (k + n) + m
      /\ bytes[1] = mode
      /\ \A i \in 1 .. a : bytes[i + 1] = t[i]
      /\ bytes[a + 2] = Sep
      /\ \A i \in 1 .. b : bytes[(a + 2) + i] = u[i]
      /\ bytes[k] = Sep
      /\ \A i \in 1 .. n : bytes[k + i] = key[i]
      /\ \A i \in 1 .. m : bytes[(k + n) + i] = val[i]
  <2>1. InsertBytes(bytes, mode, key, val, a, b)
    BY <1>0, AddBytes
  <2> QED
    BY <2>1 DEF InsertBytes
<1>2. n # 0 /\ a + 2 <= SepWindow /\ b + 2 <= SepWindow /\ SepWindow \in Nat /\ BufLen \in Nat
  <2>1. n # 0
    BY EmptySeq
  <2> QED
    BY <2>1, WireAssumption
<1>3. a = Width(n) /\ t = Itb[n] /\ b = Width(m) /\ u = Itb[m]
  OBVIOUS
<1>4. B \in Buffer /\ \A i \in Nat : 1 <= i /\ i <= (k + n) + m => B[i] = bytes[i]
  <2> HIDE DEF n, m, k
  <2> QED
    BY <1>1, LaidOver
<1>5. (k + n) + m <= BufLen
  BY <1>1
<1>6. a \in Nat /\ b \in Nat /\ n \in Nat /\ m \in Nat
  BY <1>1
<1> HIDE DEF B, n, m, a, b, t, u
<1>7. k \in Nat /\ k = (a + 2) + (b + 1)
  BY <1>6
<1> HIDE DEF k
<1>8. B[1] = mode /\ B[a + 2] = Sep /\ B[k] = Sep
  <2>1. /\ 1 <= (k + n) + m
        /\ a + 2 \in Nat /\ 1 <= a + 2 /\ a + 2 <= (k + n) + m
        /\ 1 <= k /\ k <= (k + n) + m
    BY <1>6, <1>7
  <2> QED
    BY <1>1, <1>4, <1>7, <2>1
<1>9. Stands(B, 1, a, t)
  <2> SUFFICES ASSUME NEW i \in 1 .. a PROVE B[1 + i] = t[i]
    BY DEF Stands
  <2>1. 1 + i = i + 1 /\ i + 1 \in Nat /\ 1 <= i + 1 /\ i + 1 <= (k + n) + m
    BY <1>6, <1>7
  <2> QED
    BY <1>1, <1>4, <2>1
<1>10. Stands(B, a + 2, b, u)
  <2> SUFFICES ASSUME NEW i \in 1 .. b PROVE B[(a + 2) + i] = u[i]
    BY DEF Stands
  <2>1. (a + 2) + i \in Nat /\ 1 <= (a + 2) + i /\ (a + 2) + i <= (k + n) + m
    BY <1>6, <1>7
  <2> QED
    BY <1>1, <1>4, <2>1
<1>11. Stands(B, k, n, key)
  <2> SUFFICES ASSUME NEW i \in 1 .. n PROVE B[k + i] = key[i]
    BY DEF Stands
  <2>1. k + i \in Nat /\ 1 <= k + i /\ k + i <= (k + n) + m
    BY <1>6, <1>7
  <2> QED
    BY <1>1, <1>4, <2>1
<1>12. Stands(B, k + n, m, val)
  <2> SUFFICES ASSUME NEW i \in 1 .. m PROVE B[(k + n) + i] = val[i]
    BY DEF Stands
  <2>1. (k + n) + i \in Nat /\ 1 <= (k + n) + i /\ (k + n) + i <= (k + n) + m
    BY <1>6, <1>7
  <2> QED
    BY <1>1, <1>4, <2>1
<1>13. NumberRead(B, 2, a + 2, n)
  <2>1. a + 2 = (1 + 1) + a /\ 1 + 1 = 2 /\ 1 \in Nat
    BY <1>6
  <2>2. NumberRead(B, 1 + 1, (1 + 1) + a, n)
    BY <1>3, <1>6, <1>9, NumberAt
  <2> QED
    BY <2>1, <2>2
<1>14. NumberRead(B, (a + 2) + 1, k, m)
  <2>1. a + 2 \in Nat /\ k = ((a + 2) + 1) + b
    BY <1>6, <1>7
  <2>2. NumberRead(B, (a + 2) + 1, ((a + 2) + 1) + b, m)
    BY <1>3, <1>6, <1>10, <2>1, NumberAt
  <2> QED
    BY <2>1, <2>2
<1>15. FindSep(B, 1, 1 + SepWindow) = a + 2
  <2>1. a + 2 \in Nat /\ 1 <= a + 2 /\ a + 2 < 1 + SepWindow /\ 1 + SepWindow \in Nat /\ 1 \in Nat
    BY <1>2, <1>6
  <2>2. ASSUME NEW q \in Nat, 1 <= q, q < a + 2 PROVE B[q] # Sep
    BY <1>0, <1>8, <1>13, <2>2 DEF NumberRead
  <2> QED
    BY <1>8, <2>1, <2>2, SepAt
<1>16. FindSep(B, (a + 2) + 1, (a + 2) + SepWindow) = k
  <2> DEFINE from == (a + 2) + 1
             to == (a + 2) + SepWindow
  <2>1. k < to /\ from <= k /\ from \in Nat /\ to \in Nat
    BY <1>2, <1>6, <1>7
  <2>2. ASSUME NEW q \in Nat, from <= q, q < k PROVE B[q] # Sep
    BY <1>14, <2>2 DEF NumberRead
  <2> HIDE DEF from, to
  <2>3. FindSep(B, from, to) = k
    BY <1>7, <1>8, <2>1, <2>2, SepAt
  <2> QED
    BY <2>3 DEF from, to
<1> DEFINE l == n - 1
           keyField == Slice(B, k + 1, k + n)
           valField == Slice(B, (k + n) + 1, ((k + n) + m) + 1)
<1>17. keyField = Shorn(key)
  <2>1. l \in Nat /\ l <= n /\ (k + l) + 1 = k + n
    BY <1>2, <1>6, <1>7
  <2> HIDE DEF l
  <2>2. FieldIs(B, k, l, key)
    BY <1>6, <1>7, <1>11, <2>1, FieldAt
  <2> QED
    BY <2>1, <2>2 DEF l, n, Shorn, FieldIs
<1>18. valField = val
  <2>1. k + n \in Nat /\ m <= m
    BY <1>6, <1>7
  <2>2. FieldIs(B, k + n, m, val)
    BY <1>6, <1>12, <2>1, FieldAt
  <2>3. Prefix(val, m) = val
    BY DEF Prefix, m
  <2> QED
    BY <2>2, <2>3 DEF FieldIs
<1>19. Decode(B) = DecodeInsert(B)
  BY <1>8 DEF Decode
<1>20. DecodeInsert(B) = Request(mode, keyField, valField)
  <2>1. ~(k + n + m > BufLen)
    BY <1>2, <1>5, <1>6, <1>7
  <2>2. ~Throws(B, 2, a + 2) /\ ~Throws(B, (a + 2) + 1, k)
        /\ Stoi(B, 2, a + 2) = n /\ Stoi(B, (a + 2) + 1, k) = m
    BY <1>13, <1>14 DEF NumberRead
  <2> HIDE DEF keyField, valField
  <2> QED
    BY <1>2, <1>8, <1>15, <1>16, <2>1, <2>2 DEF DecodeInsert, keyField, valField
<1> QED
  BY <1>17, <1>18, <1>19, <1>20 DEF B

(* Shorn is what Python writes key[:-1]. *)
LEMMA ShornIs ==
  ASSUME NEW key \in Seq(Byte), key # <<>>
  PROVE  SubSeq(key, 1, Len(key) - 1) = Shorn(key)
<1> DEFINE n == Len(key)
<1>1. n \in Nat /\ n # 0
  BY EmptySeq
<1>2. SubSeq(key, 1, n - 1) = [i \in 1 .. n - 1 |-> key[i]]
  BY <1>1
<1> QED
  BY <1>2 DEF Shorn, Prefix

(* Keys with the same last byte are told apart by the rest. *)
LEMMA ShornDistinct ==
  ASSUME NEW k \in Seq(Byte), NEW l \in Seq(Byte), k # <<>>, l # <<>>,
         k[Len(k)] = l[Len(l)], Shorn(k) = Shorn(l)
  PROVE  k = l
<1> DEFINE m == Len(k)
           n == Len(l)
<1>1. m \in Nat /\ m # 0 /\ n \in Nat /\ n # 0
  BY EmptySeq
<1>2. [i \in 1 .. m - 1 |-> k[i]] = [i \in 1 .. n - 1 |-> l[i]]
  BY DEF Shorn, Prefix
<1>3. k = [i \in 1 .. m |-> k[i]] /\ l = [i \in 1 .. n |-> l[i]] /\ k[m] = l[n]
  OBVIOUS
<1> HIDE DEF m, n
<1>4. 1 .. m - 1 = 1 .. n - 1
  BY <1>2
<1>5. m = n
  <2>1. m - 1 \in 1 .. m - 1 \/ m = 1
    BY <1>1
  <2>2. n - 1 \in 1 .. n - 1 \/ n = 1
    BY <1>1
  <2> QED
    BY <1>1, <1>4, <2>1, <2>2
<1>6. ASSUME NEW i \in 1 .. m PROVE k[i] = l[i]
  <2>1. CASE i = m
    BY <1>3, <1>5, <2>1
  <2>2. CASE i # m
    <3>1. i \in 1 .. m - 1 /\ i \in 1 .. n - 1
      BY <1>1, <1>5, <2>2
    <3>2. [j \in 1 .. m - 1 |-> k[j]][i] = [j \in 1 .. n - 1 |-> l[j]][i]
      BY <1>2
    <3> QED
      BY <3>1, <3>2
  <2> QED
    BY <2>1, <2>2
<1> QED
  BY <1>3, <1>5, <1>6

=============================================================================
