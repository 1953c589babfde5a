----------------------------- MODULE WireFormat -----------------------------
(***************************************************************************)
(* The wire format spoken by client.py and old_main.cpp: how the client    *)
(* composes a request, how read() lays it over the server's one receive    *)
(* array, and how the event loop takes it apart again.                     *)
(*                                                                         *)
(*   insert  i<len key>|<len val>|<key><val>        (or s instead of i)    *)
(*   get     g<len key>|<key>                                              *)
(*   remove  d<len key>|<key>                                              *)
(*                                                                         *)
(* A byte is a one-character string.  Positions in the array are counted   *)
(* from 1, so that buf[1] is arr_buff[0].                                  *)
(***************************************************************************)
EXTENDS Naturals, Sequences, FiniteSetsExt

CONSTANTS
  Byte,        \* the bytes that occur on the wire, no blanks or signs
  BufLen,      \* length of arr_buff (68512 in the code)
  SepWindow    \* how far a '|' is searched for (130 in the code)

DigitBytes == <<"0", "1", "2", "3", "4", "5", "6", "7", "8", "9">>
Sep == "|"

ASSUME WireAssumption ==
  /\ SepWindow \in Nat \ {0}
  /\ BufLen \in Nat
  /\ BufLen >= 2 * SepWindow + 1
  /\ {Sep, "i", "s", "g", "d"} \subseteq Byte
  /\ \A i \in 1..10 : DigitBytes[i] \in Byte

Buffer == [1..BufLen -> Byte]

IsDigit(b) == \E i \in 1..10 : DigitBytes[i] = b

DigitValue(b) == (CHOOSE i \in 1..10 : DigitBytes[i] = b) - 1

-----------------------------------------------------------------------------
(* The client's side.                                                      *)

(* itb(i): the decimal digits of a length. *)
Itb[n \in Nat] ==
  IF n < 10 THEN <<DigitBytes[n + 1]>>
  ELSE Itb[n \div 10] \o <<DigitBytes[(n % 10) + 1]>>

ComposeAdd(mode, key, val) ==
  <<mode>> \o Itb[Len(key)] \o <<Sep>> \o Itb[Len(val)] \o <<Sep>> \o key \o val

ComposeGet(key) == <<"g">> \o Itb[Len(key)] \o <<Sep>> \o key

ComposeRm(key) == <<"d">> \o Itb[Len(key)] \o <<Sep>> \o key

-----------------------------------------------------------------------------
(* The server's side.                                                      *)

(* read() stores the bytes it got at the front of the array and leaves the *)
(* rest as earlier reads left it.                                          *)
Overlay(buf, bytes) ==
  [i \in 1..BufLen |-> IF i <= Len(bytes) THEN bytes[i] ELSE buf[i]]

(* Variant: the last separator instead of the first. *)
FindLastSep(buf, first, last) ==
  LET hits == {p \in first..(last - 1) : buf[p] = Sep}
  IN  IF hits = {} THEN last ELSE Max(hits)

(* std::find over [first, last): the first separator, or last.             *)
FindSep(buf, first, last) ==
  LET hits == {p \in first..(last - 1) : buf[p] = Sep}
  IN  IF hits = {} THEN last ELSE Min(hits)

(* std::stoi of the bytes in [first, last): it reads the leading digits    *)
(* and throws when there is none.                                          *)
DigitsEnd(buf, first, last) ==
  LET stops == {p \in first..(last - 1) : ~IsDigit(buf[p])}
  IN  IF stops = {} THEN last ELSE Min(stops)

Throws(buf, first, last) == DigitsEnd(buf, first, last) <= first

Stoi(buf, first, last) ==
  LET value[p \in (first - 1)..(last - 1)] ==
        IF p < first THEN 0 ELSE 10 * value[p - 1] + DigitValue(buf[p])
  IN  value[DigitsEnd(buf, first, last) - 1]

(* Variant: one more byte lost. *)
ShortSlice(buf, first, last) == [i \in 1..(last - first - 1) |-> buf[first + i - 1]]

Slice(buf, first, last) == [i \in 1..(last - first) |-> buf[first + i - 1]]

(* What the handler does with the array: the request it believes to have   *)
(* received.  "throw" stands for an exception nobody catches: std::stoi    *)
(* without a digit, or a key size of 0 (a std::string over a range that    *)
(* ends before it begins).  "overrun" is a size that runs past the array,  *)
(* which is undefined.                                                     *)
Request(mode, key, val) == [mode |-> mode, key |-> key, val |-> val]
Thrown == Request("throw", <<>>, <<>>)
Overrun == Request("overrun", <<>>, <<>>)

(* Variant: the value is taken to start where the server's key ends. *)
DecodeInsertJoined(buf) ==
  LET sepOne == FindSep(buf, 1, 1 + SepWindow)
      sepTwo == FindSep(buf, sepOne + 1, sepOne + SepWindow)
      keySize == Stoi(buf, 2, sepOne)
      valSize == Stoi(buf, sepOne + 1, sepTwo)
  IN  IF Throws(buf, 2, sepOne) \/ Throws(buf, sepOne + 1, sepTwo) \/ keySize = 0
      THEN Thrown
      ELSE Request(buf[1],
                   Slice(buf, sepTwo + 1, sepTwo + keySize),
                   Slice(buf, sepTwo + keySize, sepTwo + keySize + valSize))

DecodeInsert(buf) ==
  LET sepOne == FindSep(buf, 1, 1 + SepWindow)
      sepTwo == FindSep(buf, sepOne + 1, sepOne + SepWindow)
      keySize == Stoi(buf, 2, sepOne)
      valSize == Stoi(buf, sepOne + 1, sepTwo)
  IN  IF Throws(buf, 2, sepOne) \/ Throws(buf, sepOne + 1, sepTwo) \/ keySize = 0
      THEN Thrown
      ELSE IF sepTwo + keySize + valSize > BufLen THEN Overrun
      ELSE Request(buf[1],
                   Slice(buf, sepTwo + 1, sepTwo + keySize),
                   Slice(buf, sepTwo + keySize + 1, sepTwo + keySize + valSize + 1))

DecodeLookup(buf) ==
  LET sepOne == FindSep(buf, 1, 1 + SepWindow)
      keySize == Stoi(buf, 2, sepOne)
  IN  IF Throws(buf, 2, sepOne) \/ keySize = 0 THEN Thrown
      ELSE IF sepOne + keySize > BufLen + 1 THEN Overrun
      ELSE Request(buf[1], Slice(buf, sepOne + 1, sepOne + keySize), <<>>)

Decode(buf) ==
  CASE buf[1] \in {"i", "s"} -> DecodeInsert(buf)
    [] buf[1] \in {"g", "d"} -> DecodeLookup(buf)
    [] OTHER -> Request(buf[1], <<>>, <<>>)

=============================================================================
