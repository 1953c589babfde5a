------------------------------ MODULE FsesNet ------------------------------
(***************************************************************************)
(* What lies between fses.py and the tokio server: the wire format, and    *)
(* the connections with the bytes under way on them.                       *)
(*                                                                         *)
(*   add  a<len key><len val><key><val>        get  g<len key><key>        *)
(*                                                                         *)
(* The sizes are decimal, zero-filled to SizeLen digits, and count         *)
(* characters; keys and values are sent in UTF-8.                          *)
(***************************************************************************)
EXTENDS MapOps, Integers, Sequences, FiniteSets

Seqs == INSTANCE SequencesExt

CONSTANTS
  Conns,       \* the connections of the pool
  SizeLen,     \* digits of a size, 8 in the code
  Utf8,        \* the bytes of each character
  Cuts         \* how long a first segment may be

DigitBytes == <<"0", "1", "2", "3", "4", "5", "6", "7", "8", "9">>
Byte == {DigitBytes[i] : i \in 1 .. 10} \cup {"a", "g", "r", "d"}
          \cup UNION {{Utf8[c][i] : i \in DOMAIN Utf8[c]} : c \in DOMAIN Utf8}

ASSUME NetAssumption == SizeLen \in Nat \ {0}

(* The powers of ten: the provers know nothing of exponents. *)
ASSUME TensAssumption ==
  /\ 10 ^ 0 = 1
  /\ \A i \in 0 .. SizeLen - 1 : 10 ^ i \in Nat \ {0} /\ 10 ^ (i + 1) = 10 * 10 ^ i

VARIABLES
  link,        \* "none", "backlog", "accepted" or "closed" by the server
  sent,        \* bytes on their way to the server
  arrived,     \* bytes in the server's socket
  reply,       \* bytes of the server the client has not read
  down,        \* what closed the connection for the client: FIN, RST
  up           \* the connections the client has closed

netVars == <<link, sent, arrived, reply, down, up>>

Zfill(n) ==
  [i \in 1 .. SizeLen |-> DigitBytes[((n \div 10 ^ (SizeLen - i)) % 10) + 1]]

Digit(byte) == (CHOOSE d \in 1 .. 10 : DigitBytes[d] = byte) - 1

Parse(field) ==
  LET value[i \in 0 .. Len(field)] ==
        IF i = 0 THEN 0 ELSE 10 * value[i - 1] + Digit(field[i])
  IN  value[Len(field)]

Encode(s) == Seqs!FlattenSeq([i \in DOMAIN s |-> Utf8[s[i]]])

Request(call) ==
  IF call.op = "add"
  THEN <<"a">> \o Zfill(Len(call.key)) \o Zfill(Len(call.val))
         \o Encode(call.key) \o Encode(call.val)
  ELSE <<"g">> \o Zfill(Len(call.key)) \o Encode(call.key)

NetInit ==
  /\ link = [c \in Conns |-> "none"]
  /\ sent = [c \in Conns |-> <<>>]
  /\ arrived = [c \in Conns |-> <<>>]
  /\ reply = [c \in Conns |-> <<>>]
  /\ down = [c \in Conns |-> {}]
  /\ up = {}

(* The first bytes under way arrive, all of them or up to a cut.  A socket *)
(* that the server has closed answers with a RST.                          *)
Arrive(c) ==
  /\ sent[c] # <<>>
  /\ \E n \in (Cuts \cap 1 .. Len(sent[c])) \cup {Len(sent[c])} :
       /\ sent' = [sent EXCEPT ![c] = SubSeq(@, n + 1, Len(@))]
       /\ IF link[c] = "closed"
          THEN /\ down' = [down EXCEPT ![c] = @ \cup {"rst"}]
               /\ UNCHANGED arrived
          ELSE /\ arrived' = [arrived EXCEPT ![c] = @ \o SubSeq(sent[c], 1, n)]
               /\ UNCHANGED down
  /\ UNCHANGED <<link, reply, up>>

NetTypeOK ==
  /\ link \in [Conns -> {"none", "backlog", "accepted", "closed"}]
  /\ sent \in [Conns -> Seq(Byte)]
  /\ arrived \in [Conns -> Seq(Byte)]
  /\ reply \in [Conns -> Seq({"o", "e"})]
  /\ down \in [Conns -> SUBSET {"fin", "rst"}]
  /\ up \subseteq Conns

=============================================================================
