---------------------------- MODULE MCFsesSystem ----------------------------
(***************************************************************************)
(* Small instances of FsesSystem: sizes of two digits, keys and values of  *)
(* one or two characters.                                                  *)
(***************************************************************************)
EXTENDS FsesSystem, TLC

CallAdd(key, val) == [op |-> "add", key |-> key, val |-> val]
CallGet(key) == [op |-> "get", key |-> key, val |-> <<>>]

AddAndGet == {CallAdd(<<"k">>, <<"v", "w">>), CallGet(<<"k">>)}
OneAccent == {CallAdd(<<"k">>, <<"e'">>)}
TwoAdds == {CallAdd(<<"k">>, <<"v">>), CallAdd(<<"k">>, <<"w">>)}

Ascii == [x \in {"k", "v", "w"} |-> <<x>>]

(* A character of two bytes, for one of the others. *)
Accents == [x \in {"k", "e'"} |-> IF x = "k" THEN <<x>> ELSE <<"c3", "a9">>]

(* The instances with characters of one byte are those of the theorems. *)
ASSUME WholeAssumption == Utf8 = Ascii => WholeRequests

CallerSymmetry == Permutations(Callers)

=============================================================================
