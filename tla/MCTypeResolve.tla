---------------------------- MODULE MCTypeResolve ----------------------------
(***************************************************************************)
(* An instance of TypeResolve.  The host loads the glue assembly G from    *)
(* bytes and attaches the package P to it.  P depends on the packages E,   *)
(* which declares nothing that is asked for, and Q, and the package R on   *)
(* P.  Class A of G has a field of the native struct S and extends B of P, *)
(* which has a field of the struct V, declared in Q and, by another        *)
(* author, in R; V has a static field of its own type.                     *)
(***************************************************************************)
EXTENDS TypeResolve

Loaded == {"G", "P", "Q", "R", "E"}
EPQR == {"E", "P", "Q", "R"}
NameSet == {"A", "B", "V", "S"}
Natives == {"S"}
OwnTypes == [a \in Loaded |-> CASE a = "G" -> {"A"} [] a = "P" -> {"B"}
                                [] a = "E" -> {} [] OTHER -> {"V"}]
AExtendsB == [n \in NameSet |-> IF n = "A" THEN "B" ELSE None]
Fields == [n \in NameSet |-> CASE n \in {"B", "V"} -> "V" [] n = "A" -> "S" [] OTHER -> None]
BImplements == {"B"}
RPEQ == [a \in EPQR |-> CASE a = "R" -> <<"P">> [] a = "P" -> <<"E", "Q">> [] OTHER -> <<>>]
GUsesP == {<<"G", "P">>}
SomeCalls == {<<"type", "G", "A">>, <<"type", "P", "A">>, <<"type", "Q", "S">>,
              <<"impl", "G", "A">>}
NothingAttachable == {}
\* P and Q depend on each other, and P asks for a type of neither.
PQCycle == [a \in EPQR |-> CASE a = "P" -> <<"Q">> [] a = "Q" -> <<"P">> [] OTHER -> <<>>]
ForAOfP == {<<"type", "P", "A">>}
TwoProcs == {"p", "q"}
=============================================================================
