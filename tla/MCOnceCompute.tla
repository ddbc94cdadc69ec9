--------------------------- MODULE MCOnceCompute ---------------------------
(***************************************************************************)
(* An instance of OnceCompute: a Lazy<T> l whose factory reads entry a of  *)
(* the dictionary d, whose factory in turn reads the ThreadLocal<T> t,     *)
(* whose factory may throw; b is another entry of d and n a Lazy<T>        *)
(* without a factory.  In Reentrant the factory of a comes back to d.      *)
(***************************************************************************)
EXTENDS OnceCompute

TwoProcs == {"p", "q"}
Containers == {"l", "t", "d", "n"}
KindOf == [c \in Containers |-> CASE c = "t" -> "box" [] c = "d" -> "dict" [] OTHER -> "lazy"]
Cells == {"l", "t", "n", "a", "b"}
InOf == [s \in Cells |-> IF s \in {"a", "b"} THEN "d" ELSE s]
Op(do, s) == [do |-> do, slot |-> s]
Chain == [s \in Cells |-> CASE s = "l" -> <<Op("compute", "a"), Op("compute", "n")>>
                            [] s = "a" -> <<Op("compute", "t")>>
                            [] OTHER -> <<>>]
Reentrant == [s \in Cells |-> IF s = "a" THEN <<Op("compute", "b")>> ELSE <<>>]
Used == {Op("compute", s) : s \in Cells}
        \union {Op("set", "t"), Op("orAdd", "b"), Op("item", "b"), Op("tryRemove", "b"), Op("clear", "b")}
NoDelegate == {"n"}
Throws == {"t"}
=============================================================================
