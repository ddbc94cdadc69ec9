------------------------------- MODULE MCNuGet -------------------------------
(***************************************************************************)
(* Instances of NuGetCache and of NuGetGraph; a behaviour is one of either *)
(* (what a fetch returns is all the graph sees of the cache).              *)
(*                                                                         *)
(* The cache: two processes restore the same package, and one of them      *)
(* another one as well.                                                    *)
(* The graph: feeds of three packages in two versions each, with           *)
(* conflicting versions, diamonds and cycles; A@1 may spell the id of B in *)
(* lower case and C@2 is a meta-package, without an assembly.              *)
(***************************************************************************)
EXTENDS NuGetCache, NuGetGraph

CONSTANTS p1, p2, k1, k2

SomeUses == (p1 :> {k1}) @@ (p2 :> {k1, k2})

Dep(id, v) == [id |-> id, version |-> v]
Pkg(id, asset, deps) == [id |-> id, asset |-> asset, deps |-> deps]

AbbC == <<"A", "B", "C", "b">>
AbbCKey == [id \in {"A", "B", "C", "b"} |-> IF id = "b" THEN "B" ELSE id]

\* At most one dependency, on one of the ids in ids.
AtMostOne(ids) == {<<>>} \cup {<<Dep(id, v)>> : id \in ids, v \in {1, 2}}
Both(x, y) == {<<Dep(x, v), Dep(y, w)>> : v, w \in {1, 2}}

SomeFeeds ==
    {[k \in {"A", "B", "C"} |->
        CASE k = "A" -> <<Pkg("A", TRUE, a1), Pkg("A", TRUE, <<>>)>>
          [] k = "B" -> <<Pkg("B", TRUE, b1), Pkg("B", TRUE, b2)>>
          [] k = "C" -> <<Pkg("C", TRUE, c1), Pkg("C", FALSE, c2)>>] :
      a1 \in Both("B", "C") \cup Both("C", "B") \cup {<<Dep("b", 1)>>},
      b1 \in AtMostOne({"C"}), b2 \in AtMostOne({"A", "C"}), c1 \in AtMostOne({"A", "B"}),
      c2 \in {<<>>, <<Dep("B", 1)>>}}

AOrB == {Dep("A", 1), Dep("B", 2)}

VARIABLE part

Inits ==
    /\ Init /\ GraphInit
    /\ part = "graph" \/ (part = "cache" /\ feed = CHOOSE f \in SomeFeeds : TRUE)

Cache == part = "cache" /\ Next /\ UNCHANGED <<part, graph>>
Works == part = "graph" /\ Work /\ UNCHANGED <<part, vars>>
Graph == part = "graph" /\ GraphNext /\ UNCHANGED <<part, vars>>

Parts == Inits /\ [][Cache \/ Graph]_<<part, vars, graph>> /\ WF_graph(Works)
=============================================================================
