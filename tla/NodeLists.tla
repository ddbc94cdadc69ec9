----------------------------- MODULE NodeLists -----------------------------
(***************************************************************************)
(* What LinkedList`1 promises: each list is a sequence of nodes, a node is *)
(* in at most one of them, and removing a node, a value or an end takes    *)
(* that node alone out of its place.                                       *)
(***************************************************************************)
EXTENDS SequencesExt

CONSTANTS Lists, Nodes, Data, NoData

VARIABLES nodes, \* per list, its nodes in order
          data   \* per node, what it holds, NoData until it is added

Init == nodes = [l \in Lists |-> <<>>] /\ data = [n \in Nodes |-> NoData]

Add(l, n, v) ==
    /\ data[n] = NoData
    /\ data' = [data EXCEPT ![n] = v]
    /\ \/ nodes' = [nodes EXCEPT ![l] = Append(@, n)]
       \/ nodes' = [nodes EXCEPT ![l] = <<n>> \o @]

TakeOut(l, i) == nodes' = [nodes EXCEPT ![l] = RemoveAt(@, i)] /\ UNCHANGED data

RemoveNode(l, n) == \E i \in DOMAIN nodes[l] : nodes[l][i] = n /\ TakeOut(l, i)

RemoveEnd(l) ==
    /\ nodes[l] # <<>>
    /\ TakeOut(l, 1) \/ TakeOut(l, Len(nodes[l]))

RemoveValue(l, v) ==
    \E i \in DOMAIN nodes[l] :
        /\ data[nodes[l][i]] = v /\ \A j \in 1..(i - 1) : data[nodes[l][j]] # v
        /\ TakeOut(l, i)

Clear(l) == nodes' = [nodes EXCEPT ![l] = <<>>] /\ UNCHANGED data

Next ==
    \E l \in Lists :
        \/ \E n \in Nodes, v \in Data : Add(l, n, v)
        \/ \E n \in Nodes : RemoveNode(l, n)
        \/ RemoveEnd(l) \/ Clear(l)
        \/ \E v \in Data : RemoveValue(l, v)

Spec == Init /\ [][Next]_<<nodes, data>>
=============================================================================
