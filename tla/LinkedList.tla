----------------------------- MODULE LinkedList -----------------------------
(***************************************************************************)
(* System.Collections.Generic.LinkedList`1 (bcl/system_linkedlist.go): a   *)
(* chain of nodes, to which programs hold references.  A node names the    *)
(* list it was added to; Remove(node) trusts that name and the node's own  *)
(* links.  Look-ups (Contains, First, Last, Next, Previous) change nothing. *)
(***************************************************************************)
EXTENDS Integers, Sequences, FiniteSets

CONSTANTS Lists,
          Nodes,      \* bound: as many nodes are ever added
          Data,
          KeepsNodes, \* whether a node is removed after its list was cleared
          Nil, NoData

VARIABLES head, tail, count, \* nativeLinkedList
          value, list, prev, next \* linkedListNode

links == <<head, tail, count, list, prev, next>>
vars == <<links, value>>

Init ==
    /\ head = [l \in Lists |-> Nil] /\ tail = [l \in Lists |-> Nil]
    /\ count = [l \in Lists |-> 0]
    /\ value = [n \in Nodes |-> NoData]
    /\ list = [n \in Nodes |-> Nil]
    /\ prev = [n \in Nodes |-> Nil] /\ next = [n \in Nodes |-> Nil]

\* What an enumerator of l goes through, and the nodes met from its tail.
Walk(first, link) ==
    LET at[k \in 1..(Cardinality(Nodes) + 1)] ==
            IF k = 1 THEN first ELSE IF at[k - 1] = Nil THEN Nil ELSE link[at[k - 1]]
    IN [k \in {i \in DOMAIN at : at[i] # Nil} |-> at[k]]
Items(l) == Walk(head[l], next)
ItemsBack(l) == Walk(tail[l], prev)

NewNodeUncounted(l, n, v) ==
    /\ value[n] = NoData
    /\ value' = [value EXCEPT ![n] = v] /\ list' = [list EXCEPT ![n] = l]
    /\ UNCHANGED count
NewNode(l, n, v) ==
    /\ value[n] = NoData
    /\ value' = [value EXCEPT ![n] = v] /\ list' = [list EXCEPT ![n] = l]
    /\ count' = [count EXCEPT ![l] = @ + 1]

AddLast(l, n, v) ==
    /\ NewNode(l, n, v)
    /\ prev' = [prev EXCEPT ![n] = tail[l]]
    /\ next' = [m \in Nodes |-> IF m = tail[l] THEN n ELSE next[m]]
    /\ head' = IF tail[l] = Nil THEN [head EXCEPT ![l] = n] ELSE head
    /\ tail' = [tail EXCEPT ![l] = n]

AddFirst(l, n, v) ==
    /\ NewNode(l, n, v)
    /\ next' = [next EXCEPT ![n] = head[l]]
    /\ prev' = [m \in Nodes |-> IF m = head[l] THEN n ELSE prev[m]]
    /\ tail' = IF head[l] = Nil THEN [tail EXCEPT ![l] = n] ELSE tail
    /\ head' = [head EXCEPT ![l] = n]

UnlinkOneWay(l, n) ==
    /\ next' = [m \in Nodes |-> IF m = n THEN Nil ELSE IF m = prev[n] THEN next[n] ELSE next[m]]
    /\ prev' = [prev EXCEPT ![n] = Nil]
    /\ head' = IF prev[n] = Nil THEN [head EXCEPT ![l] = next[n]] ELSE head
    /\ tail' = IF next[n] = Nil THEN [tail EXCEPT ![l] = prev[n]] ELSE tail
    /\ list' = [list EXCEPT ![n] = Nil] /\ count' = [count EXCEPT ![l] = @ - 1]
    /\ UNCHANGED value
UnlinkInside(l, n) ==
    /\ next' = [m \in Nodes |-> IF m = n THEN Nil ELSE IF m = prev[n] THEN next[n] ELSE next[m]]
    /\ prev' = [m \in Nodes |-> IF m = n THEN Nil ELSE IF m = next[n] THEN prev[n] ELSE prev[m]]
    /\ head' = IF prev[n] = Nil THEN [head EXCEPT ![l] = next[n]] ELSE head
    /\ list' = [list EXCEPT ![n] = Nil] /\ count' = [count EXCEPT ![l] = @ - 1]
    /\ UNCHANGED <<value, tail>>
Unlink(l, n) ==
    /\ next' = [m \in Nodes |-> IF m = n THEN Nil ELSE IF m = prev[n] THEN next[n] ELSE next[m]]
    /\ prev' = [m \in Nodes |-> IF m = n THEN Nil ELSE IF m = next[n] THEN prev[n] ELSE prev[m]]
    /\ head' = IF prev[n] = Nil THEN [head EXCEPT ![l] = next[n]] ELSE head
    /\ tail' = IF next[n] = Nil THEN [tail EXCEPT ![l] = prev[n]] ELSE tail
    /\ list' = [list EXCEPT ![n] = Nil] /\ count' = [count EXCEPT ![l] = @ - 1]
    /\ UNCHANGED value

\* A node of another list, or of none, is looked for as a value: without effect.
RemoveNode(l, n) ==
    /\ list[n] = l
    /\ KeepsNodes \/ \E i \in DOMAIN Items(l) : Items(l)[i] = n
    /\ Unlink(l, n)

RemoveValue(l, v) ==
    \E i \in DOMAIN Items(l) :
        /\ value[Items(l)[i]] = v
        /\ \A j \in 1..(i - 1) : value[Items(l)[j]] # v
        /\ Unlink(l, Items(l)[i])

RemoveFirst(l) == head[l] # Nil /\ Unlink(l, head[l])
RemoveLast(l) == tail[l] # Nil /\ Unlink(l, tail[l])

ClearEnds(l) ==
    /\ head' = [head EXCEPT ![l] = Nil] /\ tail' = [tail EXCEPT ![l] = Nil]
    /\ UNCHANGED <<count, value, list, prev, next>>
Clear(l) ==
    /\ head' = [head EXCEPT ![l] = Nil] /\ tail' = [tail EXCEPT ![l] = Nil]
    /\ count' = [count EXCEPT ![l] = 0]
    /\ UNCHANGED <<value, list, prev, next>>

Next ==
    \E l \in Lists :
        \/ \E n \in Nodes, v \in Data : AddLast(l, n, v) \/ AddFirst(l, n, v)
        \/ \E n \in Nodes : RemoveNode(l, n)
        \/ \E v \in Data : RemoveValue(l, v)
        \/ RemoveFirst(l) \/ RemoveLast(l) \/ Clear(l)

Spec == Init /\ [][Next]_vars

-----------------------------------------------------------------------------

\* Nodes and lists refer to each other or to nothing, and no count is negative.
TypeOK ==
    /\ head \in [Lists -> Nodes \union {Nil}] /\ tail \in [Lists -> Nodes \union {Nil}]
    /\ count \in [Lists -> Nat]
    /\ value \in [Nodes -> Data \union {NoData}] /\ list \in [Nodes -> Lists \union {Nil}]
    /\ prev \in [Nodes -> Nodes \union {Nil}] /\ next \in [Nodes -> Nodes \union {Nil}]

\* The chain is the same from both ends, and as long as count says: nodes
\* linked one way only would be enumerated and not found, or found and lost.
WalksAgree ==
    \A l \in Lists :
        /\ Len(Items(l)) = Len(ItemsBack(l))
        /\ \A i \in DOMAIN Items(l) : Items(l)[i] = ItemsBack(l)[Len(Items(l)) - i + 1]

\* Count is the number of nodes an enumeration meets, and each is of this list.
CountIsLength ==
    \A l \in Lists :
        /\ count[l] = Len(Items(l))
        /\ \A i \in DOMAIN Items(l) : list[Items(l)[i]] = l

\* A list is well formed: one chain, seen from either end, of its own nodes, as many
\* as it counts.
ListInv ==
    /\ TypeOK
    /\ WalksAgree
    /\ CountIsLength

\* While no node of a cleared list is removed, the chains are the sequences of
\* nodes that the class promises.
Promise == INSTANCE NodeLists WITH nodes <- [l \in Lists |-> Items(l)], data <- value
ImplementsLists == Promise!Spec
=============================================================================
