------------------------- MODULE CollectionContract -------------------------
(***************************************************************************)
(* What a program is promised of a collection, however it is stored: a     *)
(* list, a queue and a stack are sequences, a set is a set, a dictionary a *)
(* function.  An operation that fails leaves it as it was.                 *)
(***************************************************************************)
EXTENDS Integers, Sequences, FiniteSets

CONSTANTS Keys, Data

VARIABLES family, content, call

cvars == <<family, content, call>>

Elements == IF family = "map" THEN DOMAIN content ELSE content
Failures == {"plain", "ArgumentOutOfRange", "ArgumentException", "InvalidOperation"}

CInit ==
    /\ content = IF family = "set" THEN {} ELSE <<>>
    /\ call.op = "none"

Did(op, arg, out) ==
    call'.op = op /\ call'.arg = arg /\ call'.out = out
Fails(ops) == call'.op \in ops /\ call'.out \in Failures /\ content' = content

ListOp ==
    LET n == Len(content) IN
    \/ \E x \in Keys : Did("Add", <<x>>, "done") /\ content' = content \o <<x>>
    \/ Did("AddSelf", <<>>, "done") /\ content' = content \o content
    \/ \E i \in 1..n, x \in Keys :
         Did("SetItem", <<i, x>>, "done") /\ content' = [content EXCEPT ![i] = x]
    \/ \E i \in 1..(n + 1), x \in Keys :
         /\ Did("Insert", <<i, x>>, "done") /\ Len(content') = n + 1 /\ content'[i] = x
         /\ \A j \in 1..n : content[j] = content'[IF j < i THEN j ELSE j + 1]
    \/ \E i \in 1..n :
         /\ \/ Did("RemoveAt", <<i>>, "done")
            \/ /\ Did("Remove", <<content[i]>>, "true")
               /\ \A j \in 1..(i - 1) : content[j] # content[i]
         /\ Len(content') = n - 1
         /\ \A j \in 1..(n - 1) : content'[j] = content[IF j < i THEN j ELSE j + 1]
    \/ \E x \in Keys : /\ \A i \in 1..n : content[i] # x
                       /\ Did("Remove", <<x>>, "false") /\ content' = content
    \/ Did("Reverse", <<>>, "done") /\ Len(content') = n
       /\ \A i \in 1..n : content'[i] = content[n + 1 - i]
    \/ Fails({"SetItem", "Insert", "RemoveAt"}) /\ call'.arg[1] \notin 1..n

SetOp ==
    \E x \in Keys :
        \/ x \notin content /\ Did("Add", <<x>>, "true") /\ content' = content \union {x}
        \/ x \in content /\ Did("Add", <<x>>, "false") /\ content' = content
        \/ x \in content /\ Did("Remove", <<x>>, "true") /\ content' = content \ {x}
        \/ x \notin content /\ Did("Remove", <<x>>, "false") /\ content' = content

\* Add refuses a key that is there; a key that cannot be compared may fail anywhere.
Written(k, v) == [j \in DOMAIN content \union {k} |-> IF j = k THEN v ELSE content[j]]
MapOp ==
    \/ \E k \in Keys, v \in Data :
         \/ k \notin DOMAIN content /\ Did("Add", <<k, v>>, "done") /\ content' = Written(k, v)
         \/ Did("SetItem", <<k, v>>, "done") /\ content' = Written(k, v)
    \/ \E k \in Keys :
         /\ Did("Remove", <<k>>, IF k \in DOMAIN content THEN "true" ELSE "false")
         /\ content' = [j \in DOMAIN content \ {k} |-> content[j]]
    \/ Fails({"Add"}) /\ (call'.arg[1] \in DOMAIN content \/ Cardinality(DOMAIN content) = 1)
    \/ Fails({"SetItem", "Remove"}) /\ Cardinality(DOMAIN content) = 1

\* The earliest of a queue, the latest of a stack.
EndsOp ==
    \/ \E x \in Keys : Did("Add", <<x>>, "done") /\ content' = content \o <<x>>
    \/ family = "queue" /\ call'.op = "Take" /\ call'.out = "true"
       /\ content = call'.arg \o content' /\ Len(call'.arg) = 1
    \/ family = "stack" /\ call'.op = "Take" /\ call'.out = "true"
       /\ content = content' \o call'.arg /\ Len(call'.arg) = 1
    \/ /\ content = <<>> /\ content' = content
       /\ call'.op = "Take" /\ call'.out \in {"false", "InvalidOperation"}

CNext ==
    /\ family' = family
    /\ \/ family = "list" /\ ListOp
       \/ family = "set" /\ SetOp
       \/ family = "map" /\ MapOp
       \/ family \in {"queue", "stack"} /\ EndsOp
       \/ Did("Clear", <<>>, "done") /\ content' = (IF family = "set" THEN {} ELSE <<>>)
       \/ call'.op \in {"GetEnumerator", "MoveNext", "GetCurrent"} /\ content' = content

Spec == CInit /\ [][CNext]_cvars
=============================================================================
