----------------------------- MODULE Collections -----------------------------
(***************************************************************************)
(* One collection of the class library (bcl/system_collections.go,         *)
(* system_hashset.go, system_sortedlist.go, system_queue.go, ...): List,   *)
(* ArrayList and Collection share the functions of a list, Dictionary,     *)
(* SortedDictionary and Hashtable those of a dictionary; the other kinds   *)
(* have their own.  One enumerator over it is open at a time; between its  *)
(* steps the program may change the collection, which the code, unlike     *)
(* .NET, does not forbid.                                                  *)
(*                                                                         *)
(* "plain" is a Go error that no handler of the program sees; a name in    *)
(* call is the exception the program may catch.                            *)
(***************************************************************************)
EXTENDS Integers, Sequences, FiniteSets, SequencesExt

CONSTANTS Keys,     \* elements, and keys of dictionaries
          Data,     \* values of dictionaries
          MaxItems  \* bound on what is put into a collection

VARIABLES kind,
          ordered, \* whether the keys are of a kind the comparison orders
          items,   \* nativeList.items, nativeDict.order, nativeSortedList.keys
          vals,    \* nativeDict.m, nativeSortedList.values
          en,      \* the enumerator struct
          seen,    \* history: what its get_Current returned
          intact,  \* history: the order has not changed since GetEnumerator
          call     \* history: the last operation and what it answered

coll == <<kind, ordered, items, vals>>
vars == <<coll, en, seen, intact, call>>

ListKinds == {"List", "Collection"}
DictKinds == {"Dictionary", "SortedDictionary", "Hashtable"}
SetKinds == {"HashSet", "SortedSet"}
Kinds == ListKinds \union DictKinds \union SetKinds
         \union {"SortedList", "Queue", "ConcurrentQueue", "Stack"}

NoEnumerator == [on |-> "none", ready |-> FALSE, snap |-> <<>>, index |-> 0]
NoCall == [op |-> "none", arg |-> <<>>, out |-> "done"]

Init ==
    /\ kind \in Kinds /\ ordered \in BOOLEAN
    /\ ordered \/ kind \in {"SortedSet", "SortedDictionary", "SortedList"}
    /\ items = <<>> /\ vals = <<>>
    /\ en = NoEnumerator /\ seen = <<>> /\ intact = TRUE /\ call = NoCall

Answer(op, arg, out) == call' = [op |-> op, arg |-> arg, out |-> out]

\* compareValuesNatural answers "equal" for every pair it has no order for.
Less(a, b) == ordered /\ a < b

Position(x) == SelectInSeq(items, LAMBDA y : y = x)
\* Mutant: a sorted kind appends.
InsertAtTheEnd(x) == Append(items, x)
InsertBeforeGreater(x) ==
    LET i == SelectInSeq(items, LAMBDA y : Less(x, y))
    IN IF i = 0 THEN Append(items, x) ELSE InsertAt(items, i, x)

Changes == intact' = FALSE /\ UNCHANGED <<kind, ordered, en, seen>>
Leaves == UNCHANGED <<coll, en, seen, intact>>
HasRoom == Len(items) < MaxItems

-----------------------------------------------------------------------------
\* Lists.  Add of a Collection is InsertItem at its count, Remove of a value
\* is RemoveItem at the first place that holds it.

ListAdd(x) ==
    /\ HasRoom /\ items' = Append(items, x) /\ UNCHANGED vals
    /\ Changes /\ Answer("Add", <<x>>, "done")

\* The source may be the list itself.
ListAddSelf ==
    /\ 2 * Len(items) <= MaxItems
    /\ items' = items \o items /\ UNCHANGED vals
    /\ Changes /\ Answer("AddSelf", <<>>, "done")

ListSetItem(i, x) ==
    IF i \in 1..Len(items)
    THEN /\ items' = [items EXCEPT ![i] = x] /\ UNCHANGED vals
         /\ Changes /\ Answer("SetItem", <<i, x>>, "done")
    ELSE Leaves /\ Answer("SetItem", <<i, x>>, "ArgumentOutOfRange")

ListInsert(i, x) ==
    IF i \in 1..(Len(items) + 1)
    THEN /\ HasRoom /\ items' = InsertAt(items, i, x) /\ UNCHANGED vals
         /\ Changes /\ Answer("Insert", <<i, x>>, "done")
    ELSE Leaves /\ Answer("Insert", <<i, x>>, "ArgumentOutOfRange")

ListRemoveAt(i) ==
    IF i \in 1..Len(items)
    THEN /\ items' = RemoveAt(items, i) /\ UNCHANGED vals
         /\ Changes /\ Answer("RemoveAt", <<i>>, "done")
    ELSE Leaves /\ Answer("RemoveAt", <<i>>, "ArgumentOutOfRange")

\* List.Remove and HashSet.Remove.
RemoveFirstEqual(x) ==
    IF Position(x) # 0
    THEN /\ items' = RemoveAt(items, Position(x)) /\ UNCHANGED vals
         /\ Changes /\ Answer("Remove", <<x>>, "true")
    ELSE Leaves /\ Answer("Remove", <<x>>, "false")

ListReverse ==
    /\ items' = [i \in DOMAIN items |-> items[Len(items) - i + 1]] /\ UNCHANGED vals
    /\ Changes /\ Answer("Reverse", <<>>, "done")

\* Mutant: the values stay.
ClearKeysOnly ==
    /\ items' = <<>> /\ UNCHANGED vals
    /\ Changes /\ Answer("Clear", <<>>, "done")
Clear ==
    /\ items' = <<>> /\ vals' = <<>>
    /\ Changes /\ Answer("Clear", <<>>, "done")

-----------------------------------------------------------------------------
\* Sets.

SetAdd(x) ==
    IF Position(x) # 0 THEN Leaves /\ Answer("Add", <<x>>, "false")
    ELSE /\ HasRoom /\ UNCHANGED vals
         /\ items' = IF kind = "SortedSet" THEN InsertBeforeGreater(x) ELSE Append(items, x)
         /\ Changes /\ Answer("Add", <<x>>, "true")

\* get_Min and get_Max trust the order of the elements.
SortedMin == items[1]
SortedMax == items[Len(items)]

-----------------------------------------------------------------------------
\* Dictionaries.

Put(k, v) ==
    /\ k \in DOMAIN vals \/ HasRoom
    /\ vals' = [j \in DOMAIN vals \union {k} |-> IF j = k THEN v ELSE vals[j]]
    /\ items' = IF k \in DOMAIN vals THEN items
                ELSE IF kind = "SortedDictionary" THEN InsertBeforeGreater(k)
                ELSE Append(items, k)
    /\ intact' = (intact /\ k \in DOMAIN vals)
    /\ UNCHANGED <<kind, ordered, en, seen>>

DictAdd(k, v) ==
    IF k \in DOMAIN vals THEN Leaves /\ Answer("Add", <<k, v>>, "plain")
    ELSE Put(k, v) /\ Answer("Add", <<k, v>>, "done")

DictSetItem(k, v) == Put(k, v) /\ Answer("SetItem", <<k, v>>, "done")

DictRemove(k) ==
    IF k \in DOMAIN vals
    THEN /\ vals' = [j \in DOMAIN vals \ {k} |-> vals[j]]
         /\ items' = RemoveAt(items, Position(k))
         /\ Changes /\ Answer("Remove", <<k>>, "true")
    ELSE Leaves /\ Answer("Remove", <<k>>, "false")

-----------------------------------------------------------------------------
\* SortedList: keys and values in two sequences, searched by bisection.  Keys
\* of a kind it cannot order fail when they are compared, not when they come.

Find(k) ==
    LET find[r \in (0..Len(items)) \X (0..Len(items))] ==
            LET lo == r[1] hi == r[2] mid == (lo + hi) \div 2
            IN IF lo >= hi THEN [at |-> lo + 1, found |-> FALSE]
               ELSE IF items[mid + 1] = k THEN [at |-> mid + 1, found |-> TRUE]
               ELSE IF items[mid + 1] < k THEN find[<<mid + 1, hi>>]
               ELSE find[<<lo, mid>>]
    IN find[<<0, Len(items)>>]
CannotCompare == ~ordered /\ items # <<>>

InsertEntry(at, k, v) ==
    /\ HasRoom
    /\ items' = InsertAt(items, at, k) /\ vals' = InsertAt(vals, at, v) /\ Changes

SortedListAdd(k, v) ==
    IF CannotCompare THEN Leaves /\ Answer("Add", <<k, v>>, "plain")
    ELSE IF Find(k).found THEN Leaves /\ Answer("Add", <<k, v>>, "ArgumentException")
    ELSE InsertEntry(Find(k).at, k, v) /\ Answer("Add", <<k, v>>, "done")

SortedListSetItem(k, v) ==
    IF CannotCompare THEN Leaves /\ Answer("SetItem", <<k, v>>, "plain")
    ELSE /\ IF Find(k).found
            THEN /\ vals' = [vals EXCEPT ![Find(k).at] = v]
                 /\ UNCHANGED <<kind, ordered, items, en, seen, intact>>
            ELSE InsertEntry(Find(k).at, k, v)
         /\ Answer("SetItem", <<k, v>>, "done")

SortedListRemove(k) ==
    IF CannotCompare THEN Leaves /\ Answer("Remove", <<k>>, "plain")
    ELSE IF Find(k).found
    THEN /\ items' = RemoveAt(items, Find(k).at) /\ vals' = RemoveAt(vals, Find(k).at)
         /\ Changes /\ Answer("Remove", <<k>>, "true")
    ELSE Leaves /\ Answer("Remove", <<k>>, "false")

-----------------------------------------------------------------------------
\* Queues take from the front, a stack from the end.  TryDequeue and TryPop
\* answer "false" where Dequeue and Pop raise; a ConcurrentQueue has the former.

Enqueue(x) ==
    /\ HasRoom /\ items' = Append(items, x) /\ UNCHANGED vals
    /\ Changes /\ Answer("Add", <<x>>, "done")
Push(x) == Enqueue(x)

QueueTake(tries) ==
    IF items = <<>>
    THEN Leaves /\ Answer("Take", <<>>, IF tries THEN "false" ELSE "InvalidOperation")
    ELSE /\ items' = Tail(items) /\ UNCHANGED vals
         /\ Changes /\ Answer("Take", <<Head(items)>>, "true")
ConcurrentQueueTryDequeue == QueueTake(TRUE)

StackTake(tries) ==
    IF items = <<>>
    THEN Leaves /\ Answer("Take", <<>>, IF tries THEN "false" ELSE "InvalidOperation")
    ELSE /\ items' = Front(items) /\ UNCHANGED vals
         /\ Changes /\ Answer("Take", <<Last(items)>>, "true")

-----------------------------------------------------------------------------
\* Enumerators.  That of a dictionary copies the keys, that of a ConcurrentQueue
\* the elements; the others hold the collection and an index into it.

Snapshots == DictKinds \union {"ConcurrentQueue"}

GetEnumerator ==
    /\ kind \notin {"SortedList", "Hashtable"}
    /\ en' = [on |-> IF kind \in Snapshots THEN "copy" ELSE "live", ready |-> FALSE,
              snap |-> IF kind \in Snapshots THEN items ELSE <<>>, index |-> 0]
    /\ seen' = <<>> /\ intact' = TRUE
    /\ UNCHANGED coll /\ Answer("GetEnumerator", <<>>, "done")

Enumerated == IF en.on = "copy" THEN en.snap ELSE items
\* The index goes on growing after the end: a list that grows later is met again.
\* The program is a foreach loop: it reads every element before it moves on.
MoveNext ==
    /\ en.on # "none" /\ ~en.ready /\ en.index <= MaxItems
    /\ en' = [en EXCEPT !.index = @ + 1, !.ready = en.index < Len(Enumerated)]
    /\ UNCHANGED <<coll, seen, intact>>
    /\ Answer("MoveNext", <<>>, IF en.index < Len(Enumerated) THEN "true" ELSE "false")

Current == IF kind = "Stack" THEN items[Len(items) - en.index + 1] ELSE Enumerated[en.index]
\* Read once after each MoveNext that answered true; the collection may have
\* changed in between.
GetCurrent ==
    /\ en.ready /\ en' = [en EXCEPT !.ready = FALSE]
    /\ IF en.index > Len(Enumerated) \/ (kind \in DictKinds /\ Current \notin DOMAIN vals)
       THEN UNCHANGED seen /\ Answer("GetCurrent", <<>>, "plain")
       ELSE seen' = Append(seen, Current) /\ Answer("GetCurrent", <<>>, "done")
    /\ UNCHANGED <<coll, intact>>

Next ==
    \/ /\ kind \in ListKinds
       /\ \/ \E x \in Keys : ListAdd(x) \/ RemoveFirstEqual(x)
          \/ \E i \in 0..MaxItems : ListRemoveAt(i)
          \/ \E i \in 0..MaxItems, x \in Keys : ListSetItem(i, x) \/ ListInsert(i, x)
          \/ kind = "List" /\ (ListAddSelf \/ ListReverse)
    \/ kind \in SetKinds /\ \E x \in Keys : SetAdd(x) \/ RemoveFirstEqual(x)
    \/ /\ kind \in DictKinds
       /\ \E k \in Keys : DictRemove(k) \/ \E v \in Data : DictAdd(k, v) \/ DictSetItem(k, v)
    \/ /\ kind = "SortedList"
       /\ \E k \in Keys : \/ SortedListRemove(k)
                          \/ \E v \in Data : SortedListAdd(k, v) \/ SortedListSetItem(k, v)
    \/ kind = "Queue" /\ (\E tries \in BOOLEAN : QueueTake(tries))
    \/ kind = "ConcurrentQueue" /\ ConcurrentQueueTryDequeue
    \/ kind \in {"Queue", "ConcurrentQueue"} /\ \E x \in Keys : Enqueue(x)
    \/ kind = "Stack" /\ ((\E x \in Keys : Push(x)) \/ \E tries \in BOOLEAN : StackTake(tries))
    \/ kind # "Queue" /\ Clear
    \/ GetEnumerator \/ MoveNext \/ GetCurrent

Spec == Init /\ [][Next]_vars

-----------------------------------------------------------------------------

\* What is kept is what the collection's own look-ups rely on: an element of a
\* set once, the keys of a dictionary once each and all of them, in order where
\* the kind is a sorted one; the two halves of a SortedList of one length.
CollectionsInv ==
    /\ items \in Seq(Keys) /\ Len(items) <= MaxItems
    /\ kind \in SetKinds \union DictKinds \union {"SortedList"} => IsInjective(items)
    /\ kind \in DictKinds => DOMAIN vals = Range(items)
    /\ kind = "SortedList" => Len(vals) = Len(items) /\ (~ordered => Len(items) <= 1)
    /\ ordered /\ kind \in {"SortedSet", "SortedDictionary", "SortedList"} =>
          /\ \A i, j \in DOMAIN items : i < j => items[i] < items[j]
          /\ items # <<>> => \A x \in Range(items) : SortedMin <= x /\ x <= SortedMax
    /\ kind = "SortedList" /\ ~CannotCompare =>
          \A k \in Keys : Find(k).found <=> k \in Range(items)

\* An enumeration of a collection whose order does not change goes through it
\* from the first element on (from the last, of a stack) and misses none.  One
\* that copied the elements repeats none and shows none the copy has not, when
\* the program removes and adds while it runs.
InOrder == IF kind = "Stack" THEN Reverse(items) ELSE items
EnumerationsAreFaithful ==
    en.on # "none" =>
        /\ intact => /\ IsPrefix(seen, InOrder)
                     /\ ~en.ready /\ call.op = "MoveNext" => seen = InOrder
        /\ en.on = "copy" =>
              \E places \in [DOMAIN seen -> 1..en.index \cap DOMAIN en.snap] :
                  /\ \A m, n \in DOMAIN seen : m < n => places[m] < places[n]
                  /\ \A n \in DOMAIN seen : seen[n] = en.snap[places[n]]

\* What a program is promised of a collection of this kind.
Family == CASE kind \in SetKinds -> "set"
            [] kind \in DictKinds \union {"SortedList"} -> "map"
            [] kind = "Stack" -> "stack"
            [] kind \in {"Queue", "ConcurrentQueue"} -> "queue"
            [] OTHER -> "list"
Content == CASE Family = "set" -> Range(items)
             [] kind = "SortedList" -> [k \in Range(items) |-> vals[Position(k)]]
             [] kind \in DictKinds -> vals
             [] OTHER -> items
Promise == INSTANCE CollectionContract WITH family <- Family, content <- Content
ImplementsContract == Promise!Spec
=============================================================================
