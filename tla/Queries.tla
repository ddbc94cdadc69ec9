------------------------------- MODULE Queries -------------------------------
(***************************************************************************)
(* System.Linq.Enumerable and the sorting natives (interpreter/linq.go,    *)
(* linq_orderby.go, linq_groupby.go, array_sort.go, comparer.go).  A query *)
(* runs when it is written down: every operator goes through the whole of  *)
(* its source, and calls the program's delegate on it in that order.       *)
(*                                                                         *)
(* Elements are small numbers and Null.  A delegate is a function on them; *)
(* an element it answers Raise for makes the call fail, and the query ends *)
(* with that failure.  Standard(t, r) says what .NET's documentation       *)
(* promises of the result, without the loops.                              *)
(***************************************************************************)
EXTENDS Integers, Sequences, FiniteSets, SequencesExt

CONSTANTS Null, Raise,
          Width          \* of an int32

Yes == 1
No == 0
Ok(v) == [ok |-> TRUE, val |-> v]
Fail(why) == [ok |-> FALSE, val |-> why]
Failed == Fail("delegate")
NoElements == Fail("InvalidOperation")

Raises(f, s) == \E i \in DOMAIN s : f[s[i]] = Raise
FirstOf(S) == CHOOSE i \in S : \A j \in S : i <= j
LastOf(S) == CHOOSE i \in S : \A j \in S : i >= j

\* A source is null, or something whose elements are read in its order: an
\* array and a list are copied, anything else is asked through its enumerator.
NullSource == <<Raise>>
EnumerateAll(src) == IF src = NullSource THEN Fail("ArgumentNull") ELSE Ok(src)

linqSelect(s, f) == IF Raises(f, s) THEN Failed ELSE Ok([i \in DOMAIN s |-> f[s[i]]])
linqWhere(s, p) ==
    IF Raises(p, s) THEN Failed ELSE Ok(SelectSeq(s, LAMBDA e : p[e] = Yes))

\* The loops that stop at the first element of an answer.
Stops(s, p, answer) == {i \in DOMAIN s : p[s[i]] \in {answer, Raise}}
Seek(s, p, answer, found(_), none) ==
    LET at == Stops(s, p, answer)
    IN IF at = {} THEN none
       ELSE IF p[s[FirstOf(at)]] = Raise THEN Failed ELSE Ok(found(s[FirstOf(at)]))
linqAny(s, p) == Seek(s, p, Yes, LAMBDA e : TRUE, Ok(FALSE))
linqAll(s, p) == Seek(s, p, No, LAMBDA e : FALSE, Ok(TRUE))
linqFirst(s, p) == Seek(s, p, Yes, LAMBDA e : e, NoElements)
linqFirstOrDefault(s, p) == Seek(s, p, Yes, LAMBDA e : e, Ok(0))
linqLastOrDefault(s, p) == Seek(Reverse(s), p, Yes, LAMBDA e : e, Ok(0))

linqCount(s, p) == IF Raises(p, s) THEN Failed ELSE Ok(Len(linqWhere(s, p).val))
linqSingle(s, p) ==
    LET matches == linqWhere(s, p)
    IN IF ~matches.ok THEN Failed
       ELSE IF Len(matches.val) = 1 THEN Ok(matches.val[1]) ELSE NoElements
linqSingleOrDefault(s, p) ==
    LET matches == linqWhere(s, p)
    IN IF ~matches.ok THEN Failed
       ELSE IF matches.val = <<>> THEN Ok(0)
       ELSE IF Len(matches.val) = 1 THEN Ok(matches.val[1]) ELSE NoElements

\* g answers with sequences, or with null, which EnumerateAll refuses.
linqSelectMany(s, g) ==
    LET more(acc, e) == IF ~acc.ok THEN acc
                        ELSE IF ~EnumerateAll(g[e]).ok THEN EnumerateAll(g[e])
                        ELSE Ok(acc.val \o g[e])
    IN FoldLeft(more, Ok(<<>>), s)

Clamp(n, s) == IF n < 0 THEN 0 ELSE IF n > Len(s) THEN Len(s) ELSE n
linqTake(s, n) == Ok(SubSeq(s, 1, Clamp(n, s)))
linqSkip(s, n) == Ok(SubSeq(s, Clamp(n, s) + 1, Len(s)))
linqElementAt(s, n) == IF n \in 0..(Len(s) - 1) THEN Ok(s[n + 1]) ELSE Fail("ArgumentOutOfRange")
linqReverse(s) == Ok([i \in DOMAIN s |-> s[Len(s) + 1 - i]])
linqConcat(s, t) == Ok(s \o t)
linqContains(s, e) == Ok(\E i \in DOMAIN s : s[i] = e)

linqTakeWhile(s, p) ==
    LET at == Stops(s, p, No)
    IN IF at = {} THEN Ok(s)
       ELSE IF p[s[FirstOf(at)]] = Raise THEN Failed ELSE Ok(SubSeq(s, 1, FirstOf(at) - 1))
linqSkipWhile(s, p) ==
    LET at == Stops(s, p, No)
    IN IF at = {} THEN Ok(<<>>)
       ELSE IF p[s[FirstOf(at)]] = Raise THEN Failed ELSE Ok(SubSeq(s, FirstOf(at), Len(s)))

\* OfType leaves out null and what is not of the type; without a type, nothing.
linqOfType(s, isT, known) ==
    Ok(IF known THEN SelectSeq(s, LAMBDA e : e # Null /\ isT[e]) ELSE s)

\* The operators with an equality of the program's, the relation eq.
IfNew(eq, out, e) == IF \E i \in DOMAIN out : eq[e, out[i]] THEN out ELSE Append(out, e)
linqDistinct(s, eq) == Ok(FoldLeft(LAMBDA out, e : IfNew(eq, out, e), <<>>, s))
linqToHashSet(s, eq) == linqDistinct(s, eq)
linqUnion(s, t, eq) == linqDistinct(s \o t, eq)
linqSetOp(s, t, eq, wantIn) ==
    linqDistinct(SelectSeq(s, LAMBDA e : (\E j \in DOMAIN t : eq[e, t[j]]) = wantIn), eq)
linqSequenceEqual(s, t, eq) ==
    Ok(Len(s) = Len(t) /\ \A i \in DOMAIN s : eq[s[i], t[i]])
linqZip(s, t, pair) ==
    Ok([i \in 1..(IF Len(t) < Len(s) THEN Len(t) ELSE Len(s)) |-> pair[s[i], t[i]]])

\* A later element with the same key replaces the earlier one.
linqToDictionary(s, key) ==
    Ok([k \in {key[s[i]] : i \in DOMAIN s} |->
            s[LastOf({i \in DOMAIN s : key[s[i]] = k})]])

-----------------------------------------------------------------------------
\* Aggregates.  Nulls do not take part.

linqAggregate(s, op) ==
    IF s = <<>> THEN NoElements ELSE Ok(FoldLeft(LAMBDA acc, e : op[acc, e], s[1], Tail(s)))

CompareNatural(a, b) ==
    IF a = Null \/ b = Null
    THEN IF a = b THEN 0 ELSE IF a = Null THEN -1 ELSE 1
    ELSE IF a < b THEN -1 ELSE IF a > b THEN 1 ELSE 0

linqMinMax(s, want) ==
    LET better(best, v) == IF v = Null THEN best
                           ELSE IF best = Null THEN v
                           ELSE IF CompareNatural(v, best) * want > 0 THEN v ELSE best
    IN IF s = <<>> THEN NoElements ELSE Ok(FoldLeft(better, Null, s))

\* An int32 sum is cut to its width: .NET raises an OverflowException.
Wrap(n) == ((n + 2^(Width - 1)) % 2^Width) - 2^(Width - 1)
Numbers(s) == SelectSeq(s, LAMBDA e : e # Null)
linqSum(s) == Ok(Wrap(FoldLeft(LAMBDA a, e : a + e, 0, Numbers(s))))
\* The average as a fraction: sum and count.
linqAverage(s) ==
    IF Numbers(s) = <<>> THEN NoElements
    ELSE Ok(<<FoldLeft(LAMBDA a, e : a + e, 0, Numbers(s)), Len(Numbers(s))>>)

-----------------------------------------------------------------------------
\* Sorting.  Go's sort.SliceStable keeps equal elements in their order.

StableSort(s, before(_, _)) ==
    LET place(out, e) ==
            LET after == {i \in DOMAIN out : before(e, out[i])}
            IN IF after = {} THEN Append(out, e) ELSE InsertAt(out, FirstOf(after), e)
    IN FoldLeft(place, <<>>, s)

\* An ordering is a sequence of keys, each a function and a direction.  OrderBy
\* starts one; ThenBy goes back to the source of its argument and sorts it
\* again by the earlier keys and its own.
materializeOrdered(s, keys) ==
    LET sign(k, c) == IF keys[k].descending THEN -c ELSE c
        diff(a, b) == {k \in DOMAIN keys : CompareNatural(keys[k].by[a], keys[k].by[b]) # 0}
        before(a, b) == LET k == FirstOf(diff(a, b))
                        IN diff(a, b) # {} /\ sign(k, CompareNatural(keys[k].by[a], keys[k].by[b])) < 0
    IN IF \E k \in DOMAIN keys : Raises(keys[k].by, s) THEN Failed
       ELSE Ok(StableSort(s, before))
newOrderedChain(s, key) == [source |-> s, keys |-> <<key>>, items |-> materializeOrdered(s, <<key>>)]
\* Mutant: the last key decides first.
appendOrderedKeyFirst(ord, key) ==
    [source |-> ord.source, keys |-> <<key>> \o ord.keys,
     items |-> materializeOrdered(ord.source, <<key>> \o ord.keys)]
appendOrderedKey(ord, key) ==
    [source |-> ord.source, keys |-> Append(ord.keys, key),
     items |-> materializeOrdered(ord.source, Append(ord.keys, key))]

arraySort(s) == Ok(StableSort(s, LAMBDA a, b : CompareNatural(a, b) < 0))
listSort(s, compare) == Ok(StableSort(s, LAMBDA a, b : compare[a, b] < 0))

\* The index, from 0, of an element equal to v, or the complement of where it
\* would go.
arrayBinarySearch(s, v) ==
    LET look[lo \in 0..Len(s), hi \in -1..(Len(s) - 1)] ==
            IF lo > hi THEN -lo - 1
            ELSE LET mid == (lo + hi) \div 2
                     c == CompareNatural(s[mid + 1], v)
                 IN IF c = 0 THEN mid ELSE IF c < 0 THEN look[mid + 1, hi] ELSE look[lo, mid - 1]
    IN Ok(look[0, Len(s) - 1])

\* Groups in the order their keys come first, each with its elements in order.
linqGroupBy(s, key) ==
    LET place(groups, e) ==
            LET at == SelectInSeq(groups, LAMBDA g : g.key = key[e])
            IN IF at = 0 THEN Append(groups, [key |-> key[e], items |-> <<e>>])
               ELSE [groups EXCEPT ![at].items = Append(@, e)]
    IN Ok(FoldLeft(place, <<>>, s))

listRemoveAll(s, p) ==
    IF Raises(p, s) THEN Failed ELSE Ok(SelectSeq(s, LAMBDA e : p[e] # Yes))

-----------------------------------------------------------------------------
\* What the operators are called with, and what is promised of their results.

SameParity(a, b) == (a = Null /\ b = Null) \/ (a # Null /\ b # Null /\ a % 2 = b % 2)
Half(e) == IF e = Null THEN Null ELSE e \div 2
Minus(a, b) == (IF a = Null THEN 0 ELSE a) - (IF b = Null THEN 0 ELSE b)

Positions(s, Test(_)) == {i \in DOMAIN s : Test(s[i])}
\* r is what is left of s at the positions P, in their order.
IsPart(r, s, P) ==
    /\ Len(r) = Cardinality(P)
    /\ \A i \in P : r[Cardinality({j \in P : j <= i})] = s[i]

\* r holds the elements of s, sorted by the keys, and ties as they were in s.
IsStablySorted(r, s, keys) ==
    LET below(a, b) == \E k \in DOMAIN keys :
            /\ \A j \in 1..(k - 1) : keys[j].by[a] = keys[j].by[b]
            /\ IF keys[k].descending THEN CompareNatural(keys[k].by[a], keys[k].by[b]) > 0
               ELSE CompareNatural(keys[k].by[a], keys[k].by[b]) < 0
        rank(i) == 1 + Cardinality({j \in DOMAIN s : below(s[j], s[i])
                                       \/ (~below(s[i], s[j]) /\ j < i)})
    IN Len(r) = Len(s) /\ \A i \in DOMAIN s : r[rank(i)] = s[i]

Identity(S) == [e \in S |-> e]
PredicateTasks(S, n) ==
    [op : {"where", "any", "all", "first", "firstOrDefault", "lastOrDefault", "count", "single",
           "singleOrDefault", "takeWhile", "skipWhile", "removeAll", "select"},
     s : BoundedSeq(S, n), p : [S -> {Yes, No, Raise}]]
SequenceTasks(S, n) ==
    [op : {"reverse", "minmax", "sum", "average", "distinct", "groupBy", "toDictionary",
           "aggregate", "sort", "selectMany", "ofType"}, s : BoundedSeq(S, n)]
IndexTasks(S, n) ==
    [op : {"take", "skip", "elementAt", "search", "contains"}, s : BoundedSeq(S, n), i : -1..(n + 1)]
PairTasks(S, n) ==
    [op : {"union", "except", "intersect", "sequenceEqual", "zip", "concat"},
     s : BoundedSeq(S, n), t : BoundedSeq(S, n)]
OrderTasks(S, n) ==
    [op : {"order"}, s : BoundedSeq(S, n), first : BOOLEAN, second : BOOLEAN]

Key(f, desc) == [by |-> f, descending |-> desc]
Halves(S) == [e \in S |-> Half(e)]
FirstKey(S, t) == Key(Halves(S), t.first)
SecondKey(S, t) == Key([e \in S |-> IF e = Null THEN 0 ELSE e % 2], t.second)
\* The program's equality, and its difference of what it has and an element.
Alike(S) == [a, b \in S |-> SameParity(a, b)]
Difference(A, S) == [a \in A, b \in S |-> Minus(a, b)]
Repeat(e) == IF e = Null THEN NullSource ELSE [i \in 1..e |-> i]

Run(S, t) ==
    CASE t.op = "where" -> linqWhere(t.s, t.p)
      [] t.op = "select" -> linqSelect(t.s, t.p)
      [] t.op = "contains" -> linqContains(t.s, t.i)
      [] t.op = "any" -> linqAny(t.s, t.p)
      [] t.op = "all" -> linqAll(t.s, t.p)
      [] t.op = "first" -> linqFirst(t.s, t.p)
      [] t.op = "firstOrDefault" -> linqFirstOrDefault(t.s, t.p)
      [] t.op = "lastOrDefault" -> linqLastOrDefault(t.s, t.p)
      [] t.op = "count" -> linqCount(t.s, t.p)
      [] t.op = "single" -> linqSingle(t.s, t.p)
      [] t.op = "singleOrDefault" -> linqSingleOrDefault(t.s, t.p)
      [] t.op = "takeWhile" -> linqTakeWhile(t.s, t.p)
      [] t.op = "skipWhile" -> linqSkipWhile(t.s, t.p)
      [] t.op = "removeAll" -> listRemoveAll(t.s, t.p)
      [] t.op = "reverse" -> linqReverse(t.s)
      [] t.op = "minmax" -> <<linqMinMax(t.s, -1), linqMinMax(t.s, 1)>>
      [] t.op = "sum" -> linqSum(t.s)
      [] t.op = "average" -> linqAverage(t.s)
      [] t.op = "distinct" -> linqDistinct(t.s, Alike(S))
      [] t.op = "groupBy" -> linqGroupBy(t.s, Halves(S))
      [] t.op = "toDictionary" -> linqToDictionary(t.s, Halves(S))
      [] t.op = "aggregate" -> linqAggregate(t.s, Difference(S \cup -20..20, S))
      [] t.op = "sort" -> <<arraySort(t.s), listSort(t.s, [a, b \in S |-> CompareNatural(Half(b), Half(a))])>>
      [] t.op = "selectMany" -> linqSelectMany(t.s, [e \in S |-> Repeat(e)])
      [] t.op = "ofType" -> linqOfType(t.s, [e \in S |-> e # Null /\ e % 2 = 0], TRUE)
      [] t.op = "take" -> linqTake(t.s, t.i)
      [] t.op = "skip" -> linqSkip(t.s, t.i)
      [] t.op = "elementAt" -> linqElementAt(t.s, t.i)
      [] t.op = "search" -> arrayBinarySearch(arraySort(t.s).val, t.i)
      [] t.op = "union" -> linqUnion(t.s, t.t, Alike(S))
      [] t.op = "except" -> linqSetOp(t.s, t.t, Alike(S), FALSE)
      [] t.op = "intersect" -> linqSetOp(t.s, t.t, Alike(S), TRUE)
      [] t.op = "sequenceEqual" -> linqSequenceEqual(t.s, t.t, Alike(S))
      [] t.op = "zip" -> linqZip(t.s, t.t, Difference(S, S))
      [] t.op = "concat" -> linqConcat(t.s, t.t)
      [] t.op = "order" -> appendOrderedKey(newOrderedChain(t.s, FirstKey(S, t)), SecondKey(S, t)).items

\* i is the place of the first element p holds for, and none before it raises.
Decides(s, p, answer, i) == p[s[i]] = answer /\ \A j \in 1..(i - 1) : p[s[j]] \notin {answer, Raise}
Undecided(s, p, answer) == \A j \in DOMAIN s : p[s[j]] \notin {answer, Raise}
Told(s, p, answer, r, Value(_), none) ==
    \/ \E i \in DOMAIN s : Decides(s, p, answer, i) /\ r = Ok(Value(i))
    \/ Undecided(s, p, answer) /\ r = none
    \/ r = Failed /\ \E i \in DOMAIN s : Decides(s, p, Raise, i)
                        /\ \A j \in 1..i : p[s[j]] # answer

PredicateStandard(t, r) ==
    LET s == t.s
        p == t.p
        yes == Positions(s, LAMBDA e : p[e] = Yes)
        whole == t.op \in {"where", "count", "single", "singleOrDefault", "removeAll", "select"}
    IN IF whole /\ Raises(p, s) THEN r = Failed
       ELSE CASE t.op = "where" -> r.ok /\ IsPart(r.val, s, yes)
              [] t.op = "select" -> r.ok /\ DOMAIN r.val = DOMAIN s /\ \A i \in DOMAIN s : r.val[i] = p[s[i]]
              [] t.op = "removeAll" -> r.ok /\ IsPart(r.val, s, DOMAIN s \ yes)
              [] t.op = "count" -> r = Ok(Cardinality(yes))
              [] t.op \in {"single", "singleOrDefault"} ->
                    \/ Cardinality(yes) = 1 /\ \E i \in yes : r = Ok(s[i])
                    \/ Cardinality(yes) > 1 /\ r = NoElements
                    \/ yes = {} /\ r = IF t.op = "single" THEN NoElements ELSE Ok(0)
              [] t.op = "any" -> Told(s, p, Yes, r, LAMBDA i : TRUE, Ok(FALSE))
              [] t.op = "all" -> Told(s, p, No, r, LAMBDA i : FALSE, Ok(TRUE))
              [] t.op = "first" -> Told(s, p, Yes, r, LAMBDA i : s[i], NoElements)
              [] t.op = "firstOrDefault" -> Told(s, p, Yes, r, LAMBDA i : s[i], Ok(0))
              [] t.op = "lastOrDefault" -> ~Raises(p, s) =>
                    \/ yes = {} /\ r = Ok(0)
                    \/ \E i \in yes : r = Ok(s[i]) /\ \A j \in yes : j <= i
              [] t.op = "takeWhile" ->
                    Told(s, p, No, r, LAMBDA i : SubSeq(s, 1, i - 1), Ok(s))
              [] t.op = "skipWhile" ->
                    Told(s, p, No, r, LAMBDA i : SubSeq(s, i, Len(s)), Ok(<<>>))

\* One of each class of eq that S has and, of each, the first in s.
IsSetOf(r, s, eq(_, _), Has(_)) ==
    IsPart(r, s, {i \in DOMAIN s : Has(s[i]) /\ \A j \in 1..(i - 1) : ~eq(s[j], s[i])})

SequenceStandard(S, t, r) ==
    LET s == t.s
        nums == Positions(s, LAMBDA e : e # Null)
        total == MapThenSumSet(LAMBDA i : s[i], nums)
    IN CASE t.op = "reverse" -> r.val = Reverse(s)
         [] t.op = "minmax" ->
              IF s = <<>> THEN r = <<NoElements, NoElements>>
              ELSE IF nums = {} THEN r = <<Ok(Null), Ok(Null)>>
              ELSE /\ \A w \in 1..2 : \E i \in nums : r[w] = Ok(s[i])
                   /\ \A i \in nums : r[1].val <= s[i] /\ s[i] <= r[2].val
         [] t.op = "sum" -> total \in -(2^(Width - 1))..(2^(Width - 1) - 1) => r = Ok(total)
         [] t.op = "average" -> IF nums = {} THEN r = NoElements ELSE r = Ok(<<total, Cardinality(nums)>>)
         [] t.op = "distinct" -> IsSetOf(r.val, s, SameParity, LAMBDA e : TRUE)
         [] t.op = "groupBy" ->
              LET keys == [g \in DOMAIN r.val |-> r.val[g].key]
              IN /\ IsSetOf(keys, [i \in DOMAIN s |-> Half(s[i])], LAMBDA a, b : a = b, LAMBDA e : TRUE)
                 /\ \A g \in DOMAIN keys :
                       IsPart(r.val[g].items, s, Positions(s, LAMBDA e : Half(e) = keys[g]))
         [] t.op = "toDictionary" ->
              /\ DOMAIN r.val = {Half(s[i]) : i \in DOMAIN s}
              /\ \A k \in DOMAIN r.val : Half(r.val[k]) = k /\ r.val[k] \in Range(s)
         [] t.op = "aggregate" ->
              IF s = <<>> THEN r = NoElements
              ELSE LET num(i) == IF s[i] = Null THEN 0 ELSE s[i]
                   IN Len(s) = 1 \/ r.val = num(1) - MapThenSumSet(num, 2..Len(s))
         [] t.op = "sort" ->
              /\ IsStablySorted(r[1].val, s, <<Key([e \in S |-> e], FALSE)>>)
              /\ IsStablySorted(r[2].val, s, <<Key(Halves(S), TRUE)>>)
         [] t.op = "selectMany" ->
              IF Null \in Range(s) THEN r = Fail("ArgumentNull")
              ELSE /\ Len(r.val) = MapThenSumSet(LAMBDA i : s[i], DOMAIN s)
                   /\ \A i \in DOMAIN s : \A e \in 1..s[i] :
                         r.val[MapThenSumSet(LAMBDA j : s[j], 1..(i - 1)) + e] = e
         [] t.op = "ofType" -> IsPart(r.val, s, Positions(s, LAMBDA e : e # Null /\ e % 2 = 0))

IndexStandard(t, r) ==
    CASE t.op = "take" -> IsPart(r.val, t.s, {i \in DOMAIN t.s : i <= t.i})
      [] t.op = "skip" -> IsPart(r.val, t.s, {i \in DOMAIN t.s : i > t.i})
      [] t.op = "elementAt" -> IF t.i + 1 \in DOMAIN t.s THEN r = Ok(t.s[t.i + 1])
                               ELSE r = Fail("ArgumentOutOfRange")
      [] t.op = "contains" -> r.val <=> t.i \in Range(t.s)
      [] t.op = "search" ->
           LET below == {i \in DOMAIN t.s : CompareNatural(t.s[i], t.i) < 0}
               equal == {i \in DOMAIN t.s : t.s[i] = t.i}
           IN IF equal = {} THEN r.val = -(Cardinality(below)) - 1
              ELSE r.val \in Cardinality(below)..(Cardinality(below) + Cardinality(equal) - 1)

PairStandard(t, r) ==
    LET s == t.s
        u == t.t
        inT(e) == \E j \in DOMAIN u : SameParity(e, u[j])
    IN CASE t.op = "union" -> IsSetOf(r.val, s \o u, SameParity, LAMBDA e : TRUE)
         [] t.op = "except" -> IsSetOf(r.val, s, SameParity, LAMBDA e : ~inT(e))
         [] t.op = "intersect" -> IsSetOf(r.val, s, SameParity, inT)
         [] t.op = "sequenceEqual" ->
              r.val = (DOMAIN s = DOMAIN u /\ \A i \in DOMAIN s : SameParity(s[i], u[i]))
         [] t.op = "zip" -> /\ DOMAIN r.val = DOMAIN s \cap DOMAIN u
                            /\ \A i \in DOMAIN r.val : r.val[i] = Minus(s[i], u[i])
         [] t.op = "concat" -> IsPrefix(s, r.val) /\ IsSuffix(u, r.val) /\ Len(r.val) = Len(s) + Len(u)

\* What .NET's documentation says of the operator's result.
Standard(S, t, r) ==
    CASE "p" \in DOMAIN t -> PredicateStandard(t, r)
      [] "i" \in DOMAIN t -> IndexStandard(t, r)
      [] "t" \in DOMAIN t -> PairStandard(t, r)
      [] t.op = "order" -> IsStablySorted(r.val, t.s, <<FirstKey(S, t), SecondKey(S, t)>>)
      [] OTHER -> SequenceStandard(S, t, r)
=============================================================================
