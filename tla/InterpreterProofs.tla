-------------------------- MODULE InterpreterProofs --------------------------
(***************************************************************************)
(* Three results about the interpreter: what runs when an exception or a   *)
(* leave takes a frame out of its try blocks, what a virtual call runs,    *)
(* and what arithmetic computes.                                           *)
(*                                                                         *)
(* 1. Exception handling (ExceptionUnwind), for every method whose handler *)
(* table and transfers are as ECMA-335 I.12.4.2 wants them (WellFormed).   *)
(* The frame has one slot for an interrupted transfer.  SlotIsLocal says   *)
(* that it belongs to a clause c and the place o it came from, and that    *)
(* the body that runs is c's or has c inside.  Then every finally around   *)
(* the end of a body is around c and around o, comes after c in the order  *)
(* of the candidates, and is therefore still pending: none is skipped,     *)
(* even where the slot was overwritten.  That the transfer resumed is the  *)
(* one interrupted needs more: where no try lies in the body of a finally, *)
(* fault or filter there is one suspended transfer at a time, the slot's   *)
(* (OneSuspended).                                                         *)
(*                                                                         *)
(* StepKinds sorts the steps of a valid method into eight kinds, once for  *)
(* all; each conjunct of the invariant is then one lemma with a case per   *)
(* kind.                                                                   *)
(*                                                                         *)
(* 2. Virtual dispatch (VirtualDispatch).  However long the chain of       *)
(* bases, the walk by name finds the method the slots select, in a program *)
(* where no class hides an inherited method, no overload fits the          *)
(* arguments of another, one class lists the interface and every body      *)
(* builds.  Each of the four is needed: without one of them in Plain, TLC  *)
(* finds the wrong method running.                                         *)
(*                                                                         *)
(* The loop invariant is that no class the walk has left declares the      *)
(* method.  The argument is then that, without hiding, every method of the *)
(* name up to the named one is in one slot, so that the nearest fills it.  *)
(*                                                                         *)
(* 3. Arithmetic, for integers and floats of every width and for every     *)
(* value of them, where TLC tries those next to a boundary of a few bits.  *)
(* A result that wraps differs from the exact one by a multiple of 2^w,    *)
(* and one bitwise is the sum of its bits, by induction on their number.   *)
(* A float result is the exact one rounded, or an infinity with its sign.  *)
(* The provers know 2^n of no n but a numeral: PowersDouble, which is the  *)
(* definition of the power, is a hypothesis.                               *)
(***************************************************************************)
EXTENDS VirtualDispatch, ExceptionUnwind, SequenceTheorems, WellFoundedInduction, TLAPS

-----------------------------------------------------------------------------
(* Exception handling: clauses and how they nest.                          *)

\* A method and its handler table are finite.
LEMMA MethodFacts ==
    ASSUME method \in Methods
    PROVE  /\ Len(method.ir) \in Nat /\ DOMAIN method.ir = 1..Len(method.ir)
           /\ Len(method.handlers) \in Nat /\ Clauses = 1..Len(method.handlers)
BY MethodsAssumption DEF Clauses

\* What every clause is like.
LEMMA ClauseFacts ==
    ASSUME method \in Methods, NEW k \in Clauses
    PROVE  /\ H(k).kind \in Kinds
           /\ H(k).ts \in Nat /\ H(k).te \in Nat /\ H(k).hs \in Nat /\ H(k).he \in Nat
           /\ 1 <= H(k).ts /\ H(k).ts < H(k).te /\ H(k).te <= H(k).hs /\ H(k).hs < H(k).he
           /\ H(k).he <= Len(method.ir) + 1
           /\ H(k).kind = "filter" => H(k).fs \in Nat /\ H(k).te <= H(k).fs /\ H(k).fs < H(k).hs
           /\ Width(k) \in Nat
<1>1. IsHandler(H(k), Len(method.ir))
  BY MethodsAssumption DEF Clauses, H
<1>2. QED
  BY <1>1 DEF IsHandler, Width

\* The places a clause starts at are instructions.
LEMMA Entries ==
    ASSUME method \in Methods, NEW k \in Clauses
    PROVE  /\ H(k).hs \in DOMAIN method.ir /\ Start(H(k)) \in DOMAIN method.ir
           /\ H(k).kind # "filter" => Start(H(k)) = H(k).hs
           /\ H(k).kind = "filter" => Start(H(k)) = H(k).fs
BY MethodFacts, ClauseFacts, SMTT(30) DEF Start

\* Clauses are tried one after the other, each before those that are behind it.
LEMMA Order ==
    ASSUME method \in Methods
    PROVE  /\ \A j, k \in Clauses : j # k => Before(j, k) \/ Before(k, j)
           /\ \A j, k \in Clauses : ~(Before(j, k) /\ Before(k, j))
           /\ \A i, j, k \in Clauses : Before(i, j) /\ Before(j, k) => Before(i, k)
<1>1. \A k \in Clauses : k \in Nat /\ Width(k) \in Nat
  BY MethodFacts, ClauseFacts
<1>2. QED
  BY <1>1 DEF Before

\* A set of numbers has a least one.
LEMMA LeastNumber ==
    ASSUME NEW S \in SUBSET Nat, S # {}
    PROVE  \E p \in S : \A q \in S : p <= q
<1>1. PICK p \in S : \A q \in S : ~(<<q, p>> \in OpToRel(<, Nat))
  BY NatLessThanWellFounded, WFMin
<1>2. \A q \in S : p <= q
  <2> SUFFICES ASSUME NEW q \in S PROVE p <= q
    OBVIOUS
  <2>1. <<q, p>> \in Nat \X Nat /\ ~(<<q, p>>[1] < <<q, p>>[2])
    BY <1>1 DEF OpToRel
  <2> QED BY <2>1
<1> QED BY <1>2

\* There is a first one among some clauses.
LEMMA FirstOf ==
    ASSUME method \in Methods, NEW S \in SUBSET Clauses, S # {}
    PROVE  Innermost(S) \in S /\ \A j \in S \ {Innermost(S)} : Before(Innermost(S), j)
<1>0. \A k \in S : k \in Nat /\ Width(k) \in Nat
  BY MethodFacts, ClauseFacts
<1> DEFINE W == {Width(k) : k \in S}
<1>1. PICK w \in W : \A v \in W : w <= v
  <2>1. W \in SUBSET Nat /\ W # {}
    BY <1>0
  <2> HIDE DEF W
  <2>2. QED
    BY <2>1, LeastNumber
<1> DEFINE T == {k \in S : Width(k) = w}
<1>2. PICK k \in T : \A j \in T : k <= j
  <2>1. T \in SUBSET Nat /\ T # {}
    BY <1>0, <1>1
  <2> HIDE DEF T
  <2>2. QED
    BY <2>1, LeastNumber
<1>3. k \in S /\ \A j \in S \ {k} : Before(k, j)
  BY <1>0, <1>1, <1>2 DEF Before
<1>4. QED
  BY <1>3 DEF Innermost

\* Behind a clause behind another is what is behind it at all.
LEMMA BehindIsBehind ==
    ASSUME method \in Methods, NEW S \in SUBSET Clauses, NEW j \in S, NEW k \in Behind(j, S)
    PROVE  k \in S /\ Before(j, k) /\ Behind(k, Behind(j, S)) = Behind(k, S)
<1>1. k \in S /\ Before(j, k)
  BY DEF Behind
<1>2. \A i \in S : Before(k, i) => Before(j, i)
  BY <1>1, Order
<1>3. QED
  BY <1>1, <1>2 DEF Behind

LEMMA Nesting ==
    ASSUME WellFormed(method), NEW j \in Clauses, NEW k \in Clauses, j # k
    PROVE  Nested(method, H(j), H(k))
BY DEF WellFormed, Clauses, H

\* Of two clauses that guard one instruction, one is within the other's try, or they
\* are alternatives.
LEMMA Guarding ==
    ASSUME method \in Methods, WellFormed(method), NEW j \in Clauses, NEW k \in Clauses, j # k,
           NEW i, i \in Nat, InTry(j, i), InTry(k, i)
    PROVE  \/ Within(H(j), H(k).ts, H(k).te)
           \/ Within(H(k), H(j).ts, H(j).te)
           \/ Alternatives(H(j), H(k))
<1>1. Nested(method, H(j), H(k))
  BY Nesting
<1>2. i \in DOMAIN method.ir
  <2>1. H(j).ts <= i /\ i < H(j).te
    BY DEF InTry, Guards
  <2>2. /\ H(j).ts \in Nat /\ H(j).te \in Nat /\ H(j).hs \in Nat /\ H(j).he \in Nat
        /\ 1 <= H(j).ts /\ H(j).te <= H(j).hs /\ H(j).hs < H(j).he /\ H(j).he <= Len(method.ir) + 1
    BY ClauseFacts
  <2>3. Len(method.ir) \in Nat /\ DOMAIN method.ir = 1..Len(method.ir)
    BY MethodFacts
  <2>4. 1 <= i /\ i <= Len(method.ir)
    BY <2>1, <2>2, <2>3
  <2>5. QED
    BY <2>3, <2>4
<1>3. Inside(H(j), H(k)) \/ Inside(H(k), H(j)) \/ Alternatives(H(j), H(k))
  BY <1>1, <1>2 DEF Nested, Covers, InTry
<1>4. QED
  BY <1>3, ClauseFacts DEF Inside, Within, InTry, Guards

\* What is within another's try comes before it.
LEMMA WithinBefore ==
    ASSUME method \in Methods, NEW j \in Clauses, NEW k \in Clauses, Within(H(j), H(k).ts, H(k).te)
    PROVE  Before(j, k)
BY ClauseFacts DEF Within, Before, Width

\* A clause starts in a region of another only if it is within it.
LEMMA StartsWithin ==
    ASSUME method \in Methods, WellFormed(method), NEW j \in Clauses, NEW k \in Clauses, j # k,
           NEW x \in {Start(H(j)), H(j).hs}
    PROVE  /\ InHandler(k, x) => Within(H(j), H(k).hs, H(k).he)
           /\ InFilter(k, x) => Within(H(j), H(k).fs, H(k).hs)
<1>1. Nested(method, H(j), H(k))
  BY Nesting
<1>2. x \in DOMAIN method.ir /\ Covers(H(j), x) /\ x \in Nat
  BY Entries, MethodFacts, ClauseFacts, SMTT(30) DEF Covers, Handles, Filters, Start
<1>3. SUFFICES ASSUME Covers(H(k), x), InHandler(k, x) \/ InFilter(k, x)
               PROVE  /\ InHandler(k, x) => Within(H(j), H(k).hs, H(k).he)
                      /\ InFilter(k, x) => Within(H(j), H(k).fs, H(k).hs)
  BY DEF Covers, InHandler, InFilter
<1>4. Inside(H(j), H(k)) \/ Inside(H(k), H(j)) \/ Alternatives(H(j), H(k))
  BY <1>1, <1>2, <1>3 DEF Nested
<1>5. CASE Inside(H(j), H(k))
  BY <1>2, <1>3, <1>5, ClauseFacts DEF Inside, Within, InHandler, InFilter, Handles, Filters, Start
<1>6. CASE Inside(H(k), H(j))
  BY <1>2, <1>3, <1>6, ClauseFacts, SMTT(30) DEF Inside, Within, InHandler, InFilter, Handles, Filters, Start
<1>7. CASE Alternatives(H(j), H(k))
  BY <1>2, <1>3, <1>7, ClauseFacts DEF Alternatives, InHandler, InFilter, Handles, Filters, Start
<1>8. QED
  BY <1>4, <1>5, <1>6, <1>7

\* The regions of a clause are apart.
LEMMA Regions ==
    ASSUME method \in Methods, NEW k \in Clauses, NEW i, i \in Nat
    PROVE  /\ ~(InTry(k, i) /\ InHandler(k, i)) /\ ~(InTry(k, i) /\ InFilter(k, i))
           /\ ~(InHandler(k, i) /\ InFilter(k, i)) /\ ~(InTry(k, i) /\ SuspendedIn(k, i))
BY ClauseFacts DEF InTry, InHandler, InFilter, SuspendedIn, Suspends, Guards, Handles, Filters

\* A clause that starts in the body of another is in there as a whole.
LEMMA BodyAround ==
    ASSUME method \in Methods, WellFormed(method), NEW j \in Clauses, NEW k \in Clauses, j # k,
           NEW x \in {Start(H(j)), H(j).hs}, SuspendedIn(k, x),
           NEW i, i \in Nat, H(j).ts <= i, i < H(j).he
    PROVE  SuspendedIn(k, i)
<1>1. CASE H(k).kind \in {"finally", "fault"} /\ InHandler(k, x)
  <2>1. Within(H(j), H(k).hs, H(k).he)
    BY <1>1, StartsWithin
  <2>2. QED
    BY <1>1, <2>1, ClauseFacts DEF Within, SuspendedIn, Suspends, Handles
<1>2. CASE InFilter(k, x)
  <2>1. Within(H(j), H(k).fs, H(k).hs) /\ H(k).kind = "filter"
    BY <1>2, StartsWithin DEF InFilter, Filters
  <2>2. H(k).fs <= i /\ i < H(k).hs
    BY <2>1, ClauseFacts DEF Within
  <2>3. QED
    BY <2>1, <2>2 DEF SuspendedIn, Suspends, Filters
<1>3. QED
  BY <1>1, <1>2 DEF SuspendedIn, Suspends, InHandler, InFilter

\* The same from the clause's try on.
LEMMA TryInBody ==
    ASSUME method \in Methods, WellFormed(method), NEW j \in Clauses, NEW k \in Clauses, j # k,
           NEW t, t \in Nat, InTry(j, t), SuspendedIn(k, t)
    PROVE  \/ /\ Inside(H(j), H(k)) /\ SuspendedIn(k, H(j).ts)
              /\ \A i \in Nat : H(j).ts <= i /\ i < H(j).he => SuspendedIn(k, i)
           \/ Within(H(k), H(j).ts, H(j).te)
<1>1. Nested(method, H(j), H(k))
  BY Nesting
<1>2. H(j).ts <= t /\ t < H(j).te
  BY DEF InTry, Guards
<1>3. t \in DOMAIN method.ir
  <2>1. /\ H(j).ts \in Nat /\ H(j).te \in Nat /\ H(j).hs \in Nat /\ H(j).he \in Nat
        /\ 1 <= H(j).ts /\ H(j).te <= H(j).hs /\ H(j).hs < H(j).he /\ H(j).he <= Len(method.ir) + 1
    BY ClauseFacts
  <2>2. Len(method.ir) \in Nat /\ DOMAIN method.ir = 1..Len(method.ir)
    BY MethodFacts
  <2>3. 1 <= t /\ t <= Len(method.ir)
    BY <1>2, <2>1, <2>2
  <2>4. QED
    BY <2>2, <2>3
<1>4. Inside(H(j), H(k)) \/ Inside(H(k), H(j)) \/ Alternatives(H(j), H(k))
  BY <1>1, <1>3 DEF Nested, Covers, InTry, SuspendedIn, Suspends
<1>5. ~Alternatives(H(j), H(k))
  BY <1>2, ClauseFacts DEF Alternatives, SuspendedIn, Suspends, Handles, Filters
<1>6. CASE Inside(H(k), H(j))
  BY <1>2, <1>6, ClauseFacts, SMTT(30) DEF Inside, Within, SuspendedIn, Suspends, Handles, Filters
<1>7. CASE Inside(H(j), H(k)) /\ H(k).kind \in {"finally", "fault"} /\ Handles(H(k), t)
  <2>1. Within(H(j), H(k).hs, H(k).he)
    BY <1>2, <1>7, ClauseFacts DEF Inside, Within, Handles
  <2>2. \A i \in Nat : H(j).ts <= i /\ i < H(j).he => SuspendedIn(k, i)
    BY <1>7, <2>1, ClauseFacts DEF Within, SuspendedIn, Suspends, Handles
  <2>3. QED
    BY <1>7, <2>2, ClauseFacts
<1>8. CASE Inside(H(j), H(k)) /\ Filters(H(k), t)
  <2>1. Within(H(j), H(k).fs, H(k).hs) /\ H(k).kind = "filter"
    BY <1>2, <1>8, ClauseFacts DEF Inside, Within, Filters
  <2>2. \A i \in Nat : H(j).ts <= i /\ i < H(j).he => SuspendedIn(k, i)
    BY <2>1, ClauseFacts DEF Within, SuspendedIn, Suspends, Filters
  <2>3. QED
    BY <1>8, <2>2, ClauseFacts
<1>9. QED
  BY <1>4, <1>5, <1>6, <1>7, <1>8 DEF SuspendedIn, Suspends

\* A clause that guards code of a body of another makes suspensions nest, but for a catch.
LEMMA GuardsInBody ==
    ASSUME method \in Methods, WellFormed(method), ~NestsSuspension,
           NEW j \in Clauses, NEW k \in Clauses, H(j).kind # "catch"
    PROVE  ~SuspendedIn(k, H(j).ts)
BY DEF NestsSuspension

\* One body at a time is suspended where suspensions do not nest.
LEMMA OneBody ==
    ASSUME method \in Methods, WellFormed(method), ~NestsSuspension,
           NEW j \in Clauses, NEW k \in Clauses, NEW i, i \in DOMAIN method.ir,
           SuspendedIn(j, i), SuspendedIn(k, i)
    PROVE  j = k
<1> SUFFICES ASSUME j # k PROVE FALSE
  OBVIOUS
<1>0. i \in Nat
  BY MethodFacts
<1>1. H(j).kind # "catch" /\ H(k).kind # "catch"
  BY DEF SuspendedIn, Suspends, Filters
<1>2. Inside(H(j), H(k)) \/ Inside(H(k), H(j)) \/ Alternatives(H(j), H(k))
  BY Nesting DEF Nested, Covers, SuspendedIn, Suspends
<1>3. ASSUME NEW a \in Clauses, NEW b \in Clauses, SuspendedIn(a, i), SuspendedIn(b, i),
             Inside(H(a), H(b))
      PROVE  SuspendedIn(b, H(a).ts)
  <2>1. H(a).ts \in Nat /\ H(a).ts <= i /\ i < H(a).he /\ H(a).te <= i
    BY <1>0, <1>3, ClauseFacts DEF SuspendedIn, Suspends, Handles, Filters
  <2>2. CASE H(b).kind \in {"finally", "fault"} /\ Handles(H(b), i)
    <3>1. Within(H(a), H(b).hs, H(b).he)
      BY <1>0, <1>3, <2>1, <2>2, ClauseFacts DEF Inside, Within, Handles
    <3>2. QED
      BY <1>0, <2>1, <2>2, <3>1, ClauseFacts DEF Within, SuspendedIn, Suspends, Handles
  <2>3. CASE Filters(H(b), i)
    <3>1. Within(H(a), H(b).fs, H(b).hs) /\ H(b).kind = "filter"
      BY <1>0, <1>3, <2>1, <2>3, ClauseFacts DEF Inside, Within, Filters
    <3>2. QED
      BY <1>0, <2>1, <2>3, <3>1, ClauseFacts DEF Within, SuspendedIn, Suspends, Filters
  <2>4. QED
    BY <1>3, <2>2, <2>3 DEF SuspendedIn, Suspends
<1>4. ~Alternatives(H(j), H(k))
  BY <1>0, ClauseFacts DEF Alternatives, Start, SuspendedIn, Suspends, Handles, Filters
<1>5. QED
  BY <1>1, <1>2, <1>3, <1>4, GuardsInBody

-----------------------------------------------------------------------------
(* Exception handling: the search for a handler.                           *)

LEMMA Candidates ==
    ASSUME method \in Methods, NEW i
    PROVE  /\ handlersContaining(i) \subseteq Clauses
           /\ \A t : handlersLeaving(i, t) \subseteq handlersContaining(i)
           /\ \A S, ex : Takers(ex, S) \subseteq S
           /\ \A S, k : Behind(k, S) \subseteq S
BY DEF handlersContaining, handlersLeaving, Takers, Behind

\* The body that is run next is behind the one before, on the way from the same place.
LEMMA NextLeaves ==
    ASSUME method \in Methods, NEW k \in Clauses, NEW u, NEW i,
           Interrupts(k, u, i), u.kind = "leave", u.pending # {}
    PROVE  LET n == Innermost(u.pending)
           IN  /\ n \in u.pending /\ n \in Clauses /\ Before(k, n)
               /\ H(n).kind = "finally"
               /\ Interrupts(n, LeaveUnwind(u.target, Behind(n, u.pending)), i)
<1> DEFINE n == Innermost(u.pending)
           S == handlersLeaving(i, u.target)
<1>1. S \subseteq Clauses /\ k \in S /\ u.pending = Behind(k, S)
  BY Candidates DEF Interrupts
<1>2. n \in u.pending
  BY <1>1, FirstOf, Candidates
<1>3. n \in S /\ Before(k, n) /\ Behind(n, u.pending) = Behind(n, S)
  BY <1>1, <1>2, BehindIsBehind
<1>4. InTry(n, i) /\ H(n).kind = "finally"
  BY <1>3 DEF handlersLeaving
<1>5. QED
  BY <1>1, <1>2, <1>3, <1>4 DEF Interrupts, LeaveUnwind

LEMMA NextTakes ==
    ASSUME method \in Methods, NEW k \in Clauses, NEW u, NEW i,
           Interrupts(k, u, i), u.kind \in {"raise", "filter"}, Takers(u.ex, u.pending) # {}
    PROVE  LET n == Innermost(Takers(u.ex, u.pending))
           IN  /\ n \in Takers(u.ex, u.pending) /\ n \in Clauses /\ Before(k, n) /\ InTry(n, i)
               /\ \A j \in Takers(u.ex, u.pending) \ {n} : Before(n, j)
               /\ H(n).kind \in {"finally", "fault"} =>
                     Interrupts(n, RaiseUnwind(u.ex, Behind(n, u.pending)), i)
               /\ H(n).kind = "filter" =>
                     Interrupts(n, FilterUnwind(u.ex, Behind(n, u.pending), n), i)
<1> DEFINE T == Takers(u.ex, u.pending)
           n == Innermost(T)
           S == handlersContaining(i)
<1>1. S \subseteq Clauses /\ k \in S /\ u.pending = Behind(k, S) /\ T \subseteq u.pending
  BY Candidates DEF Interrupts, handlersContaining
<1>2. n \in T /\ \A j \in T \ {n} : Before(n, j)
  <2>1. T \in SUBSET Clauses /\ T # {}
    BY <1>1, Candidates
  <2> HIDE DEF T
  <2>2. QED
    BY <2>1, FirstOf
<1>3. n \in S /\ Before(k, n) /\ Behind(n, u.pending) = Behind(n, S)
  BY <1>1, <1>2, BehindIsBehind
<1>4. InTry(n, i)
  BY <1>3 DEF handlersContaining
<1>5. ASSUME NEW j \in S, H(j).kind = "catch", Matches(u.ex, H(j).type), H(n).kind # "catch"
      PROVE  Before(n, j)
  <2>1. Before(k, j)
    BY <1>5 DEF Interrupts
  <2>2. j \in T
    BY <1>1, <1>5, <2>1 DEF Takers, Behind
  <2>3. QED
    BY <1>2, <1>5, <2>2
<1>6. QED
  BY <1>1, <1>2, <1>3, <1>4, <1>5 DEF Interrupts, RaiseUnwind, FilterUnwind

\* The first body that an exception or a leave runs.
LEMMA FirstTakes ==
    ASSUME method \in Methods, NEW ex, NEW i, Takers(ex, handlersContaining(i)) # {}
    PROVE  LET S == handlersContaining(i)
               n == Innermost(Takers(ex, S))
           IN  /\ n \in Takers(ex, S) /\ n \in Clauses /\ InTry(n, i)
               /\ \A j \in Takers(ex, S) \ {n} : Before(n, j)
               /\ H(n).kind \in {"finally", "fault"} => Interrupts(n, RaiseUnwind(ex, Behind(n, S)), i)
               /\ H(n).kind = "filter" => Interrupts(n, FilterUnwind(ex, Behind(n, S), n), i)
<1> DEFINE S == handlersContaining(i)
           T == Takers(ex, S)
           n == Innermost(T)
<1>1. S \subseteq Clauses /\ T \subseteq S
  BY Candidates
<1>2. n \in T /\ \A j \in T \ {n} : Before(n, j)
  <2>1. T \in SUBSET Clauses /\ T # {}
    BY <1>1
  <2> HIDE DEF T
  <2>2. QED
    BY <2>1, FirstOf
<1>3. n \in Clauses /\ InTry(n, i)
  BY <1>1, <1>2 DEF handlersContaining
<1>4. ASSUME NEW j \in S, H(j).kind = "catch", Matches(ex, H(j).type), H(n).kind # "catch"
      PROVE  Before(n, j)
  <2>1. j \in T
    BY <1>4 DEF Takers
  <2>2. QED
    BY <1>2, <1>4, <2>1
<1>5. QED
  BY <1>1, <1>2, <1>3, <1>4 DEF Interrupts, RaiseUnwind, FilterUnwind

LEMMA FirstLeaves ==
    ASSUME method \in Methods, NEW i, NEW t, handlersLeaving(i, t) # {},
           method.ir[i].op = "leave", method.ir[i].target = t
    PROVE  LET S == handlersLeaving(i, t)
               n == Innermost(S)
           IN  /\ n \in S /\ n \in Clauses /\ H(n).kind = "finally" /\ InTry(n, i)
               /\ \A j \in S \ {n} : Before(n, j)
               /\ Interrupts(n, LeaveUnwind(t, Behind(n, S)), i)
<1> DEFINE S == handlersLeaving(i, t)
           n == Innermost(S)
<1>1. S \in SUBSET Clauses /\ S # {}
  BY Candidates
<1>2. n \in S /\ \A j \in S \ {n} : Before(n, j)
  <2> HIDE DEF S
  <2>1. QED
    BY <1>1, FirstOf
<1>3. InTry(n, i) /\ H(n).kind = "finally"
  BY <1>2 DEF handlersLeaving
<1>4. QED
  BY <1>1, <1>2, <1>3 DEF Interrupts, LeaveUnwind

-----------------------------------------------------------------------------
(* Exception handling: what a step does.                                   *)

\* The frame is done, with no finally left to run unless it failed.
Stops ==
    /\ outcome' \in {"returned", "thrown", "failed"}
    /\ ip' = ip /\ conts' = <<>> /\ unwind' \in {unwind, NoUnwind}
    /\ UNCHANGED <<currentException, caught>>
    /\ outcome' # "failed" => \A k \in Clauses : H(k).kind = "finally" => ~InTry(k, ip)
    /\ Instr.op = "endfinally" /\ unwind.kind \in {"raise", "filter"} =>
          Takers(unwind.ex, unwind.pending) = {}

\* Control goes on within the same bodies.
Moves ==
    /\ ~EndsBody
    /\ ip' \in DOMAIN method.ir
    /\ Goto(ip')
    /\ UNCHANGED <<unwind, currentException, caught>>
    /\ \A k \in Clauses :
          /\ SuspendedIn(k, ip) <=> SuspendedIn(k, ip')
          /\ InHandler(k, ip') => InHandler(k, ip)
          /\ H(k).kind = "finally" /\ InTry(k, ip) => InTry(k, ip')

\* What is found comes before any finally around.
FoundFirst(n, i) ==
    \A k \in Clauses : H(k).kind = "finally" /\ InTry(k, i) =>
        k = n \/ Within(H(n), H(k).ts, H(k).te)

\* An exception is raised here: a catch takes it, or a body runs first.
Catches(n) ==
    /\ ~EndsBody
    /\ H(n).kind = "catch" /\ InTry(n, ip)
    /\ \E ex \in Exceptions : Catch(n, ex)
    /\ UNCHANGED unwind
    /\ FoundFirst(n, ip)

Enters(n) ==
    /\ ~EndsBody
    /\ H(n).kind # "catch" /\ InTry(n, ip)
    /\ \E u \in Unwinds :
          /\ u.kind # "nil" /\ Interrupts(n, u, ip)
          /\ Enter(n, Start(H(n)), u)
    /\ UNCHANGED <<currentException, caught>>
    /\ FoundFirst(n, ip)

\* The transfer in the slot goes on: to its target, to a catch, to the filter's own
\* handler, or through one more body.
Jumps ==
    /\ EndsBody /\ unwind.kind = "leave"
    /\ unwind' = NoUnwind
    /\ Goto(unwind.target)
    /\ UNCHANGED <<currentException, caught>>
    /\ \A k \in Clauses : H(k).kind = "finally" /\ InTry(k, ip) => InTry(k, unwind.target)

NextCatch(n) ==
    /\ EndsBody /\ unwind.kind \in {"raise", "filter"}
    /\ H(n).kind = "catch" /\ n \in Takers(unwind.ex, unwind.pending)
    /\ \A j \in Takers(unwind.ex, unwind.pending) \ {n} : Before(n, j)
    /\ \A k \in Clauses, i \in DOMAIN method.ir :
          Interrupts(k, unwind, i) => Before(k, n) /\ InTry(n, i)
    /\ unwind' = NoUnwind
    /\ Catch(n, unwind.ex)
    /\ FoundFirst(n, ip)

Accepts(n) ==
    /\ EndsBody /\ unwind.kind = "filter" /\ n = unwind.filterHandler
    /\ Instr.op = "endfilter"
    /\ unwind' = NoUnwind
    /\ Catch(n, unwind.ex)
    /\ FoundFirst(n, ip)

NextBody(n) ==
    /\ EndsBody /\ unwind.kind # "nil"
    /\ H(n).kind # "catch"
    /\ \E u \in Unwinds :
          /\ u.kind # "nil"
          /\ \A k \in Clauses, i \in DOMAIN method.ir :
                Interrupts(k, unwind, i) => Before(k, n) /\ InTry(n, i) /\ Interrupts(n, u, i)
          /\ Enter(n, Start(H(n)), u)
    /\ UNCHANGED <<currentException, caught>>
    /\ FoundFirst(n, ip)

\* Of a clause and a finally around one instruction, the one that is asked first is within.
LEMMA FirstIsWithin ==
    ASSUME method \in Methods, WellFormed(method), NEW n \in Clauses, NEW k \in Clauses, n # k,
           NEW i \in Nat, InTry(n, i), InTry(k, i), H(k).kind = "finally",
           ~Within(H(k), H(n).ts, H(n).te)
    PROVE  Within(H(n), H(k).ts, H(k).te)
BY Guarding DEF Alternatives

\* A try around the end of a body is around the whole clause.
LEMMA TryAroundBody ==
    ASSUME method \in Methods, NEW m \in Clauses, NEW k \in Clauses, NEW i \in Nat,
           InnermostBody(method, m, i), InTry(k, i)
    PROVE  Within(H(m), H(k).ts, H(k).te)
<1>1. SuspendedIn(m, i)
  BY DEF InnermostBody, SuspendedIn, H
<1>2. m # k
  BY <1>1, Regions
<1>3. Inside(H(m), H(k))
  BY <1>2 DEF InnermostBody, Covers, InTry, H, Clauses
<1>4. H(m).ts <= i /\ i < H(m).he
  BY <1>1, ClauseFacts DEF SuspendedIn, Suspends, Handles, Filters
<1>5. QED
  BY <1>3, <1>4, ClauseFacts DEF Inside, Within, InTry, Guards

\* A try around the body that ends is around what the slot's transfer came from, too.
LEMMA TryAroundOrigin ==
    ASSUME method \in Methods, WellFormed(method), NEW m \in Clauses, NEW k \in Clauses,
           NEW c \in Clauses, NEW o \in Nat, InTry(c, o), c = m \/ SuspendedIn(m, H(c).ts),
           Within(H(m), H(k).ts, H(k).te)
    PROVE  InTry(k, o) /\ Within(H(c), H(k).ts, H(k).te) /\ Before(c, k)
<1>1. CASE c = m
  <2>1. InTry(k, o)
    BY <1>1, ClauseFacts DEF Within, InTry, Guards
  <2>2. QED
    BY <1>1, <2>1, WithinBefore
<1>2. CASE c # m /\ SuspendedIn(m, H(c).ts)
  <2>1. H(c).ts \in Nat /\ InTry(c, H(c).ts)
    BY ClauseFacts DEF InTry, Guards
  <2>2. ~Within(H(m), H(c).ts, H(c).te)
    BY <1>2, ClauseFacts DEF Within, SuspendedIn, Suspends, Handles, Filters
  <2>3. Inside(H(c), H(m)) /\ \A i \in Nat : H(c).ts <= i /\ i < H(c).he => SuspendedIn(m, i)
    BY <1>2, <2>1, <2>2, TryInBody
  <2>4. Within(H(c), H(k).ts, H(k).te)
    BY <2>3, ClauseFacts, SMTT(30) DEF Inside, Within
  <2>5. InTry(k, o)
    BY <2>4, ClauseFacts, SMTT(30) DEF Within, InTry, Guards
  <2>6. QED
    BY <2>4, <2>5, WithinBefore
<1>3. QED
  BY <1>1, <1>2


\* What the instruction at hand may do in a valid method.
LEMMA Kept ==
    ASSUME FrameTypeOK, WellFormed(method)
    PROVE  /\ method \in Methods /\ ip \in DOMAIN method.ir /\ ip \in Nat
           /\ Instr.op \in {"nop", "call"} => Nexts(method, ip) = {ip + 1}
           /\ Instr.op = "branch" => Nexts(method, ip) = Instr.targets
           /\ \A t \in Nexts(method, ip) :
                 t \in DOMAIN method.ir /\ \A k \in Clauses : StaysIn(H(k), ip, t)
           /\ Instr.op = "ret" => \A k \in Clauses : ~InTry(k, ip)
           /\ EndsBody => \E m \in Clauses : InnermostBody(method, m, ip) /\ SuspendedIn(m, ip)
           /\ Instr.op = "endfinally" =>
                 \E m \in Clauses : H(m).kind # "filter" /\ InnermostBody(method, m, ip)
<1>1. method \in Methods /\ ip \in DOMAIN method.ir /\ ip \in Nat
  BY MethodFacts DEF FrameTypeOK
<1>2. Keeps(method, ip)
  BY <1>1 DEF WellFormed
<1>3. /\ Instr.op \in {"nop", "call"} => Nexts(method, ip) = {ip + 1}
      /\ Instr.op = "branch" => Nexts(method, ip) = Instr.targets
  BY DEF Nexts, Instr
<1>4. \A t \in Nexts(method, ip) :
          t \in DOMAIN method.ir /\ \A k \in Clauses : StaysIn(H(k), ip, t)
  BY <1>2 DEF Keeps, H, Clauses
<1>5. Instr.op = "ret" => \A k \in Clauses : ~InTry(k, ip)
  BY <1>2 DEF Keeps, Instr, H, Clauses, Covers, InTry
<1>6. Instr.op = "endfinally" =>
          \E m \in Clauses : H(m).kind # "filter" /\ InnermostBody(method, m, ip)
  BY <1>2 DEF Keeps, Instr, H, Clauses
<1>7. Instr.op = "endfilter" => \E m \in Clauses : InnermostBody(method, m, ip)
  BY <1>2 DEF Keeps, Instr, H, Clauses
<1>8. EndsBody => \E m \in Clauses : InnermostBody(method, m, ip) /\ SuspendedIn(m, ip)
  BY <1>6, <1>7 DEF EndsBody, InnermostBody, SuspendedIn, H
<1>9. QED
  BY <1>1, <1>3, <1>4, <1>5, <1>6, <1>8

\* And a leave, wherever it is.
LEMMA LeaveKept ==
    ASSUME WellFormed(method), NEW i \in DOMAIN method.ir, method.ir[i].op = "leave"
    PROVE  /\ method.ir[i].target \in DOMAIN method.ir
           /\ \A k \in Clauses :
                 /\ LeavesFor(H(k), i, method.ir[i].target)
                 /\ SuspendedIn(k, i) <=> SuspendedIn(k, method.ir[i].target)
<1>1. Keeps(method, i)
  BY DEF WellFormed
<1>2. QED
  BY <1>1 DEF Keeps, H, Clauses, LeavesFor, SuspendedIn, Suspends

\* At the end of a body, where the slot holds a transfer that came from o because of c: every
\* finally around is still to be run for it.
LEMMA StillToRun ==
    ASSUME FrameTypeOK, WellFormed(method), EndsBody, SlotIsLocal, unwind.kind # "nil",
           NEW k \in Clauses, InTry(k, ip)
    PROVE  \E c \in Clauses, o \in DOMAIN method.ir :
              Interrupts(c, unwind, o) /\ InTry(c, o) /\ InTry(k, o) /\ Before(c, k)
                 /\ Within(H(c), H(k).ts, H(k).te)
<1>0. method \in Methods /\ ip \in Nat
  BY Kept
<1>1. PICK m \in Clauses : InnermostBody(method, m, ip) /\ SuspendedIn(m, ip)
  BY Kept
<1>2. Within(H(m), H(k).ts, H(k).te)
  BY <1>0, <1>1, TryAroundBody
<1>3. PICK c \in Clauses, o \in DOMAIN method.ir :
          Interrupts(c, unwind, o) /\ (m = c \/ SuspendedIn(m, H(c).ts))
  BY <1>1 DEF SlotIsLocal
<1>4. o \in Nat /\ InTry(c, o)
  BY <1>0, <1>3, MethodFacts DEF Interrupts
<1>5. QED
  BY <1>0, <1>2, <1>3, <1>4, TryAroundOrigin

LEMMA MovesOn ==
    ASSUME FrameTypeOK, WellFormed(method), outcome = "running", ~EndsBody,
           NEW t \in DOMAIN method.ir, Goto(t), UNCHANGED <<unwind, currentException, caught>>,
           \A k \in Clauses : /\ SuspendedIn(k, ip) <=> SuspendedIn(k, t)
                              /\ InHandler(k, t) => InHandler(k, ip)
                              /\ H(k).kind = "finally" /\ InTry(k, ip) => InTry(k, t)
    PROVE  Moves
<1>1. ip' = t
  BY DEF Goto
<1>2. QED
  BY <1>1 DEF Moves

LEMMA PlainSteps ==
    ASSUME FrameTypeOK, WellFormed(method), outcome = "running", Advances \/ Branch
    PROVE  Moves
<1>1. ~EndsBody
  BY DEF Advances, Branch, AtOp, EndsBody
<1>2. ASSUME NEW t \in DOMAIN method.ir, \A k \in Clauses : StaysIn(H(k), ip, t)
      PROVE  \A k \in Clauses : /\ SuspendedIn(k, ip) <=> SuspendedIn(k, t)
                                /\ InHandler(k, t) => InHandler(k, ip)
                                /\ H(k).kind = "finally" /\ InTry(k, ip) => InTry(k, t)
  BY <1>2 DEF StaysIn, SuspendedIn, Suspends, InHandler, InTry
<1>3. \E t \in DOMAIN method.ir : Goto(t) /\ \A k \in Clauses : StaysIn(H(k), ip, t)
  <2>1. CASE Advances
    BY <2>1, Kept DEF Advances, AtOp
  <2>2. CASE Branch
    BY <2>2, Kept DEF Branch, AtOp
  <2>3. QED
    BY <2>1, <2>2
<1>4. PICK t \in DOMAIN method.ir : Goto(t) /\ \A k \in Clauses : StaysIn(H(k), ip, t)
  BY <1>3
<1>5. UNCHANGED <<unwind, currentException, caught>>
  BY DEF Advances, Branch
<1>6. QED
  BY <1>1, <1>2, <1>4, <1>5, MovesOn

LEMMA LastSteps ==
    ASSUME FrameTypeOK, WellFormed(method), outcome = "running",
           \/ Returns \/ CallFails \/ RethrowOutsideCatch
           \/ EndFinallyOutsideHandler \/ EndFilterOutsideFilter
    PROVE  Stops
<1>1. Returns => \A k \in Clauses : ~InTry(k, ip)
  BY Kept DEF Returns, AtOp
<1>2. QED
  BY <1>1 DEF Stops, Returns, CallFails, RethrowOutsideCatch, EndFinallyOutsideHandler,
              EndFilterOutsideFilter, Fail, Stop, AtOp

\* What is raised here and now.
LEMMA RaiseSteps ==
    ASSUME FrameTypeOK, WellFormed(method), outcome = "running", ~EndsBody,
           NEW ex \in Exceptions, Dispatch(ex, handlersContaining(ip), unwind)
    PROVE  Stops \/ \E n \in Clauses : Catches(n) \/ Enters(n)
<1> DEFINE S == handlersContaining(ip)
           T == Takers(ex, S)
           n == Innermost(T)
<1>0. method \in Methods /\ ip \in Nat /\ S \subseteq Clauses /\ T \subseteq S
  BY Kept, Candidates
<1>1. \A k \in Clauses : H(k).kind = "finally" /\ InTry(k, ip) => k \in T
  BY DEF handlersContaining, Takers
<1>2. CASE T = {}
  <2>1. unwind' = unwind /\ Stop("thrown") /\ UNCHANGED <<currentException, caught>>
    BY <1>2 DEF Dispatch
  <2>2. QED
    BY <1>1, <1>2, <2>1 DEF Stops, Stop, EndsBody
<1>3. CASE T # {}
  <2>1. /\ n \in T /\ n \in Clauses /\ InTry(n, ip)
        /\ \A j \in T \ {n} : Before(n, j)
        /\ H(n).kind \in {"finally", "fault"} => Interrupts(n, RaiseUnwind(ex, Behind(n, S)), ip)
        /\ H(n).kind = "filter" => Interrupts(n, FilterUnwind(ex, Behind(n, S), n), ip)
    BY <1>0, <1>3, FirstTakes
  <2>2. FoundFirst(n, ip)
    <3> SUFFICES ASSUME NEW k \in Clauses, H(k).kind = "finally", InTry(k, ip), k # n
                 PROVE  Within(H(n), H(k).ts, H(k).te)
      BY DEF FoundFirst
    <3>1. Before(n, k)
      BY <1>1, <2>1
    <3>2. ~Within(H(k), H(n).ts, H(n).te)
      BY <1>0, <2>1, <3>1, WithinBefore, Order
    <3>3. QED
      BY <1>0, <2>1, <3>2, FirstIsWithin
  <2>3. Behind(n, S) \in SUBSET Clauses
    BY <1>0, Candidates
  <2>4. CASE H(n).kind = "catch"
    <3>1. unwind' = unwind /\ Catch(n, ex)
      BY <1>3, <2>4 DEF Dispatch
    <3>2. Catches(n)
      BY <2>1, <2>2, <2>4, <3>1 DEF Catches
    <3>3. QED
      BY <2>1, <3>2
  <2>5. CASE H(n).kind \in {"finally", "fault"}
    <3> DEFINE u == RaiseUnwind(ex, Behind(n, S))
    <3>1. Enter(n, H(n).hs, u) /\ UNCHANGED <<currentException, caught>>
      BY <1>3, <2>5 DEF Dispatch
    <3>2. u \in Unwinds /\ u.kind # "nil" /\ Start(H(n)) = H(n).hs
      BY <2>3, <2>5 DEF Unwinds, RaiseUnwind, Start
    <3>3. Enters(n)
      <4>1. Interrupts(n, u, ip) /\ Enter(n, Start(H(n)), u)
        BY <2>1, <2>5, <3>1, <3>2
      <4> HIDE DEF u
      <4>2. QED
        BY <2>1, <2>2, <2>5, <3>1, <3>2, <4>1 DEF Enters
    <3>4. QED
      BY <2>1, <3>3
  <2>6. CASE H(n).kind = "filter"
    <3> DEFINE u == FilterUnwind(ex, Behind(n, S), n)
    <3>1. Enter(n, H(n).fs, u) /\ UNCHANGED <<currentException, caught>>
      BY <1>3, <2>6 DEF Dispatch
    <3>2. u \in Unwinds /\ u.kind # "nil" /\ Start(H(n)) = H(n).fs
      BY <2>1, <2>3, <2>6 DEF Unwinds, FilterUnwind, Start
    <3>3. Enters(n)
      <4>1. Interrupts(n, u, ip) /\ Enter(n, Start(H(n)), u)
        BY <2>1, <2>6, <3>1, <3>2
      <4> HIDE DEF u
      <4>2. QED
        BY <2>1, <2>2, <2>6, <3>1, <3>2, <4>1 DEF Enters
    <3>4. QED
      BY <2>1, <3>3
  <2>7. QED
    BY <1>0, <2>1, <2>4, <2>5, <2>6, ClauseFacts DEF Kinds
<1>4. QED
  BY <1>2, <1>3

\* A leave jumps, or a finally runs first.
LEMMA LeaveSteps ==
    ASSUME FrameTypeOK, WellFormed(method), outcome = "running", Leave
    PROVE  Moves \/ \E n \in Clauses : Enters(n)
<1> DEFINE t == Instr.target
           S == handlersLeaving(ip, t)
           n == Innermost(S)
<1>0. method \in Methods /\ ip \in Nat /\ ip \in DOMAIN method.ir /\ S \in SUBSET Clauses
  BY Kept, Candidates
<1>1. /\ method.ir[ip].op = "leave" /\ method.ir[ip].target = t /\ ~EndsBody
      /\ UNCHANGED <<currentException, caught>> /\ LeaveThrough(S, t, unwind)
  BY DEF Leave, AtOp, Instr, EndsBody
<1>2. /\ t \in DOMAIN method.ir /\ t \in Nat
      /\ \A k \in Clauses : LeavesFor(H(k), ip, t) /\ (SuspendedIn(k, ip) <=> SuspendedIn(k, t))
  BY <1>0, <1>1, LeaveKept, MethodFacts
<1>3. \A k \in Clauses : H(k).kind = "finally" /\ InTry(k, ip) => k \in S \/ InTry(k, t)
  BY DEF handlersLeaving
<1>4. CASE S = {}
  <2>1. Goto(t) /\ UNCHANGED unwind
    BY <1>1, <1>4 DEF LeaveThrough
  <2>2. \A k \in Clauses : /\ SuspendedIn(k, ip) <=> SuspendedIn(k, t)
                           /\ InHandler(k, t) => InHandler(k, ip)
                           /\ H(k).kind = "finally" /\ InTry(k, ip) => InTry(k, t)
    BY <1>2, <1>3, <1>4 DEF LeavesFor, InHandler
  <2> HIDE DEF t
  <2>3. QED
    BY <1>1, <1>2, <2>1, <2>2, MovesOn
<1>5. CASE S # {}
  <2> DEFINE u == LeaveUnwind(t, Behind(n, S))
  <2>1. /\ n \in S /\ n \in Clauses /\ H(n).kind = "finally" /\ InTry(n, ip)
        /\ \A j \in S \ {n} : Before(n, j)
        /\ Interrupts(n, u, ip)
    BY <1>0, <1>1, <1>5, FirstLeaves
  <2>2. ~InTry(n, t)
    BY <2>1 DEF handlersLeaving
  <2>3. FoundFirst(n, ip)
    <3> SUFFICES ASSUME NEW k \in Clauses, H(k).kind = "finally", InTry(k, ip), k # n
                 PROVE  Within(H(n), H(k).ts, H(k).te)
      BY DEF FoundFirst
    <3>1. ~Within(H(k), H(n).ts, H(n).te)
      <4>1. CASE k \in S
        BY <1>0, <2>1, <4>1, WithinBefore, Order
      <4>2. CASE InTry(k, t)
        BY <1>0, <1>2, <2>1, <2>2, <4>2, ClauseFacts, SMTT(30) DEF Within, InTry, Guards
      <4>3. QED
        BY <1>3, <4>1, <4>2
    <3>2. QED
      BY <1>0, <2>1, <3>1, FirstIsWithin
  <2>4. Enter(n, H(n).hs, u)
    BY <1>1, <1>5 DEF LeaveThrough
  <2>5. Behind(n, S) \in SUBSET Clauses
    BY <1>0, Candidates
  <2>6. u \in Unwinds /\ u.kind # "nil" /\ Start(H(n)) = H(n).hs
    BY <1>2, <2>1, <2>5 DEF Unwinds, LeaveUnwind, Start
  <2>7. Enters(n)
    <3> HIDE DEF u
    <3>1. QED
      BY <1>1, <2>1, <2>3, <2>4, <2>6 DEF Enters
  <2>8. QED
    BY <2>1, <2>7
<1>6. QED
  BY <1>4, <1>5

\* At the end of a body, the transfer in the slot goes on.
LEMMA ResumeLeaveSteps ==
    ASSUME FrameTypeOK, WellFormed(method), outcome = "running", SlotIsLocal, EndFinallyOfLeave
    PROVE  Jumps \/ \E n \in Clauses : NextBody(n)
<1> DEFINE t == unwind.target
           P == unwind.pending
           n == Innermost(P)
<1>0. method \in Methods /\ ip \in Nat
  BY Kept
<1>1. /\ EndsBody /\ unwind.kind = "leave"
      /\ UNCHANGED <<currentException, caught>> /\ LeaveThrough(P, t, NoUnwind)
  BY DEF EndFinallyOfLeave, AtOp, EndsBody
<1>2. P \in SUBSET Clauses /\ t \in DOMAIN method.ir /\ t \in Nat
  BY <1>0, <1>1, MethodFacts DEF FrameTypeOK, Unwinds
<1>3. ASSUME NEW k \in Clauses, H(k).kind = "finally", InTry(k, ip)
      PROVE  /\ k \in P \/ InTry(k, t)
             /\ \E c \in Clauses, o \in DOMAIN method.ir : Interrupts(c, unwind, o) /\ InTry(k, o)
  <2>1. PICK c \in Clauses, o \in DOMAIN method.ir :
            Interrupts(c, unwind, o) /\ InTry(k, o) /\ Before(c, k)
    BY <1>1, <1>3, StillToRun
  <2>2. P = Behind(c, handlersLeaving(o, t))
    BY <1>1, <2>1 DEF Interrupts
  <2>3. QED
    BY <1>3, <2>1, <2>2 DEF handlersLeaving, Behind
<1>4. CASE P = {}
  <2>1. Goto(t) /\ unwind' = NoUnwind
    BY <1>1, <1>4 DEF LeaveThrough
  <2>2. QED
    BY <1>1, <1>3, <1>4, <2>1 DEF Jumps
<1>5. CASE P # {}
  <2> DEFINE u == LeaveUnwind(t, Behind(n, P))
  <2>1. n \in P /\ n \in Clauses /\ \A j \in P \ {n} : Before(n, j)
    <3> HIDE DEF P
    <3>1. QED
      BY <1>0, <1>2, <1>5, FirstOf
  <2>2. \A k \in Clauses, i \in DOMAIN method.ir : Interrupts(k, unwind, i) =>
            /\ Before(k, n) /\ InTry(n, i) /\ Interrupts(n, u, i)
            /\ H(n).kind = "finally" /\ ~InTry(n, t)
    <3> SUFFICES ASSUME NEW k \in Clauses, NEW i \in DOMAIN method.ir, Interrupts(k, unwind, i)
                 PROVE  /\ Before(k, n) /\ InTry(n, i) /\ Interrupts(n, u, i)
                        /\ H(n).kind = "finally" /\ ~InTry(n, t)
      OBVIOUS
    <3>1. Before(k, n) /\ H(n).kind = "finally" /\ Interrupts(n, u, i)
      BY <1>0, <1>1, <1>5, NextLeaves
    <3>2. P = Behind(k, handlersLeaving(i, t))
      BY <1>1 DEF Interrupts
    <3>3. InTry(n, i) /\ ~InTry(n, t)
      BY <2>1, <3>2 DEF Behind, handlersLeaving
    <3>4. QED
      BY <3>1, <3>3
  <2>3. PICK c \in Clauses, o \in DOMAIN method.ir : Interrupts(c, unwind, o)
    BY <1>1 DEF SlotIsLocal
  <2>4. H(n).kind = "finally" /\ ~InTry(n, t)
    BY <2>2, <2>3
  <2>5. FoundFirst(n, ip)
    <3> SUFFICES ASSUME NEW k \in Clauses, H(k).kind = "finally", InTry(k, ip), k # n
                 PROVE  Within(H(n), H(k).ts, H(k).te)
      BY DEF FoundFirst
    <3>1. ~Within(H(k), H(n).ts, H(n).te)
      <4>1. CASE k \in P
        BY <1>0, <2>1, <4>1, WithinBefore, Order
      <4>2. CASE InTry(k, t)
        BY <1>0, <1>2, <2>1, <2>4, <4>2, ClauseFacts DEF Within, InTry, Guards
      <4>3. QED
        BY <1>3, <4>1, <4>2
    <3>2. PICK i \in DOMAIN method.ir : InTry(k, i) /\ InTry(n, i)
      BY <1>3, <2>2
    <3>3. i \in Nat
      BY <1>0, MethodFacts
    <3>4. QED
      BY <1>0, <2>1, <3>1, <3>2, <3>3, FirstIsWithin
  <2>6. Enter(n, H(n).hs, u)
    BY <1>1, <1>5 DEF LeaveThrough
  <2>7. Behind(n, P) \in SUBSET Clauses
    BY <1>0, <1>2, Candidates
  <2>8. u \in Unwinds /\ u.kind # "nil" /\ Start(H(n)) = H(n).hs
    BY <1>2, <2>4, <2>7 DEF Unwinds, LeaveUnwind, Start
  <2>9. NextBody(n)
    <3> HIDE DEF u
    <3>1. QED
      BY <1>1, <2>2, <2>4, <2>5, <2>6, <2>8 DEF NextBody
  <2>10. QED
    BY <2>1, <2>9
<1>6. QED
  BY <1>4, <1>5

LEMMA ResumeRaiseSteps ==
    ASSUME FrameTypeOK, WellFormed(method), outcome = "running", SlotIsLocal,
           EndsBody, unwind.kind \in {"raise", "filter"}, ResumeDispatch(unwind.ex, unwind.pending)
    PROVE  Stops \/ \E n \in Clauses : NextCatch(n) \/ NextBody(n)
<1> DEFINE ex == unwind.ex
           P == unwind.pending
           T == Takers(ex, P)
           n == Innermost(T)
<1>0. method \in Methods /\ ip \in Nat
  BY Kept
<1>1. P \in SUBSET Clauses /\ ex \in Exceptions /\ T \subseteq P
  BY Candidates DEF FrameTypeOK, Unwinds
<1>2. ASSUME NEW k \in Clauses, InTry(k, ip)
      PROVE  k \in P /\ \E c \in Clauses, o \in DOMAIN method.ir : Interrupts(c, unwind, o) /\ InTry(k, o)
  <2>1. PICK c \in Clauses, o \in DOMAIN method.ir :
            Interrupts(c, unwind, o) /\ InTry(k, o) /\ Before(c, k)
    BY <1>2, StillToRun
  <2>2. P = Behind(c, handlersContaining(o))
    BY <2>1 DEF Interrupts
  <2>3. QED
    BY <2>1, <2>2 DEF handlersContaining, Behind
<1>3. \A k \in Clauses : H(k).kind = "finally" /\ InTry(k, ip) => k \in T
  BY <1>2 DEF Takers
<1>4. CASE T = {}
  <2>1. Takers(ex, handlersContaining(ip)) = {}
    BY <1>2, <1>4 DEF Takers, handlersContaining
  <2>2. unwind' = NoUnwind /\ Stop("thrown") /\ UNCHANGED <<currentException, caught>>
    BY <1>4, <2>1 DEF ResumeDispatch, Dispatch
  <2>3. QED
    BY <1>3, <1>4, <2>2 DEF Stops, Stop
<1>5. CASE T # {}
  <2>0. Dispatch(ex, P, NoUnwind)
    BY <1>5 DEF ResumeDispatch
  <2>1. n \in T /\ n \in P /\ n \in Clauses /\ \A j \in T \ {n} : Before(n, j)
    <3>1. T \in SUBSET Clauses
      BY <1>1
    <3>2. n \in T /\ \A j \in T \ {n} : Before(n, j)
      <4> HIDE DEF T
      <4>1. QED
        BY <1>0, <1>5, <3>1, FirstOf
    <3>3. QED
      BY <1>1, <3>2
  <2>2. \A k \in Clauses, i \in DOMAIN method.ir : Interrupts(k, unwind, i) =>
            /\ Before(k, n) /\ InTry(n, i)
            /\ H(n).kind \in {"finally", "fault"} => Interrupts(n, RaiseUnwind(ex, Behind(n, P)), i)
            /\ H(n).kind = "filter" => Interrupts(n, FilterUnwind(ex, Behind(n, P), n), i)
    BY <1>0, <1>5, NextTakes
  <2>3. FoundFirst(n, ip)
    <3> SUFFICES ASSUME NEW k \in Clauses, H(k).kind = "finally", InTry(k, ip), k # n
                 PROVE  Within(H(n), H(k).ts, H(k).te)
      BY DEF FoundFirst
    <3>1. ~Within(H(k), H(n).ts, H(n).te)
      BY <1>0, <1>3, <2>1, WithinBefore, Order
    <3>2. PICK i \in DOMAIN method.ir : InTry(k, i) /\ InTry(n, i)
      BY <1>2, <2>2
    <3>3. i \in Nat
      BY <1>0, MethodFacts
    <3>4. QED
      BY <1>0, <2>1, <3>1, <3>2, <3>3, FirstIsWithin
  <2>4. Behind(n, P) \in SUBSET Clauses
    BY <1>0, <1>1, Candidates
  <2>5. CASE H(n).kind = "catch"
    <3>1. unwind' = NoUnwind /\ Catch(n, ex)
      BY <1>5, <2>0, <2>5 DEF Dispatch
    <3>2. \A k \in Clauses, i \in DOMAIN method.ir : Interrupts(k, unwind, i) => Before(k, n) /\ InTry(n, i)
      BY <2>2
    <3>3. NextCatch(n)
      BY <2>1, <2>3, <2>5, <3>1, <3>2 DEF NextCatch
    <3>4. QED
      BY <2>1, <3>3
  <2>6. CASE H(n).kind \in {"finally", "fault"}
    <3> DEFINE u == RaiseUnwind(ex, Behind(n, P))
    <3>1. Enter(n, H(n).hs, u) /\ UNCHANGED <<currentException, caught>>
      BY <1>5, <2>0, <2>6 DEF Dispatch
    <3>2. u \in Unwinds /\ u.kind # "nil" /\ Start(H(n)) = H(n).hs
      BY <1>1, <2>4, <2>6 DEF Unwinds, RaiseUnwind, Start
    <3>3. \A k \in Clauses, i \in DOMAIN method.ir : Interrupts(k, unwind, i) =>
              Before(k, n) /\ InTry(n, i) /\ Interrupts(n, u, i)
      BY <2>2, <2>6
    <3>4. NextBody(n)
      <4> HIDE DEF u
      <4>1. QED
        BY <2>3, <2>6, <3>1, <3>2, <3>3 DEF NextBody
    <3>5. QED
      BY <2>1, <3>4
  <2>7. CASE H(n).kind = "filter"
    <3> DEFINE u == FilterUnwind(ex, Behind(n, P), n)
    <3>1. Enter(n, H(n).fs, u) /\ UNCHANGED <<currentException, caught>>
      BY <1>5, <2>0, <2>7 DEF Dispatch
    <3>2. u \in Unwinds /\ u.kind # "nil" /\ Start(H(n)) = H(n).fs
      BY <1>1, <2>1, <2>4, <2>7 DEF Unwinds, FilterUnwind, Start
    <3>3. \A k \in Clauses, i \in DOMAIN method.ir : Interrupts(k, unwind, i) =>
              Before(k, n) /\ InTry(n, i) /\ Interrupts(n, u, i)
      BY <2>2, <2>7
    <3>4. NextBody(n)
      <4> HIDE DEF u
      <4>1. QED
        BY <2>3, <2>7, <3>1, <3>2, <3>3 DEF NextBody
    <3>5. QED
      BY <2>1, <3>4
  <2>8. QED
    BY <1>0, <2>1, <2>5, <2>6, <2>7, ClauseFacts DEF Kinds
<1>6. QED
  BY <1>4, <1>5

LEMMA AcceptSteps ==
    ASSUME FrameTypeOK, WellFormed(method), outcome = "running", SlotIsLocal, EndFilterAccepts
    PROVE  \E n \in Clauses : Accepts(n)
<1> DEFINE n == unwind.filterHandler
<1>1. /\ EndsBody /\ Instr.op = "endfilter" /\ unwind.kind = "filter" /\ unwind' = NoUnwind
      /\ Catch(n, unwind.ex)
  BY DEF EndFilterAccepts, AtOp, EndsBody
<1>2. n \in Clauses
  BY <1>1 DEF FrameTypeOK, Unwinds
<1>3. FoundFirst(n, ip)
  <2> SUFFICES ASSUME NEW k \in Clauses, H(k).kind = "finally", InTry(k, ip), k # n
               PROVE  Within(H(n), H(k).ts, H(k).te)
    BY DEF FoundFirst
  <2>1. PICK c \in Clauses, o \in DOMAIN method.ir :
            Interrupts(c, unwind, o) /\ Within(H(c), H(k).ts, H(k).te)
    BY <1>1, StillToRun
  <2>2. c = n
    BY <1>1, <2>1 DEF Interrupts
  <2>3. QED
    BY <2>1, <2>2
<1>4. QED
  BY <1>1, <1>2, <1>3 DEF Accepts

\* Every step of a running frame is one of these.
LEMMA StepKinds ==
    ASSUME FrameTypeOK, WellFormed(method), outcome = "running", SlotIsLocal, FrameStep
    PROVE  \/ Stops \/ Moves \/ Jumps
           \/ \E n \in Clauses : Catches(n) \/ Enters(n) \/ NextCatch(n) \/ NextBody(n) \/ Accepts(n)
<1>1. CASE Advances \/ Branch
  BY <1>1, PlainSteps
<1>2. CASE Returns \/ CallFails \/ RethrowOutsideCatch \/ EndFinallyOutsideHandler \/ EndFilterOutsideFilter
  BY <1>2, LastSteps
<1>3. CASE Raises
  BY <1>3, RaiseSteps DEF Raises, AtOp, EndsBody
<1>4. CASE Rethrow
  <2>1. currentException \in Exceptions /\ ~EndsBody
    BY <1>4 DEF Rethrow, FrameTypeOK, AtOp, EndsBody
  <2>2. QED
    BY <1>4, <2>1, RaiseSteps DEF Rethrow
<1>5. CASE Leave
  BY <1>5, LeaveSteps
<1>6. CASE EndFinallyOfLeave
  BY <1>6, ResumeLeaveSteps
<1>7. CASE EndFinallyOfRaise
  BY <1>7, ResumeRaiseSteps DEF EndFinallyOfRaise, AtOp, EndsBody
<1>8. CASE EndFilterRejects
  BY <1>8, ResumeRaiseSteps DEF EndFilterRejects, AtOp, EndsBody
<1>9. CASE EndFilterAccepts
  BY <1>9, AcceptSteps
<1>10. QED
  BY <1>1, <1>2, <1>3, <1>4, <1>5, <1>6, <1>7, <1>8, <1>9 DEF FrameStep

-----------------------------------------------------------------------------
(* Exception handling: the suspended transfers.                            *)

Conts == [handler : Clauses, unwind : Unwinds, origin : DOMAIN method.ir]

LEMMA SuspendedFacts ==
    ASSUME FrameTypeOK
    PROVE  /\ Suspended \in Seq(Conts)
           /\ ~EndsBody => Suspended = conts
           /\ conts = <<>> => Suspended = <<>>
           /\ EndsBody /\ Len(conts) = 1 => Suspended = <<>>
<1>1. conts \in Seq(Conts)
  BY DEF FrameTypeOK, Conts
<1> HIDE DEF Conts
<1>2. ASSUME conts # <<>> PROVE SubSeq(conts, 1, Len(conts) - 1) \in Seq(Conts)
  BY <1>1, <1>2
<1>3. Len(conts) = 1 => SubSeq(conts, 1, Len(conts) - 1) = <<>>
  BY <1>1
<1>4. QED
  BY <1>1, <1>2, <1>3 DEF Suspended

\* Those in whose bodies control stays are kept.
LEMMA Kepts ==
    ASSUME FrameTypeOK, NEW i
    PROVE  /\ Keep(i) \in Seq(Conts)
           /\ Suspended = <<>> => Keep(i) = <<>>
           /\ Len(Suspended) = 1 =>
                 Keep(i) = IF Active(Suspended[1], i) THEN Suspended ELSE <<>>
<1> DEFINE s == Suspended
           P(n) == /\ \A j \in 1..n : Active(s[j], i)
                   /\ n < Len(s) => ~Active(s[n + 1], i)
           S == {n \in 0..Len(s) : n < Len(s) => ~Active(s[n + 1], i)}
           N == CHOOSE n \in 0..Len(s) : P(n)
<1>1. s \in Seq(Conts) /\ Len(s) \in Nat
  BY SuspendedFacts
<1>2. \E n \in 0..Len(s) : P(n)
  <2>1. S \in SUBSET Nat /\ S # {}
    <3>1. Len(s) \in S
      BY <1>1
    <3>2. QED
      BY <1>1, <3>1
  <2>2. PICK n \in S : \A q \in S : n <= q
    <3> HIDE DEF S
    <3>1. QED
      BY <2>1, LeastNumber
  <2>3. ASSUME NEW j \in 1..n PROVE Active(s[j], i)
    <3>1. j - 1 \in 0..Len(s) /\ j - 1 < n /\ (j - 1) + 1 = j /\ j - 1 < Len(s)
      BY <1>1, <2>2, <2>3
    <3>2. j - 1 \notin S
      BY <1>1, <2>2, <3>1
    <3>3. QED
      BY <3>1, <3>2
  <2>4. QED
    BY <2>2, <2>3
<1>3. N \in 0..Len(s) /\ P(N)
  <2> HIDE DEF P
  <2>1. QED
    BY <1>2
<1>4. Keep(i) = SubSeq(s, 1, N)
  BY DEF Keep
<1> HIDE DEF N, S, Conts
<1>5. SubSeq(s, 1, N) \in Seq(Conts)
  BY <1>1, <1>3
<1>6. ASSUME s = <<>> PROVE SubSeq(s, 1, N) = <<>>
  BY <1>1, <1>3, <1>6
<1>7. ASSUME Len(s) = 1 PROVE SubSeq(s, 1, N) = IF Active(s[1], i) THEN s ELSE <<>>
  <2>1. N \in {0, 1}
    BY <1>3, <1>7
  <2>2. N = 1 <=> Active(s[1], i)
    BY <1>3, <1>7, <2>1
  <2>3. SubSeq(s, 1, 1) = s /\ SubSeq(s, 1, 0) = <<>>
    BY <1>1, <1>7
  <2>4. QED
    BY <2>1, <2>2, <2>3
<1>8. QED
  BY <1>4, <1>5, <1>6, <1>7

LEMMA OriginType ==
    ASSUME FrameTypeOK
    PROVE  RaisedAt \in DOMAIN method.ir
<1>1. conts \in Seq(Conts) /\ ip \in DOMAIN method.ir
  BY DEF FrameTypeOK, Conts
<1>2. ASSUME conts # <<>> PROVE conts[Len(conts)] \in Conts
  <2> HIDE DEF Conts
  <2>1. QED
    BY <1>1, <1>2
<1>3. QED
  BY <1>1, <1>2 DEF RaisedAt, InnermostCont, Conts

-----------------------------------------------------------------------------
(* Exception handling: the invariant.                                      *)

\* A frame keeps its types, in the method it was made for.
LEMMA TypesStay ==
    ASSUME FrameTypeOK, WellFormed(method), outcome = "running", SlotIsLocal, FrameStep, method' = method
    PROVE  FrameTypeOK'
<1>0. /\ method \in Methods /\ ip \in DOMAIN method.ir /\ unwind \in Unwinds
      /\ currentException \in Exceptions \cup {NoException}
      /\ caught \in [Clauses -> Exceptions \cup {NoException}]
      /\ outcome = "running"
  BY DEF FrameTypeOK
<1>1. NoUnwind \in Unwinds
  BY DEF Unwinds, NoUnwind
<1>2. ASSUME NEW t \in DOMAIN method.ir, Goto(t)
      PROVE  ip' \in DOMAIN method.ir /\ outcome' = "running" /\ conts' \in Seq(Conts)
  BY <1>0, <1>2, Kepts DEF Goto
<1>3. ASSUME NEW k \in Clauses, NEW ex \in Exceptions, Catch(k, ex)
      PROVE  /\ ip' \in DOMAIN method.ir /\ outcome' = "running" /\ conts' \in Seq(Conts)
             /\ currentException' \in Exceptions /\ caught' \in [Clauses -> Exceptions \cup {NoException}]
  <2>1. H(k).hs \in DOMAIN method.ir
    BY <1>0, Entries
  <2>2. QED
    BY <1>0, <1>2, <1>3, <2>1 DEF Catch
<1>4. ASSUME NEW k \in Clauses, NEW u \in Unwinds, Enter(k, Start(H(k)), u)
      PROVE  /\ ip' \in DOMAIN method.ir /\ outcome' = "running" /\ conts' \in Seq(Conts)
             /\ unwind' \in Unwinds
  <2>1. Start(H(k)) \in DOMAIN method.ir
    BY <1>0, Entries
  <2>2. [handler |-> k, unwind |-> u, origin |-> RaisedAt] \in Conts
    BY OriginType DEF Conts
  <2>3. Keep(Start(H(k))) \in Seq(Conts)
    BY Kepts
  <2>4. conts' \in Seq(Conts)
    <3> HIDE DEF Conts
    <3>1. QED
      BY <1>4, <2>2, <2>3 DEF Enter
  <2>5. QED
    BY <1>0, <1>4, <2>1, <2>4 DEF Enter
<1> DEFINE Typed == /\ ip' \in DOMAIN method.ir
                    /\ unwind' \in Unwinds
                    /\ currentException' \in Exceptions \cup {NoException}
                    /\ outcome' \in {"running", "returned", "thrown", "failed"}
                    /\ conts' \in Seq(Conts)
                    /\ caught' \in [Clauses -> Exceptions \cup {NoException}]
<1>5. CASE Stops
  <2>1. <<>> \in Seq(Conts)
    OBVIOUS
  <2>2. Typed
    BY <1>0, <1>1, <1>5, <2>1 DEF Stops
  <2>3. QED
    BY <2>2, <1>0 DEF FrameTypeOK, Conts, Unwinds, Clauses
<1>6. CASE Moves
  <2>1. Typed
    BY <1>0, <1>2, <1>6 DEF Moves
  <2>2. QED
    BY <2>1, <1>0 DEF FrameTypeOK, Conts, Unwinds, Clauses
<1>7. CASE Jumps
  <2>1. unwind.target \in DOMAIN method.ir
    BY <1>0, <1>7 DEF Jumps, Unwinds
  <2>2. Typed
    BY <1>0, <1>1, <1>2, <1>7, <2>1 DEF Jumps
  <2>3. QED
    BY <2>2, <1>0 DEF FrameTypeOK, Conts, Unwinds, Clauses
<1>8. ASSUME NEW n \in Clauses, Catches(n) \/ NextCatch(n) \/ Accepts(n)
      PROVE  FrameTypeOK'
  <2>1. \E ex \in Exceptions : Catch(n, ex)
    BY <1>0, <1>8 DEF Catches, NextCatch, Accepts, Unwinds
  <2>2. unwind' \in Unwinds
    BY <1>0, <1>1, <1>8 DEF Catches, NextCatch, Accepts
  <2>3. Typed
    BY <1>3, <2>1, <2>2
  <2>4. QED
    BY <2>3, <1>0 DEF FrameTypeOK, Conts, Unwinds, Clauses
<1>9. ASSUME NEW n \in Clauses, Enters(n) \/ NextBody(n)
      PROVE  FrameTypeOK'
  <2>1. \E u \in Unwinds : Enter(n, Start(H(n)), u)
    BY <1>9 DEF Enters, NextBody
  <2>2. UNCHANGED <<currentException, caught>>
    BY <1>9 DEF Enters, NextBody
  <2>3. Typed
    BY <1>0, <1>4, <2>1, <2>2
  <2>4. QED
    BY <2>3, <1>0 DEF FrameTypeOK, Conts, Unwinds, Clauses
<1>10. QED
  BY <1>5, <1>6, <1>7, <1>8, <1>9, StepKinds

\* Entering a clause enters no body but those around all of it.
LEMMA EntersNoOther ==
    ASSUME method \in Methods, WellFormed(method), NEW n \in Clauses, NEW j \in Clauses, j # n,
           NEW x \in {Start(H(n)), H(n).hs}, SuspendedIn(j, x)
    PROVE  /\ SuspendedIn(j, H(n).ts)
           /\ \A i \in Nat : InTry(n, i) => SuspendedIn(j, i)
<1>1. \A i \in Nat : H(n).ts <= i /\ i < H(n).he => SuspendedIn(j, i)
  BY BodyAround
<1>2. QED
  BY <1>1, ClauseFacts DEF InTry, Guards

LEMMA SlotStaysLocal ==
    ASSUME FrameTypeOK, WellFormed(method), outcome = "running", SlotIsLocal, FrameStep, method' = method
    PROVE  outcome' = "running" => SlotIsLocal'
<1>0. method \in Methods /\ ip \in Nat /\ ip \in DOMAIN method.ir
  BY Kept
<1> DEFINE Local(u, i) ==
              \E k \in Clauses, o \in DOMAIN method.ir :
                  /\ Interrupts(k, u, o)
                  /\ \A j \in Clauses : SuspendedIn(j, i) => j = k \/ SuspendedIn(j, H(k).ts)
<1>1. Local(unwind', ip') => SlotIsLocal'
  BY DEF SlotIsLocal, Interrupts, Clauses, H, SuspendedIn, InTry, handlersLeaving, handlersContaining,
         Behind, Before, Width
<1>2. unwind.kind # "nil" => Local(unwind, ip)
  BY DEF SlotIsLocal
<1>3. CASE Stops
  BY <1>3 DEF Stops
<1>4. CASE Moves
  <2>1. unwind' = unwind /\ \A k \in Clauses : SuspendedIn(k, ip) <=> SuspendedIn(k, ip')
    BY <1>4 DEF Moves
  <2>2. unwind.kind # "nil" => Local(unwind', ip')
    BY <1>2, <2>1
  <2>3. QED
    BY <1>1, <2>1, <2>2 DEF SlotIsLocal
<1>5. ASSUME unwind' = NoUnwind PROVE SlotIsLocal'
  BY <1>5 DEF SlotIsLocal, NoUnwind
<1>6. ASSUME NEW n \in Clauses, Catches(n) PROVE SlotIsLocal'
  <2>1. unwind' = unwind /\ ip' = H(n).hs /\ InTry(n, ip) /\ H(n).kind = "catch"
    BY <1>6 DEF Catches, Catch, Goto
  <2>2. \A j \in Clauses : SuspendedIn(j, ip') => SuspendedIn(j, ip)
    BY <1>0, <2>1, EntersNoOther DEF SuspendedIn, Suspends, Filters
  <2>3. unwind.kind # "nil" => Local(unwind', ip')
    BY <1>2, <2>1, <2>2
  <2>4. QED
    BY <1>1, <2>1, <2>3 DEF SlotIsLocal
<1>7. ASSUME NEW n \in Clauses, NEW o \in DOMAIN method.ir, NEW u, Interrupts(n, u, o),
             Enter(n, Start(H(n)), u)
      PROVE  SlotIsLocal'
  <2>1. unwind' = u /\ ip' = Start(H(n))
    BY <1>7 DEF Enter
  <2>2. \A j \in Clauses : SuspendedIn(j, ip') => j = n \/ SuspendedIn(j, H(n).ts)
    BY <1>0, <2>1, EntersNoOther
  <2>3. Local(unwind', ip')
    BY <1>7, <2>1, <2>2
  <2>4. QED
    BY <1>1, <2>3
<1>8. ASSUME NEW n \in Clauses, Enters(n) PROVE SlotIsLocal'
  BY <1>0, <1>7, <1>8 DEF Enters
<1>9. ASSUME NEW n \in Clauses, NextBody(n) PROVE SlotIsLocal'
  <2>1. unwind.kind # "nil"
    BY <1>9 DEF NextBody
  <2>2. PICK c \in Clauses, o \in DOMAIN method.ir : Interrupts(c, unwind, o)
    BY <1>2, <2>1
  <2>3. \E u \in Unwinds : Interrupts(n, u, o) /\ Enter(n, Start(H(n)), u)
    BY <1>9, <2>2 DEF NextBody
  <2>4. QED
    BY <1>7, <2>3
<1>10. QED
  BY <1>3, <1>4, <1>5, <1>6, <1>8, <1>9, StepKinds DEF Jumps, NextCatch, Accepts

\* A continuation is active in the body of its clause.
LEMMA ActiveIs ==
    ASSUME FrameTypeOK, NEW c \in Conts, NEW o, Interrupts(c.handler, c.unwind, o), c.unwind.kind # "nil"
    PROVE  \A i : Active(c, i) <=> SuspendedIn(c.handler, i)
<1>1. c.handler \in Clauses /\ c.unwind.kind \in {"leave", "raise", "filter"}
  BY DEF Conts, Unwinds
<1>2. CASE c.unwind.kind = "leave"
  <2>1. H(c.handler).kind = "finally"
    BY <1>2 DEF Interrupts, handlersLeaving
  <2>2. QED
    BY <1>2, <2>1 DEF Active, SuspendedIn, Suspends, InHandler, InFilter, Filters
<1>3. CASE c.unwind.kind = "raise"
  BY <1>3 DEF Interrupts, Active, SuspendedIn, Suspends, InHandler, InFilter, Filters
<1>4. CASE c.unwind.kind = "filter"
  BY <1>4 DEF Interrupts, Active, SuspendedIn, Suspends, InHandler, InFilter, Filters
<1>5. QED
  BY <1>1, <1>2, <1>3, <1>4

\* What OneSuspended says of the continuation, where there is one.
LEMMA TheSuspended ==
    ASSUME FrameTypeOK, OneSuspended, conts # <<>>
    PROVE  /\ Len(conts) = 1 /\ conts[1] \in Conts /\ conts[1].unwind = unwind /\ unwind.kind # "nil"
           /\ conts[1].handler \in Clauses /\ conts[1].origin \in DOMAIN method.ir
           /\ SuspendedIn(conts[1].handler, ip)
           /\ Interrupts(conts[1].handler, unwind, conts[1].origin)
           /\ InTry(conts[1].handler, conts[1].origin)
           /\ \A i : Active(conts[1], i) <=> SuspendedIn(conts[1].handler, i)
           /\ conts = <<conts[1]>>
<1>1. conts \in Seq(Conts) /\ Len(conts) = 1
  BY DEF FrameTypeOK, OneSuspended, Conts
<1>2. conts[1] \in Conts /\ conts = <<conts[1]>>
  <2> HIDE DEF Conts
  <2>1. QED
    BY <1>1
<1>3. /\ conts[1].unwind = unwind /\ unwind.kind # "nil"
      /\ SuspendedIn(conts[1].handler, ip)
      /\ Interrupts(conts[1].handler, unwind, conts[1].origin)
  BY DEF OneSuspended
<1>4. conts[1].handler \in Clauses /\ conts[1].origin \in DOMAIN method.ir
  BY <1>2 DEF Conts
<1>5. InTry(conts[1].handler, conts[1].origin)
  BY <1>3 DEF Interrupts
<1>6. \A i : Active(conts[1], i) <=> SuspendedIn(conts[1].handler, i)
  BY <1>2, <1>3, ActiveIs
<1>7. QED
  BY <1>1, <1>2, <1>3, <1>4, <1>5, <1>6

\* At the end of a body it is that body's, and the exception or leave goes on from its origin.
LEMMA BodyEnds ==
    ASSUME FrameTypeOK, WellFormed(method), OneSuspended, EndsBody
    PROVE  conts # <<>> /\ Suspended = <<>> /\ RaisedAt = conts[1].origin
<1>1. \E m \in Clauses : SuspendedIn(m, ip)
  BY Kept
<1>2. conts # <<>>
  BY <1>1 DEF OneSuspended
<1>3. Len(conts) = 1
  BY <1>2, TheSuspended
<1>4. QED
  BY <1>2, <1>3, SuspendedFacts DEF RaisedAt, InnermostCont

\* Without nesting, a body in which a guarded instruction is lies within the try.
LEMMA BodyInTry ==
    ASSUME method \in Methods, WellFormed(method), ~NestsSuspension,
           NEW n \in Clauses, H(n).kind # "catch", NEW j \in Clauses, NEW i \in Nat,
           InTry(n, i), SuspendedIn(j, i)
    PROVE  j # n /\ Within(H(j), H(n).ts, H(n).te)
<1>1. j # n
  BY Regions
<1>2. ~SuspendedIn(j, H(n).ts)
  BY GuardsInBody
<1>3. QED
  BY <1>1, <1>2, TryInBody

\* Where the next catch is, no body is suspended any more.
LEMMA NothingAtCatch ==
    ASSUME method \in Methods, WellFormed(method), ~NestsSuspension,
           NEW c \in Clauses, H(c).kind # "catch", NEW n \in Clauses, H(n).kind = "catch",
           Before(c, n), NEW o \in Nat, InTry(c, o), InTry(n, o)
    PROVE  \A j \in Clauses : ~SuspendedIn(j, H(n).hs)
<1> SUFFICES ASSUME NEW j \in Clauses, SuspendedIn(j, H(n).hs) PROVE FALSE
  OBVIOUS
<1>1. j # n
  BY DEF SuspendedIn, Suspends, Filters
<1>2. SuspendedIn(j, o)
  BY <1>1, EntersNoOther
<1>3. Within(H(j), H(c).ts, H(c).te)
  BY <1>2, BodyInTry
<1>4. /\ InHandler(j, H(n).hs) => Within(H(n), H(j).hs, H(j).he)
      /\ InFilter(j, H(n).hs) => Within(H(n), H(j).fs, H(j).hs)
  BY <1>1, StartsWithin
<1>5. Within(H(n), H(c).ts, H(c).te)
  BY <1>3, <1>4, ClauseFacts, SMTT(30) DEF SuspendedIn, Suspends, InHandler, InFilter, Within, Filters
<1>6. QED
  BY <1>5, WithinBefore, Order

\* Nor where a leave goes on to.
LEMMA NothingAtTarget ==
    ASSUME method \in Methods, WellFormed(method), ~NestsSuspension, unwind \in Unwinds,
           NEW c \in Clauses, NEW o \in DOMAIN method.ir, Interrupts(c, unwind, o), unwind.kind = "leave"
    PROVE  \A j \in Clauses : ~SuspendedIn(j, unwind.target)
<1> SUFFICES ASSUME NEW j \in Clauses, SuspendedIn(j, unwind.target) PROVE FALSE
  OBVIOUS
<1> DEFINE t == unwind.target
<1>1. /\ method.ir[o].op = "leave" /\ method.ir[o].target = t /\ InTry(c, o)
      /\ H(c).kind = "finally" /\ ~InTry(c, t)
  BY DEF Interrupts, handlersLeaving
<1>2. o \in Nat /\ t \in Nat
  BY MethodFacts DEF Unwinds
<1>3. SuspendedIn(j, o)
  BY <1>1, LeaveKept
<1>4. Within(H(j), H(c).ts, H(c).te)
  BY <1>1, <1>2, <1>3, BodyInTry
<1>5. QED
  BY <1>1, <1>2, <1>4, ClauseFacts, SMTT(30) DEF Within, InTry, Guards, SuspendedIn, Suspends, Handles, Filters

LEMMA OneStaysSuspended ==
    ASSUME FrameTypeOK, WellFormed(method), outcome = "running", SlotIsLocal, ~NestsSuspension, OneSuspended,
           FrameStep, method' = method
    PROVE  outcome' = "running" => OneSuspended'
<1>0. method \in Methods /\ ip \in Nat /\ ip \in DOMAIN method.ir /\ unwind \in Unwinds
  BY Kept DEF FrameTypeOK
<1> DEFINE c == conts[1]
           m == c.handler
           o == c.origin
           One(s, u, i) ==
              \/ s = <<>> /\ \A k \in Clauses : ~SuspendedIn(k, i)
              \/ /\ Len(s) = 1 /\ s[1].unwind = u /\ u.kind # "nil"
                 /\ SuspendedIn(s[1].handler, i)
                 /\ Interrupts(s[1].handler, u, s[1].origin)
<1>1. One(conts', unwind', ip') => OneSuspended'
  BY DEF OneSuspended, Interrupts, Clauses, H, SuspendedIn, InTry, handlersLeaving, handlersContaining,
         Behind, Before, Width
<1>2. ASSUME conts = <<>>
      PROVE  /\ \A k \in Clauses : ~SuspendedIn(k, ip)
             /\ Suspended = <<>> /\ ~EndsBody /\ RaisedAt = ip
  <2>1. \A k \in Clauses : ~SuspendedIn(k, ip)
    <3>1. Len(conts) # 1
      BY <1>2
    <3>2. QED
      BY <3>1, Zenon DEF OneSuspended
  <2>2. ~EndsBody
    BY <2>1, Kept
  <2>3. QED
    BY <1>2, <2>1, <2>2, SuspendedFacts DEF RaisedAt
<1>3. ASSUME conts # <<>>
      PROVE  /\ Len(conts) = 1 /\ c.unwind = unwind /\ unwind.kind # "nil"
             /\ m \in Clauses /\ o \in DOMAIN method.ir /\ o \in Nat
             /\ SuspendedIn(m, ip) /\ Interrupts(m, unwind, o) /\ InTry(m, o) /\ H(m).kind # "catch"
             /\ \A i : Active(c, i) <=> SuspendedIn(m, i)
             /\ \A j \in Clauses : SuspendedIn(j, ip) => j = m
             /\ EndsBody => Suspended = <<>> /\ RaisedAt = o
             /\ ~EndsBody => Suspended = conts /\ RaisedAt = ip
  <2>1. /\ Len(conts) = 1 /\ c.unwind = unwind /\ unwind.kind # "nil"
        /\ m \in Clauses /\ o \in DOMAIN method.ir
        /\ SuspendedIn(m, ip) /\ Interrupts(m, unwind, o) /\ InTry(m, o)
        /\ \A i : Active(c, i) <=> SuspendedIn(m, i)
    BY <1>3, TheSuspended
  <2>2. o \in Nat /\ H(m).kind # "catch"
    BY <1>0, <2>1, MethodFacts DEF SuspendedIn, Suspends, Filters
  <2>3. \A j \in Clauses : SuspendedIn(j, ip) => j = m
    BY <1>0, <2>1, OneBody
  <2>4. EndsBody => Suspended = <<>> /\ RaisedAt = o
    BY BodyEnds
  <2>5. ~EndsBody => Suspended = conts /\ RaisedAt = ip
    BY SuspendedFacts DEF RaisedAt
  <2>6. QED
    BY <2>1, <2>2, <2>3, <2>4, <2>5
<1> HIDE DEF c, m, o
<1>4. ASSUME conts # <<>>, ~EndsBody, NEW i
      PROVE  Keep(i) = IF SuspendedIn(m, i) THEN conts ELSE <<>>
  <2>1. Len(Suspended) = 1 /\ Suspended[1] = c
    BY <1>3, <1>4 DEF c
  <2>2. QED
    BY <1>3, <1>4, <2>1, Kepts
<1>5. ASSUME Suspended = <<>>, NEW i PROVE Keep(i) = <<>>
  BY <1>5, Kepts
<1>6. CASE Stops
  BY <1>6 DEF Stops
<1>7. CASE Moves
  <2>1. /\ ~EndsBody /\ unwind' = unwind /\ conts' = Keep(ip')
        /\ \A k \in Clauses : SuspendedIn(k, ip) <=> SuspendedIn(k, ip')
    BY <1>7 DEF Moves, Goto
  <2>2. CASE conts = <<>>
    <3>1. conts' = <<>> /\ \A k \in Clauses : ~SuspendedIn(k, ip')
      BY <1>2, <1>5, <2>1, <2>2
    <3>2. QED
      BY <1>1, <3>1
  <2>3. CASE conts # <<>>
    <3>1. conts' = conts
      BY <1>3, <1>4, <2>1, <2>3
    <3>2. One(conts', unwind', ip')
      BY <1>3, <2>1, <2>3, <3>1 DEF c, m, o
    <3>3. QED
      BY <1>1, <3>2
  <2>4. QED
    BY <2>2, <2>3
<1>8. ASSUME NEW n \in Clauses, Catches(n) PROVE OneSuspended'
  <2>1. /\ ~EndsBody /\ unwind' = unwind /\ ip' = H(n).hs /\ conts' = Keep(H(n).hs)
        /\ InTry(n, ip) /\ H(n).kind = "catch"
    BY <1>8 DEF Catches, Catch, Goto
  <2>2. \A j \in Clauses : SuspendedIn(j, ip') => j # n /\ SuspendedIn(j, ip)
    BY <1>0, <2>1, EntersNoOther DEF SuspendedIn, Suspends, Filters
  <2>3. CASE conts = <<>>
    <3>1. conts' = <<>> /\ \A k \in Clauses : ~SuspendedIn(k, ip')
      BY <1>2, <1>5, <2>1, <2>2, <2>3
    <3>2. QED
      BY <1>1, <3>1
  <2>4. CASE conts # <<>> /\ SuspendedIn(m, ip')
    <3>1. conts' = conts
      BY <1>4, <2>1, <2>4
    <3>2. One(conts', unwind', ip')
      BY <1>3, <2>1, <2>4, <3>1 DEF c, m, o
    <3>3. QED
      BY <1>1, <3>2
  <2>5. CASE conts # <<>> /\ ~SuspendedIn(m, ip')
    <3>1. conts' = <<>> /\ \A k \in Clauses : ~SuspendedIn(k, ip')
      BY <1>3, <1>4, <2>1, <2>2, <2>5
    <3>2. QED
      BY <1>1, <3>1
  <2>6. QED
    BY <2>3, <2>4, <2>5
<1>9. ASSUME NEW n \in Clauses, H(n).kind # "catch", NEW u \in Unwinds, u.kind # "nil",
             Interrupts(n, u, RaisedAt), Enter(n, Start(H(n)), u),
             Keep(Start(H(n))) = <<>>
      PROVE  OneSuspended'
  <2>1. /\ unwind' = u /\ ip' = Start(H(n))
        /\ conts' = <<[handler |-> n, unwind |-> u, origin |-> RaisedAt]>>
    BY <1>9 DEF Enter
  <2>2. SuspendedIn(n, ip')
    BY <1>0, <1>9, <2>1, ClauseFacts DEF SuspendedIn, Suspends, Handles, Filters, Start, Kinds
  <2>3. One(conts', unwind', ip')
    BY <1>9, <2>1, <2>2
  <2>4. QED
    BY <1>1, <2>3
<1>10. ASSUME NEW n \in Clauses, Enters(n) PROVE OneSuspended'
  <2>1. ~EndsBody /\ H(n).kind # "catch" /\ InTry(n, ip)
    BY <1>10 DEF Enters
  <2>2. PICK u \in Unwinds : u.kind # "nil" /\ Interrupts(n, u, ip) /\ Enter(n, Start(H(n)), u)
    BY <1>10 DEF Enters
  <2>3. RaisedAt = ip
    BY <1>2, <1>3, <2>1
  <2>4. Keep(Start(H(n))) = <<>>
    <3>1. CASE conts = <<>>
      BY <1>2, <1>5, <3>1
    <3>2. CASE conts # <<>>
      <4>1. m # n /\ Within(H(m), H(n).ts, H(n).te)
        BY <1>0, <1>3, <2>1, <3>2, BodyInTry
      <4>2. ~SuspendedIn(m, Start(H(n)))
        BY <1>0, <1>3, <3>2, <4>1, ClauseFacts
           DEF Within, SuspendedIn, Suspends, Handles, Filters, Start
      <4>3. QED
        BY <1>4, <2>1, <3>2, <4>2
    <3>3. QED
      BY <3>1, <3>2
  <2>5. QED
    BY <1>9, <2>1, <2>2, <2>3, <2>4
<1>11. ASSUME EndsBody
       PROVE  conts # <<>> /\ \A i : Keep(i) = <<>>
  BY <1>2, <1>3, <1>5, <1>11
<1>12. ASSUME NEW n \in Clauses, NextBody(n) PROVE OneSuspended'
  <2>1. EndsBody /\ H(n).kind # "catch"
    BY <1>12 DEF NextBody
  <2>2. m \in Clauses /\ o \in DOMAIN method.ir /\ Interrupts(m, unwind, o) /\ RaisedAt = o
    BY <1>3, <1>11, <2>1
  <2>3. \E u \in Unwinds : u.kind # "nil" /\ Interrupts(n, u, o) /\ Enter(n, Start(H(n)), u)
    BY <1>12, <2>2 DEF NextBody
  <2>4. QED
    BY <1>9, <1>11, <2>1, <2>2, <2>3
<1>13. ASSUME conts' = <<>>, \A j \in Clauses : ~SuspendedIn(j, ip') PROVE OneSuspended'
  BY <1>1, <1>13
<1>14. ASSUME NEW n \in Clauses, NextCatch(n) PROVE OneSuspended'
  <2>1. EndsBody /\ H(n).kind = "catch" /\ ip' = H(n).hs /\ conts' = Keep(H(n).hs)
    BY <1>14 DEF NextCatch, Catch, Goto
  <2>2. m \in Clauses /\ o \in DOMAIN method.ir /\ Interrupts(m, unwind, o) /\ InTry(m, o)
        /\ H(m).kind # "catch" /\ o \in Nat
    BY <1>3, <1>11, <2>1
  <2>3. Before(m, n) /\ InTry(n, o)
    BY <1>14, <2>2 DEF NextCatch
  <2>4. \A j \in Clauses : ~SuspendedIn(j, H(n).hs)
    BY <1>0, <2>1, <2>2, <2>3, NothingAtCatch
  <2>5. QED
    BY <1>11, <1>13, <2>1, <2>4
<1>15. ASSUME NEW n \in Clauses, Accepts(n) PROVE OneSuspended'
  <2>1. EndsBody /\ ip' = H(n).hs /\ conts' = Keep(H(n).hs) /\ unwind.kind = "filter"
        /\ n = unwind.filterHandler
    BY <1>15 DEF Accepts, Catch, Goto
  <2>2. n = m /\ H(n).kind = "filter"
    BY <1>3, <1>11, <2>1 DEF Interrupts
  <2>3. ASSUME NEW j \in Clauses, SuspendedIn(j, H(n).hs) PROVE FALSE
    <3>1. j # n
      BY <1>0, <2>2, <2>3, ClauseFacts DEF SuspendedIn, Suspends, Filters
    <3>2. SuspendedIn(j, H(n).ts)
      BY <1>0, <2>3, <3>1, EntersNoOther
    <3>3. QED
      BY <1>0, <2>2, <3>2, GuardsInBody
  <2>4. QED
    BY <1>11, <1>13, <2>1, <2>3
<1>16. CASE Jumps
  <2>1. EndsBody /\ unwind.kind = "leave" /\ ip' = unwind.target /\ conts' = Keep(unwind.target)
    BY <1>16 DEF Jumps, Goto
  <2>2. m \in Clauses /\ o \in DOMAIN method.ir /\ Interrupts(m, unwind, o)
    BY <1>3, <1>11, <2>1
  <2>3. \A j \in Clauses : ~SuspendedIn(j, unwind.target)
    BY <1>0, <2>1, <2>2, NothingAtTarget
  <2>4. QED
    BY <1>11, <1>13, <2>1, <2>3
<1>17. QED
  BY <1>6, <1>7, <1>8, <1>10, <1>12, <1>14, <1>15, <1>16, StepKinds

\* Of a try and a handler around one instruction, one is within the other.
LEMMA HandlerAround ==
    ASSUME method \in Methods, WellFormed(method), NEW m \in Clauses, NEW k \in Clauses,
           NEW i \in DOMAIN method.ir, i \in Nat, InTry(m, i), InHandler(k, i)
    PROVE  Within(H(m), H(k).hs, H(k).he) \/ Within(H(k), H(m).ts, H(m).te)
<1>1. m # k
  BY Regions
<1>2. Inside(H(m), H(k)) \/ Inside(H(k), H(m)) \/ Alternatives(H(m), H(k))
  BY <1>1, Nesting DEF Nested, Covers, InTry, InHandler
<1>3. QED
  BY <1>2, ClauseFacts, SMTT(30) DEF Inside, Within, Alternatives, InTry, InHandler, Guards, Handles

LEMMA CatchStaysCurrent ==
    ASSUME FrameTypeOK, WellFormed(method), outcome = "running", SlotIsLocal, OneSuspended, CatchIsCurrent,
           ~NestsCatch, FrameStep, method' = method
    PROVE  outcome' = "running" => CatchIsCurrent'
<1>0. method \in Methods /\ ip \in Nat /\ ip \in DOMAIN method.ir
      /\ caught \in [Clauses -> Exceptions \cup {NoException}] /\ unwind \in Unwinds
  BY Kept DEF FrameTypeOK
<1> DEFINE Catcher(k) == H(k).kind \in {"catch", "filter"}
           m == conts[1].handler
           o == conts[1].origin
<1>1. (\A k \in Clauses : Catcher(k) /\ InHandler(k, ip') => currentException' = caught'[k])
        => CatchIsCurrent'
  BY DEF CatchIsCurrent, Clauses, H, InHandler
<1>2. \A k \in Clauses : Catcher(k) /\ InHandler(k, ip) => currentException = caught[k]
  BY DEF CatchIsCurrent
<1>3. ASSUME \A k \in Clauses : Catcher(k) /\ InHandler(k, ip') => InHandler(k, ip),
             UNCHANGED <<currentException, caught>>
      PROVE  CatchIsCurrent'
  BY <1>1, <1>2, <1>3
<1>4. ASSUME NEW n \in Clauses, Catcher(n), NEW ex, Catch(n, ex) PROVE CatchIsCurrent'
  <2>1. currentException' = ex /\ caught' = [caught EXCEPT ![n] = ex] /\ ip' = H(n).hs
    BY <1>4 DEF Catch, Goto
  <2>2. ASSUME NEW k \in Clauses, k # n, Catcher(k), InHandler(k, ip') PROVE FALSE
    <3>1. Within(H(n), H(k).hs, H(k).he)
      BY <1>0, <2>1, <2>2, StartsWithin
    <3>2. InHandler(k, H(n).ts)
      BY <1>0, <3>1, ClauseFacts DEF Within, InHandler, Handles
    <3>3. QED
      BY <1>4, <2>2, <3>2 DEF NestsCatch
  <2>3. caught'[n] = ex
    BY <1>0, <2>1
  <2>4. QED
    BY <1>1, <2>1, <2>2, <2>3
<1>5. ASSUME EndsBody
      PROVE  /\ m \in Clauses /\ o \in DOMAIN method.ir /\ o \in Nat
             /\ SuspendedIn(m, ip) /\ Interrupts(m, unwind, o) /\ InTry(m, o)
             /\ H(m).ts <= ip /\ ip < H(m).he
  <2>1. conts # <<>>
    BY <1>5, BodyEnds
  <2>2. /\ m \in Clauses /\ o \in DOMAIN method.ir
        /\ SuspendedIn(m, ip) /\ Interrupts(m, unwind, o) /\ InTry(m, o)
    BY <2>1, TheSuspended
  <2>3. H(m).ts <= ip /\ ip < H(m).he
    BY <1>0, <2>2, ClauseFacts DEF SuspendedIn, Suspends, Handles, Filters
  <2>4. QED
    BY <1>0, <2>2, <2>3, MethodFacts
<1> HIDE DEF m, o
<1>6. ASSUME EndsBody, NEW k \in Clauses, InHandler(k, o), ~Within(H(k), H(m).ts, H(m).te)
      PROVE  InHandler(k, ip)
  <2>1. Within(H(m), H(k).hs, H(k).he)
    BY <1>0, <1>5, <1>6, HandlerAround
  <2>2. QED
    BY <1>0, <1>5, <1>6, <2>1, ClauseFacts DEF Within, InHandler, Handles
<1>7. ASSUME NEW n \in Clauses, NEW u, Enter(n, Start(H(n)), u), H(n).kind # "catch",
             NEW k \in Clauses, Catcher(k), InHandler(k, ip')
      PROVE  Within(H(n), H(k).hs, H(k).he)
  <2>1. ip' = Start(H(n))
    BY <1>7 DEF Enter
  <2>2. k # n
    BY <1>0, <1>7, <2>1, ClauseFacts DEF InHandler, Handles, Start
  <2>3. QED
    BY <1>0, <1>7, <2>1, <2>2, StartsWithin
<1>8. CASE Stops
  BY <1>8 DEF Stops
<1>9. CASE Moves
  BY <1>3, <1>9 DEF Moves
<1>10. ASSUME NEW n \in Clauses, Catches(n) \/ NextCatch(n) PROVE CatchIsCurrent'
  BY <1>4, <1>10 DEF Catches, NextCatch
<1>11. ASSUME NEW n \in Clauses, Accepts(n) PROVE CatchIsCurrent'
  <2>1. EndsBody /\ unwind.kind = "filter" /\ n = unwind.filterHandler /\ Catch(n, unwind.ex)
    BY <1>11 DEF Accepts
  <2>2. H(n).kind = "filter"
    BY <1>5, <2>1 DEF Interrupts
  <2>3. QED
    BY <1>4, <2>1, <2>2
<1>12. ASSUME NEW n \in Clauses, Enters(n) PROVE CatchIsCurrent'
  <2>1. /\ InTry(n, ip) /\ H(n).kind # "catch" /\ UNCHANGED <<currentException, caught>>
        /\ \E u \in Unwinds : Enter(n, Start(H(n)), u)
    BY <1>12 DEF Enters
  <2>2. ASSUME NEW k \in Clauses, Catcher(k), InHandler(k, ip') PROVE InHandler(k, ip)
    <3>1. Within(H(n), H(k).hs, H(k).he)
      BY <1>7, <2>1, <2>2
    <3>2. QED
      BY <1>0, <2>1, <3>1, ClauseFacts DEF Within, InTry, Guards, InHandler, Handles
  <2>3. QED
    BY <1>3, <2>1, <2>2
<1>13. ASSUME NEW n \in Clauses, NextBody(n) PROVE CatchIsCurrent'
  <2>1. /\ EndsBody /\ H(n).kind # "catch" /\ UNCHANGED <<currentException, caught>>
        /\ \E u \in Unwinds : Enter(n, Start(H(n)), u)
    BY <1>13 DEF NextBody
  <2>2. Before(m, n) /\ InTry(n, o)
    BY <1>5, <1>13, <2>1 DEF NextBody
  <2>3. ASSUME NEW k \in Clauses, Catcher(k), InHandler(k, ip') PROVE InHandler(k, ip)
    <3>1. Within(H(n), H(k).hs, H(k).he)
      BY <1>7, <2>1, <2>3
    <3> DEFINE IsNat(h) == {h.ts, h.te, h.hs, h.he} \subseteq Nat /\ h.ts < h.te /\ h.te <= h.hs /\ h.hs < h.he
    <3>0. IsNat(H(m)) /\ IsNat(H(n)) /\ IsNat(H(k)) /\ o \in Nat
      BY <1>0, <1>5, <2>1, ClauseFacts
    <3>2. InHandler(k, o)
      BY <2>2, <3>0, <3>1 DEF Within, InTry, Guards, InHandler, Handles
    <3>3. ~Within(H(k), H(m).ts, H(m).te)
      <4>1. ~Within(H(n), H(m).ts, H(m).te)
        BY <1>0, <1>5, <2>1, <2>2, WithinBefore, Order
      <4>2. QED
        BY <3>0, <3>1, <4>1 DEF Within
    <3>4. QED
      BY <1>6, <2>1, <3>2, <3>3
  <2>4. QED
    BY <1>3, <2>1, <2>3
<1>14. CASE Jumps
  <2>1. /\ EndsBody /\ unwind.kind = "leave" /\ ip' = unwind.target
        /\ UNCHANGED <<currentException, caught>>
    BY <1>14 DEF Jumps, Goto
  <2>2. /\ method.ir[o].op = "leave" /\ method.ir[o].target = unwind.target
        /\ ~InTry(m, unwind.target)
    BY <1>5, <2>1 DEF Interrupts, handlersLeaving
  <2>3. unwind.target \in Nat
    BY <1>0, <2>1, MethodFacts DEF Unwinds
  <2>4. ASSUME NEW k \in Clauses, InHandler(k, unwind.target) PROVE InHandler(k, ip)
    <3>1. InHandler(k, o)
      BY <1>5, <2>1, <2>2, <2>4, LeaveKept DEF LeavesFor, InHandler
    <3>2. ~Within(H(k), H(m).ts, H(m).te)
      BY <1>0, <1>5, <2>1, <2>2, <2>3, <2>4, ClauseFacts, SMTT(30) DEF Within, InTry, Guards, InHandler, Handles
    <3>3. QED
      BY <1>6, <2>1, <3>1, <3>2
  <2>5. QED
    BY <1>3, <2>1, <2>4
<1>15. QED
  BY <1>8, <1>9, <1>10, <1>11, <1>12, <1>13, <1>14, StepKinds

LEMMA FrameStarts ==
    ASSUME FrameInit, WellFormed(method)
    PROVE  FrameInv
<1>1. /\ method \in Methods /\ ip = 1 /\ unwind = NoUnwind /\ currentException = NoException
      /\ outcome = "running" /\ conts = <<>> /\ caught = [k \in Clauses |-> NoException]
  BY DEF FrameInit
<1>2. 1 \in DOMAIN method.ir
  BY <1>1, MethodFacts DEF WellFormed
<1>3. FrameTypeOK
  <2>1. NoUnwind \in Unwinds
    BY DEF Unwinds, NoUnwind
  <2>2. conts \in Seq([handler : Clauses, unwind : Unwinds, origin : DOMAIN method.ir])
    BY <1>1
  <2>3. caught \in [Clauses -> Exceptions \cup {NoException}]
    BY <1>1
  <2>4. QED
    BY <1>1, <1>2, <2>1, <2>2, <2>3 DEF FrameTypeOK
<1>4. \A k \in Clauses : ~SuspendedIn(k, ip) /\ ~InHandler(k, ip)
  BY <1>1, ClauseFacts DEF SuspendedIn, Suspends, InHandler, Handles, Filters
<1>5. SlotIsLocal /\ OneSuspended /\ CatchIsCurrent
  BY <1>1, <1>4 DEF SlotIsLocal, NoUnwind, OneSuspended, CatchIsCurrent
<1>6. QED
  BY <1>3, <1>5 DEF FrameInv

LEMMA FrameStays ==
    ASSUME FrameInv, WellFormed(method), [FrameNext]_frame
    PROVE  FrameInv'
<1>1. CASE UNCHANGED frame
  <2>1. /\ method' = method /\ ip' = ip /\ unwind' = unwind /\ outcome' = outcome
        /\ currentException' = currentException /\ conts' = conts /\ caught' = caught
    BY <1>1 DEF frame
  <2>2. FrameTypeOK'
    BY <2>1 DEF FrameInv, FrameTypeOK, Unwinds, Clauses
  <2>3. SlotIsLocal => SlotIsLocal'
    BY <2>1 DEF SlotIsLocal, Interrupts, Clauses, H, SuspendedIn, InTry, handlersLeaving,
                handlersContaining, Behind, Before, Width
  <2>4. OneSuspended => OneSuspended'
    BY <2>1 DEF OneSuspended, Interrupts, Clauses, H, SuspendedIn, InTry, handlersLeaving,
                handlersContaining, Behind, Before, Width
  <2>5. CatchIsCurrent => CatchIsCurrent'
    BY <2>1 DEF CatchIsCurrent, Clauses, H, InHandler
  <2>6. NestsSuspension' = NestsSuspension /\ NestsCatch' = NestsCatch
    BY <2>1 DEF NestsSuspension, NestsCatch, Clauses, H, SuspendedIn, InHandler
  <2>7. QED
    BY <2>1, <2>2, <2>3, <2>4, <2>5, <2>6 DEF FrameInv
<1>2. CASE FrameStep /\ UNCHANGED method
  <2>0. outcome = "running"
    BY <1>2 DEF FrameStep, Advances, Branch, Raises, CallFails, Leave, EndFinallyOutsideHandler,
                EndFinallyOfLeave, EndFinallyOfRaise, EndFilterOutsideFilter, EndFilterAccepts,
                EndFilterRejects, RethrowOutsideCatch, Rethrow, Returns, AtOp
  <2>1. FrameTypeOK /\ SlotIsLocal /\ method' = method
    BY <1>2, <2>0 DEF FrameInv
  <2>2. FrameTypeOK'
    BY <1>2, <2>0, <2>1, TypesStay
  <2>3. outcome' = "running" => SlotIsLocal'
    BY <1>2, <2>0, <2>1, SlotStaysLocal
  <2>4. outcome' = "running" /\ ~NestsSuspension' => OneSuspended'
    <3>1. NestsSuspension' = NestsSuspension
      BY <2>1 DEF NestsSuspension, Clauses, H, SuspendedIn
    <3>2. QED
      BY <1>2, <2>0, <2>1, <3>1, OneStaysSuspended DEF FrameInv
  <2>5. outcome' = "running" /\ ~NestsSuspension' /\ ~NestsCatch' => CatchIsCurrent'
    <3>1. NestsSuspension' = NestsSuspension /\ NestsCatch' = NestsCatch
      BY <2>1 DEF NestsSuspension, NestsCatch, Clauses, H, SuspendedIn, InHandler
    <3>2. QED
      BY <1>2, <2>0, <2>1, <3>1, CatchStaysCurrent DEF FrameInv
  <2>6. QED
    BY <2>2, <2>3, <2>4, <2>5 DEF FrameInv
<1>3. QED
  BY <1>1, <1>2 DEF FrameNext, Finished

\* The frame resumes, runs and rethrows what it should.
LEMMA FrameServes ==
    ASSUME FrameInv, WellFormed(method)
    PROVE  UnwindInv
<1>0. FrameTypeOK /\ method \in Methods
  BY DEF FrameInv, FrameTypeOK
<1>1. ResumesWhatItInterrupted
  <2> SUFFICES ASSUME outcome = "running", EndsBody, ~NestsSuspension
               PROVE  conts # <<>> /\ unwind = InnermostCont.unwind
    BY DEF ResumesWhatItInterrupted
  <2>1. OneSuspended
    BY DEF FrameInv
  <2>2. conts # <<>>
    BY <1>0, <2>1, BodyEnds
  <2>3. QED
    BY <1>0, <2>1, <2>2, TheSuspended DEF InnermostCont
<1>2. FaultOnlyForExceptions
  <2> SUFFICES ASSUME outcome = "running", NEW k \in Clauses, H(k).kind = "fault", ip = H(k).hs,
                      ~NestsSuspension
               PROVE  unwind.kind = "raise"
    BY DEF FaultOnlyForExceptions
  <2>1. OneSuspended
    BY DEF FrameInv
  <2>2. SuspendedIn(k, ip)
    BY <1>0, ClauseFacts DEF SuspendedIn, Suspends, Handles
  <2>3. conts # <<>>
    <3>1. Len(<<>>) # 1
      OBVIOUS
    <3>2. QED
      BY <2>1, <2>2, <3>1 DEF OneSuspended
  <2>4. /\ conts[1].handler \in Clauses /\ SuspendedIn(conts[1].handler, ip) /\ unwind.kind # "nil"
        /\ Interrupts(conts[1].handler, unwind, conts[1].origin)
    BY <1>0, <2>1, <2>3, TheSuspended
  <2>5. ip \in DOMAIN method.ir
    BY <1>0 DEF FrameTypeOK
  <2>6. conts[1].handler = k
    BY <1>0, <2>2, <2>4, <2>5, OneBody
  <2>7. unwind.kind \in {"nil", "leave", "raise", "filter"}
    BY <1>0 DEF FrameTypeOK, Unwinds
  <2>8. unwind.kind # "leave" /\ unwind.kind # "filter"
    BY <2>4, <2>6 DEF Interrupts, handlersLeaving
  <2>9. QED
    BY <2>4, <2>7, <2>8
<1>3. RethrowsItsOwn
  BY DEF RethrowsItsOwn, FrameInv, CatchIsCurrent, AtOp
<1>4. QED
  BY <1>1, <1>2, <1>3 DEF UnwindInv

\* In a valid method every handler runs for what it was entered for: endfinally and
\* endfilter go on with the transfer this activation interrupted, a fault handler runs
\* for exceptions only, rethrow raises what its catch was entered with
\* (exceptions.go:104-237, eval.go:977-1010).
THEOREM HandlersResume == FrameSpec => [](WellFormed(method) => UnwindInv)
<1> DEFINE Inv == WellFormed(method) => FrameInv
<1>1. FrameInit => Inv
  BY FrameStarts
<1>2. Inv /\ [FrameNext]_frame => Inv'
  <2> SUFFICES ASSUME Inv, [FrameNext]_frame, WellFormed(method)'
               PROVE  FrameInv'
    OBVIOUS
  <2>1. method' = method
    BY DEF FrameNext, Finished, frame
  <2>2. WellFormed(method)
    BY <2>1
  <2>3. QED
    BY <2>2, FrameStays
<1>3. Inv => (WellFormed(method) => UnwindInv)
  BY FrameServes
<1>4. QED
  BY <1>1, <1>2, <1>3, PTL DEF FrameSpec

-----------------------------------------------------------------------------
(* Exception handling: the order of the handlers.                          *)

\* A catch does not start at the end of another body, nor where another clause starts.
LEMMA CatchStartsAlone ==
    ASSUME FrameTypeOK, WellFormed(method), NEW k \in Clauses, H(k).kind = "catch"
    PROVE  /\ Instr.op = "endfinally" => ip # H(k).hs
           /\ \A n \in Clauses \ {k} : Start(H(n)) # H(k).hs /\ H(n).hs # H(k).hs
<1>0. method \in Methods /\ ip \in Nat /\ ip \in DOMAIN method.ir
  BY Kept
<1>1. ASSUME Instr.op = "endfinally", ip = H(k).hs PROVE FALSE
  <2>1. PICK m \in Clauses : H(m).kind # "filter" /\ InnermostBody(method, m, ip)
    BY <1>1, Kept
  <2>2. H(m).kind # "catch" /\ Handles(H(m), ip)
    BY <2>1 DEF InnermostBody, Suspends, Filters, H
  <2>3. Covers(H(k), ip) /\ m # k
    BY <1>0, <1>1, <2>2, ClauseFacts DEF Covers, Handles
  <2>4. Inside(H(m), H(k))
    BY <2>1, <2>3 DEF InnermostBody, H, Clauses
  <2>5. QED
    BY <1>0, <1>1, <2>2, <2>4, ClauseFacts DEF Inside, Within, Handles
<1>2. ASSUME NEW n \in Clauses \ {k}, NEW x \in {Start(H(n)), H(n).hs}, x = H(k).hs PROVE FALSE
  <2>1. InHandler(k, x)
    BY <1>0, <1>2, ClauseFacts DEF InHandler, Handles
  <2>2. Within(H(n), H(k).hs, H(k).he)
    BY <1>0, <1>2, <2>1, StartsWithin
  <2>3. QED
    BY <1>0, <1>2, <2>2, ClauseFacts DEF Within, Start
<1>3. QED
  BY <1>1, <1>2

LEMMA StepRuns ==
    ASSUME FrameStep
    PROVE  outcome = "running"
BY DEF FrameStep, Advances, Branch, Raises, CallFails, Leave, EndFinallyOutsideHandler, EndFinallyOfLeave,
       EndFinallyOfRaise, EndFilterOutsideFilter, EndFilterAccepts, EndFilterRejects,
       RethrowOutsideCatch, Rethrow, Returns, AtOp

LEMMA FinallysRun ==
    ASSUME FrameInv, WellFormed(method), FrameStep, NEW k \in Clauses, H(k).kind = "finally", InTry(k, ip)
    PROVE  \/ outcome' = "failed"
           \/ outcome' = "running" /\ (InTry(k, ip') \/ ip' = H(k).hs)
<1>1. FrameTypeOK /\ outcome = "running" /\ SlotIsLocal /\ method \in Methods
  BY StepRuns DEF FrameInv, FrameTypeOK
<1>2. CASE Stops
  BY <1>2 DEF Stops
<1>3. CASE Moves
  BY <1>1, <1>3 DEF Moves, Goto
<1>4. CASE Jumps
  BY <1>1, <1>4 DEF Jumps, Goto
<1>5. ASSUME NEW n \in Clauses, FoundFirst(n, ip), NEW x \in {Start(H(n)), H(n).hs},
             ip' = x, outcome' = "running", n = k => x = H(k).hs
      PROVE  InTry(k, ip') \/ ip' = H(k).hs
  <2>1. n = k \/ Within(H(n), H(k).ts, H(k).te)
    BY <1>5 DEF FoundFirst
  <2>2. Within(H(n), H(k).ts, H(k).te) => InTry(k, x)
    BY <1>1, <1>5, ClauseFacts DEF Within, InTry, Guards, Start
  <2>3. QED
    BY <1>5, <2>1, <2>2
<1>6. ASSUME NEW n \in Clauses, Catches(n) \/ NextCatch(n) \/ Accepts(n)
      PROVE  outcome' = "running" /\ (InTry(k, ip') \/ ip' = H(k).hs)
  <2>1. FoundFirst(n, ip) /\ ip' = H(n).hs /\ outcome' = "running"
    BY <1>1, <1>6 DEF Catches, NextCatch, Accepts, Catch, Goto
  <2>2. QED
    BY <1>5, <2>1
<1>7. ASSUME NEW n \in Clauses, Enters(n) \/ NextBody(n)
      PROVE  outcome' = "running" /\ (InTry(k, ip') \/ ip' = H(k).hs)
  <2>1. FoundFirst(n, ip) /\ ip' = Start(H(n)) /\ outcome' = "running"
    BY <1>1, <1>7 DEF Enters, NextBody, Enter
  <2>2. n = k => Start(H(n)) = H(k).hs
    BY DEF Start
  <2>3. QED
    BY <1>5, <2>1, <2>2
<1>8. QED
  BY <1>1, <1>2, <1>3, <1>4, <1>6, <1>7, StepKinds

LEMMA FirstCatches ==
    ASSUME FrameInv, WellFormed(method), FrameStep,
           Instr.op = "endfinally", unwind.kind \in {"raise", "filter"}, ~NestsSuspension
    PROVE  LET matching == {k \in handlersContaining(RaisedAt) :
                              H(k).kind = "catch" /\ Matches(unwind.ex, H(k).type)}
           IN  /\ outcome' = "thrown" => matching = {}
               /\ \A k \in Clauses : H(k).kind = "catch" /\ ip' = H(k).hs =>
                     k \in matching /\ \A j \in matching \ {k} : Before(k, j)
<1> DEFINE matching == {k \in handlersContaining(RaisedAt) :
                          H(k).kind = "catch" /\ Matches(unwind.ex, H(k).type)}
           T == Takers(unwind.ex, unwind.pending)
           m == conts[1].handler
           Good == /\ outcome' = "thrown" => matching = {}
                   /\ \A k \in Clauses : H(k).kind = "catch" /\ ip' = H(k).hs =>
                         k \in matching /\ \A j \in matching \ {k} : Before(k, j)
<1>1. FrameTypeOK /\ outcome = "running" /\ SlotIsLocal /\ OneSuspended /\ method \in Methods /\ EndsBody
  BY StepRuns DEF FrameInv, FrameTypeOK, EndsBody
<1>2. conts # <<>> /\ RaisedAt = conts[1].origin
  BY <1>1, BodyEnds
<1>3. m \in Clauses /\ Interrupts(m, unwind, RaisedAt) /\ RaisedAt \in DOMAIN method.ir
  BY <1>1, <1>2, TheSuspended
<1>4. /\ unwind.pending = Behind(m, handlersContaining(RaisedAt))
      /\ \A j \in matching : Before(m, j)
  BY <1>3 DEF Interrupts
<1>5. matching \subseteq T
  BY <1>4 DEF Takers, Behind
<1>6. \A k \in T : H(k).kind = "catch" => k \in matching
  BY <1>4 DEF Takers, Behind
<1>7. CASE Stops
  <2>1. T = {} /\ ip' = ip
    BY <1>7 DEF Stops
  <2>2. \A k \in Clauses : H(k).kind = "catch" => ip' # H(k).hs
    BY <1>1, <2>1, CatchStartsAlone
  <2>3. QED
    BY <1>5, <2>1, <2>2
<1>8. ASSUME NEW n \in Clauses, NextCatch(n) PROVE Good
  <2>1. /\ H(n).kind = "catch" /\ n \in T /\ \A j \in T \ {n} : Before(n, j)
        /\ ip' = H(n).hs /\ outcome' = "running"
    BY <1>1, <1>8 DEF NextCatch, Catch, Goto
  <2>2. \A k \in Clauses : H(k).kind = "catch" /\ ip' = H(k).hs => k = n
    BY <1>1, <2>1, CatchStartsAlone
  <2>3. QED
    BY <1>5, <1>6, <2>1, <2>2
<1>9. ASSUME NEW n \in Clauses, NextBody(n) PROVE Good
  <2>1. H(n).kind # "catch" /\ ip' = Start(H(n)) /\ outcome' = "running"
    BY <1>1, <1>9 DEF NextBody, Enter
  <2>2. \A k \in Clauses : H(k).kind = "catch" => ip' # H(k).hs
    BY <1>1, <2>1, CatchStartsAlone
  <2>3. QED
    BY <2>1, <2>2
<1>10. ~Moves /\ ~Jumps /\ \A n \in Clauses : ~Catches(n) /\ ~Enters(n) /\ ~Accepts(n)
  BY <1>1 DEF Moves, Jumps, Catches, Enters, Accepts
<1>11. Good
  BY <1>1, <1>7, <1>8, <1>9, <1>10, StepKinds
<1>12. QED
  BY <1>11

\* In a valid method no leave and no exception gets past a finally, whatever was nested
\* in what, and an exception whose search goes on behind a body ends up in the first
\* catch around the place it was raised at (exceptions.go:78-237).
THEOREM HandlersInOrder == FrameSpec /\ WellFormed(method) => HandlersRunInOrder
<1> DEFINE Inv == WellFormed(method) /\ FrameInv
<1>1. FrameInit /\ WellFormed(method) => Inv
  BY FrameStarts
<1>2. Inv /\ [FrameNext]_frame => Inv'
  <2> SUFFICES ASSUME Inv, [FrameNext]_frame PROVE Inv'
    OBVIOUS
  <2>1. method' = method
    BY DEF FrameNext, Finished, frame
  <2>2. QED
    BY <2>1, FrameStays
<1>3. ASSUME Inv, [FrameNext]_frame
      PROVE  [\A k \in Clauses :
                H(k).kind = "finally" /\ InTry(k, ip) /\ outcome = "running" =>
                    \/ outcome' = "failed"
                    \/ outcome' = "running" /\ (InTry(k, ip') \/ ip' = H(k).hs)]_frame
  BY <1>3, FinallysRun DEF FrameNext, Finished
<1>4. ASSUME Inv, [FrameNext]_frame
      PROVE  [LET matching == {k \in handlersContaining(RaisedAt) :
                                H(k).kind = "catch" /\ Matches(unwind.ex, H(k).type)}
              IN  Instr.op = "endfinally" /\ unwind.kind \in {"raise", "filter"} /\ ~NestsSuspension =>
                    /\ outcome' = "thrown" => matching = {}
                    /\ \A k \in Clauses : H(k).kind = "catch" /\ ip' = H(k).hs =>
                          k \in matching /\ \A j \in matching \ {k} : Before(k, j)]_frame
  BY <1>4, FirstCatches DEF FrameNext, Finished
<1>5. QED
  BY <1>1, <1>2, <1>3, <1>4, PTL DEF FrameSpec, HandlersRunInOrder, NoFinallySkipped, FirstMatchingCatch

-----------------------------------------------------------------------------
(* Virtual dispatch: the walk along the bases.                            *)

Allowed == program \in Programs /\ Compiles(program) /\ Plain(program)

\* No class below a has a method of the name.
NoneBelow(a) == \A j \in 1..(a - 1) : ~Declares(program, j)

PlainInv ==
    /\ Allowed
    /\ at \in Classes
    /\ pc = "explicit" => program.virtual /\ at = 1
    /\ pc = "walk" => program.virtual /\ Explicits = {} /\ NoneBelow(at)
    /\ pc = "object" => program.virtual
    /\ pc \in {"object", "declared"} /\ program.virtual =>
           Explicits = {} /\ NoneBelow(Root)
    /\ pc = "declared" /\ program.virtual => ~program.object
    /\ RightMethodRuns

IInv == Plain(program) => PlainInv

\* All that is used of the constants: there is a class.
LEMMA DepthIsPositive == Depth \in Nat /\ Depth >= 1
BY VirtualDispatchAssumption DEF VirtualDispatchAssumption

LEMMA ClassesAreNumbers ==
    /\ \A k : k \in Classes <=> k \in Nat /\ 1 <= k /\ k <= Depth
    /\ Classes \subseteq Nat
    /\ Root = Depth + 1 /\ Interface = 0 /\ Root # Interface
    /\ Root \notin Classes /\ Interface \notin Classes
BY DepthIsPositive DEF Classes, Root, Interface

USE DepthIsPositive, ClassesAreNumbers

\* What fills a slot has the name.
LEMMA FillingDeclares ==
    ASSUME NEW p, NEW j, NEW k, SameSlot(p, j, k)
    PROVE  Declares(p, j)
BY DEF SameSlot

\* A set of natural numbers that is not empty has a least element.
LEMMA LeastExists ==
    ASSUME NEW S, S \subseteq Nat, S # {}
    PROVE  Nearest(S) \in S /\ \A j \in S : Nearest(S) <= j
<1>1. PICK x \in S : \A y \in S : ~(<<y, x>> \in OpToRel(<, Nat))
  BY NatLessThanWellFounded, WFMin
<1>2. \A y \in S : x <= y
  <2> SUFFICES ASSUME NEW y \in S PROVE x <= y
    OBVIOUS
  <2>1. <<y, x>> \in Nat \X Nat /\ ~(<<y, x>>[1] < <<y, x>>[2])
    BY <1>1 DEF OpToRel
  <2> QED BY <2>1
<1> QED BY <1>2 DEF Nearest

\* The least element is what Nearest chooses.
LEMMA NearestIs ==
    ASSUME NEW S, S \subseteq Nat, NEW x \in S, \A j \in S : x <= j
    PROVE  Nearest(S) = x
<1>1. Nearest(S) \in S /\ \A j \in S : Nearest(S) <= j
  BY LeastExists
<1>2. Nearest(S) \in Nat /\ x \in Nat /\ Nearest(S) <= x /\ x <= Nearest(S)
  BY <1>1
<1> QED BY <1>2

\* The method a name at class k stands for, when there is one.
LEMMA NamedDeclares ==
    ASSUME NEW p, NEW k \in Classes, DeclaresAbove(p, k)
    PROVE  Named(p, k) \in k..Depth /\ Named(p, k) \in Classes /\ Declares(p, Named(p, k))
<1> DEFINE S == {j \in k..Depth : Declares(p, j)}
<1>1. S \subseteq Nat /\ S # {}
  BY DEF DeclaresAbove
<1>2. Nearest(S) \in S
  BY <1>1, LeastExists
<1> QED BY <1>2 DEF Named

\* Without hiding, the nearest method of the name fills the slot of each above.
LEMMA SlotIsNearest ==
    ASSUME NEW p, Plain(p),
           NEW n \in Classes, Declares(p, n),
           NEW a \in Classes, Declares(p, a), \A j \in 1..(a - 1) : ~Declares(p, j)
    PROVE  Slot(p, n) = Method(a)
<1> DEFINE filling == {j \in 1..n : j = n \/ SameSlot(p, j, n)}
<1>0. \A j \in Nat \ {0} : Declares(p, j) => a <= j
  <2> SUFFICES ASSUME NEW j \in Nat \ {0}, Declares(p, j), ~(a <= j) PROVE FALSE
    OBVIOUS
  <2>1. j \in 1..(a - 1)
    OBVIOUS
  <2> QED BY <2>1
<1>1. a <= n
  BY <1>0
<1>2. \A i \in a..(n - 1) : ~OwnSlot(p, i)
  <2> SUFFICES ASSUME NEW i \in a..(n - 1), OwnSlot(p, i) PROVE FALSE
    OBVIOUS
  <2>1. a \in Nat /\ n \in Nat /\ 1 <= a /\ n <= Depth
    OBVIOUS
  <2>2. i \in Nat /\ a <= i /\ i <= n - 1
    BY <2>1
  <2>3. i \in Classes /\ n \in (i + 1)..Depth
    BY <2>1, <2>2
  <2>4. Hides(p, i)
    BY <2>3 DEF Hides
  <2> QED BY <2>3, <2>4 DEF Plain
<1>3. a \in filling
  <2>1. a \in 1..n
    BY <1>1
  <2> QED BY <1>2, <2>1 DEF SameSlot
<1>4. \A j \in filling : a <= j
  <2> SUFFICES ASSUME NEW j \in filling PROVE a <= j
    OBVIOUS
  <2>1. j \in Nat \ {0} /\ (j = n \/ Declares(p, j))
    BY FillingDeclares
  <2> QED BY <1>0, <1>1, <2>1
<1>5. filling \subseteq Nat
  OBVIOUS
<1>6. Nearest(filling) = a
  BY <1>3, <1>4, <1>5, NearestIs
<1>7. a # Root
  OBVIOUS
<1> QED BY <1>6, <1>7 DEF Slot

\* Object's method is in a slot of its own as well: the nearest override fills it.
LEMMA SlotOfObject ==
    ASSUME NEW p, Plain(p), p.object
    PROVE  /\ (\A j \in Classes : ~Declares(p, j)) => Slot(p, Root) = ObjectNative
           /\ \A a \in Classes : Declares(p, a) /\ (\A j \in 1..(a - 1) : ~Declares(p, j))
                                  => Slot(p, Root) = Method(a)
<1> DEFINE filling == {j \in 1..Root : j = Root \/ SameSlot(p, j, Root)}
<1>1. Root \in filling /\ filling \subseteq Nat
  OBVIOUS
<1>2. \A i \in Classes : ~OwnSlot(p, i)
  BY DEF Plain, Hides
<1>3. ASSUME \A j \in Classes : ~Declares(p, j) PROVE Slot(p, Root) = ObjectNative
  <2>1. \A j \in filling : Root <= j
    <3> SUFFICES ASSUME NEW j \in filling, j # Root PROVE FALSE
      OBVIOUS
    <3>1. j \in Classes /\ Declares(p, j)
      BY FillingDeclares
    <3> QED BY <1>3, <3>1
  <2>2. Nearest(filling) = Root
    BY <1>1, <2>1, NearestIs
  <2> QED BY <2>2 DEF Slot
<1>4. ASSUME NEW a \in Classes, Declares(p, a), \A j \in 1..(a - 1) : ~Declares(p, j)
      PROVE  Slot(p, Root) = Method(a)
  <2>1. a \in filling
    <3>1. a \in 1..Root /\ \A i \in a..(Root - 1) : i \in Classes
      OBVIOUS
    <3> QED BY <1>2, <1>4, <3>1 DEF SameSlot
  <2>2. \A j \in filling : a <= j
    <3> SUFFICES ASSUME NEW j \in filling, ~(a <= j) PROVE FALSE
      OBVIOUS
    <3>1. j \in 1..(a - 1) /\ j # Root
      OBVIOUS
    <3>2. Declares(p, j)
      BY <3>1, FillingDeclares
    <3> QED BY <1>4, <3>1, <3>2
  <2>3. Nearest(filling) = a /\ a # Root
    BY <1>1, <2>1, <2>2, NearestIs
  <2> QED BY <2>3 DEF Slot
<1> QED BY <1>3, <1>4

-----------------------------------------------------------------------------

\* What the two steps that run a method of the chain run is the target.
LEMMA NearestIsTarget ==
    ASSUME Allowed, program.virtual, Explicits = {},
           NEW a \in Classes, Declares(program, a), NoneBelow(a)
    PROVE  Target(program) = Method(a)
<1> USE DEF Allowed
<1>1. ASSUME NEW k \in Classes, DeclaresAbove(program, k)
      PROVE  Slot(program, Named(program, k)) = Method(a)
  BY <1>1, NamedDeclares, SlotIsNearest DEF NoneBelow
<1>2. CASE program.names = Interface
  <2>1. Listers(program) \subseteq Nat /\ Listers(program) # {}
    BY <1>2 DEF Compiles, Listers
  <2> DEFINE k == Nearest(Listers(program))
  <2>2. k \in Listers(program)
    BY <2>1, LeastExists
  <2>3. k \in Classes /\ program.implements[k] = "implicit"
    BY <1>2, <2>2 DEF Listers, Lists, Explicits, Programs, Implementations
  <2>4. DeclaresAbove(program, k)
    BY <2>3 DEF Compiles
  <2> QED BY <1>1, <1>2, <2>3, <2>4 DEF Target
<1>3. CASE program.names = Root
  <2>1. program.object
    BY <1>3 DEF Compiles
  <2>2. Root # Interface
    OBVIOUS
  <2> QED BY <1>3, <2>1, <2>2, SlotOfObject DEF Target, NoneBelow
<1>4. CASE program.names \in Classes
  <2>1. program.names # Interface /\ program.names # Root
    BY <1>4
  <2>2. DeclaresAbove(program, program.names)
    BY <1>4, <2>1 DEF Compiles, HostCall, DeclaresAbove
  <2> QED BY <1>1, <1>4, <2>1, <2>2 DEF Target
<1> QED BY <1>2, <1>3, <1>4 DEF Programs

\* A call that reaches System.Object, or the method it names, had no other.
LEMMA ObjectIsTarget ==
    ASSUME Allowed, program.virtual, Explicits = {}, NoneBelow(Root)
    PROVE  program.object /\ Target(program) = ObjectNative
<1> USE DEF Allowed
<1>1. \A k \in Classes : ~Declares(program, k)
  BY DEF NoneBelow
<1>2. \A k \in Classes : ~DeclaresAbove(program, k)
  BY <1>1 DEF DeclaresAbove
<1>3. program.names # Interface
  <2> SUFFICES ASSUME program.names = Interface PROVE FALSE
    OBVIOUS
  <2>1. PICK k \in Classes : Lists(program, k)
    BY DEF Compiles, Listers
  <2>2. program.implements[k] = "implicit"
    BY <2>1 DEF Lists, Explicits, Programs, Implementations
  <2> QED BY <1>2, <2>2 DEF Compiles
<1>4. program.names = Root /\ program.object
  BY <1>1, <1>2, <1>3 DEF Compiles, HostCall
<1> QED BY <1>1, <1>3, <1>4, SlotOfObject DEF Target

\* A plain call, as to a base's method or a constructor, runs what it names.
LEMMA DeclaredIsTarget ==
    ASSUME Allowed, ~program.virtual, program.names \in Classes
    PROVE  Resolves(program.names) /\ Target(program) = Method(program.names)
<1> USE DEF Allowed
<1> DEFINE n == program.names
<1>1. n # Interface /\ n # Root
  OBVIOUS
<1>2. Declares(program, n)
  BY <1>1 DEF Compiles, HostCall
<1>3. Named(program, n) = n
  <2> DEFINE S == {j \in n..Depth : Declares(program, j)}
  <2>1. n \in S /\ S \subseteq Nat /\ \A j \in S : n <= j
    BY <1>2
  <2> QED BY <2>1, NearestIs DEF Named
<1>4. program.broken = {}
  BY DEF Plain
<1> QED BY <1>1, <1>2, <1>3, <1>4 DEF Target, Resolves, Declares, OwnSlot

\* In a plain program a class resolves the name just when it declares it.
LEMMA ResolvesIffDeclares ==
    ASSUME Allowed, NEW k \in Classes
    PROVE  Resolves(k) <=> Declares(program, k)
BY DEF Plain, Allowed, Resolves, Declares, OwnSlot, Programs, Declarations

\* The one class with an explicit implementation is the one the CLI selects.
LEMMA ExplicitIsTarget ==
    ASSUME Allowed, Explicits # {}
    PROVE  /\ Nearest(Explicits) \in Classes \ program.broken
           /\ Target(program) = Explicit(Nearest(Explicits))
<1> USE DEF Allowed
<1>1. program.names = Interface /\ Explicits \subseteq Listers(program)
  BY DEF Explicits, Listers, Lists
<1>2. Listers(program) \subseteq Nat /\ Explicits \subseteq Classes
  BY DEF Listers, Explicits
<1>3. Nearest(Explicits) \in Explicits /\ Nearest(Listers(program)) \in Listers(program)
  BY <1>1, <1>2, LeastExists
<1>4. Nearest(Listers(program)) = Nearest(Explicits)
  BY <1>1, <1>3 DEF Plain
<1>5. program.implements[Nearest(Explicits)] = "explicit" /\ program.broken = {}
  BY <1>1, <1>3 DEF Explicits, Plain
<1> QED BY <1>1, <1>2, <1>3, <1>4, <1>5 DEF Target

-----------------------------------------------------------------------------

LEMMA InvInit == Plain(program) /\ Init => PlainInv
BY DEF Init, PlainInv, Allowed, RightMethodRuns

\* A step that runs the target and ends the call keeps the invariant.
LEMMA RunKeeps ==
    ASSUME PlainInv, NEW m, Run(m), m = Target(program)
    PROVE  PlainInv'
<1>1. program' = program /\ at' = at /\ pc' = "done" /\ ran' = Target(program)
  BY DEF Run
<1>2. Allowed' /\ Target(program)' = Target(program)
  BY <1>1 DEF PlainInv, Allowed
<1> QED BY <1>1, <1>2 DEF PlainInv, RightMethodRuns

LEMMA InvStep ==
    ASSUME PlainInv, [Next]_vars
    PROVE  PlainInv'
<1>1. CASE TryExplicit
  <2>1. CASE Explicits # {}
    <3>1. Run(Explicit(Nearest(Explicits)))
      BY <1>1, <2>1, ExplicitIsTarget DEF TryExplicit, PlainInv
    <3> QED BY <2>1, <3>1, ExplicitIsTarget, RunKeeps DEF PlainInv
  <2>2. CASE Explicits = {}
    <3>1. at' = 1 /\ pc' = "walk" /\ ran' = ran /\ program' = program /\ program.virtual
      BY <1>1, <2>2 DEF TryExplicit, GoTo, PlainInv
    <3>2. NoneBelow(at)'
      BY <3>1 DEF NoneBelow
    <3>3. Explicits' = {} /\ Allowed' /\ RightMethodRuns' /\ at' \in Classes
      BY <2>2, <3>1 DEF Explicits, PlainInv, Allowed, RightMethodRuns
    <3> QED BY <3>1, <3>2, <3>3 DEF PlainInv
  <2> QED BY <2>1, <2>2
<1>2. CASE TryAncestor
  <2>1. Run(Method(at)) /\ Declares(program, at)
    BY <1>2, ResolvesIffDeclares DEF TryAncestor, PlainInv
  <2>2. Target(program) = Method(at)
    BY <1>2, <2>1, NearestIsTarget DEF TryAncestor, PlainInv
  <2> QED BY <2>1, <2>2, RunKeeps
<1>3. CASE NextAncestor
  <2>1. program' = program /\ ran' = ran /\ program.virtual /\ Explicits = {}
    BY <1>3 DEF NextAncestor, GoTo, PlainInv
  <2>2. Explicits' = {} /\ Allowed' /\ RightMethodRuns'
    BY <2>1 DEF Explicits, PlainInv, Allowed, RightMethodRuns
  <2>3. at \in Classes /\ NoneBelow(at) /\ ~Declares(program, at)
    BY <1>3, ResolvesIffDeclares DEF NextAncestor, PlainInv
  <2>4. NoneBelow(at + 1)
    BY <2>3 DEF NoneBelow
  <2>5. CASE at < Depth
    <3>1. at' = at + 1 /\ pc' = "walk"
      BY <1>3, <2>5 DEF NextAncestor, PlainInv
    <3>2. at' \in Classes
      BY <2>3, <2>5, <3>1
    <3>3. NoneBelow(at)'
      BY <2>1, <2>4, <3>1 DEF NoneBelow
    <3> QED BY <2>1, <2>2, <3>1, <3>2, <3>3 DEF PlainInv
  <2>6. CASE ~(at < Depth)
    <3>1. at' = at /\ pc' = "object"
      BY <1>3, <2>6 DEF NextAncestor, GoTo
    <3>2. at + 1 = Root
      BY <2>3, <2>6
    <3>3. NoneBelow(Root)'
      BY <2>1, <2>4, <3>2 DEF NoneBelow, Root
    <3> QED BY <2>1, <2>2, <2>3, <3>1, <3>3 DEF PlainInv
  <2> QED BY <2>5, <2>6
<1>4. CASE TryObject
  <2>1. CASE program.virtual
    <3>1. program.object /\ Target(program) = ObjectNative
      BY <1>4, <2>1, ObjectIsTarget DEF TryObject, PlainInv
    <3> QED BY <1>4, <3>1, RunKeeps DEF TryObject
  <2>2. CASE ~program.virtual
    BY <1>4, <2>2 DEF TryObject, PlainInv
  <2> QED BY <2>1, <2>2
<1>5. CASE TryDeclared
  <2>1. ~program.virtual
    BY <1>5, ObjectIsTarget DEF TryDeclared, PlainInv
  <2>2. program.names \in Classes \union {Root}
    BY <2>1 DEF PlainInv, Allowed, Compiles
  <2>3. CASE program.names \in Classes
    BY <1>5, <2>1, <2>3, DeclaredIsTarget, RunKeeps DEF TryDeclared, PlainInv
  <2>4. CASE program.names = Root
    <3>1. Target(program) = ObjectNative
      BY <2>1, <2>4 DEF Target
    <3> QED BY <1>5, <2>4, <3>1, RunKeeps DEF TryDeclared
  <2> QED BY <2>2, <2>3, <2>4
<1>6. CASE UNCHANGED vars
  BY <1>6 DEF vars, PlainInv, Allowed, Explicits, NoneBelow, RightMethodRuns
<1> QED BY <1>1, <1>2, <1>3, <1>4, <1>5, <1>6 DEF Next

\* In a plain program every call runs the method the slots select, or has not
\* ended, however many classes there are (calls.go:144-290).
THEOREM DispatchIsRight == Spec => []RightMethodRuns
<1>1. Init => IInv
  BY InvInit DEF IInv
<1>2. IInv /\ [Next]_vars => IInv'
  <2>1. [Next]_vars => program' = program
    BY DEF Next, TryExplicit, TryAncestor, NextAncestor, TryObject, TryDeclared, Run, GoTo, vars
  <2> QED BY <2>1, InvStep DEF IInv, Plain, Hides, OwnSlot, Declares, Listers, Lists
<1>3. IInv => RightMethodRuns
  BY DEF IInv, PlainInv, RightMethodRuns
<1> QED BY <1>1, <1>2, <1>3, PTL DEF Spec

-----------------------------------------------------------------------------
(* Arithmetic: powers of two, quotients and rests.                         *)

CONSTANTS Bits, Mantissa, NaN, Infinity, Objects
IL == INSTANCE Arithmetic

\* What is meant by 2^n, which the provers know only of numerals.
PowersDouble == \A n \in Nat : 2^(n + 1) = 2 * 2^n

\* Induction over the numbers, of a set.
LEMMA Counting ==
    ASSUME NEW S, 0 \in S, \A n \in Nat : n \in S => n + 1 \in S
    PROVE  Nat \subseteq S
<1> DEFINE T == {n \in Nat : n \notin S}
<1> SUFFICES ASSUME T # {} PROVE FALSE
  OBVIOUS
<1>2. PICK n \in T : \A m \in T : n <= m
  <2>1. T \in SUBSET Nat
    OBVIOUS
  <2> HIDE DEF T
  <2> QED BY <2>1, LeastNumber
<1>3. n \in Nat /\ n # 0 /\ n - 1 \in Nat /\ (n - 1) + 1 = n /\ ~(n <= n - 1)
  BY <1>2
<1>4. n - 1 \in T
  BY <1>2, <1>3
<1> QED BY <1>2, <1>3, <1>4

\* A power of two is a number, and greater than its exponent.
LEMMA Powers ==
    ASSUME PowersDouble, NEW n \in Nat
    PROVE  2^n \in Nat /\ n < 2^n
<1> DEFINE S == {i \in Nat : 2^i \in Nat /\ i < 2^i}
<1>1. 0 \in S
  OBVIOUS
<1>2. ASSUME NEW i \in Nat, i \in S PROVE i + 1 \in S
  <2>1. 2^(i + 1) = 2 * 2^i
    BY DEF PowersDouble
  <2>2. 2^i \in Nat /\ i < 2^i
    BY <1>2
  <2> QED BY <2>1, <2>2
<1> HIDE DEF S
<1>3. n \in S
  BY <1>1, <1>2, Counting
<1> QED BY <1>3 DEF S

\* A power of two is each lesser one times another.
LEMMA PowersGrow ==
    ASSUME PowersDouble, NEW m \in Nat, NEW n \in Nat, m <= n
    PROVE  /\ 2^n = 2^m * 2^(n - m)
           /\ 2^m <= 2^n
<1> DEFINE S == {i \in Nat : 2^(m + i) = 2^m * 2^i}
<1>1. 0 \in S
  <2>1. 2^m \in Nat
    BY Powers
  <2> QED BY <2>1
<1>2. ASSUME NEW i \in Nat, i \in S PROVE i + 1 \in S
  <2>1. 2^(i + 1) = 2 * 2^i /\ 2^(m + i + 1) = 2 * 2^(m + i)
    BY DEF PowersDouble
  <2>2. 2^i \in Nat /\ 2^m \in Nat
    BY Powers
  <2> QED BY <1>2, <2>1, <2>2
<1> HIDE DEF S
<1>3. n - m \in S
  BY <1>1, <1>2, Counting
<1>4. 2^n = 2^m * 2^(n - m)
  <2>1. m + (n - m) = n
    OBVIOUS
  <2> QED BY <1>3, <2>1 DEF S
<1>5. 2^m \in Nat /\ 2^(n - m) \in Nat /\ 2^(n - m) >= 1
  BY Powers
<1> QED BY <1>4, <1>5

\* Of a quotient and a rest: what they are, that nothing else is, and that a
\* factor cancels.
LEMMA Division ==
    ASSUME NEW n \in Int, NEW m \in Nat, m # 0
    PROVE  /\ n \div m \in Int
           /\ n % m \in 0..(m - 1)
           /\ n = m * (n \div m) + (n % m)
OBVIOUS

LEMMA DivisionIsUnique ==
    ASSUME NEW m \in Nat, m # 0, NEW q \in Int, NEW r \in 0..(m - 1)
    PROVE  (m * q + r) \div m = q /\ (m * q + r) % m = r
OBVIOUS

LEMMA Cancels ==
    ASSUME NEW m \in Nat, m # 0, NEW x \in Int, NEW y \in Int, m * x = m * y
    PROVE  x = y
<1>1. (m * x + 0) \div m = x /\ (m * y + 0) \div m = y
  BY DivisionIsUnique
<1> QED BY <1>1

\* The rest is none just of the multiples.
LEMMA Multiples ==
    ASSUME NEW n \in Int, NEW m \in Nat, m # 0
    PROVE  n % m = 0 <=> \E q \in Int : n = m * q
<1>1. ASSUME n % m = 0 PROVE n = m * (n \div m) /\ n \div m \in Int
  BY <1>1, Division
<1>2. ASSUME NEW q \in Int, n = m * q PROVE n % m = 0
  <2>1. n = m * q + 0
    BY <1>2
  <2> QED BY <2>1, DivisionIsUnique
<1> QED BY <1>1, <1>2

\* 2^w is twice 2^(w - 1).
LEMMA Halves ==
    ASSUME PowersDouble, NEW w \in Nat, w # 0
    PROVE  2^w \in Nat /\ 2^(w - 1) \in Nat /\ 2^w = 2 * 2^(w - 1) /\ 2^(w - 1) # 0 /\ 2^w # 0
<1>1. w - 1 \in Nat /\ (w - 1) + 1 = w
  OBVIOUS
<1>2. 2^((w - 1) + 1) = 2 * 2^(w - 1)
  BY <1>1 DEF PowersDouble
<1> QED BY <1>1, <1>2, Powers

\* What int32 and int64 hold of n: a number of w bits that is n but for a
\* multiple of 2^w.
LEMMA SignedHolds ==
    ASSUME PowersDouble, NEW n \in Int, NEW w \in Nat, w # 0
    PROVE  /\ IL!Signed(n, w) \in (-(2^(w - 1)))..(2^(w - 1) - 1)
           /\ \E q \in Int : IL!Signed(n, w) = n + 2^w * q
<1> DEFINE M == 2^w
           half == 2^(w - 1)
           x == n + half
<1>1. M \in Nat /\ half \in Nat /\ M = 2 * half /\ M # 0
  BY Halves
<1>2. IL!Signed(n, w) = (x % M) - half
  BY DEF IL!Signed
<1>3. x \in Int
  BY <1>1
<1> HIDE DEF M, half
<1>4. x \div M \in Int /\ x % M \in 0..(M - 1) /\ x = M * (x \div M) + (x % M)
  <2> HIDE DEF x
  <2> QED BY <1>1, <1>3, Division
<1>5. PICK d \in Int : d = x \div M
  BY <1>4
<1>6. (x % M) - half = n + M * (-d) /\ -d \in Int
  <2>1. M * (-d) = -(M * d) /\ M * d \in Int
    BY <1>1
  <2>2. x = M * d + (x % M)
    BY <1>4, <1>5
  <2> QED BY <1>1, <1>4, <2>1, <2>2
<1>7. (x % M) - half \in (-half)..(half - 1)
  BY <1>1, <1>4
<1> QED BY <1>2, <1>6, <1>7 DEF M, half

\* The widths of the kinds of integers, of a float's integers, and the values
\* that are not numbers.
Widths == /\ PowersDouble
          /\ Bits \in [{"I1", "I2", "I4", "I8"} -> Nat \ {0}]
          /\ Bits["I4"] < Bits["I8"]
          /\ Mantissa \in 1..Bits["I8"]
          /\ NaN \notin Int
          /\ Infinity \in Nat \ {0}
          /\ 0 \notin Objects

\* The same of uint32 and uint64.
LEMMA UnsignedIs ==
    ASSUME PowersDouble, NEW n \in Int, NEW w \in Nat, w # 0
    PROVE  /\ IL!Unsigned(n, w) \in 0..(2^w - 1)
           /\ \E q \in Int : IL!Unsigned(n, w) = n + 2^w * q
<1>1. 2^w \in Nat /\ 2^w # 0
  BY Halves
<1>2. n \div 2^w \in Int /\ n % 2^w \in 0..(2^w - 1) /\ n = 2^w * (n \div 2^w) + (n % 2^w)
  BY <1>1, Division
<1>3. -(n \div 2^w) \in Int /\ n % 2^w = n + 2^w * (-(n \div 2^w))
  BY <1>1, <1>2
<1> QED BY <1>2, <1>3 DEF IL!Unsigned

\* The sign of a product.
LEMMA Negatives ==
    ASSUME NEW a \in Int, NEW b \in Int
    PROVE  (-a) * b = -(a * b) /\ a * (-b) = -(a * b)
OBVIOUS

\* Go's / goes toward zero: a rest has the sign of a and is less than b.
LEMMA QuotientIs ==
    ASSUME NEW a \in Int, NEW b \in Int, b # 0
    PROVE  /\ IL!Quotient(a, b) \in Int
           /\ IL!Remainder(a, b) \in (1 - IL!Magnitude(b))..(IL!Magnitude(b) - 1)
           /\ IL!Remainder(a, b) = 0 \/ (IL!Remainder(a, b) < 0) = (a < 0)
           /\ a = b * IL!Quotient(a, b) + IL!Remainder(a, b)
<1> DEFINE x == IL!Magnitude(a)
           y == IL!Magnitude(b)
<1>1. x \in Nat /\ y \in Nat /\ y # 0
  BY DEF IL!Magnitude
<1>2. x \div y \in Int /\ x % y \in 0..(y - 1) /\ x = y * (x \div y) + (x % y)
  <2> HIDE DEF x, y
  <2> QED BY <1>1, Division
<1>3. PICK d \in Int, e \in Int : d = x \div y /\ x = y * d + e /\ e >= 0 /\ e < y
  <2> HIDE DEF x, y
  <2> QED BY <1>1, <1>2
<1>4. x = (IF a < 0 THEN -a ELSE a) /\ y = (IF b < 0 THEN -b ELSE b)
  BY DEF IL!Magnitude
<1> HIDE DEF x, y
<1>5. CASE a < 0 /\ b < 0
  <2>1. IL!Quotient(a, b) = d
    BY <1>3, <1>5 DEF IL!Quotient, x, y
  <2>2. a = b * d - e
    <3>1. x = -a /\ y = -b
      BY <1>4, <1>5
    <3>2. (-b) * d = -(b * d) /\ b * (-d) = -(b * d) /\ b * d \in Int
      BY Negatives
    <3>3. y * d = -(b * d)
      BY <3>1, <3>2
    <3>4. -a = -(b * d) + e
      BY <1>3, <3>1, <3>3
    <3> QED BY <3>2, <3>4
  <2>3. IL!Remainder(a, b) = -e
    BY <2>1, <2>2 DEF IL!Remainder
  <2> QED BY <1>3, <1>4, <1>5, <2>1, <2>2, <2>3 DEF y
<1>6. CASE a < 0 /\ ~(b < 0)
  <2>1. IL!Quotient(a, b) = -d
    BY <1>3, <1>6 DEF IL!Quotient, x, y
  <2>2. a = b * (-d) - e
    <3>1. x = -a /\ y = b
      BY <1>4, <1>6
    <3>2. (-b) * d = -(b * d) /\ b * (-d) = -(b * d) /\ b * d \in Int
      BY Negatives
    <3>3. y * d = b * d
      BY <3>1, <3>2
    <3>4. -a = b * d + e
      BY <1>3, <3>1, <3>3
    <3> QED BY <3>2, <3>4
  <2>3. IL!Remainder(a, b) = -e
    BY <2>1, <2>2 DEF IL!Remainder
  <2> QED BY <1>3, <1>4, <1>6, <2>1, <2>2, <2>3 DEF y
<1>7. CASE ~(a < 0) /\ b < 0
  <2>1. IL!Quotient(a, b) = -d
    BY <1>3, <1>7 DEF IL!Quotient, x, y
  <2>2. a = b * (-d) + e
    <3>1. x = a /\ y = -b
      BY <1>4, <1>7
    <3>2. (-b) * d = -(b * d) /\ b * (-d) = -(b * d) /\ b * d \in Int
      BY Negatives
    <3> QED BY <1>3, <3>1, <3>2
  <2>3. IL!Remainder(a, b) = e
    BY <2>1, <2>2 DEF IL!Remainder
  <2> QED BY <1>3, <1>4, <1>7, <2>1, <2>2, <2>3 DEF y
<1>8. CASE ~(a < 0) /\ ~(b < 0)
  <2>1. IL!Quotient(a, b) = d
    BY <1>3, <1>8 DEF IL!Quotient, x, y
  <2>2. a = b * d + e
    BY <1>3, <1>4, <1>8
  <2>3. IL!Remainder(a, b) = e
    BY <2>1, <2>2 DEF IL!Remainder
  <2> QED BY <1>3, <1>4, <1>8, <2>1, <2>2, <2>3 DEF y
<1> QED BY <1>5, <1>6, <1>7, <1>8

\* The result of an operation on integers holds what its exact result is.
LEMMA Wraps ==
    ASSUME Widths, NEW k \in IL!Ints, NEW n \in Int
    PROVE  IL!Holds(IL!Val(k, IL!Signed(n, Bits[k])), k, n)
<1>1. Bits[k] \in Nat /\ Bits[k] # 0
  BY DEF Widths, IL!Ints
<1> DEFINE s == IL!Signed(n, Bits[k])
<1>2. s \in (-(2^(Bits[k] - 1)))..(2^(Bits[k] - 1) - 1)
  BY <1>1, SignedHolds DEF Widths
<1>3. PICK q \in Int : s = n + 2^Bits[k] * q
  BY <1>1, SignedHolds DEF Widths
<1>4. 2^Bits[k] \in Nat /\ 2^Bits[k] # 0 /\ 2^(Bits[k] - 1) \in Nat
  BY <1>1, Halves DEF Widths
<1> HIDE DEF s
<1>5. s - n \in Int /\ s - n = 2^Bits[k] * q
  BY <1>2, <1>3, <1>4
<1>6. (s - n) % 2^Bits[k] = 0
  BY <1>4, <1>5, Multiples
<1> QED BY <1>2, <1>6 DEF IL!Holds, IL!Fits, IL!Val, s

-----------------------------------------------------------------------------
(* Arithmetic: the opcodes on integers.                                    *)

\* What each opcode is of two integers, evalBinOpInt and evalBinOpUint taken
\* apart.
LEMMA IntegerOpcodes ==
    ASSUME NEW a, NEW b, NEW k
    PROVE  LET w == Bits[k]
               wrap(n) == IL!Val(k, IL!Signed(n, w))
               count == IF b < 0 THEN w ELSE IF b > w THEN w ELSE b
               x == IL!Unsigned(a, w)
               y == IL!Unsigned(b, w)
           IN /\ IL!evalBinOpInt("add", a, b, k) = wrap(a + b)
              /\ IL!evalBinOpInt("sub", a, b, k) = wrap(a - b)
              /\ IL!evalBinOpInt("mul", a, b, k) = wrap(a * b)
              /\ b = 0 => IL!evalBinOpInt("div", a, b, k) = IL!Error
              /\ b # 0 => IL!evalBinOpInt("div", a, b, k) = wrap(IL!Quotient(a, b))
              /\ b = 0 => IL!evalBinOpInt("rem", a, b, k) = IL!Error
              /\ b # 0 => IL!evalBinOpInt("rem", a, b, k) = wrap(IL!Remainder(a, b))
              /\ IL!evalBinOpInt("and", a, b, k) = IL!Val(k, IL!Bitwise(a, b, w, IL!Both))
              /\ IL!evalBinOpInt("or", a, b, k) = IL!Val(k, IL!Bitwise(a, b, w, IL!Either))
              /\ IL!evalBinOpInt("xor", a, b, k) = IL!Val(k, IL!Bitwise(a, b, w, IL!Unlike))
              /\ IL!evalBinOpInt("shl", a, b, k) = wrap(a * 2^count)
              /\ IL!evalBinOpInt("shr", a, b, k) = wrap(a \div 2^count)
              /\ IL!evalBinOpInt("ceq", a, b, k) = IL!Bool(a = b)
              /\ IL!evalBinOpInt("cgt", a, b, k) = IL!Bool(a > b)
              /\ IL!evalBinOpInt("clt", a, b, k) = IL!Bool(a < b)
              /\ y = 0 => IL!evalBinOpUint("div", a, b, k) = IL!Error
              /\ y # 0 => IL!evalBinOpUint("div", a, b, k) = wrap(x \div y)
              /\ y = 0 => IL!evalBinOpUint("rem", a, b, k) = IL!Error
              /\ y # 0 => IL!evalBinOpUint("rem", a, b, k) = wrap(x % y)
              /\ IL!evalBinOpUint("shr", a, b, k) = wrap(x \div 2^(IF y > w THEN w ELSE y))
              /\ IL!evalBinOpUint("cgt", a, b, k) = IL!Bool(x > y)
              /\ IL!evalBinOpUint("clt", a, b, k) = IL!Bool(x < y)
BY DEF IL!evalBinOpInt, IL!evalBinOpUint

\* evalBinOp goes by the opcode alone when it has two integers.
LEMMA OfIntegers ==
    ASSUME NEW k \in IL!Ints, NEW j \in IL!Ints, NEW a, NEW b, NEW in,
           k = j \/ (k = "I8" /\ j = "I4" /\ in.Op \in {"shl", "shr"})
    PROVE  IL!evalBinOp(in, IL!Val(k, a), IL!Val(j, b))
             = IF in.Unsigned THEN IL!evalBinOpUint(in.Op, a, b, k) ELSE IL!evalBinOpInt(in.Op, a, b, k)
BY DEF IL!evalBinOp, IL!Val, IL!Ints, IL!isReferenceShaped, IL!isPrimitiveValueKind, IL!Floats

\* div and rem of signed integers are the quotient toward zero and its rest.
LEMMA DivisionIsStandard ==
    ASSUME NEW x \in Int, NEW y \in Int, y # 0
    PROVE  LET m == IL!Remainder(x, y)
               d == IL!Magnitude(x - m) \div IL!Magnitude(y)
           IN /\ m \in (1 - IL!Magnitude(y))..(IL!Magnitude(y) - 1)
              /\ m = 0 \/ (m < 0) = (x < 0)
              /\ (x - m) % IL!Magnitude(y) = 0
              /\ IL!Quotient(x, y) = IF (x < 0) = (y < 0) THEN d ELSE -d
<1> DEFINE m == IL!Remainder(x, y)
           q == IL!Quotient(x, y)
           u == IL!Magnitude(y)
           p == IL!Magnitude(x) \div u
<1>1. /\ q \in Int
      /\ m \in (1 - u)..(u - 1)
      /\ m = 0 \/ (m < 0) = (x < 0)
      /\ x = y * q + m
  BY QuotientIs
<1>2. u \in Nat /\ u # 0 /\ (y = u \/ y = -u)
  BY DEF IL!Magnitude
<1>3. q = (IF (x < 0) = (y < 0) THEN p ELSE -p)
  BY DEF IL!Quotient
<1>4. p \in Nat
  <2>1. IL!Magnitude(x) \in Nat
    BY DEF IL!Magnitude
  <2> HIDE DEF u
  <2> QED BY <1>2, <2>1
<1> HIDE DEF m, q, u, p
<1>5. m \in Int /\ x - m \in Int /\ x - m = y * q
  BY <1>1, <1>2
<1>6. q = p \/ q = -p
  BY <1>3
<1>7. y * q = u * p \/ y * q = -(u * p)
  <2>1. CASE y = u
    BY <1>2, <1>4, <1>6, <2>1, Negatives
  <2>2. CASE y = -u
    <3>1. u \in Int /\ p \in Int
      BY <1>2, <1>4
    <3>2. (-u) * p = -(u * p) /\ u * (-p) = -(u * p) /\ (-u) * (-p) = -(u * (-p)) /\ -p \in Int
      BY <3>1, Negatives
    <3> QED BY <1>6, <2>2, <3>1, <3>2
  <2> QED BY <1>2, <2>1, <2>2
<1>8. u * p \in Nat
  BY <1>2, <1>4
<1>9. IL!Magnitude(x - m) = u * p
  BY <1>5, <1>7, <1>8 DEF IL!Magnitude
<1>10. IL!Magnitude(x - m) \div u = p
  <2>1. u * p = u * p + 0 /\ 0 \in 0..(u - 1) /\ p \in Int
    BY <1>2, <1>4, <1>8
  <2>2. (u * p + 0) \div u = p
    BY <1>2, <2>1, DivisionIsUnique
  <2> QED BY <1>9, <2>1, <2>2
<1>11. (x - m) % u = 0
  <2>1. p \in Int /\ -p \in Int /\ u \in Int
    BY <1>2, <1>4
  <2>2. x - m = u * p \/ x - m = u * (-p)
    BY <1>5, <1>7, <2>1, Negatives
  <2> QED BY <1>2, <1>5, <2>1, <2>2, Multiples
<1> QED BY <1>1, <1>3, <1>10, <1>11 DEF m, q, u

\* Of numbers that are not negative, / and % are \div and %.
LEMMA UnsignedDivision ==
    ASSUME NEW x \in Nat, NEW y \in Nat, y # 0
    PROVE  IL!Quotient(x, y) = x \div y /\ IL!Remainder(x, y) = x % y
<1>1. IL!Quotient(x, y) = x \div y
  BY DEF IL!Quotient, IL!Magnitude
<1>2. x \div y \in Int /\ x % y \in 0..(y - 1) /\ x = y * (x \div y) + (x % y)
  BY Division
<1> QED BY <1>1, <1>2 DEF IL!Remainder

\* What ir.Build makes of a binary opcode.
LEMMA BinaryNamesAre ==
    ASSUME NEW op \in IL!BinaryOpcodes
    PROVE  /\ op.name \in {"add", "sub", "mul", "div", "rem", "shr", "cgt", "clt", "and", "or", "xor", "shl", "ceq"}
           /\ op.un \in BOOLEAN
           /\ op.name \in {"and", "or", "xor", "shl", "ceq"} => ~op.un
           /\ IL!BuildBinOp(op).Op = op.name
           /\ IL!BuildBinOp(op).Unsigned \in BOOLEAN
           /\ IL!BuildBinOp(op).Unsigned <=> op.un /\ op.name \in {"div", "rem", "shr", "cgt", "clt"}
<1>1. /\ op.name \in {"add", "sub", "mul", "div", "rem", "shr", "cgt", "clt", "and", "or", "xor", "shl", "ceq"}
      /\ op.un \in BOOLEAN
      /\ op.name \in {"and", "or", "xor", "shl", "ceq"} => ~op.un
  BY DEF IL!BinaryOpcodes
<1>2. IL!BuildBinOp(op).Op = op.name
  BY DEF IL!BuildBinOp
<1>3. IL!BuildBinOp(op).Unsigned = (op.un /\ op.name \in {"div", "rem", "shr", "cgt", "clt"})
  BY DEF IL!BuildBinOp
<1> QED BY <1>1, <1>2, <1>3

\* DividesTo, of a quotient and a rest that are at hand.
LEMMA DividesBy ==
    ASSUME Widths, NEW k \in IL!Ints, NEW x \in Int, NEW y \in Int, y # 0
    PROVE  /\ IL!DividesTo(IL!Val(k, IL!Signed(IL!Quotient(x, y), Bits[k])), k, "div", x, y)
           /\ IL!DividesTo(IL!Val(k, IL!Signed(IL!Remainder(x, y), Bits[k])), k, "rem", x, y)
<1> DEFINE m == IL!Remainder(x, y)
           d == IL!Magnitude(x - m) \div IL!Magnitude(y)
           q == IL!Quotient(x, y)
<1>1. /\ m \in (1 - IL!Magnitude(y))..(IL!Magnitude(y) - 1)
      /\ m = 0 \/ (m < 0) = (x < 0)
      /\ (x - m) % IL!Magnitude(y) = 0
      /\ q = IF (x < 0) = (y < 0) THEN d ELSE -d
  BY DivisionIsStandard
<1>2. q \in Int /\ m \in Int
  <2>1. IL!Magnitude(y) \in Int
    BY DEF IL!Magnitude
  <2>2. q \in Int
    BY QuotientIs
  <2> HIDE DEF m, q, d
  <2> QED BY <1>1, <2>1, <2>2
<1>3. IL!Holds(IL!Val(k, IL!Signed(q, Bits[k])), k, q) /\ IL!Holds(IL!Val(k, IL!Signed(m, Bits[k])), k, m)
  BY <1>2, Wraps
<1> DEFINE rq == IL!Val(k, IL!Signed(q, Bits[k]))
           rm == IL!Val(k, IL!Signed(m, Bits[k]))
<1> HIDE DEF m, q, d, rq, rm
<1>4. IL!Holds(rq, k, IF x < 0 <=> y < 0 THEN d ELSE -d)
  <2>1. q = IF x < 0 <=> y < 0 THEN d ELSE -d
    BY <1>1
  <2> QED BY <1>3, <2>1 DEF rq
<1>5. /\ m \in (1 - IL!Magnitude(y))..(IL!Magnitude(y) - 1)
      /\ m = 0 \/ (m < 0 <=> x < 0)
      /\ (x - m) % IL!Magnitude(y) = 0
      /\ d \in {IL!Magnitude(x - m) \div IL!Magnitude(y)}
  BY <1>1 DEF d
<1>6. IL!Holds(rm, k, m)
  BY <1>3 DEF rm
<1>7. IL!DividesTo(rq, k, "div", x, y)
  BY <1>4, <1>5 DEF IL!DividesTo
<1>8. IL!DividesTo(rm, k, "rem", x, y)
  BY <1>5, <1>6 DEF IL!DividesTo
<1> QED BY <1>7, <1>8 DEF rq, rm, q, m

\* The bits of a number are those of its unsigned form.
LEMMA BitIs ==
    ASSUME PowersDouble, NEW n \in Int, NEW w \in Nat, w # 0, NEW i \in Nat
    PROVE  IL!Bit(n, w, i) \in 0..1
<1>1. 2^w \in Nat /\ 2^w # 0 /\ 2^i \in Nat /\ 2^i # 0
  BY Powers
<1>2. IL!Unsigned(n, w) \in Int
  BY <1>1, UnsignedIs
<1>3. IL!Unsigned(n, w) \div 2^i \in Int
  BY <1>1, <1>2, Division
<1> DEFINE d == IL!Unsigned(n, w) \div 2^i
<1>4. IL!Bit(n, w, i) = d % 2
  BY DEF IL!Bit
<1> HIDE DEF d
<1>5. d \in Int
  BY <1>3 DEF d
<1> QED BY <1>4, <1>5

\* Weights of the bits c from each place on.
Sums(w, c, g) == /\ g \in [0..w -> Nat]
                 /\ g[w] = 0
                 /\ \A i \in 0..(w - 1) : g[i] = c[i] * 2^i + g[i + 1]

\* The recursion that puts the bits together has a result, for every width.
LEMMA SumsExist ==
    ASSUME PowersDouble, NEW w \in Nat, NEW c \in [0..(w - 1) -> 0..1]
    PROVE  \E g : Sums(w, c, g)
<1> DEFINE From(n, g) == /\ g \in [0..w -> Nat]
                         /\ g[w] = 0
                         /\ \A i \in 0..(w - 1) : i >= w - n => g[i] = c[i] * 2^i + g[i + 1]
           S == {n \in Nat : n <= w => \E g : From(n, g)}
<1>1. 0 \in S
  <2>1. From(0, [i \in 0..w |-> 0])
    OBVIOUS
  <2> QED BY <2>1
<1>2. ASSUME NEW n \in Nat, n \in S PROVE n + 1 \in S
  <2> SUFFICES ASSUME n + 1 <= w PROVE \E g : From(n + 1, g)
    OBVIOUS
  <2>1. PICK g : From(n, g)
    BY <1>2
  <2> DEFINE p == w - (n + 1)
             h == [i \in 0..w |-> IF i = p THEN c[p] * 2^p + g[p + 1] ELSE g[i]]
  <2>2. p \in 0..(w - 1) /\ p + 1 \in 0..w /\ p # w
    OBVIOUS
  <2>3. c[p] * 2^p + g[p + 1] \in Nat
    <3>1. 2^p \in Nat /\ c[p] \in 0..1 /\ g[p + 1] \in Nat
      BY <2>1, <2>2, Powers
    <3> HIDE DEF p
    <3>2. c[p] = 0 \/ c[p] = 1
      BY <3>1
    <3> QED BY <3>1, <3>2
  <2>4. h \in [0..w -> Nat]
    <3>1. \A i \in 0..w : g[i] \in Nat
      BY <2>1
    <3> HIDE DEF p, From
    <3> QED BY <2>3, <3>1
  <2>5. h[w] = 0
    BY <2>1, <2>2
  <2>6. ASSUME NEW i \in 0..(w - 1), i >= w - (n + 1) PROVE h[i] = c[i] * 2^i + h[i + 1]
    <3>1. i \in 0..w /\ i + 1 \in 0..w /\ i + 1 # p
      BY <2>6
    <3>2. h[i + 1] = g[i + 1]
      BY <3>1
    <3>3. CASE i = p
      BY <3>1, <3>2, <3>3
    <3>4. CASE i # p
      <4>1. i >= w - n /\ h[i] = g[i]
        BY <2>6, <3>1, <3>4
      <4> QED BY <2>1, <3>2, <4>1
    <3> QED BY <3>3, <3>4
  <2> HIDE DEF h, p
  <2> QED BY <2>4, <2>5, <2>6
<1> HIDE DEF S
<1>3. w \in S
  BY <1>1, <1>2, Counting
<1>4. PICK g : From(w, g)
  <2> HIDE DEF From
  <2> QED BY <1>3 DEF S
<1>5. \A i \in 0..(w - 1) : i >= w - w
  OBVIOUS
<1>6. Sums(w, c, g)
  BY <1>4, <1>5 DEF Sums
<1> QED BY <1>6

\* A sum of bits is a number of w bits, and its bits are those summed.
LEMMA SumsHaveBits ==
    ASSUME PowersDouble, NEW w \in Nat, NEW c \in [0..(w - 1) -> 0..1], NEW g, Sums(w, c, g)
    PROVE  /\ g[0] \in 0..(2^w - 1)
           /\ \A i \in 0..(w - 1) : (g[0] \div 2^i) % 2 = c[i]
<1>0. /\ g \in [0..w -> Nat]
      /\ g[w] = 0
      /\ \A i \in 0..(w - 1) : g[i] = c[i] * 2^i + g[i + 1]
  BY DEF Sums
<1>1. ASSUME NEW i \in 0..w PROVE g[0] - g[i] \in 0..(2^i - 1)
  <2> DEFINE S == {n \in Nat : n <= w => g[0] - g[n] \in 0..(2^n - 1)}
  <2>1. 0 \in S
    <3>1. g[0] \in Nat
      BY <1>0
    <3> QED BY <3>1
  <2>2. ASSUME NEW n \in Nat, n \in S PROVE n + 1 \in S
    <3> SUFFICES ASSUME n + 1 <= w PROVE g[0] - g[n + 1] \in 0..(2^(n + 1) - 1)
      OBVIOUS
    <3>1. n \in 0..(w - 1) /\ n \in 0..w /\ n + 1 \in 0..w /\ 0 \in 0..w
      OBVIOUS
    <3>2. g[n] = c[n] * 2^n + g[n + 1] /\ g[n] \in Nat /\ g[n + 1] \in Nat /\ g[0] \in Nat /\ c[n] \in 0..1
      BY <1>0, <3>1
    <3>3. g[0] - g[n] \in 0..(2^n - 1)
      BY <2>2
    <3>4. 2^(n + 1) = 2 * 2^n /\ 2^n \in Nat
      BY Powers DEF PowersDouble
    <3>5. g[n] = g[n + 1] \/ g[n] = 2^n + g[n + 1]
      <4>1. CASE c[n] = 0
        BY <3>2, <3>4, <4>1
      <4>2. CASE c[n] = 1
        BY <3>2, <3>4, <4>2
      <4> QED BY <3>2, <4>1, <4>2
    <3> QED BY <3>2, <3>3, <3>4, <3>5
  <2> HIDE DEF S
  <2>3. i \in S
    BY <2>1, <2>2, Counting
  <2> QED BY <2>3 DEF S
<1>2. ASSUME NEW i \in 0..w PROVE \E h \in Int : g[i] = 2^i * h
  <2> DEFINE S == {n \in Nat : n <= w => \E h \in Int : g[w - n] = 2^(w - n) * h}
  <2>1. 0 \in S
    <3>1. 2^w \in Nat /\ w - 0 = w
      BY Powers
    <3>2. 2^w * 0 = 0
      BY <3>1
    <3>3. g[w] = 2^w * 0
      BY <1>0, <3>2
    <3>4. g[w - 0] = 2^(w - 0) * 0
      BY <3>1, <3>3
    <3>5. \E h \in Int : g[w - 0] = 2^(w - 0) * h
      BY <3>4
    <3> QED BY <3>5
  <2>2. ASSUME NEW n \in Nat, n \in S PROVE n + 1 \in S
    <3> SUFFICES ASSUME n + 1 <= w PROVE \E h \in Int : g[w - (n + 1)] = 2^(w - (n + 1)) * h
      OBVIOUS
    <3> DEFINE p == w - (n + 1)
    <3>1. p \in 0..(w - 1) /\ p \in Nat /\ p + 1 = w - n
      OBVIOUS
    <3>2. PICK h \in Int : g[w - n] = 2^(w - n) * h
      BY <2>2
    <3> HIDE DEF p
    <3>3. g[p + 1] = 2^(p + 1) * h
      BY <3>1, <3>2
    <3>4. 2^(p + 1) = 2 * 2^p /\ 2^p \in Nat /\ c[p] \in 0..1
      BY <3>1, Powers DEF PowersDouble
    <3>5. g[p] = c[p] * 2^p + g[p + 1]
      BY <1>0, <3>1
    <3>6. g[p] = 2^p * (c[p] + 2 * h) /\ c[p] + 2 * h \in Int
      <4>1. c[p] = 0 \/ c[p] = 1
        BY <3>4
      <4>2. (2 * 2^p) * h = 2^p * (2 * h) /\ 2^p * (2 * h) \in Int
        BY <3>4
      <4>3. 2^p * (1 + 2 * h) = 2^p + 2^p * (2 * h)
        BY <3>4
      <4>4. g[p + 1] = 2^p * (2 * h)
        BY <3>3, <3>4, <4>2
      <4>5. CASE c[p] = 0
        BY <3>4, <3>5, <4>2, <4>4, <4>5
      <4>6. CASE c[p] = 1
        BY <3>4, <3>5, <4>2, <4>3, <4>4, <4>6
      <4> QED BY <4>1, <4>5, <4>6
    <3> QED BY <3>6 DEF p
  <2> HIDE DEF S
  <2>3. w - i \in S
    BY <2>1, <2>2, Counting
  <2>4. w - (w - i) = i
    OBVIOUS
  <2> QED BY <2>3, <2>4 DEF S
<1>3. g[0] \in 0..(2^w - 1)
  <2>1. g[0] - g[w] \in 0..(2^w - 1) /\ g[0] \in Nat
    BY <1>0, <1>1
  <2> QED BY <1>0, <2>1
<1>4. ASSUME NEW i \in 0..(w - 1) PROVE (g[0] \div 2^i) % 2 = c[i]
  <2>1. i \in 0..w /\ i + 1 \in 0..w /\ i \in Nat /\ 0 \in 0..w
    OBVIOUS
  <2>2. PICK h \in Int : g[i] = 2^i * h
    BY <1>2, <2>1
  <2>3. PICK l \in Int : g[i + 1] = 2^(i + 1) * l
    BY <1>2, <2>1
  <2>4. 2^(i + 1) = 2 * 2^i /\ 2^i \in Nat /\ 2^i # 0 /\ c[i] \in 0..1
    BY <2>1, Powers DEF PowersDouble
  <2>5. g[i] = c[i] * 2^i + g[i + 1]
    BY <1>0
  <2>6. h = c[i] + 2 * l
    <3>1. c[i] = 0 \/ c[i] = 1
      BY <2>4
    <3>2. (2 * 2^i) * l = 2^i * (2 * l) /\ 2^i * (1 + 2 * l) = 2^i + 2^i * (2 * l) /\ 2^i * (2 * l) \in Int
      BY <2>4
    <3>3. g[i + 1] = 2^i * (2 * l)
      BY <2>3, <2>4, <3>2
    <3>4. ASSUME c[i] = 0 PROVE h = c[i] + 2 * l
      <4>1. c[i] * 2^i = 0
        BY <2>4, <3>4
      <4>2. 2^i * h = 2^i * (2 * l)
        BY <2>2, <2>5, <3>2, <3>3, <4>1
      <4>3. h = 2 * l
        <5>1. 2 * l \in Int
          OBVIOUS
        <5> HIDE DEF Sums
        <5> QED BY <2>4, <4>2, <5>1, Cancels
      <4> QED BY <3>4, <4>3
    <3>5. ASSUME c[i] = 1 PROVE h = c[i] + 2 * l
      <4>1. c[i] * 2^i = 2^i
        BY <2>4, <3>5
      <4>2. g[i] = 2^i + 2^i * (2 * l)
        BY <2>5, <3>3, <4>1
      <4>3. 2^i * h = 2^i * (1 + 2 * l)
        BY <2>2, <3>2, <4>2
      <4>4. h = 1 + 2 * l
        <5>1. 1 + 2 * l \in Int
          OBVIOUS
        <5> HIDE DEF Sums
        <5> QED BY <2>4, <4>3, <5>1, Cancels
      <4> QED BY <3>5, <4>4
    <3> QED BY <3>1, <3>4, <3>5
  <2>7. g[0] \div 2^i = h
    <3>1. g[0] - g[i] \in 0..(2^i - 1) /\ g[0] \in Nat /\ g[i] \in Nat
      BY <1>0, <1>1, <2>1
    <3>2. g[0] = 2^i * h + (g[0] - g[i])
      BY <2>2, <2>4, <3>1
    <3>3. (2^i * h + (g[0] - g[i])) \div 2^i = h
      <4> DEFINE p == 2^i
                 d == g[0] - g[i]
      <4>1. p \in Nat /\ p # 0 /\ d \in 0..(p - 1)
        BY <2>4, <3>1
      <4> HIDE DEF p, d
      <4>2. (p * h + d) \div p = h
        BY <4>1, DivisionIsUnique
      <4> QED BY <4>2 DEF p, d
    <3> QED BY <3>2, <3>3
  <2>8. (2 * l + c[i]) % 2 = c[i]
    BY <2>4
  <2> QED BY <2>4, <2>6, <2>7, <2>8
<1> QED BY <1>3, <1>4

\* and, or and xor: every bit of the result is that of the bits of the operands.
LEMMA BitwiseHas ==
    ASSUME Widths, NEW k \in IL!Ints, NEW a \in Int, NEW b \in Int, NEW f \in [0..1 -> [0..1 -> 0..1]]
    PROVE  IL!HasBits(IL!Val(k, IL!Bitwise(a, b, Bits[k], f)), k, a, b, f)
<1> DEFINE w == Bits[k]
           c == [i \in 0..(w - 1) |-> f[IL!Bit(a, w, i)][IL!Bit(b, w, i)]]
           weight[i \in 0..w] == IF i = w THEN 0
                                 ELSE f[IL!Bit(a, w, i)][IL!Bit(b, w, i)] * 2^i + weight[i + 1]
           r == IL!Signed(weight[0], w)
<1>0. w \in Nat /\ w # 0 /\ PowersDouble
  BY DEF Widths, IL!Ints
<1>1. IL!Bitwise(a, b, w, f) = r
  BY DEF IL!Bitwise
<1>2. c \in [0..(w - 1) -> 0..1]
  <2> SUFFICES ASSUME NEW i \in 0..(w - 1) PROVE f[IL!Bit(a, w, i)][IL!Bit(b, w, i)] \in 0..1
    OBVIOUS
  <2>1. i \in Nat
    BY <1>0
  <2> HIDE DEF w
  <2>2. IL!Bit(a, w, i) \in 0..1 /\ IL!Bit(b, w, i) \in 0..1
    BY <1>0, <2>1, BitIs
  <2> QED BY <2>2
<1> HIDE DEF w
<1>3. Sums(w, c, weight)
  <2>1. PICK g : Sums(w, c, g)
    <3> HIDE DEF c
    <3> QED BY <1>0, <1>2, SumsExist
  <2>2. g = [i \in 0..w |-> IF i = w THEN 0 ELSE f[IL!Bit(a, w, i)][IL!Bit(b, w, i)] * 2^i + g[i + 1]]
    <3>1. /\ g \in [0..w -> Nat]
          /\ g[w] = 0
          /\ \A i \in 0..(w - 1) : g[i] = f[IL!Bit(a, w, i)][IL!Bit(b, w, i)] * 2^i + g[i + 1]
      BY <2>1 DEF Sums
    <3>2. \A i \in 0..w : i # w => i \in 0..(w - 1)
      BY <1>0
    <3> QED BY <3>1, <3>2
  <2>3. weight = [i \in 0..w |-> IF i = w THEN 0 ELSE f[IL!Bit(a, w, i)][IL!Bit(b, w, i)] * 2^i + weight[i + 1]]
    BY <2>2
  <2> HIDE DEF weight
  <2> DEFINE S == {n \in Nat : n <= w => weight[w - n] = g[w - n]}
  <2>4. 0 \in S
    <3>1. w - 0 = w /\ w \in 0..w
      BY <1>0
    <3> QED BY <2>1, <2>3, <3>1 DEF Sums
  <2>5. ASSUME NEW n \in Nat, n \in S PROVE n + 1 \in S
    <3> SUFFICES ASSUME n + 1 <= w PROVE weight[w - (n + 1)] = g[w - (n + 1)]
      OBVIOUS
    <3> DEFINE p == w - (n + 1)
    <3>1. p \in 0..w /\ p \in 0..(w - 1) /\ p # w /\ p + 1 = w - n
      BY <1>0
    <3>2. weight[p + 1] = g[p + 1]
      BY <2>5, <3>1, <1>0
    <3> HIDE DEF p
    <3>3. weight[p] = f[IL!Bit(a, w, p)][IL!Bit(b, w, p)] * 2^p + weight[p + 1]
      BY <2>3, <3>1
    <3>4. g[p] = f[IL!Bit(a, w, p)][IL!Bit(b, w, p)] * 2^p + g[p + 1]
      BY <2>2, <3>1
    <3> QED BY <3>2, <3>3, <3>4 DEF p
  <2>6. Nat \subseteq S
    <3> HIDE DEF S
    <3> QED BY <2>4, <2>5, Counting
  <2>7. ASSUME NEW i \in 0..w PROVE weight[i] = g[i]
    <3>1. w - i \in Nat /\ w - i <= w /\ w - (w - i) = i
      BY <1>0
    <3>2. w - i \in S
      BY <2>6, <3>1
    <3> QED BY <3>1, <3>2
  <2>8. weight = g
    <3>1. g \in [0..w -> Nat]
      BY <2>1 DEF Sums
    <3>2. weight = [i \in 0..w |-> weight[i]]
      BY <2>3
    <3>3. g = [i \in 0..w |-> g[i]]
      BY <3>1
    <3>4. [i \in 0..w |-> weight[i]] = [i \in 0..w |-> g[i]]
      BY <2>7
    <3> QED BY <3>2, <3>3, <3>4
  <2> QED BY <2>1, <2>8
<1> HIDE DEF c, weight
<1>4. weight[0] \in 0..(2^w - 1) /\ \A i \in 0..(w - 1) : (weight[0] \div 2^i) % 2 = c[i]
  BY <1>0, <1>2, <1>3, SumsHaveBits
<1>5. 2^w \in Nat /\ 2^w # 0 /\ weight[0] \in Int
  BY <1>0, <1>4, Halves
<1>6. r \in (-(2^(w - 1)))..(2^(w - 1) - 1)
  BY <1>0, <1>5, SignedHolds
<1>7. PICK q \in Int : r = weight[0] + 2^w * q
  BY <1>0, <1>5, SignedHolds
<1> HIDE DEF r
<1>8. IL!Unsigned(r, w) = weight[0]
  <2>1. r = 2^w * q + weight[0]
    BY <1>5, <1>7
  <2>2. (2^w * q + weight[0]) % 2^w = weight[0]
    BY <1>4, <1>5, DivisionIsUnique
  <2> QED BY <2>1, <2>2 DEF IL!Unsigned
<1>9. ASSUME NEW i \in 0..(w - 1) PROVE IL!Bit(r, w, i) = f[IL!Bit(a, w, i)][IL!Bit(b, w, i)]
  BY <1>4, <1>8 DEF IL!Bit, c
<1>10. IL!Fits(r, k)
  BY <1>6 DEF IL!Fits, w
<1> DEFINE v == IL!Val(k, r)
<1>11. v.v = r /\ v = IL!Val(k, IL!Bitwise(a, b, Bits[k], f))
  BY <1>1 DEF IL!Val, w
<1> HIDE DEF v
<1>12. IL!HasBits(v, k, a, b, f)
  BY <1>9, <1>10, <1>11 DEF IL!HasBits, w
<1> QED BY <1>11, <1>12

\* Every binary opcode on integers that does not compare.
LEMMA IntegersAreStandard ==
    ASSUME Widths, NEW k \in IL!Ints, NEW j \in IL!Ints, NEW a \in Int, NEW b \in Int,
           NEW op \in IL!BinaryOpcodes, op.name \notin {"ceq", "cgt", "clt"},
           k = j \/ (k = "I8" /\ j = "I4" /\ op.name \in {"shl", "shr"})
    PROVE  IL!IntegerStandard(op, k, a, b, IL!evalBinOp(IL!BuildBinOp(op), IL!Val(k, a), IL!Val(j, b)))
<1> DEFINE r == IL!evalBinOp(IL!BuildBinOp(op), IL!Val(k, a), IL!Val(j, b))
           w == Bits[k]
           u == IL!BuildBinOp(op).Unsigned
           wrap(n) == IL!Val(k, IL!Signed(n, w))
           x == IL!Unsigned(a, w)
           y == IL!Unsigned(b, w)
<1>0. w \in Nat /\ w # 0
  BY DEF Widths, IL!Ints
<1>1. r = IF u THEN IL!evalBinOpUint(op.name, a, b, k) ELSE IL!evalBinOpInt(op.name, a, b, k)
  BY OfIntegers, BinaryNamesAre
<1>3. op.un \in BOOLEAN /\ u \in BOOLEAN /\ (u <=> op.un /\ op.name \in {"div", "rem", "shr", "cgt", "clt"})
  BY BinaryNamesAre
<1>4. /\ x \in 0..(2^w - 1) /\ y \in 0..(2^w - 1)
      /\ b \in 0..(w - 1) => y = b /\ 2^b \in Nat /\ 2^b # 0
  <2>1. x \in 0..(2^w - 1) /\ y \in 0..(2^w - 1)
    BY <1>0, UnsignedIs DEF Widths
  <2>2. ASSUME b \in 0..(w - 1) PROVE y = b /\ 2^b \in Nat /\ 2^b # 0
    <3>1. w < 2^w /\ 2^w \in Nat /\ 2^b \in Nat /\ b < 2^b
      BY <1>0, <2>2, Powers DEF Widths
    <3>2. b = 2^w * 0 + b /\ b \in 0..(2^w - 1) /\ 2^w # 0
      BY <1>0, <2>2, <3>1
    <3>3. (2^w * 0 + b) % 2^w = b
      <4>1. \A q \in Int : (2^w * q + b) % 2^w = b
        BY <3>1, <3>2, DivisionIsUnique
      <4> QED BY <4>1
    <3>4. b % 2^w = b
      BY <3>2, <3>3
    <3> QED BY <2>2, <3>1, <3>4 DEF IL!Unsigned
  <2> QED BY <2>1, <2>2
<1> HIDE DEF r, u, w, x, y
<1> SUFFICES IL!IntegerStandard(op, k, a, b, r)
  BY DEF r
<1>5. CASE op.name = "add"
  <2>1. r = wrap(a + b)
    BY <1>1, <1>3, <1>5, IntegerOpcodes DEF w
  <2>2. IL!Holds(r, k, a + b)
    BY <2>1, Wraps DEF w
  <2> QED BY <1>5, <2>2 DEF IL!IntegerStandard
<1>6. CASE op.name = "sub"
  <2>1. r = wrap(a - b)
    BY <1>1, <1>3, <1>6, IntegerOpcodes DEF w
  <2>2. IL!Holds(r, k, a - b)
    BY <2>1, Wraps DEF w
  <2> QED BY <1>6, <2>2 DEF IL!IntegerStandard
<1>7. CASE op.name = "mul"
  <2>1. r = wrap(a * b)
    BY <1>1, <1>3, <1>7, IntegerOpcodes DEF w
  <2>2. IL!Holds(r, k, a * b)
    BY <2>1, Wraps DEF w
  <2> QED BY <1>7, <2>2 DEF IL!IntegerStandard
<1>8. CASE op.name \in {"div", "rem"} /\ ~u
  <2>1. ~op.un
    BY <1>3, <1>8
  <2>2. ASSUME b = 0 PROVE IL!DividesTo(r, k, op.name, a, b)
    <3>1. r = IL!Error
      BY <1>1, <1>3, <1>8, <2>2, IntegerOpcodes
    <3> QED BY <2>2, <3>1 DEF IL!DividesTo
  <2>3. ASSUME b # 0 PROVE IL!DividesTo(r, k, op.name, a, b)
    <3>1. CASE op.name = "div"
      <4>1. r = wrap(IL!Quotient(a, b))
        BY <1>1, <1>3, <1>8, <2>3, <3>1, IntegerOpcodes DEF w
      <4> QED BY <2>3, <3>1, <4>1, DividesBy DEF w
    <3>2. CASE op.name = "rem"
      <4>1. r = wrap(IL!Remainder(a, b))
        BY <1>1, <1>3, <1>8, <2>3, <3>2, IntegerOpcodes DEF w
      <4> QED BY <2>3, <3>2, <4>1, DividesBy DEF w
    <3> QED BY <1>8, <3>1, <3>2
  <2> QED BY <1>8, <2>1, <2>2, <2>3 DEF IL!IntegerStandard
<1>9. CASE op.name \in {"div", "rem"} /\ u
  <2>1. op.un
    BY <1>3, <1>9
  <2>2. ASSUME y = 0 PROVE IL!DividesTo(r, k, op.name, x, y)
    <3>1. r = IL!Error
      BY <1>1, <1>3, <1>9, <2>2, IntegerOpcodes DEF y, w
    <3> QED BY <2>2, <3>1 DEF IL!DividesTo
  <2>3. ASSUME y # 0 PROVE IL!DividesTo(r, k, op.name, x, y)
    <3>0. x \in Nat /\ y \in Nat /\ IL!Quotient(x, y) = x \div y /\ IL!Remainder(x, y) = x % y
      <4>1. 2^w \in Nat
        BY <1>0, Powers DEF Widths
      <4>2. x \in Nat /\ y \in Nat
        BY <1>4, <4>1
      <4> QED BY <2>3, <4>2, UnsignedDivision
    <3>1. CASE op.name = "div"
      <4>1. r = wrap(IL!Quotient(x, y))
        BY <1>1, <1>3, <1>9, <2>3, <3>0, <3>1, IntegerOpcodes DEF w, x, y
      <4> QED BY <2>3, <3>0, <3>1, <4>1, DividesBy DEF w
    <3>2. CASE op.name = "rem"
      <4>1. r = wrap(IL!Remainder(x, y))
        BY <1>1, <1>3, <1>9, <2>3, <3>0, <3>2, IntegerOpcodes DEF w, x, y
      <4> QED BY <2>3, <3>0, <3>2, <4>1, DividesBy DEF w
    <3> QED BY <1>9, <3>1, <3>2
  <2> QED BY <1>9, <2>1, <2>2, <2>3 DEF IL!IntegerStandard, w, x, y
<1>10. CASE op.name = "shl"
  <2>1. ASSUME b \in 0..(w - 1) PROVE IL!Holds(r, k, a * 2^b)
    <3>1. r = wrap(a * 2^b)
      <4>1. r = IL!evalBinOpInt("shl", a, b, k)
        BY <1>1, <1>3, <1>10
      <4>2. r = wrap(a * 2^(IF b < 0 THEN w ELSE IF b > w THEN w ELSE b))
        BY <4>1, IntegerOpcodes DEF w
      <4>3. (IF b < 0 THEN w ELSE IF b > w THEN w ELSE b) = b
        BY <1>0, <2>1
      <4> QED BY <4>2, <4>3
    <3>2. a * 2^b \in Int
      BY <1>4, <2>1
    <3> QED BY <3>1, <3>2, Wraps DEF w
  <2> QED BY <1>10, <2>1 DEF IL!IntegerStandard, w
<1>11. CASE op.name = "shr" /\ ~u
  <2>1. ASSUME b \in 0..(w - 1) PROVE IL!Holds(r, k, a \div 2^b)
    <3>1. r = wrap(a \div 2^b)
      BY <1>0, <1>1, <1>3, <1>11, <2>1, IntegerOpcodes DEF w
    <3>2. a \div 2^b \in Int
      BY <1>4, <2>1, Division
    <3> QED BY <3>1, <3>2, Wraps DEF w
  <2> QED BY <1>3, <1>11, <2>1 DEF IL!IntegerStandard, w
<1>12. CASE op.name = "shr" /\ u
  <2>1. ASSUME b \in 0..(w - 1) PROVE IL!Holds(r, k, x \div 2^b)
    <3>1. r = wrap(x \div 2^b)
      BY <1>0, <1>1, <1>3, <1>4, <1>12, <2>1, IntegerOpcodes DEF w, x, y
    <3>2. x \div 2^b \in Int
      BY <1>4, <2>1, Division
    <3> QED BY <3>1, <3>2, Wraps DEF w
  <2> QED BY <1>3, <1>12, <2>1 DEF IL!IntegerStandard, w, x
<1>13. CASE op.name = "and"
  <2>1. r = IL!Val(k, IL!Bitwise(a, b, w, IL!Both))
    BY <1>1, <1>3, <1>13, IntegerOpcodes DEF w
  <2>2. IL!Both = [i \in 0..1 |-> [l \in 0..1 |-> i * l]]
    <3>1. \A i, l \in 0..1 : (IF i = 1 /\ l = 1 THEN 1 ELSE 0) = i * l
      OBVIOUS
    <3> QED BY <3>1 DEF IL!Both
  <2>3. IL!Both \in [0..1 -> [0..1 -> 0..1]]
    BY DEF IL!Both
  <2>4. IL!HasBits(r, k, a, b, [i \in 0..1 |-> [l \in 0..1 |-> i * l]])
    BY <2>1, <2>2, <2>3, BitwiseHas DEF w
  <2> QED BY <1>13, <2>4 DEF IL!IntegerStandard
<1>14. CASE op.name = "or"
  <2>1. r = IL!Val(k, IL!Bitwise(a, b, w, IL!Either))
    BY <1>1, <1>3, <1>14, IntegerOpcodes DEF w
  <2>2. IL!Either = [i \in 0..1 |-> [l \in 0..1 |-> i + l - i * l]]
    <3>1. \A i, l \in 0..1 : (IF i = 1 \/ l = 1 THEN 1 ELSE 0) = i + l - i * l
      OBVIOUS
    <3> QED BY <3>1 DEF IL!Either
  <2>3. IL!Either \in [0..1 -> [0..1 -> 0..1]]
    BY DEF IL!Either
  <2>4. IL!HasBits(r, k, a, b, [i \in 0..1 |-> [l \in 0..1 |-> i + l - i * l]])
    BY <2>1, <2>2, <2>3, BitwiseHas DEF w
  <2> QED BY <1>14, <2>4 DEF IL!IntegerStandard
<1>15. CASE op.name = "xor"
  <2>1. r = IL!Val(k, IL!Bitwise(a, b, w, IL!Unlike))
    BY <1>1, <1>3, <1>15, IntegerOpcodes DEF w
  <2>2. IL!Unlike = [i \in 0..1 |-> [l \in 0..1 |-> (i + l) % 2]]
    <3>1. \A i, l \in 0..1 : (IF i # l THEN 1 ELSE 0) = (i + l) % 2
      OBVIOUS
    <3> QED BY <3>1 DEF IL!Unlike
  <2>3. IL!Unlike \in [0..1 -> [0..1 -> 0..1]]
    BY DEF IL!Unlike
  <2>4. IL!HasBits(r, k, a, b, [i \in 0..1 |-> [l \in 0..1 |-> (i + l) % 2]])
    BY <2>1, <2>2, <2>3, BitwiseHas DEF w
  <2> QED BY <1>15, <2>4 DEF IL!IntegerStandard
<1> QED BY <1>5, <1>6, <1>7, <1>8, <1>9, <1>10, <1>11, <1>12, <1>13, <1>14, <1>15, BinaryNamesAre

-----------------------------------------------------------------------------
(* Arithmetic: the opcodes on floats.                                      *)

\* Numbers of halves, and the infinities.
Halved == (-Infinity)..Infinity

\* An arithmetic opcode on floats, evalBinOpFloat taken apart.
LEMMA FloatOpcodes ==
    ASSUME NEW a, NEW b, NEW k
    PROVE  LET wrap(f) == IL!Val(k, IF NaN \in {a, b} THEN NaN ELSE f)
           IN /\ IL!evalBinOpFloat("add", a, b, k) = wrap(IL!floatAdd(a, b))
              /\ IL!evalBinOpFloat("sub", a, b, k) = wrap(IL!floatAdd(a, -b))
              /\ IL!evalBinOpFloat("mul", a, b, k) = wrap(IL!floatMul(a, b))
              /\ IL!evalBinOpFloat("div", a, b, k) = wrap(IL!floatDiv(a, b))
              /\ IL!evalBinOpFloat("rem", a, b, k) = wrap(IL!floatMod(a, b))
              /\ \A op \in {"shr", "and", "or", "xor", "shl"} : IL!evalBinOpFloat(op, a, b, k) = IL!Error
BY DEF IL!evalBinOpFloat

LEMMA ProductsGrow ==
    ASSUME NEW x \in Int, NEW y \in Int, NEW d \in Nat, x <= y
    PROVE  x * d \in Int /\ y * d \in Int /\ x * d <= y * d
OBVIOUS

\* What is rounded is next to the exact result, or past the last number.
LEMMA RoundedIsNearest ==
    ASSUME Infinity \in Nat \ {0}, NEW n \in Int, NEW d \in Nat \ {0}
    PROVE  IL!RoundsTo(IL!Rounded(n, d), n, d)
<1> DEFINE f == IL!Nearest(n, d)
           r == IL!Rounded(n, d)
<1>1. PICK q \in Int, e \in Int : q = n \div d /\ e >= 0 /\ e < d /\ n = q * d + e
  <2>1. /\ n \div d \in Int /\ n % d \in Int /\ n % d >= 0 /\ n % d < d
        /\ n = (n \div d) * d + (n % d)
    BY Division
  <2> QED BY <2>1
<1>2. q * d \in Int /\ 2 * (n - q * d) = 2 * e
  BY <1>1
<1>3. f = IF 2 * e < d \/ (2 * e = d /\ q % 2 = 0) THEN q ELSE q + 1
  BY <1>1, <1>2 DEF IL!Nearest
<1>4. /\ q % 2 = 0 \/ (q + 1) % 2 = 0
      /\ (q + 1) * d = q * d + d
  BY <1>1
<1>5. r = IF f >= Infinity THEN Infinity ELSE IF f <= -Infinity THEN -Infinity ELSE f
  BY DEF IL!Rounded
<1>6. (2 * Infinity - 1) * d = 2 * (Infinity * d) - d /\ Infinity * d \in Int
  OBVIOUS
<1> DEFINE z == Infinity * d
           p == q * d
           last == (2 * Infinity - 1) * d
<1>7. f \in Int /\ (f = q \/ f = q + 1)
  BY <1>3
<1>8. CASE f >= Infinity
  <2>1. r = Infinity
    BY <1>5, <1>8
  <2>2. CASE f = q
    <3>1. z <= p
      BY <1>7, <1>8, <2>2, ProductsGrow
    <3>2. 2 * n >= last
      <4> HIDE DEF z, p
      <4> QED BY <1>1, <1>6, <3>1 DEF p, z
    <3> QED BY <2>1, <3>2 DEF IL!RoundsTo
  <2>3. CASE f # q
    <3>1. z <= p + d
      <4>1. Infinity * d <= (q + 1) * d
        BY <1>7, <1>8, <2>3, ProductsGrow
      <4> QED BY <1>4, <4>1
    <3>2. 2 * e >= d
      BY <1>1, <1>3, <2>3
    <3>3. 2 * n >= last
      BY <1>1, <1>2, <1>6, <3>1, <3>2
    <3> QED BY <2>1, <3>3 DEF IL!RoundsTo
  <2> QED BY <2>2, <2>3
<1>9. CASE f <= -Infinity
  <2>0. (-Infinity) * d = -(Infinity * d)
    OBVIOUS
  <2>1. r = -Infinity
    BY <1>5, <1>7, <1>9
  <2>2. CASE f = q
    <3>1. p <= -z
      <4>1. q * d <= (-Infinity) * d
        BY <1>7, <1>9, <2>2, ProductsGrow
      <4> QED BY <2>0, <4>1
    <3>2. 2 * e <= d
      BY <1>1, <1>3, <2>2
    <3>3. 2 * n <= -last
      BY <1>1, <1>2, <1>6, <3>1, <3>2
    <3> QED BY <2>1, <3>3 DEF IL!RoundsTo
  <2>3. CASE f # q
    <3>1. p + d <= -z
      <4>1. (q + 1) * d <= (-Infinity) * d
        BY <1>7, <1>9, <2>3, ProductsGrow
      <4> QED BY <1>4, <2>0, <4>1
    <3>2. 2 * n <= -last
      BY <1>1, <1>2, <1>6, <3>1
    <3> QED BY <2>1, <3>2 DEF IL!RoundsTo
  <2> QED BY <2>2, <2>3
<1>10. CASE ~(f >= Infinity) /\ ~(f <= -Infinity)
  <2>1. r = f /\ IL!Magnitude(r) < Infinity
    BY <1>5, <1>7, <1>10 DEF IL!Magnitude
  <2>2. CASE f = q
    <3>0. r = q
      BY <2>1, <2>2
    <3>1. r * d - n = -e
      <4> HIDE DEF f, r
      <4> QED BY <1>1, <1>2, <3>0
    <3>2. IL!Magnitude(r * d - n) = e
      BY <1>1, <3>1 DEF IL!Magnitude
    <3>3. 2 * e < d \/ (2 * e = d /\ r % 2 = 0)
      BY <1>1, <1>3, <2>1, <2>2
    <3> QED BY <2>1, <3>2, <3>3 DEF IL!RoundsTo
  <2>3. CASE f # q
    <3>1. r * d - n = d - e
      BY <1>1, <1>2, <1>4, <1>7, <2>1, <2>3
    <3>2. IL!Magnitude(r * d - n) = d - e
      BY <1>1, <3>1 DEF IL!Magnitude
    <3>3. 2 * (d - e) < d \/ (2 * (d - e) = d /\ r % 2 = 0)
      BY <1>1, <1>3, <1>4, <1>7, <2>1, <2>3
    <3> QED BY <2>1, <3>2, <3>3 DEF IL!RoundsTo
  <2> QED BY <2>2, <2>3
<1> QED BY <1>7, <1>8, <1>9, <1>10

\* The infinities, and that no other float is one.
LEMMA Infinities ==
    ASSUME Infinity \in Nat \ {0}, NEW a \in Halved
    PROVE  /\ IL!Infinite(a) <=> a = Infinity \/ a = -Infinity
           /\ a \in Int /\ ~IL!Infinite(0)
           /\ IL!Infinite(Infinity) /\ IL!Infinite(-Infinity)
           /\ IL!Sign(a) = IF a < 0 THEN -1 ELSE 1
BY DEF Halved, IL!Infinite, IL!Magnitude, IL!Sign

\* a + b; and a - b, which is a + (-b).
LEMMA SumsAreStandard ==
    ASSUME Widths, NEW a \in Halved, NEW b \in Halved
    PROVE  /\ IL!FloatStandard("add", a, b, IL!floatAdd(a, b))
           /\ IL!FloatStandard("sub", a, b, IL!floatAdd(a, -b))
<1>1. Infinity \in Nat \ {0} /\ NaN \notin Int
  BY DEF Widths
<1>2. /\ IL!Infinite(a) <=> a = Infinity \/ a = -Infinity
      /\ IL!Infinite(b) <=> b = Infinity \/ b = -Infinity
      /\ a \in Int /\ b \in Int /\ -b \in Halved
      /\ IL!Infinite(-b) <=> IL!Infinite(b)
  <2>1. -b \in Halved
    BY <1>1 DEF Halved
  <2>2. IL!Infinite(-b) <=> -b = Infinity \/ -b = -Infinity
    BY <1>1, <2>1, Infinities
  <2> QED BY <1>1, <2>1, <2>2, Infinities
<1>3. NaN \notin {a, b}
  BY <1>1, <1>2
<1>4. IL!FloatStandard("add", a, b, IL!floatAdd(a, b))
  <2>1. IL!Undefined("add", a, b) <=> IL!Infinite(a) /\ b = -a
    BY <1>2, <1>3 DEF IL!Undefined
  <2>2. CASE IL!Infinite(a) /\ b = -a
    BY <2>1, <2>2 DEF IL!FloatStandard, IL!floatAdd
  <2>3. CASE ~(IL!Infinite(a) /\ b = -a) /\ (IL!Infinite(a) \/ IL!Infinite(b))
    <3>1. IL!floatAdd(a, b) = IF IL!Infinite(a) THEN a ELSE b
      BY <2>3 DEF IL!floatAdd
    <3> QED BY <2>1, <2>3, <3>1 DEF IL!FloatStandard
  <2>4. CASE ~IL!Infinite(a) /\ ~IL!Infinite(b)
    <3>1. IL!floatAdd(a, b) = IL!Rounded(a + b, 1)
      BY <2>4 DEF IL!floatAdd
    <3>2. IL!RoundsTo(IL!Rounded(a + b, 1), a + b, 1)
      BY <1>1, <1>2, RoundedIsNearest
    <3> QED BY <2>1, <2>4, <3>1, <3>2 DEF IL!FloatStandard
  <2> QED BY <2>2, <2>3, <2>4
<1>5. IL!FloatStandard("sub", a, b, IL!floatAdd(a, -b))
  <2>1. IL!Undefined("sub", a, b) <=> IL!Infinite(a) /\ -b = -a
    BY <1>2, <1>3 DEF IL!Undefined
  <2>2. CASE IL!Infinite(a) /\ -b = -a
    BY <2>1, <2>2 DEF IL!FloatStandard, IL!floatAdd
  <2>3. CASE ~(IL!Infinite(a) /\ -b = -a) /\ (IL!Infinite(a) \/ IL!Infinite(b))
    <3>1. IL!floatAdd(a, -b) = IF IL!Infinite(a) THEN a ELSE -b
      BY <1>2, <2>3 DEF IL!floatAdd
    <3> QED BY <1>2, <2>1, <2>3, <3>1 DEF IL!FloatStandard
  <2>4. CASE ~IL!Infinite(a) /\ ~IL!Infinite(b)
    <3>1. IL!floatAdd(a, -b) = IL!Rounded(a + (-b), 1) /\ a + (-b) = a - b
      BY <1>2, <2>4 DEF IL!floatAdd
    <3>2. IL!RoundsTo(IL!Rounded(a - b, 1), a - b, 1)
      BY <1>1, <1>2, RoundedIsNearest
    <3> QED BY <2>1, <2>4, <3>1, <3>2 DEF IL!FloatStandard
  <2> QED BY <2>2, <2>3, <2>4
<1> QED BY <1>4, <1>5

\* An infinite product or quotient has the sign of both.
LEMMA SignedInfinities ==
    ASSUME Infinity \in Nat \ {0}, NEW a \in Halved, NEW b \in Halved
    PROVE  LET r == IL!Sign(a) * IL!Sign(b) * Infinity
           IN IL!Infinite(r) /\ (r < 0 <=> (a < 0) # (b < 0))
<1>1. /\ IL!Sign(a) = IF a < 0 THEN -1 ELSE 1
      /\ IL!Sign(b) = IF b < 0 THEN -1 ELSE 1
      /\ IL!Infinite(Infinity) /\ IL!Infinite(-Infinity)
  BY Infinities
<1>2. IL!Sign(a) * IL!Sign(b) = IF (a < 0) # (b < 0) THEN -1 ELSE 1
  BY <1>1
<1>3. IL!Sign(a) * IL!Sign(b) * Infinity = IF (a < 0) # (b < 0) THEN -Infinity ELSE Infinity
  BY <1>2
<1> QED BY <1>1, <1>3

LEMMA ProductsAreStandard ==
    ASSUME Widths, NEW a \in Halved, NEW b \in Halved
    PROVE  IL!FloatStandard("mul", a, b, IL!floatMul(a, b))
<1>1. Infinity \in Nat \ {0} /\ NaN \notin Int
  BY DEF Widths
<1>2. /\ IL!Infinite(a) <=> a = Infinity \/ a = -Infinity
      /\ IL!Infinite(b) <=> b = Infinity \/ b = -Infinity
      /\ a \in Int /\ b \in Int
  BY <1>1, Infinities
<1>3. NaN \notin {a, b}
  BY <1>1, <1>2
<1>4. IL!Undefined("mul", a, b) <=> (a = 0 /\ IL!Infinite(b)) \/ (b = 0 /\ IL!Infinite(a))
  <2>1. {a, b} \in {{0, Infinity}, {0, -Infinity}}
           <=> (a = 0 /\ (b = Infinity \/ b = -Infinity)) \/ (b = 0 /\ (a = Infinity \/ a = -Infinity))
    BY <1>1
  <2> QED BY <1>2, <1>3, <2>1 DEF IL!Undefined
<1>5. CASE ~IL!Infinite(a) /\ ~IL!Infinite(b)
  <2>1. IL!floatMul(a, b) = IL!Rounded(a * b, 2)
    BY <1>5 DEF IL!floatMul
  <2>2. IL!RoundsTo(IL!Rounded(a * b, 2), a * b, 2)
    BY <1>1, <1>2, RoundedIsNearest
  <2> QED BY <1>4, <1>5, <2>1, <2>2 DEF IL!FloatStandard
<1>6. CASE (IL!Infinite(a) \/ IL!Infinite(b)) /\ (a = 0 \/ b = 0)
  <2>1. IL!floatMul(a, b) = NaN
    BY <1>6 DEF IL!floatMul
  <2>2. IL!Undefined("mul", a, b)
    BY <1>1, <1>2, <1>4, <1>6
  <2> QED BY <2>1, <2>2 DEF IL!FloatStandard
<1>7. CASE (IL!Infinite(a) \/ IL!Infinite(b)) /\ a # 0 /\ b # 0
  <2>1. IL!floatMul(a, b) = IL!Sign(a) * IL!Sign(b) * Infinity
    BY <1>7 DEF IL!floatMul
  <2> QED BY <1>1, <1>4, <1>7, <2>1, SignedInfinities DEF IL!FloatStandard
<1> QED BY <1>5, <1>6, <1>7

LEMMA QuotientsAreStandard ==
    ASSUME Widths, NEW a \in Halved, NEW b \in Halved
    PROVE  IL!FloatStandard("div", a, b, IL!floatDiv(a, b))
<1>1. Infinity \in Nat \ {0} /\ NaN \notin Int
  BY DEF Widths
<1>2. /\ IL!Infinite(a) <=> a = Infinity \/ a = -Infinity
      /\ IL!Infinite(b) <=> b = Infinity \/ b = -Infinity
      /\ a \in Int /\ b \in Int /\ ~IL!Infinite(0)
      /\ IL!Sign(a) = IF a < 0 THEN -1 ELSE 1
      /\ IL!Sign(b) = IF b < 0 THEN -1 ELSE 1
  BY <1>1, Infinities
<1>3. NaN \notin {a, b}
  BY <1>1, <1>2
<1>4. IL!Undefined("div", a, b) <=> (a = 0 /\ b = 0) \/ (IL!Infinite(a) /\ IL!Infinite(b))
  BY <1>3 DEF IL!Undefined
<1>5. CASE IL!Infinite(b)
  BY <1>2, <1>4, <1>5 DEF IL!FloatStandard, IL!floatDiv
<1>6. CASE ~IL!Infinite(b) /\ IL!Infinite(a)
  <2>1. IL!floatDiv(a, b) = IL!Sign(a) * IL!Sign(b) * Infinity
    BY <1>6 DEF IL!floatDiv
  <2> QED BY <1>1, <1>2, <1>4, <1>6, <2>1, SignedInfinities DEF IL!FloatStandard
<1>7. CASE ~IL!Infinite(b) /\ ~IL!Infinite(a) /\ b = 0
  <2>1. IL!floatDiv(a, b) = IF a = 0 THEN NaN ELSE IL!Sign(a) * Infinity
    BY <1>7 DEF IL!floatDiv
  <2>2. CASE a = 0
    BY <1>4, <1>7, <2>1, <2>2 DEF IL!FloatStandard
  <2>3. CASE a # 0
    <3>1. IL!Sign(b) = 1 /\ IL!Sign(a) * IL!Sign(b) * Infinity = IL!Sign(a) * Infinity
      BY <1>1, <1>2, <1>7
    <3> QED BY <1>1, <1>4, <1>7, <2>1, <2>3, <3>1, SignedInfinities DEF IL!FloatStandard
  <2> QED BY <2>2, <2>3
<1>8. CASE ~IL!Infinite(b) /\ ~IL!Infinite(a) /\ b # 0
  <2> DEFINE n == IF b < 0 THEN -(2 * a) ELSE 2 * a
  <2>1. IL!floatDiv(a, b) = IL!Rounded(2 * a * IL!Sign(b), IL!Magnitude(b))
    BY <1>8 DEF IL!floatDiv
  <2>2. 2 * a * IL!Sign(b) = n /\ n \in Int
    BY <1>2
  <2>3. IL!Magnitude(b) \in Nat \ {0}
    BY <1>2, <1>8 DEF IL!Magnitude
  <2>4. IL!RoundsTo(IL!Rounded(n, IL!Magnitude(b)), n, IL!Magnitude(b))
    BY <1>1, <2>2, <2>3, RoundedIsNearest
  <2> QED BY <1>4, <1>8, <2>1, <2>2, <2>4 DEF IL!FloatStandard
<1> QED BY <1>5, <1>6, <1>7, <1>8

LEMMA RestsAreStandard ==
    ASSUME Widths, NEW a \in Halved, NEW b \in Halved
    PROVE  IL!FloatStandard("rem", a, b, IL!floatMod(a, b))
<1>1. Infinity \in Nat \ {0} /\ NaN \notin Int /\ a \in Int /\ b \in Int
  BY DEF Widths, Halved
<1>2. NaN \notin {a, b}
  BY <1>1
<1>3. IL!Undefined("rem", a, b) <=> IL!Infinite(a) \/ b = 0
  BY <1>2 DEF IL!Undefined
<1>4. CASE IL!Infinite(a) \/ b = 0
  BY <1>3, <1>4 DEF IL!FloatStandard, IL!floatMod
<1>5. CASE ~(IL!Infinite(a) \/ b = 0) /\ IL!Infinite(b)
  BY <1>3, <1>5 DEF IL!FloatStandard, IL!floatMod
<1>6. CASE ~(IL!Infinite(a) \/ b = 0) /\ ~IL!Infinite(b)
  <2> DEFINE r == IL!Remainder(a, b)
             y == IL!Magnitude(b)
  <2>1. IL!floatMod(a, b) = r
    BY <1>6 DEF IL!floatMod
  <2>2. r \in (1 - y)..(y - 1) /\ (r = 0 \/ (r < 0) = (a < 0)) /\ (a - r) % y = 0
    BY <1>1, <1>6, DivisionIsStandard
  <2>3. y \in Nat /\ y # 0
    BY <1>1, <1>6 DEF IL!Magnitude
  <2> HIDE DEF r, y
  <2>4. IL!Magnitude(r) < y
    BY <2>2, <2>3 DEF IL!Magnitude
  <2> QED BY <1>3, <1>6, <2>1, <2>2, <2>4 DEF IL!FloatStandard, y
<1> QED BY <1>4, <1>5, <1>6

\* The arithmetic opcodes on floats.
LEMMA FloatsAreStandard ==
    ASSUME Widths, NEW k, NEW a \in Halved \cup {NaN}, NEW b \in Halved \cup {NaN},
           NEW name \in {"add", "sub", "mul", "div", "rem"}
    PROVE  LET r == IL!evalBinOpFloat(name, a, b, k)
           IN r.kind = k /\ IL!FloatStandard(name, a, b, r.v)
<1> DEFINE r == IL!evalBinOpFloat(name, a, b, k)
<1>1. CASE NaN \in {a, b}
  <2>1. r = IL!Val(k, NaN)
    BY <1>1, FloatOpcodes
  <2>2. r.kind = k /\ r.v = NaN
    BY <2>1 DEF IL!Val
  <2> QED BY <1>1, <2>2 DEF IL!FloatStandard, IL!Undefined
<1>2. CASE NaN \notin {a, b}
  <2>1. a \in Halved /\ b \in Halved
    BY <1>2
  <2>2. PICK f : r = IL!Val(k, f) /\ IL!FloatStandard(name, a, b, f)
    <3>1. CASE name = "add"
      BY <1>2, <2>1, <3>1, FloatOpcodes, SumsAreStandard
    <3>2. CASE name = "sub"
      BY <1>2, <2>1, <3>2, FloatOpcodes, SumsAreStandard
    <3>3. CASE name = "mul"
      BY <1>2, <2>1, <3>3, FloatOpcodes, ProductsAreStandard
    <3>4. CASE name = "div"
      BY <1>2, <2>1, <3>4, FloatOpcodes, QuotientsAreStandard
    <3>5. CASE name = "rem"
      BY <1>2, <2>1, <3>5, FloatOpcodes, RestsAreStandard
    <3> QED BY <3>1, <3>2, <3>3, <3>4, <3>5
  <2>3. r.kind = k /\ r.v = f
    BY <2>2 DEF IL!Val
  <2> QED BY <2>2, <2>3
<1> QED BY <1>1, <1>2

-----------------------------------------------------------------------------
(* Arithmetic: conversions and the natives of numbers.                     *)

\* Numbers of every kind and value.
AllNumbers == {a \in [kind : IL!Ints \cup IL!Floats, v : Int \cup {NaN}, fields : {<<>>}] :
                  /\ a.kind \in IL!Ints => a.v \in Int /\ IL!Fits(a.v, a.kind)
                  /\ a.kind \in IL!Floats => a.v \in Halved \cup {NaN}}

\* A number is of one kind, and an integer in the range of its kind.
LEMMA NumberFacts ==
    ASSUME Widths, NEW a \in AllNumbers
    PROVE  /\ a = IL!Val(a.kind, a.v)
           /\ IL!isPrimitiveValueKind(a) /\ ~IL!isReferenceShaped(a)
           /\ a.kind \in IL!Ints \/ a.kind \in IL!Floats
           /\ ~(a.kind \in IL!Ints /\ a.kind \in IL!Floats)
           /\ a.kind \in IL!Ints => a.v \in Int /\ IL!Fits(a.v, a.kind)
           /\ a.kind \in IL!Floats => a.v \in Halved \cup {NaN}
           /\ a.v # NaN => a.v \in Int
BY DEF AllNumbers, IL!Val, IL!isPrimitiveValueKind, IL!isReferenceShaped, IL!Ints, IL!Floats, Widths

\* What each conv is of a number, evalConv taken apart.
LEMMA ConversionsAre ==
    ASSUME NEW a, IL!isPrimitiveValueKind(a)
    PROVE  LET n == IL!toInt64(a)
           IN /\ IL!evalConv("r4", a) = IL!Val("R4", IL!toFloat64(a))
              /\ IL!evalConv("r8", a) = IL!Val("R8", IL!toFloat64(a))
              /\ IL!evalConv("i1", a) = IL!I4(IL!Signed(n, Bits["I1"]))
              /\ IL!evalConv("u1", a) = IL!I4(IL!Unsigned(n, Bits["I1"]))
              /\ IL!evalConv("i2", a) = IL!I4(IL!Signed(n, Bits["I2"]))
              /\ IL!evalConv("u2", a) = IL!I4(IL!Unsigned(n, Bits["I2"]))
              /\ IL!evalConv("i4", a) = IL!I4(IL!Signed(n, Bits["I4"]))
              /\ IL!evalConv("u4", a) = IL!I4(IL!Signed(n, Bits["I4"]))
              /\ IL!evalConv("i8", a) = IL!Val("I8", IL!Signed(n, Bits["I8"]))
              /\ a.kind # "I4" => IL!evalConv("u8", a) = IL!Val("I8", IL!Signed(n, Bits["I8"]))
              /\ a.kind = "I4" => IL!evalConv("u8", a) = IL!Val("I8", IL!Unsigned(a.v, Bits["I4"]))
<1>1. a.kind # "Ref"
  BY DEF IL!isPrimitiveValueKind, IL!Ints, IL!Floats
<1> QED BY <1>1 DEF IL!evalConv

\* The rounding of a float: to one of Mantissa bits, the nearest one.
LEMMA Float64Rounds ==
    ASSUME Widths, NEW n \in Int, IL!Magnitude(n) <= 2^(Bits["I8"] - 1)
    PROVE  /\ IL!Float64(n) \in Int
           /\ IL!Magnitude(n) < 2^Mantissa => IL!Float64(n) = n
           /\ 2 * IL!Magnitude(IL!Float64(n) - n) <= 2^(Bits["I8"] - Mantissa)
           /\ IL!Float64(n) < 0 <=> n < 0
           /\ IL!Float64(n) > 0 <=> n > 0
<1> DEFINE W == Bits["I8"]
           m == IL!Magnitude(n)
           Fit(k) == m < 2^(Mantissa + k) /\ (k > 0 => m >= 2^(Mantissa + k - 1))
           k0 == IL!Excess(n)
           unit == 2^k0
           low == n \div unit
           rest == 2 * (n - low * unit)
           F == IL!Float64(n)
<1>0. PowersDouble /\ W \in Nat /\ W # 0 /\ Mantissa \in Nat /\ Mantissa # 0 /\ Mantissa <= W
  BY DEF Widths
<1>1. m \in Nat /\ (n < 0 => n = -m) /\ (n >= 0 => n = m)
  BY DEF IL!Magnitude
<1>2. F = IF rest < unit \/ (rest = unit /\ low % 2 = 0) THEN low * unit ELSE (low + 1) * unit
  BY DEF IL!Float64
<1>3. m <= 2^(W - 1)
  OBVIOUS
<1> HIDE DEF m, W, F
<1>4. k0 \in 0..W /\ Fit(k0)
  <2> DEFINE S == {k \in Nat : m < 2^(Mantissa + k)}
  <2>1. W \in S
    <3>1. 2^(W - 1) <= 2^(Mantissa + W) /\ 2^(W - 1) < 2^W /\ 2^W <= 2^(Mantissa + W) /\ 2^W \in Nat
          /\ 2^(Mantissa + W) \in Nat /\ 2^(W - 1) \in Nat
      <4>1. W - 1 \in Nat /\ Mantissa + W \in Nat /\ W - 1 <= Mantissa + W /\ W <= Mantissa + W
        BY <1>0
      <4>2. 2^(W - 1) < 2^W
        BY <1>0, Halves
      <4> QED BY <1>0, <4>1, <4>2, Powers, PowersGrow
    <3> QED BY <1>0, <1>1, <1>3, <3>1
  <2>2. PICK k \in S : \A l \in S : k <= l
    <3>1. S \in SUBSET Nat /\ S # {}
      BY <2>1
    <3> HIDE DEF S
    <3> QED BY <3>1, LeastNumber
  <2>3. k \in 0..W
    BY <1>0, <2>1, <2>2
  <2>4. ASSUME k > 0 PROVE m >= 2^(Mantissa + k - 1)
    <3>1. k - 1 \in Nat /\ ~(k <= k - 1)
      BY <2>3, <2>4, <1>0
    <3>2. k - 1 \notin S
      BY <2>2, <3>1
    <3>3. Mantissa + (k - 1) = Mantissa + k - 1 /\ Mantissa + (k - 1) \in Nat
      BY <1>0, <2>3, <3>1
    <3>4. 2^(Mantissa + (k - 1)) \in Nat
      BY <1>0, <3>3, Powers
    <3> QED BY <1>1, <3>1, <3>2, <3>3, <3>4
  <2>5. k \in 0..Bits["I8"] /\ IL!Magnitude(n) < 2^(Mantissa + k)
        /\ (k > 0 => IL!Magnitude(n) >= 2^(Mantissa + k - 1))
    BY <2>2, <2>3, <2>4 DEF m, W
  <2>6. /\ k0 \in 0..Bits["I8"]
        /\ IL!Magnitude(n) < 2^(Mantissa + k0)
        /\ k0 > 0 => IL!Magnitude(n) >= 2^(Mantissa + k0 - 1)
    BY <2>5 DEF IL!Excess
  <2> QED BY <2>6 DEF m, W
<1> HIDE DEF k0
<1>5. k0 \in Nat /\ unit \in Nat /\ unit # 0
  BY <1>0, <1>4, Powers
<1>6. low \in Int /\ n - low * unit \in 0..(unit - 1)
  <2> HIDE DEF unit
  <2>1. low \in Int /\ n % unit \in 0..(unit - 1) /\ n = unit * low + (n % unit)
    BY <1>5, Division
  <2>2. low * unit = unit * low
    BY <1>5, <2>1
  <2> QED BY <1>5, <2>1, <2>2
<1>7. unit <= 2^(W - Mantissa)
  <2>1. CASE k0 = 0
    BY <1>0, <2>1, Powers, PowersGrow
  <2>2. CASE k0 > 0
    <3>1. 2^(Mantissa + k0 - 1) <= 2^(W - 1)
      <4>1. Mantissa + k0 - 1 \in Nat /\ W - 1 \in Nat
        BY <1>0, <1>5, <2>2
      <4>2. 2^(Mantissa + k0 - 1) \in Nat /\ 2^(W - 1) \in Nat
        BY <1>0, <4>1, Powers
      <4> QED BY <1>1, <1>3, <1>4, <2>2, <4>2
    <3>2. Mantissa + k0 <= W
      <4> SUFFICES ASSUME W < Mantissa + k0 PROVE FALSE
        BY <1>0, <1>5
      <4>1. W <= Mantissa + k0 - 1 /\ Mantissa + k0 - 1 \in Nat
        BY <1>0, <1>5
      <4>2. 2^W <= 2^(Mantissa + k0 - 1)
        BY <1>0, <4>1, PowersGrow
      <4>3. 2^(W - 1) < 2^W /\ 2^W \in Nat /\ 2^(W - 1) \in Nat
        BY <1>0, Halves
      <4>4. 2^(Mantissa + k0 - 1) \in Nat
        BY <1>0, <4>1, Powers
      <4> QED BY <3>1, <4>2, <4>3, <4>4
    <3>3. k0 <= W - Mantissa /\ W - Mantissa \in Nat
      BY <1>0, <1>5, <3>2
    <3> QED BY <1>0, <1>5, <3>3, PowersGrow
  <2> QED BY <1>5, <2>1, <2>2
<1>8. low * unit \in Int /\ rest \in Int /\ (low + 1) * unit = low * unit + unit
  <2> HIDE DEF low, unit
  <2>1. low * unit \in Int /\ (low + 1) * unit = low * unit + unit
    BY <1>5, <1>6
  <2> QED BY <1>6, <2>1
<1> DEFINE p == low * unit
<1>9. /\ p \in Int /\ n - p \in 0..(unit - 1)
      /\ F = p \/ F = p + unit
      /\ F = p => 2 * (n - p) <= unit
      /\ F = p + unit /\ F # p => 2 * (n - p) >= unit
  <2>1. rest = 2 * (n - p)
    OBVIOUS
  <2>2. CASE rest < unit \/ (rest = unit /\ low % 2 = 0)
    <3>1. F = p
      BY <1>2, <2>2
    <3> QED BY <1>5, <1>6, <1>8, <2>1, <2>2, <3>1
  <2>3. CASE ~(rest < unit \/ (rest = unit /\ low % 2 = 0))
    <3>1. F = p + unit
      BY <1>2, <1>8, <2>3
    <3> HIDE DEF p, rest, unit, low
    <3>2. rest >= unit
      BY <1>5, <1>8, <2>3
    <3> QED BY <1>5, <1>6, <1>8, <2>1, <3>1, <3>2 DEF p
  <2> QED BY <2>2, <2>3
<1>10. F \in Int /\ 2 * IL!Magnitude(F - n) <= unit
  <2> HIDE DEF p, unit
  <2>1. F \in Int
    BY <1>5, <1>9
  <2>2. 2 * (F - n) <= unit /\ 2 * (n - F) <= unit
    BY <1>5, <1>9, <2>1
  <2> QED BY <1>5, <2>1, <2>2 DEF IL!Magnitude
<1>11. ASSUME m < 2^Mantissa PROVE F = n
  <2>1. k0 = 0
    <3> SUFFICES ASSUME k0 > 0 PROVE FALSE
      BY <1>5
    <3>1. m >= 2^(Mantissa + k0 - 1)
      BY <1>4
    <3>2. Mantissa <= Mantissa + k0 - 1 /\ Mantissa + k0 - 1 \in Nat
      BY <1>0, <1>5
    <3>3. 2^Mantissa <= 2^(Mantissa + k0 - 1) /\ 2^Mantissa \in Nat /\ 2^(Mantissa + k0 - 1) \in Nat
      BY <1>0, <3>2, Powers, PowersGrow
    <3> QED BY <1>1, <1>11, <3>1, <3>3
  <2>2. unit = 1
    BY <2>1
  <2> HIDE DEF p, unit
  <2> QED BY <1>9, <2>2
<1>12. (F < 0 <=> n < 0) /\ (F > 0 <=> n > 0)
  <2>1. CASE k0 = 0
    <3>1. m < 2^Mantissa
      <4>1. Mantissa + 0 = Mantissa
        BY <1>0
      <4> QED BY <1>4, <2>1, <4>1
    <3>2. F = n
      BY <1>11, <3>1
    <3> QED BY <3>2
  <2>2. CASE k0 > 0
    <3>1. m >= unit
      <4>1. Mantissa + k0 - 1 \in Nat /\ k0 <= Mantissa + k0 - 1
        BY <1>0, <1>5
      <4>2. unit <= 2^(Mantissa + k0 - 1) /\ 2^(Mantissa + k0 - 1) \in Nat
        BY <1>0, <1>5, <4>1, Powers, PowersGrow
      <4> QED BY <1>1, <1>4, <1>5, <2>2, <4>2
    <3> HIDE DEF unit
    <3>2. CASE n >= 0
      <4>1. p > 0
        BY <1>1, <1>5, <1>9, <3>1, <3>2
      <4> HIDE DEF p
      <4> QED BY <1>1, <1>5, <1>9, <3>1, <3>2, <4>1
    <3>3. CASE n < 0
      <4>1. n <= -unit /\ p <= -unit /\ p \in Int
        <5> HIDE DEF p
        <5> QED BY <1>1, <1>5, <1>9, <3>1, <3>3
      <4>2. ASSUME F = p + unit, F # p PROVE F < 0
        <5>1. p # -unit
          <6> SUFFICES ASSUME p = -unit PROVE FALSE
            OBVIOUS
          <6> HIDE DEF p
          <6>1. n = -unit
            BY <1>5, <1>9, <4>1
          <6> QED BY <1>5, <1>9, <4>2, <6>1
        <5> HIDE DEF p
        <5> QED BY <1>5, <4>1, <4>2, <5>1
      <4> HIDE DEF p
      <4> QED BY <1>5, <1>9, <3>3, <4>1, <4>2
    <3> QED BY <3>2, <3>3
  <2> QED BY <1>5, <2>1, <2>2
<1>13. 2 * IL!Magnitude(F - n) <= 2^(W - Mantissa)
  <2>1. IL!Magnitude(F - n) \in Int
    BY <1>10 DEF IL!Magnitude
  <2>2. 2^(W - Mantissa) \in Nat
    BY <1>0, Powers
  <2> HIDE DEF unit
  <2> QED BY <1>5, <1>7, <1>10, <2>1, <2>2
<1> QED BY <1>10, <1>11, <1>12, <1>13 DEF F, m, W

\* What ir.Build makes of a conv.
LEMMA ConvNamesAre ==
    ASSUME NEW op \in IL!ConvOpcodes
    PROVE  /\ op.name \in {"i1", "u1", "i2", "u2", "i4", "u4", "i8", "u8", "i", "u", "r4", "r8", "r"}
           /\ IL!BuildConv(op) = IF op.name = "i" THEN "i4" ELSE IF op.name = "u" THEN "u4"
                                 ELSE IF op.name = "r" THEN "r8" ELSE op.name
<1>1. op.name \in {"i1", "u1", "i2", "u2", "i4", "u4", "i8", "u8", "i", "u", "r4", "r8", "r"}
  BY DEF IL!ConvOpcodes
<1>2. op.name = "i" => IL!BuildConv(op) = "i4"
  BY DEF IL!BuildConv
<1>3. op.name = "u" => IL!BuildConv(op) = "u4"
  BY DEF IL!BuildConv
<1>4. op.name = "r" => IL!BuildConv(op) = "r8"
  BY DEF IL!BuildConv
<1>5. op.name \notin {"i", "u", "r"} => IL!BuildConv(op) = op.name
  BY DEF IL!BuildConv
<1> QED BY <1>1, <1>2, <1>3, <1>4, <1>5

\* A number cut to the bits of a kind.
LEMMA Narrows ==
    ASSUME Widths, NEW n \in Int, NEW k \in {"I1", "I2", "I4", "I8"}
    PROVE  /\ IL!Fits(IL!Signed(n, Bits[k]), k)
           /\ (IL!Signed(n, Bits[k]) - n) % 2^Bits[k] = 0
           /\ IL!Unsigned(n, Bits[k]) \in 0..(2^Bits[k] - 1)
           /\ (IL!Unsigned(n, Bits[k]) - n) % 2^Bits[k] = 0
<1> DEFINE w == Bits[k]
           s == IL!Signed(n, w)
           u == IL!Unsigned(n, w)
<1>1. w \in Nat /\ w # 0 /\ PowersDouble
  BY DEF Widths
<1>2. s \in (-(2^(w - 1)))..(2^(w - 1) - 1) /\ u \in 0..(2^w - 1)
  BY <1>1, SignedHolds, UnsignedIs
<1>3. PICK q \in Int : s = n + 2^w * q
  BY <1>1, SignedHolds
<1>4. PICK p \in Int : u = n + 2^w * p
  BY <1>1, UnsignedIs
<1> HIDE DEF w, s, u
<1>5. 2^w \in Nat /\ 2^w # 0 /\ 2^(w - 1) \in Nat
  BY <1>1, Halves
<1>6. s - n = 2^w * q /\ u - n = 2^w * p /\ s - n \in Int /\ u - n \in Int
  BY <1>2, <1>3, <1>4, <1>5
<1>7. (s - n) % 2^w = 0 /\ (u - n) % 2^w = 0
  BY <1>5, <1>6, Multiples
<1> QED BY <1>2, <1>7 DEF w, s, u, IL!Fits

\* An integer of either kind is no greater than the least one of the wider.
LEMMA IntegersFit ==
    ASSUME Widths, NEW k \in IL!Ints, NEW n \in Int, IL!Fits(n, k)
    PROVE  IL!Magnitude(n) <= 2^(Bits["I8"] - 1)
<1>1. 2^(Bits[k] - 1) \in Nat /\ 2^(Bits["I8"] - 1) \in Nat /\ 2^(Bits[k] - 1) <= 2^(Bits["I8"] - 1)
  <2>1. Bits[k] - 1 \in Nat /\ Bits["I8"] - 1 \in Nat /\ Bits[k] - 1 <= Bits["I8"] - 1
    BY DEF Widths, IL!Ints
  <2> QED BY <2>1, Powers, PowersGrow DEF Widths
<1> QED BY <1>1 DEF IL!Fits, IL!Magnitude

\* Every conv of a number.
LEMMA ConversionsAreStandard ==
    ASSUME Widths, NEW a \in AllNumbers, NEW op \in IL!ConvOpcodes
    PROVE  IL!ConvStandard(op.name, a, IL!evalConv(IL!BuildConv(op), a))
<1> DEFINE name == op.name
           kind == IL!BuildConv(op)
           r == IL!evalConv(kind, a)
<1>1. /\ name \in {"i1", "u1", "i2", "u2", "i4", "u4", "i8", "u8", "i", "u", "r4", "r8", "r"}
      /\ kind = IF name = "i" THEN "i4" ELSE IF name = "u" THEN "u4" ELSE IF name = "r" THEN "r8" ELSE name
  BY ConvNamesAre
<1>2. /\ IL!isPrimitiveValueKind(a) /\ a.kind # "Ref"
      /\ a.kind \in IL!Ints \/ a.kind \in IL!Floats
      /\ ~(a.kind \in IL!Ints /\ a.kind \in IL!Floats)
      /\ a.kind \in IL!Ints => a.v \in Int /\ IL!Fits(a.v, a.kind)
      /\ a.v # NaN => a.v \in Int
  BY NumberFacts DEF IL!Ints, IL!Floats
<1> HIDE DEF name, kind, r
<1> SUFFICES IL!ConvStandard(name, a, r)
  BY DEF name, kind, r
<1>3. CASE name \in {"r4", "r8", "r"}
  <2>1. r.v = IL!toFloat64(a)
    <3>1. r = IL!Val("R4", IL!toFloat64(a)) \/ r = IL!Val("R8", IL!toFloat64(a))
      BY <1>1, <1>2, <1>3, ConversionsAre DEF r
    <3> QED BY <3>1 DEF IL!Val
  <2>2. a.kind \in IL!Floats => r.v = a.v
    BY <1>2, <2>1 DEF IL!toFloat64
  <2>3. ASSUME a.kind \in IL!Ints
        PROVE  IF IL!Magnitude(a.v) < 2^Mantissa THEN r.v = 2 * a.v
               ELSE 2 * IL!Magnitude(r.v - 2 * a.v) <= 2^(1 + Bits["I8"] - Mantissa)
    <3> DEFINE f == IL!Float64(a.v)
    <3>1. r.v = 2 * f
      BY <2>1, <2>3 DEF IL!toFloat64
    <3>2. IL!Magnitude(a.v) <= 2^(Bits["I8"] - 1)
      BY <1>2, <2>3, IntegersFit
    <3>3. f \in Int /\ (IL!Magnitude(a.v) < 2^Mantissa => f = a.v)
          /\ 2 * IL!Magnitude(f - a.v) <= 2^(Bits["I8"] - Mantissa)
      BY <1>2, <2>3, <3>2, Float64Rounds
    <3> HIDE DEF f
    <3>4. 2 * IL!Magnitude(r.v - 2 * a.v) = 2 * (2 * IL!Magnitude(f - a.v))
      BY <1>2, <2>3, <3>1, <3>3 DEF IL!Magnitude
    <3>5. 2^(1 + Bits["I8"] - Mantissa) = 2 * 2^(Bits["I8"] - Mantissa) /\ 2^(Bits["I8"] - Mantissa) \in Nat
      <4>1. Bits["I8"] - Mantissa \in Nat /\ 1 + Bits["I8"] - Mantissa = (Bits["I8"] - Mantissa) + 1
        BY DEF Widths
      <4> QED BY <4>1, Powers DEF Widths, PowersDouble
    <3>6. IL!Magnitude(f - a.v) \in Int
      BY <1>2, <2>3, <3>3 DEF IL!Magnitude
    <3> QED BY <3>1, <3>3, <3>4, <3>5, <3>6
  <2> QED BY <1>3, <2>2, <2>3 DEF IL!ConvStandard
<1>4. CASE name \notin {"r4", "r8", "r"} /\ a.v # NaN /\ ~(name = "u8" /\ a.kind = "I4")
  <2> DEFINE n == IL!toInt64(a)
             k == IL!Narrow[name]
  <2>1. n \in Int /\ n = (IF a.kind \in IL!Ints THEN a.v ELSE IL!Quotient(a.v, 2))
    <3>1. a.v \in Int
      BY <1>2, <1>4
    <3>2. \A b \in Int : b # 0 => IL!Quotient(a.v, b) \in Int
      BY <3>1, QuotientIs
    <3>3. IL!Quotient(a.v, 2) \in Int
      BY <3>2
    <3> QED BY <3>1, <3>3 DEF IL!toInt64
  <2>2. k \in {"I1", "I2", "I4", "I8"}
    BY <1>1, <1>4 DEF IL!Narrow
  <2>3. name \in {"u1", "u2"} => r = IL!Val("I4", IL!Unsigned(n, Bits[k])) /\ k # "I8"
    BY <1>1, <1>2, ConversionsAre DEF r, IL!Narrow, IL!I4
  <2>4. name \notin {"u1", "u2"} => r = IL!Val(IF k = "I8" THEN "I8" ELSE "I4", IL!Signed(n, Bits[k]))
    BY <1>1, <1>2, <1>4, ConversionsAre DEF r, IL!Narrow, IL!I4
  <2> HIDE DEF n, k
  <2>5. r.kind = (IF k = "I8" THEN "I8" ELSE "I4") /\ (r.v - n) % 2^Bits[k] = 0
        /\ (IF name \in {"u1", "u2"} THEN r.v \in 0..(2^Bits[k] - 1) ELSE IL!Fits(r.v, k))
    <3>1. CASE name \in {"u1", "u2"}
      <4>1. r.kind = "I4" /\ r.v = IL!Unsigned(n, Bits[k]) /\ k # "I8"
        BY <2>3, <3>1 DEF IL!Val
      <4>2. /\ IL!Unsigned(n, Bits[k]) \in 0..(2^Bits[k] - 1)
            /\ (IL!Unsigned(n, Bits[k]) - n) % 2^Bits[k] = 0
        BY <2>1, <2>2, Narrows
      <4>3. r.v \in 0..(2^Bits[k] - 1) /\ (r.v - n) % 2^Bits[k] = 0
        BY <4>1, <4>2
      <4> QED BY <3>1, <4>1, <4>3
    <3>2. CASE name \notin {"u1", "u2"}
      <4>1. r.kind = (IF k = "I8" THEN "I8" ELSE "I4") /\ r.v = IL!Signed(n, Bits[k])
        BY <2>4, <3>2 DEF IL!Val
      <4>2. IL!Fits(IL!Signed(n, Bits[k]), k) /\ (IL!Signed(n, Bits[k]) - n) % 2^Bits[k] = 0
        BY <2>1, <2>2, Narrows
      <4>3. IL!Fits(r.v, k) /\ (r.v - n) % 2^Bits[k] = 0
        BY <4>1, <4>2
      <4> QED BY <3>2, <4>1, <4>3
    <3> QED BY <3>1, <3>2
  <2> QED BY <1>2, <1>4, <2>1, <2>5 DEF IL!ConvStandard, k
<1>5. CASE name = "u8" /\ a.kind = "I4" /\ a.v # NaN
  <2> DEFINE n == IL!Unsigned(a.v, Bits["I4"])
  <2>1. r = IL!Val("I8", n)
    BY <1>1, <1>2, <1>5, ConversionsAre DEF r
  <2>2. n \in 0..(2^Bits["I4"] - 1)
    BY <1>2, <1>5, Narrows
  <2> HIDE DEF n
  <2>3. IL!Fits(n, "I8") /\ n \in Int
    <3>1. 2^Bits["I4"] <= 2^(Bits["I8"] - 1) /\ 2^Bits["I4"] \in Nat /\ 2^(Bits["I8"] - 1) \in Nat
      BY Powers, PowersGrow DEF Widths
    <3> QED BY <2>2, <3>1 DEF IL!Fits
  <2>4. (n - n) % 2^Bits["I8"] = 0
    <3>1. 2^Bits["I8"] \in Nat /\ 2^Bits["I8"] # 0
      BY Halves DEF Widths
    <3>2. n - n = 2^Bits["I8"] * 0 /\ n - n \in Int
      BY <2>3, <3>1
    <3> QED BY <3>1, <3>2, Multiples
  <2>5. r.kind = "I8" /\ r.v = n
    BY <2>1 DEF IL!Val
  <2>6. IL!Narrow[name] = "I8"
    BY <1>5 DEF IL!Narrow
  <2> QED BY <1>5, <2>3, <2>4, <2>5, <2>6 DEF IL!ConvStandard, n
<1>6. CASE name \notin {"r4", "r8", "r"} /\ a.v = NaN
  BY <1>2, <1>6 DEF IL!ConvStandard
<1> QED BY <1>3, <1>4, <1>5, <1>6

\* Of two floats that are ordered, Less and Same are < and =.
LEMMA SameKinds ==
    ASSUME Widths, NEW a \in AllNumbers, NEW b \in AllNumbers
    PROVE  /\ IL!Less(a.v, b.v) <=> a.v # NaN /\ b.v # NaN /\ a.v < b.v
           /\ IL!Same(a.v, b.v) <=> a.v # NaN /\ b.v # NaN /\ a.v = b.v
           /\ a.kind = b.kind /\ ~IL!Unordered(a, b) => a.v # NaN /\ b.v # NaN
BY NumberFacts DEF IL!Less, IL!Same, IL!Unordered, Widths

\* neg and not.
LEMMA NegationIsStandard ==
    ASSUME Widths, NEW a \in AllNumbers
    PROVE  /\ IL!MathStandard("neg", a, IL!Null, IL!evalNeg(a))
           /\ IL!MathStandard("not", a, IL!Null, IL!evalNot(a))
<1>0. /\ a.kind \in IL!Ints \/ a.kind \in IL!Floats
      /\ ~(a.kind \in IL!Ints /\ a.kind \in IL!Floats)
      /\ a.kind \in IL!Ints => a.v \in Int /\ IL!Fits(a.v, a.kind)
      /\ a.v # NaN => a.v \in Int
  BY NumberFacts
<1>1. ASSUME a.kind \in IL!Ints PROVE IL!Holds(IL!evalNeg(a), a.kind, -a.v)
  BY <1>0, <1>1, Wraps DEF IL!evalNeg
<1>2. ASSUME a.kind \in IL!Floats, a.v # NaN PROVE IL!evalNeg(a).v + a.v = 0
  BY <1>0, <1>2 DEF IL!evalNeg, IL!Val
<1>3. ASSUME a.kind \in IL!Ints PROVE IL!Holds(IL!evalNot(a), a.kind, -1 - a.v)
  <2> DEFINE n == -a.v - 1
             M == 2^Bits[a.kind]
             half == 2^(Bits[a.kind] - 1)
  <2>1. IL!evalNot(a) = IL!Val(a.kind, n)
    BY <1>3 DEF IL!evalNot
  <2>2. Bits[a.kind] \in Nat /\ Bits[a.kind] # 0
    BY <1>3 DEF Widths, IL!Ints
  <2>3. M \in Nat /\ M # 0 /\ half \in Nat
    BY <2>2, Halves DEF Widths
  <2>4. a.v \in Int /\ a.v \in (-half)..(half - 1)
    BY <1>0, <1>3 DEF IL!Fits
  <2>5. n \in (-half)..(half - 1) /\ n = -1 - a.v
    <3> HIDE DEF half, M
    <3> QED BY <2>3, <2>4
  <2>6. (n - (-1 - a.v)) % M = 0
    <3> HIDE DEF M, n, half
    <3>1. n - (-1 - a.v) = M * 0 /\ n - (-1 - a.v) \in Int
      BY <2>3, <2>4, <2>5
    <3> QED BY <2>3, <3>1, Multiples
  <2> QED BY <2>1, <2>5, <2>6 DEF IL!Holds, IL!Fits, IL!Val
<1> DEFINE r == IL!evalNeg(a)
           s == IL!evalNot(a)
<1> HIDE DEF r, s
<1>4. IL!MathStandard("neg", a, IL!Null, r)
  BY <1>1, <1>2 DEF r, IL!MathStandard
<1>5. IL!MathStandard("not", a, IL!Null, s)
  BY <1>3 DEF s, IL!MathStandard
<1> QED BY <1>4, <1>5 DEF r, s

\* Math.Sign, Math.Abs and Double.IsNaN.
LEMMA SignsAreStandard ==
    ASSUME Widths, NEW a \in AllNumbers
    PROVE  /\ IL!MathStandard("sign", a, IL!Null, IL!mathSign(a))
           /\ IL!MathStandard("abs", a, IL!Null, IL!mathAbs(a))
           /\ IL!MathStandard("isNaN", a, IL!Null, IL!doubleIsNaN(a))
<1>0. /\ a.kind \in IL!Ints \/ a.kind \in IL!Floats
      /\ ~(a.kind \in IL!Ints /\ a.kind \in IL!Floats)
      /\ a.kind \in IL!Ints => a.v \in Int /\ IL!Fits(a.v, a.kind)
      /\ a.v # NaN => a.v \in Int
      /\ IL!isPrimitiveValueKind(a)
  BY NumberFacts
<1>1. ASSUME a.kind \in IL!Ints
      PROVE  LET f == IL!Float64(a.v)
             IN /\ f \in Int /\ (f < 0 <=> a.v < 0) /\ (f > 0 <=> a.v > 0)
                /\ IL!Magnitude(a.v) < 2^Mantissa => f = a.v
  BY <1>0, <1>1, IntegersFit, Float64Rounds
<1>2. ASSUME a.v # NaN
      PROVE  LET f == IL!toFloat64(a) IN f \in Int /\ (f < 0 <=> a.v < 0) /\ (f > 0 <=> a.v > 0)
  <2>1. CASE a.kind \in IL!Ints
    <3> DEFINE f == IL!Float64(a.v)
    <3>1. f \in Int /\ (f < 0 <=> a.v < 0) /\ (f > 0 <=> a.v > 0)
      BY <1>1, <2>1
    <3>2. IL!toFloat64(a) = 2 * f
      BY <2>1 DEF IL!toFloat64
    <3> HIDE DEF f
    <3> QED BY <3>1, <3>2
  <2>2. CASE a.kind \notin IL!Ints
    BY <1>0, <1>2, <2>2 DEF IL!toFloat64
  <2> QED BY <2>1, <2>2
<1>3. ASSUME a.v # NaN
      PROVE  LET r == IL!mathSign(a) IN r.v \in {-1, 0, 1} /\ (r.v > 0 <=> a.v > 0) /\ (r.v < 0 <=> a.v < 0)
  <2> DEFINE f == IL!toFloat64(a)
  <2>1. f \in Int /\ (f < 0 <=> a.v < 0) /\ (f > 0 <=> a.v > 0)
    BY <1>2, <1>3
  <2>2. IL!mathSign(a).v = IF IL!Less(0, f) THEN 1 ELSE IF IL!Less(f, 0) THEN -1 ELSE 0
    BY <1>0 DEF IL!mathSign, IL!I4, IL!Val
  <2> HIDE DEF f
  <2>3. (IL!Less(0, f) <=> f > 0) /\ (IL!Less(f, 0) <=> f < 0)
    BY <2>1 DEF IL!Less, Widths
  <2> QED BY <1>0, <1>3, <2>1, <2>2, <2>3
<1>4. ASSUME a.kind \in IL!Ints, IL!Magnitude(a.v) < 2^Mantissa, IL!Fits(-a.v, a.kind)
      PROVE  IL!mathAbs(a) = IL!Val(a.kind, IL!Magnitude(a.v))
  <2> DEFINE w == Bits[a.kind]
             n == IL!Magnitude(a.v)
             s == IL!Signed(n, w)
  <2>1. IL!mathAbs(a) = IL!Val(a.kind, s)
    BY <1>1, <1>4 DEF IL!mathAbs
  <2>2. w \in Nat /\ w # 0 /\ PowersDouble
    BY <1>4 DEF Widths, IL!Ints
  <2>3. n \in Int /\ n \in (-(2^(w - 1)))..(2^(w - 1) - 1)
    BY <1>0, <1>4 DEF IL!Fits, IL!Magnitude
  <2> HIDE DEF w, n, s
  <2>4. s = n
    <3>1. 2^w \in Nat /\ 2^w # 0 /\ 2^(w - 1) \in Nat /\ 2^w = 2 * 2^(w - 1)
      BY <2>2, Halves
    <3> DEFINE M == 2^w
               y == n + 2^(w - 1)
    <3>2. y \in 0..(M - 1) /\ M \in Nat /\ M # 0
      BY <2>3, <3>1
    <3>3. y % M = y
      <4> HIDE DEF y, M
      <4>1. (M * 0 + y) % M = y /\ M * 0 + y = y
        BY <3>2, DivisionIsUnique
      <4> QED BY <4>1
    <3> QED BY <2>3, <3>1, <3>3 DEF s, IL!Signed
  <2> QED BY <2>1, <2>4 DEF n
<1>5. ASSUME a.kind \in IL!Floats, a.v # NaN PROVE IL!mathAbs(a) = IL!Val(a.kind, IL!Magnitude(a.v))
  BY <1>0, <1>5 DEF IL!mathAbs
<1>6. a.kind \in IL!Floats => IL!doubleIsNaN(a) = IL!Bool(~(a.v # NaN))
  <2>1. (a.v = NaN) <=> ~(a.v # NaN)
    OBVIOUS
  <2> QED BY <2>1 DEF IL!doubleIsNaN, IL!Bool
<1> DEFINE r == IL!mathSign(a)
           s == IL!mathAbs(a)
           u == IL!doubleIsNaN(a)
<1> HIDE DEF r, s, u
<1>7. IL!MathStandard("sign", a, IL!Null, r)
  BY <1>3 DEF r, IL!MathStandard
<1>8. IL!MathStandard("abs", a, IL!Null, s)
  BY <1>0, <1>4, <1>5 DEF s, IL!MathStandard
<1>9. IL!MathStandard("isNaN", a, IL!Null, u)
  BY <1>6 DEF u, IL!MathStandard
<1> QED BY <1>7, <1>8, <1>9 DEF r, s, u

\* Math.Floor, Ceiling, Truncate and Round.
LEMMA RoundingIsStandard ==
    ASSUME Widths, NEW a \in AllNumbers
    PROVE  /\ IL!MathStandard("floor", a, IL!Null, IL!mathFloor(a))
           /\ IL!MathStandard("ceiling", a, IL!Null, IL!mathCeiling(a))
           /\ IL!MathStandard("truncate", a, IL!Null, IL!mathTruncate(a))
           /\ IL!MathStandard("round", a, IL!Null, IL!mathRound(a))
<1>1. CASE ~(a.kind = "R8" /\ a.v # NaN)
  BY <1>1 DEF IL!MathStandard
<1>2. CASE a.kind = "R8" /\ a.v # NaN
  <2> DEFINE n == a.v
             f == IL!mathFloor(a).v
             c == IL!mathCeiling(a).v
             t == IL!mathTruncate(a).v
             u == IL!mathRound(a).v
  <2>1. n \in Int
    BY <1>2, NumberFacts
  <2>2. f = 2 * (n \div 2) /\ c = -2 * ((-n) \div 2) /\ t = 2 * IL!Quotient(n, 2)
    BY <1>2 DEF IL!mathFloor, IL!mathCeiling, IL!mathTruncate, IL!Val
  <2>3. u = IF n % 2 = 0 THEN n ELSE IF (n - 1) % 4 = 0 THEN n - 1 ELSE n + 1
    BY <1>2 DEF IL!mathRound, IL!Val
  <2>4. f % 2 = 0 /\ n - f \in 0..1
    <3> HIDE DEF f, n
    <3> QED BY <2>1, <2>2
  <2>5. c % 2 = 0 /\ c - n \in 0..1
    <3> HIDE DEF c, n
    <3> QED BY <2>1, <2>2
  <2>6. t % 2 = 0 /\ IL!Magnitude(n) - IL!Magnitude(t) \in 0..1 /\ t * n >= 0
    <3> DEFINE q == IL!Quotient(n, 2)
               m == IL!Remainder(n, 2)
    <3>1. q \in Int /\ m \in -1..1 /\ (m = 0 \/ (m < 0) = (n < 0)) /\ n = 2 * q + m
      <4>1. IL!Magnitude(2) = 2
        BY DEF IL!Magnitude
      <4>2. /\ q \in Int /\ m \in (1 - IL!Magnitude(2))..(IL!Magnitude(2) - 1)
            /\ (m = 0 \/ (m < 0) = (n < 0)) /\ n = 2 * q + m
        <5> HIDE DEF n, q, m
        <5>1. /\ IL!Quotient(n, 2) \in Int
              /\ IL!Remainder(n, 2) \in (1 - IL!Magnitude(2))..(IL!Magnitude(2) - 1)
              /\ IL!Remainder(n, 2) = 0 \/ (IL!Remainder(n, 2) < 0) = (n < 0)
              /\ n = 2 * IL!Quotient(n, 2) + IL!Remainder(n, 2)
          <6>1. \A b \in Int : b # 0 =>
                   /\ IL!Quotient(n, b) \in Int
                   /\ IL!Remainder(n, b) \in (1 - IL!Magnitude(b))..(IL!Magnitude(b) - 1)
                   /\ IL!Remainder(n, b) = 0 \/ (IL!Remainder(n, b) < 0) = (n < 0)
                   /\ n = b * IL!Quotient(n, b) + IL!Remainder(n, b)
            BY <2>1, QuotientIs
          <6> QED BY <6>1
        <5> QED BY <5>1 DEF q, m
      <4> QED BY <4>1, <4>2
    <3> HIDE DEF n, t, q, m
    <3>2. t = 2 * q
      BY <2>2 DEF q
    <3>3. t % 2 = 0
      BY <3>1, <3>2
    <3>4. n < 0 => t <= 0 /\ t >= n /\ t - n <= 1
      BY <2>1, <3>1, <3>2
    <3>5. n >= 0 => t >= 0 /\ t <= n /\ n - t <= 1
      BY <2>1, <3>1, <3>2
    <3>6. t \in Int
      BY <3>1, <3>2
    <3>7. t * n >= 0
      <4>1. CASE n < 0
        BY <2>1, <3>4, <3>6, <4>1
      <4>2. CASE n >= 0
        BY <2>1, <3>5, <3>6, <4>2
      <4> QED BY <2>1, <4>1, <4>2
    <3> QED BY <2>1, <3>3, <3>4, <3>5, <3>6, <3>7 DEF IL!Magnitude
  <2>7. u % 2 = 0 /\ (u = n \/ (IL!Magnitude(u - n) = 1 /\ u % 4 = 0))
    <3> HIDE DEF n, u
    <3> QED BY <2>1, <2>3 DEF IL!Magnitude
  <2> DEFINE rf == IL!mathFloor(a)
             rc == IL!mathCeiling(a)
             rt == IL!mathTruncate(a)
             ru == IL!mathRound(a)
  <2> HIDE DEF rf, rc, rt, ru
  <2>8. IL!MathStandard("floor", a, IL!Null, rf)
    BY <2>4 DEF rf, IL!MathStandard
  <2>9. IL!MathStandard("ceiling", a, IL!Null, rc)
    BY <2>5 DEF rc, IL!MathStandard
  <2>10. IL!MathStandard("truncate", a, IL!Null, rt)
    BY <2>6 DEF rt, IL!MathStandard
  <2>11. IL!MathStandard("round", a, IL!Null, ru)
    BY <2>7 DEF ru, IL!MathStandard
  <2> QED BY <2>8, <2>9, <2>10, <2>11 DEF rf, rc, rt, ru
<1> QED BY <1>1, <1>2

\* Math.Min, Math.Max and CompareTo, of two numbers of a kind.
LEMMA OrderIsStandard ==
    ASSUME Widths, NEW a \in AllNumbers, NEW b \in AllNumbers, a.kind = b.kind
    PROVE  /\ IL!MathStandard("min", a, b, IL!mathMinMax(a, b, FALSE))
           /\ IL!MathStandard("max", a, b, IL!mathMinMax(a, b, TRUE))
           /\ IL!MathStandard("compareTo", a, b, IL!comparableCompareTo(a, b))
<1> DEFINE least == IL!mathMinMax(a, b, FALSE)
           most == IL!mathMinMax(a, b, TRUE)
           c == IL!comparableCompareTo(a, b)
<1>1. IL!isPrimitiveValueKind(a) /\ a.kind # "Object"
  BY NumberFacts DEF IL!Ints, IL!Floats
<1>2. ASSUME ~IL!Unordered(a, b)
      PROVE  /\ least \in {a, b} /\ least.v <= a.v /\ least.v <= b.v
             /\ most \in {a, b} /\ most.v >= a.v /\ most.v >= b.v
             /\ (c.v < 0 <=> a.v < b.v) /\ (c.v > 0 <=> a.v > b.v)
  <2>1. a.v \in Int /\ b.v \in Int
    BY <1>2, SameKinds, NumberFacts
  <2>2. (IL!Less(a.v, b.v) <=> a.v < b.v) /\ (IL!Less(b.v, a.v) <=> b.v < a.v)
    BY <1>2, SameKinds
  <2>3. least = IF IL!Less(b.v, a.v) THEN b ELSE a
    BY <1>1 DEF IL!mathMinMax, IL!Less
  <2>4. most = IF IL!Less(b.v, a.v) THEN a ELSE b
    BY <1>1 DEF IL!mathMinMax, IL!Less
  <2>5. c.v = IF IL!Less(a.v, b.v) THEN -1 ELSE IF IL!Less(b.v, a.v) THEN 1 ELSE 0
    BY <1>1 DEF IL!comparableCompareTo, IL!I4, IL!Val
  <2> HIDE DEF least, most, c
  <2> QED BY <2>1, <2>2, <2>3, <2>4, <2>5
<1> HIDE DEF least, most, c
<1>3. IL!MathStandard("min", a, b, least) /\ IL!MathStandard("max", a, b, most)
  BY <1>2 DEF IL!MathStandard
<1>4. IL!MathStandard("compareTo", a, b, c)
  BY <1>2 DEF IL!MathStandard
<1> QED BY <1>3, <1>4 DEF least, most, c

\* The decimal constructor: its value is both words, unsigned.
LEMMA DecimalsAreStandard ==
    ASSUME Widths, NEW a \in AllNumbers, NEW b \in AllNumbers, a.kind = "I4", b.kind = "I4"
    PROVE  IL!MathStandard("decimal", a, b, IL!decimalFromBits(a.v, b.v, 0, FALSE))
<1> DEFINE w == Bits["I4"]
           x == IL!Unsigned(a.v, w)
           y == IL!Unsigned(b.v, w)
           M == 2^w
           r == IL!decimalFromBits(a.v, b.v, 0, FALSE)
           mid == y * M + x
<1>0. w \in Nat /\ w # 0 /\ PowersDouble
  BY DEF Widths
<1>1. a.v \in Int /\ b.v \in Int /\ IL!Fits(a.v, "I4") /\ IL!Fits(b.v, "I4")
  BY NumberFacts DEF IL!Ints
<1>2. M \in Nat /\ M # 0 /\ 2^(2 * w) \in Nat
  BY <1>0, Powers
<1>3. x \in 0..(M - 1) /\ y \in 0..(M - 1)
  BY <1>0, <1>1, UnsignedIs
<1>4. PICK p \in Int : x = a.v + M * p
  BY <1>0, <1>1, UnsignedIs
<1>5. PICK q \in Int : y = b.v + M * q
  BY <1>0, <1>1, UnsignedIs
<1>6. IL!Unsigned(0, w) = 0
  <2>1. M * 0 + 0 = 0 /\ 0 \in 0..(M - 1)
    BY <1>2
  <2>2. (M * 0 + 0) % M = 0
    <3> HIDE DEF M
    <3> QED BY <1>2, <2>1, DivisionIsUnique
  <2> QED BY <2>1, <2>2 DEF IL!Unsigned
<1>7. r.v = 2 * (0 * 2^(2 * w) + y * M + x)
  BY <1>6 DEF IL!decimalFromBits, IL!Val
<1> HIDE DEF r, x, y, M, w
<1>8. mid \in Nat /\ r.v = 2 * mid
  <2>1. y * M \in Nat /\ x \in Nat
    BY <1>2, <1>3
  <2>2. 0 * 2^(2 * w) + y * M + x = mid
    BY <1>2, <2>1
  <2> QED BY <1>7, <2>1, <2>2
<1>9. r.v >= 0 /\ r.v \div 2 = mid
  <2> HIDE DEF mid
  <2> QED BY <1>8
<1>10. mid \div M = y
  <2>1. mid = M * y + x
    BY <1>2, <1>3
  <2> QED BY <1>2, <1>3, <2>1, DivisionIsUnique
<1>11. (a.v - mid) % M = 0
  <2>1. a.v - mid = M * (-(y + p))
    <3>1. M * (-(y + p)) = -(M * (y + p)) /\ M * (y + p) = M * y + M * p /\ M * y = y * M
      BY <1>2, <1>3, Negatives
    <3>2. M * p \in Int /\ y * M \in Int
      BY <1>2, <1>3
    <3> QED BY <1>1, <1>2, <1>3, <1>4, <3>1, <3>2
  <2>2. -(y + p) \in Int /\ a.v - mid \in Int
    BY <1>1, <1>3, <1>8
  <2> QED BY <1>2, <2>1, <2>2, Multiples
<1>12. (b.v - y) % M = 0
  <2>1. b.v - y = M * (-q) /\ -q \in Int /\ b.v - y \in Int
    <3>1. M * (-q) = -(M * q) /\ M * q \in Int
      BY <1>2, Negatives
    <3> QED BY <1>1, <1>3, <1>5, <3>1
  <2> QED BY <1>2, <2>1, Multiples
<1>13. IL!Holds(a, "I4", r.v \div 2)
  BY <1>1, <1>9, <1>11 DEF IL!Holds, M, w
<1>14. IL!Holds(b, "I4", (r.v \div 2) \div 2^Bits["I4"])
  BY <1>1, <1>9, <1>10, <1>12 DEF IL!Holds, M, w
<1>15. IL!MathStandard("decimal", a, b, r)
  BY <1>9, <1>13, <1>14 DEF IL!MathStandard
<1> QED BY <1>15 DEF r

-----------------------------------------------------------------------------
(* Arithmetic: comparisons and branches.                                   *)

\* References: a struct's fields are numbers that are not NaN, null and objects.
Fields == {a \in AllNumbers : a.v # NaN} \cup {IL!Null} \cup {IL!Val("Object", o) : o \in Objects}
AllReferences == {IL!Null} \cup {IL!Val(k, o) : k \in {"Object", "Array", "Ref"}, o \in Objects \cup {IL!Nil}}
                 \cup {IL!Val("String", o) : o \in Objects} \cup {IL!StructVal(f) : f \in Seq(Fields)}

\* A reference is no number.
LEMMA ReferenceFacts ==
    ASSUME NEW a \in AllReferences
    PROVE  /\ IL!isReferenceShaped(a) /\ ~IL!isPrimitiveValueKind(a)
           /\ a.kind \notin IL!Ints /\ a.kind \notin IL!Floats
           /\ a.kind # "Struct" => a = IL!Val(a.kind, a.v)
           /\ a.kind = "Struct" => \E f \in Seq(Fields) : a = IL!StructVal(f)
<1>1. CASE a = IL!Null
  BY <1>1 DEF IL!isReferenceShaped, IL!isPrimitiveValueKind, IL!Ints, IL!Floats, IL!Null, IL!Val
<1>2. CASE \E k \in {"Object", "Array", "Ref"}, o \in Objects \cup {IL!Nil} : a = IL!Val(k, o)
  BY <1>2 DEF IL!isReferenceShaped, IL!isPrimitiveValueKind, IL!Ints, IL!Floats, IL!Val
<1>3. CASE \E o \in Objects : a = IL!Val("String", o)
  BY <1>3 DEF IL!isReferenceShaped, IL!isPrimitiveValueKind, IL!Ints, IL!Floats, IL!Val
<1>4. CASE \E f \in Seq(Fields) : a = IL!StructVal(f)
  BY <1>4 DEF IL!isReferenceShaped, IL!isPrimitiveValueKind, IL!Ints, IL!Floats, IL!StructVal
<1> QED BY <1>1, <1>2, <1>3, <1>4 DEF AllReferences

\* A field of a struct equals another just when it is the same value.
LEMMA FieldsAreEqual ==
    ASSUME Widths, NEW x \in Fields, NEW y \in Fields
    PROVE  (IF IL!isReferenceShaped(x) /\ IL!isReferenceShaped(y)
            THEN IL!isNullish(x) = IL!isNullish(y) /\ (IL!isNullish(x) \/ x = y)
            ELSE x.kind = y.kind /\ IL!Same(x.v, y.v))
           <=> x = y
<1> DEFINE Held(z) == IL!isReferenceShaped(z) /\ (IL!isNullish(z) <=> z = IL!Null)
           Number(z) == z \in AllNumbers /\ z.v # NaN
<1>1. \A z \in Fields : Held(z) \/ Number(z)
  <2> TAKE z \in Fields
  <2>1. CASE z = IL!Null
    BY <2>1 DEF IL!Null, IL!Val, IL!isReferenceShaped, IL!isNullish
  <2>2. CASE \E o \in Objects : z = IL!Val("Object", o)
    BY <2>2 DEF IL!Null, IL!Nil, IL!Val, IL!isReferenceShaped, IL!isNullish, Widths
  <2> QED BY <2>1, <2>2 DEF Fields
<1>2. CASE Held(x) /\ Held(y)
  BY <1>2
<1>3. CASE Number(x) /\ Number(y)
  <2>1. ~IL!isReferenceShaped(x) /\ x = IL!Val(x.kind, x.v) /\ y = IL!Val(y.kind, y.v)
    BY <1>3, NumberFacts
  <2>2. IL!Same(x.v, y.v) <=> x.v = y.v
    BY <1>3, SameKinds
  <2> QED BY <2>1, <2>2
<1>4. ASSUME NEW u \in Fields, NEW v \in Fields, Held(u), Number(v)
      PROVE  IL!isReferenceShaped(u) /\ ~IL!isReferenceShaped(v) /\ u.kind # v.kind /\ u # v
  <2>1. ~IL!isReferenceShaped(v)
    BY <1>4, NumberFacts
  <2> QED BY <1>4, <2>1 DEF IL!isReferenceShaped
<1>5. CASE Held(x) /\ Number(y)
  BY <1>4, <1>5
<1>6. CASE Number(x) /\ Held(y)
  BY <1>4, <1>6
<1> QED BY <1>1, <1>2, <1>3, <1>5, <1>6

\* refEqual is identity, by contents for strings and structs, with null and a nil
\* reference the same.
LEMMA ReferencesAreEqual ==
    ASSUME Widths, NEW a \in AllReferences, NEW b \in AllReferences
    PROVE  IL!refEqual(a, b) <=> IL!SameReference(a, b)
<1>1. CASE IL!isNullish(a) \/ IL!isNullish(b)
  BY <1>1 DEF IL!refEqual, IL!SameReference
<1>2. CASE ~IL!isNullish(a) /\ ~IL!isNullish(b) /\ a.kind # b.kind
  BY <1>2 DEF IL!refEqual, IL!SameReference
<1>3. CASE ~IL!isNullish(a) /\ ~IL!isNullish(b) /\ a.kind = b.kind /\ a.kind # "Struct"
  BY <1>3, ReferenceFacts DEF IL!refEqual, IL!SameReference
<1>4. CASE ~IL!isNullish(a) /\ ~IL!isNullish(b) /\ a.kind = "Struct" /\ b.kind = "Struct"
  <2>1. PICK f \in Seq(Fields) : a = IL!StructVal(f)
    BY <1>4, ReferenceFacts
  <2>2. PICK g \in Seq(Fields) : b = IL!StructVal(g)
    BY <1>4, ReferenceFacts
  <2>3. a.fields = f /\ b.fields = g
    BY <2>1, <2>2 DEF IL!StructVal
  <2>4. \A i \in DOMAIN f : f[i] \in Fields
    OBVIOUS
  <2>5. \A i \in DOMAIN g : g[i] \in Fields
    OBVIOUS
  <2>6. IL!refEqual(a, b) <=> DOMAIN f = DOMAIN g /\ \A i \in DOMAIN f : f[i] = g[i]
    <3> DEFINE Equal(x, y) == IF IL!isReferenceShaped(x) /\ IL!isReferenceShaped(y)
                              THEN IL!isNullish(x) = IL!isNullish(y) /\ (IL!isNullish(x) \/ x = y)
                              ELSE x.kind = y.kind /\ IL!Same(x.v, y.v)
    <3>1. IL!refEqual(a, b) <=> DOMAIN f = DOMAIN g /\ \A i \in DOMAIN f : Equal(f[i], g[i])
      BY <1>4, <2>3, Zenon DEF IL!refEqual
    <3>2. DOMAIN f = DOMAIN g => \A i \in DOMAIN f : Equal(f[i], g[i]) <=> f[i] = g[i]
      BY <2>4, <2>5, FieldsAreEqual
    <3> HIDE DEF Equal
    <3> QED BY <3>1, <3>2
  <2>7. (DOMAIN f = DOMAIN g /\ \A i \in DOMAIN f : f[i] = g[i]) <=> f = g
    OBVIOUS
  <2>8. f = g <=> a = b
    BY <2>1, <2>2, <2>3
  <2> QED BY <1>4, <2>6, <2>7, <2>8 DEF IL!SameReference
<1> QED BY <1>1, <1>2, <1>3, <1>4

\* The comparison each opcode makes.
LEMMA CompareNamesAre ==
    /\ IL!CompareName["ceq"] = "eq" /\ IL!CompareName["cgt"] = "gt" /\ IL!CompareName["clt"] = "lt"
    /\ IL!CompareName["beq"] = "eq" /\ IL!CompareName["bne"] = "ne" /\ IL!CompareName["bgt"] = "gt"
    /\ IL!CompareName["blt"] = "lt" /\ IL!CompareName["bge"] = "ge" /\ IL!CompareName["ble"] = "le"
BY DEF IL!CompareName

\* The binary opcodes that compare.
Comparing == {"ceq", "cgt", "clt"}

\* ceq, cgt and clt are made for the numbers or the references compared.
LEMMA BinaryComparisonsAre ==
    ASSUME NEW op \in IL!BinaryOpcodes, op.name \in Comparing
    PROVE  LET in == IL!BuildBinOp(op)
           IN /\ in.Op = op.name /\ op.un \in BOOLEAN /\ (op.name = "ceq" => ~op.un)
              /\ in.Unsigned <=> op.un
BY DEF IL!BinaryOpcodes, IL!BuildBinOp, Comparing

\* ceq, cgt and clt of references.
LEMMA ReferencesCompared ==
    ASSUME Widths, NEW a \in AllReferences, NEW b \in AllReferences,
           NEW op \in IL!BinaryOpcodes, op.name \in Comparing, NEW r,
           r = IL!evalBinOp(IL!BuildBinOp(op), a, b),
           NEW t, t.a = a, t.b = b, t.op = op
    PROVE  IL!CompareStandard(t, r)
<1> DEFINE in == IL!BuildBinOp(op)
<1>1. IL!isReferenceShaped(a) /\ IL!isReferenceShaped(b) /\ a.kind \notin IL!Floats
  BY ReferenceFacts
<1>2. in.Op = op.name
  BY BinaryComparisonsAre
<1>3. r = IL!Bool(\/ in.Op = "ceq" /\ IL!refEqual(a, b)
                  \/ in.Op = "cgt" /\ IL!refGreater(a, b)
                  \/ in.Op = "clt" /\ IL!refGreater(b, a))
  BY <1>1, <1>2 DEF IL!evalBinOp, Comparing
<1>6. \A name : IL!Compares(name, op.un, a, b) <=>
         \/ name = "eq" /\ IL!SameReference(a, b)
         \/ name = "ne" /\ ~IL!SameReference(a, b)
         \/ name = "gt" /\ ~IL!isNullish(a)
         \/ name = "lt" /\ ~IL!isNullish(b)
  BY <1>1 DEF IL!Compares, IL!Unordered
<1>7. CASE op.name = "ceq"
  <2>1. IL!CompareName[op.name] = "eq"
    BY <1>7, CompareNamesAre
  <2>2. r = IL!Bool(IL!refEqual(a, b))
    BY <1>2, <1>3, <1>7 DEF IL!Bool
  <2>3. IL!Compares("eq", op.un, a, b) <=> IL!refEqual(a, b)
    BY <1>6, ReferencesAreEqual
  <2> QED BY <1>1, <2>1, <2>2, <2>3 DEF IL!CompareStandard, IL!Bool
<1>8. CASE op.name = "cgt"
  <2>1. IL!CompareName[op.name] = "gt"
    BY <1>8, CompareNamesAre
  <2>2. r = IL!Bool(IL!refGreater(a, b))
    BY <1>2, <1>3, <1>8 DEF IL!Bool
  <2>3. IL!isNullish(b) => (IL!Compares("gt", op.un, a, b) <=> IL!refGreater(a, b))
    BY <1>6 DEF IL!refGreater
  <2> QED BY <1>1, <2>1, <2>2, <2>3 DEF IL!CompareStandard, IL!Bool
<1>9. CASE op.name = "clt"
  <2>1. IL!CompareName[op.name] = "lt"
    BY <1>9, CompareNamesAre
  <2>2. r = IL!Bool(IL!refGreater(b, a))
    BY <1>2, <1>3, <1>9 DEF IL!Bool
  <2>3. IL!isNullish(a) => (IL!Compares("lt", op.un, a, b) <=> IL!refGreater(b, a))
    BY <1>6 DEF IL!refGreater
  <2> QED BY <1>1, <2>1, <2>2, <2>3 DEF IL!CompareStandard, IL!Bool
<1> QED BY <1>7, <1>8, <1>9 DEF Comparing

\* ceq, cgt and clt of two numbers of a kind.
LEMMA NumbersCompared ==
    ASSUME Widths, NEW a \in AllNumbers, NEW b \in AllNumbers, a.kind = b.kind,
           NEW op \in IL!BinaryOpcodes, op.name \in Comparing, NEW r,
           r = IL!evalBinOp(IL!BuildBinOp(op), a, b),
           IL!HasOrderedForm(IL!Operation("binary", op, a, b))
    PROVE  r = IL!Bool(IL!Compares(IL!CompareName[op.name], op.un, a, b))
<1> DEFINE in == IL!BuildBinOp(op)
<1>1. /\ ~IL!isReferenceShaped(a) /\ ~IL!isReferenceShaped(b)
      /\ a.kind \in IL!Ints \/ a.kind \in IL!Floats
      /\ ~(a.kind \in IL!Ints /\ a.kind \in IL!Floats)
      /\ a = IL!Val(a.kind, a.v) /\ b = IL!Val(b.kind, b.v)
  BY NumberFacts
<1>2. in.Op = op.name /\ op.un \in BOOLEAN /\ (op.name = "ceq" => ~op.un) /\ (in.Unsigned <=> op.un)
  BY BinaryComparisonsAre
<1>3. ~(op.un /\ IL!Unordered(a, b))
  BY DEF IL!HasOrderedForm, IL!Operation, Comparing
<1>4. CASE a.kind \in IL!Ints
  <2> DEFINE k == a.kind
             x == IL!Unsigned(a.v, Bits[k])
             y == IL!Unsigned(b.v, Bits[k])
  <2>1. r = IF in.Unsigned THEN IL!evalBinOpUint(in.Op, a.v, b.v, k) ELSE IL!evalBinOpInt(in.Op, a.v, b.v, k)
    BY <1>1, <1>4, OfIntegers
  <2>2. ~IL!Unordered(a, b)
    BY <1>1, <1>4 DEF IL!Unordered
  <2>3. CASE op.un
    <3>1. r = IL!evalBinOpUint(op.name, a.v, b.v, k) /\ op.name # "ceq"
      BY <1>2, <2>1, <2>3
    <3>2. /\ IL!Compares("gt", op.un, a, b) <=> x > y
          /\ IL!Compares("lt", op.un, a, b) <=> x < y
      BY <1>1, <1>4, <2>2, <2>3 DEF IL!Compares
    <3>3. CASE op.name = "cgt"
      <4>1. r = IL!Bool(x > y)
        BY <3>1, <3>3, IntegerOpcodes
      <4> QED BY <3>2, <3>3, <4>1, CompareNamesAre DEF IL!Bool
    <3>4. CASE op.name = "clt"
      <4>1. r = IL!Bool(x < y)
        BY <3>1, <3>4, IntegerOpcodes
      <4> QED BY <3>2, <3>4, <4>1, CompareNamesAre DEF IL!Bool
    <3> QED BY <3>1, <3>3, <3>4 DEF Comparing
  <2>4. CASE ~op.un
    <3>1. r = IL!evalBinOpInt(op.name, a.v, b.v, k)
      BY <1>2, <2>1, <2>4
    <3>2. /\ IL!Compares("gt", op.un, a, b) <=> a.v > b.v
          /\ IL!Compares("lt", op.un, a, b) <=> a.v < b.v
          /\ IL!Compares("eq", op.un, a, b) <=> a.v = b.v
      BY <1>1, <1>4, <2>2, <2>4 DEF IL!Compares
    <3>3. CASE op.name = "cgt"
      <4>1. r = IL!Bool(a.v > b.v)
        BY <3>1, <3>3, IntegerOpcodes
      <4> QED BY <3>2, <3>3, <4>1, CompareNamesAre DEF IL!Bool
    <3>4. CASE op.name = "clt"
      <4>1. r = IL!Bool(a.v < b.v)
        BY <3>1, <3>4, IntegerOpcodes
      <4> QED BY <3>2, <3>4, <4>1, CompareNamesAre DEF IL!Bool
    <3>5. CASE op.name = "ceq"
      <4>1. r = IL!Bool(a.v = b.v)
        BY <3>1, <3>5, IntegerOpcodes
      <4> QED BY <3>2, <3>5, <4>1, CompareNamesAre DEF IL!Bool
    <3> QED BY <3>3, <3>4, <3>5 DEF Comparing
  <2> QED BY <1>2, <2>3, <2>4
<1>5. CASE a.kind \in IL!Floats
  <2>1. a.kind \notin IL!Ints
    BY <1>1, <1>5
  <2>2. r = IL!evalBinOpFloat(op.name, a.v, b.v, a.kind)
    <3>1. a.kind # "Null" /\ b.kind # "Null" /\ a.kind # "I8"
      BY <1>5 DEF IL!Floats
    <3> QED BY <1>1, <1>2, <1>5, <2>1, <3>1 DEF IL!evalBinOp
  <2>3. r = IL!Bool(\/ op.name = "ceq" /\ IL!Same(a.v, b.v)
                    \/ op.name = "cgt" /\ IL!Less(b.v, a.v)
                    \/ op.name = "clt" /\ IL!Less(a.v, b.v))
    BY <2>2 DEF IL!evalBinOpFloat, IL!Bool, Comparing
  <2>4. /\ IL!Less(a.v, b.v) <=> a.v # NaN /\ b.v # NaN /\ a.v < b.v
        /\ IL!Less(b.v, a.v) <=> a.v # NaN /\ b.v # NaN /\ b.v < a.v
        /\ IL!Same(a.v, b.v) <=> a.v # NaN /\ b.v # NaN /\ a.v = b.v
    BY SameKinds
  <2>5. CASE IL!Unordered(a, b)
    <3>1. a.v = NaN \/ b.v = NaN
      BY <2>5 DEF IL!Unordered
    <3>2. ~IL!Less(a.v, b.v) /\ ~IL!Less(b.v, a.v) /\ ~IL!Same(a.v, b.v)
      BY <2>4, <3>1
    <3>3. ~IL!Compares(IL!CompareName[op.name], op.un, a, b)
      BY <1>3, <2>5 DEF IL!Compares
    <3> QED BY <2>3, <3>2, <3>3 DEF IL!Bool
  <2>6. CASE ~IL!Unordered(a, b)
    <3>1. a.v # NaN /\ b.v # NaN /\ a.v \in Int /\ b.v \in Int
      BY <2>6, SameKinds, NumberFacts
    <3>2. /\ IL!Compares("eq", op.un, a, b) <=> a.v = b.v
          /\ IL!Compares("gt", op.un, a, b) <=> a.v > b.v
          /\ IL!Compares("lt", op.un, a, b) <=> a.v < b.v
      BY <1>1, <2>1, <2>6 DEF IL!Compares
    <3>3. CASE op.name = "ceq"
      BY <2>3, <2>4, <3>1, <3>2, <3>3, CompareNamesAre DEF IL!Bool
    <3>4. CASE op.name = "cgt"
      <4>1. IL!Less(b.v, a.v) <=> a.v > b.v
        BY <2>4, <3>1
      <4>2. r = IL!Bool(IL!Less(b.v, a.v))
        BY <2>3, <3>4 DEF IL!Bool
      <4> QED BY <3>2, <3>4, <4>1, <4>2, CompareNamesAre DEF IL!Bool
    <3>5. CASE op.name = "clt"
      <4>1. IL!Less(a.v, b.v) <=> a.v < b.v
        BY <2>4, <3>1
      <4>2. r = IL!Bool(IL!Less(a.v, b.v))
        BY <2>3, <3>5 DEF IL!Bool
      <4> QED BY <3>2, <3>5, <4>1, <4>2, CompareNamesAre DEF IL!Bool
    <3> QED BY <3>3, <3>4, <3>5 DEF Comparing
  <2> QED BY <2>5, <2>6
<1> QED BY <1>1, <1>4, <1>5

\* The null check of a generic: a number with null.
LEMMA NullChecksAreStandard ==
    ASSUME Widths, NEW n \in AllNumbers, NEW op \in IL!BinaryOpcodes, op.name \in Comparing
    PROVE  /\ IL!evalBinOp(IL!BuildBinOp(op), n, IL!Null) = IL!Bool(op.name = "cgt")
           /\ IL!evalBinOp(IL!BuildBinOp(op), IL!Null, n) = IL!Bool(op.name = "clt")
<1>1. IL!isPrimitiveValueKind(n) /\ ~IL!isReferenceShaped(n)
  BY NumberFacts
<1>2. IL!Null.kind = "Null" /\ ~IL!isPrimitiveValueKind(IL!Null)
  BY DEF IL!Null, IL!Val, IL!isPrimitiveValueKind, IL!Ints, IL!Floats
<1>3. IL!BuildBinOp(op).Op = op.name /\ op.name \in {"ceq", "cgt", "clt"}
  BY BinaryComparisonsAre DEF Comparing
<1> QED BY <1>1, <1>2, <1>3 DEF IL!evalBinOp

\* What ir.Build makes of a branch.
LEMMA BranchComparisonsAre ==
    ASSUME NEW op \in IL!BranchOpcodes
    PROVE  LET in == IL!BuildBranch(op)
           IN /\ in.Op = op.name /\ in.Unsigned = op.un /\ op.un \in BOOLEAN
              /\ op.name \in {"bge", "bgt", "ble", "blt", "beq", "bne"}
              /\ op.name = "beq" => ~op.un
              /\ op.name = "bne" => op.un
BY DEF IL!BranchOpcodes, IL!BuildBranch

\* The branches on references.
LEMMA ReferencesBranched ==
    ASSUME Widths, NEW a \in AllReferences, NEW b \in AllReferences, NEW op \in IL!BranchOpcodes,
           NEW r, r = IL!evalCompare(IL!BuildBranch(op), a, b),
           NEW t, t.a = a, t.b = b, t.op = op
    PROVE  IL!CompareStandard(t, r)
<1> DEFINE in == IL!BuildBranch(op)
           eq == IL!SameReference(a, b)
           gt == IL!refGreater(a, b)
           lt == IL!refGreater(b, a)
<1>1. IL!isReferenceShaped(a) /\ IL!isReferenceShaped(b) /\ a.kind \notin IL!Floats
  BY ReferenceFacts
<1>2. in.Op = op.name
  BY BranchComparisonsAre
<1>3. r = IL!Bool(IL!compareReferences(op.name, a, b))
  BY <1>1, <1>2 DEF IL!evalCompare
<1>4. IL!compareReferences(op.name, a, b) <=>
         \/ op.name = "beq" /\ eq
         \/ op.name = "bne" /\ ~eq
         \/ op.name = "bgt" /\ gt
         \/ op.name = "blt" /\ lt
         \/ op.name = "bge" /\ ~lt
         \/ op.name = "ble" /\ ~gt
  BY ReferencesAreEqual DEF IL!compareReferences
<1>5. \A name : IL!Compares(name, op.un, a, b) <=>
         \/ name = "eq" /\ eq
         \/ name = "ne" /\ ~eq
         \/ name = "gt" /\ ~IL!isNullish(a)
         \/ name = "lt" /\ ~IL!isNullish(b)
  BY <1>1 DEF IL!Compares, IL!Unordered
<1>6. (IL!isNullish(b) => (gt <=> ~IL!isNullish(a))) /\ (IL!isNullish(a) => (lt <=> ~IL!isNullish(b)))
  BY DEF IL!refGreater
<1> DEFINE name == IL!CompareName[op.name]
<1>7. SUFFICES ASSUME name \in {"eq", "ne"} \/ (name = "gt" /\ IL!isNullish(b)) \/ (name = "lt" /\ IL!isNullish(a))
               PROVE  IL!compareReferences(op.name, a, b) <=> IL!Compares(name, op.un, a, b)
  BY <1>1, <1>3 DEF IL!CompareStandard, IL!Bool
<1> HIDE DEF eq, gt, lt
<1>8. CASE op.name = "beq"
  BY <1>4, <1>5, <1>8, CompareNamesAre
<1>9. CASE op.name = "bne"
  BY <1>4, <1>5, <1>9, CompareNamesAre
<1>10. CASE op.name = "bgt"
  BY <1>4, <1>5, <1>6, <1>7, <1>10, CompareNamesAre
<1>11. CASE op.name = "blt"
  BY <1>4, <1>5, <1>6, <1>7, <1>11, CompareNamesAre
<1>12. CASE op.name = "bge" \/ op.name = "ble"
  BY <1>7, <1>12, CompareNamesAre
<1> QED BY <1>8, <1>9, <1>10, <1>11, <1>12, BranchComparisonsAre

\* The branches on two numbers of a kind: bne.un also on unordered ones.
LEMMA NumbersBranched ==
    ASSUME Widths, NEW a \in AllNumbers, NEW b \in AllNumbers, a.kind = b.kind,
           NEW op \in IL!BranchOpcodes, NEW r, r = IL!evalCompare(IL!BuildBranch(op), a, b),
           ~(op.un /\ IL!Unordered(a, b)) \/ op.name = "bne"
    PROVE  r = IL!Bool(IL!Compares(IL!CompareName[op.name], op.un, a, b))
<1> DEFINE in == IL!BuildBranch(op)
           x == IF op.un /\ a.kind \in IL!Ints THEN IL!Unsigned(a.v, Bits[a.kind]) ELSE a.v
           y == IF op.un /\ b.kind \in IL!Ints THEN IL!Unsigned(b.v, Bits[b.kind]) ELSE b.v
           name == IL!CompareName[op.name]
<1>1. /\ ~IL!isReferenceShaped(a) /\ ~IL!isReferenceShaped(b) /\ IL!isPrimitiveValueKind(a)
      /\ a.kind \in IL!Ints \/ a.kind \in IL!Floats
      /\ ~(a.kind \in IL!Ints /\ a.kind \in IL!Floats)
  BY NumberFacts
<1>2. /\ in.Op = op.name /\ in.Unsigned = op.un /\ op.un \in BOOLEAN
      /\ op.name \in {"bge", "bgt", "ble", "blt", "beq", "bne"}
      /\ op.name = "beq" => ~op.un
      /\ op.name = "bne" => op.un
  BY BranchComparisonsAre
<1>3. r = IL!Bool(IL!compareOrdered(op.name, x, y))
  BY <1>1, <1>2 DEF IL!evalCompare
<1>4. SUFFICES IL!compareOrdered(op.name, x, y) <=> IL!Compares(name, op.un, a, b)
  BY <1>3 DEF IL!Bool
<1>5. CASE IL!Unordered(a, b)
  <2>1. a.kind \notin IL!Ints /\ b.kind \notin IL!Ints /\ (a.v = NaN \/ b.v = NaN)
    BY <1>1, <1>5 DEF IL!Unordered
  <2>2. x = a.v /\ y = b.v
    BY <2>1
  <2>3. ~IL!Less(x, y) /\ ~IL!Less(y, x) /\ ~IL!Same(x, y)
    BY <2>1, <2>2 DEF IL!Less, IL!Same
  <2>4. IL!compareOrdered(op.name, x, y) <=> op.name = "bne"
    BY <2>3 DEF IL!compareOrdered
  <2>5. IL!Compares(name, op.un, a, b) <=> op.un
    BY <1>2, <1>5 DEF IL!Compares
  <2> QED BY <1>2, <1>5, <2>4, <2>5
<1>6. CASE ~IL!Unordered(a, b)
  <2>1. a.v \in Int /\ b.v \in Int
    BY <1>6, SameKinds, NumberFacts
  <2>2. a.kind \in IL!Ints => Bits[a.kind] \in Nat /\ Bits[a.kind] # 0
    BY DEF Widths, IL!Ints
  <2>3. x \in Int /\ y \in Int
    <3>1. CASE op.un /\ a.kind \in IL!Ints
      <4>1. /\ IL!Unsigned(a.v, Bits[a.kind]) \in 0..(2^Bits[a.kind] - 1)
            /\ IL!Unsigned(b.v, Bits[a.kind]) \in 0..(2^Bits[a.kind] - 1)
        BY <2>1, <2>2, <3>1, UnsignedIs DEF Widths
      <4> QED BY <3>1, <4>1
    <3> QED BY <2>1, <3>1
  <2>4. x # NaN /\ y # NaN
    BY <2>3 DEF Widths
  <2>5. /\ IL!Less(x, y) <=> x < y
        /\ IL!Less(y, x) <=> y < x
        /\ IL!Same(x, y) <=> x = y
    BY <2>4 DEF IL!Less, IL!Same
  <2>6. \A n : IL!Compares(n, op.un, a, b) <=>
           \/ n = "eq" /\ x = y
           \/ n = "ne" /\ x # y
           \/ n = "gt" /\ x > y
           \/ n = "lt" /\ x < y
           \/ n = "ge" /\ x >= y
           \/ n = "le" /\ x <= y
    BY <1>1, <1>6 DEF IL!Compares
  <2>7. IL!compareOrdered(op.name, x, y) <=>
           \/ op.name = "beq" /\ x = y
           \/ op.name = "bne" /\ x # y
           \/ op.name = "bgt" /\ y < x
           \/ op.name = "blt" /\ x < y
           \/ op.name = "bge" /\ (y < x \/ x = y)
           \/ op.name = "ble" /\ (x < y \/ x = y)
    BY <2>5 DEF IL!compareOrdered
  <2> HIDE DEF x, y
  <2>8. (x > y <=> y < x) /\ (x >= y <=> y < x \/ x = y) /\ (x <= y <=> x < y \/ x = y)
    BY <2>3
  <2>9. CASE op.name = "beq"
    BY <2>6, <2>7, <2>9, CompareNamesAre
  <2>10. CASE op.name = "bne"
    BY <2>6, <2>7, <2>10, CompareNamesAre
  <2>11. CASE op.name = "bgt"
    BY <2>6, <2>7, <2>8, <2>11, CompareNamesAre
  <2>12. CASE op.name = "blt"
    BY <2>6, <2>7, <2>12, CompareNamesAre
  <2>13. CASE op.name = "bge"
    BY <2>6, <2>7, <2>8, <2>13, CompareNamesAre
  <2>14. CASE op.name = "ble"
    BY <2>6, <2>7, <2>8, <2>14, CompareNamesAre
  <2> QED BY <1>2, <2>9, <2>10, <2>11, <2>12, <2>13, <2>14
<1> QED BY <1>5, <1>6

\* A conv to a native int leaves a managed pointer alone.
LEMMA ManagedPointersAreKept ==
    ASSUME NEW a, a.kind = "Ref", NEW op \in IL!ConvOpcodes
    PROVE  IL!ConvStandard(op.name, a, IL!evalConv(IL!BuildConv(op), a))
<1>1. a.kind \notin IL!Ints /\ a.kind \notin IL!Floats /\ ~IL!isPrimitiveValueKind(a)
  BY DEF IL!Ints, IL!Floats, IL!isPrimitiveValueKind
<1>2. CASE op.name \in {"r4", "r8", "r"}
  BY <1>1, <1>2 DEF IL!ConvStandard
<1>3. CASE op.name \in {"i", "u", "i4", "u4", "i8", "u8"}
  <2>1. IL!BuildConv(op) \in {"i4", "u4", "i8", "u8"}
    BY <1>3, ConvNamesAre
  <2>2. IL!evalConv(IL!BuildConv(op), a) = a
    BY <2>1 DEF IL!evalConv
  <2> QED BY <1>3, <2>2 DEF IL!ConvStandard
<1>4. CASE op.name \notin {"r4", "r8", "r", "i", "u", "i4", "u4", "i8", "u8"}
  BY <1>4 DEF IL!ConvStandard
<1> QED BY <1>2, <1>3, <1>4

-----------------------------------------------------------------------------
(* Arithmetic: every task.                                                 *)

\* What runs for a task, and for a native of one.
LEMMA RunsAre ==
    ASSUME NEW t
    PROVE  /\ t.of = "binary" => IL!Run(t) = IL!evalBinOp(IL!BuildBinOp(t.op), t.a, t.b)
           /\ t.of = "branch" => IL!Run(t) = IL!evalCompare(IL!BuildBranch(t.op), t.a, t.b)
           /\ t.of = "conv" => IL!Run(t) = IL!evalConv(IL!BuildConv(t.op), t.a)
           /\ t.of = "math" => IL!Run(t) = IL!RunNative(t.op.name, t.a, t.b)
BY DEF IL!Run

LEMMA NativesAre ==
    ASSUME NEW a, NEW b
    PROVE  /\ IL!RunNative("neg", a, b) = IL!evalNeg(a)
           /\ IL!RunNative("not", a, b) = IL!evalNot(a)
           /\ IL!RunNative("sign", a, b) = IL!mathSign(a)
           /\ IL!RunNative("abs", a, b) = IL!mathAbs(a)
           /\ IL!RunNative("floor", a, b) = IL!mathFloor(a)
           /\ IL!RunNative("ceiling", a, b) = IL!mathCeiling(a)
           /\ IL!RunNative("truncate", a, b) = IL!mathTruncate(a)
           /\ IL!RunNative("round", a, b) = IL!mathRound(a)
           /\ IL!RunNative("isNaN", a, b) = IL!doubleIsNaN(a)
           /\ IL!RunNative("min", a, b) = IL!mathMinMax(a, b, FALSE)
           /\ IL!RunNative("max", a, b) = IL!mathMinMax(a, b, TRUE)
           /\ IL!RunNative("compareTo", a, b) = IL!comparableCompareTo(a, b)
           /\ IL!RunNative("decimal", a, b) = IL!decimalFromBits(a.v, b.v, 0, FALSE)
BY DEF IL!RunNative

LEMMA PartsOf ==
    ASSUME NEW of, NEW op, NEW n, NEW a, NEW b
    PROVE  /\ IL!Operation(of, op, a, b).of = of /\ IL!Operation(of, op, a, b).op = op
           /\ IL!Operation(of, op, a, b).a = a /\ IL!Operation(of, op, a, b).b = b
           /\ IL!Native(n).name = n
BY DEF IL!Operation, IL!Native, IL!Opcode

\* The pairs of values an opcode may be given.
AllPairs == {p \in AllNumbers \X AllNumbers : p[1].kind = p[2].kind \/ (p[1].kind = "I8" /\ p[2].kind = "I4")}
            \cup (AllReferences \X AllReferences) \cup ({IL!Null} \X AllNumbers) \cup (AllNumbers \X {IL!Null})

\* The pairs tried are of two numbers, of two references, or of null and a number.
LEMMA PairsAre ==
    ASSUME Widths, NEW p \in AllPairs
    PROVE  \/ p[1] \in AllNumbers /\ p[2] \in AllNumbers
                /\ (p[1].kind = p[2].kind \/ (p[1].kind = "I8" /\ p[2].kind = "I4"))
           \/ p[1] \in AllReferences /\ p[2] \in AllReferences
           \/ p[1] = IL!Null /\ p[2] \in AllNumbers
           \/ p[1] \in AllNumbers /\ p[2] = IL!Null
BY DEF AllPairs

\* Null is a reference.
LEMMA NullIs ==
    /\ IL!Null \in AllReferences
    /\ IL!Null.kind = "Null"
    /\ IL!isReferenceShaped(IL!Null) /\ ~IL!isPrimitiveValueKind(IL!Null)
BY DEF AllReferences, IL!Null, IL!Val, IL!isReferenceShaped, IL!isPrimitiveValueKind, IL!Ints, IL!Floats

\* The binary opcodes, whatever they are given.
LEMMA BinariesAreStandard ==
    ASSUME Widths, NEW p \in AllPairs, NEW op \in IL!BinaryOpcodes
    PROVE  LET t == IL!Operation("binary", op, p[1], p[2])
           IN IL!Standard(t, IL!evalBinOp(IL!BuildBinOp(op), p[1], p[2]))
<1> DEFINE a == p[1]
           b == p[2]
           t == IL!Operation("binary", op, a, b)
           r == IL!evalBinOp(IL!BuildBinOp(op), a, b)
<1>1. t.of = "binary" /\ t.op = op /\ t.a = a /\ t.b = b
  BY DEF IL!Operation
<1>2. \/ a \in AllNumbers /\ b \in AllNumbers /\ (a.kind = b.kind \/ (a.kind = "I8" /\ b.kind = "I4"))
      \/ a \in AllReferences /\ b \in AllReferences
      \/ a = IL!Null /\ b \in AllNumbers
      \/ a \in AllNumbers /\ b = IL!Null
  BY PairsAre
<1>3. ASSUME op.name \in Comparing, IL!HasOrderedForm(t)
      PROVE  IL!CompareStandard(t, r)
  <2>1. CASE a \in AllReferences /\ b \in AllReferences
    <3> HIDE DEF t
    <3> QED BY <1>1, <1>3, <2>1, ReferencesCompared
  <2>2. CASE a \in AllNumbers /\ b \in AllNumbers /\ a.kind = b.kind
    <3>1. r = IL!Bool(IL!Compares(IL!CompareName[op.name], op.un, a, b))
      BY <1>3, <2>2, NumbersCompared
    <3> HIDE DEF t
    <3> QED BY <1>1, <3>1 DEF IL!CompareStandard
  <2>3. CASE a.kind # b.kind /\ ~(IL!isReferenceShaped(a) /\ IL!isReferenceShaped(b))
    <3> HIDE DEF t
    <3> QED BY <1>1, <2>3 DEF IL!CompareStandard
  <2>4. a \in AllNumbers \/ b \in AllNumbers => ~(IL!isReferenceShaped(a) /\ IL!isReferenceShaped(b))
    BY NumberFacts
  <2>5. (a = IL!Null /\ b \in AllNumbers) \/ (a \in AllNumbers /\ b = IL!Null) => a.kind # b.kind
    BY NullIs, NumberFacts DEF IL!Ints, IL!Floats
  <2> HIDE DEF t, a, b, r
  <2> QED BY <1>2, <2>1, <2>2, <2>3, <2>4, <2>5
<1>4. ASSUME op.name \in Comparing
      PROVE  IL!NullCheckStandard(t, r)
  <2>1. ASSUME IL!isPrimitiveValueKind(a), b = IL!Null
        PROVE  r = IL!Bool(op.name = "cgt")
    <3>1. a \in AllNumbers
      BY <1>2, <2>1, NullIs, ReferenceFacts
    <3> QED BY <1>4, <2>1, <3>1, NullChecksAreStandard
  <2>2. ASSUME IL!isPrimitiveValueKind(b), a = IL!Null
        PROVE  r = IL!Bool(op.name = "clt")
    <3>1. b \in AllNumbers
      BY <1>2, <2>2, NullIs, ReferenceFacts
    <3> QED BY <1>4, <2>2, <3>1, NullChecksAreStandard
  <2> HIDE DEF t, r
  <2> QED BY <1>1, <2>1, <2>2 DEF IL!NullCheckStandard
<1>5. ASSUME op.name \notin Comparing, a.kind \in IL!Ints,
             a.kind = b.kind \/ (b.kind = "I4" /\ op.name \in {"shl", "shr"})
      PROVE  IL!IntegerStandard(op, a.kind, a.v, b.v, r)
  <2>1. a \in AllNumbers
    BY <1>2, <1>5, NullIs, ReferenceFacts DEF IL!Ints
  <2>2. b.kind \in IL!Ints
    BY <1>5 DEF IL!Ints
  <2>3. b \in AllNumbers
    BY <1>2, <2>1, <2>2, NullIs, ReferenceFacts DEF IL!Ints
  <2>4. a.v \in Int /\ b.v \in Int /\ a = IL!Val(a.kind, a.v) /\ b = IL!Val(b.kind, b.v)
    BY <1>5, <2>1, <2>2, <2>3, NumberFacts
  <2>5. a.kind = b.kind \/ (a.kind = "I8" /\ b.kind = "I4" /\ op.name \in {"shl", "shr"})
    BY <1>5 DEF IL!Ints
  <2>6. op.name \notin {"ceq", "cgt", "clt"}
    BY <1>5 DEF Comparing
  <2>7. IL!IntegerStandard(op, a.kind, a.v, b.v,
                           IL!evalBinOp(IL!BuildBinOp(op), IL!Val(a.kind, a.v), IL!Val(b.kind, b.v)))
    <3> HIDE DEF a, b
    <3> QED BY <1>5, <2>2, <2>4, <2>5, <2>6, IntegersAreStandard
  <2> QED BY <2>4, <2>7
<1>6. ASSUME op.name \notin Comparing, a.kind \in IL!Floats, a.kind = b.kind
      PROVE  IF op.name \in {"add", "sub", "mul", "div", "rem"}
             THEN r.kind = a.kind /\ IL!FloatStandard(op.name, a.v, b.v, r.v)
             ELSE r = IL!Error
  <2>1. a \in AllNumbers /\ b \in AllNumbers
    BY <1>2, <1>6, NullIs, ReferenceFacts DEF IL!Floats
  <2>2. /\ a.v \in Halved \cup {NaN} /\ b.v \in Halved \cup {NaN} /\ a.kind \notin IL!Ints
        /\ ~IL!isReferenceShaped(a) /\ a.kind # "Null" /\ a.kind # "I8"
    BY <1>6, <2>1, NumberFacts DEF IL!Floats, IL!isReferenceShaped
  <2>3. IL!BuildBinOp(op).Op = op.name /\ op.name \notin {"ceq", "cgt", "clt"}
        /\ op.name \in {"add", "sub", "mul", "div", "rem", "shr", "and", "or", "xor", "shl"}
    BY <1>6, BinaryNamesAre DEF Comparing
  <2> HIDE DEF a, b
  <2>4. r = IL!evalBinOpFloat(op.name, a.v, b.v, a.kind)
    BY <1>6, <2>2, <2>3 DEF IL!evalBinOp
  <2> HIDE DEF r
  <2>5. CASE op.name \in {"add", "sub", "mul", "div", "rem"}
    BY <2>2, <2>4, <2>5, FloatsAreStandard
  <2>6. CASE op.name \notin {"add", "sub", "mul", "div", "rem"}
    BY <2>3, <2>4, <2>6, FloatOpcodes
  <2> QED BY <2>5, <2>6
<1>7. IL!Standard(t, r)
  <2> HIDE DEF t, r, a, b
  <2> QED BY <1>1, <1>3, <1>4, <1>5, <1>6 DEF IL!Standard, Comparing
<1> QED BY <1>7

\* The branches, whatever they are given.
LEMMA BranchesAreStandard ==
    ASSUME Widths, NEW p \in AllPairs, NEW op \in IL!BranchOpcodes
    PROVE  LET t == IL!Operation("branch", op, p[1], p[2])
           IN IL!Standard(t, IL!evalCompare(IL!BuildBranch(op), p[1], p[2]))
<1> DEFINE a == p[1]
           b == p[2]
           t == IL!Operation("branch", op, a, b)
           r == IL!evalCompare(IL!BuildBranch(op), a, b)
<1>1. t.of = "branch" /\ t.op = op /\ t.a = a /\ t.b = b
  BY DEF IL!Operation
<1>2. \/ a \in AllNumbers /\ b \in AllNumbers /\ (a.kind = b.kind \/ (a.kind = "I8" /\ b.kind = "I4"))
      \/ a \in AllReferences /\ b \in AllReferences
      \/ a = IL!Null /\ b \in AllNumbers
      \/ a \in AllNumbers /\ b = IL!Null
  BY PairsAre
<1>3. ASSUME IL!HasOrderedForm(t)
      PROVE  IL!CompareStandard(t, r)
  <2>1. CASE a \in AllReferences /\ b \in AllReferences
    <3> HIDE DEF t
    <3> QED BY <1>1, <2>1, ReferencesBranched
  <2>2. CASE a \in AllNumbers /\ b \in AllNumbers /\ a.kind = b.kind
    <3>1. ~(op.un /\ IL!Unordered(a, b)) \/ op.name = "bne"
      <4> HIDE DEF t
      <4> QED BY <1>1, <1>3 DEF IL!HasOrderedForm
    <3>2. r = IL!Bool(IL!Compares(IL!CompareName[op.name], op.un, a, b))
      BY <2>2, <3>1, NumbersBranched
    <3> HIDE DEF t
    <3> QED BY <1>1, <3>2 DEF IL!CompareStandard
  <2>3. CASE a.kind # b.kind /\ ~(IL!isReferenceShaped(a) /\ IL!isReferenceShaped(b))
    <3> HIDE DEF t
    <3> QED BY <1>1, <2>3 DEF IL!CompareStandard
  <2>4. a \in AllNumbers \/ b \in AllNumbers => ~(IL!isReferenceShaped(a) /\ IL!isReferenceShaped(b))
    BY NumberFacts
  <2>5. (a = IL!Null /\ b \in AllNumbers) \/ (a \in AllNumbers /\ b = IL!Null) => a.kind # b.kind
    BY NullIs, NumberFacts DEF IL!Ints, IL!Floats
  <2> HIDE DEF t, a, b, r
  <2> QED BY <1>2, <2>1, <2>2, <2>3, <2>4, <2>5
<1>4. IL!Standard(t, r)
  <2> HIDE DEF t, r, a, b
  <2> QED BY <1>1, <1>3 DEF IL!Standard
<1> QED BY <1>4

\* Of a native, Standard is MathStandard; of a conversion, ConvStandard.
LEMMA OtherStandards ==
    ASSUME NEW op, NEW a, NEW b, NEW n, NEW r
    PROVE  /\ IL!ConvStandard(op.name, a, r) => IL!Standard(IL!Operation("conv", op, a, b), r)
           /\ IL!MathStandard(n, a, b, r) => IL!Standard(IL!Operation("math", IL!Native(n), a, b), r)
<1> DEFINE t == IL!Operation("conv", op, a, b)
           u == IL!Operation("math", IL!Native(n), a, b)
<1>1. t.of = "conv" /\ t.op = op /\ t.a = a /\ t.b = b
  BY DEF IL!Operation
<1>2. u.of = "math" /\ u.op.name = n /\ u.a = a /\ u.b = b
  BY DEF IL!Operation, IL!Native, IL!Opcode
<1> HIDE DEF t, u
<1>3. IL!ConvStandard(op.name, a, r) => IL!Standard(t, r)
  BY <1>1 DEF IL!Standard
<1>4. IL!MathStandard(n, a, b, r) => IL!Standard(u, r)
  BY <1>2 DEF IL!Standard
<1> QED BY <1>3, <1>4 DEF t, u

\* The natives of two values, whatever they are given.
LEMMA PairNativesAreStandard ==
    ASSUME Widths, NEW p \in AllPairs
    PROVE  /\ IL!MathStandard("min", p[1], p[2], IL!mathMinMax(p[1], p[2], FALSE))
           /\ IL!MathStandard("max", p[1], p[2], IL!mathMinMax(p[1], p[2], TRUE))
           /\ IL!MathStandard("compareTo", p[1], p[2], IL!comparableCompareTo(p[1], p[2]))
<1>1. CASE p[1] \in AllNumbers /\ p[2] \in AllNumbers /\ p[1].kind = p[2].kind
  BY <1>1, OrderIsStandard
<1>2. CASE ~(IL!isPrimitiveValueKind(p[1]) /\ p[1].kind = p[2].kind)
  <2>1. ASSUME NEW n \in {"min", "max", "compareTo"}, NEW r
        PROVE  IL!MathStandard(n, p[1], p[2], r)
    BY <1>2, <2>1 DEF IL!MathStandard
  <2> QED BY <2>1
<1>3. p[1] \in AllReferences => ~IL!isPrimitiveValueKind(p[1])
  BY ReferenceFacts
<1>4. p[1] \in AllNumbers /\ p[2] = IL!Null => p[1].kind # p[2].kind
  BY NullIs, NumberFacts DEF IL!Ints, IL!Floats
<1> QED BY <1>1, <1>2, <1>3, <1>4, PairsAre, NullIs

\* The tasks, taken apart.
LEMMA TasksAre ==
    ASSUME NEW t, IL!IsTaskOn(AllNumbers, AllReferences, t)
    PROVE  \/ \E p \in AllPairs :
                \/ \E op \in IL!BinaryOpcodes : t = IL!Operation("binary", op, p[1], p[2])
                \/ \E op \in IL!BranchOpcodes : t = IL!Operation("branch", op, p[1], p[2])
                \/ \E n \in {"min", "max", "compareTo"} : t = IL!Operation("math", IL!Native(n), p[1], p[2])
           \/ \E a \in AllNumbers :
                \/ \E op \in IL!ConvOpcodes : t = IL!Operation("conv", op, a, IL!Null)
                \/ \E n \in {"neg", "not", "sign", "abs", "floor", "ceiling", "truncate", "round", "isNaN"} :
                       t = IL!Operation("math", IL!Native(n), a, IL!Null)
                \/ a.kind = "I4" /\ \E b \in AllNumbers : b.kind = "I4" /\ t = IL!Operation("math", IL!Native("decimal"), a, b)
           \/ \E op \in IL!ConvOpcodes, a \in AllReferences : a.kind = "Ref" /\ t = IL!Operation("conv", op, a, IL!Null)
BY Zenon DEF IL!IsTaskOn, AllPairs

\* Every arithmetic, bitwise, shift, comparison, branch and conversion opcode,
\* and every number native, does on every value what the instruction set
\* promises, for integers of every width and floats of any range: their sums,
\* products, quotients and rests are those of IEEE 754 (evalBinOp, evalCompare,
\* evalConv, evalNeg, evalNot, the natives of Math and of the number types).
\* Standard names what the code does otherwise: unordered comparisons of NaN, the
\* least integer by -1, conv.r.un of negatives.
THEOREM ArithmeticIsStandard ==
    Widths => \A t : IL!IsTaskOn(AllNumbers, AllReferences, t) => IL!Standard(t, IL!Run(t))
<1> SUFFICES ASSUME Widths, NEW t, IL!IsTaskOn(AllNumbers, AllReferences, t)
             PROVE  IL!Standard(t, IL!Run(t))
  OBVIOUS
<1>1. ASSUME NEW p \in AllPairs, NEW op \in IL!BinaryOpcodes, t = IL!Operation("binary", op, p[1], p[2])
      PROVE  IL!Standard(t, IL!Run(t))
  <2>1. t.of = "binary" /\ t.op = op /\ t.a = p[1] /\ t.b = p[2]
    BY <1>1, PartsOf
  <2>2. IL!Run(t) = IL!evalBinOp(IL!BuildBinOp(op), p[1], p[2])
    BY <2>1, RunsAre
  <2> QED BY <1>1, <2>2, BinariesAreStandard
<1>2. ASSUME NEW p \in AllPairs, NEW op \in IL!BranchOpcodes, t = IL!Operation("branch", op, p[1], p[2])
      PROVE  IL!Standard(t, IL!Run(t))
  <2>1. t.of = "branch" /\ t.op = op /\ t.a = p[1] /\ t.b = p[2]
    BY <1>2, PartsOf
  <2>2. IL!Run(t) = IL!evalCompare(IL!BuildBranch(op), p[1], p[2])
    BY <2>1, RunsAre
  <2> QED BY <1>2, <2>2, BranchesAreStandard
<1>3. ASSUME NEW p \in AllPairs, NEW n \in {"min", "max", "compareTo"},
             t = IL!Operation("math", IL!Native(n), p[1], p[2])
      PROVE  IL!Standard(t, IL!Run(t))
  <2>1. t.of = "math" /\ t.op.name = n /\ t.a = p[1] /\ t.b = p[2]
    BY <1>3, PartsOf
  <2>2. IL!Run(t) = IL!RunNative(n, p[1], p[2])
    BY <2>1, RunsAre
  <2>3. IL!MathStandard(n, p[1], p[2], IL!RunNative(n, p[1], p[2]))
    <3>1. CASE n = "min"
      BY <3>1, NativesAre, PairNativesAreStandard
    <3>2. CASE n = "max"
      BY <3>2, NativesAre, PairNativesAreStandard
    <3>3. CASE n = "compareTo"
      BY <3>3, NativesAre, PairNativesAreStandard
    <3> QED BY <3>1, <3>2, <3>3
  <2> QED BY <1>3, <2>2, <2>3, OtherStandards
<1>4. ASSUME NEW a, NEW op \in IL!ConvOpcodes, t = IL!Operation("conv", op, a, IL!Null),
             a \in AllNumbers \/ a.kind = "Ref"
      PROVE  IL!Standard(t, IL!Run(t))
  <2>1. t.of = "conv" /\ t.op = op /\ t.a = a
    BY <1>4, PartsOf
  <2>2. IL!Run(t) = IL!evalConv(IL!BuildConv(op), a)
    BY <2>1, RunsAre
  <2>3. IL!ConvStandard(op.name, a, IL!Run(t))
    BY <1>4, <2>2, ConversionsAreStandard, ManagedPointersAreKept
  <2> QED BY <1>4, <2>3, OtherStandards
<1>5. ASSUME NEW a \in AllNumbers,
             NEW n \in {"neg", "not", "sign", "abs", "floor", "ceiling", "truncate", "round", "isNaN"},
             t = IL!Operation("math", IL!Native(n), a, IL!Null)
      PROVE  IL!Standard(t, IL!Run(t))
  <2>1. t.of = "math" /\ t.op.name = n /\ t.a = a
    BY <1>5, PartsOf
  <2>2. IL!Run(t) = IL!RunNative(n, a, IL!Null)
    BY <1>5, PartsOf, RunsAre
  <2>3. IL!MathStandard(n, a, IL!Null, IL!RunNative(n, a, IL!Null))
    <3>1. CASE n = "neg"
      BY <3>1, NativesAre, NegationIsStandard
    <3>2. CASE n = "not"
      BY <3>2, NativesAre, NegationIsStandard
    <3>3. CASE n = "sign"
      BY <3>3, NativesAre, SignsAreStandard
    <3>4. CASE n = "abs"
      BY <3>4, NativesAre, SignsAreStandard
    <3>5. CASE n = "floor"
      BY <3>5, NativesAre, RoundingIsStandard
    <3>6. CASE n = "ceiling"
      BY <3>6, NativesAre, RoundingIsStandard
    <3>7. CASE n = "truncate"
      BY <3>7, NativesAre, RoundingIsStandard
    <3>8. CASE n = "round"
      BY <3>8, NativesAre, RoundingIsStandard
    <3>9. CASE n = "isNaN"
      BY <3>9, NativesAre, SignsAreStandard
    <3> QED BY <3>1, <3>2, <3>3, <3>4, <3>5, <3>6, <3>7, <3>8, <3>9
  <2> QED BY <1>5, <2>2, <2>3, OtherStandards
<1>6. ASSUME NEW a \in AllNumbers, NEW b \in AllNumbers, a.kind = "I4", b.kind = "I4",
             t = IL!Operation("math", IL!Native("decimal"), a, b)
      PROVE  IL!Standard(t, IL!Run(t))
  <2>1. t.of = "math" /\ t.op.name = "decimal" /\ t.a = a /\ t.b = b
    BY <1>6, PartsOf
  <2>2. IL!Run(t) = IL!decimalFromBits(a.v, b.v, 0, FALSE)
    <3>1. IL!Run(t) = IL!RunNative("decimal", a, b)
      BY <2>1, RunsAre
    <3> QED BY <3>1, NativesAre
  <2> QED BY <1>6, <2>2, DecimalsAreStandard, OtherStandards
<1>7. CASE \E p \in AllPairs :
              \/ \E op \in IL!BinaryOpcodes : t = IL!Operation("binary", op, p[1], p[2])
              \/ \E op \in IL!BranchOpcodes : t = IL!Operation("branch", op, p[1], p[2])
              \/ \E n \in {"min", "max", "compareTo"} : t = IL!Operation("math", IL!Native(n), p[1], p[2])
  BY <1>1, <1>2, <1>3, <1>7
<1>8. CASE \E a \in AllNumbers :
              \/ \E op \in IL!ConvOpcodes : t = IL!Operation("conv", op, a, IL!Null)
              \/ \E n \in {"neg", "not", "sign", "abs", "floor", "ceiling", "truncate", "round", "isNaN"} :
                     t = IL!Operation("math", IL!Native(n), a, IL!Null)
              \/ a.kind = "I4" /\ \E b \in AllNumbers : b.kind = "I4" /\ t = IL!Operation("math", IL!Native("decimal"), a, b)
  BY <1>4, <1>5, <1>6, <1>8
<1>9. CASE \E op \in IL!ConvOpcodes, a \in AllReferences : a.kind = "Ref" /\ t = IL!Operation("conv", op, a, IL!Null)
  BY <1>4, <1>9
<1> QED BY <1>7, <1>8, <1>9, TasksAre
=============================================================================
