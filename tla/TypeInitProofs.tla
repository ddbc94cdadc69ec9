--------------------------- MODULE TypeInitProofs ---------------------------
(***************************************************************************)
(* Safety of lazy type initialisation for every number of goroutines and   *)
(* types and every set of initialiser bodies.                              *)
(***************************************************************************)
EXTENDS TypeInit, SequenceTheorems, WellFoundedInduction, TLAPS

(* Two facts about the stack of nested initialisers.                        *)

\* Entering an initialiser puts it behind the ones already running.
LEMMA PushFacts ==
    ASSUME NEW T, NEW s \in Seq(T), NEW t \in T
    PROVE  /\ Append(s, t) \in Seq(T)
           /\ Append(s, t) # <<>>
           /\ Len(Append(s, t)) = Len(s) + 1
           /\ \A i \in 1..Len(s) : Append(s, t)[i] = s[i]
           /\ Append(s, t)[Len(s) + 1] = t
BY AppendProperties

\* Leaving one removes the innermost and keeps the others.
LEMMA PopFacts ==
    ASSUME NEW T, NEW s \in Seq(T), s # <<>>
    PROVE  /\ Len(s) \in Nat \ {0}
           /\ s[Len(s)] \in T
           /\ SubSeq(s, 1, Len(s) - 1) \in Seq(T)
           /\ Len(SubSeq(s, 1, Len(s) - 1)) = Len(s) - 1
           /\ \A i \in 1..(Len(s) - 1) : SubSeq(s, 1, Len(s) - 1)[i] = s[i]
<1>1. Len(s) \in Nat \ {0}
  BY EmptySeq, LenProperties
<1>2. s[Len(s)] \in T
  BY <1>1, ElementOfSeq
<1> DEFINE n == Len(s) - 1
<1>3. n \in Nat /\ \A i \in 1..n : s[i] \in T
  BY <1>1, ElementOfSeq
<1>4. HIDE DEF n
<1>5. /\ SubSeq(s, 1, n) \in Seq(T)
      /\ Len(SubSeq(s, 1, n)) = IF 1 <= n THEN n - 1 + 1 ELSE 0
      /\ \A i \in 1..(n - 1 + 1) : SubSeq(s, 1, n)[i] = s[1 + i - 1]
  BY <1>3, SubSeqProperties
<1>6. Len(SubSeq(s, 1, n)) = n /\ \A i \in 1..n : SubSeq(s, 1, n)[i] = s[i]
  BY <1>3, <1>5
<1>7. QED
  BY <1>1, <1>2, <1>5, <1>6 DEF n

\* The invariant holds before any call is made.
LEMMA InitIInv == Init => IInv
<1> SUFFICES ASSUME Init PROVE IInv
  OBVIOUS
<1> USE TypeInitAssumption DEF Init, Failures
<1>1. \A t \in Types : Len(Body[t]) \in Nat
  BY LenProperties
<1>2. TypeOK
  BY <1>1 DEF TypeOK
<1>3. RunningIsOwned /\ CallChains /\ Settled
  BY <1>1 DEF RunningIsOwned, CallChains, Mirrors, Linked, Anchored, Settled
<1>4. QED
  BY <1>2, <1>3 DEF IInv

(* What the invariant says of the innermost initialiser.                    *)

\* The innermost initialiser of p is running, owned by p and by nobody else.
LEMMA TopFacts ==
    ASSUME IInv, NEW p \in Procs, stack[p] # <<>>
    PROVE  /\ stack[p] \in Seq(Types)
           /\ Len(stack[p]) \in Nat \ {0}
           /\ Top(p) \in Types
           /\ Top(p) \in cctorsRunning[p]
           /\ once[Top(p)] = "running"
<1> USE DEF IInv
<1>1. stack[p] \in Seq(Types)
  BY DEF TypeOK
<1>2. Len(stack[p]) \in Nat \ {0} /\ stack[p][Len(stack[p])] \in Types
  BY <1>1, PopFacts
<1>3. Top(p) \in cctorsRunning[p]
  BY <1>2 DEF CallChains, Mirrors, Top
<1>4. QED
  BY <1>1, <1>2, <1>3 DEF Top, RunningIsOwned

\* Every initialiser is a finite sequence of accesses.
LEMMA BodyLen == \A t \in Types : Body[t] \in Seq(Types) /\ Len(Body[t]) \in Nat
BY TypeInitAssumption, LenProperties

-----------------------------------------------------------------------------
(* Leaving an initialiser, for whatever reason.                             *)

\* Ending the innermost initialiser, whatever its outcome, keeps the invariant
\* as long as the recorded outcome and the answer are the right ones.
LEMMA FinishStep ==
    ASSUME IInv, NEW p \in Procs, stack[p] # <<>>,
           NEW err \in Failures \cup {"nil"},
           Finish(p, err), written' = written,
           err = "nil" => Top(p) \in Panics \/ written[Top(p)] = Len(Body[Top(p)]),
           \/ Return(p, Top(p), IF err = "nil" THEN "ok" ELSE err)
           \/ pc[p] = "panic" /\ UNCHANGED <<pc, arg, res>>
    PROVE  IInv'
<1> DEFINE t == Top(p)
           n == Len(stack[p])
<1>t. /\ stack[p] \in Seq(Types)
      /\ n \in Nat \ {0}
      /\ t \in Types
      /\ t \in cctorsRunning[p]
      /\ once[t] = "running"
  BY TopFacts
<1>n. t = stack[p][n]
  BY DEF Top
<1>s. /\ stack'[p] \in Seq(Types)
      /\ Len(stack'[p]) = n - 1
      /\ \A i \in 1..(n - 1) : stack'[p][i] = stack[p][i]
  BY PopFacts, <1>t DEF Finish, IInv, TypeOK
<1>q. \A q \in Procs : q # p =>
         /\ stack'[q] = stack[q] /\ cctorsRunning'[q] = cctorsRunning[q]
         /\ pc'[q] = pc[q] /\ arg'[q] = arg[q] /\ res'[q] = res[q]
         /\ t \notin cctorsRunning[q]
  BY <1>t DEF Finish, Return, IInv, TypeOK, RunningIsOwned
<1>o. \A u \in Types :
         /\ once'[u] = IF u = t THEN "done" ELSE once[u]
         /\ cctorErr'[u] = IF u = t THEN err ELSE cctorErr[u]
  BY DEF Finish, IInv, TypeOK
<1>p. /\ cctorsRunning'[p] = cctorsRunning[p] \ {t}
      /\ \/ pc'[p] = "ret" /\ arg'[p] = t /\ res'[p] = IF err = "nil" THEN "ok" ELSE err
         \/ pc'[p] = "panic" /\ pc[p] = "panic"
  BY DEF Finish, Return, IInv, TypeOK
<1>1. TypeOK'
  <2>1. stack' \in [Procs -> Seq(Types)]
    BY <1>s DEF Finish, IInv, TypeOK
  <2>2. /\ once' \in [Types -> {"fresh", "running", "done"}]
        /\ cctorErr' \in [Types -> Failures \cup {"nil"}]
        /\ cctorsRunning' \in [Procs -> SUBSET Types]
    BY DEF Finish, IInv, TypeOK
  <2>3. /\ pc' \in [Procs -> {"idle", "code", "wait", "ret", "panic"}]
        /\ arg' \in [Procs -> Types \cup {None}]
        /\ \A q \in Procs : pc'[q] \in {"wait", "ret"} => arg'[q] \in Types
        /\ res' \in [Procs -> Failures \cup {"ok"}]
    <3>1. CASE Return(p, Top(p), IF err = "nil" THEN "ok" ELSE err)
      <4>1. (IF err = "nil" THEN "ok" ELSE err) \in Failures \cup {"ok"}
        OBVIOUS
      <4>2. QED
        BY <1>t, <3>1, <4>1 DEF Return, IInv, TypeOK
    <3>2. CASE pc[p] = "panic" /\ UNCHANGED <<pc, arg, res>>
      BY <3>2 DEF IInv, TypeOK
    <3>3. QED
      BY <3>1, <3>2
  <2>4. QED
    BY <2>1, <2>2, <2>3 DEF IInv, TypeOK
<1> HIDE DEF t, n
<1>2. RunningIsOwned'
  <2>1. \A u \in Types : once[u] = "running" <=> \E q \in Procs : u \in cctorsRunning[q]
    BY DEF IInv, RunningIsOwned
  <2>2. \A u \in Types, q \in Procs : u \in cctorsRunning'[q] <=> u \in cctorsRunning[q] /\ u # t
    BY <1>q, <1>p
  <2>3. \A u \in Types : once'[u] = "running" <=> \E q \in Procs : u \in cctorsRunning'[q]
    BY <2>1, <2>2, <1>o
  <2>4. \A q, r \in Procs : q # r => cctorsRunning'[q] \cap cctorsRunning'[r] = {}
    BY <1>1, <2>2 DEF IInv, RunningIsOwned, TypeOK
  <2>5. QED
    BY <2>3, <2>4 DEF RunningIsOwned
<1>3. CallChains'
  <2>1. ASSUME NEW q \in Procs, q # p
        PROVE  Mirrors(q)' /\ Linked(q)' /\ Anchored(q)'
    <3> /\ stack'[q] = stack[q] /\ cctorsRunning'[q] = cctorsRunning[q]
        /\ pc'[q] = pc[q] /\ arg'[q] = arg[q]
      BY <1>q, <2>1
    <3>1. Mirrors(q)'
      BY DEF IInv, CallChains, Mirrors
    <3>2. Linked(q)'
      BY DEF IInv, CallChains, Linked
    <3>3. Anchored(q)'
      BY DEF IInv, CallChains, Anchored, At, Top
    <3>4. QED
      BY <3>1, <3>2, <3>3
  <2>2. Mirrors(p)'
    <3>1. /\ \A u \in Types : u \in cctorsRunning[p] <=> \E i \in 1..n : stack[p][i] = u
          /\ \A i, j \in 1..n : stack[p][i] = stack[p][j] => i = j
      BY DEF IInv, CallChains, Mirrors, n
    <3>i. 1..(n - 1) \subseteq 1..n
      BY <1>t
    <3>2. ASSUME NEW u \in Types
          PROVE  u \in cctorsRunning'[p] <=> \E i \in 1..(n - 1) : stack'[p][i] = u
      <4>1. u \in cctorsRunning'[p] <=> \E i \in 1..n : stack[p][i] = u /\ u # t
        BY <3>1, <1>p
      <4>2. \A i \in 1..n : stack[p][i] # t <=> i \in 1..(n - 1)
        BY <3>1, <1>n, <1>t
      <4>3. QED
        BY <4>1, <4>2, <3>i, <1>s
    <3>3. \A i, j \in 1..(n - 1) : stack'[p][i] = stack'[p][j] => i = j
      BY <3>1, <3>i, <1>s
    <3>4. QED
      BY <3>2, <3>3, <1>s DEF Mirrors
  <2>3. Linked(p)'
    <3>1. \A i \in 1..(n - 1) :
             /\ written[stack[p][i]] < Len(Body[stack[p][i]])
             /\ Body[stack[p][i]][written[stack[p][i]] + 1] = stack[p][i + 1]
      BY DEF IInv, CallChains, Linked, n
    <3>2. ASSUME NEW i \in 1..(n - 2)
          PROVE  /\ written[stack'[p][i]] < Len(Body[stack'[p][i]])
                 /\ Body[stack'[p][i]][written[stack'[p][i]] + 1] = stack'[p][i + 1]
      <4>1. /\ i \in 1..(n - 1) /\ i + 1 \in 1..(n - 1)
            /\ stack'[p][i] = stack[p][i] /\ stack'[p][i + 1] = stack[p][i + 1]
        BY <1>t, <1>s
      <4>2. QED
        BY <3>1, <4>1
    <3>3. Len(stack'[p]) - 1 = n - 2
      BY <1>s, <1>t
    <3>4. QED
      BY <3>2, <3>3 DEF Linked
  <2>4. Anchored(p)'
    <3>1. ASSUME pc'[p] \in {"wait", "ret"}, stack'[p] # <<>>
          PROVE  At(p, arg[p])'
      <4>1. arg'[p] = t
        BY <3>1, <1>p
      <4>2. n - 1 \in 1..(n - 1) /\ Top(p)' = stack[p][n - 1]
        BY <3>1, <1>s, <1>t, PopFacts DEF Top
      <4>3. /\ written[stack[p][n - 1]] < Len(Body[stack[p][n - 1]])
            /\ Body[stack[p][n - 1]][written[stack[p][n - 1]] + 1] = stack[p][n]
        <5>1. (n - 1) + 1 = n
          BY <1>t
        <5>2. Linked(p)
          BY DEF IInv, CallChains
        <5>3. QED
          BY <4>2, <5>1, <5>2 DEF Linked, n
      <4>4. QED
        BY <4>1, <4>2, <4>3, <1>n DEF At
    <3>2. pc'[p] # "idle"
      BY <1>p
    <3>3. QED
      BY <3>1, <3>2 DEF Anchored
  <2>5. QED
    BY <2>1, <2>2, <2>3, <2>4 DEF CallChains
<1>4. Settled'
  <2>1. \A u \in Types :
           /\ once'[u] # "done" => cctorErr'[u] = "nil"
           /\ once'[u] = "done" /\ cctorErr'[u] = "nil" /\ u \notin Panics
                 => written'[u] = Len(Body[u])
    BY <1>o, <1>t DEF IInv, Settled, t
  <2>2. ASSUME NEW q \in Procs
        PROVE  /\ pc'[q] = "ret" /\ arg'[q] \notin cctorsRunning'[q]
                     => once'[arg'[q]] = "done" /\ res'[q] = Outcome(arg[q])'
               /\ pc'[q] = "wait" => arg'[q] \notin cctorsRunning'[q]
               /\ pc'[q] = "wait" => once'[arg'[q]] # "fresh"
               /\ pc'[q] = "panic" => cctorsRunning'[q] \subseteq Panics
    <3>0. pc'[q] = "panic" => cctorsRunning'[q] \subseteq Panics
      <4>1. pc'[q] = "panic" => pc[q] = "panic"
        BY <1>p, <1>q
      <4>2. cctorsRunning'[q] = cctorsRunning[q] \/ cctorsRunning'[q] = cctorsRunning[q] \ {t}
        BY <1>p, <1>q
      <4>3. cctorsRunning'[q] \subseteq cctorsRunning[q]
        BY <4>2
      <4>4. pc[q] = "panic" => cctorsRunning[q] \subseteq Panics
        BY DEF IInv, Settled
      <4>5. QED
        BY <4>1, <4>3, <4>4
    <3>1. CASE q = p
      BY <3>0, <3>1, <1>o, <1>p, <1>t DEF IInv, Settled, Outcome, Failures
    <3>2. CASE q # p
      BY <3>0, <3>2, <1>o, <1>q, <1>t DEF IInv, Settled, Outcome, TypeOK
    <3>3. QED
      BY <3>1, <3>2
  <2>3. QED
    BY <2>1, <2>2 DEF Settled
<1>5. QED
  BY <1>1, <1>2, <1>3, <1>4 DEF IInv

-----------------------------------------------------------------------------
(* Steps that move one goroutine and touch neither types nor stacks.        *)

\* A step that only moves one goroutine keeps the invariant when the new
\* place of the goroutine agrees with its call chain.
LEMMA QuietStep ==
    ASSUME IInv, NEW p \in Procs,
           UNCHANGED <<once, cctorErr, written, cctorsRunning, stack>>,
           NEW c \in {"idle", "code", "wait", "ret", "panic"},
           NEW a \in Types \cup {None}, NEW r \in Failures \cup {"ok"},
           pc' = [pc EXCEPT ![p] = c],
           arg' = [arg EXCEPT ![p] = a],
           res' = [res EXCEPT ![p] = r],
           c = "idle" => stack[p] = <<>>,
           c \in {"wait", "ret"} => a \in Types /\ (stack[p] # <<>> => At(p, a)),
           c = "ret" /\ a \notin cctorsRunning[p] => once[a] = "done" /\ r = Outcome(a),
           c = "wait" => a \notin cctorsRunning[p] /\ once[a] # "fresh",
           c = "panic" => cctorsRunning[p] \subseteq Panics
    PROVE  IInv'
<1>0. /\ pc'[p] = c /\ arg'[p] = a /\ res'[p] = r
      /\ \A q \in Procs \ {p} : pc'[q] = pc[q] /\ arg'[q] = arg[q] /\ res'[q] = res[q]
  BY DEF IInv, TypeOK
<1>1. TypeOK'
  BY <1>0 DEF IInv, TypeOK
<1>2. RunningIsOwned'
  BY DEF IInv, RunningIsOwned
<1>3. CallChains'
  <2> SUFFICES ASSUME NEW q \in Procs
               PROVE  Mirrors(q)' /\ Linked(q)' /\ Anchored(q)'
    BY DEF CallChains
  <2>1. Mirrors(q) /\ Linked(q) /\ Anchored(q)
    BY DEF IInv, CallChains
  <2>2. Mirrors(q)' /\ Linked(q)'
    BY <2>1 DEF Mirrors, Linked
  <2>3. Anchored(q)'
    BY <2>1, <1>0 DEF Anchored, At, Top
  <2>4. QED
    BY <2>2, <2>3
<1>4. Settled'
  <2>1. \A u \in Types : Outcome(u)' = Outcome(u)
    BY DEF Outcome
  <2>2. \A q \in Procs :
           /\ pc'[q] = "ret" /\ arg'[q] \notin cctorsRunning'[q]
                 => once'[arg'[q]] = "done" /\ res'[q] = Outcome(arg[q])'
           /\ pc'[q] = "wait" => arg'[q] \notin cctorsRunning'[q]
           /\ pc'[q] = "wait" => once'[arg'[q]] # "fresh"
           /\ pc'[q] = "panic" => cctorsRunning'[q] \subseteq Panics
    BY <1>0 DEF IInv, Settled, Outcome
  <2>3. QED
    BY <2>2 DEF IInv, Settled
<1>5. QED
  BY <1>1, <1>2, <1>3, <1>4 DEF IInv

\* What the code of p touches next is a type, and its access.
LEMMA NextAccessFacts ==
    ASSUME NEW p \in Procs, NEW t \in NextAccess(p)
    PROVE  t \in Types /\ (stack[p] # <<>> => At(p, t))
BY DEF NextAccess, At

\* Beginning and ending a call keeps the invariant.
LEMMA CallSteps ==
    ASSUME IInv, NEW p \in Procs, BeginCall(p) \/ EndCall(p)
    PROVE  IInv'
<1>1. CASE BeginCall(p)
  <2>1. stack[p] = <<>>
    BY <1>1 DEF BeginCall, IInv, CallChains, Anchored
  <2>2. cctorsRunning[p] = {}
    <3>1. Len(stack[p]) = 0
      BY <2>1
    <3>2. \A t \in Types : t \notin cctorsRunning[p]
      BY <3>1 DEF IInv, CallChains, Mirrors
    <3>3. QED
      BY <3>2 DEF IInv, TypeOK
  <2>3. cctorsRunning' = cctorsRunning
    BY <1>1, <2>2 DEF BeginCall, IInv, TypeOK
  <2>4. arg[p] \in Types \cup {None} /\ res[p] \in Failures \cup {"ok"}
    BY DEF IInv, TypeOK
  <2>5. arg' = [arg EXCEPT ![p] = arg[p]] /\ res' = [res EXCEPT ![p] = res[p]]
    BY <1>1 DEF BeginCall, IInv, TypeOK
  <2>6. pc' = [pc EXCEPT ![p] = "code"] /\ UNCHANGED <<once, cctorErr, written, stack>>
    BY <1>1 DEF BeginCall, shared
  <2>7. QED
    BY <2>3, <2>4, <2>5, <2>6, QuietStep
<1>2. CASE EndCall(p)
  <2>1. arg[p] \in Types \cup {None} /\ res[p] \in Failures \cup {"ok"}
    BY DEF IInv, TypeOK
  <2>2. arg' = [arg EXCEPT ![p] = arg[p]] /\ res' = [res EXCEPT ![p] = res[p]]
    BY <1>2 DEF EndCall, IInv, TypeOK
  <2>3. /\ pc' = [pc EXCEPT ![p] = "idle"] /\ stack[p] = <<>>
        /\ UNCHANGED <<once, cctorErr, written, cctorsRunning, stack>>
    BY <1>2 DEF EndCall, shared
  <2>4. QED
    BY <2>1, <2>2, <2>3, QuietStep
<1>3. QED
  BY <1>1, <1>2

\* An access that finds the Once done, running, or its own, keeps the invariant.
LEMMA QuietAccessSteps ==
    ASSUME IInv, NEW p \in Procs, NEW t \in Types,
           AccessReentrant(p, t) \/ AccessDone(p, t) \/ AccessBlocks(p, t)
    PROVE  IInv'
<1>0. t \in NextAccess(p) /\ res[p] \in Failures \cup {"ok"}
  BY DEF AccessReentrant, AccessDone, AccessBlocks, IInv, TypeOK
<1>1. CASE AccessReentrant(p, t)
  <2>1. /\ t \in cctorsRunning[p] /\ Return(p, t, "ok")
        /\ UNCHANGED <<once, cctorErr, written, cctorsRunning, stack>>
    BY <1>1 DEF AccessReentrant, shared
  <2>2. QED
    BY <1>0, <2>1, NextAccessFacts, QuietStep DEF Return
<1>2. CASE AccessDone(p, t)
  <2>1. /\ once[t] = "done" /\ Return(p, t, Outcome(t))
        /\ UNCHANGED <<once, cctorErr, written, cctorsRunning, stack>>
    BY <1>2 DEF AccessDone, shared
  <2>2. Outcome(t) \in Failures \cup {"ok"}
    BY DEF IInv, TypeOK, Outcome
  <2>3. QED
    BY <1>0, <2>1, <2>2, NextAccessFacts, QuietStep DEF Return
<1>3. CASE AccessBlocks(p, t)
  <2>1. res' = [res EXCEPT ![p] = res[p]]
    BY <1>3 DEF AccessBlocks, IInv, TypeOK
  <2>2. /\ once[t] = "running" /\ t \notin cctorsRunning[p]
        /\ pc' = [pc EXCEPT ![p] = "wait"] /\ arg' = [arg EXCEPT ![p] = t]
        /\ UNCHANGED <<once, cctorErr, written, cctorsRunning, stack>>
    BY <1>3 DEF AccessBlocks, shared
  <2>3. QED
    BY <1>0, <2>1, <2>2, NextAccessFacts, QuietStep
<1>4. QED
  BY <1>1, <1>2, <1>3

\* Waking up, failing a call, panicking and recovering keep the invariant.
LEMMA OtherQuietSteps ==
    ASSUME IInv, NEW p \in Procs,
           Wake(p) \/ ReturnErrInCall(p) \/ Panic(p) \/ PanicRecovered(p)
    PROVE  IInv'
<1>0. /\ arg[p] \in Types \cup {None} /\ res[p] \in Failures \cup {"ok"}
      /\ arg = [arg EXCEPT ![p] = arg[p]] /\ res = [res EXCEPT ![p] = res[p]]
  BY DEF IInv, TypeOK
<1>1. CASE Wake(p)
  <2>1. /\ pc[p] = "wait" /\ once[arg[p]] = "done" /\ Return(p, arg[p], Outcome(arg[p]))
        /\ UNCHANGED <<once, cctorErr, written, cctorsRunning, stack>>
    BY <1>1 DEF Wake, shared
  <2>2. arg[p] \in Types /\ (stack[p] # <<>> => At(p, arg[p]))
    BY <2>1 DEF IInv, TypeOK, CallChains, Anchored
  <2>3. Outcome(arg[p]) \in Failures \cup {"ok"}
    BY <2>2 DEF IInv, TypeOK, Outcome
  <2>4. QED
    BY <2>1, <2>2, <2>3, QuietStep DEF Return
<1>2. CASE ReturnErrInCall(p)
  <2>1. /\ stack[p] = <<>> /\ pc' = [pc EXCEPT ![p] = "idle"]
        /\ arg' = [arg EXCEPT ![p] = None] /\ res' = res
        /\ UNCHANGED <<once, cctorErr, written, cctorsRunning, stack>>
    BY <1>2 DEF ReturnErrInCall, shared
  <2>2. QED
    BY <1>0, <2>1, QuietStep
<1>3. CASE Panic(p)
  <2>1. /\ cctorsRunning[p] \subseteq Panics /\ pc' = [pc EXCEPT ![p] = "panic"] /\ arg' = arg /\ res' = res
        /\ UNCHANGED <<once, cctorErr, written, cctorsRunning, stack>>
    BY <1>3 DEF Panic, shared
  <2>2. QED
    BY <1>0, <2>1, QuietStep
<1>4. CASE PanicRecovered(p)
  <2>1. /\ stack[p] = <<>> /\ pc' = [pc EXCEPT ![p] = "idle"] /\ arg' = arg /\ res' = res
        /\ UNCHANGED <<once, cctorErr, written, cctorsRunning, stack>>
    BY <1>4 DEF PanicRecovered, shared
  <2>2. QED
    BY <1>0, <2>1, QuietStep
<1>5. QED
  BY <1>1, <1>2, <1>3, <1>4

-----------------------------------------------------------------------------
(* Entering an initialiser.                                                 *)

\* Starting an initialiser keeps the invariant: the type was in nobody's
\* cctorsRunning, so ownership stays exclusive.
LEMMA AccessFirstStep ==
    ASSUME IInv, NEW p \in Procs, NEW t \in Types, AccessFirst(p, t)
    PROVE  IInv'
<1> DEFINE n == Len(stack[p])
<1>f. /\ pc[p] = "code" /\ t \in NextAccess(p) /\ t \notin cctorsRunning[p]
      /\ once[t] = "fresh"
      /\ UNCHANGED <<cctorErr, written, pc, arg, res>>
  BY DEF AccessFirst
<1>s. /\ stack[p] \in Seq(Types) /\ n \in Nat
      /\ stack'[p] \in Seq(Types) /\ stack'[p] # <<>> /\ Len(stack'[p]) = n + 1
      /\ \A i \in 1..n : stack'[p][i] = stack[p][i]
      /\ stack'[p][n + 1] = t
  <2>1. stack[p] \in Seq(Types) /\ n \in Nat
    BY LenProperties DEF IInv, TypeOK
  <2>2. stack'[p] = Append(stack[p], t)
    BY DEF AccessFirst, IInv, TypeOK
  <2>3. QED
    BY <2>1, <2>2, PushFacts
<1>q. \A q \in Procs : q # p =>
         stack'[q] = stack[q] /\ cctorsRunning'[q] = cctorsRunning[q]
  BY DEF AccessFirst, IInv, TypeOK
<1>r. \A q \in Procs : t \notin cctorsRunning[q]
  BY <1>f DEF IInv, RunningIsOwned
<1>o. \A u \in Types : once'[u] = IF u = t THEN "running" ELSE once[u]
  BY DEF AccessFirst, IInv, TypeOK
<1>p. cctorsRunning'[p] = cctorsRunning[p] \cup {t}
  BY DEF AccessFirst, IInv, TypeOK
<1>1. TypeOK'
  <2>1. stack' \in [Procs -> Seq(Types)]
    BY <1>s DEF AccessFirst, IInv, TypeOK
  <2>2. /\ once' \in [Types -> {"fresh", "running", "done"}]
        /\ cctorsRunning' \in [Procs -> SUBSET Types]
    BY DEF AccessFirst, IInv, TypeOK
  <2>3. QED
    BY <2>1, <2>2, <1>f DEF IInv, TypeOK
<1>2. RunningIsOwned'
  <2>1. \A u \in Types, q \in Procs :
           u \in cctorsRunning'[q] <=> u \in cctorsRunning[q] \/ (u = t /\ q = p)
    BY <1>q, <1>p
  <2>2. \A u \in Types : once'[u] = "running" <=> \E q \in Procs : u \in cctorsRunning'[q]
    BY <2>1, <1>o DEF IInv, RunningIsOwned
  <2>3. ASSUME NEW q \in Procs, NEW r \in Procs, q # r
        PROVE  cctorsRunning'[q] \cap cctorsRunning'[r] = {}
    <3>1. /\ cctorsRunning[q] \cap cctorsRunning[r] = {}
          /\ cctorsRunning'[q] \subseteq Types
      BY <2>3, <1>1 DEF IInv, RunningIsOwned, TypeOK
    <3>2. \A u \in Types : ~ (u \in cctorsRunning'[q] /\ u \in cctorsRunning'[r])
      BY <3>1, <2>1, <2>3, <1>r
    <3>3. QED
      BY <3>1, <3>2
  <2>4. QED
    BY <2>2, <2>3 DEF RunningIsOwned
<1> HIDE DEF n
<1>3. CallChains'
  <2>1. ASSUME NEW q \in Procs, q # p
        PROVE  Mirrors(q)' /\ Linked(q)' /\ Anchored(q)'
    <3> stack'[q] = stack[q] /\ cctorsRunning'[q] = cctorsRunning[q]
      BY <1>q, <2>1
    <3>1. Mirrors(q)' /\ Linked(q)'
      BY <1>f DEF IInv, CallChains, Mirrors, Linked
    <3>2. Anchored(q)'
      BY <1>f DEF IInv, CallChains, Anchored, At, Top
    <3>3. QED
      BY <3>1, <3>2
  <2>2. Mirrors(p)'
    <3>1. /\ \A u \in Types : u \in cctorsRunning[p] <=> \E i \in 1..n : stack[p][i] = u
          /\ \A i, j \in 1..n : stack[p][i] = stack[p][j] => i = j
      BY DEF IInv, CallChains, Mirrors, n
    <3>2. \A i \in 1..(n + 1) : i \in 1..n \/ i = n + 1
      BY <1>s
    <3>3. 1..n \subseteq 1..(n + 1) /\ n + 1 \in 1..(n + 1)
      BY <1>s
    <3>4. \A u \in Types : u \in cctorsRunning'[p] <=> \E i \in 1..(n + 1) : stack'[p][i] = u
      BY <3>1, <3>2, <3>3, <1>s, <1>p
    <3>5. \A i \in 1..n : stack'[p][i] # t
      BY <3>1, <1>s, <1>f
    <3>6. \A i, j \in 1..(n + 1) : stack'[p][i] = stack'[p][j] => i = j
      BY <3>1, <3>2, <3>5, <1>s
    <3>7. QED
      BY <3>4, <3>6, <1>s DEF Mirrors
  <2>3. Linked(p)'
    <3>1. ASSUME NEW i \in 1..n
          PROVE  /\ written[stack'[p][i]] < Len(Body[stack'[p][i]])
                 /\ Body[stack'[p][i]][written[stack'[p][i]] + 1] = stack'[p][i + 1]
      <4>1. CASE i = n
        <5>1. stack[p] # <<>>
          BY <4>1, <1>s, EmptySeq DEF n
        <5>2. At(p, t) /\ Top(p) = stack'[p][i]
          BY <5>1, <4>1, <1>f, <1>s, NextAccessFacts DEF Top, n
        <5>3. QED
          BY <5>2, <4>1, <1>s DEF At
      <4>2. CASE i # n
        <5>1. i \in 1..(n - 1) /\ i + 1 \in 1..n
          BY <4>2, <1>s
        <5>2. QED
          BY <5>1, <1>s DEF IInv, CallChains, Linked, n
      <4>3. QED
        BY <4>1, <4>2
    <3>2. Len(stack'[p]) - 1 = n
      BY <1>s
    <3>3. QED
      BY <3>1, <3>2, <1>f DEF Linked
  <2>4. Anchored(p)'
    BY <1>f DEF Anchored
  <2>5. QED
    BY <2>1, <2>2, <2>3, <2>4 DEF CallChains
<1>4. Settled'
  <2>1. \A q \in Procs : pc[q] \in {"wait", "ret"} => arg[q] \in Types
    BY DEF IInv, TypeOK
  <2>2. \A q \in Procs, u \in Types :
           u \in cctorsRunning'[q] <=> u \in cctorsRunning[q] \/ (u = t /\ q = p)
    BY <1>q, <1>p
  <2>3. \A u \in Types : Outcome(u)' = Outcome(u)
    BY <1>f DEF Outcome
  <2>4. \A q \in Procs :
           /\ pc'[q] = "ret" /\ arg'[q] \notin cctorsRunning'[q]
                 => once'[arg'[q]] = "done" /\ res'[q] = Outcome(arg[q])'
           /\ pc'[q] = "wait" => arg'[q] \notin cctorsRunning'[q]
           /\ pc'[q] = "wait" => once'[arg'[q]] # "fresh"
    BY <2>1, <2>2, <1>f, <1>o DEF IInv, Settled, Outcome
  <2>5. \A q \in Procs : pc'[q] = "panic" => cctorsRunning'[q] \subseteq Panics
    <3>1. \A q \in Procs : pc'[q] = "panic" => pc[q] = "panic" /\ q # p
      BY <1>f
    <3>2. QED
      BY <3>1, <1>q DEF IInv, Settled
  <2>6. QED
    BY <2>4, <2>5, <1>f, <1>o DEF IInv, Settled
<1>5. QED
  BY <1>1, <1>2, <1>3, <1>4 DEF IInv

-----------------------------------------------------------------------------
(* Going on behind a static access.                                         *)

\* Going on behind a static access keeps the invariant.
LEMMA AdvanceStep ==
    ASSUME IInv, NEW p \in Procs, ReturnOk(p) \/ ReturnErrSwallowed(p)
    PROVE  IInv'
<1>f. /\ pc[p] = "ret" /\ Advance(p)
      /\ UNCHANGED <<once, cctorErr, cctorsRunning, stack, res>>
  BY DEF ReturnOk, ReturnErrSwallowed
<1>l. /\ pc'[p] = "code" /\ \A q \in Procs \ {p} : pc'[q] = pc[q] /\ arg'[q] = arg[q]
      /\ pc' \in [Procs -> {"idle", "code", "wait", "ret", "panic"}]
      /\ arg' \in [Procs -> Types \cup {None}]
  BY <1>f DEF Advance, IInv, TypeOK
<1>w. /\ written' \in [Types -> Nat]
      /\ \A t \in Types : written'[t] <= Len(Body[t])
      /\ \A t \in Types : t \notin cctorsRunning[p] => written'[t] = written[t]
      /\ \A t \in Types : stack[p] # <<>> /\ t # Top(p) => written'[t] = written[t]
  <2>1. CASE stack[p] = <<>>
    BY <2>1, <1>f DEF Advance, IInv, TypeOK
  <2>2. CASE stack[p] # <<>>
    <3>1. written' = [written EXCEPT ![Top(p)] = @ + 1]
      BY <2>2, <1>f DEF Advance
    <3>2. Top(p) \in Types /\ Top(p) \in cctorsRunning[p]
      BY <2>2, TopFacts
    <3>3. written[Top(p)] < Len(Body[Top(p)])
      BY <2>2, <1>f DEF IInv, CallChains, Anchored, At
    <3>4. QED
      BY <3>1, <3>2, <3>3, BodyLen DEF IInv, TypeOK
  <2>3. QED
    BY <2>1, <2>2
<1>1. TypeOK'
  BY <1>f, <1>l, <1>w DEF IInv, TypeOK
<1>2. RunningIsOwned'
  BY <1>f DEF IInv, RunningIsOwned
<1>3. CallChains'
  <2> SUFFICES ASSUME NEW q \in Procs
               PROVE  Mirrors(q)' /\ Linked(q)' /\ Anchored(q)'
    BY DEF CallChains
  <2>0. /\ Mirrors(q) /\ Linked(q) /\ Anchored(q)
        /\ stack[q] \in Seq(Types) /\ Len(stack[q]) \in Nat
    BY LenProperties DEF IInv, CallChains, TypeOK
  <2>1. Mirrors(q)'
    BY <2>0, <1>f DEF Mirrors
  <2>2. \A i \in 1..Len(stack[q]) :
           stack[q][i] \in Types /\ stack[q][i] \in cctorsRunning[q]
    BY <2>0, ElementOfSeq DEF Mirrors
  <2>3. CASE q # p
    <3>1. \A i \in 1..Len(stack[q]) : written'[stack[q][i]] = written[stack[q][i]]
      BY <2>2, <2>3, <1>w DEF IInv, RunningIsOwned
    <3>2. Linked(q)'
      <4>1. \A i \in 1..(Len(stack[q]) - 1) : i \in 1..Len(stack[q])
        BY <2>0
      <4>2. QED
        BY <2>0, <3>1, <4>1, <1>f DEF Linked
    <3>3. stack[q] # <<>> => Len(stack[q]) \in 1..Len(stack[q])
      BY <2>0, EmptySeq
    <3>4. Anchored(q)'
      BY <2>0, <2>3, <3>1, <3>3, <1>f, <1>l DEF Anchored, At, Top
    <3>5. QED
      BY <2>1, <3>2, <3>4
  <2>4. CASE q = p
    <3>1. ASSUME NEW i \in 1..(Len(stack[p]) - 1)
          PROVE  written'[stack[p][i]] = written[stack[p][i]]
      <4>1. i \in 1..Len(stack[p]) /\ Len(stack[p]) \in 1..Len(stack[p]) /\ i # Len(stack[p])
        BY <2>0, <2>4
      <4>2. stack[p][i] # Top(p) /\ stack[p][i] \in Types /\ stack[p] # <<>>
        BY <4>1, <2>0, <2>2, <2>4, EmptySeq DEF Mirrors, Top
      <4>3. QED
        BY <4>2, <1>w
    <3>2. Linked(p)'
      BY <2>0, <2>4, <3>1, <1>f DEF Linked
    <3>3. Anchored(p)'
      BY <1>l DEF Anchored
    <3>4. QED
      BY <2>1, <2>4, <3>2, <3>3
  <2>5. QED
    BY <2>3, <2>4
<1>4. Settled'
  <2>1. \A t \in Types : once[t] = "done" => written'[t] = written[t]
    BY <1>w DEF IInv, RunningIsOwned
  <2>2. \A t \in Types : Outcome(t)' = Outcome(t)
    BY <1>f DEF Outcome
  <2>3. \A q \in Procs :
           /\ pc'[q] = "ret" /\ arg'[q] \notin cctorsRunning'[q]
                 => once'[arg'[q]] = "done" /\ res'[q] = Outcome(arg[q])'
           /\ pc'[q] = "wait" => arg'[q] \notin cctorsRunning'[q]
           /\ pc'[q] = "wait" => once'[arg'[q]] # "fresh"
           /\ pc'[q] = "panic" => cctorsRunning'[q] \subseteq Panics
    BY <1>f, <1>l DEF IInv, Settled, Outcome
  <2>4. QED
    BY <2>1, <2>3, <1>f DEF IInv, Settled
<1>5. QED
  BY <1>1, <1>2, <1>3, <1>4 DEF IInv

-----------------------------------------------------------------------------
\* Every way out of an initialiser (return, failure, failed access, panic)
\* keeps the invariant.
LEMMA LeaveSteps ==
    ASSUME IInv, NEW p \in Procs,
           \/ ReturnErrInCctor(p)
           \/ CctorReturns(p)
           \/ \E err \in Failures : CctorFails(p, err)
           \/ PanicUnwinds(p)
    PROVE  IInv'
<1>1. CASE ReturnErrInCctor(p)
  <2>1. res[p] \in Failures
    BY <1>1 DEF ReturnErrInCctor, IInv, TypeOK
  <2>2. res[p] # "nil"
    BY <2>1 DEF Failures
  <2>3. QED
    BY <1>1, <2>1, <2>2, FinishStep DEF ReturnErrInCctor
<1>2. CASE CctorReturns(p)
  BY <1>2, FinishStep DEF CctorReturns
<1>3. ASSUME NEW err \in Failures, CctorFails(p, err)
      PROVE  IInv'
  <2>1. err # "nil"
    BY DEF Failures
  <2>2. QED
    BY <1>3, <2>1, FinishStep DEF CctorFails
<1>4. CASE PanicUnwinds(p)
  <2>1. /\ Top(p) \in Types /\ once[Top(p)] = "running"
        /\ Top(p) \in cctorsRunning[p]
    BY <1>4, TopFacts DEF PanicUnwinds
  <2>2. cctorErr[Top(p)] = "nil" /\ Top(p) \in Panics
    BY <1>4, <2>1 DEF PanicUnwinds, IInv, Settled
  <2>3. QED
    BY <1>4, <2>2, FinishStep DEF PanicUnwinds
<1>5. QED
  BY <1>1, <1>2, <1>3, <1>4

\* The invariant is inductive.
THEOREM StepIInv == IInv /\ [Next]_vars => IInv'
<1> SUFFICES ASSUME IInv, [Next]_vars PROVE IInv'
  OBVIOUS
<1>1. CASE UNCHANGED vars
  <2>1. TypeOK' /\ RunningIsOwned'
    BY <1>1 DEF vars, IInv, TypeOK, RunningIsOwned
  <2>2. CallChains'
    <3>1. UNCHANGED <<cctorsRunning, stack, written, pc, arg>>
      BY <1>1 DEF vars
    <3>m. \A p \in Procs : Mirrors(p)'
      BY <3>1 DEF IInv, CallChains, Mirrors
    <3>l. \A p \in Procs : Linked(p)'
      BY <3>1 DEF IInv, CallChains, Linked
    <3>2. \A p \in Procs : Anchored(p)'
      BY <1>1 DEF vars, IInv, CallChains, Anchored, At, Top
    <3>3. QED
      BY <3>m, <3>l, <3>2 DEF CallChains
  <2>3. Settled'
    BY <1>1 DEF vars, IInv, Settled, Outcome
  <2>4. QED
    BY <2>1, <2>2, <2>3 DEF IInv
<1>2. ASSUME NEW p \in Procs, BeginCall(p) \/ Step(p)
      PROVE  IInv'
  <2>1. CASE BeginCall(p)
    BY <2>1, CallSteps
  <2>2. CASE EndCall(p)
    BY <2>2, CallSteps
  <2>3. ASSUME NEW t \in Types, Access(p, t)
        PROVE  IInv'
    BY <2>3, QuietAccessSteps, AccessFirstStep DEF Access
  <2>4. CASE Wake(p) \/ ReturnErrInCall(p) \/ Panic(p) \/ PanicRecovered(p)
    BY <2>4, OtherQuietSteps
  <2>5. CASE ReturnOk(p) \/ ReturnErrSwallowed(p)
    BY <2>5, AdvanceStep
  <2>6. CASE \/ ReturnErrInCctor(p) \/ CctorReturns(p) \/ PanicUnwinds(p)
             \/ \E err \in Failures : CctorFails(p, err)
    BY <2>6, LeaveSteps
  <2>7. QED
    BY <1>2, <2>1, <2>2, <2>3, <2>4, <2>5, <2>6 DEF Step
<1>3. QED
  BY <1>1, <1>2 DEF Next

\* Every reachable state satisfies the invariant.
THEOREM Invariance == Spec => []IInv
BY InitIInv, StepIInv, PTL DEF Spec

\* Every variable keeps to the values the code can give it, and no
\* initialiser runs past its end.
THEOREM TypeCorrect == Spec => []TypeOK
<1>1. IInv => TypeOK
  BY DEF IInv
<1>2. QED
  BY <1>1, Invariance, PTL

\* A Once is running exactly while one Machine has the type in its
\* cctorsRunning: staticType's reentrancy test never misjudges the Once.
THEOREM OwnedByOneMachine == Spec => []RunningIsOwned
<1>1. IInv => RunningIsOwned
  BY DEF IInv
<1>2. QED
  BY <1>1, Invariance, PTL

\* A goroutine never blocks on an initialiser of its own call chain, whatever
\* refers to what and even if initialisers panic.
THEOREM NoSelfDeadlock == Spec => []NeverWaitsForItself
<1>1. IInv => NeverWaitsForItself
  BY DEF IInv, Settled, NeverWaitsForItself
<1>2. QED
  BY <1>1, Invariance, PTL

\* A successful static access from outside an initialiser that cannot panic
\* sees the statics the initialiser finished.
THEOREM OnlyCompleteStatics == Spec => []NoPartialStatics
<1>1. IInv => NoPartialStatics
  <2> SUFFICES ASSUME IInv, NEW p \in Procs,
                      pc[p] = "ret", res[p] = "ok",
                      arg[p] \notin cctorsRunning[p] \cup Panics
               PROVE  written[arg[p]] = Len(Body[arg[p]])
    BY DEF NoPartialStatics
  <2>1. arg[p] \in Types /\ once[arg[p]] = "done" /\ Outcome(arg[p]) = "ok"
    BY DEF IInv, TypeOK, Settled
  <2>2. cctorErr[arg[p]] = "nil"
    BY <2>1 DEF Outcome, IInv, TypeOK, Failures
  <2>3. QED
    BY <2>1, <2>2 DEF IInv, Settled
<1>2. QED
  BY <1>1, Invariance, PTL

\* What the run checks: the invariant, and that no access from outside sees an
\* initialiser's work half done.
THEOREM WholeStatics == Spec => []StaticsAreWhole
<1>1. IInv /\ NoPartialStatics => StaticsAreWhole
  BY DEF StaticsAreWhole
<1>2. QED
  BY <1>1, Invariance, OnlyCompleteStatics, PTL

\* The first outcome of an initialiser is the last: nothing runs it again and
\* nothing replaces a cached failure.
THEOREM OutcomesAreFinal == Spec => OutcomeIsFinal
<1> DEFINE Final == \A t \in Types : once[t] = "done" =>
                       /\ once'[t] = "done"
                       /\ cctorErr'[t] = cctorErr[t]
                       /\ written'[t] = written[t]
<1>1. IInv /\ [Next]_vars => [Final]_vars
  <2> SUFFICES ASSUME IInv, Next, NEW t \in Types, once[t] = "done"
               PROVE  once'[t] = "done" /\ cctorErr'[t] = cctorErr[t] /\ written'[t] = written[t]
    OBVIOUS
  <2>1. PICK p \in Procs : BeginCall(p) \/ Step(p)
    BY DEF Next
  <2>2. stack[p] # <<>> => Top(p) # t
    BY TopFacts
  <2>3. CASE UNCHANGED shared
    BY <2>3 DEF shared
  <2>4. ASSUME NEW u \in Types, AccessFirst(p, u)
        PROVE  once'[t] = "done" /\ cctorErr'[t] = cctorErr[t] /\ written'[t] = written[t]
    BY <2>4 DEF AccessFirst, IInv, TypeOK
  <2>5. CASE Advance(p) /\ UNCHANGED <<once, cctorErr>>
    BY <2>2, <2>5 DEF Advance, IInv, TypeOK
  <2>6. ASSUME NEW err, Finish(p, err), stack[p] # <<>>, written' = written
        PROVE  once'[t] = "done" /\ cctorErr'[t] = cctorErr[t] /\ written'[t] = written[t]
    BY <2>2, <2>6 DEF Finish, IInv, TypeOK
  <2>7. QED
    BY <2>1, <2>3, <2>4, <2>5, <2>6
       DEF Step, Access, BeginCall, EndCall, AccessReentrant, AccessDone, AccessBlocks, Wake,
           ReturnOk, ReturnErrInCctor, ReturnErrInCall, ReturnErrSwallowed, CctorReturns,
           CctorFails, Panic, PanicUnwinds, PanicRecovered
<1>2. QED
  BY <1>1, Invariance, PTL DEF Spec, OutcomeIsFinal

-----------------------------------------------------------------------------
(* Deadlock.  R orders the types so that an initialiser only reads types    *)
(* below its own: "no two types initialise one another".                    *)

Orders(R) ==
    /\ IsWellFoundedOn(R, Types)
    /\ IsTransitivelyClosedOn(R, Types)
    /\ \A t \in Types : \A i \in 1..Len(Body[t]) :
          Body[t][i] # t => <<Body[t][i], t>> \in R

Acyclic == \E R \in SUBSET (Types \X Types) : Orders(R)

\* Along every call stack the types descend.
Descending(R) ==
    \A p \in Procs : \A i, j \in 1..Len(stack[p]) :
        i < j => <<stack[p][j], stack[p][i]>> \in R

LEMMA DescendingStep ==
    ASSUME NEW R, Orders(R), IInv, Descending(R), [Next]_vars
    PROVE  Descending(R)'
<1> SUFFICES ASSUME NEW q \in Procs
             PROVE  \A i, j \in 1..Len(stack'[q]) :
                       i < j => <<stack'[q][j], stack'[q][i]>> \in R
  BY DEF Descending
<1> DEFINE n == Len(stack[q])
<1>0. /\ stack[q] \in Seq(Types) /\ n \in Nat
      /\ \A i \in 1..n : stack[q][i] \in Types
      /\ \A i, j \in 1..n : i < j => <<stack[q][j], stack[q][i]>> \in R
  BY LenProperties, ElementOfSeq DEF IInv, TypeOK, Descending
<1>1. CASE stack'[q] = stack[q]
  BY <1>1 DEF Descending
<1>2. ASSUME NEW t \in Types, AccessFirst(q, t)
      PROVE  \A i, j \in 1..Len(stack'[q]) : i < j => <<stack'[q][j], stack'[q][i]>> \in R
  <2>1. stack'[q] = Append(stack[q], t)
    BY <1>2 DEF AccessFirst, IInv, TypeOK
  <2>2. /\ Len(stack'[q]) = n + 1 /\ stack'[q][n + 1] = t
        /\ \A i \in 1..n : stack'[q][i] = stack[q][i]
    BY <2>1, <1>0, PushFacts
  <2>3. ASSUME stack[q] # <<>>
        PROVE  Top(q) \in Types /\ <<t, Top(q)>> \in R
    <3>1. At(q, t) /\ t \notin cctorsRunning[q]
      BY <1>2, <2>3, NextAccessFacts DEF AccessFirst
    <3>2. Top(q) \in Types /\ Top(q) \in cctorsRunning[q]
      BY <2>3, TopFacts
    <3>3. written[Top(q)] + 1 \in 1..Len(Body[Top(q)])
      BY <3>1, <3>2, BodyLen DEF At, IInv, TypeOK
    <3>4. QED
      BY <3>1, <3>2, <3>3 DEF At, Orders
  <2>4. ASSUME NEW i \in 1..n
        PROVE  <<t, stack[q][i]>> \in R
    <3>1. stack[q] # <<>>
      BY <1>0, <2>4
    <3>2. <<t, Top(q)>> \in R /\ Top(q) \in Types
      BY <3>1, <2>3
    <3>3. n \in 1..n /\ (i = n \/ i < n)
      BY <1>0, <2>4
    <3>4. CASE i = n
      BY <3>2, <3>4 DEF Top
    <3>5. CASE i < n
      <4>1. <<Top(q), stack[q][i]>> \in R
        BY <3>3, <3>5, <2>4, <1>0 DEF Top
      <4>2. QED
        BY <4>1, <3>2, <2>4, <1>0 DEF Orders, IsTransitivelyClosedOn
    <3>6. QED
      BY <3>3, <3>4, <3>5
  <2> HIDE DEF n
  <2>5. ASSUME NEW i \in 1..(n + 1), NEW j \in 1..(n + 1), i < j
        PROVE  <<stack'[q][j], stack'[q][i]>> \in R
    <3>1. i \in 1..n /\ (j \in 1..n \/ j = n + 1)
      BY <2>5, <1>0
    <3>2. CASE j \in 1..n
      BY <3>1, <3>2, <2>2, <2>5, <1>0
    <3>3. CASE j = n + 1
      BY <3>1, <3>3, <2>2, <2>4
    <3>4. QED
      BY <3>1, <3>2, <3>3
  <2>6. QED
    BY <2>2, <2>5
<1>3. ASSUME NEW err, Finish(q, err), stack[q] # <<>>
      PROVE  \A i, j \in 1..Len(stack'[q]) : i < j => <<stack'[q][j], stack'[q][i]>> \in R
  <2>1. stack'[q] = SubSeq(stack[q], 1, Len(stack[q]) - 1)
    BY <1>3 DEF Finish, IInv, TypeOK
  <2>2. Len(stack'[q]) = n - 1 /\ \A i \in 1..(n - 1) : stack'[q][i] = stack[q][i]
    BY <2>1, <1>0, <1>3, PopFacts
  <2> HIDE DEF n
  <2>3. \A i \in 1..(n - 1) : i \in 1..n
    BY <1>0
  <2>4. QED
    BY <2>2, <2>3, <1>0
<1>4. ASSUME NEW p \in Procs, p # q, BeginCall(p) \/ Step(p)
      PROVE  stack'[q] = stack[q]
  BY <1>4
     DEF IInv, TypeOK, Step, Access, BeginCall, EndCall, AccessReentrant, AccessDone,
         AccessFirst, AccessBlocks, Wake, ReturnOk, ReturnErrInCctor, ReturnErrInCall,
         ReturnErrSwallowed, CctorReturns, CctorFails, Panic, PanicUnwinds, PanicRecovered,
         Finish
<1>5. ASSUME BeginCall(q) \/ Step(q)
      PROVE  \/ stack'[q] = stack[q]
             \/ \E t \in Types : AccessFirst(q, t)
             \/ stack[q] # <<>> /\ \E err \in Failures \cup {"nil"} : Finish(q, err)
  <2>1. CASE UNCHANGED stack
    BY <2>1
  <2>2. CASE ReturnErrInCctor(q)
    BY <2>2 DEF ReturnErrInCctor, IInv, TypeOK
  <2>3. CASE CctorReturns(q)
    BY <2>3 DEF CctorReturns
  <2>4. CASE \E err \in Failures : CctorFails(q, err)
    BY <2>4 DEF CctorFails
  <2>5. CASE PanicUnwinds(q)
    BY <2>5, TopFacts DEF PanicUnwinds, IInv, TypeOK
  <2>6. QED
    BY <1>5, <2>1, <2>2, <2>3, <2>4, <2>5
       DEF Step, Access, BeginCall, EndCall, AccessReentrant, AccessDone, AccessBlocks, Wake,
           ReturnOk, ReturnErrInCall, ReturnErrSwallowed, Panic, PanicRecovered
<1>6. CASE UNCHANGED vars
  BY <1>1, <1>6 DEF vars
<1>7. QED
  BY <1>1, <1>2, <1>3, <1>4, <1>5, <1>6 DEF Next

\* If no two types initialise one another, goroutines never block in a ring:
\* whoever waits is waiting, in the end, for somebody who can run.
THEOREM DeadlockFreedom == Acyclic => (Spec => []NoDeadlock)
<1> SUFFICES ASSUME NEW R \in SUBSET (Types \X Types), Orders(R)
             PROVE  Spec => []NoDeadlock
  BY DEF Acyclic
<1>1. Init => Descending(R)
  BY DEF Init, Descending
<1>2. IInv /\ Descending(R) /\ [Next]_vars => Descending(R)'
  BY DescendingStep
<1>3. IInv /\ Descending(R) => NoDeadlock
  <2> SUFFICES ASSUME IInv, Descending(R),
                      NEW S \in SUBSET Procs, S # {},
                      \A p \in S : \E q \in S : WaitsFor(p, q)
               PROVE  FALSE
    BY DEF NoDeadlock
  <2> DEFINE T == {arg[p] : p \in S}
  <2>1. \A p \in S : pc[p] = "wait" /\ arg[p] \in Types /\ arg[p] \notin cctorsRunning[p]
    BY DEF WaitsFor, IInv, TypeOK, Settled
  <2>2. T \subseteq Types /\ T # {}
    BY <2>1
  <2>3. PICK t \in T : \A u \in T : <<u, t>> \notin R
    BY <2>2, WFMin DEF Orders
  <2>4. PICK p \in S : arg[p] = t
    OBVIOUS
  <2>5. PICK q \in S : arg[p] \in cctorsRunning[q]
    BY DEF WaitsFor
  <2>6. PICK i \in 1..Len(stack[q]) : stack[q][i] = t
    BY <2>1, <2>4, <2>5 DEF IInv, CallChains, Mirrors
  <2>7. stack[q] \in Seq(Types) /\ Len(stack[q]) \in Nat /\ stack[q] # <<>>
    <3>1. stack[q] \in Seq(Types)
      BY DEF IInv, TypeOK
    <3>2. QED
      BY <3>1, <2>6, LenProperties
  <2>8. Top(q) \in Types /\ Top(q) \in cctorsRunning[q] /\ At(q, arg[q])
    BY <2>1, <2>7, TopFacts DEF IInv, CallChains, Anchored
  <2>9. <<arg[q], Top(q)>> \in R
    <3>1. written[Top(q)] + 1 \in 1..Len(Body[Top(q)])
      <4>1. written[Top(q)] \in Nat /\ Len(Body[Top(q)]) \in Nat
        BY <2>8, BodyLen DEF IInv, TypeOK
      <4>2. written[Top(q)] < Len(Body[Top(q)])
        BY <2>8 DEF At
      <4>3. QED
        BY <4>1, <4>2
    <3>2. arg[q] # Top(q)
      BY <2>1, <2>8
    <3>3. QED
      BY <3>1, <3>2, <2>8 DEF At, Orders
  <2>10. <<arg[q], t>> \in R
    <3>1. CASE i = Len(stack[q])
      BY <3>1, <2>6, <2>9 DEF Top
    <3>2. CASE i < Len(stack[q])
      <4>1. Len(stack[q]) \in 1..Len(stack[q])
        BY <2>7, <3>2
      <4>2. <<Top(q), t>> \in R
        BY <3>2, <4>1, <2>6 DEF Descending, Top
      <4>3. QED
        BY <4>2, <2>9, <2>8, <2>1, <2>2 DEF Orders, IsTransitivelyClosedOn
    <3>3. QED
      BY <2>7, <3>1, <3>2
  <2>11. QED
    BY <2>3, <2>10
<1>4. QED
  BY <1>1, <1>2, <1>3, Invariance, PTL DEF Spec

-----------------------------------------------------------------------------
(* The abstract promise: TypeInitAbs under the refinement mapping.         *)

Status == [t \in Types |-> StatusOf(t)]
Client == [p \in Procs |-> ClientOf(p)]

AskedFor(t) == [kind |-> "asked", type |-> t]
Nothing == [kind |-> "none", type |-> None]

\* The steps of TypeInitAbs, in the terms of the mapping.
StatusStep ==
    \/ Status' = Status
    \/ \E t \in Types :
          \/ Status[t] = "none" /\ Status' = [Status EXCEPT ![t] = "busy"]
          \/ Status[t] = "busy" /\ \E s \in {"ready", "failed"} : Status' = [Status EXCEPT ![t] = s]
ClientStep ==
    \/ Client' = Client
    \/ \E p \in Procs :
          \/ Client[p].kind \in {"ok", "err"} /\ Client' = [Client EXCEPT ![p] = Nothing]
          \/ \E t \in Types :
                \/ Client[p] = Nothing /\ Client' = [Client EXCEPT ![p] = AskedFor(t)]
                \/ /\ Client[p] \in {Nothing, AskedFor(t)}
                   /\ \/ Status'[t] = "ready" /\ Client' = [Client EXCEPT ![p] = [kind |-> "ok", type |-> t]]
                      \/ Status'[t] = "failed" /\ Client' = [Client EXCEPT ![p] = [kind |-> "err", type |-> t]]
                \/ t \in Panics /\ Client[p] = AskedFor(t) /\ Client' = [Client EXCEPT ![p] = Nothing]

LEMMA AbstractStep == ASSUME StatusStep, ClientStep PROVE Abs!Next
<1>1. (\E t \in Types : Abs!Begin(t) \/ Abs!Settle(t)) \/ Status' = Status
  BY DEF StatusStep, Status, Abs!Begin, Abs!Settle
<1>2. \/ \E p \in Procs : \/ Abs!Done(p)
                          \/ \E t \in Types : Abs!Ask(p, t) \/ Abs!Tell(p, t) \/ Abs!GiveUp(p, t)
      \/ Client' = Client
  BY DEF ClientStep, Status, Client, Nothing, AskedFor, Abs!Done, Abs!Ask, Abs!Tell, Abs!GiveUp,
         Abs!NoAccess, Abs!Asked, Abs!Answer
<1>3. QED
  BY <1>1, <1>2 DEF Abs!Next, Status, Client

\* What a call is seen to do.
LEMMA ClientCases ==
    \A p \in Procs :
        /\ stack[p] # <<>> => ClientOf(p) = AskedFor(stack[p][1])
        /\ stack[p] = <<>> /\ pc[p] = "wait" => ClientOf(p) = AskedFor(arg[p])
        /\ stack[p] = <<>> /\ pc[p] = "ret" =>
              ClientOf(p) = [kind |-> IF res[p] = "ok" THEN "ok" ELSE "err", type |-> arg[p]]
        /\ stack[p] = <<>> /\ pc[p] \notin {"wait", "ret"} => ClientOf(p) = Nothing
  BY DEF ClientOf, Root, AskedFor, Nothing

LEMMA ClientCasesPrimed ==
    \A p \in Procs :
        /\ stack'[p] # <<>> => ClientOf(p)' = AskedFor(stack'[p][1])
        /\ stack'[p] = <<>> /\ pc'[p] = "wait" => ClientOf(p)' = AskedFor(arg'[p])
        /\ stack'[p] = <<>> /\ pc'[p] = "ret" =>
              ClientOf(p)' = [kind |-> IF res'[p] = "ok" THEN "ok" ELSE "err", type |-> arg'[p]]
        /\ stack'[p] = <<>> /\ pc'[p] \notin {"wait", "ret"} => ClientOf(p)' = Nothing
  BY DEF ClientOf, Root, AskedFor, Nothing

\* A goroutine's step is seen on it alone.
LEMMA OneClient ==
    ASSUME NEW p \in Procs,
           \A q \in Procs \ {p} :
              stack'[q] = stack[q] /\ pc'[q] = pc[q] /\ arg'[q] = arg[q] /\ res'[q] = res[q]
    PROVE  /\ Client[p] = ClientOf(p)
           /\ Client' = [Client EXCEPT ![p] = ClientOf(p)']
<1>1. \A q \in Procs \ {p} : ClientOf(q)' = ClientOf(q)
  BY DEF ClientOf, Root
<1>2. QED
  BY <1>1 DEF Client

\* Inside an initialiser nothing is seen of an access.
LEMMA HiddenStep ==
    ASSUME NEW p \in Procs, stack[p] # <<>>, stack'[p] # <<>>, stack'[p][1] = stack[p][1],
           \A q \in Procs \ {p} :
              stack'[q] = stack[q] /\ pc'[q] = pc[q] /\ arg'[q] = arg[q] /\ res'[q] = res[q]
    PROVE  ClientStep
<1>1. ClientOf(p)' = ClientOf(p)
  BY ClientCases, ClientCasesPrimed
<1>2. Client' = [Client EXCEPT ![p] = ClientOf(p)]
  BY <1>1, OneClient
<1>3. QED
  BY <1>2 DEF ClientStep, Client

\* What the Once of a type that is done has recorded.
LEMMA StatusFacts ==
    ASSUME IInv, NEW t \in Types
    PROVE  /\ once[t] = "fresh" => Status[t] = "none"
           /\ once[t] = "running" => Status[t] = "busy"
           /\ once[t] = "done" =>
                 Status[t] = IF Outcome(t) = "ok" THEN "ready" ELSE "failed"
  BY DEF Status, StatusOf, Outcome, IInv, TypeOK, Failures

LEMMA QuietStatus == ASSUME UNCHANGED <<once, cctorErr>> PROVE Status' = Status
  BY DEF Status, StatusOf

\* The steps that leave the Onces alone.
LEMMA CallRefines ==
    ASSUME IInv, NEW p \in Procs,
           BeginCall(p) \/ EndCall(p) \/ Panic(p) \/ PanicRecovered(p)
    PROVE  Abs!Next
<1>1. /\ UNCHANGED <<once, cctorErr, stack, arg, res>>
      /\ pc[p] \in {"idle", "code", "panic"} /\ pc'[p] \in {"idle", "code", "panic"}
      /\ \A q \in Procs \ {p} : pc'[q] = pc[q]
  BY DEF BeginCall, EndCall, Panic, PanicRecovered, shared, IInv, TypeOK
<1>2. ClientOf(p)' = ClientOf(p)
  BY <1>1, ClientCases, ClientCasesPrimed
<1>3. Client' = [Client EXCEPT ![p] = ClientOf(p)]
  BY <1>1, <1>2, OneClient
<1>4. ClientStep
  BY <1>3 DEF ClientStep, Client
<1>5. QED
  BY <1>1, <1>4, QuietStatus, AbstractStep DEF StatusStep

LEMMA AnswerRefines ==
    ASSUME IInv, NEW p \in Procs, NEW t \in Types,
           \/ AccessReentrant(p, t) \/ AccessDone(p, t) \/ AccessBlocks(p, t)
           \/ Wake(p) /\ t = arg[p]
    PROVE  Abs!Next
<1>1. /\ UNCHANGED <<once, cctorErr, stack>>
      /\ \A q \in Procs \ {p} : pc'[q] = pc[q] /\ arg'[q] = arg[q] /\ res'[q] = res[q]
      /\ arg'[p] = t
      /\ \/ pc[p] = "code" /\ t \in cctorsRunning[p]
         \/ /\ pc[p] \in {"code", "wait"} /\ pc'[p] = "ret"
            /\ pc[p] = "wait" => t = arg[p]
            /\ once[t] = "done" /\ res'[p] = Outcome(t)
         \/ pc[p] = "code" /\ pc'[p] = "wait"
  BY DEF AccessReentrant, AccessDone, AccessBlocks, Wake, Return, shared, IInv, TypeOK
<1>2. Status' = Status
  BY <1>1, QuietStatus
<1>3. CASE stack[p] # <<>>
  BY <1>1, <1>2, <1>3, HiddenStep, AbstractStep DEF StatusStep
<1>4. CASE stack[p] = <<>>
  <2>1. Client[p] = ClientOf(p) /\ Client' = [Client EXCEPT ![p] = ClientOf(p)']
    BY <1>1, OneClient
  <2>2. t \notin cctorsRunning[p]
    BY <1>4 DEF IInv, CallChains, Mirrors
  <2>3. CASE pc'[p] = "wait"
    <3>1. Client[p] = Nothing /\ ClientOf(p)' = AskedFor(t)
      BY <1>1, <1>4, <2>1, <2>2, <2>3, ClientCases, ClientCasesPrimed
    <3>2. ClientStep
      BY <2>1, <3>1 DEF ClientStep
    <3>3. QED
      BY <1>2, <3>2, AbstractStep DEF StatusStep
  <2>4. CASE pc'[p] = "ret" /\ once[t] = "done" /\ res'[p] = Outcome(t) /\ (pc[p] = "wait" => t = arg[p])
    <3>1. Client[p] \in {Nothing, AskedFor(t)}
      BY <1>1, <1>4, <2>1, <2>2, <2>4, ClientCases
    <3>2. ClientOf(p)' = [kind |-> IF Outcome(t) = "ok" THEN "ok" ELSE "err", type |-> t]
      BY <1>1, <1>4, <2>4, ClientCasesPrimed
    <3>3. Status'[t] = IF Outcome(t) = "ok" THEN "ready" ELSE "failed"
      BY <1>2, <2>4, StatusFacts
    <3>4. ClientStep
      BY <2>1, <3>1, <3>2, <3>3 DEF ClientStep
    <3>5. QED
      BY <1>2, <3>4, AbstractStep DEF StatusStep
  <2>5. QED
    BY <1>1, <2>2, <2>3, <2>4
<1>5. QED
  BY <1>3, <1>4

LEMMA ConsumeRefines ==
    ASSUME IInv, NEW p \in Procs, ReturnOk(p) \/ ReturnErrInCall(p) \/ ReturnErrSwallowed(p)
    PROVE  Abs!Next
<1>1. /\ UNCHANGED <<once, cctorErr, stack, res>>
      /\ \A q \in Procs \ {p} : pc'[q] = pc[q] /\ arg'[q] = arg[q]
      /\ pc[p] = "ret" /\ pc'[p] \in {"code", "idle"}
  BY DEF ReturnOk, ReturnErrInCall, ReturnErrSwallowed, Advance, shared, IInv, TypeOK
<1>2. CASE stack[p] # <<>>
  BY <1>1, <1>2, HiddenStep, QuietStatus, AbstractStep DEF StatusStep
<1>3. CASE stack[p] = <<>>
  <2>1. Client[p] = ClientOf(p) /\ Client' = [Client EXCEPT ![p] = ClientOf(p)']
    BY <1>1, OneClient
  <2>2. Client[p].kind \in {"ok", "err"} /\ ClientOf(p)' = Nothing
    BY <1>1, <1>3, <2>1, ClientCases, ClientCasesPrimed
  <2>3. ClientStep
    BY <2>1, <2>2 DEF ClientStep
  <2>4. QED
    BY <1>1, <2>3, QuietStatus, AbstractStep DEF StatusStep
<1>4. QED
  BY <1>2, <1>3

\* The first access starts the initialiser, and asks for it when a call made it.
LEMMA FirstRefines ==
    ASSUME IInv, NEW p \in Procs, NEW t \in Types, AccessFirst(p, t)
    PROVE  Abs!Next
<1>1. /\ once[t] = "fresh" /\ once' = [once EXCEPT ![t] = "running"] /\ pc[p] = "code"
      /\ stack'[p] = Append(stack[p], t) /\ \A q \in Procs \ {p} : stack'[q] = stack[q]
      /\ UNCHANGED <<cctorErr, pc, arg, res>>
  BY DEF AccessFirst, IInv, TypeOK
<1>2. StatusStep
  <2>1. Status[t] = "none"
    BY <1>1, StatusFacts
  <2>2. Status' = [Status EXCEPT ![t] = "busy"]
    <3>1. StatusOf(t)' = "busy"
      BY <1>1 DEF StatusOf, IInv, TypeOK
    <3>2. \A u \in Types \ {t} : StatusOf(u)' = StatusOf(u)
      BY <1>1 DEF StatusOf, IInv, TypeOK
    <3>3. QED
      BY <3>1, <3>2 DEF Status
  <2>3. QED
    BY <2>1, <2>2 DEF StatusStep
<1>3. /\ stack[p] \in Seq(Types) /\ Len(stack[p]) \in Nat /\ stack'[p] # <<>>
      /\ Len(stack'[p]) = Len(stack[p]) + 1
      /\ \A i \in 1..Len(stack[p]) : stack'[p][i] = stack[p][i]
      /\ stack'[p][Len(stack[p]) + 1] = t
  <2>1. stack[p] \in Seq(Types)
    BY DEF IInv, TypeOK
  <2>2. QED
    BY <1>1, <2>1, PushFacts, LenProperties
<1>4. CASE stack[p] # <<>>
  <2>1. 1 \in 1..Len(stack[p])
    BY <1>3, <1>4, PopFacts
  <2>2. stack'[p][1] = stack[p][1]
    BY <1>3, <2>1
  <2>3. QED
    BY <1>1, <1>2, <1>3, <1>4, <2>2, HiddenStep, AbstractStep
<1>5. CASE stack[p] = <<>>
  <2>1. Client[p] = ClientOf(p) /\ Client' = [Client EXCEPT ![p] = ClientOf(p)']
    BY <1>1, OneClient
  <2>2. stack'[p][1] = t
    BY <1>3, <1>5
  <2>3. Client[p] = Nothing /\ ClientOf(p)' = AskedFor(t)
    BY <1>1, <1>3, <1>5, <2>1, <2>2, ClientCases, ClientCasesPrimed
  <2>4. ClientStep
    BY <2>1, <2>3 DEF ClientStep
  <2>5. QED
    BY <1>2, <2>4, AbstractStep
<1>6. QED
  BY <1>4, <1>5

\* The end of an initialiser settles its type, and answers the call when it was the
\* initialiser that the call asked for.
LEMMA FinishRefines ==
    ASSUME IInv, NEW p \in Procs, stack[p] # <<>>,
           NEW err \in Failures \cup {"nil"}, Finish(p, err),
           \/ pc[p] # "panic" /\ Return(p, Top(p), IF err = "nil" THEN "ok" ELSE err)
           \/ pc[p] = "panic" /\ UNCHANGED <<pc, arg, res>>
    PROVE  Abs!Next
<1>p. PICK t \in Types : t = Top(p)
  BY TopFacts
<1> DEFINE n == Len(stack[p])
           s == IF err = "nil" THEN "ready" ELSE "failed"
<1>t. stack[p] \in Seq(Types) /\ n \in Nat \ {0} /\ t \in Types /\ t \in cctorsRunning[p] /\ once[t] = "running"
  BY <1>p, TopFacts
<1>s. /\ stack'[p] \in Seq(Types) /\ Len(stack'[p]) = n - 1
      /\ \A i \in 1..(n - 1) : stack'[p][i] = stack[p][i]
  BY PopFacts, <1>t DEF Finish, IInv, TypeOK
<1>q. \A q \in Procs \ {p} :
         stack'[q] = stack[q] /\ pc'[q] = pc[q] /\ arg'[q] = arg[q] /\ res'[q] = res[q]
  BY DEF Finish, Return, IInv, TypeOK
<1>o. /\ once'[t] = "done" /\ cctorErr'[t] = err
      /\ \A u \in Types \ {t} : once'[u] = once[u] /\ cctorErr'[u] = cctorErr[u]
  BY <1>p DEF Finish, IInv, TypeOK
<1>1. Status[t] = "busy" /\ Status' = [Status EXCEPT ![t] = s]
  <2>1. StatusOf(t)' = s
    BY <1>o DEF StatusOf, Failures
  <2>2. \A u \in Types \ {t} : StatusOf(u)' = StatusOf(u)
    BY <1>o DEF StatusOf
  <2>3. Status' = [Status EXCEPT ![t] = s]
    BY <2>1, <2>2 DEF Status
  <2>4. QED
    BY <1>t, <2>3, StatusFacts
<1>2. StatusStep
  BY <1>t, <1>1 DEF StatusStep
<1>3. Status'[t] = s
  BY <1>t, <1>1 DEF Status
<1>n. t = stack[p][n]
  BY <1>p DEF Top
<1> HIDE DEF n, s
<1>4. CASE n # 1
  <2>1. 1 \in 1..(n - 1)
    BY <1>t, <1>4
  <2>2. stack'[p] # <<>> /\ stack'[p][1] = stack[p][1]
    BY <1>t, <1>s, <1>4, <2>1
  <2>3. QED
    BY <1>2, <1>q, <2>2, HiddenStep, AbstractStep
<1>5. CASE n = 1
  <2>1. stack'[p] = <<>> /\ stack[p][1] = t
    BY <1>n, <1>s, <1>5, EmptySeq
  <2>2. Client[p] = AskedFor(t) /\ Client' = [Client EXCEPT ![p] = ClientOf(p)']
    BY <1>q, <2>1, OneClient, ClientCases
  <2>3. CASE pc[p] # "panic"
    <3>1. pc'[p] = "ret" /\ arg'[p] = t /\ res'[p] = IF err = "nil" THEN "ok" ELSE err
      BY <1>p, <2>3 DEF Return, IInv, TypeOK
    <3>2. ClientOf(p)' = [kind |-> IF s = "ready" THEN "ok" ELSE "err", type |-> t]
      BY <2>1, <3>1, ClientCasesPrimed DEF s, Failures
    <3>3. ClientStep
      BY <1>t, <1>3, <2>2, <3>2 DEF ClientStep, s
    <3>4. QED
      BY <1>2, <3>3, AbstractStep
  <2>4. CASE pc[p] = "panic"
    <3>1. ClientOf(p)' = Nothing
      BY <2>1, <2>4, ClientCasesPrimed
    <3>2. t \in Panics
      BY <1>t, <2>4 DEF IInv, Settled
    <3>3. ClientStep
      BY <1>t, <2>2, <3>1, <3>2 DEF ClientStep
    <3>4. QED
      BY <1>2, <3>3, AbstractStep
  <2>5. QED
    BY <2>3, <2>4
<1>6. QED
  BY <1>4, <1>5

\* To the code of the calls, the nested initialisers that block one another are
\* types initialised once, whose one outcome everybody is told.
THEOREM Refinement == Spec => ImplementsAbs
<1>1. Init => Abs!Init
  BY DEF Init, Abs!Init, Abs!NoAccess, StatusOf, ClientOf
<1>2. ASSUME IInv, [Next]_vars PROVE [Abs!Next]_(Abs!vars)
  <2>1. CASE UNCHANGED vars
    BY <2>1 DEF vars, Abs!vars, StatusOf, ClientOf, Root
  <2>2. ASSUME NEW p \in Procs, BeginCall(p) \/ Step(p) PROVE Abs!Next
    <3>1. CASE BeginCall(p) \/ EndCall(p) \/ Panic(p) \/ PanicRecovered(p)
      BY <1>2, <3>1, CallRefines
    <3>2. ASSUME NEW t \in Types, Access(p, t) PROVE Abs!Next
      BY <1>2, <3>2, AnswerRefines, FirstRefines DEF Access
    <3>3. CASE Wake(p)
      <4>1. arg[p] \in Types
        BY <1>2, <3>3 DEF Wake, IInv, TypeOK
      <4>2. QED
        BY <1>2, <3>3, <4>1, AnswerRefines
    <3>4. CASE ReturnOk(p) \/ ReturnErrInCall(p) \/ ReturnErrSwallowed(p)
      BY <1>2, <3>4, ConsumeRefines
    <3>5. CASE ReturnErrInCctor(p)
      <4>1. res[p] \in Failures
        BY <1>2, <3>5 DEF ReturnErrInCctor, IInv, TypeOK
      <4>2. QED
        BY <1>2, <3>5, <4>1, FinishRefines DEF ReturnErrInCctor, Failures
    <3>6. CASE CctorReturns(p)
      BY <1>2, <3>6, FinishRefines DEF CctorReturns
    <3>7. ASSUME NEW err \in Failures, CctorFails(p, err) PROVE Abs!Next
      BY <1>2, <3>7, FinishRefines DEF CctorFails, Failures
    <3>8. CASE PanicUnwinds(p)
      <4>1. cctorErr[Top(p)] \in Failures \cup {"nil"}
        BY <1>2, <3>8, TopFacts DEF PanicUnwinds, IInv, TypeOK
      <4>2. QED
        BY <1>2, <3>8, <4>1, FinishRefines DEF PanicUnwinds
    <3>9. QED
      BY <2>2, <3>1, <3>2, <3>3, <3>4, <3>5, <3>6, <3>7, <3>8 DEF Step
  <2>3. QED
    BY <1>2, <2>1, <2>2 DEF Next
<1>3. QED
  BY <1>1, <1>2, Invariance, PTL DEF Spec, ImplementsAbs, Abs!Spec
=============================================================================
