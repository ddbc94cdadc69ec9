-------------------------- MODULE CallChainProofs --------------------------
(***************************************************************************)
(* The call chain of CallChain for every value of the constants: its type  *)
(* invariant, that resolvers are restored whatever way activations end,    *)
(* and the bound on the call depth between constructions by reflection.    *)
(*                                                                         *)
(* Every step leaves the chain alone, pushes an activation or two, marks a *)
(* phase of the innermost one, or cuts the chain; the lemmas treat these   *)
(* four changes, the theorems the actions.                                 *)
(***************************************************************************)
EXTENDS CallChain, FiniteSetTheorems, TLAPS

\* Each activation of s remembers the resolvers of the one below it, and r are
\* those of the last: ResolverIsMine made inductive.
ChainOf(s, r) ==
    /\ s # <<>> => s[1].prev = Root
    /\ \A i \in 1..(Len(s) - 1) : s[i + 1].prev = s[i].asm
    /\ r = IF s = <<>> THEN Root ELSE s[Len(s)].asm

Chained == ChainOf(acts, resolver)

\* Before the host's call there is no chain.
Idle == stage = "ready" => acts = <<>>

IInv == TypeOK /\ Chained /\ Idle

-----------------------------------------------------------------------------
(* The four ways a step changes the chain                                  *)

\* The fields of an activation.
LEMMA Fields ==
    ASSUME NEW x \in Activation
    PROVE  x.depth \in Nat /\ x.saved \in Nat /\ x.asm \in Asms /\ x.prev \in Asms
BY DEF Activation

\* The new activations are activations.
LEMMA NewActivations ==
    ASSUME TypeOK
    PROVE  /\ \A a \in Asms, d \in Nat, g \in Guards : Method(a, d, g) \in Activation
           /\ \A k \in {"task", "ctor", "cctor", "new"}, d, n \in Nat :
                 Native(k, d, n) \in Activation
BY DEF TypeOK, Method, Native, Activation, Guards, Phases

\* A push onto a well-typed chain leaves it well typed.
LEMMA InvokeTypes ==
    ASSUME TypeOK, NEW mid \in Seq(Activation), NEW d \in Nat, NEW a \in Asms,
           NEW g \in Guards, Invoke(mid, d, a, g)
    PROVE  /\ acts' \in Seq(Activation)
           /\ resolver' \in Asms
           /\ err' \in Errors \union {NoErr}
<1>1. CASE d > MaxDepth
  <2>1. Err("depth") \in Errors
    BY DEF Err, Errors, Kinds, Limits
  <2>2. QED
    BY <1>1, <2>1 DEF Invoke, TypeOK
<1>2. CASE ~(d > MaxDepth)
  <2>1. Method(a, d, g) \in Activation
    BY NewActivations
  <2>2. acts' = Append(mid, Method(a, d, g)) /\ resolver' = a /\ err' = err
    BY <1>2 DEF Invoke
  <2>3. QED
    BY <2>1, <2>2 DEF TypeOK
<1>3. QED
  BY <1>1, <1>2

LEMMA PushedChain ==
    ASSUME NEW s \in Seq(Activation), NEW r, ChainOf(s, r),
           NEW x \in Activation, x.prev = r
    PROVE  Append(s, x) \in Seq(Activation) /\ ChainOf(Append(s, x), x.asm)
<1> DEFINE t == Append(s, x)
<1>1. /\ t \in Seq(Activation) /\ t # <<>> /\ Len(t) = Len(s) + 1
      /\ t[Len(t)] = x
      /\ \A j \in 1..Len(s) : t[j] = s[j]
  OBVIOUS
<1> HIDE DEF t
<1>2. CASE s = <<>>
  BY <1>1, <1>2 DEF ChainOf
<1>3. CASE s # <<>>
  <2>1. Len(s) \in 1..Len(s)
    BY <1>3
  <2>2. t[1].prev = Root
    BY <1>1, <1>3, <2>1 DEF ChainOf
  <2>3. ASSUME NEW i \in 1..(Len(t) - 1)
        PROVE  t[i + 1].prev = t[i].asm
    <3>1. CASE i = Len(s)
      BY <1>1, <1>3, <2>1, <3>1 DEF ChainOf
    <3>2. CASE i # Len(s)
      BY <1>1, <3>2 DEF ChainOf
    <3>3. QED
      BY <3>1, <3>2
  <2>4. QED
    BY <1>1, <2>2, <2>3 DEF ChainOf
<1>4. QED
  BY <1>1, <1>2, <1>3 DEF t

\* mid is acts, or acts with a native caller on top.
LEMMA InvokeChains ==
    ASSUME TypeOK, NEW mid \in Seq(Activation), ChainOf(mid, resolver),
           NEW d \in Nat, NEW a \in Asms, NEW g \in Guards, Invoke(mid, d, a, g)
    PROVE  Chained'
<1>1. CASE d > MaxDepth
  BY <1>1 DEF Invoke, Chained
<1>2. CASE ~(d > MaxDepth)
  <2>1. /\ Method(a, d, g) \in Activation
        /\ Method(a, d, g).prev = resolver /\ Method(a, d, g).asm = a
    BY NewActivations DEF Method
  <2>2. acts' = Append(mid, Method(a, d, g)) /\ resolver' = a
    BY <1>2 DEF Invoke
  <2>3. ChainOf(Append(mid, Method(a, d, g)), a)
    BY <2>1, PushedChain
  <2>4. QED
    BY <2>2, <2>3 DEF Chained
<1>3. QED
  BY <1>1, <1>2

\* A native caller sees the resolvers of the method that called it.
LEMMA NativeChains ==
    ASSUME TypeOK, Chained, NEW k \in {"task", "ctor", "cctor", "new"},
           NEW d \in Nat, NEW n \in Nat
    PROVE  /\ Append(acts, Native(k, d, n)) \in Seq(Activation)
           /\ ChainOf(Append(acts, Native(k, d, n)), resolver)
<1>1. /\ Native(k, d, n) \in Activation
      /\ Native(k, d, n).prev = resolver /\ Native(k, d, n).asm = resolver
  BY NewActivations DEF Native
<1>2. QED
  BY <1>1, PushedChain DEF TypeOK, Chained

LEMMA MarkChains ==
    ASSUME TypeOK, Chained, acts # <<>>, NEW p \in Phases, InPhase(p), resolver' = resolver
    PROVE  acts' \in Seq(Activation) /\ Chained'
<1> DEFINE n == Len(acts)
           x == [acts[n] EXCEPT !.phase = p]
<1>1. n \in 1..Len(acts) /\ acts[n] \in Activation
  BY DEF TypeOK
<1>2. x \in Activation /\ x.asm = acts[n].asm /\ x.prev = acts[n].prev
  BY <1>1 DEF Activation
<1>3. acts' = [acts EXCEPT ![n] = x]
  BY DEF InPhase
<1> HIDE DEF x
<1>4. /\ acts' \in Seq(Activation) /\ Len(acts') = Len(acts) /\ acts' # <<>>
      /\ \A j \in 1..Len(acts) : /\ acts'[j].asm = acts[j].asm
                                /\ acts'[j].prev = acts[j].prev
  BY <1>1, <1>2, <1>3 DEF TypeOK
<1>5. 1 \in 1..Len(acts) /\ \A i \in 1..(Len(acts) - 1) : i \in 1..Len(acts) /\ i + 1 \in 1..Len(acts)
  BY DEF TypeOK
<1>6. QED
  BY <1>1, <1>4, <1>5 DEF Chained, ChainOf

\* The chain below activation i, with what i restores.
LEMMA CutChain ==
    ASSUME NEW s \in Seq(Activation), NEW r, ChainOf(s, r), NEW i \in 1..Len(s),
           NEW t \in Seq(Activation), Len(t) = i - 1, \A j \in 1..(i - 1) : t[j] = s[j]
    PROVE  ChainOf(t, s[i].prev)
<1>0. /\ Len(s) \in Nat /\ Len(t) \in Nat /\ i \in Nat /\ s # <<>>
      /\ t = <<>> <=> Len(t) = 0
  OBVIOUS
<1>1. CASE i = 1
  BY <1>0, <1>1 DEF ChainOf
<1>2. CASE i # 1
  <2>1. i - 1 \in 1..(Len(s) - 1) /\ i - 1 \in 1..(i - 1) /\ 1 \in 1..(i - 1) /\ t # <<>>
    BY <1>0, <1>2
  <2>2. s[i].prev = t[Len(t)].asm
    <3>1. s[(i - 1) + 1].prev = s[i - 1].asm
      BY <2>1 DEF ChainOf
    <3>2. (i - 1) + 1 = i
      BY <1>0
    <3>3. QED
      BY <2>1, <3>1, <3>2
  <2>3. t[1].prev = Root
    BY <1>0, <2>1 DEF ChainOf
  <2>4. ASSUME NEW j \in 1..(Len(t) - 1)
        PROVE  t[j + 1].prev = t[j].asm
    <3>1. j \in 1..(i - 1) /\ j + 1 \in 1..(i - 1) /\ j \in 1..(Len(s) - 1)
      BY <1>0
    <3>2. QED
      BY <3>1 DEF ChainOf
  <2>5. QED
    BY <2>1, <2>2, <2>3, <2>4 DEF ChainOf
<1>3. QED
  BY <1>1, <1>2

LEMMA CutChains ==
    ASSUME TypeOK, Chained, NEW i \in DOMAIN acts,
           acts' = SubSeq(acts, 1, i - 1), resolver' = acts[i].prev
    PROVE  acts' \in Seq(Activation) /\ resolver' \in Asms /\ Chained'
<1> DEFINE t == SubSeq(acts, 1, i - 1)
<1>1. /\ acts \in Seq(Activation) /\ i \in 1..Len(acts)
      /\ t \in Seq(Activation) /\ Len(t) = i - 1
      /\ \A j \in 1..(i - 1) : t[j] = acts[j]
  BY DEF TypeOK
<1>2. resolver' \in Asms
  <2>1. acts[i] \in Activation
    BY <1>1
  <2>2. QED
    BY <2>1, Fields
<1> HIDE DEF t
<1>3. ChainOf(t, acts[i].prev)
  BY <1>1, CutChain DEF Chained
<1>4. QED
  BY <1>1, <1>2, <1>3 DEF Chained, t

-----------------------------------------------------------------------------
(* Every action                                                            *)

LEMMA InitIInv == Init => IInv
<1>1. <<>> \in Seq(Activation)
  OBVIOUS
<1>2. QED
  BY <1>1, CallChainAssumption DEF Init, IInv, TypeOK, Chained, ChainOf, Idle

LEMMA EnterKeeps ==
    ASSUME IInv, NEW a \in Asms, NEW g \in Guards, NEW d \in {0, 1}, Enter(d, a, g)
    PROVE  IInv'
<1>1. /\ Invoke(<<>>, d, a, g) /\ count' = count /\ stage' = "running"
      /\ acts = <<>> /\ d \in Nat
  BY DEF Enter, IInv, Idle
<1>2. <<>> \in Seq(Activation) /\ ChainOf(<<>>, resolver)
  BY <1>1 DEF IInv, Chained
<1>3. /\ acts' \in Seq(Activation) /\ resolver' \in Asms
      /\ err' \in Errors \union {NoErr}
  BY <1>1, <1>2, InvokeTypes DEF IInv
<1>4. Chained'
  BY <1>1, <1>2, InvokeChains DEF IInv
<1>5. QED
  BY <1>1, <1>3, <1>4 DEF IInv, TypeOK, Idle

\* The top of a chain that runs.
LEMMA TopTypes ==
    ASSUME TypeOK, acts # <<>>
    PROVE  /\ Len(acts) \in DOMAIN acts /\ Top \in Activation
           /\ Top = acts[Len(acts)]
           /\ Below = SubSeq(acts, 1, Len(acts) - 1)
BY DEF TypeOK, Top, Below

LEMMA CallKeeps ==
    ASSUME IInv, NEW a \in Asms, NEW g \in Guards, Call(a, g)
    PROVE  IInv'
<1>1. /\ stage = "running" /\ acts # <<>> /\ Invoke(acts, Top.depth + 1, a, g)
      /\ count' = count + 1 /\ stage' = stage
  BY DEF Call, Fetch
<1>2. Top.depth + 1 \in Nat
  BY <1>1, TopTypes DEF IInv, Activation
<1>3. /\ acts' \in Seq(Activation) /\ resolver' \in Asms
      /\ err' \in Errors \union {NoErr}
  BY <1>1, <1>2, InvokeTypes DEF IInv, TypeOK
<1>4. Chained'
  BY <1>1, <1>2, InvokeChains DEF IInv, TypeOK, Chained
<1>5. QED
  BY <1>1, <1>3, <1>4 DEF IInv, TypeOK, Idle

\* A call through native code of kind k, with depth d and saved counter n.
LEMMA NativeKeeps ==
    ASSUME IInv, NEW a \in Asms, NEW g \in Guards, NEW d \in Nat, NEW e \in Nat,
           NEW n \in Nat, NEW k \in {"task", "ctor", "cctor", "new"},
           Invoke(Append(acts, Native(k, d, n)), e, a, g),
           count' \in Nat, stage = "running", stage' = stage
    PROVE  IInv'
<1>1. /\ Append(acts, Native(k, d, n)) \in Seq(Activation)
      /\ ChainOf(Append(acts, Native(k, d, n)), resolver)
  BY NativeChains DEF IInv
<1>2. /\ acts' \in Seq(Activation) /\ resolver' \in Asms
      /\ err' \in Errors \union {NoErr}
  BY <1>1, InvokeTypes DEF IInv
<1>3. Chained'
  BY <1>1, InvokeChains DEF IInv
<1>4. QED
  BY <1>2, <1>3 DEF IInv, TypeOK, Idle

LEMMA CallThroughKeeps ==
    ASSUME IInv, NEW a \in Asms, NEW g \in Guards,
           NEW k \in {"task", "ctor", "cctor", "new"}, CallThrough(k, a, g)
    PROVE  IInv'
<1>1. /\ stage = "running" /\ acts # <<>>
      /\ Invoke(Append(acts, Native(k, Top.depth, 0)), Top.depth + 1, a, g)
      /\ count' = count + 1 /\ stage' = stage
  BY DEF CallThrough, Fetch
<1>2. Top.depth \in Nat /\ Top.depth + 1 \in Nat /\ count' \in Nat
  BY <1>1, TopTypes DEF IInv, Activation, TypeOK
<1>3. QED
  BY <1>1, <1>2, NativeKeeps

LEMMA ConstructKeeps ==
    ASSUME IInv, NEW a \in Asms, NEW g \in Guards, Construct(a, g)
    PROVE  IInv'
<1>1. /\ stage = "running"
      /\ Invoke(Append(acts, Native("new", 0, count + 1)), 1, a, g)
      /\ count' = 0 /\ stage' = stage
  BY DEF Construct, Fetch
<1>2. count + 1 \in Nat
  BY DEF IInv, TypeOK
<1>3. QED
  BY <1>1, <1>2, NativeKeeps

\* A step that only begins or changes an error.
LEMMA ErrorKeeps ==
    ASSUME IInv, err' \in Errors \union {NoErr}, count' \in Nat,
           stage' \in {"running", "over", "dead"}, UNCHANGED <<acts, resolver>>
    PROVE  IInv'
BY DEF IInv, TypeOK, Idle, Chained

\* A step that ends the activations from i on.
LEMMA CutKeeps ==
    ASSUME IInv, NEW i \in DOMAIN acts, acts' = SubSeq(acts, 1, i - 1),
           resolver' = acts[i].prev, err' \in Errors \union {NoErr}, count' \in Nat,
           stage' = stage
    PROVE  IInv'
<1>1. acts # <<>>
  OBVIOUS
<1>2. stage' \in {"running", "over", "dead"}
  BY <1>1 DEF IInv, TypeOK, Idle
<1>3. /\ acts' \in Seq(Activation) /\ resolver' \in Asms /\ Chained'
  BY CutChains DEF IInv
<1>4. QED
  BY <1>2, <1>3 DEF IInv, TypeOK, Idle

LEMMA PopKeeps ==
    ASSUME IInv, acts # <<>>, acts' = Below, resolver' = Top.prev,
           err' \in Errors \union {NoErr}, count' \in Nat, stage' = stage
    PROVE  IInv'
<1>1. /\ Len(acts) \in DOMAIN acts /\ Top = acts[Len(acts)]
      /\ Below = SubSeq(acts, 1, Len(acts) - 1)
  BY TopTypes DEF IInv
<1>2. QED
  BY <1>1, CutKeeps

LEMMA MarkKeeps ==
    ASSUME IInv, acts # <<>>, NEW p \in Phases, InPhase(p), resolver' = resolver,
           err' \in Errors \union {NoErr}, count' \in Nat, stage' = stage
    PROVE  IInv'
<1>1. stage' \in {"running", "over", "dead"}
  BY DEF IInv, TypeOK, Idle
<1>2. acts' \in Seq(Activation) /\ Chained'
  BY MarkChains DEF IInv
<1>3. QED
  BY <1>1, <1>2 DEF IInv, TypeOK, Idle

\* Every error the actions make is one.
LEMMA ErrorKinds ==
    /\ \A k \in {"managed", "stack", "size", "error", "instrs"} : Err(k) \in Errors
    /\ \A k \in {"task", "ctor", "cctor", "new"} :
          err \in Errors => Passed(k) \in Errors \union {NoErr}
<1>1. \A k \in {"managed", "stack", "size", "error", "instrs"} : Err(k) \in Errors
  BY DEF Err, Errors, Kinds, Limits
<1>2. err \in Errors => [err EXCEPT !.wrapped = TRUE] \in Errors
  BY DEF Errors
<1>3. QED
  BY <1>1, <1>2 DEF Passed

LEMMA NextIInv == IInv /\ [Next]_vars => IInv'
<1> SUFFICES ASSUME IInv, [Next]_vars PROVE IInv'
  OBVIOUS
<1> USE DEF IInv
<1>0. /\ count \in Nat /\ count + 1 \in Nat /\ err \in Errors \union {NoErr}
      /\ stage \in {"ready", "running", "over", "dead"} /\ NoErr \in Errors \union {NoErr}
  BY DEF TypeOK
<1>1. ASSUME NEW a \in Asms, NEW g \in Guards, NEW d \in {0, 1}, Enter(d, a, g)
      PROVE  IInv'
  BY <1>1, EnterKeeps
<1>2. ASSUME NEW a \in Asms, NEW g \in Guards, Call(a, g) PROVE IInv'
  BY <1>2, CallKeeps
<1>3. ASSUME NEW a \in Asms, NEW g \in Guards,
             RunTask(a, g) \/ NewStruct(a, g) \/ RunCctor(a, g)
      PROVE  IInv'
  <2>1. PICK k \in {"task", "ctor", "cctor", "new"} : CallThrough(k, a, g)
    BY <1>3 DEF RunTask, NewStruct, RunCctor
  <2>2. QED
    BY <2>1, CallThroughKeeps
<1>4. ASSUME NEW a \in Asms, NEW g \in Guards, Construct(a, g) PROVE IInv'
  BY <1>4, ConstructKeeps
<1>5. ASSUME NEW k \in {"managed", "stack", "size", "error"}, Raise(k) PROVE IInv'
  BY <1>0, <1>5, ErrorKinds, ErrorKeeps DEF Raise, Fetch
<1>6. CASE InstrLimit
  BY <1>0, <1>6, ErrorKinds, ErrorKeeps DEF InstrLimit
<1>7. ASSUME NEW i \in DOMAIN acts, Panic(i) PROVE IInv'
  BY <1>0, <1>7, ErrorKinds, CutKeeps DEF Panic
<1>8. CASE Leave
  <2>1. "finally" \in Phases
    BY DEF Phases
  <2>2. QED
    BY <1>0, <1>8, <2>1, MarkKeeps DEF Leave, Fetch
<1>9. CASE Return
  BY <1>0, <1>9, PopKeeps DEF Return, Fetch
<1>10. CASE EndFinally
  BY <1>0, <1>10, ErrorKinds, PopKeeps DEF EndFinally, Fetch
<1>11. CASE Dispatch
  <2>1. PICK p \in Phases : InPhase(p)
    BY <1>11 DEF Dispatch, Phases
  <2>2. QED
    BY <1>0, <1>11, <2>1, MarkKeeps DEF Dispatch
<1>12. CASE Pop
  BY <1>0, <1>12, PopKeeps DEF Pop
<1>13. CASE NativeEnds
  <2>1. Top \in Activation /\ acts # <<>> /\ Top.kind # "method"
    BY <1>13, TopTypes DEF NativeEnds
  <2>2. Top.kind \in {"task", "ctor", "cctor", "new"} /\ Top.saved \in Nat
    BY <2>1 DEF Activation
  <2>3. err' \in Errors \union {NoErr}
    <3>1. CASE err = NoErr
      BY <1>13, <3>1 DEF NativeEnds
    <3>2. CASE err # NoErr
      BY <1>0, <1>13, <2>2, <3>2, ErrorKinds DEF NativeEnds
    <3>3. QED
      BY <3>1, <3>2
  <2>4. count' \in Nat
    BY <1>0, <1>13, <2>2 DEF NativeEnds
  <2>5. QED
    BY <1>13, <2>1, <2>3, <2>4, PopKeeps DEF NativeEnds
<1>14. CASE Exit \/ Overflow
  BY <1>0, <1>14, ErrorKeeps DEF Exit, Overflow, Fetch
<1>15. CASE UNCHANGED vars
  BY <1>15 DEF vars, TypeOK, Chained, Idle
<1>16. QED
  BY <1>1, <1>2, <1>3, <1>4, <1>5, <1>6, <1>7, <1>8, <1>9, <1>10, <1>11, <1>12,
     <1>13, <1>14, <1>15 DEF Next

THEOREM Inductive == Spec => []IInv
<1>1. QED
  BY InitIInv, NextIInv, PTL DEF Spec

-----------------------------------------------------------------------------
(* The theorems                                                            *)

\* The variables of the call chain keep their types, for every set of assemblies,
\* every limit and every kind of native caller.
THEOREM TypeCorrect == Spec => []TypeOK
<1>1. IInv => TypeOK
  BY DEF IInv
<1>2. QED
  BY <1>1, Inductive, PTL

\* Whatever way the activations above it ended, an activation goes on with its own
\* assembly's resolvers (the deferred restore of invoke, eval.go:340-354).
THEOREM ResolversAreRestored == Spec => []ResolverIsMine
<1>1. IInv => ResolverIsMine
  BY DEF IInv, Chained, ChainOf, ResolverIsMine, Top
<1>2. QED
  BY <1>1, Inductive, PTL

-----------------------------------------------------------------------------
(* The bound on the call depth                                             *)

\* No construction by reflection above i up to j.
NoNew(s, i, j) == \A l \in (i + 1)..j : s[l].kind # "new"

\* The depths of a chain of activations rise as they should.
RisingOf(s) ==
    /\ \A i \in DOMAIN s : s[i].kind = "method" => s[i].depth <= MaxDepth
    /\ \A i, j \in DOMAIN s :
          i < j /\ NoNew(s, i, j) =>
                   /\ s[i].depth <= s[j].depth
                   /\ s[j].kind = "method" => s[i].depth < s[j].depth

LEMMA PushRises ==
    ASSUME NEW s \in Seq(Activation), RisingOf(s), NEW x \in Activation,
           s # <<>> /\ x.kind # "new" => x.depth >= s[Len(s)].depth,
           x.kind = "method" => /\ x.depth <= MaxDepth
                                /\ s # <<>> => x.depth > s[Len(s)].depth
    PROVE  RisingOf(Append(s, x))
<1> DEFINE t == Append(s, x)
<1>1. /\ DOMAIN t = 1..(Len(s) + 1) /\ DOMAIN s = 1..Len(s) /\ Len(s) \in Nat
      /\ t[Len(s) + 1] = x
      /\ \A j \in 1..Len(s) : t[j] = s[j]
  OBVIOUS
<1> HIDE DEF t
<1>2. \A i \in 1..Len(s) : s[i].depth \in Nat /\ x.depth \in Nat
  <2>1. \A i \in 1..Len(s) : s[i] \in Activation
    OBVIOUS
  <2>2. QED
    BY <2>1, Fields
<1>3. ASSUME NEW i \in DOMAIN s, NoNew(s, i, Len(s)), x.kind # "new"
      PROVE  x.depth >= s[i].depth /\ (x.kind = "method" => x.depth > s[i].depth)
  <2>1. Len(s) \in DOMAIN s /\ s # <<>> /\ i <= Len(s)
    BY <1>1
  <2>2. s[i].depth <= s[Len(s)].depth
    <3>1. CASE i = Len(s)
      BY <1>1, <1>2, <3>1
    <3>2. CASE i # Len(s)
      BY <1>1, <1>3, <2>1, <3>2 DEF RisingOf
    <3>3. QED
      BY <3>1, <3>2
  <2>3. s[Len(s)].depth \in Nat
    BY <1>1, <1>2, <2>1
  <2>4. QED
    BY <1>1, <1>2, <1>3, <2>1, <2>2, <2>3
<1>4. \A i \in DOMAIN t : t[i].kind = "method" => t[i].depth <= MaxDepth
  BY <1>1 DEF RisingOf
<1>5. ASSUME NEW i \in DOMAIN t, NEW j \in DOMAIN t, i < j, NoNew(t, i, j)
      PROVE  /\ t[i].depth <= t[j].depth
             /\ t[j].kind = "method" => t[i].depth < t[j].depth
  <2>1. i \in DOMAIN s /\ t[i] = s[i]
    BY <1>1, <1>5
  <2>2. CASE j = Len(s) + 1
    <3>1. NoNew(s, i, Len(s)) /\ x.kind # "new"
      BY <1>1, <1>5, <2>1, <2>2 DEF NoNew
    <3>2. QED
      BY <1>1, <1>2, <1>3, <2>1, <2>2, <3>1
  <2>3. CASE j # Len(s) + 1
    <3>1. j \in DOMAIN s /\ t[j] = s[j]
      BY <1>1, <2>3
    <3>2. NoNew(s, i, j)
      BY <1>1, <1>5, <2>1, <3>1 DEF NoNew
    <3>3. QED
      BY <1>5, <2>1, <3>1, <3>2 DEF RisingOf
  <2>4. QED
    BY <2>2, <2>3
<1>6. QED
  BY <1>4, <1>5 DEF RisingOf, t

\* invoke pushes a method only below the limit, deeper than all the others.
LEMMA InvokeRises ==
    ASSUME TypeOK, NEW mid \in Seq(Activation), RisingOf(mid), NEW d \in Nat,
           mid # <<>> => d > mid[Len(mid)].depth,
           NEW a \in Asms, NEW g \in Guards, Invoke(mid, d, a, g)
    PROVE  RisingOf(acts')
<1>1. CASE d > MaxDepth
  BY <1>1 DEF Invoke
<1>2. CASE ~(d > MaxDepth)
  <2>1. /\ Method(a, d, g) \in Activation
        /\ Method(a, d, g).depth = d /\ Method(a, d, g).kind = "method"
    BY NewActivations DEF Method
  <2>2. d <= MaxDepth /\ acts' = Append(mid, Method(a, d, g))
    BY <1>2, CallChainAssumption DEF Invoke
  <2>3. mid # <<>> => mid[Len(mid)].depth \in Nat
    <3>1. mid # <<>> => mid[Len(mid)] \in Activation
      OBVIOUS
    <3>2. QED
      BY <3>1, Fields
  <2>4. mid # <<>> => d >= mid[Len(mid)].depth
    BY <2>3
  <2>5. RisingOf(Append(mid, Method(a, d, g)))
    BY <2>1, <2>2, <2>4, PushRises
  <2>6. QED
    BY <2>2, <2>5
<1>3. QED
  BY <1>1, <1>2

LEMMA CutRises ==
    ASSUME TypeOK, RisingOf(acts), NEW i \in DOMAIN acts, acts' = SubSeq(acts, 1, i - 1)
    PROVE  RisingOf(acts')
<1> DEFINE t == SubSeq(acts, 1, i - 1)
<1>1. /\ DOMAIN t = 1..(i - 1) /\ DOMAIN t \subseteq DOMAIN acts /\ i \in Nat
      /\ \A j \in DOMAIN t : t[j] = acts[j]
  BY DEF TypeOK
<1> HIDE DEF t
<1>2. \A j, k \in DOMAIN t : NoNew(t, j, k) => NoNew(acts, j, k)
  BY <1>1 DEF NoNew
<1>r. RisingOf(t)
  BY <1>1, <1>2 DEF RisingOf
<1>3. QED
  BY <1>r DEF t

LEMMA MarkRises ==
    ASSUME TypeOK, RisingOf(acts), acts # <<>>, NEW p \in Phases, InPhase(p)
    PROVE  RisingOf(acts')
<1> DEFINE n == Len(acts)
           x == [acts[n] EXCEPT !.phase = p]
<1>1. n \in DOMAIN acts /\ acts[n] \in Activation
  BY DEF TypeOK
<1>2. x.depth = acts[n].depth /\ x.kind = acts[n].kind
  BY <1>1 DEF Activation
<1>3. acts' = [acts EXCEPT ![n] = x]
  BY DEF InPhase
<1> HIDE DEF x
<1>4. /\ DOMAIN acts' = DOMAIN acts
      /\ \A j \in DOMAIN acts : acts'[j].depth = acts[j].depth /\ acts'[j].kind = acts[j].kind
  BY <1>1, <1>2, <1>3 DEF TypeOK
<1>5. \A j, k \in DOMAIN acts : NoNew(acts', j, k) => NoNew(acts, j, k)
  BY <1>4 DEF NoNew, TypeOK
<1>6. QED
  BY <1>4, <1>5 DEF RisingOf

LEMMA NextRises ==
    ASSUME IInv, RisingOf(acts), [Next]_vars
    PROVE  RisingOf(acts')
<1>0. TypeOK /\ acts \in Seq(Activation)
  BY DEF IInv, TypeOK
<1>1. ASSUME NEW a \in Asms, NEW g \in Guards, NEW d \in {0, 1}, Enter(d, a, g)
      PROVE  RisingOf(acts')
  <2>1. Invoke(<<>>, d, a, g) /\ d \in Nat
    BY <1>1 DEF Enter
  <2>2. <<>> \in Seq(Activation) /\ RisingOf(<<>>)
    BY DEF RisingOf
  <2>3. QED
    BY <1>0, <2>1, <2>2, InvokeRises
<1>2. ASSUME NEW a \in Asms, NEW g \in Guards, Call(a, g) PROVE RisingOf(acts')
  <2>1. acts # <<>> /\ Invoke(acts, Top.depth + 1, a, g)
    BY <1>2 DEF Call, Fetch
  <2>2. Top = acts[Len(acts)] /\ Top.depth \in Nat
    BY <1>0, <2>1, TopTypes DEF Activation
  <2>3. Top.depth + 1 \in Nat /\ Top.depth + 1 > acts[Len(acts)].depth
    BY <2>2
  <2>4. QED
    BY <1>0, <2>1, <2>3, InvokeRises
<1>3. ASSUME NEW a \in Asms, NEW g \in Guards,
             RunTask(a, g) \/ NewStruct(a, g) \/ RunCctor(a, g)
      PROVE  RisingOf(acts')
  <2>1. PICK k \in {"task", "ctor", "cctor"} : CallThrough(k, a, g)
    BY <1>3 DEF RunTask, NewStruct, RunCctor
  <2> DEFINE b == Native(k, Top.depth, 0)
             mid == Append(acts, b)
  <2>2. acts # <<>> /\ Invoke(mid, Top.depth + 1, a, g)
    BY <2>1 DEF CallThrough, Fetch
  <2>3. Top = acts[Len(acts)] /\ Top.depth \in Nat
    BY <1>0, <2>2, TopTypes DEF Activation
  <2>4. b \in Activation /\ b.depth = Top.depth /\ b.kind # "method"
    BY <1>0, <2>3, NewActivations DEF Native
  <2> HIDE DEF b
  <2>5. mid \in Seq(Activation) /\ mid # <<>> /\ mid[Len(mid)] = b
    BY <1>0, <2>4
  <2>6. RisingOf(mid)
    BY <1>0, <2>3, <2>4, PushRises
  <2>7. Top.depth + 1 \in Nat /\ Top.depth + 1 > mid[Len(mid)].depth
    BY <2>3, <2>4, <2>5
  <2> HIDE DEF mid
  <2>8. QED
    BY <1>0, <2>2, <2>5, <2>6, <2>7, InvokeRises
<1>4. ASSUME NEW a \in Asms, NEW g \in Guards, Construct(a, g) PROVE RisingOf(acts')
  <2> DEFINE b == Native("new", 0, count + 1)
             mid == Append(acts, b)
  <2>1. Invoke(mid, 1, a, g) /\ count + 1 \in Nat
    BY <1>0, <1>4 DEF Construct, TypeOK
  <2>2. b \in Activation /\ b.depth = 0 /\ b.kind = "new"
    BY <1>0, <2>1, NewActivations DEF Native
  <2> HIDE DEF b
  <2>3. mid \in Seq(Activation) /\ mid # <<>> /\ mid[Len(mid)] = b
    BY <1>0, <2>2
  <2>4. RisingOf(mid)
    BY <1>0, <2>2, PushRises
  <2>5. 1 > mid[Len(mid)].depth
    BY <2>2, <2>3
  <2> HIDE DEF mid
  <2>6. QED
    BY <1>0, <2>1, <2>3, <2>4, <2>5, InvokeRises
<1>5. ASSUME NEW k \in {"managed", "stack", "size", "error"}, Raise(k)
      PROVE  RisingOf(acts')
  BY <1>5 DEF Raise
<1>6. CASE InstrLimit
  BY <1>6 DEF InstrLimit
<1>7. ASSUME NEW i \in DOMAIN acts, Panic(i) PROVE RisingOf(acts')
  BY <1>0, <1>7, CutRises DEF Panic
<1>8. CASE Leave \/ Dispatch
  <2>1. PICK p \in Phases : InPhase(p)
    BY <1>8 DEF Leave, Dispatch, Phases
  <2>2. acts # <<>>
    BY <1>8 DEF Leave, Dispatch, Fetch
  <2>3. QED
    BY <1>0, <2>1, <2>2, MarkRises
<1>9. CASE Return \/ EndFinally \/ Pop \/ NativeEnds
  <2>1. acts # <<>> /\ acts' = Below
    BY <1>9 DEF Return, EndFinally, Pop, NativeEnds, Fetch
  <2>2. QED
    BY <1>0, <2>1, TopTypes, CutRises
<1>10. CASE Exit \/ Overflow
  BY <1>10 DEF Exit, Overflow
<1>11. CASE UNCHANGED vars
  BY <1>11 DEF vars
<1>12. QED
  BY <1>1, <1>2, <1>3, <1>4, <1>5, <1>6, <1>7, <1>8, <1>9, <1>10, <1>11 DEF Next

\* The depths of the methods are different numbers up to the limit.
LEMMA RisingBounds ==
    ASSUME TypeOK, RisingOf(acts)
    PROVE  DepthBounded
<1> DEFINE Methods == {i \in DOMAIN acts : Counted(i)}
           f == [i \in Methods |-> acts[i].depth]
<1>1. \A i \in Methods : i \in DOMAIN acts /\ i \in Nat /\ acts[i].depth \in Nat
  <2>1. \A i \in DOMAIN acts : i \in Nat /\ acts[i] \in Activation
    BY DEF TypeOK
  <2>2. QED
    BY <2>1, Fields
<1>2. f \in [Methods -> 0..MaxDepth]
  <2>1. \A i \in Methods : acts[i].depth \in 0..MaxDepth
    BY <1>1, CallChainAssumption DEF RisingOf, Counted
  <2>2. QED
    BY <2>1
<1>3. \A i, j \in Methods : f[i] = f[j] => i = j
  <2>1. ASSUME NEW i \in Methods, NEW j \in Methods, i < j
        PROVE  acts[i].depth < acts[j].depth
    <3>1. acts[j].kind = "method" /\ NoNew(acts, i, j)
      <4>1. \A l \in (i + 1)..j : l \in i..Len(acts)
        BY <1>1 DEF TypeOK
      <4>2. QED
        BY <4>1 DEF Counted, NoNew
    <3>2. QED
      BY <1>1, <2>1, <3>1 DEF RisingOf
  <2>2. \A i, j \in Methods : i = j \/ i < j \/ j < i
    BY <1>1
  <2>3. QED
    BY <1>1, <2>1, <2>2
<1>4. f \in Injection(Methods, 0..MaxDepth)
  BY <1>2, <1>3 DEF Injection, IsInjective
<1>5. IsFiniteSet(0..MaxDepth) /\ Cardinality(0..MaxDepth) = MaxDepth + 1
  BY FS_Interval, CallChainAssumption
<1>6. Cardinality(Methods) <= Cardinality(0..MaxDepth)
  BY <1>4, <1>5, FS_Injection
<1>7. QED
  BY <1>5, <1>6 DEF DepthBounded

\* A call has at most MaxCallDepth + 1 methods on the stack since the host, or a
\* construction by reflection, began it, with any native code in between
\* (eval.go:274-276 and the depth + 1 of every caller of invoke).
THEOREM DepthIsBounded == Spec => []DepthBounded
<1>1. Init => IInv /\ RisingOf(acts)
  BY InitIInv DEF Init, RisingOf
<1>2. (IInv /\ RisingOf(acts)) /\ [Next]_vars => (IInv /\ RisingOf(acts))'
  BY NextIInv, NextRises
<1>3. IInv /\ RisingOf(acts) => DepthBounded
  BY RisingBounds DEF IInv
<1>4. QED
  BY <1>1, <1>2, <1>3, PTL DEF Spec

-----------------------------------------------------------------------------
(* No error is simply gone                                                 *)

\* Native callers handle nothing, and the host's call begins without an error.
NativesAreOpen == \A i \in DOMAIN acts : acts[i].kind # "method" => acts[i].phase = "body" /\ acts[i].guard = "none"
Fresh == stage = "ready" => err = NoErr

\* invoke leaves the activations below it as they were.
Grows ==
    /\ acts' \in Seq(Activation) /\ Len(acts') >= Len(acts)
    /\ \A i \in DOMAIN acts : acts'[i] = acts[i]
    /\ \A i \in DOMAIN acts' \ DOMAIN acts :
          acts'[i].kind # "method" => acts'[i].phase = "body" /\ acts'[i].guard = "none"

LEMMA CallGrows ==
    ASSUME TypeOK, NEW d \in Nat, NEW a \in Asms, NEW g \in Guards, Invoke(acts, d, a, g)
    PROVE  Grows
<1> DEFINE m == Method(a, d, g)
<1>1. m \in Activation /\ m.kind = "method"
  BY NewActivations DEF Method
<1>2. acts \in Seq(Activation)
  BY DEF TypeOK
<1>3. acts' = acts \/ acts' = Append(acts, m)
  BY DEF Invoke
<1> HIDE DEF m
<1>4. QED
  BY <1>1, <1>2, <1>3 DEF Grows

LEMMA NativeGrows ==
    ASSUME TypeOK, NEW d \in Nat, NEW e \in Nat, NEW n \in Nat,
           NEW a \in Asms, NEW g \in Guards, NEW k \in {"task", "ctor", "cctor", "new"},
           Invoke(Append(acts, Native(k, d, n)), e, a, g)
    PROVE  Grows
<1> DEFINE m == Method(a, e, g)
           b == Native(k, d, n)
<1>1. m \in Activation /\ m.kind = "method"
  BY NewActivations DEF Method
<1>2. b \in Activation /\ b.phase = "body" /\ b.guard = "none"
  BY NewActivations DEF Native
<1>3. acts \in Seq(Activation)
  BY DEF TypeOK
<1>4. acts' = Append(acts, b) \/ acts' = Append(Append(acts, b), m)
  BY DEF Invoke
<1> HIDE DEF m, b
<1>5. CASE acts' = Append(acts, b)
  BY <1>2, <1>3, <1>5 DEF Grows
<1>6. CASE acts' = Append(Append(acts, b), m)
  <2>1. /\ acts' \in Seq(Activation) /\ Len(acts') = Len(acts) + 2
        /\ acts'[Len(acts) + 1] = b /\ acts'[Len(acts) + 2] = m
        /\ \A i \in 1..Len(acts) : acts'[i] = acts[i]
    BY <1>1, <1>2, <1>3, <1>6
  <2>2. \A i \in DOMAIN acts' \ DOMAIN acts : i = Len(acts) + 1 \/ i = Len(acts) + 2
    BY <1>3, <2>1
  <2>3. QED
    BY <1>1, <1>2, <1>3, <2>1, <2>2 DEF Grows
<1>7. QED
  BY <1>4, <1>5, <1>6

\* A step calls, marks the phase of the innermost method, cuts the chain or leaves it alone.
Calls ==
    \E a \in Asms, g \in Guards :
       \/ \E d \in {0, 1} : Enter(d, a, g)
       \/ Call(a, g) \/ RunTask(a, g) \/ NewStruct(a, g) \/ RunCctor(a, g) \/ Construct(a, g)

LEMMA CallsGrow ==
    ASSUME IInv, Calls
    PROVE  Grows
<1>1. TypeOK /\ acts \in Seq(Activation)
  BY DEF IInv, TypeOK
<1>2. ASSUME NEW a \in Asms, NEW g \in Guards, NEW d \in {0, 1}, Enter(d, a, g)
      PROVE  Grows
  <2>1. acts = <<>> /\ d \in Nat /\ Invoke(<<>>, d, a, g)
    BY <1>2 DEF Enter, IInv, Idle
  <2>2. Invoke(acts, d, a, g)
    BY <2>1
  <2>3. QED
    BY <1>1, <2>1, <2>2, CallGrows
<1>3. ASSUME NEW a \in Asms, NEW g \in Guards, Call(a, g) PROVE Grows
  <2>1. acts # <<>> /\ Invoke(acts, Top.depth + 1, a, g)
    BY <1>3 DEF Call, Fetch
  <2>2. Top.depth + 1 \in Nat
    BY <1>1, <2>1, TopTypes DEF Activation
  <2>3. QED
    BY <1>1, <2>1, <2>2, CallGrows
<1>4. ASSUME NEW a \in Asms, NEW g \in Guards, NEW k \in {"task", "ctor", "cctor"}, CallThrough(k, a, g)
      PROVE  Grows
  <2>1. acts # <<>> /\ Invoke(Append(acts, Native(k, Top.depth, 0)), Top.depth + 1, a, g)
    BY <1>4 DEF CallThrough, Fetch
  <2>2. Top.depth \in Nat /\ Top.depth + 1 \in Nat
    BY <1>1, <2>1, TopTypes DEF Activation
  <2>3. QED
    BY <1>1, <2>1, <2>2, NativeGrows
<1>5. ASSUME NEW a \in Asms, NEW g \in Guards, Construct(a, g) PROVE Grows
  BY <1>1, <1>5, NativeGrows DEF Construct, TypeOK
<1>6. QED
  BY <1>2, <1>3, <1>4, <1>5 DEF Calls, RunTask, NewStruct, RunCctor

\* What marking the phase of the innermost method changes.
LEMMA MarkFacts ==
    ASSUME TypeOK, acts # <<>>, NEW p \in Phases, InPhase(p)
    PROVE  /\ acts' \in Seq(Activation) /\ Len(acts') = Len(acts) /\ Len(acts) \in DOMAIN acts
           /\ acts'[Len(acts)] = [Top EXCEPT !.phase = p] /\ acts'[Len(acts)].phase = p
           /\ acts'[Len(acts)].kind = Top.kind /\ Len(acts) \in DOMAIN acts'
           /\ \A i \in 1..(Len(acts) - 1) : i \in DOMAIN acts' /\ acts'[i] = acts[i]
<1> DEFINE n == Len(acts)
           x == [acts[n] EXCEPT !.phase = p]
<1>1. n \in 1..Len(acts) /\ acts[n] \in Activation /\ acts \in Seq(Activation)
  BY DEF TypeOK
<1>2. x \in Activation /\ x.phase = p /\ x.kind = acts[n].kind
  BY <1>1 DEF Activation
<1>3. acts' = [acts EXCEPT ![n] = x]
  BY DEF InPhase
<1> HIDE DEF x
<1>4. /\ acts' \in Seq(Activation) /\ Len(acts') = n /\ acts'[n] = x /\ n \in DOMAIN acts'
      /\ \A i \in 1..(n - 1) : i \in DOMAIN acts' /\ acts'[i] = acts[i]
  BY <1>1, <1>2, <1>3
<1>5. QED
  BY <1>1, <1>2, <1>4 DEF x, Top

LEMMA CutFacts ==
    ASSUME TypeOK, NEW i \in DOMAIN acts, acts' = SubSeq(acts, 1, i - 1)
    PROVE  /\ DOMAIN acts' = 1..(i - 1) /\ DOMAIN acts' \subseteq DOMAIN acts
           /\ Len(acts') = i - 1 /\ \A j \in DOMAIN acts' : acts'[j] = acts[j]
BY DEF TypeOK

LEMMA BelowFacts ==
    ASSUME TypeOK, acts # <<>>, acts' = Below
    PROVE  /\ DOMAIN acts' = 1..(Len(acts) - 1) /\ DOMAIN acts' \subseteq DOMAIN acts
           /\ \A j \in DOMAIN acts' : acts'[j] = acts[j]
<1>1. Len(acts) \in DOMAIN acts /\ Below = SubSeq(acts, 1, Len(acts) - 1)
  BY TopTypes
<1>2. QED
  BY <1>1, CutFacts

Marks == Leave \/ Dispatch
Cuts == (\E i \in DOMAIN acts : Panic(i)) \/ Return \/ EndFinally \/ Pop \/ NativeEnds
Begins == (\E k \in {"managed", "stack", "size", "error"} : Raise(k)) \/ InstrLimit

LEMMA StepKinds == [Next]_vars => Calls \/ Marks \/ Cuts \/ Begins \/ Exit \/ Overflow \/ UNCHANGED vars
BY DEF Next, Calls, Marks, Cuts, Begins

\* The activations below the innermost go with a cut or stay.
LEMMA CutsFacts ==
    ASSUME TypeOK, Cuts
    PROVE  DOMAIN acts' \subseteq DOMAIN acts /\ \A j \in DOMAIN acts' : acts'[j] = acts[j]
<1>1. ASSUME NEW i \in DOMAIN acts, Panic(i)
      PROVE  DOMAIN acts' \subseteq DOMAIN acts /\ \A j \in DOMAIN acts' : acts'[j] = acts[j]
  BY <1>1, CutFacts DEF Panic
<1>2. CASE Return \/ EndFinally \/ Pop \/ NativeEnds
  <2>1. acts # <<>> /\ acts' = Below
    BY <1>2 DEF Return, EndFinally, Pop, NativeEnds, Fetch
  <2>2. QED
    BY <2>1, BelowFacts
<1>3. QED
  BY <1>1, <1>2 DEF Cuts

LEMMA MarksFacts ==
    ASSUME TypeOK, Marks
    PROVE  acts # <<>> /\ Top.kind = "method" /\ \E p \in Phases : InPhase(p)
BY DEF Marks, Leave, Dispatch, Fetch, Phases

LEMMA NextOpen ==
    ASSUME IInv, NativesAreOpen, [Next]_vars
    PROVE  NativesAreOpen'
<1>1. TypeOK
  BY DEF IInv
<1>2. CASE Calls
  BY <1>2, CallsGrow DEF Grows, NativesAreOpen
<1>3. CASE Marks
  <2>1. PICK p \in Phases : InPhase(p)
    BY <1>1, <1>3, MarksFacts
  <2>2. acts # <<>> /\ Top.kind = "method"
    BY <1>1, <1>3, MarksFacts
  <2>3. /\ DOMAIN acts' = DOMAIN acts /\ DOMAIN acts = 1..Len(acts) /\ Len(acts) \in Nat
        /\ acts'[Len(acts)].kind = "method"
        /\ \A i \in 1..(Len(acts) - 1) : acts'[i] = acts[i]
    <3>1. /\ acts' \in Seq(Activation) /\ Len(acts') = Len(acts) /\ acts'[Len(acts)].kind = Top.kind
          /\ \A i \in 1..(Len(acts) - 1) : acts'[i] = acts[i]
      BY <1>1, <2>1, <2>2, MarkFacts
    <3>2. acts \in Seq(Activation)
      BY <1>1 DEF TypeOK
    <3>3. QED
      BY <2>2, <3>1, <3>2
  <2>4. QED
    BY <2>3 DEF NativesAreOpen
<1>4. CASE Cuts
  BY <1>1, <1>4, CutsFacts DEF NativesAreOpen
<1>5. CASE Begins \/ Exit \/ Overflow \/ UNCHANGED vars
  BY <1>5 DEF Begins, Raise, InstrLimit, Exit, Overflow, vars, NativesAreOpen
<1>6. QED
  BY <1>2, <1>3, <1>4, <1>5, StepKinds

LEMMA NextFresh ==
    ASSUME IInv, Fresh, [Next]_vars
    PROVE  Fresh'
<1>1. CASE Calls
  <2>1. stage' # "ready"
    BY <1>1 DEF Calls, Enter, Call, RunTask, NewStruct, RunCctor, CallThrough, Construct, Fetch
  <2>2. QED
    BY <2>1 DEF Fresh
<1>2. CASE Marks \/ Cuts \/ Begins
  <2>1. acts # <<>> /\ stage' = stage
    BY <1>2 DEF Marks, Leave, Dispatch, Cuts, Panic, Return, EndFinally, Pop, NativeEnds, Begins,
                Raise, InstrLimit, Fetch
  <2>2. QED
    BY <2>1 DEF IInv, Idle, Fresh
<1>3. CASE Exit \/ Overflow \/ UNCHANGED vars
  BY <1>3 DEF Exit, Overflow, Fetch, vars, Fresh
<1>4. QED
  BY <1>1, <1>2, <1>3, StepKinds

Open == IInv /\ NativesAreOpen /\ Fresh

\* A call begins when there is no error.
LEMMA CallsAreQuiet == ASSUME Open, Calls PROVE err = NoErr
BY DEF Open, Fresh, Calls, Enter, Call, RunTask, NewStruct, RunCctor, CallThrough, Construct, Fetch

LEMMA ErrNames ==
    /\ NoErr.kind = "none" /\ \A k \in Kinds : Err(k).kind = k /\ Err(k) # NoErr
    /\ err \in Errors => err.kind \in Kinds /\ err # NoErr /\ [err EXCEPT !.wrapped = TRUE].kind = err.kind
BY DEF NoErr, Err, Errors, Kinds, Limits

LEMMA LimitStep ==
    ASSUME Open, [Next]_vars, err.kind \in Limits, ~MayDrop
    PROVE  err'.kind \in Limits
<1>1. err # NoErr /\ err \in Errors
  BY DEF Limits, NoErr, Open, IInv, TypeOK
<1>2. ~Calls /\ ~Begins
  BY <1>1, CallsAreQuiet DEF Begins, Raise, InstrLimit, Fetch
<1>3. CASE NativeEnds
  <2>1. Top.kind \in {"task", "ctor", "cctor", "new"} /\ acts # <<>>
    BY <1>3, TopTypes DEF NativeEnds, Open, IInv, Activation
  <2>2. Top.kind # "ctor" /\ (Top.kind = "task" => err \in {Err("instrs"), Err("stack")})
    BY <2>1 DEF MayDrop
  <2>3. err' = err \/ err' = [err EXCEPT !.wrapped = TRUE]
    BY <1>1, <1>3, <2>1, <2>2 DEF NativeEnds, Passed
  <2>4. QED
    BY <1>1, <2>3, ErrNames
<1>4. CASE Marks \/ (Cuts /\ ~NativeEnds)
  <2>1. ~Dispatch
    BY ErrNames DEF Dispatch, Dispatchable, Err, Limits
  <2>2. Pop
    BY <1>1, <1>4, <2>1 DEF Marks, Leave, Cuts, Panic, Return, EndFinally, Fetch
  <2>3. QED
    BY <2>2 DEF Pop
<1>5. CASE Exit \/ Overflow \/ UNCHANGED vars
  BY <1>5 DEF Exit, Overflow, vars
<1>6. QED
  BY <1>2, <1>3, <1>4, <1>5, StepKinds DEF Cuts

\* Activations that stay keep their phase.
LEMMA UnwindStays ==
    ASSUME NEW i \in DOMAIN acts, acts[i].phase = "unwind", i \in DOMAIN acts', acts'[i] = acts[i]
    PROVE  InFlight'
BY DEF InFlight

LEMMA HandledStep ==
    ASSUME Open, [Next]_vars, InFlight, ~InFlight', err' = NoErr
    PROVE  Top.guard = "catch" \/ Top.kind \in {"task", "ctor"}
<1>0. TypeOK /\ acts \in Seq(Activation)
  BY DEF Open, IInv, TypeOK
<1>1. ~Calls
  <2> SUFFICES ASSUME Calls PROVE FALSE
    OBVIOUS
  <2>1. err = NoErr
    BY CallsAreQuiet
  <2>2. PICK i \in DOMAIN acts : acts[i].phase = "unwind"
    BY <2>1, ErrNames DEF InFlight
  <2>3. i \in DOMAIN acts' /\ acts'[i] = acts[i]
    BY <1>0, CallsGrow DEF Open, Grows
  <2>4. QED
    BY <2>2, <2>3, UnwindStays
<1>2. ~Begins
  BY ErrNames DEF Begins, Raise, InstrLimit, Kinds, Limits
<1>3. ~Exit /\ ~Overflow /\ ~UNCHANGED vars
  BY DEF Exit, Overflow, vars, InFlight
<1>4. CASE Leave
  <2>1. acts # <<>> /\ Top.phase = "body" /\ InPhase("finally") /\ "finally" \in Phases /\ err = NoErr
    BY <1>4 DEF Leave, Fetch, Phases
  <2>2. PICK i \in DOMAIN acts : acts[i].phase = "unwind"
    BY <2>1, ErrNames DEF InFlight
  <2>3. i \in 1..(Len(acts) - 1)
    BY <1>0, <2>1, <2>2, TopTypes
  <2>4. i \in DOMAIN acts' /\ acts'[i] = acts[i]
    BY <1>0, <2>1, <2>3, MarkFacts
  <2>5. QED
    BY <2>2, <2>4, UnwindStays
<1>5. CASE Dispatch
  <2>1. acts # <<>>
    BY <1>5 DEF Dispatch
  <2> SUFFICES ASSUME Top.guard # "catch" PROVE FALSE
    OBVIOUS
  <2>2. InPhase("unwind") /\ "unwind" \in Phases
    BY <1>5 DEF Dispatch, Phases
  <2>3. Len(acts) \in DOMAIN acts' /\ acts'[Len(acts)].phase = "unwind"
    BY <1>0, <2>1, <2>2, MarkFacts
  <2>4. QED
    BY <2>3 DEF InFlight
<1>6. CASE \E i \in DOMAIN acts : Panic(i)
  BY <1>6, ErrNames DEF Panic, Kinds
<1>7. CASE EndFinally
  BY <1>7, ErrNames DEF EndFinally, Kinds
<1>8. CASE Pop
  BY <1>8 DEF Pop
\* What is below the innermost activation stays, and that one was not unwinding.
<1>9. ASSUME acts # <<>>, acts' = Below, err = NoErr, Top.phase # "unwind" PROVE FALSE
  <2>1. PICK i \in DOMAIN acts : acts[i].phase = "unwind"
    BY <1>9, ErrNames DEF InFlight
  <2>2. i \in 1..(Len(acts) - 1)
    BY <1>0, <1>9, <2>1, TopTypes
  <2>3. i \in DOMAIN acts' /\ acts'[i] = acts[i]
    BY <1>0, <1>9, <2>2, BelowFacts
  <2>4. QED
    BY <2>1, <2>3, UnwindStays
<1>10. CASE Return
  <2>1. acts # <<>> /\ acts' = Below /\ err = NoErr /\ Top.phase # "unwind"
    BY <1>10 DEF Return, Fetch
  <2>2. QED
    BY <1>9, <2>1
<1>11. CASE NativeEnds
  <2>1. acts # <<>> /\ acts' = Below /\ Top.phase # "unwind"
    BY <1>0, <1>11, TopTypes DEF NativeEnds, Open, NativesAreOpen
  <2>2. CASE err = NoErr
    BY <1>9, <2>1, <2>2
  <2>3. CASE err # NoErr
    <3>1. err \in Errors /\ Top.kind \in {"task", "ctor", "cctor", "new"}
      BY <1>0, <1>11, <2>3, TopTypes DEF NativeEnds, Activation, TypeOK
    <3>2. Top.kind = "cctor" => err' = [err EXCEPT !.wrapped = TRUE]
      BY <1>11, <2>3 DEF NativeEnds, Passed
    <3>3. Top.kind = "new" => err' = err
      BY <1>11, <2>3 DEF NativeEnds, Passed
    <3>4. [err EXCEPT !.wrapped = TRUE] # NoErr
      BY <3>1 DEF Errors, NoErr, Kinds, Limits
    <3>5. QED
      BY <2>3, <3>1, <3>2, <3>3, <3>4
  <2>4. QED
    BY <2>2, <2>3
<1>12. QED
  BY <1>1, <1>2, <1>3, <1>4, <1>5, <1>6, <1>7, <1>8, <1>10, <1>11, StepKinds DEF Marks, Cuts

LEMMA FinallyStep ==
    ASSUME Open, [Next]_vars, err = Err("managed"), acts # <<>>, Top.guard = "finally", Top.phase = "body"
    PROVE  Len(acts') >= Len(acts)
<1>0. TypeOK /\ acts \in Seq(Activation)
  BY DEF Open, IInv, TypeOK
<1>1. err # NoErr
  BY ErrNames DEF Kinds
<1>2. ~Calls /\ ~Begins
  BY <1>1, CallsAreQuiet DEF Begins, Raise, InstrLimit, Fetch
<1>3. ~Cuts
  <2>1. Dispatchable
    BY DEF Dispatchable
  <2>2. Top.kind = "method"
    BY <1>0, TopTypes DEF Open, NativesAreOpen
  <2>3. QED
    BY <1>1, <2>1, <2>2 DEF Cuts, Panic, Return, EndFinally, Pop, NativeEnds, Fetch
<1>4. CASE Marks
  <2>1. PICK p \in Phases : InPhase(p)
    BY <1>0, <1>4, MarksFacts
  <2>2. Len(acts') = Len(acts)
    BY <1>0, <2>1, MarkFacts
  <2>3. QED
    BY <1>0, <2>2
<1>5. CASE Exit \/ Overflow \/ UNCHANGED vars
  BY <1>0, <1>5 DEF Exit, Overflow, vars
<1>6. QED
  BY <1>2, <1>3, <1>4, <1>5, StepKinds

\* A limit's error ends the whole call, an exception ends in a catch or a faulted
\* task, and a finally on its way runs: for every chain of calls, with the natives
\* that MayDrop and ExceptionsAreHandled name as the only ones that drop an error.
THEOREM NoErrorIsLost == Spec => ErrorsAreNotLost
<1>1. Init => Open
  BY InitIInv DEF Init, Open, NativesAreOpen, Fresh
<1>2. Open /\ [Next]_vars => Open'
  BY NextIInv, NextOpen, NextFresh DEF Open
<1>3. Open /\ [Next]_vars => [err.kind \in Limits /\ ~MayDrop => err'.kind \in Limits]_vars
  BY LimitStep
<1>4. Open /\ [Next]_vars => [InFlight /\ ~InFlight' /\ err' = NoErr =>
                                Top.guard = "catch" \/ Top.kind \in {"task", "ctor"}]_vars
  BY HandledStep
<1>5. Open /\ [Next]_vars => [err = Err("managed") /\ acts # <<>> /\ Top.guard = "finally" /\ Top.phase = "body"
                                => Len(acts') >= Len(acts)]_vars
  BY FinallyStep
<1>6. QED
  BY <1>1, <1>2, <1>3, <1>4, <1>5, PTL
  DEF Spec, ErrorsAreNotLost, LimitsAbort, ExceptionsAreHandled, FinallyRuns
=============================================================================
