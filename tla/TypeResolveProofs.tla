-------------------------- MODULE TypeResolveProofs --------------------------
(***************************************************************************)
(* TypeResolve for any assemblies, declarations, dependency graphs (cyclic *)
(* ones, too) and number of goroutines.  While dependencies are attached   *)
(* before the first call, look-ups end with the right declaration and what *)
(* is cached is right; structs that nest shallowly get their zero values,  *)
(* and without cycles the Go stack suffices.  One Type for each            *)
(* declaration: whenever dependencies are attached.                        *)
(***************************************************************************)
EXTENDS TypeResolve, SequenceTheorems, FiniteSetTheorems, WellFoundedInduction, TLAPS

-----------------------------------------------------------------------------
(* Reachability.                                                           *)

LEMMA ReachSelf == ASSUME NEW a \in Asms PROVE a \in Reach(a)
  BY DEF Reach

\* What is reached goes through a dependency.
LEMMA ReachFirst ==
    ASSUME deps \in [Asms -> Seq(Asms)], NEW a \in Asms, NEW b \in Reach(a), b # a
    PROVE  \E i \in DOMAIN deps[a] : b \in Reach(deps[a][i])
<1> DEFINE S == {a} \union {c \in Asms : \E i \in DOMAIN deps[a] : c \in Reach(deps[a][i])}
<1>0. \A c \in Asms : \A i \in DOMAIN deps[c] : deps[c][i] \in Asms
  <2> TAKE c \in Asms
  <2>1. deps[c] \in Seq(Asms)
    OBVIOUS
  <2>2. QED
    BY <2>1
<1>1. S \in SUBSET Asms /\ a \in S
  OBVIOUS
<1>2. Closed(S)
  <2> SUFFICES ASSUME NEW c \in S, NEW j \in DOMAIN deps[c] PROVE deps[c][j] \in S
    BY DEF Closed
  <2>1. deps[c][j] \in Asms
    BY <1>0, <1>1
  <2>2. CASE c = a
    BY <2>1, <2>2, ReachSelf
  <2>3. CASE c # a
    <3>1. PICK i \in DOMAIN deps[a] : c \in Reach(deps[a][i])
      BY <2>3
    <3>2. deps[c][j] \in Reach(deps[a][i])
      <4> SUFFICES ASSUME NEW T \in SUBSET Asms, deps[a][i] \in T, Closed(T)
                   PROVE  deps[c][j] \in T
        BY <2>1 DEF Reach
      <4>1. c \in T
        BY <3>1 DEF Reach
      <4>2. QED
        BY <4>1 DEF Closed
    <3>3. QED
      BY <2>1, <3>1, <3>2
  <2>4. QED
    BY <2>2, <2>3
<1>3. b \in S
  BY <1>1, <1>2 DEF Reach
<1>4. QED
  BY <1>3

\* What a dependency reaches is reached.
LEMMA ReachDep ==
    ASSUME deps \in [Asms -> Seq(Asms)], NEW a \in Asms, NEW i \in DOMAIN deps[a],
           NEW b \in Reach(deps[a][i])
    PROVE  b \in Reach(a)
  BY DEF Reach, Closed

-----------------------------------------------------------------------------
(* Nothing is found where neither the assembly nor a dependency has it.    *)

LEMMA FoundBelow ==
    ASSUME deps \in [Asms -> Seq(Asms)], NEW a \in Asms, NEW n \in Names, NEW i \in DOMAIN deps[a],
           Known(deps[a][i], n)
    PROVE  Known(a, n)
  BY ReachDep DEF Known

LEMMA FoundHere ==
    ASSUME NEW a \in Asms, NEW n \in Names,
           n \in Declares[a] \/ (a \in joined /\ index[n] # None)
    PROVE  Findable(a, n)
  BY ReachSelf DEF Findable, Known

LEMMA FoundNowhere ==
    ASSUME deps \in [Asms -> Seq(Asms)], NEW a \in Asms, NEW n \in Names,
           n \notin Declares[a] \union Native,
           \A i \in DOMAIN deps[a] : ~Findable(deps[a][i], n)
    PROVE  /\ Findable(a, n) <=> a \in joined /\ index[n] # None
           /\ \A b \in Reach(a) : n \notin Declares[b]
<1>1. \A i \in DOMAIN deps[a] : ~Known(deps[a][i], n)
  BY DEF Findable
<1>2. ASSUME NEW b \in Reach(a), b # a
      PROVE  n \notin Declares[b] /\ ~(b \in joined /\ index[n] # None)
  <2>1. PICK i \in DOMAIN deps[a] : b \in Reach(deps[a][i])
    BY <1>2, ReachFirst
  <2>2. QED
    BY <1>1, <2>1 DEF Known
<1>3. \A b \in Reach(a) : n \notin Declares[b]
  BY <1>2
<1>4. Known(a, n) <=> a \in joined /\ index[n] # None
  BY <1>2, ReachSelf DEF Known
<1>5. QED
  BY <1>3, <1>4 DEF Findable

-----------------------------------------------------------------------------
(* While nothing is attached, what a frame knows stays true.               *)

World == <<deps, index, joined>>

LEMMA SameFindable ==
    ASSUME UNCHANGED World
    PROVE  /\ \A a : Reach(a)' = Reach(a)
           /\ \A a, n : Findable(a, n)' <=> Findable(a, n)
<1>0. deps' = deps /\ index' = index /\ joined' = joined
  BY DEF World
<1>1. ASSUME NEW a PROVE Reach(a)' = Reach(a)
  BY <1>0 DEF Reach, Closed
<1>2. ASSUME NEW a, NEW n PROVE Findable(a, n)' <=> Findable(a, n)
  BY <1>0, <1>1 DEF Findable, Known
<1>3. QED
  BY <1>1, <1>2

LEMMA SameKnowledge ==
    ASSUME UNCHANGED World
    PROVE  /\ \A f : FrameKnows(f)' <=> FrameKnows(f)
           /\ \A f : AskedAsm(f)' = AskedAsm(f)
           /\ \A a, n, t : Answers(a, n, t)' <=> Answers(a, n, t)
<1>0. deps' = deps /\ index' = index /\ joined' = joined
  BY DEF World
<1>1. ASSUME NEW f PROVE Sought(f)' <=> Sought(f)
  BY <1>0, SameFindable DEF Sought
<1>2. ASSUME NEW f PROVE Building(f)' <=> Building(f)
  BY <1>0, SameFindable DEF Building, LastResort
<1>3. ASSUME NEW f PROVE FrameKnows(f)' <=> FrameKnows(f)
  BY <1>0, <1>1, <1>2, SameFindable DEF FrameKnows
<1>4. ASSUME NEW f PROVE AskedAsm(f)' = AskedAsm(f)
  BY <1>0 DEF AskedAsm
<1>5. ASSUME NEW a, NEW n, NEW t PROVE Answers(a, n, t)' <=> Answers(a, n, t)
  BY SameFindable DEF Answers
<1>6. QED
  BY <1>3, <1>4, <1>5

-----------------------------------------------------------------------------
(* The stack of a goroutine.                                               *)

LEMMA Pop ==
    ASSUME NEW S, NEW s \in Seq(S), s # <<>>
    PROVE  \E u \in Seq(S) :
              /\ u = SubSeq(s, 1, Len(s) - 1) /\ Len(u) = Len(s) - 1 /\ Len(s) \in Nat \ {0}
              /\ \A k \in 1..(Len(s) - 1) : u[k] = s[k]
<1>1. Len(s) \in Nat \ {0}
  OBVIOUS
<1>2. PICK n \in Nat : n = Len(s) - 1
  BY <1>1
<1>3. 1..n \subseteq 1..Len(s) /\ \A k \in 1..n : s[k] \in S
  BY <1>2
<1>4. SubSeq(s, 1, n) \in Seq(S) /\ Len(SubSeq(s, 1, n)) = n
  BY <1>2, <1>3
<1>5. \A k \in 1..n : SubSeq(s, 1, n)[k] = s[k]
  BY <1>2, <1>3
<1>6. QED
  BY <1>1, <1>2, <1>4, <1>5

LEMMA Elements ==
    ASSUME NEW S, NEW s \in Seq(S)
    PROVE  /\ \A k \in 1..Len(s) : s[k] \in S
           /\ DOMAIN s = 1..Len(s) /\ Len(s) \in Nat
           /\ s # <<>> <=> Len(s) # 0
           /\ s # <<>> => s[Len(s)] \in S
  OBVIOUS

ShapesOK ==
    /\ Shapes
    /\ deps \in [Asms -> Seq(Asms)] /\ index \in [Names -> Asms \union {None}] /\ joined \subseteq Asms
    /\ \A p \in Procs : walk[p] # None => walk[p].cur \in walk[p].seen

LEMMA ShapesAreTypes == ShapesOK => TypeOK
<1> SUFFICES ASSUME ShapesOK PROVE TypeOK
  OBVIOUS
<1> USE DEF ShapesOK, Shapes
<1>1. ASSUME NEW a \in Asms, NEW n \in Names
      PROVE  /\ types[a][n] # None => types[a][n] \in Type
             /\ impls[a][n] \in Names \union {None, Unknown}
  OBVIOUS
<1>2. ASSUME NEW p \in Procs, NEW i \in DOMAIN stack[p]
      PROVE  LET f == stack[p][i]
             IN  /\ {f.asm, f.own} \subseteq Asms /\ f.name \in Names
                 /\ f.depth \in 0..MaxDepth /\ f.at \in Wheres /\ f.i \in Nat \ {0}
                 /\ f.base \in BOOLEAN /\ f.zero \in BOOLEAN
  <2>1. stack[p] \in Seq(FrameType)
    OBVIOUS
  <2>2. stack[p][i] \in FrameType
    BY <2>1, Elements
  <2>3. QED
    BY <2>2 DEF FrameType
<1>3. ASSUME NEW p \in Procs PROVE ret[p] # None => ret[p] \in Type
  OBVIOUS
<1>4. QED
  BY <1>1, <1>2, <1>3 DEF TypeOK

LEMMA TypesAreShapes == IInv => ShapesOK
  BY DEF IInv, TypeOK, ShapesOK

\* A goroutine that knows enough after its step keeps the invariant.
LEMMA ThreadStep ==
    ASSUME IInv, UNCHANGED World, ShapesOK', CachedAreOwn',
           \A a \in Asms, n \in Names : types[a][n] # None => types'[a][n] = types[a][n],
           NEW p \in Procs, NEW s \in Seq(FrameType), stack'[p] = s,
           \A q \in Procs \ {p} : stack'[q] = stack[q] /\ ret'[q] = ret[q],
           \A k \in 1..Len(s) : FrameKnows(s[k]),
           \A k \in 1..(Len(s) - 1) :
              s[k].at \in Waiting /\ s[k + 1].asm = AskedAsm(s[k]) /\ s[k + 1].name = AskedName(s[k]),
           s # <<>> /\ s[Len(s)].at \in Waiting =>
              Answers(AskedAsm(s[Len(s)]), AskedName(s[Len(s)]), ret'[p]),
           ret'[p] # None /\ ret'[p].owner # None => types'[ret'[p].owner][ret'[p].name] = ret'[p]
    PROVE  IInv'
<1>1. TypeOK'
  BY ShapesAreTypes, PTL
<1>2. Shapes'
  BY DEF ShapesOK
<1>3. \A n \in Names : index'[n] # None => n \in Declares[index'[n]]
  BY DEF IInv, World
<1>4. FramesKnow'
  <2> SUFFICES ASSUME NEW q \in Procs
               PROVE  /\ \A k \in 1..Len(stack'[q]) : FrameKnows(stack[q][k])'
                      /\ \A k \in 1..(Len(stack'[q]) - 1) :
                           /\ stack'[q][k].at \in Waiting
                           /\ stack'[q][k + 1].asm = AskedAsm(stack[q][k])'
                           /\ stack'[q][k + 1].name = AskedName(stack'[q][k])
    BY DEF FramesKnow, AskedName
  <2>1. PICK u : u = stack'[q]
    OBVIOUS
  <2>2. /\ \A k \in 1..Len(u) : FrameKnows(u[k])
        /\ \A k \in 1..(Len(u) - 1) :
             u[k].at \in Waiting /\ u[k + 1].asm = AskedAsm(u[k]) /\ u[k + 1].name = AskedName(u[k])
    <3>1. CASE q = p
      BY <2>1, <3>1
    <3>2. CASE q # p
      <4>1. u = stack[q]
        BY <2>1, <3>2
      <4>2. QED
        BY <4>1 DEF IInv, FramesKnow
    <3>3. QED
      BY <3>1, <3>2
  <2>3. ASSUME NEW k \in 1..Len(u) PROVE FrameKnows(stack[q][k])'
    <3>1. FrameKnows(u[k])'
      BY <2>2, SameKnowledge
    <3>2. QED
      BY <2>1, <3>1 DEF FrameKnows, Sought, Building, LastResort
  <2>4. ASSUME NEW k \in 1..(Len(u) - 1) PROVE u[k + 1].asm = AskedAsm(stack[q][k])'
    <3>1. u[k + 1].asm = AskedAsm(u[k])'
      BY <2>2, SameKnowledge
    <3>2. QED
      BY <2>1, <3>1 DEF AskedAsm
  <2>5. QED
    BY <2>1, <2>2, <2>3, <2>4
<1>5. ReturnsAreRight'
  <2> SUFFICES ASSUME NEW q \in Procs
               PROVE  /\ stack'[q] # <<>> /\ Top(q)'.at \in Waiting =>
                           Answers(AskedAsm(Top(q)), AskedName(Top(q)), ret[q])'
                      /\ ret'[q] # None /\ ret'[q].owner # None =>
                           types'[ret'[q].owner][ret'[q].name] = ret'[q]
    BY DEF ReturnsAreRight
  <2>1. PICK u, t : u = stack'[q] /\ t = ret'[q]
    OBVIOUS
  <2>2. u # <<>> /\ u[Len(u)].at \in Waiting => Answers(AskedAsm(u[Len(u)]), AskedName(u[Len(u)]), t)
    <3>1. CASE q = p
      BY <2>1, <3>1
    <3>2. CASE q # p
      <4>1. u = stack[q] /\ t = ret[q]
        BY <2>1, <3>2
      <4>2. QED
        BY <4>1 DEF IInv, ReturnsAreRight, Top
    <3>3. QED
      BY <3>1, <3>2
  <2>3. PICK f, a : f = u[Len(u)] /\ a = AskedAsm(f)
    OBVIOUS
  <2>4. stack'[q] # <<>> /\ Top(q)'.at \in Waiting => Answers(AskedAsm(Top(q)), AskedName(Top(q)), ret[q])'
    <3>1. u # <<>> /\ f.at \in Waiting => Answers(a, AskedName(f), t)'
      BY <2>2, <2>3, SameKnowledge
    <3>2. AskedAsm(f)' = a
      BY <2>3, SameKnowledge
    <3>3. Top(q)' = f
      BY <2>1, <2>3 DEF Top
    <3>4. AskedAsm(Top(q))' = a /\ AskedName(Top(q))' = AskedName(f) /\ ret[q]' = t
      BY <2>1, <3>2, <3>3 DEF AskedAsm, AskedName
    <3>5. QED
      BY <2>1, <3>1, <3>3, <3>4 DEF Answers
  <2>5. t # None /\ t.owner # None => types'[t.owner][t.name] = t
    <3>1. CASE q = p
      BY <2>1, <3>1
    <3>2. CASE q # p
      <4>1. t = ret[q]
        BY <2>1, <3>2
      <4>2. t # None => t \in Type
        BY <4>1 DEF IInv, Shapes
      <4>3. t # None /\ t.owner # None => t.owner \in Asms /\ t.name \in Names /\ types[t.owner][t.name] = t
        BY <4>1, <4>2 DEF IInv, ReturnsAreRight, Type
      <4>4. QED
        BY <4>3
    <3>3. QED
      BY <3>1, <3>2
  <2>6. QED
    BY <2>1, <2>4, <2>5
<1>6. QED
  BY <1>1, <1>2, <1>3, <1>4, <1>5 DEF IInv

LEMMA TopFacts ==
    ASSUME IInv, NEW p \in Procs, Running(p)
    PROVE  /\ stack[p] \in Seq(FrameType) /\ stack[p] # <<>>
           /\ Len(stack[p]) \in Nat \ {0} /\ Top(p) = stack[p][Len(stack[p])]
           /\ Top(p) \in FrameType /\ FrameKnows(Top(p))
           /\ Top(p).at \in Waiting => Answers(AskedAsm(Top(p)), AskedName(Top(p)), ret[p])
           /\ \A k \in 1..Len(stack[p]) : FrameKnows(stack[p][k])
           /\ \A k \in 1..(Len(stack[p]) - 1) :
                 /\ stack[p][k].at \in Waiting
                 /\ stack[p][k + 1].asm = AskedAsm(stack[p][k])
                 /\ stack[p][k + 1].name = AskedName(stack[p][k])
<1>1. stack[p] \in Seq(FrameType) /\ stack[p] # <<>>
  BY DEF IInv, Shapes, Running
<1>2. Len(stack[p]) \in Nat \ {0} /\ Len(stack[p]) \in 1..Len(stack[p])
  BY <1>1
<1>3. Top(p) = stack[p][Len(stack[p])] /\ Top(p) \in FrameType
  BY <1>1, <1>2 DEF Top
<1>4. \A k \in 1..Len(stack[p]) : FrameKnows(stack[p][k])
  BY DEF IInv, FramesKnow
<1>5. FrameKnows(Top(p))
  BY <1>2, <1>3, <1>4
<1>6. Top(p).at \in Waiting => Answers(AskedAsm(Top(p)), AskedName(Top(p)), ret[p])
  BY <1>1 DEF IInv, ReturnsAreRight
<1>7. QED
  BY <1>1, <1>2, <1>3, <1>4, <1>5, <1>6 DEF IInv, FramesKnow

\* The caches are left alone.
LEMMA SameCaches ==
    ASSUME IInv, UNCHANGED World, UNCHANGED types
    PROVE  /\ CachedAreOwn'
           /\ \A a \in Asms, n \in Names : types[a][n] # None => types'[a][n] = types[a][n]
  BY SameFindable DEF IInv, CachedAreOwn

\* What is in the caches that a step leaves alone.
LEMMA StoredStays ==
    ASSUME IInv, NEW p \in Procs, UNCHANGED types, ret[p] # None, ret[p].owner # None
    PROVE  types'[ret[p].owner][ret[p].name] = ret[p]
  BY DEF IInv, ReturnsAreRight

LEMMA BecomesStep ==
    ASSUME IInv, NEW p \in Procs, Running(p), NEW f \in FrameType, Becomes(p, f),
           FrameKnows(f), f.at \notin Waiting, f.asm = Top(p).asm, f.name = Top(p).name
    PROVE  IInv'
<1> DEFINE s == stack[p]
<1>0. /\ UNCHANGED World /\ UNCHANGED <<types, impls, walk>>
      /\ ret' = [ret EXCEPT ![p] = None] /\ stack' = [stack EXCEPT ![p][Len(stack[p])] = f]
  BY DEF Becomes, World
<1>1. PICK u \in Seq(FrameType) :
         /\ u = [s EXCEPT ![Len(s)] = f] /\ Len(u) = Len(s) /\ Len(s) \in Nat \ {0}
         /\ \A k \in 1..(Len(s) - 1) : u[k] = s[k]
         /\ u[Len(s)] = f
  <2>1. s \in Seq(FrameType) /\ s # <<>>
    BY TopFacts
  <2> HIDE DEF s
  <2> DEFINE u == [s EXCEPT ![Len(s)] = f]
  <2>2. /\ u \in Seq(FrameType) /\ Len(u) = Len(s) /\ Len(s) \in Nat \ {0}
        /\ \A k \in 1..(Len(s) - 1) : u[k] = s[k]
        /\ u[Len(s)] = f
    BY <2>1
  <2>3. QED
    BY <2>2
<1>2. /\ stack \in [Procs -> Seq(FrameType)] /\ ret \in [Procs -> Type \union {None}]
  BY DEF IInv, Shapes
<1>3. /\ stack'[p] = u /\ ret'[p] = None
      /\ \A q \in Procs \ {p} : stack'[q] = stack[q] /\ ret'[q] = ret[q]
      /\ stack' \in [Procs -> Seq(FrameType)] /\ ret' \in [Procs -> Type \union {None}]
  BY <1>0, <1>1, <1>2
<1>4. ShapesOK'
  BY <1>0, <1>3, TypesAreShapes DEF ShapesOK, Shapes, World
<1>5. \A k \in 1..Len(u) : FrameKnows(u[k])
  BY <1>1, TopFacts
<1>6. ASSUME NEW k \in 1..(Len(u) - 1)
      PROVE  u[k].at \in Waiting /\ u[k + 1].asm = AskedAsm(u[k]) /\ u[k + 1].name = AskedName(u[k])
  <2>1. /\ s[k].at \in Waiting /\ s[k + 1].asm = AskedAsm(s[k]) /\ s[k + 1].name = AskedName(s[k])
    BY <1>1, <1>6, TopFacts
  <2>2. u[k] = s[k]
    BY <1>1, <1>6
  <2>3. u[k + 1].asm = s[k + 1].asm /\ u[k + 1].name = s[k + 1].name
    <3>1. CASE k + 1 = Len(s)
      BY <1>1, <3>1, TopFacts
    <3>2. CASE k + 1 # Len(s)
      BY <1>1, <1>6, <3>2
    <3>3. QED
      BY <3>1, <3>2
  <2>4. QED
    BY <2>1, <2>2, <2>3
<1>7. ~(u[Len(u)].at \in Waiting)
  BY <1>1
<1>8. QED
  BY <1>0, <1>3, <1>4, <1>5, <1>6, <1>7, SameCaches, ThreadStep

LEMMA EnterStep ==
    ASSUME IInv, NEW p \in Procs, Running(p), NEW f \in FrameType, NEW c \in FrameType,
           Enter(p, f, c), FrameKnows(f), FrameKnows(c), f.at \in Waiting, c.at \notin Waiting,
           f.asm = Top(p).asm, f.name = Top(p).name, c.asm = AskedAsm(f), c.name = AskedName(f)
    PROVE  IInv'
<1> DEFINE s == stack[p]
<1>0. /\ UNCHANGED World /\ UNCHANGED <<types, impls, walk, ret>>
      /\ stack' = [stack EXCEPT ![p] = Append([@ EXCEPT ![Len(@)] = f], c)]
  BY DEF Enter, World
<1>1. PICK u \in Seq(FrameType) :
         /\ u = [s EXCEPT ![Len(s)] = f] /\ Len(u) = Len(s) /\ Len(s) \in Nat \ {0}
         /\ \A k \in 1..(Len(s) - 1) : u[k] = s[k]
         /\ u[Len(s)] = f
  <2>1. s \in Seq(FrameType) /\ s # <<>>
    BY TopFacts
  <2> HIDE DEF s
  <2> DEFINE u == [s EXCEPT ![Len(s)] = f]
  <2>2. /\ u \in Seq(FrameType) /\ Len(u) = Len(s) /\ Len(s) \in Nat \ {0}
        /\ \A k \in 1..(Len(s) - 1) : u[k] = s[k]
        /\ u[Len(s)] = f
    BY <2>1
  <2>3. QED
    BY <2>2
<1>2. PICK w \in Seq(FrameType) :
         /\ w = Append(u, c) /\ Len(w) = Len(s) + 1
         /\ \A k \in 1..Len(s) : w[k] = u[k]
         /\ w[Len(s) + 1] = c
  <2> DEFINE w == Append(u, c)
  <2>1. /\ w \in Seq(FrameType) /\ Len(w) = Len(u) + 1
        /\ \A k \in 1..Len(u) : w[k] = u[k]
        /\ w[Len(u) + 1] = c
    OBVIOUS
  <2>2. QED
    BY <1>1, <2>1
<1>3. /\ stack \in [Procs -> Seq(FrameType)] /\ ret \in [Procs -> Type \union {None}]
  BY DEF IInv, Shapes
<1>4. /\ stack'[p] = w
      /\ \A q \in Procs \ {p} : stack'[q] = stack[q] /\ ret'[q] = ret[q]
      /\ stack' \in [Procs -> Seq(FrameType)]
  BY <1>0, <1>1, <1>2, <1>3
<1>5. ShapesOK'
  BY <1>0, <1>4, TypesAreShapes DEF ShapesOK, Shapes, World
<1>6. \A k \in 1..Len(w) : FrameKnows(w[k])
  <2> TAKE k \in 1..Len(w)
  <2>1. CASE k = Len(s) + 1
    BY <1>2, <2>1
  <2>2. CASE k = Len(s)
    BY <1>1, <1>2, <2>2
  <2>3. CASE k < Len(s)
    <3>1. w[k] = s[k]
      BY <1>1, <1>2, <2>3
    <3>2. QED
      BY <1>1, <2>3, <3>1, TopFacts
  <2>4. QED
    BY <1>1, <1>2, <2>1, <2>2, <2>3
<1>7. ASSUME NEW k \in 1..(Len(w) - 1)
      PROVE  w[k].at \in Waiting /\ w[k + 1].asm = AskedAsm(w[k]) /\ w[k + 1].name = AskedName(w[k])
  <2>1. CASE k = Len(s)
    BY <1>1, <1>2, <2>1
  <2>2. CASE k < Len(s)
    <3>1. /\ s[k].at \in Waiting /\ s[k + 1].asm = AskedAsm(s[k]) /\ s[k + 1].name = AskedName(s[k])
      BY <1>1, <2>2, TopFacts
    <3>2. w[k] = s[k]
      BY <1>1, <1>2, <2>2
    <3>3. w[k + 1].asm = s[k + 1].asm /\ w[k + 1].name = s[k + 1].name
      <4>1. CASE k + 1 = Len(s)
        BY <1>1, <1>2, <4>1, TopFacts
      <4>2. CASE k + 1 # Len(s)
        BY <1>1, <1>2, <2>2, <4>2
      <4>3. QED
        BY <4>1, <4>2
    <3>4. QED
      BY <3>1, <3>2, <3>3
  <2>3. QED
    BY <1>1, <1>2, <2>1, <2>2
<1>8. w # <<>> /\ w[Len(w)].at \in Waiting =>
         Answers(AskedAsm(w[Len(w)]), AskedName(w[Len(w)]), ret'[p])
  BY <1>2
<1>9. ret'[p] # None /\ ret'[p].owner # None => types'[ret'[p].owner][ret'[p].name] = ret'[p]
  BY <1>0, StoredStays
<1>10. /\ CachedAreOwn'
       /\ \A a \in Asms, n \in Names : types[a][n] # None => types'[a][n] = types[a][n]
  BY <1>0, SameCaches
<1>11. UNCHANGED World
  BY <1>0
<1> HIDE DEF s
<1>12. QED
  BY <1>4, <1>5, <1>6, <1>7, <1>8, <1>9, <1>10, <1>11, ThreadStep

LEMMA ReturnStep ==
    ASSUME IInv, NEW p \in Procs, Running(p), NEW t \in Type \union {None}, Return(p, t),
           Answers(Top(p).asm, Top(p).name, t),
           t # None /\ t.owner # None => types'[t.owner][t.name] = t,
           types' \in [Asms -> [Names -> Type \union {None}]], CachedAreOwn',
           \A a \in Asms, n \in Names : types[a][n] # None => types'[a][n] = types[a][n]
    PROVE  IInv'
<1> DEFINE s == stack[p]
<1>0. /\ UNCHANGED World /\ UNCHANGED <<impls, walk>> /\ ret' = [ret EXCEPT ![p] = t]
      /\ stack' = [stack EXCEPT ![p] = SubSeq(@, 1, Len(@) - 1)]
  BY DEF Return, World
<1>1. PICK u \in Seq(FrameType) :
         /\ u = SubSeq(s, 1, Len(s) - 1) /\ Len(u) = Len(s) - 1 /\ Len(s) \in Nat \ {0}
         /\ \A k \in 1..(Len(s) - 1) : u[k] = s[k]
  <2>1. s \in Seq(FrameType) /\ s # <<>>
    BY TopFacts
  <2> HIDE DEF s
  <2>2. QED
    BY <2>1, Pop
<1>2. /\ stack \in [Procs -> Seq(FrameType)] /\ ret \in [Procs -> Type \union {None}]
  BY DEF IInv, Shapes
<1>3. /\ stack'[p] = u /\ ret'[p] = t
      /\ \A q \in Procs \ {p} : stack'[q] = stack[q] /\ ret'[q] = ret[q]
      /\ stack' \in [Procs -> Seq(FrameType)] /\ ret' \in [Procs -> Type \union {None}]
  BY <1>0, <1>1, <1>2
<1>4. ShapesOK'
  BY <1>0, <1>3, TypesAreShapes DEF ShapesOK, Shapes, World
<1>5. \A k \in 1..Len(u) : FrameKnows(u[k])
  BY <1>1, TopFacts
<1>6. \A k \in 1..(Len(u) - 1) :
         u[k].at \in Waiting /\ u[k + 1].asm = AskedAsm(u[k]) /\ u[k + 1].name = AskedName(u[k])
  <2> TAKE k \in 1..(Len(u) - 1)
  <2>1. k \in 1..(Len(s) - 1) /\ k + 1 \in 1..(Len(s) - 1)
    BY <1>1
  <2>2. u[k] = s[k] /\ u[k + 1] = s[k + 1]
    BY <1>1, <2>1
  <2>3. QED
    BY <2>1, <2>2, TopFacts
<1>7. u # <<>> => Answers(AskedAsm(u[Len(u)]), AskedName(u[Len(u)]), t)
  <2> SUFFICES ASSUME u # <<>> PROVE Answers(AskedAsm(u[Len(u)]), AskedName(u[Len(u)]), t)
    OBVIOUS
  <2>1. Len(u) \in 1..(Len(s) - 1) /\ Len(u) + 1 = Len(s)
    BY <1>1, Elements
  <2>2. u[Len(u)] = s[Len(u)]
    BY <1>1, <2>1
  <2>3. s[Len(u) + 1].asm = AskedAsm(s[Len(u)]) /\ s[Len(u) + 1].name = AskedName(s[Len(u)])
    BY <2>1, TopFacts
  <2>4. Top(p) = s[Len(u) + 1]
    BY <2>1, TopFacts
  <2>5. QED
    BY <2>2, <2>3, <2>4
<1>8. QED
  BY <1>0, <1>3, <1>4, <1>5, <1>6, <1>7, ThreadStep

-----------------------------------------------------------------------------
(* Calls begin and end.                                                    *)

LEMMA NewFrame ==
    ASSUME NEW a \in Asms, NEW n \in Names, NEW d \in 0..MaxDepth
    PROVE  /\ Frame(a, n, d) \in FrameType /\ FrameKnows(Frame(a, n, d))
           /\ Frame(a, n, d).at \notin Waiting
           /\ Frame(a, n, d).asm = a /\ Frame(a, n, d).name = n
  BY DEF Frame, FrameType, Wheres, FrameKnows, Waiting

LEMMA StartStep ==
    ASSUME IInv, NEW p \in Procs, NEW a \in Asms, NEW n \in Names,
           stack' = [stack EXCEPT ![p] = <<Frame(a, n, 0)>>],
           UNCHANGED World, UNCHANGED <<types, impls, ret>>,
           walk' \in [Procs -> WalkType \union {None}],
           \A q \in Procs : walk'[q] # None => walk'[q].cur \in walk'[q].seen
    PROVE  IInv'
<1> USE TypeResolveAssumption
<1>1. PICK f \in FrameType : f = Frame(a, n, 0) /\ FrameKnows(f) /\ f.at \notin Waiting
  BY NewFrame
<1>2. PICK s \in Seq(FrameType) : s = <<f>> /\ Len(s) = 1 /\ s[1] = f
  <2>1. <<f>> \in Seq(FrameType) /\ Len(<<f>>) = 1 /\ <<f>>[1] = f
    OBVIOUS
  <2>2. QED
    BY <2>1
<1>3. /\ stack \in [Procs -> Seq(FrameType)]
  BY DEF IInv, Shapes
<1>4. /\ stack'[p] = s
      /\ \A q \in Procs \ {p} : stack'[q] = stack[q] /\ ret'[q] = ret[q]
      /\ stack' \in [Procs -> Seq(FrameType)]
  BY <1>1, <1>2, <1>3
<1>5. ShapesOK'
  BY <1>4, TypesAreShapes DEF ShapesOK, Shapes, World
<1>6. ret'[p] # None /\ ret'[p].owner # None => types'[ret'[p].owner][ret'[p].name] = ret'[p]
  BY StoredStays
<1>7. /\ \A k \in 1..Len(s) : FrameKnows(s[k])
      /\ \A k \in 1..(Len(s) - 1) :
            s[k].at \in Waiting /\ s[k + 1].asm = AskedAsm(s[k]) /\ s[k + 1].name = AskedName(s[k])
      /\ s # <<>> /\ s[Len(s)].at \in Waiting =>
            Answers(AskedAsm(s[Len(s)]), AskedName(s[Len(s)]), ret'[p])
  BY <1>1, <1>2
<1>8. /\ CachedAreOwn'
      /\ \A b \in Asms, m \in Names : types[b][m] # None => types'[b][m] = types[b][m]
  BY SameCaches
<1>9. QED
  BY <1>4, <1>5, <1>6, <1>7, <1>8, ThreadStep

LEMMA RestStep ==
    ASSUME IInv, NEW p \in Procs, stack[p] = <<>>,
           UNCHANGED World, UNCHANGED <<types, stack>>,
           ret' = ret \/ ret' = [ret EXCEPT ![p] = None],
           impls' \in [Asms -> [Names -> Names \union {None, Unknown}]],
           walk' \in [Procs -> WalkType \union {None}],
           \A q \in Procs : walk'[q] # None => walk'[q].cur \in walk'[q].seen
    PROVE  IInv'
<1>1. /\ stack \in [Procs -> Seq(FrameType)] /\ ret \in [Procs -> Type \union {None}]
  BY DEF IInv, Shapes
<1>2. /\ \A q \in Procs \ {p} : stack'[q] = stack[q] /\ ret'[q] = ret[q]
      /\ ret' \in [Procs -> Type \union {None}] /\ ret'[p] \in {ret[p], None}
  BY <1>1
<1>3. ShapesOK'
  BY <1>1, <1>2, TypesAreShapes DEF ShapesOK, Shapes, World
<1>4. ret'[p] # None /\ ret'[p].owner # None => types'[ret'[p].owner][ret'[p].name] = ret'[p]
  <2>1. CASE ret'[p] = ret[p]
    BY <2>1, StoredStays
  <2>2. QED
    BY <1>2, <2>1
<1>5. /\ CachedAreOwn'
      /\ \A b \in Asms, m \in Names : types[b][m] # None => types'[b][m] = types[b][m]
  BY SameCaches
<1>6. PICK s \in Seq(FrameType) : s = <<>> /\ stack'[p] = s
  BY <1>1
<1>7. Len(s) = 0
  BY <1>6
<1>8. /\ \A k \in 1..Len(s) : FrameKnows(s[k])
      /\ \A k \in 1..(Len(s) - 1) :
            s[k].at \in Waiting /\ s[k + 1].asm = AskedAsm(s[k]) /\ s[k + 1].name = AskedName(s[k])
      /\ s # <<>> /\ s[Len(s)].at \in Waiting =>
            Answers(AskedAsm(s[Len(s)]), AskedName(s[Len(s)]), ret'[p])
  BY <1>6, <1>7
<1>9. QED
  BY <1>2, <1>3, <1>4, <1>5, <1>6, <1>8, ThreadStep

LEMMA CallStep ==
    ASSUME IInv, NEW p \in Procs, NEW a \in Asms, NEW n \in Names,
           CallType(p, a, n) \/ CallImpl(p, a, n)
    PROVE  IInv'
<1>0. /\ walk \in [Procs -> WalkType \union {None}] /\ impls \in [Asms -> [Names -> Names \union {None, Unknown}]]
      /\ \A q \in Procs : walk[q] # None => walk[q].cur \in walk[q].seen
  BY DEF IInv, Shapes, TypeOK
<1>1. CASE CallType(p, a, n)
  BY <1>0, <1>1, StartStep DEF CallType, World
<1>2. CASE CallImpl(p, a, n)
  <2>1. PICK w \in WalkType : w = [asm |-> a, name |-> n, cur |-> n, seen |-> {n}, up |-> FALSE]
    BY DEF WalkType
  <2>2. walk' = [walk EXCEPT ![p] = w] /\ w.cur \in w.seen
    BY <1>2, <2>1 DEF CallImpl
  <2>3. /\ walk' \in [Procs -> WalkType \union {None}]
        /\ \A q \in Procs : walk'[q] # None => walk'[q].cur \in walk'[q].seen
    BY <1>0, <2>2
  <2>4. /\ UNCHANGED World /\ UNCHANGED <<types, stack, ret, impls>> /\ stack[p] = <<>>
    BY <1>2 DEF CallImpl, World, Idle
  <2>5. QED
    BY <1>0, <2>3, <2>4, RestStep
<1>3. QED
  BY <1>1, <1>2

LEMMA DeliverStep ==
    ASSUME IInv, NEW p \in Procs, Deliver(p)
    PROVE  IInv'
<1>0. /\ walk \in [Procs -> WalkType \union {None}] /\ impls \in [Asms -> [Names -> Names \union {None, Unknown}]]
      /\ \A q \in Procs : walk[q] # None => walk[q].cur \in walk[q].seen
  BY DEF IInv, Shapes, TypeOK
<1>1. QED
  BY <1>0, RestStep DEF Deliver, World

\* The walk up the base classes, for an explicit implementation.
LEMMA WalkStep ==
    ASSUME IInv, NEW p \in Procs,
           WalkFinds(p) \/ WalkAsks(p) \/ WalkUp(p) \/ WalkEnds(p)
    PROVE  IInv'
<1> USE TypeResolveAssumption
<1>0. /\ walk \in [Procs -> WalkType \union {None}] /\ impls \in [Asms -> [Names -> Names \union {None, Unknown}]]
      /\ ret \in [Procs -> Type \union {None}]
      /\ \A q \in Procs : walk[q] # None => walk[q].cur \in walk[q].seen
  BY DEF IInv, Shapes, TypeOK
<1>1. stack[p] = <<>> /\ walk[p] # None /\ UNCHANGED World /\ UNCHANGED types
  BY DEF WalkFinds, WalkAsks, WalkUp, WalkEnds, Walking, StoreImpl, World
<1>2. PICK w \in WalkType : w = walk[p]
  BY <1>0, <1>1
<1>3. w.asm \in Asms /\ w.name \in Names /\ w.cur \in Names /\ w.seen \in SUBSET Names
  BY DEF WalkType
<1>4. ASSUME NEW found \in Names \union {None}, StoreImpl(p, found)
      PROVE  IInv'
  <2>1. impls' = [impls EXCEPT ![w.asm][w.name] = found] /\ walk' = [walk EXCEPT ![p] = None]
    BY <1>2, <1>4 DEF StoreImpl
  <2>2. impls' \in [Asms -> [Names -> Names \union {None, Unknown}]]
    BY <1>0, <1>3, <2>1
  <2>3. /\ walk' \in [Procs -> WalkType \union {None}]
        /\ \A q \in Procs : walk'[q] # None => walk'[q].cur \in walk'[q].seen
    BY <1>0, <2>1
  <2>4. QED
    BY <1>1, <1>4, <2>2, <2>3, RestStep DEF StoreImpl
<1>5. CASE WalkFinds(p)
  BY <1>2, <1>3, <1>4, <1>5 DEF WalkFinds
<1>6. CASE WalkEnds(p)
  BY <1>4, <1>6 DEF WalkEnds
<1>7. CASE WalkAsks(p)
  <2>1. PICK v \in WalkType : v = [w EXCEPT !.up = TRUE] /\ v.cur = w.cur /\ v.seen = w.seen
    <3>1. [w EXCEPT !.up = TRUE] \in WalkType
      BY DEF WalkType
    <3>2. [w EXCEPT !.up = TRUE].cur = w.cur /\ [w EXCEPT !.up = TRUE].seen = w.seen
      BY DEF WalkType
    <3>3. QED
      BY <3>1, <3>2
  <2>2. walk' = [walk EXCEPT ![p] = v]
    BY <1>2, <1>7, <2>1 DEF WalkAsks
  <2>3. w.cur \in w.seen
    BY <1>0, <1>1, <1>2
  <2>4. /\ walk' \in [Procs -> WalkType \union {None}]
        /\ \A q \in Procs : walk'[q] # None => walk'[q].cur \in walk'[q].seen
    BY <1>0, <2>1, <2>2, <2>3
  <2>5. stack' = [stack EXCEPT ![p] = <<Frame(w.asm, w.cur, 0)>>] /\ UNCHANGED <<types, impls, ret>>
    BY <1>2, <1>7 DEF WalkAsks
  <2>6. QED
    BY <1>1, <1>3, <2>4, <2>5, StartStep
<1>8. CASE WalkUp(p)
  <2>1. Above(p) \in Names
    <3>1. ret[p] # None
      BY <1>8 DEF WalkUp, Above
    <3>2. ret[p].name \in Names
      BY <1>0, <3>1 DEF Type
    <3>3. QED
      BY <1>8, <3>1, <3>2 DEF WalkUp, Above
  <2>2. PICK m \in Names : m = Above(p)
    BY <2>1
  <2>3. PICK v \in WalkType : v = [w EXCEPT !.up = FALSE, !.cur = m, !.seen = w.seen \union {m}]
    BY DEF WalkType
  <2>4. v.cur = m /\ v.seen = w.seen \union {m}
    BY <2>3 DEF WalkType
  <2>5. walk' = [walk EXCEPT ![p] = v]
    <3>1. walk' = [walk EXCEPT ![p] = [walk[p] EXCEPT !.up = FALSE, !.cur = Above(p),
                                                      !.seen = walk[p].seen \union {Above(p)}]]
      BY <1>8 DEF WalkUp
    <3>2. QED
      BY <1>2, <2>2, <2>3, <3>1
  <2>6. /\ walk' \in [Procs -> WalkType \union {None}]
        /\ \A q \in Procs : walk'[q] # None => walk'[q].cur \in walk'[q].seen
    BY <1>0, <2>4, <2>5
  <2>7. ret' = [ret EXCEPT ![p] = None] /\ UNCHANGED <<types, impls, stack>>
    BY <1>8 DEF WalkUp
  <2>8. QED
    BY <1>0, <1>1, <2>6, <2>7, RestStep
<1>9. QED
  BY <1>5, <1>6, <1>7, <1>8

-----------------------------------------------------------------------------
(* What each return answers.                                               *)

\* The frame that runs, as a constant of the step.
LEMMA Runs ==
    ASSUME IInv, NEW p \in Procs, Running(p)
    PROVE  \E g \in FrameType :
             /\ g = Top(p) /\ FrameKnows(g)
             /\ g.asm \in Asms /\ g.own \in Asms /\ g.name \in Names /\ g.depth \in 0..MaxDepth
             /\ g.i \in Nat \ {0} /\ g.base \in BOOLEAN
             /\ g.at \in Waiting => Answers(AskedAsm(g), AskedName(g), ret[p])
  BY TopFacts DEF FrameType

\* All dependencies have been asked.
LEMMA SoughtEverywhere ==
    ASSUME IInv, NEW g \in FrameType, Sought(g), g.i > Len(deps[g.asm])
    PROVE  /\ Findable(g.asm, g.name) <=> g.asm \in joined /\ index[g.name] # None
           /\ \A b \in Reach(g.asm) : g.name \notin Declares[b]
<1>1. /\ deps \in [Asms -> Seq(Asms)] /\ g.asm \in Asms /\ g.name \in Names /\ g.i \in Nat
  BY DEF IInv, TypeOK, FrameType
<1>2. g.name \notin Declares[g.asm] \union Native
  BY DEF Sought
<1>3. \A i \in DOMAIN deps[g.asm] : ~Findable(deps[g.asm][i], g.name)
  <2> TAKE i \in DOMAIN deps[g.asm]
  <2>1. deps[g.asm] \in Seq(Asms)
    BY <1>1
  <2>2. i \in 1..(g.i - 1)
    BY <1>1, <2>1
  <2>3. QED
    BY <2>2 DEF Sought
<1>4. QED
  BY <1>1, <1>2, <1>3, FoundNowhere

LEMMA HitAnswers ==
    ASSUME IInv, NEW p \in Procs, Running(p), InCache(p)
    PROVE  /\ types[Top(p).asm][Top(p).name] \in Type
           /\ Answers(Top(p).asm, Top(p).name, types[Top(p).asm][Top(p).name])
           /\ types[Top(p).asm][Top(p).name].owner = Top(p).asm
           /\ types[Top(p).asm][Top(p).name].name = Top(p).name
<1>1. PICK g \in FrameType : g = Top(p) /\ g.asm \in Asms /\ g.name \in Names
  BY Runs
<1>2. types[g.asm][g.name] # None
  BY <1>1 DEF InCache
<1>3. g.name \in Declares[g.asm]
  BY <1>1, <1>2 DEF IInv, CachedAreOwn
<1>4. Findable(g.asm, g.name)
  BY <1>1, <1>3, FoundHere
<1>5. QED
  BY <1>1, <1>2, <1>4 DEF IInv, Shapes, CachedAreOwn, Answers

LEMMA NativeAnswers ==
    ASSUME NEW a, NEW n \in Names, n \in Native
    PROVE  NativeType(n) \in Type /\ Answers(a, n, NativeType(n)) /\ NativeType(n).owner = None
<1> USE TypeResolveAssumption
<1>1. NativeType(n) \in Type
  BY DEF NativeType, Type
<1>2. NativeType(n) # None
  BY <1>1
<1>3. NativeType(n).name = n /\ NativeType(n).owner = None
  BY DEF NativeType
<1>4. QED
  BY <1>1, <1>2, <1>3 DEF Answers, Findable

LEMMA DepAnswers ==
    ASSUME IInv, NEW p \in Procs, At(p, "gotDep"), ret[p] # None
    PROVE  Answers(Top(p).asm, Top(p).name, ret[p])
<1>1. PICK g \in FrameType : g = Top(p) /\ FrameKnows(g) /\
                             (g.at \in Waiting => Answers(AskedAsm(g), AskedName(g), ret[p]))
  BY Runs DEF At
<1>2. g.at = "gotDep"
  BY <1>1 DEF At
<1>3. Answers(deps[g.asm][g.i], g.name, ret[p])
  BY <1>1, <1>2 DEF Waiting, AskedAsm, AskedName
<1>4. g.name \notin Declares[g.asm]
  BY <1>1, <1>2 DEF FrameKnows, Sought
<1>5. Findable(deps[g.asm][g.i], g.name)
  BY <1>3 DEF Answers
<1>6. Findable(g.asm, g.name)
  <2>1. g.i \in DOMAIN deps[g.asm] /\ deps \in [Asms -> Seq(Asms)] /\ g.asm \in Asms /\ g.name \in Names
    BY <1>1, <1>2 DEF FrameKnows, FrameType, IInv, TypeOK
  <2>2. QED
    BY <1>5, <2>1, FoundBelow DEF Findable
<1>7. QED
  BY <1>1, <1>3, <1>4, <1>6 DEF Answers

LEMMA NowhereAnswers ==
    ASSUME IInv, NEW p \in Procs, FindsNowhere(p)
    PROVE  Answers(Top(p).asm, Top(p).name, None)
<1>1. PICK g \in FrameType : g = Top(p) /\ FrameKnows(g) /\ g.asm \in Asms /\ g.name \in Names
  BY Runs DEF FindsNowhere, At
<1>2. Sought(g) /\ g.i > Len(deps[g.asm])
  <2>1. Sought(g)
    BY <1>1 DEF FindsNowhere, At, FrameKnows
  <2>2. Len(deps[g.asm]) \in Nat /\ g.i \in Nat
    BY <1>1 DEF IInv, TypeOK, FrameType
  <2>3. QED
    BY <1>1, <2>1, <2>2 DEF FindsNowhere
<1>3. Findable(g.asm, g.name) <=> g.asm \in joined /\ index[g.name] # None
  BY <1>2, SoughtEverywhere
<1>4. g.name \notin Declares[g.asm]
  BY <1>2 DEF Sought
<1>5. ~(g.asm \in joined /\ index[g.name] # None)
  BY <1>1, <1>4 DEF FindsNowhere, IndexOwner, IInv
<1>6. QED
  BY <1>1, <1>3, <1>5 DEF Answers

\* The Type a build ends with, the stored one's or its own.
Kept(p) ==
    LET there == types[Top(p).own][Top(p).name]
    IN  IF there = None THEN Built(p) ELSE there

LEMMA KeptAnswers ==
    ASSUME IInv, NEW p \in Procs, At(p, "store")
    PROVE  /\ Kept(p) \in Type /\ Kept(p).owner = Top(p).own /\ Kept(p).name = Top(p).name
           /\ Answers(Top(p).asm, Top(p).name, Kept(p))
           /\ Base[Top(p).name] # None /\ Findable(Top(p).own, Base[Top(p).name]) => Kept(p).base
<1> USE TypeResolveAssumption
<1>1. PICK g \in FrameType : g = Top(p) /\ FrameKnows(g) /\ g.asm \in Asms /\ g.own \in Asms /\ g.name \in Names
  BY Runs DEF At
<1>2. /\ Building(g)
      /\ Base[g.name] # None /\ Findable(g.own, Base[g.name]) => g.base
  BY <1>1 DEF FrameKnows, At
<1>3. /\ Built(p) \in Type /\ Built(p).owner = g.own /\ Built(p).name = g.name
      /\ Built(p).base = g.base
  BY <1>1 DEF Built, Type, FrameType
<1>4. types[g.own][g.name] # None =>
        /\ types[g.own][g.name] \in Type
        /\ types[g.own][g.name].owner = g.own /\ types[g.own][g.name].name = g.name
        /\ Base[g.name] # None /\ Findable(g.own, Base[g.name]) => types[g.own][g.name].base
  BY <1>1 DEF IInv, Shapes, CachedAreOwn
<1>5. /\ Kept(p) \in Type /\ Kept(p).owner = g.own /\ Kept(p).name = g.name
      /\ Base[g.name] # None /\ Findable(g.own, Base[g.name]) => Kept(p).base
  <2>1. CASE types[g.own][g.name] = None
    <3>1. Kept(p) = Built(p)
      BY <1>1, <2>1 DEF Kept
    <3>2. QED
      BY <1>2, <1>3, <3>1
  <2>2. CASE types[g.own][g.name] # None
    <3>1. Kept(p) = types[g.own][g.name]
      BY <1>1, <2>2 DEF Kept
    <3>2. QED
      BY <1>4, <2>2, <3>1
  <2>3. QED
    BY <2>1, <2>2
<1>6. Answers(g.asm, g.name, Kept(p))
  <2>1. Kept(p) # None
    BY <1>5
  <2>0. Findable(g.asm, g.name)
    <3>1. g.own = g.asm => g.name \in Declares[g.asm]
      BY <1>2 DEF Building
    <3>2. g.own # g.asm => g.asm \in joined /\ index[g.name] # None
      BY <1>1, <1>2 DEF Building, LastResort
    <3>3. QED
      BY <1>1, <3>1, <3>2, FoundHere
  <2>2. CASE g.own = g.asm
    BY <1>5, <2>0, <2>1, <2>2 DEF Answers
  <2>3. CASE g.own # g.asm
    <3>1. g.name \notin Declares[g.asm]
      BY <1>1, <1>2, <2>3, ReachSelf DEF Building, LastResort
    <3>2. QED
      BY <1>5, <2>0, <2>1, <3>1 DEF Answers
  <2>4. QED
    BY <2>2, <2>3
<1>7. QED
  BY <1>1, <1>5, <1>6

-----------------------------------------------------------------------------
(* The steps of a look-up.                                                 *)

LEMMA ReturnSteps ==
    ASSUME IInv, NEW p \in Procs,
           Hit(p) \/ FindsNative(p) \/ DepHas(p) \/ FindsNowhere(p)
    PROVE  IInv'
<1> USE TypeResolveAssumption
<1>0. /\ Running(p) /\ UNCHANGED types /\ UNCHANGED World
      /\ types' \in [Asms -> [Names -> Type \union {None}]]
      /\ CachedAreOwn'
      /\ \A a \in Asms, n \in Names : types[a][n] # None => types'[a][n] = types[a][n]
  <2>1. Running(p) /\ UNCHANGED types /\ UNCHANGED World
    BY DEF Hit, FindsNative, DepHas, FindsNowhere, At, Return, World
  <2>2. types \in [Asms -> [Names -> Type \union {None}]]
    BY DEF IInv, Shapes
  <2>3. QED
    BY <2>1, <2>2, SameCaches
<1>1. CASE Hit(p)
  BY <1>0, <1>1, HitAnswers, ReturnStep DEF Hit
<1>2. CASE FindsNative(p)
  <2>1. Top(p).name \in Names
    BY <1>0, Runs
  <2>2. QED
    BY <1>0, <1>2, <2>1, NativeAnswers, ReturnStep DEF FindsNative
<1>3. CASE DepHas(p)
  <2>1. ret[p] \in Type
    BY <1>3 DEF DepHas, IInv, Shapes
  <2>2. QED
    BY <1>0, <1>3, <2>1, DepAnswers, StoredStays, ReturnStep DEF DepHas
<1>4. CASE FindsNowhere(p)
  BY <1>0, <1>4, NowhereAnswers, ReturnStep DEF FindsNowhere
<1>5. QED
  BY <1>1, <1>2, <1>3, <1>4

LEMMA StoreStep ==
    ASSUME IInv, NEW p \in Procs, Store(p)
    PROVE  /\ IInv'
           /\ \A a \in Asms, n \in Names : types[a][n] # None => types'[a][n] = types[a][n]
<1> USE TypeResolveAssumption
<1>0. At(p, "store") /\ Running(p)
  BY DEF Store, At
<1>1. PICK g \in FrameType : g = Top(p) /\ FrameKnows(g) /\ g.own \in Asms /\ g.name \in Names
  BY <1>0, Runs
<1>2. PICK t \in Type : t = Kept(p)
  BY <1>0, KeptAnswers
<1>3. /\ t.owner = g.own /\ t.name = g.name /\ t # None
      /\ Answers(Top(p).asm, Top(p).name, t)
      /\ Base[g.name] # None /\ Findable(g.own, Base[g.name]) => t.base
      /\ g.name \in Declares[g.own] \ Native
  <2>1. g.name \in Declares[g.own] \ Native
    BY <1>0, <1>1 DEF At, FrameKnows, Building
  <2>2. QED
    BY <1>0, <1>1, <1>2, <2>1, KeptAnswers
<1>4. Return(p, t) /\ types' = [types EXCEPT ![g.own][g.name] = t] /\ UNCHANGED World
  BY <1>1, <1>2 DEF Store, Kept, Return, World
<1>5. types \in [Asms -> [Names -> Type \union {None}]]
  BY DEF IInv, Shapes
<1>6. /\ types' \in [Asms -> [Names -> Type \union {None}]]
      /\ types'[g.own][g.name] = t
      /\ \A a \in Asms, n \in Names : ~(a = g.own /\ n = g.name) => types'[a][n] = types[a][n]
  BY <1>1, <1>4, <1>5
<1>7. types[g.own][g.name] # None => t = types[g.own][g.name]
  BY <1>1, <1>2 DEF Kept
<1>8. \A a \in Asms, n \in Names : types[a][n] # None => types'[a][n] = types[a][n]
  BY <1>6, <1>7
<1>9. CachedAreOwn'
  <2> SUFFICES ASSUME NEW a \in Asms, NEW n \in Names, types'[a][n] # None
               PROVE  /\ types'[a][n].owner = a /\ types'[a][n].name = n /\ n \in Declares[a] \ Native
                      /\ Base[n] # None /\ Findable(a, Base[n])' => types'[a][n].base
    BY DEF CachedAreOwn
  <2>1. Findable(a, Base[n])' <=> Findable(a, Base[n])
    BY <1>4, SameFindable
  <2>2. CASE a = g.own /\ n = g.name
    BY <1>3, <1>6, <2>1, <2>2
  <2>3. CASE ~(a = g.own /\ n = g.name)
    BY <1>6, <2>1, <2>3 DEF IInv, CachedAreOwn
  <2>4. QED
    BY <2>2, <2>3
<1>10. t.owner # None => types'[t.owner][t.name] = t
  BY <1>3, <1>6
<1>11. IInv'
  BY <1>0, <1>3, <1>4, <1>6, <1>8, <1>9, <1>10, ReturnStep
<1>12. QED
  BY <1>8, <1>11

LEMMA FrameFields ==
    ASSUME NEW a, NEW o, NEW n, NEW d, NEW w, NEW i, NEW b, NEW z, NEW x, NEW h,
           h = [asm |-> a, own |-> o, name |-> n, depth |-> d, at |-> w, i |-> i, base |-> b, zero |-> z]
    PROVE  /\ [h EXCEPT !.at = x]
              = [asm |-> a, own |-> o, name |-> n, depth |-> d, at |-> x, i |-> i, base |-> b, zero |-> z]
           /\ [h EXCEPT !.i = x]
              = [asm |-> a, own |-> o, name |-> n, depth |-> d, at |-> w, i |-> x, base |-> b, zero |-> z]
           /\ [h EXCEPT !.own = x]
              = [asm |-> a, own |-> x, name |-> n, depth |-> d, at |-> w, i |-> i, base |-> b, zero |-> z]
           /\ [h EXCEPT !.base = x]
              = [asm |-> a, own |-> o, name |-> n, depth |-> d, at |-> w, i |-> i, base |-> x, zero |-> z]
           /\ [h EXCEPT !.zero = x]
              = [asm |-> a, own |-> o, name |-> n, depth |-> d, at |-> w, i |-> i, base |-> b, zero |-> x]
  OBVIOUS

LEMMA AtUpdate ==
    ASSUME NEW g \in FrameType, NEW w
    PROVE  [g EXCEPT !.at = w]
              = [asm |-> g.asm, own |-> g.own, name |-> g.name, depth |-> g.depth,
                 at |-> w, i |-> g.i, base |-> g.base, zero |-> g.zero]
<1>1. PICK a, o, n, d, v, i, b, z :
         g = [asm |-> a, own |-> o, name |-> n, depth |-> d, at |-> v, i |-> i, base |-> b, zero |-> z]
  BY DEF FrameType
<1>2. /\ g.asm = a /\ g.own = o /\ g.name = n /\ g.depth = d
      /\ g.i = i /\ g.base = b /\ g.zero = z
  BY <1>1
<1>3. [g EXCEPT !.at = w]
         = [asm |-> a, own |-> o, name |-> n, depth |-> d, at |-> w, i |-> i, base |-> b, zero |-> z]
  BY <1>1, FrameFields
<1>4. QED
  BY <1>2, <1>3

LEMMA OwnUpdate ==
    ASSUME NEW g \in FrameType, NEW w, NEW x
    PROVE  [g EXCEPT !.at = w, !.own = x]
              = [asm |-> g.asm, own |-> x, name |-> g.name, depth |-> g.depth,
                 at |-> w, i |-> g.i, base |-> g.base, zero |-> g.zero]
<1>1. PICK h : h = [g EXCEPT !.at = w]
  OBVIOUS
<1>2. h = [asm |-> g.asm, own |-> g.own, name |-> g.name, depth |-> g.depth,
           at |-> w, i |-> g.i, base |-> g.base, zero |-> g.zero]
  BY <1>1, AtUpdate
<1>3. [h EXCEPT !.own = x]
         = [asm |-> g.asm, own |-> x, name |-> g.name, depth |-> g.depth,
            at |-> w, i |-> g.i, base |-> g.base, zero |-> g.zero]
  BY <1>2, FrameFields
<1>4. QED
  BY <1>1, <1>3

LEMMA NextUpdate ==
    ASSUME NEW g \in FrameType, NEW w, NEW x
    PROVE  [g EXCEPT !.at = w, !.i = x]
              = [asm |-> g.asm, own |-> g.own, name |-> g.name, depth |-> g.depth,
                 at |-> w, i |-> x, base |-> g.base, zero |-> g.zero]
<1>1. PICK h : h = [g EXCEPT !.at = w]
  OBVIOUS
<1>2. h = [asm |-> g.asm, own |-> g.own, name |-> g.name, depth |-> g.depth,
           at |-> w, i |-> g.i, base |-> g.base, zero |-> g.zero]
  BY <1>1, AtUpdate
<1>3. [h EXCEPT !.i = x]
         = [asm |-> g.asm, own |-> g.own, name |-> g.name, depth |-> g.depth,
            at |-> w, i |-> x, base |-> g.base, zero |-> g.zero]
  BY <1>2, FrameFields
<1>4. QED
  BY <1>1, <1>3

LEMMA BaseUpdate ==
    ASSUME NEW g \in FrameType, NEW w, NEW x
    PROVE  [g EXCEPT !.at = w, !.base = x]
              = [asm |-> g.asm, own |-> g.own, name |-> g.name, depth |-> g.depth,
                 at |-> w, i |-> g.i, base |-> x, zero |-> g.zero]
<1>1. PICK h : h = [g EXCEPT !.at = w]
  OBVIOUS
<1>2. h = [asm |-> g.asm, own |-> g.own, name |-> g.name, depth |-> g.depth,
           at |-> w, i |-> g.i, base |-> g.base, zero |-> g.zero]
  BY <1>1, AtUpdate
<1>3. [h EXCEPT !.base = x]
         = [asm |-> g.asm, own |-> g.own, name |-> g.name, depth |-> g.depth,
            at |-> w, i |-> g.i, base |-> x, zero |-> g.zero]
  BY <1>2, FrameFields
<1>4. QED
  BY <1>1, <1>3

LEMMA ZeroUpdate ==
    ASSUME NEW g \in FrameType, NEW w, NEW x
    PROVE  [g EXCEPT !.at = w, !.zero = x]
              = [asm |-> g.asm, own |-> g.own, name |-> g.name, depth |-> g.depth,
                 at |-> w, i |-> g.i, base |-> g.base, zero |-> x]
<1>1. PICK h : h = [g EXCEPT !.at = w]
  OBVIOUS
<1>2. h = [asm |-> g.asm, own |-> g.own, name |-> g.name, depth |-> g.depth,
           at |-> w, i |-> g.i, base |-> g.base, zero |-> g.zero]
  BY <1>1, AtUpdate
<1>3. [h EXCEPT !.zero = x]
         = [asm |-> g.asm, own |-> g.own, name |-> g.name, depth |-> g.depth,
            at |-> w, i |-> g.i, base |-> g.base, zero |-> x]
  BY <1>2, FrameFields
<1>4. QED
  BY <1>1, <1>3

\* The steps that end in another state of the same look-up, without a call.
LEMMA BecomesSteps ==
    ASSUME IInv, NEW p \in Procs,
           \/ FindsOwn(p) \/ NotOwn(p) \/ DepHasNot(p) \/ FindsInIndex(p)
           \/ NoBase(p) \/ GotBase(p) \/ NoField(p) \/ GotField(p)
    PROVE  IInv'
<1> USE TypeResolveAssumption
<1>0. Running(p)
  BY DEF FindsOwn, NotOwn, DepHasNot, FindsInIndex, NoBase, GotBase, NoField, GotField, At
<1>1. PICK g \in FrameType :
             /\ g = Top(p) /\ FrameKnows(g)
             /\ g.asm \in Asms /\ g.own \in Asms /\ g.name \in Names /\ g.depth \in 0..MaxDepth
             /\ g.i \in Nat \ {0} /\ g.base \in BOOLEAN
             /\ g.at \in Waiting => Answers(AskedAsm(g), AskedName(g), ret[p])
  BY <1>0, Runs
<1>2. g.zero \in BOOLEAN
  BY DEF FrameType
<1>3. ASSUME NEW o \in Asms, NEW w \in Wheres \ Waiting, NEW i \in Nat \ {0},
             NEW b \in BOOLEAN, NEW z \in BOOLEAN, NEW f,
             f = [asm |-> g.asm, own |-> o, name |-> g.name, depth |-> g.depth, at |-> w,
                  i |-> i, base |-> b, zero |-> z],
             Becomes(p, f), FrameKnows(f)
      PROVE  IInv'
  <2>1. f \in FrameType
    BY <1>1, <1>3 DEF FrameType
  <2>2. f.at \notin Waiting /\ f.asm = Top(p).asm /\ f.name = Top(p).name
    BY <1>1, <1>3
  <2>3. QED
    BY <1>0, <1>3, <2>1, <2>2, BecomesStep
<1>30. \A w \in {"lookup", "deps", "base", "field", "store"} : w \in Wheres \ Waiting
  BY DEF Wheres, Waiting
<1>4. CASE FindsOwn(p)
  <2> DEFINE f == [asm |-> g.asm, own |-> g.own, name |-> g.name, depth |-> g.depth, at |-> "base",
                   i |-> g.i, base |-> g.base, zero |-> g.zero]
  <2>1. Becomes(p, f)
    BY <1>1, <1>4, AtUpdate DEF FindsOwn
  <2>2. g.at = "lookup" /\ g.name \in Declares[g.asm] \ Native
    BY <1>1, <1>4 DEF FindsOwn, At
  <2>3. FrameKnows(f)
    BY <1>1, <2>2 DEF FrameKnows, Building
  <2>4. QED
    BY <1>1, <1>2, <1>3, <2>1, <2>3, <1>30
<1>5. CASE NotOwn(p)
  <2> DEFINE f == [asm |-> g.asm, own |-> g.own, name |-> g.name, depth |-> g.depth, at |-> "deps",
                   i |-> g.i, base |-> g.base, zero |-> g.zero]
  <2>1. Becomes(p, f)
    BY <1>1, <1>5, AtUpdate DEF NotOwn
  <2>2. g.at = "lookup" /\ g.name \notin Native \union Declares[g.asm]
    BY <1>1, <1>5 DEF NotOwn, At
  <2>3. FrameKnows(f)
    BY <1>1, <2>2 DEF FrameKnows, Sought
  <2>4. QED
    BY <1>1, <1>2, <1>3, <2>1, <2>3, <1>30
<1>6. CASE DepHasNot(p)
  <2> DEFINE f == [asm |-> g.asm, own |-> g.own, name |-> g.name, depth |-> g.depth, at |-> "deps",
                   i |-> g.i + 1, base |-> g.base, zero |-> g.zero]
  <2>1. Becomes(p, f)
    BY <1>1, <1>6, NextUpdate, ZenonT(60) DEF DepHasNot
  <2>2. g.at = "gotDep" /\ ret[p] = None
    BY <1>1, <1>6 DEF DepHasNot, At
  <2>3. Sought(g) /\ g.i \in DOMAIN deps[g.asm]
    BY <1>1, <2>2 DEF FrameKnows
  <2>4. ~Findable(deps[g.asm][g.i], g.name)
    BY <1>1, <2>2 DEF Answers, AskedAsm, AskedName, Waiting
  <2>5. Sought(f)
    <3>1. \A j \in 1..g.i : j \in DOMAIN deps[g.asm] /\ ~Findable(deps[g.asm][j], g.name)
      <4> TAKE j \in 1..g.i
      <4>1. CASE j = g.i
        BY <2>3, <2>4, <4>1
      <4>2. CASE j # g.i
        <5>1. j \in 1..(g.i - 1)
          BY <1>1, <4>2
        <5>2. QED
          BY <2>3, <5>1 DEF Sought
      <4>3. QED
        BY <4>1, <4>2
    <3>2. (g.i + 1) - 1 = g.i
      BY <1>1
    <3>3. QED
      BY <2>3, <3>1, <3>2 DEF Sought
  <2>6. FrameKnows(f)
    BY <2>5 DEF FrameKnows
  <2>7. g.i + 1 \in Nat \ {0}
    BY <1>1
  <2>8. QED
    BY <1>1, <1>2, <1>3, <2>1, <2>6, <2>7, <1>30
<1>7. CASE FindsInIndex(p)
  <2>1. PICK o : o = IndexOwner(g)
    OBVIOUS
  <2> DEFINE f == [asm |-> g.asm, own |-> o, name |-> g.name, depth |-> g.depth, at |-> "base",
                   i |-> g.i, base |-> g.base, zero |-> g.zero]
  <2>2. Becomes(p, f)
    <3>1. Becomes(p, [g EXCEPT !.at = "base", !.own = o])
      BY <1>1, <1>7, <2>1 DEF FindsInIndex
    <3>2. [g EXCEPT !.at = "base", !.own = o] = f
      BY OwnUpdate, Zenon
    <3>3. QED
      BY <3>1, <3>2, Zenon
  <2>3. g.at = "deps" /\ g.i > Len(deps[g.asm]) /\ o # None
    BY <1>1, <1>7, <2>1 DEF FindsInIndex, At
  <2>4. g.asm \in joined /\ index[g.name] = o
    BY <2>1, <2>3 DEF IndexOwner
  <2>5. o \in Asms /\ g.name \in Declares[o]
    BY <1>1, <2>3, <2>4 DEF IInv, TypeOK
  <2>6. Sought(g)
    BY <1>1, <2>3 DEF FrameKnows
  <2>7. \A b \in Reach(g.asm) : g.name \notin Declares[b]
    BY <2>3, <2>6, SoughtEverywhere
  <2>8. Building(f)
    BY <2>4, <2>5, <2>6, <2>7 DEF Building, LastResort, Sought
  <2>9. FrameKnows(f)
    BY <2>8 DEF FrameKnows
  <2>10. QED
    BY <1>1, <1>2, <1>3, <2>2, <2>5, <2>9, <1>30
<1>8. CASE NoBase(p)
  <2> DEFINE f == [asm |-> g.asm, own |-> g.own, name |-> g.name, depth |-> g.depth, at |-> "field",
                   i |-> g.i, base |-> g.base, zero |-> g.zero]
  <2>1. Becomes(p, f)
    BY <1>1, <1>8, AtUpdate DEF NoBase
  <2>2. g.at = "base" /\ Base[g.name] = None
    BY <1>1, <1>8 DEF NoBase, At
  <2>3. FrameKnows(f)
    BY <1>1, <2>2 DEF FrameKnows, Building, LastResort
  <2>4. QED
    BY <1>1, <1>2, <1>3, <2>1, <2>3, <1>30
<1>9. CASE GotBase(p)
  <2>1. PICK b \in BOOLEAN : b <=> ret[p] # None
    OBVIOUS
  <2> DEFINE f == [asm |-> g.asm, own |-> g.own, name |-> g.name, depth |-> g.depth, at |-> "field",
                   i |-> g.i, base |-> b, zero |-> g.zero]
  <2>2. Becomes(p, f)
    <3>1. b = (ret[p] # None)
      BY <2>1
    <3>2. Becomes(p, [g EXCEPT !.at = "field", !.base = b])
      BY <1>1, <1>9, <3>1 DEF GotBase
    <3>3. [g EXCEPT !.at = "field", !.base = b] = f
      BY BaseUpdate, Zenon
    <3>4. QED
      BY <3>2, <3>3, Zenon
  <2>3. g.at = "gotBase"
    BY <1>1, <1>9 DEF GotBase, At
  <2>4. Building(g) /\ Base[g.name] # None
    BY <1>1, <2>3 DEF FrameKnows
  <2>5. Answers(g.own, Base[g.name], ret[p])
    BY <1>1, <2>3 DEF AskedAsm, AskedName, Waiting
  <2>6. Findable(g.own, Base[g.name]) => b
    BY <2>1, <2>5 DEF Answers
  <2>7. FrameKnows(f)
    BY <2>4, <2>6 DEF FrameKnows, Building, LastResort
  <2>8. QED
    BY <1>1, <1>2, <1>3, <2>2, <2>7, <1>30
<1>10. ASSUME NEW z \in BOOLEAN, Becomes(p, [g EXCEPT !.at = "store", !.zero = z]),
              g.at \in {"field", "gotField"}
       PROVE  IInv'
  <2> DEFINE f == [asm |-> g.asm, own |-> g.own, name |-> g.name, depth |-> g.depth, at |-> "store",
                   i |-> g.i, base |-> g.base, zero |-> z]
  <2>1. Becomes(p, f)
    <3>1. [g EXCEPT !.at = "store", !.zero = z] = f
      BY ZeroUpdate, Zenon
    <3>2. QED
      BY <1>10, <3>1, Zenon
  <2>2. Building(g) /\ (Base[g.name] # None /\ Findable(g.own, Base[g.name]) => g.base)
    BY <1>1, <1>10 DEF FrameKnows
  <2>3. FrameKnows(f)
    BY <2>2 DEF FrameKnows, Building, LastResort
  <2>4. QED
    BY <1>1, <1>3, <2>1, <2>3 DEF Wheres, Waiting
<1>11. CASE NoField(p)
  <2>1. PICK z : z = (~TooDeep(g) /\ Field[g.name] # None)
    OBVIOUS
  <2>2. z \in BOOLEAN
    BY <2>1
  <2>3. Becomes(p, [g EXCEPT !.at = "store", !.zero = z])
    BY <1>1, <1>11, <2>1 DEF NoField
  <2>4. g.at = "field"
    BY <1>1, <1>11 DEF NoField, At
  <2>5. QED
    BY <1>10, <2>2, <2>3, <2>4
<1>12. CASE GotField(p)
  <2>1. PICK z : z = (ret[p] # None)
    OBVIOUS
  <2>2. z \in BOOLEAN
    BY <2>1
  <2>3. Becomes(p, [g EXCEPT !.at = "store", !.zero = z])
    BY <1>1, <1>12, <2>1 DEF GotField
  <2>4. g.at = "gotField"
    BY <1>1, <1>12 DEF GotField, At
  <2>5. QED
    BY <1>10, <2>2, <2>3, <2>4
<1>13. QED
  BY <1>4, <1>5, <1>6, <1>7, <1>8, <1>9, <1>11, <1>12

\* The steps that ask for another type first.
LEMMA EnterSteps ==
    ASSUME IInv, NEW p \in Procs, AskDep(p) \/ AskBase(p) \/ AskField(p)
    PROVE  IInv'
<1> USE TypeResolveAssumption
<1>0. Running(p)
  BY DEF AskDep, AskBase, AskField, At
<1>1. PICK g \in FrameType :
             /\ g = Top(p) /\ FrameKnows(g)
             /\ g.asm \in Asms /\ g.own \in Asms /\ g.name \in Names /\ g.depth \in 0..MaxDepth
             /\ g.i \in Nat \ {0} /\ g.base \in BOOLEAN
  BY <1>0, Runs
<1>2. g.zero \in BOOLEAN
  BY DEF FrameType
<1>3. ASSUME NEW w \in Waiting, NEW f, NEW a \in Asms, NEW n \in Names, NEW d \in 0..MaxDepth,
             f = [asm |-> g.asm, own |-> g.own, name |-> g.name, depth |-> g.depth, at |-> w,
                  i |-> g.i, base |-> g.base, zero |-> g.zero],
             Enter(p, f, Frame(a, n, d)), FrameKnows(f), a = AskedAsm(f), n = AskedName(f)
      PROVE  IInv'
  <2>1. f \in FrameType
    BY <1>1, <1>2, <1>3 DEF FrameType, Wheres, Waiting
  <2>2. f.at \in Waiting /\ f.asm = Top(p).asm /\ f.name = Top(p).name
    BY <1>1, <1>3
  <2>3. PICK c : c = Frame(a, n, d)
    OBVIOUS
  <2>4. c \in FrameType /\ FrameKnows(c) /\ c.at \notin Waiting /\ c.asm = a /\ c.name = n
    BY <2>3, NewFrame
  <2>5. QED
    BY <1>0, <1>3, <2>1, <2>2, <2>3, <2>4, EnterStep
<1>4. CASE AskDep(p)
  <2> DEFINE f == [asm |-> g.asm, own |-> g.own, name |-> g.name, depth |-> g.depth, at |-> "gotDep",
                   i |-> g.i, base |-> g.base, zero |-> g.zero]
  <2>1. Enter(p, f, Frame(deps[g.asm][g.i], g.name, 0))
    BY <1>1, <1>4, AtUpdate DEF AskDep
  <2>2. g.at = "deps" /\ g.i <= Len(deps[g.asm])
    BY <1>1, <1>4 DEF AskDep, At
  <2>3. deps[g.asm] \in Seq(Asms)
    BY <1>1 DEF IInv, TypeOK
  <2>4. g.i \in DOMAIN deps[g.asm] /\ deps[g.asm][g.i] \in Asms
    BY <1>1, <2>2, <2>3
  <2>5. FrameKnows(f)
    BY <1>1, <2>2, <2>4 DEF FrameKnows, Sought
  <2>6. AskedAsm(f) = deps[g.asm][g.i] /\ AskedName(f) = g.name
    BY DEF AskedAsm, AskedName
  <2>7. QED
    BY <1>1, <1>3, <2>1, <2>4, <2>5, <2>6 DEF Waiting
<1>5. CASE AskBase(p)
  <2> DEFINE f == [asm |-> g.asm, own |-> g.own, name |-> g.name, depth |-> g.depth, at |-> "gotBase",
                   i |-> g.i, base |-> g.base, zero |-> g.zero]
  <2>1. Enter(p, f, Frame(g.own, Base[g.name], 0))
    BY <1>1, <1>5, AtUpdate DEF AskBase
  <2>2. g.at = "base" /\ Base[g.name] # None
    BY <1>1, <1>5 DEF AskBase, At
  <2>3. Base[g.name] \in Names
    BY <1>1, <2>2
  <2>4. FrameKnows(f)
    BY <1>1, <2>2 DEF FrameKnows, Building, LastResort
  <2>5. AskedAsm(f) = g.own /\ AskedName(f) = Base[g.name]
    BY DEF AskedAsm, AskedName
  <2>6. QED
    BY <1>1, <1>3, <2>1, <2>3, <2>4, <2>5 DEF Waiting
<1>6. CASE AskField(p)
  <2> DEFINE f == [asm |-> g.asm, own |-> g.own, name |-> g.name, depth |-> g.depth, at |-> "gotField",
                   i |-> g.i, base |-> g.base, zero |-> g.zero]
  <2>1. Enter(p, f, Frame(g.own, Field[g.name], g.depth + 1))
    BY <1>1, <1>6, AtUpdate DEF AskField
  <2>2. g.at = "field" /\ Field[g.name] # None /\ ~TooDeep(g)
    BY <1>1, <1>6 DEF AskField, At
  <2>3. Field[g.name] \in Names
    BY <1>1, <2>2
  <2>4. g.depth + 1 \in 0..MaxDepth
    BY <1>1, <2>2 DEF TooDeep
  <2>5. FrameKnows(f)
    BY <1>1, <2>2 DEF FrameKnows, Building, LastResort
  <2>6. AskedAsm(f) = g.own /\ AskedName(f) = Field[g.name]
    BY DEF AskedAsm, AskedName
  <2>7. QED
    BY <1>1, <1>3, <2>1, <2>3, <2>4, <2>5, <2>6 DEF Waiting
<1>7. QED
  BY <1>4, <1>5, <1>6

-----------------------------------------------------------------------------
(* Before the first call.                                                  *)

IndexIsRight == \A n \in Names : index[n] # None => n \in Declares[index[n]]

LEMMA QuietInv == ShapesOK /\ IndexIsRight /\ Untouched => IInv
<1> SUFFICES ASSUME ShapesOK, IndexIsRight, Untouched PROVE IInv
  OBVIOUS
<1>1. TypeOK /\ Shapes
  BY ShapesAreTypes DEF ShapesOK
<1>2. \A p \in Procs : stack[p] = <<>> /\ ret[p] = None
  BY DEF Untouched, Idle
<1>3. \A a \in Asms, n \in Names : types[a][n] = None
  BY DEF Untouched
<1>4. CachedAreOwn
  BY <1>3 DEF CachedAreOwn
<1>5. FramesKnow
  <2> SUFFICES ASSUME NEW p \in Procs
               PROVE  1..Len(stack[p]) = {} /\ 1..(Len(stack[p]) - 1) = {}
    BY DEF FramesKnow
  <2>1. Len(stack[p]) = 0
    BY <1>2
  <2>2. QED
    BY <2>1
<1>6. ReturnsAreRight
  BY <1>2 DEF ReturnsAreRight
<1>7. QED
  BY <1>1, <1>4, <1>5, <1>6 DEF IInv, IndexIsRight

LEMMA InitIInv == Init => IInv
<1> USE TypeResolveAssumption
<1> SUFFICES ASSUME Init PROVE IInv
  OBVIOUS
<1>1. deps \in [Asms -> Seq(Asms)]
  <2>1. ASSUME NEW a \in Packages PROVE PackageDeps[a] \in Seq(Asms)
    <3>1. PICK s \in Seq(Packages) : s = PackageDeps[a]
      OBVIOUS
    <3>2. s \in Seq(Asms)
      OBVIOUS
    <3>3. QED
      BY <3>1, <3>2
  <2>2. <<>> \in Seq(Asms)
    OBVIOUS
  <2>3. QED
    BY <2>1, <2>2 DEF Init
<1>2. index \in [Names -> Asms \union {None}] /\ joined \subseteq Asms
  BY DEF Init
<1>3. /\ types \in [Asms -> [Names -> Type \union {None}]]
      /\ impls \in [Asms -> [Names -> Names \union {None, Unknown}]]
      /\ walk \in [Procs -> WalkType \union {None}]
      /\ ret \in [Procs -> Type \union {None}]
  BY DEF Init
<1>4. stack \in [Procs -> Seq(FrameType)]
  <2>1. <<>> \in Seq(FrameType)
    OBVIOUS
  <2>2. QED
    BY <2>1 DEF Init
<1>5. ShapesOK
  BY <1>1, <1>2, <1>3, <1>4 DEF ShapesOK, Shapes, Init
<1>6. IndexIsRight
  BY DEF Init, IndexIsRight
<1>7. Untouched
  BY DEF Init, Untouched, Idle
<1>8. QED
  BY <1>5, <1>6, <1>7, QuietInv

LEMMA AttachStep ==
    ASSUME ~AttachLate, IInv, NEW a \in Asms, NEW b \in Asms, Attach(a, b)
    PROVE  IInv' /\ UNCHANGED <<types, impls, stack, walk, ret>>
<1> USE TypeResolveAssumption
<1>1. Untouched /\ UNCHANGED <<types, impls, stack, walk, ret>>
  BY DEF Attach
<1>2. Untouched'
  BY <1>1 DEF Untouched, Idle
<1>3. deps' \in [Asms -> Seq(Asms)]
  <2>1. deps' = [deps EXCEPT ![a] = Append(@, b)] /\ deps \in [Asms -> Seq(Asms)]
    BY DEF Attach, IInv, TypeOK
  <2>2. Append(deps[a], b) \in Seq(Asms)
    BY <2>1
  <2>3. QED
    BY <2>1, <2>2
<1>4. /\ index' \in [Names -> Asms \union {None}] /\ joined' \subseteq Asms
      /\ IndexIsRight'
  <2>0. index \in [Names -> Asms \union {None}] /\ joined \subseteq Asms /\ IndexIsRight
    BY DEF IInv, TypeOK, IndexIsRight
  <2>1. CASE a \in joined \/ b \in joined
    <3>1. /\ joined' = joined \union {a}
          /\ index' = [n \in Names |-> IF n \in Declares[a] /\ index[n] = None THEN a ELSE index[n]]
      BY <2>1 DEF Attach
    <3>2. index' \in [Names -> Asms \union {None}] /\ joined' \subseteq Asms
      BY <2>0, <3>1
    <3>3. \A n \in Names : index'[n] # None => n \in Declares[index'[n]]
      BY <2>0, <3>1 DEF IndexIsRight
    <3>4. QED
      BY <3>2, <3>3 DEF IndexIsRight
  <2>2. CASE ~(a \in joined \/ b \in joined)
    <3>1. index' = index /\ joined' = joined
      BY <2>2 DEF Attach
    <3>2. QED
      BY <2>0, <3>1 DEF IndexIsRight
  <2>3. QED
    BY <2>1, <2>2
<1>5. ShapesOK'
  <2>1. Shapes /\ (\A p \in Procs : walk[p] # None => walk[p].cur \in walk[p].seen)
    BY DEF IInv, TypeOK
  <2>2. QED
    BY <1>1, <1>3, <1>4, <2>1 DEF ShapesOK, Shapes
<1>6. IInv'
  BY <1>2, <1>4, <1>5, QuietInv, PTL
<1>7. QED
  BY <1>1, <1>6

-----------------------------------------------------------------------------
(* The theorems.                                                           *)

LEMMA NextIInv ==
    ASSUME ~AttachLate, IInv, [Next]_vars
    PROVE  /\ IInv'
           /\ \A a \in Asms, n \in Names : types[a][n] # None => types'[a][n] = types[a][n]
<1>1. CASE UNCHANGED vars
  <2>1. deps' = deps /\ index' = index /\ joined' = joined /\ types' = types /\ impls' = impls
        /\ stack' = stack /\ walk' = walk /\ ret' = ret
    BY <1>1 DEF vars
  <2>2. TypeOK' /\ Shapes'
    BY <2>1 DEF IInv, TypeOK, Shapes
  <2>3. CachedAreOwn'
    BY <2>1, SameCaches DEF World
  <2>4. FramesKnow'
    BY <2>1 DEF IInv, FramesKnow, FrameKnows, Sought, Building, LastResort, AskedAsm, AskedName,
                Findable, Known, Reach, Closed
  <2>5. ReturnsAreRight'
    <3>1. ASSUME NEW p \in Procs
          PROVE  ret'[p] # None /\ ret'[p].owner # None => types'[ret'[p].owner][ret'[p].name] = ret'[p]
      BY <2>1 DEF IInv, ReturnsAreRight
    <3>2. ASSUME NEW p \in Procs, stack'[p] # <<>>, Top(p)'.at \in Waiting
          PROVE  Answers(AskedAsm(Top(p)), AskedName(Top(p)), ret[p])'
      <4>1. Answers(AskedAsm(Top(p)), AskedName(Top(p)), ret[p])
        BY <2>1, <3>2 DEF IInv, ReturnsAreRight, Top
      <4>2. Answers(AskedAsm(Top(p)), AskedName(Top(p)), ret[p])' <=>
            Answers(AskedAsm(Top(p)), AskedName(Top(p)), ret[p])
        BY <2>1 DEF Top, AskedAsm, AskedName, Answers, Findable, Known, Reach, Closed
      <4>3. QED
        BY <4>1, <4>2
    <3>3. QED
      BY <3>1, <3>2 DEF ReturnsAreRight
  <2>6. QED
    BY <2>1, <2>2, <2>3, <2>4, <2>5 DEF IInv
<1>2. ASSUME NEW p \in Procs, Step(p)
      PROVE  /\ IInv'
             /\ \A a \in Asms, n \in Names : types[a][n] # None => types'[a][n] = types[a][n]
  <2>1. CASE Store(p)
    BY <2>1, StoreStep
  <2>2. CASE ~Store(p)
    <3>1. UNCHANGED types
      BY <1>2, <2>2
         DEF Step, Deliver, Hit, FindsNative, FindsOwn, NotOwn, AskDep, DepHas, DepHasNot, FindsInIndex,
             FindsNowhere, NoBase, AskBase, GotBase, NoField, AskField, GotField, WalkFinds,
             WalkAsks, WalkUp, WalkEnds, Becomes, Enter, StoreImpl
    <3>2. IInv'
      BY <1>2, <2>2, DeliverStep, ReturnSteps, BecomesSteps, EnterSteps, WalkStep DEF Step
    <3>3. QED
      BY <3>1, <3>2
  <2>3. QED
    BY <2>1, <2>2
<1>3. ASSUME NEW p \in Procs, NEW a \in Asms, NEW n \in Names, CallType(p, a, n) \/ CallImpl(p, a, n)
      PROVE  IInv' /\ UNCHANGED types
  BY <1>3, CallStep DEF CallType, CallImpl
<1>4. ASSUME NEW a \in Asms, NEW b \in Asms, Attach(a, b)
      PROVE  IInv' /\ UNCHANGED types
  BY <1>4, AttachStep
<1>5. QED
  BY <1>1, <1>2, <1>3, <1>4 DEF Next

\* What the frames of a look-up know, what the caches hold and what is returned
\* agree, in every reachable state (resolveTypeByFullNameAt, buildType, while all
\* dependencies are attached before the first call).
THEOREM Invariance == ASSUME ~AttachLate PROVE Spec => []IInv
<1>1. IInv /\ [Next]_vars => IInv'
  BY NextIInv
<1>2. QED
  BY <1>1, InitIInv, PTL DEF Spec

\* No order of calls freezes an incomplete layout (buildType's base fields).
THEOREM LayoutsAreComplete == ASSUME ~AttachLate PROVE Spec => []LayoutIsComplete
<1>1. IInv => LayoutIsComplete
  BY DEF IInv, CachedAreOwn, LayoutIsComplete
<1>2. QED
  BY <1>1, Invariance, PTL

\* A look-up that ends answers what was asked.
LEMMA AnswerStep ==
    ASSUME ~AttachLate, IInv, [Next]_vars, NEW p \in Procs, Len(stack'[p]) < Len(stack[p])
    PROVE  Answers(Top(p).asm, Top(p).name, ret'[p])
<1> USE TypeResolveAssumption
<1>0. /\ stack \in [Procs -> Seq(FrameType)] /\ ret \in [Procs -> Type \union {None}]
      /\ Len(stack[p]) \in Nat
  <2>1. stack \in [Procs -> Seq(FrameType)] /\ ret \in [Procs -> Type \union {None}]
    BY DEF IInv, Shapes
  <2>2. PICK s \in Seq(FrameType) : s = stack[p]
    BY <2>1
  <2>3. Len(s) \in Nat
    OBVIOUS
  <2>4. QED
    BY <2>1, <2>2, <2>3
<1>1. stack'[p] # stack[p] /\ stack' # stack
  BY <1>0
<1>2. PICK q \in Procs : Step(q) \/ (\E a \in Asms, n \in Names : CallType(q, a, n) \/ CallImpl(q, a, n))
  BY <1>1, AttachStep DEF Next, vars
<1>3. q = p
  <2> SUFFICES ASSUME q # p PROVE stack'[p] = stack[p]
    BY <1>1
  <2>1. CASE \E s : stack' = [stack EXCEPT ![q] = s]
    BY <1>0, <2>1
  <2>2. CASE stack' = stack
    BY <2>2
  <2>3. (\E s : stack' = [stack EXCEPT ![q] = s]) \/ stack' = stack
    <3>1. ASSUME NEW f, NEW c, NEW t,
                 \/ stack' = [stack EXCEPT ![q][Len(stack[q])] = f]
                 \/ stack' = [stack EXCEPT ![q] = Append([@ EXCEPT ![Len(@)] = f], c)]
                 \/ stack' = [stack EXCEPT ![q] = SubSeq(@, 1, Len(@) - 1)]
                 \/ stack' = [stack EXCEPT ![q] = <<t>>]
          PROVE  \E s : stack' = [stack EXCEPT ![q] = s]
      BY <1>0, <3>1
    <3>2. QED
      BY <1>2, <3>1
         DEF Step, Deliver, Hit, FindsNative, FindsOwn, NotOwn, AskDep, DepHas, DepHasNot, FindsInIndex,
             FindsNowhere, NoBase, AskBase, GotBase, NoField, AskField, GotField, Store, WalkFinds,
             WalkAsks, WalkUp, WalkEnds, Becomes, Enter, Return, StoreImpl, CallType, CallImpl
  <2>4. QED
    BY <2>1, <2>2, <2>3
<1>4. ASSUME NEW f, Becomes(p, f) PROVE FALSE
  <2>1. Len(stack'[p]) = Len(stack[p])
    BY <1>0, <1>4 DEF Becomes
  <2>2. QED
    BY <1>0, <2>1
<1>5. ASSUME NEW f, NEW c, Enter(p, f, c), Running(p) PROVE FALSE
  <2> DEFINE S == FrameType \union {f, c}
  <2>1. PICK s \in Seq(S) : s = stack[p] /\ s # <<>>
    BY <1>0, <1>5 DEF Running
  <2>2. stack'[p] = Append([s EXCEPT ![Len(s)] = f], c)
    BY <1>0, <1>5, <2>1 DEF Enter
  <2>3. PICK u \in Seq(S) : u = [s EXCEPT ![Len(s)] = f] /\ Len(u) = Len(s)
    <3> DEFINE u == [s EXCEPT ![Len(s)] = f]
    <3>1. f \in S
      OBVIOUS
    <3> HIDE DEF S
    <3>2. u \in Seq(S) /\ Len(u) = Len(s)
      BY <2>1, <3>1
    <3>3. QED
      BY <3>2
  <2>4. Len(Append(u, c)) = Len(u) + 1
    OBVIOUS
  <2>5. QED
    BY <1>0, <2>1, <2>2, <2>3, <2>4
<1>6. ASSUME NEW t, Return(p, t), Answers(Top(p).asm, Top(p).name, t)
      PROVE  Answers(Top(p).asm, Top(p).name, ret'[p])
  <2>1. ret'[p] = t
    BY <1>0, <1>6 DEF Return
  <2>2. QED
    BY <1>6, <2>1
<1>7. CASE Hit(p)
  BY <1>6, <1>7, HitAnswers DEF Hit, At
<1>8. CASE FindsNative(p)
  <2>1. Top(p).name \in Names
    BY <1>8, Runs DEF FindsNative, At
  <2>2. QED
    BY <1>6, <1>8, <2>1, NativeAnswers DEF FindsNative
<1>9. CASE DepHas(p)
  BY <1>6, <1>9, DepAnswers DEF DepHas
<1>10. CASE FindsNowhere(p)
  BY <1>6, <1>10, NowhereAnswers DEF FindsNowhere
<1>11. CASE Store(p)
  <2>1. Return(p, Kept(p)) /\ At(p, "store")
    BY <1>11 DEF Store, Kept
  <2>2. QED
    BY <1>6, <2>1, KeptAnswers
<1>12. CASE \E f : Becomes(p, f)
  BY <1>4, <1>12
<1>13. CASE AskDep(p) \/ AskBase(p) \/ AskField(p)
  BY <1>5, <1>13 DEF AskDep, AskBase, AskField, At
<1>14. CASE stack[p] = <<>>
  BY <1>0, <1>14
<1>15. QED
  <2>1. \/ Hit(p) \/ FindsNative(p) \/ DepHas(p) \/ FindsNowhere(p) \/ Store(p)
        \/ (\E f : Becomes(p, f))
        \/ AskDep(p) \/ AskBase(p) \/ AskField(p)
        \/ stack[p] = <<>>
    BY <1>2, <1>3
       DEF Step, Deliver, FindsOwn, NotOwn, DepHasNot, FindsInIndex, NoBase, GotBase, NoField, GotField,
           WalkFinds, WalkAsks, WalkUp, WalkEnds, Walking, CallType, CallImpl, Idle
  <2>2. QED
    BY <1>7, <1>8, <1>9, <1>10, <1>11, <1>12, <1>13, <1>14, <2>1

\* Every look-up ends as RightDeclaration says, however many goroutines look up at
\* once and whatever the graph of dependencies (resolveTypeByFullNameAt).
THEOREM LookupsEndRight == ASSUME ~AttachLate PROVE Spec => RightDeclaration
<1>1. ASSUME IInv, [Next]_vars
      PROVE  /\ \A a \in Asms, n \in Names : types[a][n] # None => types'[a][n] = types[a][n]
             /\ \A p \in Procs : LET t == ret'[p]
                                 IN  t # None /\ t.owner # None => types'[t.owner][t.name] = t
  <2>1. IInv'
    BY <1>1, NextIInv
  <2>2. QED
    BY <1>1, <2>1, NextIInv DEF IInv, ReturnsAreRight
<1>2. ASSUME IInv, [Next]_vars
      PROVE  \A p \in Procs : Len(stack'[p]) < Len(stack[p]) =>
                LET f == Top(p)
                    t == ret'[p]
                IN  IF t = None THEN ~Findable(f.asm, f.name)
                    ELSE /\ t.name = f.name
                         /\ f.name \in Declares[f.asm] \ Native => t.owner = f.asm
  BY <1>2, AnswerStep DEF Answers
<1>3. ASSUME IInv
      PROVE  \A p \in Procs : \A k \in DOMAIN stack[p] :
                LET f == stack[p][k]
                IN  f.own # f.asm =>
                      /\ f.asm \in joined /\ index[f.name] = f.own
                      /\ \A b \in Reach(f.asm) : f.name \notin Declares[b]
  <2> SUFFICES ASSUME NEW p \in Procs, NEW k \in DOMAIN stack[p], stack[p][k].own # stack[p][k].asm
               PROVE  LastResort(stack[p][k])
    BY DEF LastResort
  <2>1. stack[p] \in Seq(FrameType)
    BY <1>3 DEF IInv, Shapes
  <2>2. k \in 1..Len(stack[p]) /\ stack[p][k] \in FrameType
    BY <2>1, Elements
  <2>3. FrameKnows(stack[p][k]) /\ stack[p][k].at \in Wheres
    BY <1>3, <2>2 DEF IInv, FramesKnow, FrameType
  <2>4. QED
    BY <2>3 DEF FrameKnows, Wheres, Sought, Building
<1>4. Spec => OneTypeForAll
  BY <1>1, Invariance, PTL DEF Spec, OneTypeForAll
<1>5. Spec => ResolvesRight
  BY <1>2, Invariance, PTL DEF Spec, ResolvesRight
<1>6. Spec => IndexIsLastResort
  BY <1>3, Invariance, PTL DEF IndexIsLastResort
<1>7. QED
  BY <1>4, <1>5, <1>6 DEF RightDeclaration

-----------------------------------------------------------------------------
(* What is defined by recursion over the numbers.                          *)

\* A set of numbers has a least one.
LEMMA LeastNumber ==
    ASSUME NEW S \in SUBSET Nat, S # {}
    PROVE  \E n \in S : \A m \in S : n <= m
<1>1. PICK n \in S : \A m \in S : ~(<<m, n>> \in OpToRel(<, Nat))
  BY NatLessThanWellFounded, WFMin
<1>2. \A m \in S : n <= m
  <2> SUFFICES ASSUME NEW m \in S PROVE n <= m
    OBVIOUS
  <2>1. <<m, n>> \in Nat \X Nat /\ ~(<<m, n>>[1] < <<m, n>>[2])
    BY <1>1 DEF OpToRel
  <2> QED BY <2>1
<1> QED BY <1>2

\* What holds of 0 and of each next number holds of all.
LEMMA Counting ==
    ASSUME NEW S, 0 \in S, \A n \in Nat : n \in S => n + 1 \in S
    PROVE  Nat \subseteq S
<1> DEFINE T == {n \in Nat : n \notin S}
<1> SUFFICES ASSUME T # {} PROVE FALSE
  OBVIOUS
<1>2. PICK n \in T : \A m \in T : n <= m
  <2>1. T \in SUBSET Nat
    OBVIOUS
  <2> HIDE DEF T
  <2> QED BY <2>1, LeastNumber
<1>3. n \in Nat /\ n # 0 /\ n - 1 \in Nat /\ (n - 1) + 1 = n /\ ~(n <= n - 1)
  BY <1>2
<1>4. n - 1 \in T
  BY <1>2, <1>3
<1> QED BY <1>2, <1>3, <1>4

\* A value and a step have a sequence that starts with the one and goes on by the other.
Steps(S, e, step) == e \in S /\ step \in [S -> S]

LEMMA Iterates ==
    ASSUME NEW S, NEW e, NEW step, Steps(S, e, step)
    PROVE  \E g \in [Nat -> S] : g[0] = e /\ \A n \in Nat : g[n + 1] = step[g[n]]
<1>0. e \in S /\ step \in [S -> S]
  BY DEF Steps
<1> DEFINE Upto(g, n) == g[0] = e /\ \A i \in Nat : i < n => g[i + 1] = step[g[i]]
           There == {n \in Nat : \E g \in [Nat -> S] : Upto(g, n)}
<1>1. Nat \subseteq There
  <2>1. 0 \in There
    <3>1. [n \in Nat |-> e] \in [Nat -> S] /\ Upto([n \in Nat |-> e], 0)
      BY <1>0
    <3> QED BY <3>1
  <2>2. ASSUME NEW n \in Nat, n \in There PROVE n + 1 \in There
    <3>1. PICK g \in [Nat -> S] : Upto(g, n)
      BY <2>2
    <3> DEFINE h == [i \in Nat |-> IF i = n + 1 THEN step[g[n]] ELSE g[i]]
    <3>2. h \in [Nat -> S]
      BY <1>0
    <3>3. Upto(h, n + 1)
      <4>1. h[0] = e
        BY <3>1
      <4>2. ASSUME NEW i \in Nat, i < n + 1 PROVE h[i + 1] = step[h[i]]
        <5>1. h[i] = g[i]
          BY <4>2
        <5>2. CASE i = n
          BY <5>1, <5>2
        <5>3. CASE i # n
          <6>1. i < n /\ i + 1 # n + 1 /\ i + 1 \in Nat
            BY <4>2, <5>3
          <6> QED BY <3>1, <5>1, <6>1
        <5> QED BY <5>2, <5>3
      <4> QED BY <4>1, <4>2
    <3> HIDE DEF h, Upto
    <3> QED BY <3>2, <3>3
  <2> HIDE DEF There
  <2> QED BY <2>1, <2>2, Counting
<1>2. ASSUME NEW g, NEW h, NEW n \in Nat, Upto(g, n), Upto(h, n) PROVE g[n] = h[n]
  <2> DEFINE Same == {i \in Nat : i <= n => g[i] = h[i]}
  <2>1. 0 \in Same
    BY <1>2
  <2>2. ASSUME NEW i \in Nat, i \in Same PROVE i + 1 \in Same
    <3> SUFFICES ASSUME i + 1 <= n PROVE g[i + 1] = h[i + 1]
      OBVIOUS
    <3>1. i < n /\ i <= n
      OBVIOUS
    <3> QED BY <1>2, <2>2, <3>1
  <2>3. Nat \subseteq Same
    <3> HIDE DEF Same
    <3> QED BY <2>1, <2>2, Counting
  <2> QED BY <2>3
<1> DEFINE Long(n) == CHOOSE g \in [Nat -> S] : Upto(g, n)
           all == [n \in Nat |-> Long(n)[n]]
<1>3. ASSUME NEW n \in Nat PROVE Long(n) \in [Nat -> S] /\ Upto(Long(n), n)
  <2>1. \E g \in [Nat -> S] : Upto(g, n)
    BY <1>1
  <2> HIDE DEF Upto
  <2> QED BY <2>1
<1>4. all \in [Nat -> S]
  <2>1. \A n \in Nat : Long(n)[n] \in S
    <3> HIDE DEF Long
    <3> QED BY <1>3
  <2> HIDE DEF Long
  <2> QED BY <2>1
<1>5. all[0] = e
  <2>1. all[0] = Long(0)[0]
    BY DEF all
  <2> HIDE DEF Long
  <2> QED BY <1>3, <2>1
<1>6. ASSUME NEW n \in Nat PROVE all[n + 1] = step[all[n]]
  <2> HIDE DEF Long
  <2>1. Upto(Long(n + 1), n + 1) /\ Upto(Long(n), n)
    BY <1>3
  <2>2. Upto(Long(n + 1), n) /\ Long(n + 1)[n + 1] = step[Long(n + 1)[n]]
    BY <2>1
  <2>3. Long(n + 1)[n] = Long(n)[n]
    <3> HIDE DEF Upto
    <3> QED BY <1>2, <2>1, <2>2
  <2> QED BY <2>2, <2>3
<1> HIDE DEF all
<1> QED BY <1>4, <1>5, <1>6

\* The classes above a class, by what they are one above the other.
LEMMA AncestorsAre ==
    ASSUME NEW a, NEW n \in Names
    PROVE  /\ Ancestor(a, n) \in [Nat -> Names \union {None}] /\ Ancestor(a, n)[0] = n
           /\ \A k \in Nat : Ancestor(a, n)[k + 1]
                 = IF Ancestor(a, n)[k] = None \/ ~Findable(a, Ancestor(a, n)[k]) THEN None
                   ELSE Base[Ancestor(a, n)[k]]
<1> DEFINE S == Names \union {None}
           step == [x \in S |-> IF x = None \/ ~Findable(a, x) THEN None ELSE Base[x]]
           Body(Up) == [k \in Nat |-> IF k = 0 THEN n
                                      ELSE IF Up[k - 1] = None \/ ~Findable(a, Up[k - 1]) THEN None
                                      ELSE Base[Up[k - 1]]]
<1>1. PICK g \in [Nat -> S] : g[0] = n /\ \A k \in Nat : g[k + 1] = step[g[k]]
  <2>1. n \in S /\ step \in [S -> S]
    BY TypeResolveAssumption
  <2> HIDE DEF S, step, Body
  <2>2. Steps(S, n, step)
    BY <2>1 DEF Steps
  <2> QED BY <2>2, Iterates
<1>2. g = Body(g)
  <2>1. ASSUME NEW k \in Nat, k # 0
        PROVE  g[k] = IF g[k - 1] = None \/ ~Findable(a, g[k - 1]) THEN None ELSE Base[g[k - 1]]
    <3>1. k - 1 \in Nat /\ (k - 1) + 1 = k
      BY <2>1
    <3>2. g[k] = step[g[k - 1]] /\ g[k - 1] \in S
      BY <1>1, <3>1
    <3> QED BY <3>2
  <2> QED BY <1>1, <2>1
<1>3. Ancestor(a, n) = CHOOSE Up : Up = Body(Up)
  BY DEF Ancestor
<1>4. Ancestor(a, n) = Body(Ancestor(a, n))
  <2> HIDE DEF Body
  <2> QED BY <1>2, <1>3
<1>5. ASSUME NEW k \in Nat
      PROVE  Ancestor(a, n)[k + 1]
                 = IF Ancestor(a, n)[k] = None \/ ~Findable(a, Ancestor(a, n)[k]) THEN None
                   ELSE Base[Ancestor(a, n)[k]]
  <2>1. k + 1 \in Nat /\ k + 1 # 0 /\ (k + 1) - 1 = k
    OBVIOUS
  <2> DEFINE U == Ancestor(a, n)
  <2>2. U = Body(U)
    BY <1>4
  <2> HIDE DEF U
  <2>3. U[k + 1] = Body(U)[k + 1]
    BY <2>2
  <2>4. Body(U)[k + 1] = IF U[k] = None \/ ~Findable(a, U[k]) THEN None ELSE Base[U[k]]
    BY <2>1
  <2>5. U[k + 1] = IF U[k] = None \/ ~Findable(a, U[k]) THEN None ELSE Base[U[k]]
    BY <2>3, <2>4
  <2> QED BY <2>5 DEF U
<1>6. Ancestor(a, n)[0] = n
  <2> DEFINE U == Ancestor(a, n)
  <2>1. U = Body(U)
    BY <1>4
  <2> HIDE DEF U
  <2>2. U[0] = Body(U)[0]
    BY <2>1
  <2>3. Body(U)[0] = n
    OBVIOUS
  <2>4. U[0] = n
    BY <2>2, <2>3
  <2> QED BY <2>4 DEF U
<1>7. Ancestor(a, n) \in [Nat -> S]
  <2> DEFINE U == Ancestor(a, n)
             In == {k \in Nat : U[k] \in S}
  <2>1. 0 \in In /\ \A k \in Nat : k \in In => k + 1 \in In
    BY <1>5, <1>6, TypeResolveAssumption
  <2>2. Nat \subseteq In
    <3> HIDE DEF In
    <3> QED BY <2>1, Counting
  <2>3. \A k \in Nat : U[k] \in S
    BY <2>2
  <2>4. U = [k \in Nat |-> U[k]]
    <3>1. U = Body(U)
      BY <1>4
    <3>2. \E F : U = [k \in Nat |-> F[k]]
      <4> HIDE DEF U
      <4>1. Body(U) = [k \in Nat |-> Body(U)[k]]
        OBVIOUS
      <4> HIDE DEF Body
      <4> QED BY <3>1, <4>1
    <3> HIDE DEF U
    <3> QED BY <3>2
  <2> HIDE DEF U
  <2>5. U \in [Nat -> S]
    BY <2>3, <2>4
  <2> QED BY <2>5 DEF U
<1> QED BY <1>5, <1>6, <1>7

\* What Nested and Shorter are, one level above the other.
LEMMA NestedIs ==
    /\ Nested[0] = {n \in Names : Field[n] \in {None, n}}
    /\ \A k \in Nat : Nested[k + 1]
          = {n \in Names : Field[n] \in {None, n} \/ Field[n] \in Native \/ Field[n] \in Nested[k]}
<1> DEFINE S == SUBSET Names
           first == {n \in Names : Field[n] \in {None, n}}
           step == [X \in S |-> {n \in Names : \/ Field[n] \in {None, n} \/ Field[n] \in Native
                                              \/ Field[n] \in X}]
           Body(W) == [k \in Nat |-> {n \in Names : \/ Field[n] \in {None, n}
                                        \/ (k > 0 /\ (Field[n] \in Native \/ Field[n] \in W[k - 1]))}]
<1>1. PICK g \in [Nat -> S] : g[0] = first /\ \A k \in Nat : g[k + 1] = step[g[k]]
  <2>1. Steps(S, first, step)
    BY DEF Steps
  <2> HIDE DEF S, first, step, Body
  <2> QED BY <2>1, Iterates
<1>2. g = Body(g)
  <2>1. ASSUME NEW k \in Nat, k # 0
        PROVE  g[k] = {n \in Names : \/ Field[n] \in {None, n}
                                     \/ (k > 0 /\ (Field[n] \in Native \/ Field[n] \in g[k - 1]))}
    <3>1. k - 1 \in Nat /\ (k - 1) + 1 = k /\ k > 0
      BY <2>1
    <3>2. g[k] = step[g[k - 1]] /\ g[k - 1] \in S
      BY <1>1, <3>1
    <3> QED BY <3>1, <3>2
  <2>2. g[0] = {n \in Names : \/ Field[n] \in {None, n}
                              \/ (0 > 0 /\ (Field[n] \in Native \/ Field[n] \in g[0 - 1]))}
    BY <1>1
  <2>3. g = [k \in Nat |-> g[k]]
    BY <1>1
  <2>4. \A k \in Nat : g[k] = {n \in Names : \/ Field[n] \in {None, n}
                                     \/ (k > 0 /\ (Field[n] \in Native \/ Field[n] \in g[k - 1]))}
    BY <2>1, <2>2
  <2> QED BY <2>3, <2>4
<1>3. Nested = CHOOSE W : W = Body(W)
  BY DEF Nested
<1>4. Nested = Body(Nested)
  <2> HIDE DEF Body
  <2> QED BY <1>2, <1>3
<1>5. ASSUME NEW k \in Nat
      PROVE  Nested[k] = {n \in Names : \/ Field[n] \in {None, n}
                                        \/ (k > 0 /\ (Field[n] \in Native \/ Field[n] \in Nested[k - 1]))}
  <2>1. PICK W : W = Nested
    OBVIOUS
  <2>2. W = Body(W)
    BY <1>4, <2>1
  <2>3. W[k] = Body(W)[k]
    BY <2>2
  <2>4. W[k] = {n \in Names : \/ Field[n] \in {None, n}
                              \/ (k > 0 /\ (Field[n] \in Native \/ Field[n] \in W[k - 1]))}
    BY <2>3
  <2> QED BY <2>1, <2>4
<1>6. ASSUME NEW k \in Nat
      PROVE  Nested[k + 1] = {n \in Names : Field[n] \in {None, n} \/ Field[n] \in Native \/ Field[n] \in Nested[k]}
  <2>1. k + 1 \in Nat /\ k + 1 > 0 /\ (k + 1) - 1 = k
    OBVIOUS
  <2> QED BY <1>5, <2>1
<1>7. Nested[0] = first
  BY <1>5
<1> QED BY <1>6, <1>7

LEMMA ShorterIs ==
    /\ Shorter[0] = {}
    /\ \A k \in Nat : Shorter[k + 1]
          = {q \in Questions : \A r \in Questions : Leads(q, r) => r \in Shorter[k]}
<1> DEFINE S == SUBSET Questions
           step == [X \in S |-> {q \in Questions : \A r \in Questions : Leads(q, r) => r \in X}]
           Body(W) == [k \in Nat |->
                         IF k = 0 THEN {}
                         ELSE {q \in Questions : \A r \in Questions : Leads(q, r) => r \in W[k - 1]}]
<1>1. PICK g \in [Nat -> S] : g[0] = {} /\ \A k \in Nat : g[k + 1] = step[g[k]]
  <2>1. Steps(S, {}, step)
    BY DEF Steps
  <2> HIDE DEF S, step, Body
  <2> QED BY <2>1, Iterates
<1>2. g = Body(g)
  <2>1. ASSUME NEW k \in Nat, k # 0
        PROVE  g[k] = {q \in Questions : \A r \in Questions : Leads(q, r) => r \in g[k - 1]}
    <3>1. k - 1 \in Nat /\ (k - 1) + 1 = k
      BY <2>1
    <3>2. g[k] = step[g[k - 1]] /\ g[k - 1] \in S
      BY <1>1, <3>1
    <3> QED BY <3>2
  <2>2. g = [k \in Nat |-> g[k]]
    BY <1>1
  <2>3. \A k \in Nat : g[k] = IF k = 0 THEN {}
                              ELSE {q \in Questions : \A r \in Questions : Leads(q, r) => r \in g[k - 1]}
    BY <1>1, <2>1
  <2> QED BY <2>2, <2>3
<1>3. Shorter = CHOOSE W : W = Body(W)
  BY DEF Shorter
<1>4. Shorter = Body(Shorter)
  <2> HIDE DEF Body
  <2> QED BY <1>2, <1>3
<1>5. ASSUME NEW k \in Nat
      PROVE  Shorter[k] = IF k = 0 THEN {}
                          ELSE {q \in Questions : \A r \in Questions : Leads(q, r) => r \in Shorter[k - 1]}
  <2>1. PICK W : W = Shorter
    OBVIOUS
  <2>2. W = Body(W)
    BY <1>4, <2>1
  <2>3. W[k] = Body(W)[k]
    BY <2>2
  <2>4. W[k] = IF k = 0 THEN {}
               ELSE {q \in Questions : \A r \in Questions : Leads(q, r) => r \in W[k - 1]}
    BY <2>3
  <2> QED BY <2>1, <2>4
<1>6. ASSUME NEW k \in Nat
      PROVE  Shorter[k + 1] = {q \in Questions : \A r \in Questions : Leads(q, r) => r \in Shorter[k]}
  <2>1. k + 1 \in Nat /\ k + 1 # 0 /\ (k + 1) - 1 = k
    OBVIOUS
  <2> QED BY <1>5, <2>1
<1> QED BY <1>5, <1>6

-----------------------------------------------------------------------------
(* What a step does to the frames.                                         *)

Question(f) == <<f.asm, f.name, f.depth>>

\* The frame goes on with the same look-up; when it is ready to store, its zero
\* value is there but where the field is not found or the struct is too deep.
Goes(g, f) ==
    /\ f.asm = g.asm /\ f.name = g.name /\ f.depth = g.depth
    /\ f.at = "store" =>
          /\ f.own = g.own
          /\ Field[g.name] \notin {None, g.name} /\ Findable(g.own, Field[g.name])
                => f.zero \/ g.depth = MaxDepth

\* A frame above g asks what g needs next.
Opens(g, a, n, d) ==
    /\ <<a, n, d>> \in Questions
    /\ Leads(Question(g), <<a, n, d>>)
    /\ \/ d = 0
       \/ g.depth < MaxDepth /\ d = g.depth + 1 /\ n = Field[g.name] /\ n \notin Native

Moves(p, k) ==
    \/ k \in 1..Len(stack[p]) /\ stack'[p][k] = stack[p][k]
    \/ k = Len(stack[p]) /\ Running(p) /\ Goes(Top(p), stack'[p][k])
    \/ /\ k = 1 /\ stack[p] = <<>>
       /\ \E a \in Asms, n \in Names : stack'[p][k] = Frame(a, n, 0)
    \/ /\ k = Len(stack[p]) + 1 /\ Running(p)
       /\ \E a \in Asms, n \in Names, d \in 0..MaxDepth :
             stack'[p][k] = Frame(a, n, d) /\ Opens(Top(p), a, n, d)

\* Who builds, builds for the declaration or for the index.
LEMMA BuilderIs ==
    ASSUME NEW g \in FrameType, Building(g)
    PROVE  /\ g.name \notin Native
           /\ g.own = IF g.name \in Declares[g.asm] THEN g.asm ELSE index[g.name]
<1>1. g.own # g.asm => index[g.name] = g.own /\ g.name \notin Declares[g.asm]
  BY ReachSelf DEF Building, LastResort, FrameType
<1> QED BY <1>1 DEF Building

\* A step of a frame that calls nothing.
LEMMA StepGoes ==
    ASSUME IInv, NEW p \in Procs,
           \/ FindsOwn(p) \/ NotOwn(p) \/ DepHasNot(p) \/ FindsInIndex(p)
           \/ NoBase(p) \/ GotBase(p) \/ NoField(p) \/ GotField(p)
    PROVE  \E f : Becomes(p, f) /\ Goes(Top(p), f)
<1> USE TypeResolveAssumption
<1>0. Running(p)
  BY DEF FindsOwn, NotOwn, DepHasNot, FindsInIndex, NoBase, GotBase, NoField, GotField, At
<1>1. PICK g \in FrameType :
             /\ g = Top(p) /\ FrameKnows(g)
             /\ g.asm \in Asms /\ g.own \in Asms /\ g.name \in Names /\ g.depth \in 0..MaxDepth
             /\ g.i \in Nat \ {0} /\ g.base \in BOOLEAN
             /\ g.at \in Waiting => Answers(AskedAsm(g), AskedName(g), ret[p])
  BY <1>0, Runs
<1>3. ASSUME NEW o, NEW w, w # "store", NEW i, NEW b, NEW z, NEW f,
             f = [asm |-> g.asm, own |-> o, name |-> g.name, depth |-> g.depth, at |-> w,
                  i |-> i, base |-> b, zero |-> z]
      PROVE  Goes(g, f)
  BY <1>3 DEF Goes
<1>4. CASE FindsOwn(p)
  <2> DEFINE f == [asm |-> g.asm, own |-> g.own, name |-> g.name, depth |-> g.depth, at |-> "base",
                   i |-> g.i, base |-> g.base, zero |-> g.zero]
  <2>1. Becomes(p, f)
    BY <1>1, <1>4, AtUpdate DEF FindsOwn
  <2>2. Goes(g, f)
    BY <1>3
  <2> HIDE DEF f
  <2> QED BY <1>1, <2>1, <2>2
<1>5. CASE NotOwn(p)
  <2> DEFINE f == [asm |-> g.asm, own |-> g.own, name |-> g.name, depth |-> g.depth, at |-> "deps",
                   i |-> g.i, base |-> g.base, zero |-> g.zero]
  <2>1. Becomes(p, f)
    BY <1>1, <1>5, AtUpdate DEF NotOwn
  <2>2. Goes(g, f)
    BY <1>3
  <2> HIDE DEF f
  <2> QED BY <1>1, <2>1, <2>2
<1>6. CASE DepHasNot(p)
  <2> DEFINE f == [asm |-> g.asm, own |-> g.own, name |-> g.name, depth |-> g.depth, at |-> "deps",
                   i |-> g.i + 1, base |-> g.base, zero |-> g.zero]
  <2>1. Becomes(p, f)
    BY <1>1, <1>6, NextUpdate, ZenonT(60) DEF DepHasNot
  <2>2. Goes(g, f)
    BY <1>3
  <2> HIDE DEF f
  <2> QED BY <1>1, <2>1, <2>2
<1>7. CASE FindsInIndex(p)
  <2>1. PICK o : o = IndexOwner(g)
    OBVIOUS
  <2> DEFINE f == [asm |-> g.asm, own |-> o, name |-> g.name, depth |-> g.depth, at |-> "base",
                   i |-> g.i, base |-> g.base, zero |-> g.zero]
  <2>2. Becomes(p, f)
    <3>1. Becomes(p, [g EXCEPT !.at = "base", !.own = o])
      BY <1>1, <1>7, <2>1 DEF FindsInIndex
    <3>2. [g EXCEPT !.at = "base", !.own = o] = f
      BY OwnUpdate, Zenon
    <3> QED BY <3>1, <3>2, Zenon
  <2>3. Goes(g, f)
    BY <1>3
  <2> HIDE DEF f
  <2> QED BY <1>1, <2>2, <2>3
<1>8. CASE NoBase(p)
  <2> DEFINE f == [asm |-> g.asm, own |-> g.own, name |-> g.name, depth |-> g.depth, at |-> "field",
                   i |-> g.i, base |-> g.base, zero |-> g.zero]
  <2>1. Becomes(p, f)
    BY <1>1, <1>8, AtUpdate DEF NoBase
  <2>2. Goes(g, f)
    BY <1>3
  <2> HIDE DEF f
  <2> QED BY <1>1, <2>1, <2>2
<1>9. CASE GotBase(p)
  <2>1. PICK b : b = (ret[p] # None)
    OBVIOUS
  <2> DEFINE f == [asm |-> g.asm, own |-> g.own, name |-> g.name, depth |-> g.depth, at |-> "field",
                   i |-> g.i, base |-> b, zero |-> g.zero]
  <2>2. Becomes(p, f)
    <3>2. Becomes(p, [g EXCEPT !.at = "field", !.base = b])
      BY <1>1, <1>9, <2>1 DEF GotBase
    <3>3. [g EXCEPT !.at = "field", !.base = b] = f
      BY BaseUpdate, Zenon
    <3> QED BY <3>2, <3>3, Zenon
  <2>3. Goes(g, f)
    BY <1>3
  <2> HIDE DEF f
  <2> QED BY <1>1, <2>2, <2>3
<1>10. ASSUME NEW z, Becomes(p, [g EXCEPT !.at = "store", !.zero = z]),
              Field[g.name] \notin {None, g.name} /\ Findable(g.own, Field[g.name])
                => z \/ g.depth = MaxDepth
       PROVE  \E f : Becomes(p, f) /\ Goes(g, f)
  <2> DEFINE f == [asm |-> g.asm, own |-> g.own, name |-> g.name, depth |-> g.depth, at |-> "store",
                   i |-> g.i, base |-> g.base, zero |-> z]
  <2>1. Becomes(p, f)
    <3>1. [g EXCEPT !.at = "store", !.zero = z] = f
      BY ZeroUpdate, Zenon
    <3> QED BY <1>10, <3>1, Zenon
  <2>2. Goes(g, f)
    <3>1. /\ f.asm = g.asm /\ f.own = g.own /\ f.name = g.name /\ f.depth = g.depth /\ f.zero = z
      OBVIOUS
    <3> HIDE DEF f
    <3> QED BY <1>10, <3>1 DEF Goes
  <2> HIDE DEF f
  <2> QED BY <2>1, <2>2
<1>11. CASE NoField(p)
  <2>1. PICK z : z = (~TooDeep(g) /\ Field[g.name] # None)
    OBVIOUS
  <2>2. Becomes(p, [g EXCEPT !.at = "store", !.zero = z])
    BY <1>1, <1>11, <2>1 DEF NoField
  <2>3. TooDeep(g) => g.depth = MaxDepth
    BY <1>1 DEF TooDeep
  <2>4. Field[g.name] \notin {None, g.name} => z \/ g.depth = MaxDepth
    BY <2>1, <2>3
  <2> QED BY <1>1, <1>10, <2>2, <2>4
<1>12. CASE GotField(p)
  <2>1. PICK z : z = (ret[p] # None)
    OBVIOUS
  <2>2. Becomes(p, [g EXCEPT !.at = "store", !.zero = z])
    BY <1>1, <1>12, <2>1 DEF GotField
  <2>3. g.at = "gotField"
    BY <1>1, <1>12 DEF GotField, At
  <2>4. Answers(g.own, Field[g.name], ret[p])
    BY <1>1, <2>3 DEF AskedAsm, AskedName, Waiting
  <2>5. Findable(g.own, Field[g.name]) => z
    BY <2>1, <2>4 DEF Answers
  <2> QED BY <1>1, <1>10, <2>2, <2>5
<1> QED BY <1>4, <1>5, <1>6, <1>7, <1>8, <1>9, <1>11, <1>12

\* A step of a frame that calls.
LEMMA StepOpens ==
    ASSUME IInv, NEW p \in Procs, AskDep(p) \/ AskBase(p) \/ AskField(p)
    PROVE  \E f : \E a \in Asms, n \in Names, d \in 0..MaxDepth :
              Enter(p, f, Frame(a, n, d)) /\ Goes(Top(p), f) /\ Opens(Top(p), a, n, d)
<1> USE TypeResolveAssumption
<1>0. Running(p)
  BY DEF AskDep, AskBase, AskField, At
<1>1. PICK g \in FrameType :
             /\ g = Top(p) /\ FrameKnows(g)
             /\ g.asm \in Asms /\ g.own \in Asms /\ g.name \in Names /\ g.depth \in 0..MaxDepth
             /\ g.i \in Nat \ {0} /\ g.base \in BOOLEAN
  BY <1>0, Runs
<1>2. 0 \in 0..MaxDepth
  OBVIOUS
<1>3. ASSUME NEW w, w # "store"
      PROVE  Goes(g, [asm |-> g.asm, own |-> g.own, name |-> g.name, depth |-> g.depth, at |-> w,
                      i |-> g.i, base |-> g.base, zero |-> g.zero])
  BY <1>3 DEF Goes
<1>4. CASE AskDep(p)
  <2> DEFINE f == [asm |-> g.asm, own |-> g.own, name |-> g.name, depth |-> g.depth, at |-> "gotDep",
                   i |-> g.i, base |-> g.base, zero |-> g.zero]
  <2>1. Enter(p, f, Frame(deps[g.asm][g.i], g.name, 0))
    BY <1>1, <1>4, AtUpdate DEF AskDep
  <2>2. g.at = "deps" /\ g.i <= Len(deps[g.asm])
    BY <1>1, <1>4 DEF AskDep, At
  <2>3. deps[g.asm] \in Seq(Asms)
    BY <1>1 DEF IInv, TypeOK
  <2>4. g.i \in DOMAIN deps[g.asm] /\ deps[g.asm][g.i] \in Asms
    BY <1>1, <2>2, <2>3
  <2>5. g.name \notin Declares[g.asm] \union Native
    BY <1>1, <2>2 DEF FrameKnows, Sought
  <2>6. Leads(Question(g), <<deps[g.asm][g.i], g.name, 0>>)
    BY <2>4, <2>5 DEF Leads, Question
  <2>7. Opens(g, deps[g.asm][g.i], g.name, 0)
    BY <1>1, <1>2, <2>4, <2>6 DEF Opens, Questions
  <2>8. Goes(g, f)
    BY <1>3
  <2> HIDE DEF f
  <2> QED BY <1>1, <1>2, <2>1, <2>4, <2>7, <2>8
<1>5. CASE AskBase(p)
  <2> DEFINE f == [asm |-> g.asm, own |-> g.own, name |-> g.name, depth |-> g.depth, at |-> "gotBase",
                   i |-> g.i, base |-> g.base, zero |-> g.zero]
  <2>1. Enter(p, f, Frame(g.own, Base[g.name], 0))
    BY <1>1, <1>5, AtUpdate DEF AskBase
  <2>2. g.at = "base" /\ Base[g.name] # None
    BY <1>1, <1>5 DEF AskBase, At
  <2>3. Base[g.name] \in Names
    BY <1>1, <2>2
  <2>4. Building(g)
    BY <1>1, <2>2 DEF FrameKnows
  <2>5. Leads(Question(g), <<g.own, Base[g.name], 0>>)
    BY <2>4, BuilderIs DEF Leads, Question
  <2>6. Opens(g, g.own, Base[g.name], 0)
    BY <1>1, <1>2, <2>3, <2>5 DEF Opens, Questions
  <2>7. Goes(g, f)
    BY <1>3
  <2> HIDE DEF f
  <2> QED BY <1>1, <1>2, <2>1, <2>3, <2>6, <2>7
<1>6. CASE AskField(p)
  <2> DEFINE f == [asm |-> g.asm, own |-> g.own, name |-> g.name, depth |-> g.depth, at |-> "gotField",
                   i |-> g.i, base |-> g.base, zero |-> g.zero]
  <2>1. Enter(p, f, Frame(g.own, Field[g.name], g.depth + 1))
    BY <1>1, <1>6, AtUpdate DEF AskField
  <2>2. g.at = "field" /\ Field[g.name] # None /\ ~TooDeep(g) /\ Field[g.name] \notin Native
    BY <1>1, <1>6 DEF AskField, At
  <2>3. Field[g.name] \in Names
    BY <1>1, <2>2
  <2>4. g.depth + 1 \in 0..MaxDepth /\ g.depth < MaxDepth
    BY <1>1, <2>2 DEF TooDeep
  <2>5. Building(g)
    BY <1>1, <2>2 DEF FrameKnows
  <2>6. Leads(Question(g), <<g.own, Field[g.name], g.depth + 1>>)
    BY <2>5, BuilderIs DEF Leads, Question
  <2>7. Opens(g, g.own, Field[g.name], g.depth + 1)
    BY <1>1, <2>2, <2>3, <2>4, <2>6 DEF Opens, Questions
  <2>8. Goes(g, f)
    BY <1>3
  <2> HIDE DEF f
  <2> QED BY <1>1, <2>1, <2>3, <2>4, <2>7, <2>8
<1> QED BY <1>4, <1>5, <1>6

-----------------------------------------------------------------------------
(* The kinds of steps, and where each frame comes from.                    *)

LEMMA StepKinds ==
    ASSUME ~AttachLate, IInv, Next
    PROVE  \/ \E q \in Procs : \E f : Running(q) /\ Becomes(q, f) /\ Goes(Top(q), f)
           \/ \E q \in Procs : \E f : \E a \in Asms, n \in Names, d \in 0..MaxDepth :
                 /\ Running(q) /\ Enter(q, f, Frame(a, n, d))
                 /\ Goes(Top(q), f) /\ Opens(Top(q), a, n, d)
           \/ \E q \in Procs : \E t : Running(q) /\ Return(q, t)
           \/ \E q \in Procs, a \in Asms, n \in Names :
                 stack[q] = <<>> /\ stack' = [stack EXCEPT ![q] = <<Frame(a, n, 0)>>]
           \/ stack' = stack
<1>1. ASSUME NEW q \in Procs, Step(q)
      PROVE  \/ \E f : Running(q) /\ Becomes(q, f) /\ Goes(Top(q), f)
             \/ \E f : \E a \in Asms, n \in Names, d \in 0..MaxDepth :
                   /\ Running(q) /\ Enter(q, f, Frame(a, n, d))
                   /\ Goes(Top(q), f) /\ Opens(Top(q), a, n, d)
             \/ \E t : Running(q) /\ Return(q, t)
             \/ \E a \in Asms, n \in Names :
                   stack[q] = <<>> /\ stack' = [stack EXCEPT ![q] = <<Frame(a, n, 0)>>]
             \/ stack' = stack
  <2>1. CASE \/ FindsOwn(q) \/ NotOwn(q) \/ DepHasNot(q) \/ FindsInIndex(q)
             \/ NoBase(q) \/ GotBase(q) \/ NoField(q) \/ GotField(q)
    <3>1. Running(q)
      BY <2>1 DEF FindsOwn, NotOwn, DepHasNot, FindsInIndex, NoBase, GotBase, NoField, GotField, At
    <3>2. \E f : Becomes(q, f) /\ Goes(Top(q), f)
      BY <2>1, StepGoes
    <3> QED BY <3>1, <3>2
  <2>2. CASE AskDep(q) \/ AskBase(q) \/ AskField(q)
    <3>1. Running(q)
      BY <2>2 DEF AskDep, AskBase, AskField, At
    <3>2. \E f : \E a \in Asms, n \in Names, d \in 0..MaxDepth :
              Enter(q, f, Frame(a, n, d)) /\ Goes(Top(q), f) /\ Opens(Top(q), a, n, d)
      BY <2>2, StepOpens
    <3> QED BY <3>1, <3>2
  <2>3. CASE Hit(q) \/ FindsNative(q) \/ DepHas(q) \/ FindsNowhere(q) \/ Store(q)
    BY <2>3 DEF Hit, FindsNative, DepHas, FindsNowhere, Store, At
  <2>4. CASE WalkAsks(q)
    <3>1. walk[q].asm \in Asms /\ walk[q].cur \in Names
      BY <2>4 DEF WalkAsks, Walking, IInv, Shapes, WalkType
    <3> QED BY <2>4, <3>1 DEF WalkAsks, Walking
  <2>5. CASE Deliver(q) \/ WalkFinds(q) \/ WalkUp(q) \/ WalkEnds(q)
    BY <2>5 DEF Deliver, WalkFinds, WalkUp, WalkEnds, StoreImpl
  <2> QED BY <1>1, <2>1, <2>2, <2>3, <2>4, <2>5 DEF Step
<1>2. ASSUME NEW q \in Procs, NEW a \in Asms, NEW n \in Names, CallType(q, a, n) \/ CallImpl(q, a, n)
      PROVE  \/ stack[q] = <<>> /\ stack' = [stack EXCEPT ![q] = <<Frame(a, n, 0)>>]
             \/ stack' = stack
  BY <1>2 DEF CallType, CallImpl, Idle
<1>3. ASSUME NEW a \in Asms, NEW b \in Asms, Attach(a, b) PROVE stack' = stack
  BY <1>3 DEF Attach
<1> QED BY <1>1, <1>2, <1>3 DEF Next

LEMMA SetLast ==
    ASSUME NEW S, NEW s \in Seq(S), s # <<>>, NEW f
    PROVE  LET u == [s EXCEPT ![Len(s)] = f]
           IN  /\ u \in Seq(S \union {f}) /\ Len(u) = Len(s)
               /\ \A k \in 1..Len(s) : u[k] = IF k = Len(s) THEN f ELSE s[k]
<1> DEFINE T == S \union {f}
           u == [s EXCEPT ![Len(s)] = f]
<1>1. s \in Seq(T) /\ f \in T /\ Len(s) \in 1..Len(s)
  OBVIOUS
<1> HIDE DEF T
<1>2. u \in Seq(T) /\ Len(u) = Len(s)
  BY <1>1
<1>3. \A k \in 1..Len(s) : u[k] = IF k = Len(s) THEN f ELSE s[k]
  BY <1>1
<1> QED BY <1>2, <1>3 DEF T

\* Each frame after a step was there, or is what the step has made of one or new.
LEMMA StackMoves ==
    ASSUME ~AttachLate, IInv, Next, NEW p \in Procs, NEW k \in 1..Len(stack'[p])
    PROVE  Moves(p, k)
<1>0. /\ stack \in [Procs -> Seq(FrameType)] /\ stack[p] \in Seq(FrameType) /\ Len(stack[p]) \in Nat
  BY DEF IInv, Shapes
<1>1. CASE stack'[p] = stack[p]
  BY <1>1 DEF Moves
<1>2. ASSUME NEW f, Running(p), Becomes(p, f), Goes(Top(p), f) PROVE Moves(p, k)
  <2>1. stack'[p] = [stack[p] EXCEPT ![Len(stack[p])] = f]
    BY <1>0, <1>2 DEF Becomes
  <2>2. stack[p] # <<>>
    BY <1>2 DEF Running
  <2>3. /\ Len(stack'[p]) = Len(stack[p])
        /\ \A j \in 1..Len(stack[p]) : stack'[p][j] = IF j = Len(stack[p]) THEN f ELSE stack[p][j]
    BY <1>0, <2>1, <2>2, SetLast
  <2>4. k \in 1..Len(stack[p])
    BY <2>3
  <2> QED BY <1>2, <2>3, <2>4 DEF Moves
<1>3. ASSUME NEW f, NEW a \in Asms, NEW n \in Names, NEW d \in 0..MaxDepth,
             Running(p), Enter(p, f, Frame(a, n, d)), Goes(Top(p), f), Opens(Top(p), a, n, d)
      PROVE  Moves(p, k)
  <2> DEFINE u == [stack[p] EXCEPT ![Len(stack[p])] = f]
             S == FrameType \union {f}
  <2>1. stack'[p] = Append(u, Frame(a, n, d))
    BY <1>0, <1>3 DEF Enter
  <2>2. stack[p] # <<>>
    BY <1>3 DEF Running
  <2>3. /\ u \in Seq(S) /\ Len(u) = Len(stack[p])
        /\ \A j \in 1..Len(stack[p]) : u[j] = IF j = Len(stack[p]) THEN f ELSE stack[p][j]
    BY <1>0, <2>2, SetLast
  <2> HIDE DEF u, S
  <2>4. /\ Len(stack'[p]) = Len(stack[p]) + 1
        /\ \A j \in 1..Len(stack[p]) : stack'[p][j] = u[j]
        /\ stack'[p][Len(stack[p]) + 1] = Frame(a, n, d)
    BY <2>1, <2>3
  <2>5. CASE k = Len(stack[p]) + 1
    BY <1>3, <2>4, <2>5 DEF Moves
  <2>6. CASE k # Len(stack[p]) + 1
    <3>1. k \in 1..Len(stack[p])
      BY <1>0, <2>4, <2>6
    <3>2. CASE k = Len(stack[p])
      BY <1>3, <2>3, <2>4, <3>1, <3>2 DEF Moves
    <3>3. CASE k # Len(stack[p])
      BY <2>3, <2>4, <3>1, <3>3 DEF Moves
    <3> QED BY <3>2, <3>3
  <2> QED BY <2>5, <2>6
<1>4. ASSUME NEW t, Running(p), Return(p, t) PROVE Moves(p, k)
  <2>1. stack'[p] = SubSeq(stack[p], 1, Len(stack[p]) - 1)
    BY <1>0, <1>4 DEF Return
  <2>2. stack[p] # <<>>
    BY <1>4 DEF Running
  <2>3. PICK u \in Seq(FrameType) : /\ u = stack'[p] /\ Len(u) = Len(stack[p]) - 1
                                    /\ \A j \in 1..(Len(stack[p]) - 1) : u[j] = stack[p][j]
    <3>1. \E u \in Seq(FrameType) :
              /\ u = SubSeq(stack[p], 1, Len(stack[p]) - 1) /\ Len(u) = Len(stack[p]) - 1 /\ Len(stack[p]) \in Nat \ {0}
              /\ \A j \in 1..(Len(stack[p]) - 1) : u[j] = stack[p][j]
      BY <1>0, <2>2, Pop
    <3> QED BY <2>1, <3>1
  <2>4. k \in 1..(Len(stack[p]) - 1) /\ k \in 1..Len(stack[p])
    BY <1>0, <2>3
  <2> QED BY <2>3, <2>4 DEF Moves
<1>5. ASSUME NEW a \in Asms, NEW n \in Names, stack[p] = <<>>, stack' = [stack EXCEPT ![p] = <<Frame(a, n, 0)>>]
      PROVE  Moves(p, k)
  <2>1. stack'[p] = <<Frame(a, n, 0)>>
    BY <1>0, <1>5
  <2>2. k = 1 /\ stack'[p][k] = Frame(a, n, 0)
    BY <2>1
  <2> QED BY <1>5, <2>2 DEF Moves
<1>6. ASSUME NEW q \in Procs, q # p, NEW s, stack' = [stack EXCEPT ![q] = s] PROVE stack'[p] = stack[p]
  BY <1>0, <1>6
<1>7. CASE \E q \in Procs : \E f : Running(q) /\ Becomes(q, f) /\ Goes(Top(q), f)
  <2>0. PICK q \in Procs : \E f : Running(q) /\ Becomes(q, f) /\ Goes(Top(q), f)
    BY <1>7
  <2>1. PICK f : Running(q) /\ Becomes(q, f) /\ Goes(Top(q), f)
    BY <2>0
  <2>2. stack' = [stack EXCEPT ![q] = [stack[q] EXCEPT ![Len(stack[q])] = f]]
    BY <1>0, <2>1 DEF Becomes
  <2> QED BY <1>1, <1>2, <1>6, <2>1, <2>2
<1>8. CASE \E q \in Procs : \E f : \E a \in Asms, n \in Names, d \in 0..MaxDepth :
              Running(q) /\ Enter(q, f, Frame(a, n, d)) /\ Goes(Top(q), f) /\ Opens(Top(q), a, n, d)
  <2>0. PICK q \in Procs : \E f : \E a \in Asms, n \in Names, d \in 0..MaxDepth :
              Running(q) /\ Enter(q, f, Frame(a, n, d)) /\ Goes(Top(q), f) /\ Opens(Top(q), a, n, d)
    BY <1>8
  <2>00. PICK f : \E a \in Asms, n \in Names, d \in 0..MaxDepth :
              Running(q) /\ Enter(q, f, Frame(a, n, d)) /\ Goes(Top(q), f) /\ Opens(Top(q), a, n, d)
    BY <2>0
  <2>1. PICK a \in Asms, n \in Names, d \in 0..MaxDepth :
              Running(q) /\ Enter(q, f, Frame(a, n, d)) /\ Goes(Top(q), f) /\ Opens(Top(q), a, n, d)
    BY <2>00
  <2>2. stack' = [stack EXCEPT ![q] = Append([stack[q] EXCEPT ![Len(stack[q])] = f], Frame(a, n, d))]
    BY <1>0, <2>1 DEF Enter
  <2> QED BY <1>1, <1>3, <1>6, <2>1, <2>2
<1>9. CASE \E q \in Procs : \E t : Running(q) /\ Return(q, t)
  <2>0. PICK q \in Procs : \E t : Running(q) /\ Return(q, t)
    BY <1>9
  <2>1. PICK t : Running(q) /\ Return(q, t)
    BY <2>0
  <2>2. stack' = [stack EXCEPT ![q] = SubSeq(stack[q], 1, Len(stack[q]) - 1)]
    BY <1>0, <2>1 DEF Return
  <2> QED BY <1>1, <1>4, <1>6, <2>1, <2>2
<1>10. CASE \E q \in Procs, a \in Asms, n \in Names :
               stack[q] = <<>> /\ stack' = [stack EXCEPT ![q] = <<Frame(a, n, 0)>>]
  BY <1>1, <1>5, <1>6, <1>10
<1>11. CASE stack' = stack
  BY <1>1, <1>11
<1> QED BY <1>7, <1>8, <1>9, <1>10, <1>11, StepKinds

-----------------------------------------------------------------------------
(* Zero values, and the room on the stack.                                 *)

LEMMA WorldStays ==
    ASSUME ~AttachLate, IInv, Next
    PROVE  UNCHANGED World \/ (Untouched /\ UNCHANGED <<types, impls, stack, walk, ret>>)
<1>1. ASSUME NEW q \in Procs, Step(q) PROVE UNCHANGED World
  BY <1>1 DEF World, Step, Deliver, Hit, FindsNative, FindsOwn, NotOwn, AskDep, DepHas, DepHasNot, FindsInIndex,
             FindsNowhere, NoBase, AskBase, GotBase, NoField, AskField, GotField, Store, WalkFinds,
             WalkAsks, WalkUp, WalkEnds, Becomes, Enter, Return, StoreImpl
<1>2. ASSUME NEW q \in Procs, NEW a \in Asms, NEW n \in Names, CallType(q, a, n) \/ CallImpl(q, a, n)
      PROVE  UNCHANGED World
  BY <1>2 DEF World, CallType, CallImpl
<1>3. ASSUME NEW a \in Asms, NEW b \in Asms, Attach(a, b)
      PROVE  Untouched /\ UNCHANGED <<types, impls, stack, walk, ret>>
  BY <1>3 DEF Attach
<1> QED BY <1>1, <1>2, <1>3 DEF Next

\* Before the first call there are no frames.
LEMMA NoFrames ==
    ASSUME Untouched, NEW p \in Procs
    PROVE  1..Len(stack[p]) = {}
<1>1. Len(stack[p]) = 0
  BY DEF Untouched, Idle
<1> QED BY <1>1

LEMMA TopIs ==
    ASSUME IInv, NEW p \in Procs, Running(p)
    PROVE  /\ Len(stack[p]) \in 1..Len(stack[p]) /\ Len(stack[p]) \in 1..MaxFrames
           /\ Top(p) = stack[p][Len(stack[p])] /\ Top(p) \in FrameType /\ Question(Top(p)) \in Questions
<1>1. stack[p] \in Seq(FrameType) /\ stack[p] # <<>> /\ Len(stack[p]) <= MaxFrames
  BY DEF IInv, Shapes, Running
<1>2. Len(stack[p]) \in Nat \ {0}
  BY <1>1
<1>3. Top(p) \in FrameType
  BY <1>1, TopFacts
<1> QED BY <1>1, <1>2, <1>3, TypeResolveAssumption DEF Top, Question, Questions, FrameType

\* What a question leads to depends on the attached dependencies alone.
LEMMA SameShorter == ASSUME UNCHANGED World PROVE Shorter' = Shorter
  BY DEF World, Shorter, Leads, Questions

LEMMA FrameIs == \A a, n, d : /\ Frame(a, n, d).asm = a /\ Frame(a, n, d).name = n /\ Frame(a, n, d).depth = d
                              /\ Frame(a, n, d).at = "lookup" /\ Frame(a, n, d).own = a
  BY DEF Frame

LEMMA RoomLeft ==
    ASSUME NEW M \in Nat, NEW j \in 1..M
    PROVE  M - j \in Nat /\ M + 1 - j = (M - j) + 1 /\ M + 1 - (j + 1) = M - j
  OBVIOUS

\* The stack has room for what the look-ups that are waited for may need.
LEMMA FramesStayFit ==
    ASSUME ~AttachLate, IInv, Next, StackSuffices => FramesFit
    PROVE  (StackSuffices => FramesFit)'
<1> USE TypeResolveAssumption
<1>1. CASE Untouched /\ UNCHANGED <<types, impls, stack, walk, ret>>
  <2>1. Untouched'
    BY <1>1 DEF Untouched, Idle
  <2>2. \A p \in Procs : 1..Len(stack'[p]) = {}
    BY <1>1, NoFrames
  <2> QED BY <2>2 DEF FramesFit
<1>2. CASE UNCHANGED World
  <2> SUFFICES ASSUME StackSuffices, FramesFit,
                      NEW p \in Procs, NEW k \in 1..Len(stack'[p])
               PROVE  /\ k <= MaxFrames
                      /\ <<stack'[p][k].asm, stack'[p][k].name, stack'[p][k].depth>> \in Shorter[MaxFrames + 1 - k]
    <3>1. StackSuffices' <=> StackSuffices
      BY <1>2, SameShorter DEF StackSuffices, Questions
    <3> QED BY <1>2, <3>1, SameShorter DEF FramesFit
  <2>0. \A j \in 1..Len(stack[p]) : /\ j <= MaxFrames
                                    /\ Question(stack[p][j]) \in Shorter[MaxFrames + 1 - j]
    BY DEF FramesFit, Question
  <2>1. CASE k \in 1..Len(stack[p]) /\ stack'[p][k] = stack[p][k]
    BY <2>0, <2>1 DEF Question
  <2>2. CASE k = Len(stack[p]) /\ Running(p) /\ Goes(Top(p), stack'[p][k])
    <3>1. k \in 1..Len(stack[p]) /\ Top(p) = stack[p][k]
      BY <2>2, TopIs
    <3>2. Question(stack[p][k]) \in Shorter[MaxFrames + 1 - k] /\ k <= MaxFrames
      BY <2>0, <3>1
    <3>3. Question(stack[p][k]) = <<stack'[p][k].asm, stack'[p][k].name, stack'[p][k].depth>>
      BY <2>2, <3>1 DEF Goes, Question
    <3> QED BY <3>2, <3>3
  <2>3. ASSUME k = 1, NEW a \in Asms, NEW n \in Names, stack'[p][k] = Frame(a, n, 0)
        PROVE  /\ k <= MaxFrames
               /\ <<stack'[p][k].asm, stack'[p][k].name, stack'[p][k].depth>> \in Shorter[MaxFrames + 1 - k]
    <3>1. <<a, n, 0>> \in Questions
      BY DEF Questions
    <3>2. <<a, n, 0>> \in Shorter[MaxFrames]
      BY <3>1 DEF StackSuffices
    <3>3. MaxFrames # 0
      BY <3>2, ShorterIs
    <3>4. MaxFrames + 1 - k = MaxFrames /\ k <= MaxFrames
      BY <2>3, <3>3
    <3>5. <<stack'[p][k].asm, stack'[p][k].name, stack'[p][k].depth>> = <<a, n, 0>>
      BY <2>3 DEF Frame
    <3> QED BY <3>2, <3>4, <3>5
  <2>4. ASSUME k = Len(stack[p]) + 1, Running(p), NEW a \in Asms, NEW n \in Names, NEW d \in 0..MaxDepth,
               stack'[p][k] = Frame(a, n, d), Opens(Top(p), a, n, d)
        PROVE  /\ k <= MaxFrames
               /\ <<stack'[p][k].asm, stack'[p][k].name, stack'[p][k].depth>> \in Shorter[MaxFrames + 1 - k]
    <3> DEFINE j == Len(stack[p])
               m == MaxFrames - j
    <3>1. j \in 1..Len(stack[p]) /\ j \in 1..MaxFrames /\ Top(p) = stack[p][j]
      BY <2>4, TopIs
    <3>2. m \in Nat /\ MaxFrames + 1 - j = m + 1 /\ MaxFrames + 1 - k = m
      <4>1. MaxFrames \in Nat /\ j \in 1..MaxFrames /\ k = j + 1
        BY <2>4, <3>1
      <4> HIDE DEF j
      <4> QED BY <4>1, RoomLeft
    <3>3. Question(Top(p)) \in Shorter[m + 1]
      BY <2>0, <3>1, <3>2
    <3>4. <<a, n, d>> \in Questions /\ Leads(Question(Top(p)), <<a, n, d>>)
      BY <2>4 DEF Opens
    <3>5. <<a, n, d>> \in Shorter[m]
      BY <3>2, <3>3, <3>4, ShorterIs
    <3>6. m # 0
      BY <3>5, ShorterIs
    <3>7. k <= MaxFrames
      BY <2>4, <3>1, <3>6
    <3>8. <<stack'[p][k].asm, stack'[p][k].name, stack'[p][k].depth>> = <<a, n, d>>
      BY <2>4 DEF Frame
    <3> QED BY <3>2, <3>5, <3>7, <3>8
  <2>5. Moves(p, k)
    BY StackMoves
  <2> QED BY <2>1, <2>2, <2>3, <2>4, <2>5 DEF Moves
<1> QED BY <1>1, <1>2, WorldStays

LEMMA OneLess ==
    \A m \in Nat : \A d, e \in 0..m : d = e + 1 => m - d \in Nat /\ m - e = (m - d) + 1
  OBVIOUS

LEMMA SelfNested == ASSUME NEW k \in Nat, NEW n \in Names, Field[n] \in {None, n} PROVE n \in Nested[k]
<1>1. CASE k = 0
  BY <1>1, NestedIs
<1>2. CASE k # 0
  <2>1. k - 1 \in Nat /\ (k - 1) + 1 = k
    BY <1>2
  <2>2. Nested[(k - 1) + 1] = {m \in Names : Field[m] \in {None, m} \/ Field[m] \in Native \/ Field[m] \in Nested[k - 1]}
    BY <2>1, NestedIs
  <2> QED BY <2>1, <2>2
<1> QED BY <1>1, <1>2

\* Zero values are made as deep as structs nest.
LEMMA ZerosStayMade ==
    ASSUME ~AttachLate, StructsAreShallow, IInv, Next, ZerosAreMade
    PROVE  ZerosAreMade'
<1> USE TypeResolveAssumption
<1>1. CASE Untouched /\ UNCHANGED <<types, impls, stack, walk, ret>>
  <2>1. \A p \in Procs : 1..Len(stack'[p]) = {}
    BY <1>1, NoFrames
  <2>2. \A a \in Asms, n \in Names : types'[a][n] = None
    BY <1>1 DEF Untouched
  <2> QED BY <2>1, <2>2 DEF ZerosAreMade
<1>2. CASE UNCHANGED World
  <2>0. \A a, n, z : HasZero(a, n, z)' <=> HasZero(a, n, z)
    BY <1>2, SameFindable DEF HasZero
  <2>1. ASSUME NEW p \in Procs, NEW k \in 1..Len(stack'[p])
        PROVE  LET f == stack'[p][k]
               IN  f.name \in Nested[MaxDepth - f.depth] /\ (f.at = "store" => HasZero(f.own, f.name, f.zero))
    <3>0. \A j \in 1..Len(stack[p]) :
             LET f == stack[p][j]
             IN  f.name \in Nested[MaxDepth - f.depth] /\ (f.at = "store" => HasZero(f.own, f.name, f.zero))
      BY DEF ZerosAreMade
    <3>1. CASE k \in 1..Len(stack[p]) /\ stack'[p][k] = stack[p][k]
      BY <3>0, <3>1
    <3>2. CASE k = Len(stack[p]) /\ Running(p) /\ Goes(Top(p), stack'[p][k])
      <4> DEFINE g == stack[p][k]
                 f == stack'[p][k]
      <4>1. k \in 1..Len(stack[p]) /\ Top(p) = g /\ g \in FrameType
        BY <3>2, TopIs
      <4>2. g.name \in Nested[MaxDepth - g.depth]
        BY <3>0, <4>1
      <4>3. Goes(g, f)
        BY <3>2, <4>1
      <4> HIDE DEF f
      <4>4. f.name \in Nested[MaxDepth - f.depth]
        BY <4>2, <4>3 DEF Goes
      <4>5. ASSUME f.at = "store", Field[g.name] \notin {None, g.name}, Findable(g.own, Field[g.name])
            PROVE  f.zero
        <5>1. g.depth # MaxDepth
          <6>1. SUFFICES ASSUME g.depth = MaxDepth PROVE FALSE
            OBVIOUS
          <6>2. MaxDepth - g.depth = 0
            BY <6>1
          <6>3. g.name \in Nested[0]
            BY <4>2, <6>2
          <6> QED BY <4>5, <6>3, NestedIs
        <5> QED BY <4>3, <4>5, <5>1 DEF Goes
      <4>6. f.at = "store" => HasZero(f.own, f.name, f.zero)
        BY <4>3, <4>5 DEF Goes, HasZero
      <4> QED BY <4>4, <4>6 DEF f
    <3>3. ASSUME NEW a \in Asms, NEW n \in Names, stack'[p][k] = Frame(a, n, 0)
          PROVE  LET f == stack'[p][k]
                 IN  f.name \in Nested[MaxDepth - f.depth] /\ (f.at = "store" => HasZero(f.own, f.name, f.zero))
      <4>1. n \in Nested[MaxDepth] /\ MaxDepth - 0 = MaxDepth
        BY DEF StructsAreShallow
      <4> QED BY <3>3, <4>1, FrameIs
    <3>4. ASSUME Running(p), NEW a \in Asms, NEW n \in Names, NEW d \in 0..MaxDepth,
                 stack'[p][k] = Frame(a, n, d), Opens(Top(p), a, n, d)
          PROVE  LET f == stack'[p][k]
                 IN  f.name \in Nested[MaxDepth - f.depth] /\ (f.at = "store" => HasZero(f.own, f.name, f.zero))
      <4>1. n \in Nested[MaxDepth - d]
        <5>1. CASE d = 0
          <6>1. MaxDepth - d = MaxDepth
            BY <5>1
          <6> QED BY <6>1 DEF StructsAreShallow
        <5>2. CASE d # 0
          <6> DEFINE g == Top(p)
          <6>1. /\ g.depth < MaxDepth /\ d = g.depth + 1 /\ n = Field[g.name] /\ n \notin Native
                /\ g \in FrameType /\ g.depth \in 0..MaxDepth /\ g.name \in Names
            BY <3>4, <5>2, TopIs DEF Opens, FrameType
          <6>2. g.name \in Nested[MaxDepth - g.depth]
            <7>1. Len(stack[p]) \in 1..Len(stack[p]) /\ g = stack[p][Len(stack[p])]
              BY <3>4, TopIs
            <7> HIDE DEF g
            <7> QED BY <3>0, <7>1
          <6>3. MaxDepth - d \in Nat /\ MaxDepth - g.depth = (MaxDepth - d) + 1
            <7>1. MaxDepth \in Nat /\ d \in 0..MaxDepth /\ g.depth \in 0..MaxDepth /\ d = g.depth + 1
              BY <3>4, <6>1
            <7> HIDE DEF g
            <7> QED BY <7>1, OneLess
          <6>4. g.name \in Nested[(MaxDepth - d) + 1]
            BY <6>2, <6>3
          <6>5. Nested[(MaxDepth - d) + 1] = {m \in Names : \/ Field[m] \in {None, m} \/ Field[m] \in Native
                                                             \/ Field[m] \in Nested[MaxDepth - d]}
            BY <6>3, NestedIs
          <6>6. n # None
            BY <6>1
          <6>7. n = g.name \/ n \in Nested[MaxDepth - d]
            BY <6>1, <6>4, <6>5, <6>6
          <6>8. n = g.name => Field[n] \in {None, n}
            BY <6>1
          <6> QED BY <6>3, <6>7, <6>8, SelfNested
        <5> QED BY <5>1, <5>2
      <4> QED BY <3>4, <4>1, FrameIs
    <3>5. Moves(p, k)
      BY StackMoves
    <3> QED BY <3>1, <3>2, <3>3, <3>4, <3>5 DEF Moves
  <2>2. ASSUME NEW a \in Asms, NEW n \in Names, types'[a][n] # None
        PROVE  HasZero(a, n, types'[a][n].zero)
    <3>1. CASE types'[a][n] = types[a][n]
      BY <2>2, <3>1 DEF ZerosAreMade
    <3>2. ASSUME NEW q \in Procs, Store(q), types'[a][n] # types[a][n]
          PROVE  HasZero(a, n, types'[a][n].zero)
      <4> DEFINE f == Top(q)
      <4>1. Running(q) /\ f.at = "store"
        BY <3>2 DEF Store, At
      <4>2. HasZero(f.own, f.name, f.zero)
        BY <4>1, TopIs DEF ZerosAreMade
      <4>3. types' = [types EXCEPT ![f.own][f.name] = IF types[f.own][f.name] = None THEN Built(q) ELSE types[f.own][f.name]]
        BY <3>2 DEF Store
      <4>4. a = f.own /\ n = f.name /\ types'[a][n] = Built(q)
        BY <3>2, <4>3 DEF IInv, Shapes
      <4>5. Built(q).zero = f.zero
        BY DEF Built
      <4> QED BY <4>2, <4>4, <4>5
    <3>3. types' = types \/ \E q \in Procs : Store(q)
      BY DEF Next, Step, Deliver, Hit, FindsNative, FindsOwn, NotOwn, AskDep, DepHas, DepHasNot, FindsInIndex,
             FindsNowhere, NoBase, AskBase, GotBase, NoField, AskField, GotField, WalkFinds,
             WalkAsks, WalkUp, WalkEnds, Becomes, Enter, StoreImpl, CallType, CallImpl, Attach
    <3> QED BY <3>1, <3>2, <3>3
  <2> QED BY <2>0, <2>1, <2>2 DEF ZerosAreMade
<1> QED BY <1>1, <1>2, WorldStays

-----------------------------------------------------------------------------
(* The walk up the base classes.                                           *)

LEMMA SameAncestors ==
    ASSUME UNCHANGED World
    PROVE  /\ \A a, n : Ancestor(a, n)' = Ancestor(a, n)
           /\ \A a, n : ImplHere(a, n)' <=> ImplHere(a, n)
           /\ \A a, n : ImplOf(a, n)' = ImplOf(a, n)
<1>0. deps' = deps /\ index' = index /\ joined' = joined
  BY DEF World
<1>1. \A a, n : Ancestor(a, n)' = Ancestor(a, n)
  BY <1>0 DEF Ancestor, Findable, Known, Reach, Closed
<1>2. \A a, n : ImplHere(a, n)' <=> ImplHere(a, n)
  BY <1>0 DEF ImplHere, Known, Reach, Closed
<1>3. \A a, n : ImplOf(a, n)' = ImplOf(a, n)
  BY <1>0 DEF ImplOf, ImplHere, Ancestor, Findable, Known, Reach, Closed
<1> QED BY <1>1, <1>2, <1>3

\* Where the walk of p is, k classes above its start.
Climbs(w, stk, r, k) ==
    LET Up == Ancestor(w.asm, w.name)
    IN  /\ w.cur = Up[k] /\ w.seen = {Up[j] : j \in 0..k}
        /\ \A i, j \in 0..k : Up[i] = Up[j] => i = j
        /\ \A j \in 0..k : j < k \/ w.up => ~ImplHere(w.asm, Up[j])
        /\ IF stk = <<>> THEN w.up => Answers(w.asm, w.cur, r)
           ELSE w.up /\ stk[1].asm = w.asm /\ stk[1].name = w.cur

\* No chain of different classes is longer than there are classes.
LEMMA ClimbsAreShort ==
    ASSUME NEW w \in WalkType, NEW k \in Nat,
           \A j \in 0..k : Ancestor(w.asm, w.name)[j] \in Names,
           \A i, j \in 0..k : Ancestor(w.asm, w.name)[i] = Ancestor(w.asm, w.name)[j] => i = j
    PROVE  Cardinality(Names) \in Nat /\ k \in 0..Cardinality(Names)
<1> DEFINE f == [j \in 0..k |-> Ancestor(w.asm, w.name)[j]]
<1>1. IsFiniteSet(Names)
  BY TypeResolveAssumption
<1>2. f \in Injection(0..k, Names)
  BY DEF Injection, IsInjective
<1>3. Cardinality(0..k) <= Cardinality(Names)
  <2> HIDE DEF f
  <2> QED BY <1>1, <1>2, FS_Injection
<1>4. Cardinality(0..k) = k + 1
  BY FS_Interval
<1>5. Cardinality(Names) \in Nat
  BY <1>1, FS_CardinalityType
<1> QED BY <1>3, <1>4, <1>5

\* The classes a walk has been at are there, as long as it goes on.
LEMMA ClimbedAreNames ==
    ASSUME NEW a, NEW n \in Names, NEW k \in Nat, Ancestor(a, n)[k] # None
    PROVE  \A j \in 0..k : Ancestor(a, n)[j] \in Names
<1> DEFINE U == Ancestor(a, n)
           Back == {i \in Nat : i <= k => U[k - i] \in Names}
<1>0. /\ \A j \in Nat : U[j] \in Names \union {None}
      /\ \A j \in Nat : U[j] = None => U[j + 1] = None
  BY AncestorsAre
<1> HIDE DEF U
<1>1. 0 \in Back
  <2>1. k - 0 = k
    OBVIOUS
  <2> QED BY <1>0, <2>1 DEF U
<1>2. ASSUME NEW i \in Nat, i \in Back PROVE i + 1 \in Back
  <2> SUFFICES ASSUME i + 1 <= k PROVE U[k - (i + 1)] \in Names
    OBVIOUS
  <2>1. i <= k /\ k - (i + 1) \in Nat /\ (k - (i + 1)) + 1 = k - i
    OBVIOUS
  <2>2. U[k - i] \in Names
    BY <1>2, <2>1
  <2>3. U[k - (i + 1)] # None
    <3>1. None \notin Names
      BY TypeResolveAssumption
    <3> QED BY <1>0, <2>1, <2>2, <3>1
  <2> QED BY <1>0, <2>1, <2>3
<1>3. Nat \subseteq Back
  <2> HIDE DEF Back
  <2> QED BY <1>1, <1>2, Counting
<1>4. ASSUME NEW j \in 0..k PROVE U[j] \in Names
  <2>1. k - j \in Nat /\ k - j <= k /\ k - (k - j) = j
    OBVIOUS
  <2> QED BY <1>3, <2>1
<1> QED BY <1>4 DEF U

LEMMA WalkKnowsIs ==
    ASSUME NEW p \in Procs, walk[p] \in WalkType
    PROVE  WalkKnows(p) <=> \E k \in Nat : Climbs(walk[p], stack[p], ret[p], k)
<1> DEFINE w == walk[p]
<1>0. IsFiniteSet(Names) /\ Cardinality(Names) \in Nat
  BY TypeResolveAssumption, FS_CardinalityType
<1>1. ASSUME WalkKnows(p) PROVE \E k \in Nat : Climbs(w, stack[p], ret[p], k)
  BY <1>0, <1>1 DEF WalkKnows, Climbs
<1>2. ASSUME NEW k \in Nat, Climbs(w, stack[p], ret[p], k) PROVE WalkKnows(p)
  <2>1. w.cur \in Names /\ w.name \in Names /\ w.cur = Ancestor(w.asm, w.name)[k]
    BY <1>2 DEF WalkType, Climbs
  <2>2. \A j \in 0..k : Ancestor(w.asm, w.name)[j] \in Names
    <3>1. Ancestor(w.asm, w.name)[k] # None
      BY <2>1, TypeResolveAssumption
    <3> QED BY <2>1, <3>1, ClimbedAreNames
  <2>3. k \in 0..Cardinality(Names)
    BY <1>2, <2>2, ClimbsAreShort DEF Climbs
  <2> QED BY <1>2, <2>3 DEF WalkKnows, Climbs
<1> QED BY <1>1, <1>2

\* What the walk finds is what a new one would.
LEMMA FoundIs ==
    ASSUME NEW a, NEW n \in Names, NEW k \in 0..Cardinality(Names),
           Ancestor(a, n)[k] # None, ImplHere(a, Ancestor(a, n)[k]),
           \A j \in 0..k : j < k => ~ImplHere(a, Ancestor(a, n)[j])
    PROVE  ImplOf(a, n) = Ancestor(a, n)[k]
<1>0. Cardinality(Names) \in Nat
  BY TypeResolveAssumption, FS_CardinalityType
<1> DEFINE found == {j \in 0..Cardinality(Names) : Ancestor(a, n)[j] # None /\ ImplHere(a, Ancestor(a, n)[j])}
<1>1. k \in found /\ \A j \in found : k <= j
  BY <1>0
<1>2. \A i \in found : (\A j \in found : i <= j) => i = k
  BY <1>0, <1>1
<1>3. (CHOOSE i \in found : \A j \in found : i <= j) = k
  <2> HIDE DEF found
  <2> QED BY <1>1, <1>2
<1>4. found # {}
  BY <1>1
<1>5. ImplOf(a, n) = IF found = {} THEN None ELSE Ancestor(a, n)[CHOOSE i \in found : \A j \in found : i <= j]
  BY DEF ImplOf
<1> HIDE DEF found
<1> QED BY <1>3, <1>4, <1>5

LEMMA FoundNot ==
    ASSUME NEW a, NEW n \in Names, \A j \in Nat : ~ImplHere(a, Ancestor(a, n)[j])
    PROVE  ImplOf(a, n) = None
<1>0. Cardinality(Names) \in Nat
  BY TypeResolveAssumption, FS_CardinalityType
<1> DEFINE found == {j \in 0..Cardinality(Names) : Ancestor(a, n)[j] # None /\ ImplHere(a, Ancestor(a, n)[j])}
<1>1. found = {}
  BY <1>0
<1>2. ImplOf(a, n) = IF found = {} THEN None ELSE Ancestor(a, n)[CHOOSE i \in found : \A j \in found : i <= j]
  BY DEF ImplOf
<1> HIDE DEF found
<1> QED BY <1>1, <1>2

\* What the walk goes to is the class above, as far as it can be resolved.
LEMMA AboveIs ==
    ASSUME NEW p \in Procs, walk[p] \in WalkType, NEW k \in Nat, Climbs(walk[p], stack[p], ret[p], k),
           Walking(p, TRUE)
    PROVE  Above(p) = Ancestor(walk[p].asm, walk[p].name)[k + 1]
<1> DEFINE w == walk[p]
<1>1. w.up /\ stack[p] = <<>>
  BY DEF Walking
<1>2. Answers(w.asm, w.cur, ret[p]) /\ w.cur = Ancestor(w.asm, w.name)[k]
  BY <1>1 DEF Climbs
<1>3. w.name \in Names /\ w.cur \in Names /\ w.cur # None
  BY TypeResolveAssumption DEF WalkType
<1>4. Ancestor(w.asm, w.name)[k + 1] = IF ~Findable(w.asm, w.cur) THEN None ELSE Base[w.cur]
  BY <1>2, <1>3, AncestorsAre
<1> HIDE DEF w
<1>5. CASE ret[p] = None
  BY <1>2, <1>4, <1>5 DEF Answers, Above, w
<1>6. CASE ret[p] # None
  BY <1>2, <1>4, <1>6 DEF Answers, Above, w
<1> QED BY <1>5, <1>6

\* The walk that ends without having found anything has been everywhere.
LEMMA EndOfWalk ==
    ASSUME IInv, NEW p \in Procs, walk[p] \in WalkType, NEW k \in Nat,
           Climbs(walk[p], stack[p], ret[p], k), WalkEnds(p)
    PROVE  ImplOf(walk[p].asm, walk[p].name) = None
<1> DEFINE w == walk[p]
           U == Ancestor(w.asm, w.name)
           Been == {j \in Nat : U[j] \in w.seen \union {None}}
<1>0. w.name \in Names /\ w.up
  BY DEF WalkType, WalkEnds, Walking
<1>1. /\ w.cur = U[k] /\ w.seen = {U[j] : j \in 0..k}
      /\ \A j \in 0..k : ~ImplHere(w.asm, U[j])
  BY <1>0 DEF Climbs
<1>2. U[k + 1] = None \/ U[k + 1] \in w.seen
  BY AboveIs DEF WalkEnds
<1>3. \A j \in Nat : U[j + 1] = IF U[j] = None \/ ~Findable(w.asm, U[j]) THEN None ELSE Base[U[j]]
  BY <1>0, AncestorsAre
<1> HIDE DEF U, w
<1>4. 0 \in Been
  BY <1>1
<1>5. ASSUME NEW j \in Nat, j \in Been PROVE j + 1 \in Been
  <2>1. CASE U[j] = None
    BY <1>3, <2>1
  <2>2. CASE U[j] # None
    <3>1. PICK i \in 0..k : U[j] = U[i]
      BY <1>1, <1>5, <2>2
    <3>2. U[j + 1] = U[i + 1]
      BY <1>3, <3>1
    <3>3. CASE i = k
      BY <1>2, <3>2, <3>3
    <3>4. CASE i # k
      <4>1. i + 1 \in 0..k
        BY <3>4
      <4> QED BY <1>1, <3>2, <4>1
    <3> QED BY <3>3, <3>4
  <2> QED BY <2>1, <2>2
<1>6. Nat \subseteq Been
  <2> HIDE DEF Been
  <2> QED BY <1>4, <1>5, Counting
<1>7. ASSUME NEW j \in Nat PROVE ~ImplHere(w.asm, U[j])
  <2>1. U[j] \in w.seen \union {None}
    BY <1>6
  <2>2. ~ImplHere(w.asm, None)
    BY TypeResolveAssumption DEF ImplHere
  <2> QED BY <1>1, <2>1, <2>2
<1> QED BY <1>0, <1>7, FoundNot DEF U, w

LEMMA GoesOn ==
    ASSUME NEW w \in WalkType, NEW k \in Nat, NEW s, NEW r, Climbs(w, s, r, k),
           NEW c, c = Ancestor(w.asm, w.name)[k + 1], c # None, c \notin w.seen, w.up, NEW v,
           v = [w EXCEPT !.up = FALSE, !.cur = c, !.seen = w.seen \union {c}], NEW rr
    PROVE  Climbs(v, <<>>, rr, k + 1)
<1> DEFINE U == Ancestor(w.asm, w.name)
<1>1. /\ v.asm = w.asm /\ v.name = w.name /\ v.cur = c /\ v.seen = w.seen \union {c} /\ v.up = FALSE
  BY DEF WalkType
<1>2. /\ w.seen = {U[j] : j \in 0..k}
      /\ \A i, j \in 0..k : U[i] = U[j] => i = j
      /\ \A j \in 0..k : ~ImplHere(w.asm, U[j])
  BY DEF Climbs
<1>3. c = U[k + 1]
  OBVIOUS
<1> HIDE DEF U
<1>4. \A j \in 0..(k + 1) : j = k + 1 \/ j \in 0..k
  OBVIOUS
<1>5. v.seen = {U[j] : j \in 0..(k + 1)}
  BY <1>1, <1>2, <1>3, <1>4
<1>6. \A i, j \in 0..(k + 1) : U[i] = U[j] => i = j
  BY <1>2, <1>3, <1>4
<1>7. \A j \in 0..(k + 1) : j < k + 1 => ~ImplHere(w.asm, U[j])
  BY <1>2, <1>4
<1> QED BY <1>1, <1>3, <1>5, <1>6, <1>7 DEF Climbs, U

\* What the walks know does not change when a look-up takes a step for one.
LEMMA LookupKeepsWalk ==
    ASSUME ~AttachLate, IInv, Next, NEW p \in Procs, walk[p] \in WalkType, walk'[p] = walk[p],
           NEW k \in Nat, Climbs(walk[p], stack[p], ret[p], k), stack[p] # <<>>
    PROVE  Climbs(walk'[p], stack'[p], ret'[p], k)
<1> DEFINE w == walk[p]
<1>0. /\ stack[p] \in Seq(FrameType) /\ Len(stack[p]) \in Nat \ {0} /\ stack'[p] \in Seq(FrameType)
  <2>1. IInv'
    BY NextIInv
  <2>2. stack \in [Procs -> Seq(FrameType)] /\ stack' \in [Procs -> Seq(FrameType)]
    BY <2>1 DEF IInv, Shapes
  <2> QED BY <2>2
<1>1. w.up /\ stack[p][1].asm = w.asm /\ stack[p][1].name = w.cur
  BY DEF Climbs
<1>2. CASE stack'[p] # <<>>
  <2>1. 1 \in 1..Len(stack'[p])
    BY <1>0, <1>2
  <2>2. Moves(p, 1)
    BY <2>1, StackMoves
  <2>3. stack'[p][1].asm = w.asm /\ stack'[p][1].name = w.cur
    BY <1>0, <1>1, <2>2, TopIs DEF Moves, Goes
  <2> QED BY <1>1, <1>2, <2>3 DEF Climbs
<1>3. CASE stack'[p] = <<>>
  <2>1. Len(stack'[p]) = 0
    BY <1>3
  <2>2. Answers(Top(p).asm, Top(p).name, ret'[p])
    BY <1>0, <2>1, AnswerStep
  <2>3. Len(stack[p]) = 1
    <3>1. stack'[p] # stack[p]
      BY <1>3
    <3>2. stack \in [Procs -> Seq(FrameType)]
      BY DEF IInv, Shapes
    <3>3. ASSUME NEW f, Becomes(p, f), Running(p) PROVE FALSE
      <4>1. stack'[p] = [stack[p] EXCEPT ![Len(stack[p])] = f]
        BY <3>2, <3>3 DEF Becomes
      <4>2. Len(stack'[p]) = Len(stack[p])
        BY <1>0, <4>1, SetLast
      <4> QED BY <1>0, <2>1, <4>2
    <3>4. ASSUME NEW f, NEW c, Enter(p, f, c), Running(p) PROVE FALSE
      <4> DEFINE u == [stack[p] EXCEPT ![Len(stack[p])] = f]
                 S == FrameType \union {f}
      <4>1. stack'[p] = Append(u, c)
        BY <3>2, <3>4 DEF Enter
      <4>2. u \in Seq(S)
        BY <1>0, SetLast
      <4> HIDE DEF u, S
      <4>3. Len(stack'[p]) = Len(u) + 1 /\ Len(u) \in Nat
        BY <4>1, <4>2
      <4> QED BY <2>1, <4>3
    <3>5. ASSUME NEW t, Return(p, t), Running(p) PROVE Len(stack[p]) = 1
      <4>1. stack'[p] = SubSeq(stack[p], 1, Len(stack[p]) - 1)
        BY <3>2, <3>5 DEF Return
      <4>2. PICK u \in Seq(FrameType) : u = SubSeq(stack[p], 1, Len(stack[p]) - 1) /\ Len(u) = Len(stack[p]) - 1
        <5>1. stack[p] # <<>>
          BY <1>0
        <5> QED BY <1>0, <5>1, Pop
      <4>3. Len(u) = 0
        BY <2>1, <4>1, <4>2
      <4>4. PICK m \in Nat \ {0} : m = Len(stack[p])
        BY <1>0
      <4>5. m - 1 = 0
        BY <4>2, <4>3, <4>4
      <4>6. m = 1
        BY <4>5
      <4> QED BY <4>4, <4>6
    <3>6. ASSUME NEW q \in Procs, q # p, NEW s, stack' = [stack EXCEPT ![q] = s] PROVE FALSE
      BY <3>1, <3>2, <3>6
    <3>7. CASE \E q \in Procs : \E f : Running(q) /\ Becomes(q, f) /\ Goes(Top(q), f)
      <4>0. PICK q \in Procs : \E f : Running(q) /\ Becomes(q, f)
        BY <3>7
      <4>1. PICK f : Running(q) /\ Becomes(q, f)
        BY <4>0
      <4>2. stack' = [stack EXCEPT ![q] = [stack[q] EXCEPT ![Len(stack[q])] = f]]
        BY <3>2, <4>1 DEF Becomes
      <4> QED BY <3>3, <3>6, <4>1, <4>2
    <3>8. CASE \E q \in Procs : \E f : \E a \in Asms, n \in Names, d \in 0..MaxDepth :
              Running(q) /\ Enter(q, f, Frame(a, n, d)) /\ Goes(Top(q), f) /\ Opens(Top(q), a, n, d)
      <4>0. PICK q \in Procs : \E f, c : Running(q) /\ Enter(q, f, c)
        BY <3>8
      <4>1. PICK f, c : Running(q) /\ Enter(q, f, c)
        BY <4>0
      <4>2. stack' = [stack EXCEPT ![q] = Append([stack[q] EXCEPT ![Len(stack[q])] = f], c)]
        BY <3>2, <4>1 DEF Enter
      <4> QED BY <3>4, <3>6, <4>1, <4>2
    <3>9. CASE \E q \in Procs : \E t : Running(q) /\ Return(q, t)
      <4>0. PICK q \in Procs : \E t : Running(q) /\ Return(q, t)
        BY <3>9
      <4>1. PICK t : Running(q) /\ Return(q, t)
        BY <4>0
      <4>2. stack' = [stack EXCEPT ![q] = SubSeq(stack[q], 1, Len(stack[q]) - 1)]
        BY <3>2, <4>1 DEF Return
      <4> QED BY <3>5, <3>6, <4>1, <4>2
    <3>10. CASE \E q \in Procs, a \in Asms, n \in Names :
               stack[q] = <<>> /\ stack' = [stack EXCEPT ![q] = <<Frame(a, n, 0)>>]
      <4>1. PICK q \in Procs, a \in Asms, n \in Names :
               stack[q] = <<>> /\ stack' = [stack EXCEPT ![q] = <<Frame(a, n, 0)>>]
        BY <3>10
      <4>2. q # p
        BY <4>1
      <4> QED BY <3>6, <4>1, <4>2
    <3> QED BY <3>1, <3>7, <3>8, <3>9, <3>10, StepKinds
  <2>4. Top(p) = stack[p][1]
    BY <2>3 DEF Top
  <2> QED BY <1>1, <1>3, <2>2, <2>4 DEF Climbs
<1> QED BY <1>2, <1>3


\* What a walk knows depends on the attached dependencies and the walk alone.
LEMMA KnowsAfter ==
    ASSUME UNCHANGED World, NEW p \in Procs, walk'[p] \in WalkType, NEW k \in Nat,
           Climbs(walk'[p], stack'[p], ret'[p], k)
    PROVE  WalkKnows(p)'
<1> DEFINE w == walk'[p]
<1>0. deps' = deps /\ index' = index /\ joined' = joined
  BY DEF World
<1>1. w.cur \in Names /\ w.name \in Names /\ w.cur = Ancestor(w.asm, w.name)[k]
  BY DEF WalkType, Climbs
<1>2. \A j \in 0..k : Ancestor(w.asm, w.name)[j] \in Names
  <2>1. Ancestor(w.asm, w.name)[k] # None
    BY <1>1, TypeResolveAssumption
  <2> HIDE DEF w
  <2> QED BY <1>1, <2>1, ClimbedAreNames
<1>3. k \in 0..Cardinality(Names)
  <2>1. \A i, j \in 0..k : Ancestor(w.asm, w.name)[i] = Ancestor(w.asm, w.name)[j] => i = j
    BY DEF Climbs
  <2>2. w \in WalkType
    OBVIOUS
  <2> HIDE DEF w
  <2> QED BY <1>2, <2>1, <2>2, ClimbsAreShort
<1>4. Ancestor(walk[p].asm, walk[p].name)' = Ancestor(w.asm, w.name)
  BY <1>0 DEF Ancestor, Findable, Known, Reach, Closed
<1>5. \A j \in Nat : ImplHere(walk[p].asm, Ancestor(walk[p].asm, walk[p].name)[j])'
                        <=> ImplHere(w.asm, Ancestor(w.asm, w.name)[j])
  BY <1>0, <1>4 DEF ImplHere, Known, Reach, Closed
<1>6. Answers(walk[p].asm, walk[p].cur, ret[p])' <=> Answers(w.asm, w.cur, ret'[p])
  BY <1>0 DEF Answers, Findable, Known, Reach, Closed
<1> QED BY <1>3, <1>4, <1>5, <1>6 DEF WalkKnows, Climbs

-----------------------------------------------------------------------------
(* The steps of a walk.                                                    *)

LEMMA WalkTypes ==
    ASSUME IInv
    PROVE  /\ walk \in [Procs -> WalkType \union {None}] /\ stack \in [Procs -> Seq(FrameType)]
           /\ ret \in [Procs -> Type \union {None}] /\ impls \in [Asms -> [Names -> Names \union {None, Unknown}]]
           /\ \A p \in Procs : walk[p] # None => walk[p] \in WalkType
  BY DEF IInv, Shapes

\* What a step may do to a walk.
LEMMA WalkMoves ==
    ASSUME IInv, Next, NEW p \in Procs
    PROVE  \/ walk'[p] = walk[p] /\ stack'[p] = stack[p] /\ ret'[p] = ret[p]
           \/ walk'[p] = walk[p] /\ stack[p] # <<>>
           \/ walk'[p] = None
           \/ \E a \in Asms, n \in Names : CallImpl(p, a, n)
           \/ WalkAsks(p) \/ WalkUp(p)
<1>0. walk \in [Procs -> WalkType \union {None}] /\ stack \in [Procs -> Seq(FrameType)] /\ ret \in [Procs -> Type \union {None}]
  BY WalkTypes
<1>1. ASSUME NEW q \in Procs, q # p, NEW s, NEW r, NEW w,
             stack' = stack \/ stack' = [stack EXCEPT ![q] = s],
             ret' = ret \/ ret' = [ret EXCEPT ![q] = r],
             walk' = walk \/ walk' = [walk EXCEPT ![q] = w]
      PROVE  walk'[p] = walk[p] /\ stack'[p] = stack[p] /\ ret'[p] = ret[p]
  BY <1>0, <1>1
<1>2. ASSUME NEW q \in Procs, \/ \E f : Running(q) /\ Becomes(q, f)
                              \/ \E f, c : Running(q) /\ Enter(q, f, c)
                              \/ \E t : Running(q) /\ Return(q, t)
      PROVE  \/ walk'[p] = walk[p] /\ stack'[p] = stack[p] /\ ret'[p] = ret[p]
             \/ walk'[p] = walk[p] /\ stack[p] # <<>>
  <2>1. walk' = walk /\ stack[q] # <<>>
    BY <1>2 DEF Becomes, Enter, Return, Running
  <2>2. CASE q = p
    BY <2>1, <2>2
  <2>3. CASE q # p
    <3>1. \E s : stack' = [stack EXCEPT ![q] = s]
      <4>1. ASSUME NEW f, Becomes(q, f) PROVE stack' = [stack EXCEPT ![q] = [stack[q] EXCEPT ![Len(stack[q])] = f]]
        BY <1>0, <4>1 DEF Becomes
      <4>2. ASSUME NEW f, NEW c, Enter(q, f, c)
            PROVE  stack' = [stack EXCEPT ![q] = Append([stack[q] EXCEPT ![Len(stack[q])] = f], c)]
        BY <1>0, <4>2 DEF Enter
      <4>3. ASSUME NEW t, Return(q, t) PROVE stack' = [stack EXCEPT ![q] = SubSeq(stack[q], 1, Len(stack[q]) - 1)]
        BY <1>0, <4>3 DEF Return
      <4> QED BY <1>2, <4>1, <4>2, <4>3
    <3>2. ret' = ret \/ \E r : ret' = [ret EXCEPT ![q] = r]
      BY <1>2 DEF Becomes, Enter, Return
    <3> QED BY <1>1, <2>1, <2>3, <3>1, <3>2
  <2> QED BY <2>2, <2>3
<1>3. ASSUME NEW q \in Procs, Step(q)
      PROVE  \/ \E f : Running(q) /\ Becomes(q, f)
             \/ \E f, c : Running(q) /\ Enter(q, f, c)
             \/ \E t : Running(q) /\ Return(q, t)
             \/ Deliver(q) \/ WalkFinds(q) \/ WalkAsks(q) \/ WalkUp(q) \/ WalkEnds(q)
  <2>1. CASE \/ FindsOwn(q) \/ NotOwn(q) \/ DepHasNot(q) \/ FindsInIndex(q)
             \/ NoBase(q) \/ GotBase(q) \/ NoField(q) \/ GotField(q)
    BY <2>1 DEF FindsOwn, NotOwn, DepHasNot, FindsInIndex, NoBase, GotBase, NoField, GotField, At
  <2>2. CASE AskDep(q) \/ AskBase(q) \/ AskField(q)
    BY <2>2 DEF AskDep, AskBase, AskField, At
  <2>3. CASE Hit(q) \/ FindsNative(q) \/ DepHas(q) \/ FindsNowhere(q) \/ Store(q)
    BY <2>3 DEF Hit, FindsNative, DepHas, FindsNowhere, Store, At
  <2> QED BY <1>3, <2>1, <2>2, <2>3 DEF Step
<1>4. ASSUME NEW q \in Procs, Deliver(q) \/ WalkFinds(q) \/ WalkAsks(q) \/ WalkUp(q) \/ WalkEnds(q)
      PROVE  \/ walk'[p] = walk[p] /\ stack'[p] = stack[p] /\ ret'[p] = ret[p]
             \/ walk'[p] = None \/ WalkAsks(p) \/ WalkUp(p)
  <2>1. CASE q # p
    <3>1. /\ stack' = stack \/ \E s : stack' = [stack EXCEPT ![q] = s]
          /\ ret' = ret \/ \E r : ret' = [ret EXCEPT ![q] = r]
          /\ walk' = walk \/ \E w : walk' = [walk EXCEPT ![q] = w]
      <4>1. CASE Deliver(q) \/ WalkFinds(q) \/ WalkUp(q) \/ WalkEnds(q)
        BY <4>1 DEF Deliver, WalkFinds, WalkUp, WalkEnds, StoreImpl
      <4>2. CASE WalkAsks(q)
        <5>1. walk' = [walk EXCEPT ![q] = [walk[q] EXCEPT !.up = TRUE]]
          BY <1>0, <4>2 DEF WalkAsks
        <5> QED BY <4>2, <5>1 DEF WalkAsks
      <4> QED BY <1>4, <4>1, <4>2
    <3> QED BY <1>1, <2>1, <3>1
  <2>2. CASE q = p
    <3>1. CASE Deliver(p)
      BY <3>1 DEF Deliver
    <3>2. CASE WalkFinds(p) \/ WalkEnds(p)
      BY <1>0, <3>2 DEF WalkFinds, WalkEnds, StoreImpl
    <3> QED BY <1>4, <2>2, <3>1, <3>2
  <2> QED BY <2>1, <2>2
<1>5. ASSUME NEW q \in Procs, NEW a \in Asms, NEW n \in Names, CallType(q, a, n) \/ CallImpl(q, a, n)
      PROVE  \/ walk'[p] = walk[p] /\ stack'[p] = stack[p] /\ ret'[p] = ret[p]
             \/ walk'[p] = None \/ CallImpl(p, a, n)
  <2>1. CASE q # p
    <3>1. /\ stack' = stack \/ \E s : stack' = [stack EXCEPT ![q] = s]
          /\ ret' = ret
          /\ walk' = walk \/ \E w : walk' = [walk EXCEPT ![q] = w]
      BY <1>5 DEF CallType, CallImpl
    <3> QED BY <1>1, <2>1, <3>1
  <2>2. CASE q = p
    BY <1>5, <2>2 DEF CallType, Idle
  <2> QED BY <2>1, <2>2
<1>6. ASSUME NEW a \in Asms, NEW b \in Asms, Attach(a, b)
      PROVE  walk'[p] = walk[p] /\ stack'[p] = stack[p] /\ ret'[p] = ret[p]
  BY <1>6 DEF Attach
<1> QED BY <1>2, <1>3, <1>4, <1>5, <1>6 DEF Next

\* A walk that begins.
LEMMA WalkStarts ==
    ASSUME IInv, NEW p \in Procs, NEW a \in Asms, NEW n \in Names, CallImpl(p, a, n)
    PROVE  walk'[p] \in WalkType /\ Climbs(walk'[p], stack'[p], ret'[p], 0)
<1> DEFINE w == [asm |-> a, name |-> n, cur |-> n, seen |-> {n}, up |-> FALSE]
<1>1. walk'[p] = w /\ stack'[p] = <<>>
  BY WalkTypes DEF CallImpl, Idle
<1>2. w \in WalkType
  BY DEF WalkType
<1>3. Ancestor(a, n)[0] = n
  BY AncestorsAre
<1>4. \A j \in 0..0 : j = 0
  OBVIOUS
<1>5. Climbs(w, <<>>, ret'[p], 0)
  BY <1>3, <1>4 DEF Climbs
<1> QED BY <1>1, <1>2, <1>5

\* The walk that asks for the type it is at.
LEMMA WalkGoesUp ==
    ASSUME IInv, NEW p \in Procs, walk[p] \in WalkType, NEW k \in Nat, Climbs(walk[p], stack[p], ret[p], k),
           WalkAsks(p)
    PROVE  walk'[p] \in WalkType /\ Climbs(walk'[p], stack'[p], ret'[p], k)
<1> DEFINE w == walk[p]
           v == [w EXCEPT !.up = TRUE]
<1>1. walk'[p] = v /\ stack'[p] = <<Frame(w.asm, w.cur, 0)>>
  BY WalkTypes DEF WalkAsks
<1>2. v \in WalkType /\ v.asm = w.asm /\ v.name = w.name /\ v.cur = w.cur /\ v.seen = w.seen /\ v.up = TRUE
  BY DEF WalkType
<1>3. ~ImplHere(w.asm, w.cur)
  BY DEF WalkAsks
<1>4. stack'[p] # <<>> /\ stack'[p][1].asm = w.asm /\ stack'[p][1].name = w.cur
  BY <1>1, FrameIs
<1>5. /\ w.cur = Ancestor(w.asm, w.name)[k] /\ w.seen = {Ancestor(w.asm, w.name)[j] : j \in 0..k}
      /\ \A i, j \in 0..k : Ancestor(w.asm, w.name)[i] = Ancestor(w.asm, w.name)[j] => i = j
      /\ \A j \in 0..k : j < k => ~ImplHere(w.asm, Ancestor(w.asm, w.name)[j])
  BY DEF Climbs
<1> HIDE DEF w, v
<1>6. \A j \in 0..k : ~ImplHere(w.asm, Ancestor(w.asm, w.name)[j])
  <2>1. \A j \in 0..k : j < k \/ j = k
    OBVIOUS
  <2> QED BY <1>3, <1>5, <2>1
<1> QED BY <1>1, <1>2, <1>4, <1>5, <1>6 DEF Climbs

LEMMA WalkGoesOn ==
    ASSUME IInv, NEW p \in Procs, walk[p] \in WalkType, NEW k \in Nat, Climbs(walk[p], stack[p], ret[p], k),
           WalkUp(p)
    PROVE  walk'[p] \in WalkType /\ Climbs(walk'[p], stack'[p], ret'[p], k + 1)
<1> DEFINE w == walk[p]
           c == Above(p)
           v == [w EXCEPT !.up = FALSE, !.cur = c, !.seen = w.seen \union {c}]
<1>1. Walking(p, TRUE) /\ w.up /\ stack[p] = <<>> /\ c # None /\ c \notin w.seen
  BY DEF WalkUp, Walking
<1>2. c = Ancestor(w.asm, w.name)[k + 1]
  BY <1>1, AboveIs
<1>3. walk'[p] = v /\ stack'[p] = <<>>
  BY <1>1, WalkTypes DEF WalkUp
<1>4. Climbs(v, <<>>, ret'[p], k + 1)
  <2> HIDE DEF c
  <2> QED BY <1>1, <1>2, GoesOn
<1>5. c \in Names
  <2>1. w.name \in Names /\ k + 1 \in Nat
    BY DEF WalkType
  <2>2. Ancestor(w.asm, w.name) \in [Nat -> Names \union {None}]
    BY <2>1, AncestorsAre
  <2> QED BY <1>1, <1>2, <2>1, <2>2
<1>6. v \in WalkType
  <2> HIDE DEF c
  <2> QED BY <1>5 DEF WalkType
<1> QED BY <1>3, <1>4, <1>6

LEMMA WalksStayKnown ==
    ASSUME ~AttachLate, IInv, Next, WalksKnow
    PROVE  WalksKnow'
<1>0. IInv'
  BY NextIInv
<1>1. CASE Untouched /\ UNCHANGED <<types, impls, stack, walk, ret>>
  BY <1>1 DEF Untouched, Idle, WalksKnow
<1>2. CASE UNCHANGED World
  <2> SUFFICES ASSUME NEW p \in Procs, walk'[p] # None PROVE WalkKnows(p)'
    BY DEF WalksKnow
  <2>1. walk'[p] \in WalkType
    <3>1. walk' \in [Procs -> WalkType \union {None}]
      BY <1>0 DEF IInv, Shapes
    <3> QED BY <3>1
  <2>2. SUFFICES \E k \in Nat : Climbs(walk'[p], stack'[p], ret'[p], k)
    BY <1>2, <2>1, KnowsAfter
  <2>3. ASSUME walk[p] # None
        PROVE  walk[p] \in WalkType /\ \E k \in Nat : Climbs(walk[p], stack[p], ret[p], k)
    BY <2>3, WalkTypes, WalkKnowsIs DEF WalksKnow
  <2>4. CASE walk'[p] = walk[p] /\ stack'[p] = stack[p] /\ ret'[p] = ret[p]
    BY <2>1, <2>3, <2>4
  <2>5. CASE walk'[p] = walk[p] /\ stack[p] # <<>>
    <3>1. PICK k \in Nat : Climbs(walk[p], stack[p], ret[p], k)
      BY <2>3, <2>5
    <3>2. Climbs(walk'[p], stack'[p], ret'[p], k)
      BY <2>3, <2>5, <3>1, LookupKeepsWalk
    <3> QED BY <3>2
  <2>6. ASSUME NEW a \in Asms, NEW n \in Names, CallImpl(p, a, n)
        PROVE  \E k \in Nat : Climbs(walk'[p], stack'[p], ret'[p], k)
    BY <2>6, WalkStarts
  <2>7. CASE WalkAsks(p) \/ WalkUp(p)
    <3>1. walk[p] # None
      BY <2>7 DEF WalkAsks, WalkUp, Walking
    <3>2. PICK k \in Nat : Climbs(walk[p], stack[p], ret[p], k)
      BY <2>3, <3>1
    <3>3. Climbs(walk'[p], stack'[p], ret'[p], k) \/ Climbs(walk'[p], stack'[p], ret'[p], k + 1)
      BY <2>3, <2>7, <3>1, <3>2, WalkGoesUp, WalkGoesOn
    <3> QED BY <3>3
  <2> QED BY <2>4, <2>5, <2>6, <2>7, WalkMoves
<1> QED BY <1>1, <1>2, WorldStays

\* What is stored is what a new walk would find, and stays it.
LEMMA ImplsStayCurrent ==
    ASSUME ~AttachLate, IInv, Next, WalksKnow, ImplCacheIsCurrent
    PROVE  ImplCacheIsCurrent'
<1>1. CASE Untouched /\ UNCHANGED <<types, impls, stack, walk, ret>>
  BY <1>1 DEF Untouched, ImplCacheIsCurrent
<1>2. CASE UNCHANGED World
  <2>1. \A a, n : ImplOf(a, n)' = ImplOf(a, n)
    BY <1>2, SameAncestors
  <2>2. ASSUME NEW p \in Procs, WalkFinds(p) \/ WalkEnds(p), NEW a \in Asms, NEW n \in Names,
               impls'[a][n] # impls[a][n]
        PROVE  impls'[a][n] = ImplOf(a, n)
    <3> DEFINE w == walk[p]
    <3>0. w # None /\ w \in WalkType
      BY <2>2, WalkTypes DEF WalkFinds, WalkEnds, Walking
    <3>1. PICK k \in Nat : Climbs(w, stack[p], ret[p], k)
      BY <3>0, WalkKnowsIs DEF WalksKnow
    <3>2. impls' = [impls EXCEPT ![w.asm][w.name] = IF WalkFinds(p) THEN w.cur ELSE None]
      BY <2>2 DEF WalkFinds, WalkEnds, Walking, StoreImpl
    <3>3. a = w.asm /\ n = w.name /\ impls'[a][n] = IF WalkFinds(p) THEN w.cur ELSE None
      BY <2>2, <3>2, WalkTypes
    <3>4. CASE WalkFinds(p)
      <4>1. ImplHere(w.asm, w.cur) /\ w.cur \in Names /\ w.name \in Names /\ w.cur # None
        BY <3>0, <3>4, TypeResolveAssumption DEF WalkFinds, WalkType
      <4>2. /\ w.cur = Ancestor(w.asm, w.name)[k]
            /\ \A i, j \in 0..k : Ancestor(w.asm, w.name)[i] = Ancestor(w.asm, w.name)[j] => i = j
            /\ \A j \in 0..k : j < k => ~ImplHere(w.asm, Ancestor(w.asm, w.name)[j])
        BY <3>1 DEF Climbs
      <4>3. k \in 0..Cardinality(Names)
        <5>1. \A j \in 0..k : Ancestor(w.asm, w.name)[j] \in Names
          BY <4>1, <4>2, ClimbedAreNames
        <5> QED BY <3>0, <4>2, <5>1, ClimbsAreShort
      <4>4. ImplOf(w.asm, w.name) = w.cur
        <5> HIDE DEF w
        <5> QED BY <4>1, <4>2, <4>3, FoundIs
      <4> QED BY <3>3, <3>4, <4>4
    <3>5. CASE ~WalkFinds(p)
      BY <2>2, <3>0, <3>1, <3>3, <3>5, EndOfWalk
    <3> QED BY <3>4, <3>5
  <2>3. impls' = impls \/ \E p \in Procs : WalkFinds(p) \/ WalkEnds(p)
    BY DEF Next, Step, Deliver, Hit, FindsNative, FindsOwn, NotOwn, AskDep, DepHas, DepHasNot, FindsInIndex,
           FindsNowhere, NoBase, AskBase, GotBase, NoField, AskField, GotField, Store, WalkAsks, WalkUp,
           Becomes, Enter, Return, CallType, CallImpl, Attach
  <2> QED BY <2>1, <2>2, <2>3 DEF ImplCacheIsCurrent
<1> QED BY <1>1, <1>2, WorldStays

-----------------------------------------------------------------------------
(* The theorems on resolution as a whole.                                  *)

\* Why the remembered implementations, the zero values and the stack are right.
WInv == IInv /\ WalksKnow /\ ImplCacheIsCurrent
ZInv == IInv /\ ZerosAreMade
SInv == IInv /\ (StackSuffices => FramesFit)

LEMMA InitQuiet ==
    Init => /\ \A p \in Procs : stack[p] = <<>> /\ walk[p] = None /\ 1..Len(stack[p]) = {}
            /\ \A a \in Asms, n \in Names : types[a][n] = None /\ impls[a][n] = Unknown
<1> SUFFICES ASSUME Init
             PROVE  /\ \A p \in Procs : stack[p] = <<>> /\ walk[p] = None /\ 1..Len(stack[p]) = {}
                    /\ \A a \in Asms, n \in Names : types[a][n] = None /\ impls[a][n] = Unknown
  OBVIOUS
<1>1. \A p \in Procs : stack[p] = <<>> /\ walk[p] = None
  BY DEF Init
<1>2. \A p \in Procs : Len(stack[p]) = 0
  BY <1>1
<1>3. \A p \in Procs : 1..Len(stack[p]) = {}
  BY <1>2
<1>4. \A a \in Asms, n \in Names : types[a][n] = None /\ impls[a][n] = Unknown
  BY DEF Init
<1> QED BY <1>1, <1>3, <1>4

\* A remembered explicit implementation, or that there is none, is what a new
\* walk up the base classes would find (resolveExplicitImpl's cache, while all
\* dependencies are attached before the first call).
THEOREM ImplsAreCurrent == ASSUME ~AttachLate PROVE Spec => []ImplCacheIsCurrent
<1>1. Init => WInv
  BY InitIInv, InitQuiet DEF WInv, WalksKnow, ImplCacheIsCurrent
<1>2. ASSUME WInv, [Next]_vars PROVE WInv'
  <2>1. IInv /\ WalksKnow /\ ImplCacheIsCurrent
    BY <1>2 DEF WInv
  <2>2. IInv'
    BY <1>2, <2>1, NextIInv
  <2>3. CASE Next
    BY <2>1, <2>2, <2>3, WalksStayKnown, ImplsStayCurrent DEF WInv
  <2>4. CASE UNCHANGED vars
    <3>1. deps' = deps /\ index' = index /\ joined' = joined /\ impls' = impls
          /\ stack' = stack /\ walk' = walk /\ ret' = ret
      BY <2>4 DEF vars
    <3>2. UNCHANGED World
      BY <3>1 DEF World
    <3>3. WalksKnow'
      <4>1. ASSUME NEW p \in Procs, walk'[p] # None PROVE WalkKnows(p)'
        <5>1. walk[p] \in WalkType /\ WalkKnows(p)
          BY <2>1, <3>1, <4>1, WalkTypes DEF WalksKnow
        <5>2. PICK k \in Nat : Climbs(walk[p], stack[p], ret[p], k)
          BY <5>1, WalkKnowsIs
        <5>3. walk'[p] \in WalkType /\ Climbs(walk'[p], stack'[p], ret'[p], k)
          BY <3>1, <5>1, <5>2
        <5> QED BY <3>2, <5>3, KnowsAfter
      <4> QED BY <4>1 DEF WalksKnow
    <3>4. ImplCacheIsCurrent'
      <4>1. \A a, n : ImplOf(a, n)' = ImplOf(a, n)
        BY <3>2, SameAncestors
      <4> QED BY <2>1, <3>1, <4>1 DEF ImplCacheIsCurrent
    <3> QED BY <2>2, <3>3, <3>4 DEF WInv
  <2> QED BY <1>2, <2>3, <2>4
<1>3. WInv => ImplCacheIsCurrent
  BY DEF WInv
<1>4. WInv /\ [Next]_vars => WInv'
  BY <1>2
<1> QED BY <1>1, <1>3, <1>4, PTL DEF Spec

\* A field of a value type starts as a zero struct wherever its type is found, in
\* a program no struct of which nests deeper than maxValueTypeDepth (defaultForType).
THEOREM ZeroValuesAreMade ==
    ASSUME ~AttachLate, StructsAreShallow
    PROVE  Spec => []DefaultsAreZero
<1>1. Init => ZInv
  BY InitIInv, InitQuiet DEF ZInv, ZerosAreMade
<1>2. ASSUME ZInv, [Next]_vars PROVE ZInv'
  <2>1. IInv /\ ZerosAreMade
    BY <1>2 DEF ZInv
  <2>2. IInv'
    BY <1>2, <2>1, NextIInv
  <2>3. CASE Next
    BY <2>1, <2>2, <2>3, ZerosStayMade DEF ZInv
  <2>4. CASE UNCHANGED vars
    <3>1. UNCHANGED World /\ types' = types /\ stack' = stack
      BY <2>4 DEF vars, World
    <3>2. \A a, n, z : HasZero(a, n, z)' <=> HasZero(a, n, z)
      BY <3>1, SameFindable DEF HasZero
    <3>3. ZerosAreMade'
      BY <2>1, <3>1, <3>2 DEF ZerosAreMade
    <3> QED BY <2>2, <3>3 DEF ZInv
  <2> QED BY <1>2, <2>3, <2>4
<1>3. ZInv => DefaultsAreZero
  BY DEF ZInv, ZerosAreMade, HasZero, DefaultsAreZero
<1>4. ZInv /\ [Next]_vars => ZInv'
  BY <1>2
<1> QED BY <1>1, <1>3, <1>4, PTL DEF Spec

\* The goroutine's stack holds every chain of look-ups, as long as no packages,
\* bases and fields lead back to where they began nor further than it has frames.
THEOREM StacksSuffice == ASSUME ~AttachLate PROVE Spec => [](StackSuffices => NoOverflow)
<1>1. Init => SInv
  BY InitIInv, InitQuiet DEF SInv, FramesFit
<1>2. ASSUME SInv, [Next]_vars PROVE SInv'
  <2>1. IInv /\ (StackSuffices => FramesFit)
    BY <1>2 DEF SInv
  <2>2. IInv'
    BY <1>2, <2>1, NextIInv
  <2>3. CASE Next
    <3>1. (StackSuffices => FramesFit)'
      BY <2>1, <2>3, FramesStayFit
    <3> QED BY <2>2, <3>1 DEF SInv
  <2>4. CASE UNCHANGED vars
    <3>1. UNCHANGED World /\ stack' = stack
      BY <2>4 DEF vars, World
    <3>2. Shorter' = Shorter
      BY <3>1, SameShorter
    <3>3. (StackSuffices => FramesFit)'
      BY <2>1, <3>1, <3>2 DEF StackSuffices, FramesFit
    <3> QED BY <2>2, <3>3 DEF SInv
  <2> QED BY <1>2, <2>3, <2>4
<1>3. ASSUME SInv, StackSuffices PROVE NoOverflow
  <2>1. FramesFit /\ IInv
    BY <1>3 DEF SInv
  <2>2. ASSUME NEW p \in Procs PROVE Len(stack[p]) <= MaxFrames
    <3>1. Len(stack[p]) \in Nat
      BY <2>1, WalkTypes
    <3>2. CASE Len(stack[p]) = 0
      BY <3>2, TypeResolveAssumption
    <3>3. CASE Len(stack[p]) # 0
      <4>1. Len(stack[p]) \in 1..Len(stack[p])
        BY <3>1, <3>3
      <4> QED BY <2>1, <4>1 DEF FramesFit
    <3> QED BY <3>2, <3>3
  <2> QED BY <2>2 DEF NoOverflow
<1>4. SInv /\ [Next]_vars => SInv'
  BY <1>2
<1>5. SInv => (StackSuffices => NoOverflow)
  BY <1>3
<1> QED BY <1>1, <1>4, <1>5, PTL DEF Spec

\* All that is cached is what the loaded assemblies declare, whoever asked for what
\* in which order (assembly.go), also where packages form cycles, as long as structs
\* do not nest too deep.
THEOREM ResolutionIsSound ==
    ASSUME ~AttachLate, StructsAreShallow
    PROVE  Spec => []ResolveInv
<1>1. IInv => LayoutIsComplete
  BY DEF IInv, CachedAreOwn, LayoutIsComplete
<1>2. Spec => []IInv /\ []DefaultsAreZero /\ []ImplCacheIsCurrent
  BY Invariance, ZeroValuesAreMade, ImplsAreCurrent
<1>3. IInv /\ DefaultsAreZero /\ ImplCacheIsCurrent => ResolveInv
  BY <1>1 DEF ResolveInv
<1> QED BY <1>2, <1>3, PTL

-----------------------------------------------------------------------------
(* Whenever dependencies are attached, also after the first call: one Type *)
(* for each declaration.                                                   *)

OneInv ==
    /\ ShapesOK
    /\ \A a \in Asms, n \in Names : types[a][n] # None => types[a][n].owner = a /\ types[a][n].name = n
    /\ \A p \in Procs : ret[p] # None /\ ret[p].owner # None => types[ret[p].owner][ret[p].name] = ret[p]

LEMMA TopShape ==
    ASSUME ShapesOK, NEW p \in Procs, Running(p)
    PROVE  /\ stack[p] \in Seq(FrameType) /\ stack[p] # <<>> /\ Len(stack[p]) \in Nat \ {0}
           /\ stack \in [Procs -> Seq(FrameType)] /\ ret \in [Procs -> Type \union {None}]
           /\ \E g \in FrameType :
                 /\ g = Top(p) /\ g.asm \in Asms /\ g.own \in Asms /\ g.name \in Names /\ g.depth \in 0..MaxDepth
                 /\ g.at \in Wheres /\ g.i \in Nat \ {0} /\ g.base \in BOOLEAN /\ g.zero \in BOOLEAN
<1>1. stack[p] \in Seq(FrameType) /\ stack[p] # <<>>
  BY DEF ShapesOK, Shapes, Running
<1>2. Len(stack[p]) \in Nat \ {0} /\ Len(stack[p]) \in 1..Len(stack[p])
  BY <1>1
<1>3. Top(p) \in FrameType
  BY <1>1, <1>2 DEF Top
<1> QED BY <1>1, <1>2, <1>3 DEF ShapesOK, Shapes, FrameType

\* A step that only moves frames, walks and remembered implementations.
LEMMA KeepsOne ==
    ASSUME OneInv, ShapesOK', types' = types,
           \A q \in Procs : ret'[q] = ret[q] \/ ret'[q] = None
    PROVE  OneInv'
  BY DEF OneInv

LEMMA KeepsReturns ==
    ASSUME ShapesOK, NEW p \in Procs, ret' = ret \/ ret' = [ret EXCEPT ![p] = None]
    PROVE  \A q \in Procs : ret'[q] = ret[q] \/ ret'[q] = None
  BY DEF ShapesOK, Shapes

LEMMA OneBecomes ==
    ASSUME OneInv, NEW p \in Procs, Running(p), NEW f \in FrameType, Becomes(p, f)
    PROVE  OneInv'
<1>0. ShapesOK
  BY DEF OneInv
<1>1. /\ stack' = [stack EXCEPT ![p] = [stack[p] EXCEPT ![Len(stack[p])] = f]] /\ ret' = [ret EXCEPT ![p] = None]
      /\ UNCHANGED World /\ UNCHANGED <<types, impls, walk>>
  BY <1>0, TopShape DEF Becomes, World
<1>2. [stack[p] EXCEPT ![Len(stack[p])] = f] \in Seq(FrameType)
  <2>1. stack[p] \in Seq(FrameType) /\ stack[p] # <<>> /\ FrameType \union {f} = FrameType
    BY <1>0, TopShape
  <2>2. [stack[p] EXCEPT ![Len(stack[p])] = f] \in Seq(FrameType \union {f})
    BY <2>1, SetLast
  <2> QED BY <2>1, <2>2
<1>3. stack' \in [Procs -> Seq(FrameType)] /\ ret' \in [Procs -> Type \union {None}]
  BY <1>0, <1>1, <1>2, TopShape
<1>4. ShapesOK'
  BY <1>0, <1>1, <1>3 DEF ShapesOK, Shapes, World
<1> QED BY <1>0, <1>1, <1>4, KeepsOne, KeepsReturns

LEMMA OneEnters ==
    ASSUME OneInv, NEW p \in Procs, Running(p), NEW f \in FrameType, NEW c \in FrameType, Enter(p, f, c)
    PROVE  OneInv'
<1>0. ShapesOK
  BY DEF OneInv
<1> DEFINE u == [stack[p] EXCEPT ![Len(stack[p])] = f]
<1>1. /\ stack' = [stack EXCEPT ![p] = Append(u, c)]
      /\ UNCHANGED World /\ UNCHANGED <<types, impls, walk, ret>>
  BY <1>0, TopShape DEF Enter, World
<1>2. u \in Seq(FrameType)
  <2>1. stack[p] \in Seq(FrameType) /\ stack[p] # <<>> /\ FrameType \union {f} = FrameType
    BY <1>0, TopShape
  <2>2. [stack[p] EXCEPT ![Len(stack[p])] = f] \in Seq(FrameType \union {f})
    BY <2>1, SetLast
  <2> QED BY <2>1, <2>2
<1> HIDE DEF u
<1>3. Append(u, c) \in Seq(FrameType)
  BY <1>2
<1>4. stack' \in [Procs -> Seq(FrameType)]
  BY <1>0, <1>1, <1>3, TopShape
<1>5. ShapesOK'
  BY <1>0, <1>1, <1>4 DEF ShapesOK, Shapes, World
<1> QED BY <1>0, <1>1, <1>5, KeepsOne, KeepsReturns

LEMMA OneReturns ==
    ASSUME OneInv, NEW p \in Procs, Running(p), NEW t \in Type \union {None}, Return(p, t),
           t # None /\ t.owner # None => types'[t.owner][t.name] = t,
           types' \in [Asms -> [Names -> Type \union {None}]],
           \A a \in Asms, n \in Names : types'[a][n] # None => types'[a][n].owner = a /\ types'[a][n].name = n,
           \A a \in Asms, n \in Names : types[a][n] # None => types'[a][n] = types[a][n]
    PROVE  OneInv'
<1> USE TypeResolveAssumption
<1>0. ShapesOK
  BY DEF OneInv
<1>1. /\ stack' = [stack EXCEPT ![p] = SubSeq(stack[p], 1, Len(stack[p]) - 1)] /\ ret' = [ret EXCEPT ![p] = t]
      /\ UNCHANGED World /\ UNCHANGED <<impls, walk>>
  BY <1>0, TopShape DEF Return, World
<1>2. SubSeq(stack[p], 1, Len(stack[p]) - 1) \in Seq(FrameType)
  <2>1. stack[p] \in Seq(FrameType) /\ stack[p] # <<>>
    BY <1>0, TopShape
  <2> QED BY <2>1, Pop
<1>3. stack' \in [Procs -> Seq(FrameType)] /\ ret' \in [Procs -> Type \union {None}]
  BY <1>0, <1>1, <1>2, TopShape
<1>4. ShapesOK'
  BY <1>0, <1>1, <1>3 DEF ShapesOK, Shapes, World
<1>5. ASSUME NEW q \in Procs, ret'[q] # None, ret'[q].owner # None
      PROVE  types'[ret'[q].owner][ret'[q].name] = ret'[q]
  <2>1. CASE q = p
    BY <1>0, <1>1, <1>5, <2>1, TopShape
  <2>2. CASE q # p
    <3>1. ret'[q] = ret[q] /\ ret[q] \in Type
      BY <1>0, <1>1, <1>5, <2>2, TopShape
    <3>2. ret[q].owner \in Asms /\ ret[q].name \in Names
      BY <1>5, <3>1 DEF Type
    <3>3. types[ret[q].owner][ret[q].name] = ret[q]
      BY <1>5, <3>1 DEF OneInv
    <3> QED BY <1>5, <3>1, <3>2, <3>3
  <2> QED BY <2>1, <2>2
<1> QED BY <1>4, <1>5 DEF OneInv

LEMMA OneReturnSteps ==
    ASSUME OneInv, NEW p \in Procs, Hit(p) \/ FindsNative(p) \/ DepHas(p) \/ FindsNowhere(p)
    PROVE  OneInv'
<1> USE TypeResolveAssumption
<1>0. ShapesOK /\ Running(p) /\ types' = types /\ types \in [Asms -> [Names -> Type \union {None}]]
  BY DEF OneInv, ShapesOK, Shapes, Hit, FindsNative, DepHas, FindsNowhere, At
<1>1. PICK g \in FrameType : g = Top(p) /\ g.asm \in Asms /\ g.name \in Names
  BY <1>0, TopShape
<1>2. ASSUME NEW t \in Type \union {None}, Return(p, t), t # None /\ t.owner # None => types[t.owner][t.name] = t
      PROVE  OneInv'
  BY <1>0, <1>2, OneReturns DEF OneInv
<1>3. CASE Hit(p)
  <2>1. PICK t \in Type \union {None} : t = types[g.asm][g.name]
    BY <1>0, <1>1
  <2>2. t # None => t.owner = g.asm /\ t.name = g.name
    BY <1>1, <2>1 DEF OneInv
  <2>3. Return(p, t)
    BY <1>1, <1>3, <2>1 DEF Hit
  <2> QED BY <1>2, <2>1, <2>2, <2>3
<1>4. CASE FindsNative(p)
  <2>1. PICK t \in Type \union {None} : t = NativeType(g.name) /\ t.owner = None
    <3>1. NativeType(g.name) \in Type /\ NativeType(g.name).owner = None
      BY <1>1 DEF NativeType, Type
    <3> QED BY <3>1
  <2>2. Return(p, t)
    BY <1>1, <1>4, <2>1 DEF FindsNative
  <2> QED BY <1>2, <2>1, <2>2
<1>5. CASE DepHas(p)
  <2>1. PICK t \in Type \union {None} : t = ret[p]
    BY <1>0, TopShape
  <2>2. Return(p, t)
    BY <1>5, <2>1 DEF DepHas
  <2>3. t # None /\ t.owner # None => types[t.owner][t.name] = t
    BY <2>1 DEF OneInv
  <2> QED BY <1>2, <2>2, <2>3
<1>6. CASE FindsNowhere(p)
  BY <1>2, <1>6 DEF FindsNowhere
<1> QED BY <1>3, <1>4, <1>5, <1>6

LEMMA OneStores ==
    ASSUME OneInv, NEW p \in Procs, Store(p)
    PROVE  OneInv' /\ \A a \in Asms, n \in Names : types[a][n] # None => types'[a][n] = types[a][n]
<1> USE TypeResolveAssumption
<1>0. ShapesOK /\ Running(p) /\ types \in [Asms -> [Names -> Type \union {None}]]
  BY DEF OneInv, ShapesOK, Shapes, Store, At
<1>1. PICK g \in FrameType : /\ g = Top(p) /\ g.own \in Asms /\ g.name \in Names
                             /\ g.base \in BOOLEAN /\ g.zero \in BOOLEAN
  BY <1>0, TopShape
<1>2. Built(p) \in Type /\ Built(p).owner = g.own /\ Built(p).name = g.name
  BY <1>1 DEF Built, Type
<1>3. PICK t \in Type : /\ t = IF types[g.own][g.name] = None THEN Built(p) ELSE types[g.own][g.name]
                        /\ t.owner = g.own /\ t.name = g.name /\ t # None
  BY <1>0, <1>1, <1>2 DEF OneInv
<1>4. Return(p, t) /\ types' = [types EXCEPT ![g.own][g.name] = t]
  BY <1>1, <1>3 DEF Store
<1>5. /\ types' \in [Asms -> [Names -> Type \union {None}]] /\ types'[g.own][g.name] = t
      /\ \A a \in Asms, n \in Names : ~(a = g.own /\ n = g.name) => types'[a][n] = types[a][n]
  BY <1>0, <1>1, <1>4
<1>6. \A a \in Asms, n \in Names : types[a][n] # None => types'[a][n] = types[a][n]
  BY <1>3, <1>5
<1>7. \A a \in Asms, n \in Names : types'[a][n] # None => types'[a][n].owner = a /\ types'[a][n].name = n
  BY <1>3, <1>5 DEF OneInv
<1>8. OneInv'
  <2>1. t \in Type \union {None} /\ (t # None /\ t.owner # None => types'[t.owner][t.name] = t)
    BY <1>3, <1>5
  <2> QED BY <1>0, <1>4, <1>5, <1>6, <1>7, <2>1, OneReturns
<1> QED BY <1>6, <1>8

LEMMA OneBecomesSteps ==
    ASSUME OneInv, NEW p \in Procs,
           \/ FindsOwn(p) \/ NotOwn(p) \/ DepHasNot(p) \/ FindsInIndex(p)
           \/ NoBase(p) \/ GotBase(p) \/ NoField(p) \/ GotField(p)
    PROVE  OneInv'
<1> USE TypeResolveAssumption
<1>0. ShapesOK /\ Running(p)
  BY DEF OneInv, FindsOwn, NotOwn, DepHasNot, FindsInIndex, NoBase, GotBase, NoField, GotField, At
<1>1. PICK g \in FrameType :
         /\ g = Top(p) /\ g.asm \in Asms /\ g.own \in Asms /\ g.name \in Names /\ g.depth \in 0..MaxDepth
         /\ g.i \in Nat \ {0} /\ g.base \in BOOLEAN /\ g.zero \in BOOLEAN
  BY <1>0, TopShape
<1> DEFINE F(o, w, i, b, z) == [asm |-> g.asm, own |-> o, name |-> g.name, depth |-> g.depth, at |-> w,
                                  i |-> i, base |-> b, zero |-> z]
<1>2. ASSUME NEW o \in Asms, NEW w \in Wheres, NEW i \in Nat \ {0}, NEW b \in BOOLEAN, NEW z \in BOOLEAN,
             Becomes(p, F(o, w, i, b, z))
      PROVE  OneInv'
  <2>1. F(o, w, i, b, z) \in FrameType
    BY <1>1 DEF FrameType
  <2> HIDE DEF F
  <2> QED BY <1>0, <1>2, <2>1, OneBecomes
<1>3. \A w \in {"deps", "base", "field", "store"} : w \in Wheres
  BY DEF Wheres
<1>4. CASE FindsOwn(p)
  <2>1. Becomes(p, F(g.own, "base", g.i, g.base, g.zero))
    BY <1>1, <1>4, AtUpdate DEF FindsOwn
  <2> HIDE DEF F
  <2> QED BY <1>1, <1>2, <1>3, <2>1
<1>5. CASE NotOwn(p)
  <2>1. Becomes(p, F(g.own, "deps", g.i, g.base, g.zero))
    BY <1>1, <1>5, AtUpdate DEF NotOwn
  <2> HIDE DEF F
  <2> QED BY <1>1, <1>2, <1>3, <2>1
<1>6. CASE DepHasNot(p)
  <2>1. PICK i \in Nat \ {0} : i = g.i + 1
    BY <1>1
  <2>2. Becomes(p, [g EXCEPT !.at = "deps", !.i = i])
    BY <1>1, <1>6, <2>1 DEF DepHasNot
  <2>3. Becomes(p, F(g.own, "deps", i, g.base, g.zero))
    BY <2>2, NextUpdate
  <2> HIDE DEF F
  <2> QED BY <1>1, <1>2, <1>3, <2>1, <2>3
<1>7. CASE FindsInIndex(p)
  <2>1. PICK o \in Asms : o = IndexOwner(g)
    <3>1. IndexOwner(g) # None
      BY <1>1, <1>7 DEF FindsInIndex
    <3>2. index[g.name] \in Asms \union {None}
      BY <1>0, <1>1 DEF ShapesOK
    <3> QED BY <3>1, <3>2 DEF IndexOwner
  <2>2. Becomes(p, [g EXCEPT !.at = "base", !.own = o])
    BY <1>1, <1>7, <2>1 DEF FindsInIndex
  <2>3. Becomes(p, F(o, "base", g.i, g.base, g.zero))
    BY <2>2, OwnUpdate
  <2> HIDE DEF F
  <2> QED BY <1>1, <1>2, <1>3, <2>1, <2>3
<1>8. CASE NoBase(p)
  <2>1. Becomes(p, F(g.own, "field", g.i, g.base, g.zero))
    BY <1>1, <1>8, AtUpdate DEF NoBase
  <2> HIDE DEF F
  <2> QED BY <1>1, <1>2, <1>3, <2>1
<1>9. CASE GotBase(p)
  <2>1. PICK b \in BOOLEAN : b = (ret[p] # None)
    OBVIOUS
  <2>2. Becomes(p, [g EXCEPT !.at = "field", !.base = b])
    BY <1>1, <1>9, <2>1 DEF GotBase
  <2>3. Becomes(p, F(g.own, "field", g.i, b, g.zero))
    BY <2>2, BaseUpdate
  <2> HIDE DEF F
  <2> QED BY <1>1, <1>2, <1>3, <2>1, <2>3
<1>10. CASE NoField(p)
  <2>1. PICK z \in BOOLEAN : z = (~TooDeep(g) /\ Field[g.name] # None)
    OBVIOUS
  <2>2. Becomes(p, [g EXCEPT !.at = "store", !.zero = z])
    BY <1>1, <1>10, <2>1 DEF NoField
  <2>3. Becomes(p, F(g.own, "store", g.i, g.base, z))
    BY <2>2, ZeroUpdate
  <2> HIDE DEF F
  <2> QED BY <1>1, <1>2, <1>3, <2>1, <2>3
<1>11. CASE GotField(p)
  <2>1. PICK z \in BOOLEAN : z = (ret[p] # None)
    OBVIOUS
  <2>2. Becomes(p, [g EXCEPT !.at = "store", !.zero = z])
    BY <1>1, <1>11, <2>1 DEF GotField
  <2>3. Becomes(p, F(g.own, "store", g.i, g.base, z))
    BY <2>2, ZeroUpdate
  <2> HIDE DEF F
  <2> QED BY <1>1, <1>2, <1>3, <2>1, <2>3
<1> QED BY <1>4, <1>5, <1>6, <1>7, <1>8, <1>9, <1>10, <1>11

LEMMA OneEnterSteps ==
    ASSUME OneInv, NEW p \in Procs, AskDep(p) \/ AskBase(p) \/ AskField(p)
    PROVE  OneInv'
<1> USE TypeResolveAssumption
<1>0. ShapesOK /\ Running(p)
  BY DEF OneInv, AskDep, AskBase, AskField, At
<1>1. PICK g \in FrameType :
         /\ g = Top(p) /\ g.asm \in Asms /\ g.own \in Asms /\ g.name \in Names /\ g.depth \in 0..MaxDepth
         /\ g.i \in Nat \ {0} /\ g.base \in BOOLEAN /\ g.zero \in BOOLEAN
  BY <1>0, TopShape
<1>2. ASSUME NEW w \in Waiting, NEW f, NEW a \in Asms, NEW n \in Names, NEW d \in 0..MaxDepth,
             f = [asm |-> g.asm, own |-> g.own, name |-> g.name, depth |-> g.depth, at |-> w,
                  i |-> g.i, base |-> g.base, zero |-> g.zero],
             Enter(p, f, Frame(a, n, d))
      PROVE  OneInv'
  <2>1. f \in FrameType
    BY <1>1, <1>2 DEF FrameType, Wheres, Waiting
  <2>2. Frame(a, n, d) \in FrameType
    BY NewFrame
  <2> QED BY <1>0, <1>2, <2>1, <2>2, OneEnters
<1>3. \A w \in {"gotDep", "gotBase", "gotField"} : w \in Waiting
  BY DEF Waiting
<1>4. CASE AskDep(p)
  <2>1. Enter(p, [g EXCEPT !.at = "gotDep"], Frame(deps[g.asm][g.i], g.name, 0)) /\ g.i <= Len(deps[g.asm])
    BY <1>1, <1>4 DEF AskDep
  <2>2. deps[g.asm] \in Seq(Asms)
    BY <1>0, <1>1 DEF ShapesOK
  <2>3. deps[g.asm][g.i] \in Asms /\ 0 \in 0..MaxDepth
    BY <1>1, <2>1, <2>2
  <2> QED BY <1>1, <1>2, <1>3, <2>1, <2>3, AtUpdate
<1>5. CASE AskBase(p)
  <2>1. Enter(p, [g EXCEPT !.at = "gotBase"], Frame(g.own, Base[g.name], 0)) /\ Base[g.name] \in Names /\ 0 \in 0..MaxDepth
    BY <1>1, <1>5 DEF AskBase
  <2> QED BY <1>1, <1>2, <1>3, <2>1, AtUpdate
<1>6. CASE AskField(p)
  <2>1. /\ Enter(p, [g EXCEPT !.at = "gotField"], Frame(g.own, Field[g.name], g.depth + 1))
        /\ Field[g.name] \in Names /\ g.depth + 1 \in 0..MaxDepth
    BY <1>1, <1>6 DEF AskField, TooDeep
  <2> QED BY <1>1, <1>2, <1>3, <2>1, AtUpdate
<1> QED BY <1>4, <1>5, <1>6

LEMMA OneRests ==
    ASSUME OneInv, NEW p \in Procs, UNCHANGED World, UNCHANGED types,
           stack' = stack \/ \E a \in Asms, n \in Names : stack' = [stack EXCEPT ![p] = <<Frame(a, n, 0)>>],
           ret' = ret \/ ret' = [ret EXCEPT ![p] = None],
           impls' \in [Asms -> [Names -> Names \union {None, Unknown}]],
           walk' = walk \/ walk' = [walk EXCEPT ![p] = None]
             \/ \E w \in WalkType : walk' = [walk EXCEPT ![p] = w] /\ w.cur \in w.seen
    PROVE  OneInv'
<1> USE TypeResolveAssumption
<1>0. /\ ShapesOK /\ stack \in [Procs -> Seq(FrameType)] /\ ret \in [Procs -> Type \union {None}]
      /\ walk \in [Procs -> WalkType \union {None}] /\ \A q \in Procs : walk[q] # None => walk[q].cur \in walk[q].seen
  BY DEF OneInv, ShapesOK, Shapes
<1>1. ASSUME NEW a \in Asms, NEW n \in Names PROVE <<Frame(a, n, 0)>> \in Seq(FrameType)
  <2>1. 0 \in 0..MaxDepth
    OBVIOUS
  <2>2. PICK f \in FrameType : f = Frame(a, n, 0)
    BY <2>1, NewFrame
  <2>3. <<f>> \in Seq(FrameType)
    OBVIOUS
  <2> QED BY <2>2, <2>3
<1>2. stack' \in [Procs -> Seq(FrameType)] /\ ret' \in [Procs -> Type \union {None}]
  <2>1. ASSUME NEW s \in Seq(FrameType), stack' = [stack EXCEPT ![p] = s] PROVE stack' \in [Procs -> Seq(FrameType)]
    BY <1>0, <2>1
  <2>2. stack' \in [Procs -> Seq(FrameType)]
    BY <1>0, <1>1, <2>1
  <2>3. ret' \in [Procs -> Type \union {None}]
    BY <1>0
  <2> QED BY <2>2, <2>3
<1>3. walk' \in [Procs -> WalkType \union {None}] /\ \A q \in Procs : walk'[q] # None => walk'[q].cur \in walk'[q].seen
  <2>1. CASE walk' = walk
    BY <1>0, <2>1
  <2>2. CASE walk' = [walk EXCEPT ![p] = None]
    BY <1>0, <2>2
  <2>3. ASSUME NEW w \in WalkType, walk' = [walk EXCEPT ![p] = w], w.cur \in w.seen
        PROVE  walk' \in [Procs -> WalkType \union {None}] /\ \A q \in Procs : walk'[q] # None => walk'[q].cur \in walk'[q].seen
    BY <1>0, <2>3
  <2> QED BY <2>1, <2>2, <2>3
<1>4. ShapesOK'
  BY <1>0, <1>2, <1>3 DEF ShapesOK, Shapes, World
<1> QED BY <1>0, <1>4, KeepsOne, KeepsReturns

LEMMA OneWalks ==
    ASSUME OneInv, NEW p \in Procs, WalkFinds(p) \/ WalkAsks(p) \/ WalkUp(p) \/ WalkEnds(p)
    PROVE  OneInv'
<1> USE TypeResolveAssumption
<1>0. /\ walk \in [Procs -> WalkType \union {None}] /\ impls \in [Asms -> [Names -> Names \union {None, Unknown}]]
      /\ ret \in [Procs -> Type \union {None}] /\ \A q \in Procs : walk[q] # None => walk[q].cur \in walk[q].seen
  BY DEF OneInv, ShapesOK, Shapes
<1>1. walk[p] # None /\ UNCHANGED World /\ UNCHANGED types
  BY DEF WalkFinds, WalkAsks, WalkUp, WalkEnds, Walking, StoreImpl, World
<1>2. PICK w \in WalkType : w = walk[p] /\ w.cur \in w.seen
  BY <1>0, <1>1
<1>3. w.asm \in Asms /\ w.name \in Names /\ w.cur \in Names /\ w.seen \in SUBSET Names
  BY DEF WalkType
<1>4. ASSUME NEW found \in Names \union {None}, StoreImpl(p, found) PROVE OneInv'
  <2>1. impls' = [impls EXCEPT ![w.asm][w.name] = found] /\ walk' = [walk EXCEPT ![p] = None]
        /\ ret' = [ret EXCEPT ![p] = None] /\ stack' = stack
    BY <1>2, <1>4 DEF StoreImpl
  <2>2. impls' \in [Asms -> [Names -> Names \union {None, Unknown}]]
    BY <1>0, <1>3, <2>1
  <2> QED BY <1>1, <2>1, <2>2, OneRests
<1>5. CASE WalkFinds(p)
  BY <1>2, <1>3, <1>4, <1>5 DEF WalkFinds
<1>6. CASE WalkEnds(p)
  BY <1>4, <1>6 DEF WalkEnds
<1>7. CASE WalkAsks(p)
  <2>1. PICK v \in WalkType : v = [w EXCEPT !.up = TRUE] /\ v.cur \in v.seen
    <3>1. [w EXCEPT !.up = TRUE] \in WalkType
      BY DEF WalkType
    <3>2. [w EXCEPT !.up = TRUE].cur = w.cur /\ [w EXCEPT !.up = TRUE].seen = w.seen
      BY DEF WalkType
    <3> QED BY <1>2, <3>1, <3>2
  <2>2. walk' = [walk EXCEPT ![p] = v] /\ stack' = [stack EXCEPT ![p] = <<Frame(w.asm, w.cur, 0)>>]
        /\ ret' = ret /\ impls' = impls
    BY <1>0, <1>2, <1>7, <2>1 DEF WalkAsks
  <2> QED BY <1>0, <1>1, <1>3, <2>1, <2>2, OneRests
<1>8. CASE WalkUp(p)
  <2>1. ret[p] # None /\ Above(p) # None
    BY <1>8 DEF WalkUp, Above
  <2>2. ret[p].name \in Names
    BY <1>0, <2>1 DEF Type
  <2>3. PICK m \in Names : m = Above(p)
    BY <2>1, <2>2 DEF Above
  <2>40. PICK v \in WalkType : v = [w EXCEPT !.up = FALSE, !.cur = m, !.seen = w.seen \union {m}]
    BY DEF WalkType
  <2>4. v.cur \in v.seen
    BY <2>40 DEF WalkType
  <2>5. walk' = [walk EXCEPT ![p] = v] /\ ret' = [ret EXCEPT ![p] = None] /\ stack' = stack /\ impls' = impls
    BY <1>2, <1>8, <2>3, <2>40 DEF WalkUp
  <2> QED BY <1>0, <1>1, <2>4, <2>5, OneRests
<1> QED BY <1>5, <1>6, <1>7, <1>8

LEMMA OneCalls ==
    ASSUME OneInv, NEW p \in Procs, NEW a \in Asms, NEW n \in Names, CallType(p, a, n) \/ CallImpl(p, a, n)
    PROVE  OneInv'
<1>0. impls \in [Asms -> [Names -> Names \union {None, Unknown}]]
  BY DEF OneInv, ShapesOK, Shapes
<1>1. CASE CallType(p, a, n)
  <2>1. UNCHANGED World /\ UNCHANGED <<types, walk, ret, impls>> /\ stack' = [stack EXCEPT ![p] = <<Frame(a, n, 0)>>]
    BY <1>1 DEF CallType, World
  <2> QED BY <1>0, <2>1, OneRests
<1>2. CASE CallImpl(p, a, n)
  <2>1. PICK w \in WalkType : w = [asm |-> a, name |-> n, cur |-> n, seen |-> {n}, up |-> FALSE] /\ w.cur \in w.seen
    <3>1. [asm |-> a, name |-> n, cur |-> n, seen |-> {n}, up |-> FALSE] \in WalkType
      BY DEF WalkType
    <3> QED BY <3>1
  <2>2. walk' = [walk EXCEPT ![p] = w] /\ UNCHANGED World /\ UNCHANGED <<types, stack, ret, impls>>
    BY <1>2, <2>1 DEF CallImpl, World
  <2> QED BY <1>0, <2>1, <2>2, OneRests
<1> QED BY <1>1, <1>2

LEMMA OneAttaches ==
    ASSUME OneInv, NEW a \in Asms, NEW b \in Asms, Attach(a, b)
    PROVE  OneInv'
<1>0. deps \in [Asms -> Seq(Asms)] /\ index \in [Names -> Asms \union {None}] /\ joined \subseteq Asms
  BY DEF OneInv, ShapesOK
<1>1. deps' = [deps EXCEPT ![a] = Append(deps[a], b)] /\ UNCHANGED <<types, impls, stack, walk, ret>>
  BY <1>0 DEF Attach
<1>2. Append(deps[a], b) \in Seq(Asms)
  <2>1. deps[a] \in Seq(Asms)
    BY <1>0
  <2> QED BY <2>1
<1>3. deps' \in [Asms -> Seq(Asms)]
  BY <1>0, <1>1, <1>2
<1>4. index' \in [Names -> Asms \union {None}] /\ joined' \subseteq Asms
  BY <1>0 DEF Attach
<1>5. ShapesOK'
  BY <1>1, <1>3, <1>4 DEF OneInv, ShapesOK, Shapes
<1> QED BY <1>1, <1>5 DEF OneInv

LEMMA NextOneInv ==
    ASSUME OneInv, [Next]_vars
    PROVE  /\ OneInv'
           /\ \A a \in Asms, n \in Names : types[a][n] # None => types'[a][n] = types[a][n]
<1>1. CASE UNCHANGED vars
  BY <1>1 DEF vars, OneInv, ShapesOK, Shapes
<1>2. ASSUME NEW p \in Procs, Step(p)
      PROVE  /\ OneInv'
             /\ \A a \in Asms, n \in Names : types[a][n] # None => types'[a][n] = types[a][n]
  <2>1. CASE Store(p)
    BY <2>1, OneStores
  <2>2. CASE ~Store(p)
    <3>1. UNCHANGED types
      BY <1>2, <2>2
         DEF Step, Deliver, Hit, FindsNative, FindsOwn, NotOwn, AskDep, DepHas, DepHasNot, FindsInIndex,
             FindsNowhere, NoBase, AskBase, GotBase, NoField, AskField, GotField, WalkFinds,
             WalkAsks, WalkUp, WalkEnds, Becomes, Enter, StoreImpl
    <3>2. ASSUME Deliver(p) PROVE OneInv'
      <4>1. impls \in [Asms -> [Names -> Names \union {None, Unknown}]]
        BY DEF OneInv, ShapesOK, Shapes
      <4> QED BY <3>2, <4>1, OneRests DEF Deliver, World
    <3>3. OneInv'
      BY <1>2, <2>2, <3>2, OneReturnSteps, OneBecomesSteps, OneEnterSteps, OneWalks DEF Step
    <3> QED BY <3>1, <3>3
  <2> QED BY <2>1, <2>2
<1>3. ASSUME NEW p \in Procs, NEW a \in Asms, NEW n \in Names, CallType(p, a, n) \/ CallImpl(p, a, n)
      PROVE  OneInv' /\ UNCHANGED types
  BY <1>3, OneCalls DEF CallType, CallImpl
<1>4. ASSUME NEW a \in Asms, NEW b \in Asms, Attach(a, b)
      PROVE  OneInv' /\ UNCHANGED types
  BY <1>4, OneAttaches DEF Attach
<1> QED BY <1>1, <1>2, <1>3, <1>4 DEF Next

LEMMA InitOneInv == Init => OneInv
  BY InitIInv, InitQuiet, TypesAreShapes DEF OneInv, IInv, ReturnsAreRight

\* The state has the types the declarations announce, whenever dependencies are
\* attached (assembly.go).
THEOREM TypeCorrect == Spec => []TypeOK
<1>1. OneInv /\ [Next]_vars => OneInv'
  BY NextOneInv
<1>2. OneInv => TypeOK
  BY ShapesAreTypes DEF OneInv
<1> QED BY <1>1, <1>2, InitOneInv, PTL DEF Spec

\* However many goroutines build a type at once, and whenever dependencies are
\* attached, every one goes on with the Type that is cached (resolveTypeByFullNameAt's
\* second look under the lock).
THEOREM EachTypeIsOne == Spec => OneTypeForAll
<1>1. OneInv /\ [Next]_vars => OneInv'
  BY NextOneInv
<1>2. ASSUME OneInv, [Next]_vars
      PROVE  /\ \A a \in Asms, n \in Names : types[a][n] # None => types'[a][n] = types[a][n]
             /\ \A p \in Procs : LET t == ret'[p]
                                 IN  t # None /\ t.owner # None => types'[t.owner][t.name] = t
  BY <1>2, NextOneInv DEF OneInv
<1> QED BY <1>1, <1>2, InitOneInv, PTL DEF Spec, OneTypeForAll
=============================================================================
