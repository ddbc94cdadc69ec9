---------------------------- MODULE LibraryProofs ----------------------------
(***************************************************************************)
(* Five parts of the class library.  OnceCompute, whatever the containers, *)
(* their factories and the goroutines are: one factory per container runs  *)
(* at a time, no mutex is left locked, and the containers implement the    *)
(* atomic maps of OnceMap.  AdoNet, for any number of transactions, rows   *)
(* and opened databases, and every Int32 range: transactions are all or    *)
(* nothing, and readers tell what was stored.  LinkedList, for any nodes   *)
(* and lists: the chains are well formed and implement the sequences of    *)
(* LinkedList's promise.  Collections, for any keys, values and sizes:     *)
(* every kind stores and enumerates as it should, and implements           *)
(* CollectionContract.  Streams, for any contents and lengths: a stream    *)
(* has the bytes last written and its reader loses none.  The last section *)
(* puts the parts of MCLibrary together.                                   *)
(***************************************************************************)
EXTENDS OnceCompute, MCLibrary, SequenceTheorems, FiniteSetTheorems, WellFoundedInduction, TLAPS

(***************************************************************************)
(* OnceCompute                                                             *)
(***************************************************************************)

\* Taking the innermost factory off leaves the others as they are.
LEMMA BelowIsBelow ==
    ASSUME NEW st \in Seq(Frame), st # <<>>
    PROVE  LET b == SubSeq(st, 1, Len(st) - 1)
           IN  /\ b \in Seq(Frame) /\ Len(b) = Len(st) - 1
               /\ \A i \in DOMAIN b : b[i] = st[i]
               /\ Len(st) \in DOMAIN st /\ st[Len(st)] \in Frame
<1> DEFINE n == Len(st) - 1
<1>1. Len(st) \in Nat \ {0} /\ DOMAIN st = 1..Len(st)
  BY EmptySeq, LenProperties
<1>2. \A i \in 1..Len(st) : st[i] \in Frame
  BY ElementOfSeq
<1>3. n \in Nat /\ \A i \in 1..n : st[i] \in Frame
  BY <1>1, <1>2
<1>4. HIDE DEF n
<1>5. /\ SubSeq(st, 1, n) \in Seq(Frame)
      /\ Len(SubSeq(st, 1, n)) = IF 1 <= n THEN n - 1 + 1 ELSE 0
      /\ \A i \in 1..(n - 1 + 1) : SubSeq(st, 1, n)[i] = st[1 + i - 1]
  BY <1>3, SubSeqProperties
<1>6. Len(SubSeq(st, 1, n)) = n /\ \A i \in 1..n : SubSeq(st, 1, n)[i] = st[i]
  BY <1>3, <1>5
<1>7. DOMAIN SubSeq(st, 1, n) = 1..n
  BY <1>5, <1>6, LenProperties
<1>8. QED
  BY <1>1, <1>2, <1>5, <1>6, <1>7 DEF n

\* Going on to the next operation is all that happens to a frame.
LEMMA NextOperation ==
    ASSUME NEW r \in Frame
    PROVE  [r EXCEPT !.at = @ + 1] \in Frame /\ [r EXCEPT !.at = @ + 1].slot = r.slot
BY DEF Frame

\* The factories on the stacks are factories of slots.
LEMMA RunningSlots ==
    ASSUME stack \in [Procs -> Seq(Frame)], NEW q \in Procs, NEW i \in DOMAIN stack[q]
    PROVE  stack[q][i] \in Frame /\ stack[q][i].slot \in Slots
<1>1. stack[q] \in Seq(Frame) /\ i \in 1..Len(stack[q])
  BY LenProperties
<1>2. stack[q][i] \in Frame
  BY <1>1, ElementOfSeq
<1>3. QED
  BY <1>2 DEF Frame

\* The code an operation returns to keeps its factories; only its place moves.
LEMMA ResumeKeepsSlots ==
    ASSUME stack \in [Procs -> Seq(Frame)], NEW p \in Procs,
           NEW rest \in Seq(Frame), NEW s, NEW v, Resume(p, rest, s, v)
    PROVE  /\ stack' \in [Procs -> Seq(Frame)]
           /\ \A q \in Procs \ {p} : stack'[q] = stack[q]
           /\ DOMAIN stack'[p] = DOMAIN rest
           /\ \A i \in DOMAIN rest : stack'[p][i].slot = rest[i].slot
<1>1. CASE rest = <<>>
  <2>1. stack' = [stack EXCEPT ![p] = <<>>]
    BY <1>1 DEF Resume
  <2>2. QED
    BY <1>1, <2>1
<1>2. CASE rest # <<>>
  <2> DEFINE n == Len(rest)
             f == [rest[n] EXCEPT !.at = @ + 1]
             new == [rest EXCEPT ![n] = f]
  <2>1. n \in DOMAIN rest /\ rest[n] \in Frame
    BY <1>2
  <2>2. f \in Frame /\ f.slot = rest[n].slot
    BY <2>1, NextOperation
  <2>3. new \in Seq(Frame) /\ DOMAIN new = DOMAIN rest
    BY <2>1, <2>2
  <2>4. \A i \in DOMAIN rest : new[i].slot = rest[i].slot
    BY <2>1, <2>2
  <2>5. stack' = [stack EXCEPT ![p] = new]
    BY <1>2 DEF Resume
  <2>6. QED
    BY <2>3, <2>4, <2>5
<1>3. QED
  BY <1>1, <1>2

\* The place of every operation that is asked for is a slot, and the operation is
\* one its container has.
LEMMA OfferedOps ==
    ASSUME NEW o \in Offered
    PROVE  /\ o.slot \in Slots /\ In[o.slot] \in Conts
           /\ o.do \in Kinds[Kind[In[o.slot]]]
           /\ Kind[In[o.slot]] \in {"lazy", "box", "dict"}
BY OnceComputeAssumption

\* A Lazy<T> cannot be set, and only a dictionary can be emptied.
LEMMA OpKinds ==
    ASSUME NEW o \in Offered
    PROVE  /\ o.do = "set" => Kind[In[o.slot]] # "lazy"
           /\ o.do \in {"tryRemove", "clear"} => Kind[In[o.slot]] = "dict"
<1>1. /\ Kinds["lazy"] = {"compute", "tryGet"}
      /\ Kinds["box"] = {"compute", "tryGet", "set"}
  BY DEF Kinds
<1>2. CASE Kind[In[o.slot]] = "lazy"
  BY <1>1, <1>2, OfferedOps
<1>3. CASE Kind[In[o.slot]] = "box"
  BY <1>1, <1>3, OfferedOps
<1>4. CASE Kind[In[o.slot]] = "dict"
  BY <1>4
<1>5. QED
  BY <1>2, <1>3, <1>4, OfferedOps

\* What Resume does to the variables TypeOK speaks of.
LEMMA ResumeTypes ==
    ASSUME TypeOK, NEW p \in Procs, NEW rest \in Seq(Frame), NEW s \in Slots,
           NEW v \in Value \union {Unset, Null, Failed}, Resume(p, rest, s, v)
    PROVE  /\ stack' \in [Procs -> Seq(Frame)]
           /\ asked' \in [Procs -> Offered \union {NoOp}]
           /\ raised' \in [Procs -> BOOLEAN]
           /\ res' \in [Procs -> {Unset} \union
                          [slot : Slots, val : Value \union {Unset, Null, Failed}]]
<1>1. stack' \in [Procs -> Seq(Frame)]
  BY ResumeKeepsSlots DEF TypeOK
<1>2. asked' \in [Procs -> Offered \union {NoOp}]
  BY DEF TypeOK, Resume
<1>3. raised' \in [Procs -> BOOLEAN]
  BY DEF TypeOK, Resume
<1>4. res' \in [Procs -> {Unset} \union
                  [slot : Slots, val : Value \union {Unset, Null, Failed}]]
  <2>1. [slot |-> s, val |-> v] \in [slot : Slots, val : Value \union {Unset, Null, Failed}]
    OBVIOUS
  <2>2. res' = [res EXCEPT ![p] = [slot |-> s, val |-> v]]
    BY DEF Resume
  <2>3. QED
    BY <2>1, <2>2 DEF TypeOK
<1>5. QED
  BY <1>1, <1>2, <1>3, <1>4

\* A new value is a value, and counting it keeps the count.
LEMMA NewTypes ==
    ASSUME TypeOK, NEW p \in Procs
    PROVE  New(p) \in Value /\ (Makes(p) => made' \in [Procs -> Nat])
<1>1. made \in [Procs -> Nat] /\ made[p] \in Nat
  BY DEF TypeOK
<1>2. New(p) \in Value
  BY <1>1 DEF New, Value
<1>3. ASSUME Makes(p) PROVE made' \in [Procs -> Nat]
  BY <1>1, <1>3 DEF Makes
<1>4. QED
  BY <1>2, <1>3

-----------------------------------------------------------------------------
(* The three invariants about factories and mutexes.                       *)

\* An operation that takes a free mutex for one look or write disturbs no factory.
LEMMA InPlace ==
    ASSUME IInv, NEW p \in Procs, NEW o \in Offered, NEW v,
           Free(In[o.slot]), Resume(p, stack[p], o.slot, v), holder' = holder,
           \A s \in Slots : In[s] # In[o.slot] => val'[s] = val[s]
    PROVE  OneFactoryAtATime' /\ HeldWhileRunning' /\ EmptyWhileRunning'
<1>1. stack \in [Procs -> Seq(Frame)] /\ stack[p] \in Seq(Frame)
  BY DEF IInv, TypeOK
<1>2. \A q \in Procs : /\ DOMAIN stack'[q] = DOMAIN stack[q]
                       /\ \A i \in DOMAIN stack[q] : stack'[q][i].slot = stack[q][i].slot
  BY <1>1, ResumeKeepsSlots
<1>3. \A q \in Procs : \A i \in DOMAIN stack[q] : stack[q][i].slot \in Slots
  BY <1>1, RunningSlots
<1>4. \A q \in Procs : \A i \in DOMAIN stack[q] : In[stack[q][i].slot] # In[o.slot]
  <2>1. holder[In[o.slot]] \notin Procs /\ In[o.slot] \in Conts
    BY OnceComputeAssumption, OfferedOps DEF Free
  <2>2. HeldWhileRunning
    BY DEF IInv
  <2>3. ASSUME NEW q \in Procs, NEW i \in DOMAIN stack[q], In[stack[q][i].slot] = In[o.slot]
        PROVE  FALSE
    <3>1. holder[In[o.slot]] = q
      BY <2>1, <2>2, <2>3 DEF HeldWhileRunning
    <3>2. QED
      BY <2>1, <3>1
  <2>4. QED
    BY <2>3
<1>5. OneFactoryAtATime'
  BY <1>2 DEF IInv, OneFactoryAtATime
<1>6. HeldWhileRunning'
  BY <1>2 DEF IInv, HeldWhileRunning
<1>7. EmptyWhileRunning'
  BY <1>2, <1>3, <1>4 DEF IInv, EmptyWhileRunning
<1>8. QED
  BY <1>5, <1>6, <1>7

\* A factory begins when its mutex is free and its slot empty.
LEMMA MissFactories ==
    ASSUME IInv, NEW p \in Procs, NEW o \in Offered, Miss(p, o)
    PROVE  OneFactoryAtATime' /\ HeldWhileRunning' /\ EmptyWhileRunning'
<1> DEFINE n == Len(stack[p]) + 1
           f == [slot |-> o.slot, at |-> 1]
           c == In[o.slot]
<1>1. /\ stack \in [Procs -> Seq(Frame)] /\ stack[p] \in Seq(Frame)
      /\ holder \in [Conts -> Procs \union {Nobody}]
      /\ c \in Conts /\ f \in Frame
  <2>1. c \in Conts /\ o.slot \in Slots
    BY OfferedOps
  <2>2. f \in Frame
    BY <2>1 DEF Frame
  <2>3. QED
    BY <2>1, <2>2 DEF IInv, TypeOK
<1>2. /\ stack' = [stack EXCEPT ![p] = Append(stack[p], f)]
      /\ holder' = [holder EXCEPT ![c] = p] /\ val' = val
      /\ holder[c] = Nobody /\ val[o.slot] = Unset
  BY DEF Miss, Free
<1>3. /\ DOMAIN stack'[p] = DOMAIN stack[p] \union {n} /\ n \notin DOMAIN stack[p]
      /\ stack'[p][n] = f
      /\ \A i \in DOMAIN stack[p] : stack'[p][i] = stack[p][i]
      /\ \A q \in Procs \ {p} : stack'[q] = stack[q]
  BY <1>1, <1>2
<1>4. \A q \in Procs : \A i \in DOMAIN stack[q] : In[stack[q][i].slot] # c
  <2>1. \A q \in Procs : holder[c] # q
    BY <1>2, OnceComputeAssumption
  <2>2. QED
    BY <1>1, <2>1 DEF IInv, HeldWhileRunning
<1>5. OneFactoryAtATime'
  <2> SUFFICES ASSUME NEW q \in Procs, NEW r \in Procs,
                      NEW i \in DOMAIN stack'[q], NEW j \in DOMAIN stack'[r],
                      In[stack'[q][i].slot] = In[stack'[r][j].slot]
               PROVE  q = r /\ i = j
    BY DEF OneFactoryAtATime
  <2>1. CASE q = p /\ i = n
    BY <1>3, <1>4, <2>1
  <2>2. CASE r = p /\ j = n
    BY <1>3, <1>4, <2>2
  <2>3. CASE ~(q = p /\ i = n) /\ ~(r = p /\ j = n)
    <3>1. i \in DOMAIN stack[q] /\ stack'[q][i] = stack[q][i]
      BY <1>3, <2>3
    <3>2. j \in DOMAIN stack[r] /\ stack'[r][j] = stack[r][j]
      BY <1>3, <2>3
    <3>3. QED
      BY <3>1, <3>2 DEF IInv, OneFactoryAtATime
  <2>4. QED
    BY <2>1, <2>2, <2>3
<1>6. HeldWhileRunning'
  <2> SUFFICES ASSUME NEW d \in Conts, NEW q \in Procs
               PROVE  holder'[d] = q <=> \E i \in DOMAIN stack'[q] : In[stack'[q][i].slot] = d
    BY DEF HeldWhileRunning
  <2>1. CASE d = c
    <3>1. holder'[d] = p
      BY <1>1, <1>2, <2>1
    <3>2. CASE q = p
      BY <1>3, <2>1, <3>1, <3>2
    <3>3. CASE q # p
      BY <1>3, <1>4, <2>1, <3>1, <3>3
    <3>4. QED
      BY <3>2, <3>3
  <2>2. CASE d # c
    <3>1. holder'[d] = holder[d]
      BY <1>1, <1>2, <2>2
    <3>2. holder[d] = q <=> \E i \in DOMAIN stack[q] : In[stack[q][i].slot] = d
      BY DEF IInv, HeldWhileRunning
    <3>3. CASE q = p
      BY <1>3, <2>2, <3>1, <3>2, <3>3
    <3>4. CASE q # p
      BY <1>3, <3>1, <3>2, <3>4
    <3>5. QED
      BY <3>3, <3>4
  <2>3. QED
    BY <2>1, <2>2
<1>7. EmptyWhileRunning'
  BY <1>2, <1>3 DEF IInv, EmptyWhileRunning
<1>8. QED
  BY <1>5, <1>6, <1>7

\* A factory ends, well or badly: its mutex is released and only its slot filled.
LEMMA PopFactories ==
    ASSUME IInv, NEW p \in Procs, stack[p] # <<>>, NEW v,
           Resume(p, Below(p), Top(p).slot, v),
           holder' = [holder EXCEPT ![In[Top(p).slot]] = Nobody],
           \A s \in Slots : s # Top(p).slot => val'[s] = val[s]
    PROVE  OneFactoryAtATime' /\ HeldWhileRunning' /\ EmptyWhileRunning'
<1> DEFINE n == Len(stack[p])
           c == In[Top(p).slot]
<1>1. /\ stack \in [Procs -> Seq(Frame)] /\ stack[p] \in Seq(Frame)
      /\ holder \in [Conts -> Procs \union {Nobody}]
  BY DEF IInv, TypeOK
<1>2. /\ Below(p) \in Seq(Frame) /\ DOMAIN Below(p) = DOMAIN stack[p] \ {n}
      /\ \A i \in DOMAIN Below(p) : Below(p)[i] = stack[p][i]
      /\ n \in DOMAIN stack[p] /\ Top(p) \in Frame
  <2>1. /\ Below(p) \in Seq(Frame) /\ Len(Below(p)) = n - 1
        /\ \A i \in DOMAIN Below(p) : Below(p)[i] = stack[p][i]
        /\ n \in DOMAIN stack[p] /\ stack[p][n] \in Frame
    BY <1>1, BelowIsBelow DEF Below
  <2>2. DOMAIN Below(p) = 1..(n - 1) /\ DOMAIN stack[p] = 1..n /\ n \in Nat
    BY <1>1, <2>1
  <2>3. QED
    BY <2>1, <2>2 DEF Top
<1>3. \A q \in Procs : \A i \in DOMAIN stack'[q] :
        /\ i \in DOMAIN stack[q] /\ stack'[q][i].slot = stack[q][i].slot
        /\ ~(q = p /\ i = n)
  BY <1>1, <1>2, ResumeKeepsSlots
<1>4. \A q \in Procs : \A i \in DOMAIN stack[q] :
        (q = p /\ i = n) \/ i \in DOMAIN stack'[q]
  BY <1>1, <1>2, ResumeKeepsSlots
<1>5. \A q \in Procs : \A i \in DOMAIN stack[q] :
        In[stack[q][i].slot] = c => q = p /\ i = n
  BY <1>2 DEF IInv, OneFactoryAtATime, Top
<1>6. c \in Conts
  BY <1>2, OnceComputeAssumption DEF Frame
<1>7. OneFactoryAtATime'
  BY <1>3 DEF IInv, OneFactoryAtATime
<1>8. HeldWhileRunning'
  <2> SUFFICES ASSUME NEW d \in Conts, NEW q \in Procs
               PROVE  holder'[d] = q <=> \E i \in DOMAIN stack'[q] : In[stack'[q][i].slot] = d
    BY DEF HeldWhileRunning
  <2>1. CASE d = c
    <3>1. holder'[d] = Nobody /\ Nobody # q
      BY <1>1, <1>6, <2>1, OnceComputeAssumption
    <3>2. \A i \in DOMAIN stack'[q] : In[stack'[q][i].slot] # d
      BY <1>3, <1>5, <2>1
    <3>3. QED
      BY <3>1, <3>2
  <2>2. CASE d # c
    <3>1. holder'[d] = holder[d]
      BY <1>1, <1>6, <2>2
    <3>2. holder[d] = q <=> \E i \in DOMAIN stack[q] : In[stack[q][i].slot] = d
      BY DEF IInv, HeldWhileRunning
    <3>3. ASSUME NEW i \in DOMAIN stack[q], In[stack[q][i].slot] = d
          PROVE  i \in DOMAIN stack'[q] /\ In[stack'[q][i].slot] = d
      BY <1>3, <1>4, <2>2, <3>3 DEF Top
    <3>4. ASSUME NEW i \in DOMAIN stack'[q], In[stack'[q][i].slot] = d
          PROVE  i \in DOMAIN stack[q] /\ In[stack[q][i].slot] = d
      BY <1>3, <3>4
    <3>5. QED
      BY <3>1, <3>2, <3>3, <3>4
  <2>3. QED
    BY <2>1, <2>2
<1>9. EmptyWhileRunning'
  <2> SUFFICES ASSUME NEW q \in Procs, NEW i \in DOMAIN stack'[q]
               PROVE  val'[stack'[q][i].slot] = Unset
    BY DEF EmptyWhileRunning
  <2>1. /\ i \in DOMAIN stack[q] /\ stack'[q][i].slot = stack[q][i].slot
        /\ ~(q = p /\ i = n)
    BY <1>3
  <2>2. stack[q][i].slot \in Slots /\ stack[q][i].slot # Top(p).slot
    BY <1>1, <1>5, <2>1, RunningSlots
  <2>3. QED
    BY <2>1, <2>2 DEF IInv, EmptyWhileRunning
<1>10. QED
  BY <1>7, <1>8, <1>9
-----------------------------------------------------------------------------
(* The invariant.                                                          *)

\* Nothing is held, running or stored when the assembly has been loaded.
LEMMA InitIInv == Init => IInv
<1> SUFFICES ASSUME Init PROVE IInv
  OBVIOUS
<1>1. \A p \in Procs : stack[p] = <<>> /\ DOMAIN stack[p] = {}
  BY DEF Init
<1>2. TypeOK
  <2>1. <<>> \in Seq(Frame) /\ 0 \in 0..MaxCalls
    BY OnceComputeAssumption
  <2>2. QED
    BY <2>1 DEF Init, TypeOK
<1>3. OneFactoryAtATime /\ EmptyWhileRunning
  BY <1>1 DEF OneFactoryAtATime, EmptyWhileRunning
<1>4. HeldWhileRunning
  BY <1>1, OnceComputeAssumption DEF HeldWhileRunning, Init
<1>5. QED
  BY <1>2, <1>3, <1>4 DEF IInv

\* Calls, and errors that a factory catches, touch no container.
LEMMA OutsideSteps ==
    ASSUME IInv, NEW p \in Procs, Catch(p) \/ \E o \in Offered : Call(p, o)
    PROVE  IInv'
<1>1. val' = val /\ holder' = holder /\ stack' = stack
  BY DEF Catch, Call
<1>2. OneFactoryAtATime' /\ HeldWhileRunning' /\ EmptyWhileRunning'
  BY <1>1 DEF IInv, OneFactoryAtATime, HeldWhileRunning, EmptyWhileRunning
<1>3. TypeOK'
  <2>1. CASE Catch(p)
    BY <1>1, <2>1 DEF IInv, TypeOK, Catch
  <2>2. CASE \E o \in Offered : Call(p, o)
    <3>1. PICK o \in Offered : Call(p, o)
      BY <2>2
    <3>2. calls[p] \in 0..MaxCalls /\ calls[p] < MaxCalls
      BY <3>1 DEF IInv, TypeOK, Call
    <3>3. calls[p] + 1 \in 0..MaxCalls
      BY <3>2, OnceComputeAssumption
    <3>4. calls' \in [Procs -> 0..MaxCalls]
      BY <3>1, <3>3 DEF IInv, TypeOK, Call
    <3>5. asked' \in [Procs -> Offered \union {NoOp}]
      BY <3>1 DEF IInv, TypeOK, Call
    <3>6. raised' = raised /\ res' = res /\ made' = made /\ begun' = begun
      BY <3>1 DEF Call
    <3>7. QED
      BY <1>1, <3>4, <3>5, <3>6 DEF IInv, TypeOK
  <2>3. QED
    BY <2>1, <2>2
<1>4. QED
  BY <1>2, <1>3 DEF IInv

\* Operations that run no factory, and answers that are already there.
LEMMA InPlaceSteps ==
    ASSUME IInv, NEW p \in Procs, NEW o \in Offered,
           \/ Hit(p, o) \/ MissNoFactory(p, o) \/ Add(p, o) \/ Set(p, o)
           \/ Look(p, o) \/ TryRemove(p, o) \/ Clear(p, o)
    PROVE  IInv'
<1> DEFINE s == o.slot
           V == Value \union {Unset, Null, Failed}
<1>1. s \in Slots /\ val[s] \in Value \union {Unset, Null} /\ stack[p] \in Seq(Frame)
  BY OfferedOps DEF IInv, TypeOK
<1>2. New(p) \in Value
  BY NewTypes DEF IInv
<1>3. Free(In[s]) /\ holder' = holder /\ calls' = calls /\ begun' = begun
  BY DEF Hit, MissNoFactory, Add, Set, Look, TryRemove, Clear, Resume
<1>4. /\ \E v \in V : Resume(p, stack[p], s, v)
      /\ val' \in [Slots -> Value \union {Unset, Null}]
      /\ \A t \in Slots : In[t] # In[s] => val'[t] = val[t]
      /\ made' \in [Procs -> Nat]
  <2>0. val \in [Slots -> Value \union {Unset, Null}] /\ made \in [Procs -> Nat]
    BY DEF IInv, TypeOK
  <2>m. Makes(p) => made' \in [Procs -> Nat]
    BY NewTypes DEF IInv
  <2>1. CASE Hit(p, o)
    BY <1>1, <2>0, <2>1 DEF Hit
  <2>2. CASE MissNoFactory(p, o)
    <3>1. made' = made
      BY <2>2 DEF MissNoFactory
    <3>2. CASE Kind[In[s]] = "lazy"
      BY <1>1, <2>0, <2>2, <3>1, <3>2 DEF MissNoFactory
    <3>3. CASE Kind[In[s]] # "lazy"
      BY <1>1, <2>0, <2>2, <3>1, <3>3 DEF MissNoFactory
    <3>4. QED
      BY <3>2, <3>3
  <2>3. CASE Add(p, o)
    <3>1. CASE val[s] = Unset
      BY <1>1, <1>2, <2>0, <2>m, <2>3, <3>1 DEF Add
    <3>2. CASE val[s] # Unset
      <4>1. val' = val /\ made' = made
        BY <2>3, <3>2 DEF Add
      <4>2. CASE o.do = "orAdd"
        BY <1>1, <2>0, <2>3, <3>2, <4>1, <4>2 DEF Add
      <4>3. CASE o.do # "orAdd"
        BY <1>1, <2>0, <2>3, <3>2, <4>1, <4>3 DEF Add
      <4>4. QED
        BY <4>2, <4>3
    <3>3. QED
      BY <3>1, <3>2
  <2>4. CASE Set(p, o)
    BY <1>1, <1>2, <2>0, <2>m, <2>4 DEF Set
  <2>5. CASE Look(p, o)
    <3>1. val' = val /\ made' = made
      BY <2>5 DEF Look
    <3>2. (IF o.do = "item" /\ val[s] = Unset THEN Failed ELSE val[s]) \in V
      BY <1>1
    <3>3. QED
      BY <2>0, <2>5, <3>1, <3>2 DEF Look
  <2>6. CASE TryRemove(p, o)
    BY <1>1, <2>0, <2>6 DEF TryRemove
  <2>7. CASE Clear(p, o)
    BY <1>1, <2>0, <2>7 DEF Clear
  <2>8. QED
    BY <2>1, <2>2, <2>3, <2>4, <2>5, <2>6, <2>7
<1>5. PICK v \in V : Resume(p, stack[p], s, v)
  BY <1>4
<1>6. TypeOK'
  <2>1. /\ stack' \in [Procs -> Seq(Frame)]
        /\ asked' \in [Procs -> Offered \union {NoOp}]
        /\ raised' \in [Procs -> BOOLEAN]
        /\ res' \in [Procs -> {Unset} \union [slot : Slots, val : V]]
    BY <1>1, <1>5, ResumeTypes DEF IInv
  <2>2. QED
    BY <1>3, <1>4, <2>1 DEF IInv, TypeOK
<1>7. OneFactoryAtATime' /\ HeldWhileRunning' /\ EmptyWhileRunning'
  BY <1>3, <1>4, <1>5, InPlace
<1>8. QED
  BY <1>6, <1>7 DEF IInv

\* A factory begins.
LEMMA MissStep ==
    ASSUME IInv, NEW p \in Procs, NEW o \in Offered, Miss(p, o)
    PROVE  IInv'
<1> DEFINE f == [slot |-> o.slot, at |-> 1]
<1>1. o.slot \in Slots /\ In[o.slot] \in Conts /\ f \in Frame
  BY OfferedOps DEF Frame
<1>2. stack \in [Procs -> Seq(Frame)] /\ stack[p] \in Seq(Frame)
  BY DEF IInv, TypeOK
<1>3. stack' \in [Procs -> Seq(Frame)]
  <2>1. Append(stack[p], f) \in Seq(Frame)
    BY <1>1, <1>2, AppendProperties
  <2>2. QED
    BY <1>2, <2>1 DEF Miss
<1>4. holder' \in [Conts -> Procs \union {Nobody}] /\ begun' \subseteq Slots
  BY <1>1 DEF IInv, TypeOK, Miss
<1>5. TypeOK'
  BY <1>3, <1>4 DEF IInv, TypeOK, Miss
<1>6. QED
  BY <1>5, MissFactories DEF IInv

\* A factory ends.
LEMMA PopSteps ==
    ASSUME IInv, NEW p \in Procs, Finish(p) \/ Fail(p)
    PROVE  IInv'
<1> DEFINE s == Top(p).slot
           V == Value \union {Unset, Null, Failed}
<1>1. /\ stack[p] # <<>> /\ Below(p) \in Seq(Frame)
      /\ s \in Slots /\ In[s] \in Conts
  <2>1. stack[p] # <<>> /\ stack[p] \in Seq(Frame)
    BY DEF IInv, TypeOK, Finish, Fail, AtEnd
  <2>2. Below(p) \in Seq(Frame) /\ Top(p) \in Frame
    BY <2>1, BelowIsBelow DEF Below, Top
  <2>3. QED
    BY <2>1, <2>2, OnceComputeAssumption DEF Frame
<1>2. /\ \E v \in V : Resume(p, Below(p), s, v)
      /\ holder' = [holder EXCEPT ![In[s]] = Nobody]
      /\ val' \in [Slots -> Value \union {Unset, Null}]
      /\ \A t \in Slots : t # s => val'[t] = val[t]
      /\ made' \in [Procs -> Nat] /\ calls' = calls /\ begun' = begun
  <2>0. val \in [Slots -> Value \union {Unset, Null}] /\ made \in [Procs -> Nat]
    BY DEF IInv, TypeOK
  <2>1. CASE Finish(p)
    <3>1. New(p) \in Value /\ (Makes(p) => made' \in [Procs -> Nat])
      BY NewTypes DEF IInv
    <3>2. QED
      BY <1>1, <2>0, <2>1, <3>1 DEF Finish
  <2>2. CASE Fail(p)
    BY <1>1, <2>0, <2>2 DEF Fail
  <2>3. QED
    BY <2>1, <2>2
<1>3. PICK v \in V : Resume(p, Below(p), s, v)
  BY <1>2
<1>4. TypeOK'
  <2>1. /\ stack' \in [Procs -> Seq(Frame)]
        /\ asked' \in [Procs -> Offered \union {NoOp}]
        /\ raised' \in [Procs -> BOOLEAN]
        /\ res' \in [Procs -> {Unset} \union [slot : Slots, val : V]]
    BY <1>1, <1>3, ResumeTypes DEF IInv
  <2>2. holder' \in [Conts -> Procs \union {Nobody}]
    BY <1>1, <1>2 DEF IInv, TypeOK
  <2>3. QED
    BY <1>2, <2>1, <2>2 DEF IInv, TypeOK
<1>5. OneFactoryAtATime' /\ HeldWhileRunning' /\ EmptyWhileRunning'
  BY <1>1, <1>2, <1>3, PopFactories
<1>6. QED
  BY <1>4, <1>5 DEF IInv

\* Every step keeps the invariant.
LEMMA NextIInv == IInv /\ [Next]_vars => IInv'
<1> SUFFICES ASSUME IInv, [Next]_vars PROVE IInv'
  OBVIOUS
<1>1. CASE UNCHANGED vars
  BY <1>1 DEF vars, IInv, TypeOK, OneFactoryAtATime, HeldWhileRunning, EmptyWhileRunning
<1>2. CASE Next
  <2>1. PICK p \in Procs : Step(p) \/ \E o \in Offered : Call(p, o)
    BY <1>2 DEF Next
  <2>2. CASE Catch(p) \/ \E o \in Offered : Call(p, o)
    BY <2>2, OutsideSteps
  <2>3. CASE Finish(p) \/ Fail(p)
    BY <2>3, PopSteps
  <2>4. ASSUME NEW o \in Offered, Miss(p, o) PROVE IInv'
    BY <2>4, MissStep
  <2>5. ASSUME NEW o \in Offered,
               \/ Hit(p, o) \/ MissNoFactory(p, o) \/ Add(p, o) \/ Set(p, o)
               \/ Look(p, o) \/ TryRemove(p, o) \/ Clear(p, o)
        PROVE  IInv'
    BY <2>5, InPlaceSteps
  <2>6. QED
    BY <2>1, <2>2, <2>3, <2>4, <2>5 DEF Step
<1>3. QED
  BY <1>1, <1>2

\* A mutex is held by the goroutine with a factory of its container on its stack, by
\* no other, and what is being computed stays empty meanwhile; no way out of a
\* factory leaves a mutex locked.  The invariant the next four are parts of.
THEOREM Invariance == Spec => []IInv
  BY InitIInv, NextIInv, PTL DEF Spec

\* LazyGetOrCompute, ValueBoxGetOrCompute and ConcurrentDictGetOrAdd, for any
\* containers and any factories: the variables keep their types and no cell
\* holds an error.
THEOREM TypeCorrect == Spec => []TypeOK
<1>1. IInv => TypeOK
  BY DEF IInv
<1>2. QED
  BY <1>1, InitIInv, NextIInv, PTL DEF Spec

\* One factory per container runs at a time (the mutex is held across compute).
THEOREM FactoriesRunAlone == Spec => []OneFactoryAtATime
<1>1. IInv => OneFactoryAtATime
  BY DEF IInv
<1>2. QED
  BY <1>1, InitIInv, NextIInv, PTL DEF Spec

\* A mutex is held exactly while a factory of its container runs (defer Unlock).
THEOREM NoMutexIsLeaked == Spec => []HeldWhileRunning
<1>1. IInv => HeldWhileRunning
  BY DEF IInv
<1>2. QED
  BY <1>1, InitIInv, NextIInv, PTL DEF Spec

\* No other operation fills the slot whose factory is at work.
THEOREM SlotsStayEmpty == Spec => []EmptyWhileRunning
<1>1. IInv => EmptyWhileRunning
  BY DEF IInv
<1>2. QED
  BY <1>1, InitIInv, NextIInv, PTL DEF Spec
-----------------------------------------------------------------------------
(* The refinement.                                                         *)

\* An operation on s that ends with v is told so, in the terms of OnceMap.
LEMMA ResumeTells ==
    ASSUME NEW p \in Procs, NEW rest, NEW s, NEW v, Resume(p, rest, s, v)
    PROVE  Promised!Told(p, s, v)
BY DEF Resume, Promised!Told

\* A step of a goroutine is one step of the maps, or none.
LEMMA StepImplements ==
    ASSUME IInv, NEW p \in Procs, Step(p)
    PROVE  Promised!Next \/ UNCHANGED <<val, res>>
<1> USE OnceComputeAssumption
<1>0. val \in [Slots -> Value \union {Unset, Null}]
  BY DEF IInv, TypeOK
<1>1. CASE Finish(p)
  <2> DEFINE s == Top(p).slot
  <2>1. stack[p] # <<>> /\ stack[p] \in Seq(Frame)
    BY <1>1 DEF IInv, TypeOK, Finish, AtEnd
  <2>2. Len(stack[p]) \in DOMAIN stack[p] /\ Top(p) \in Frame
    BY <2>1, BelowIsBelow DEF Top
  <2>3. s \in Slots /\ val[s] = Unset
    BY <2>2 DEF IInv, EmptyWhileRunning, Frame, Top
  <2>4. val' = [val EXCEPT ![s] = New(p)] /\ val'[s] = New(p)
    BY <1>0, <1>1, <2>3 DEF Finish
  <2>5. Promised!Told(p, s, New(p))
    BY <1>1, ResumeTells DEF Finish
  <2>6. Promised!Get(p, s)
    BY <2>3, <2>4, <2>5 DEF Promised!Get
  <2>7. QED
    BY <2>3, <2>6 DEF Promised!Next
<1>2. CASE Fail(p)
  <2> DEFINE s == Top(p).slot
  <2>1. stack[p] # <<>> /\ stack[p] \in Seq(Frame)
    BY <1>2 DEF IInv, TypeOK, Fail, AtEnd
  <2>2. s \in Slots
    BY <2>1, BelowIsBelow DEF Top, Frame
  <2>3. Promised!Told(p, s, Failed) /\ val' = val
    BY <1>2, ResumeTells DEF Fail
  <2>4. Promised!Fail(p, s)
    BY <2>3 DEF Promised!Fail
  <2>5. QED
    BY <2>2, <2>4 DEF Promised!Next
<1>3. CASE Catch(p)
  BY <1>3 DEF Catch
<1>4. ASSUME NEW o \in Offered,
             \/ Hit(p, o) \/ Miss(p, o) \/ MissNoFactory(p, o)
             \/ Add(p, o) \/ Set(p, o) \/ Look(p, o) \/ TryRemove(p, o) \/ Clear(p, o)
      PROVE  Promised!Next \/ UNCHANGED <<val, res>>
  <2> DEFINE s == o.slot
  <2>1. s \in Slots /\ o.do \in Kinds[Kind[In[s]]] /\ Kind[In[s]] \in {"lazy", "box", "dict"}
    BY OfferedOps
  <2>2. val = [val EXCEPT ![s] = val[s]]
    BY <1>0, <2>1
  <2>3. SUFFICES Promised!Get(p, s) \/ Promised!Fail(p, s) \/ Promised!Refuse(p, s)
                 \/ Promised!Overwrite(p, s) \/ Promised!Remove(p, s)
                 \/ Promised!Clear(p, s) \/ UNCHANGED <<val, res>>
    BY <2>1 DEF Promised!Next
  <2>4. CASE Hit(p, o)
    <3>1. val' = val /\ Promised!Told(p, s, val[s])
      BY <2>4, ResumeTells DEF Hit
    <3>2. QED
      BY <2>2, <3>1 DEF Promised!Get
  <2>5. CASE Miss(p, o)
    BY <2>5 DEF Miss
  <2>6. CASE MissNoFactory(p, o)
    <3>1. CASE Kind[In[s]] = "lazy"
      <4>1. val' = val /\ Promised!Told(p, s, Failed)
        BY <2>6, <3>1, ResumeTells DEF MissNoFactory
      <4>2. QED
        BY <4>1 DEF Promised!Fail
    <3>2. CASE Kind[In[s]] # "lazy"
      <4>1. Resume(p, stack[p], s, Null) /\ val' = [val EXCEPT ![s] = Null] /\ val[s] = Unset
        BY <2>6, <3>2 DEF MissNoFactory
      <4>2. Promised!Told(p, s, Null) /\ val'[s] = Null
        BY <1>0, <2>1, <4>1, ResumeTells
      <4>3. QED
        BY <4>1, <4>2 DEF Promised!Get
    <3>3. QED
      BY <3>1, <3>2
  <2>7. CASE Add(p, o)
    <3>1. CASE val[s] = Unset
      <4>1. Resume(p, stack[p], s, New(p)) /\ val' = [val EXCEPT ![s] = New(p)]
        BY <2>7, <3>1 DEF Add
      <4>2. Promised!Told(p, s, New(p)) /\ val'[s] = New(p)
        BY <1>0, <2>1, <4>1, ResumeTells
      <4>3. QED
        BY <3>1, <4>1, <4>2 DEF Promised!Get
    <3>2. CASE val[s] # Unset /\ o.do = "orAdd"
      <4>1. val' = val /\ Promised!Told(p, s, val[s])
        BY <2>7, <3>2, ResumeTells DEF Add
      <4>2. QED
        BY <2>2, <4>1 DEF Promised!Get
    <3>3. CASE val[s] # Unset /\ o.do # "orAdd"
      <4>1. val' = val /\ Promised!Told(p, s, Unset)
        BY <2>7, <3>3, ResumeTells DEF Add
      <4>2. QED
        BY <3>3, <4>1 DEF Promised!Refuse
    <3>4. QED
      BY <3>1, <3>2, <3>3
  <2>8. CASE Set(p, o)
    <3>1. Resume(p, stack[p], s, New(p)) /\ val' = [val EXCEPT ![s] = New(p)]
      BY <2>8 DEF Set
    <3>2. Promised!Told(p, s, New(p)) /\ val'[s] = New(p)
      BY <1>0, <2>1, <3>1, ResumeTells
    <3>3. Kind[In[s]] # "lazy"
      BY <2>8, OpKinds DEF Set, At
    <3>4. QED
      BY <3>1, <3>2, <3>3 DEF Promised!Overwrite
  <2>9. CASE Look(p, o)
    <3>1. val' = val
      BY <2>9 DEF Look
    <3>2. CASE o.do = "item" /\ val[s] = Unset
      <4>1. Promised!Told(p, s, Failed)
        BY <2>9, <3>2, ResumeTells DEF Look
      <4>2. QED
        BY <3>1, <4>1 DEF Promised!Fail
    <3>3. CASE ~(o.do = "item" /\ val[s] = Unset)
      <4>1. Promised!Told(p, s, val[s])
        BY <2>9, <3>3, ResumeTells DEF Look
      <4>2. QED
        BY <2>2, <3>1, <4>1 DEF Promised!Get
    <3>4. QED
      BY <3>2, <3>3
  <2>10. CASE TryRemove(p, o)
    <3>1. val' = [val EXCEPT ![s] = Unset] /\ Promised!Told(p, s, val[s])
      BY <2>10, ResumeTells DEF TryRemove
    <3>2. Kind[In[s]] = "dict"
      BY <2>10, OpKinds DEF TryRemove, At
    <3>3. QED
      BY <3>1, <3>2 DEF Promised!Remove
  <2>11. CASE Clear(p, o)
    <3>1. /\ val' = [t \in Slots |-> IF In[t] = In[s] THEN Unset ELSE val[t]]
          /\ Promised!Told(p, s, Unset)
      BY <2>11, ResumeTells DEF Clear
    <3>2. Kind[In[s]] = "dict"
      BY <2>11, OpKinds DEF Clear, At
    <3>3. QED
      BY <3>1, <3>2 DEF Promised!Clear
  <2>12. QED
    BY <1>4, <2>4, <2>5, <2>6, <2>7, <2>8, <2>9, <2>10, <2>11
<1>5. QED
  BY <1>1, <1>2, <1>3, <1>4 DEF Step

\* Whatever the factories do and however they fail, Lazy<T>, ThreadLocal<T> and
\* ConcurrentDictionary are maps that are read and written in one step.
THEOREM ContainersAreAtomic == Spec => ImplementsOnceMap
<1>1. Init => Promised!Init
  BY DEF Init, Promised!Init
<1>2. IInv /\ [Next]_vars => [Promised!Next]_<<val, res>>
  <2> SUFFICES ASSUME IInv, [Next]_vars
               PROVE  Promised!Next \/ UNCHANGED <<val, res>>
    OBVIOUS
  <2>1. CASE UNCHANGED vars
    BY <2>1 DEF vars
  <2>2. ASSUME NEW p \in Procs, Step(p) PROVE Promised!Next \/ UNCHANGED <<val, res>>
    BY <2>2, StepImplements
  <2>3. ASSUME NEW p \in Procs, NEW o \in Offered, Call(p, o) PROVE UNCHANGED <<val, res>>
    BY <2>3 DEF Call
  <2>4. QED
    BY <2>1, <2>2, <2>3 DEF Next
<1>3. QED
  BY <1>1, <1>2, InitIInv, NextIInv, PTL DEF Spec, ImplementsOnceMap, Promised!Spec, Promised!vars

(***************************************************************************)
(* AdoNet                                                                  *)
(***************************************************************************)
-----------------------------------------------------------------------------
(* Sequences.                                                              *)

LEMMA AppendFacts ==
    ASSUME NEW S, NEW s \in Seq(S), NEW e \in S
    PROVE  /\ Append(s, e) \in Seq(S) /\ Len(Append(s, e)) = Len(s) + 1
           /\ DOMAIN Append(s, e) = 1..(Len(s) + 1)
           /\ \A i \in 1..Len(s) : Append(s, e)[i] = s[i]
           /\ Append(s, e)[Len(s) + 1] = e
  OBVIOUS

LEMMA ElementFacts ==
    ASSUME NEW S, NEW s \in Seq(S), NEW i \in DOMAIN s
    PROVE  s[i] \in S
  OBVIOUS

LEMMA ContainsAppend ==
    ASSUME NEW S, NEW s \in Seq(S), NEW e \in S, NEW x
    PROVE  Contains(Append(s, e), x) <=> Contains(s, x) \/ x = e
<1> DEFINE a == Append(s, e)
<1>0. /\ Len(a) = Len(s) + 1 /\ Len(s) \in Nat
      /\ \A i \in 1..Len(s) : a[i] = s[i]
      /\ a[Len(s) + 1] = e
  BY AppendFacts
<1> HIDE DEF a
<1>1. ASSUME Contains(a, x) PROVE Contains(s, x) \/ x = e
  <2>1. PICK i \in 1..Len(a) : a[i] = x
    BY <1>1 DEF Contains
  <2>2. QED
    BY <1>0, <2>1 DEF Contains
<1>2. ASSUME Contains(s, x) \/ x = e PROVE Contains(a, x)
  BY <1>0, <1>2 DEF Contains
<1>3. QED
  BY <1>1, <1>2 DEF a

LEMMA ContainsConcat ==
    ASSUME NEW S, NEW s \in Seq(S), NEW u \in Seq(S), NEW x
    PROVE  Contains(s \o u, x) <=> Contains(s, x) \/ Contains(u, x)
<1> DEFINE c == s \o u
<1>0. /\ Len(c) = Len(s) + Len(u) /\ Len(s) \in Nat /\ Len(u) \in Nat
      /\ \A i \in 1..(Len(s) + Len(u)) : c[i] = IF i <= Len(s) THEN s[i] ELSE u[i - Len(s)]
  OBVIOUS
<1> HIDE DEF c
<1>1. ASSUME Contains(c, x) PROVE Contains(s, x) \/ Contains(u, x)
  <2>1. PICK i \in 1..Len(c) : c[i] = x
    BY <1>1 DEF Contains
  <2>2. CASE i <= Len(s)
    BY <1>0, <2>1, <2>2 DEF Contains
  <2>3. CASE i > Len(s)
    <3>1. i - Len(s) \in 1..Len(u) /\ u[i - Len(s)] = x
      BY <1>0, <2>1, <2>3
    <3>2. QED
      BY <3>1 DEF Contains
  <2>4. QED
    BY <1>0, <2>1, <2>2, <2>3
<1>2. ASSUME Contains(s, x) PROVE Contains(c, x)
  <2>1. PICK i \in 1..Len(s) : s[i] = x
    BY <1>2 DEF Contains
  <2>2. QED
    BY <1>0, <2>1 DEF Contains
<1>3. ASSUME Contains(u, x) PROVE Contains(c, x)
  <2>1. PICK i \in 1..Len(u) : u[i] = x
    BY <1>3 DEF Contains
  <2>2. i + Len(s) \in 1..Len(c) /\ c[i + Len(s)] = x
    BY <1>0, <2>1
  <2>3. QED
    BY <2>2 DEF Contains
<1>4. QED
  BY <1>1, <1>2, <1>3 DEF c

LEMMA PrefixFacts ==
    ASSUME NEW S, NEW s \in Seq(S), NEW u \in Seq(S), Len(s) <= Len(u),
           \A i \in 1..Len(s) : s[i] = u[i]
    PROVE  IsPrefix(s, u)
  BY DEF IsPrefix

-----------------------------------------------------------------------------
(* Values: whatever can be bound reads back as it was stored.              *)

LEMMA NarrowOne == ASSUME Words > 2 PROVE Narrow(1) = 1
<1> USE AdoNetAssumption
<1>1. PICK h \in Int : h = Words \div 2
  OBVIOUS
<1>2. 1 + h \in 0..(Words - 1)
  BY <1>1
<1>3. (1 + h) % Words = 1 + h
  BY <1>2
<1>4. QED
  BY <1>1, <1>3 DEF Narrow

LEMMA ColumnsSuit ==
    ASSUME NEW v \in Arguments, sqliteGoValue(v) # Plain, NEW getter \in Getters
    PROVE  Suits(getter, v, Column(getter, sqliteGoValue(v)))
<1> USE AdoNetAssumption
<1>1. CASE v = Val("null", 0)
  BY <1>1 DEF Suits, Column, Val, Bool, Plain, sqliteGoValue, sqliteValueFromGo, sqliteAsInt64,
              sqliteReaderGetInt32, sqliteReaderGetBoolean, sqliteReaderGetString, sqliteReaderIsDBNull, Getters
<1>2. CASE v = Val("dbnull", 0)
  BY <1>2 DEF Suits, Column, Val, Bool, Plain, sqliteGoValue, sqliteValueFromGo, sqliteAsInt64,
              sqliteReaderGetInt32, sqliteReaderGetBoolean, sqliteReaderGetString, sqliteReaderIsDBNull, Getters
<1>3. CASE v = Val("i4", 1)
  BY <1>3, NarrowOne DEF Suits, Column, Val, Bool, Plain, sqliteGoValue, sqliteValueFromGo, sqliteAsInt64,
              sqliteReaderGetInt32, sqliteReaderGetBoolean, sqliteReaderGetString, sqliteReaderIsDBNull, Getters
<1>4. CASE v = Val("i8", Words)
  BY <1>4 DEF Suits, Column, Val, Bool, Plain, sqliteGoValue, sqliteValueFromGo, sqliteAsInt64,
              sqliteReaderGetInt32, sqliteReaderGetBoolean, sqliteReaderGetString, sqliteReaderIsDBNull, Getters
<1>5. CASE v = Val("string", 1)
  BY <1>5 DEF Suits, Column, Val, Bool, Plain, sqliteGoValue, sqliteValueFromGo, sqliteAsInt64,
              sqliteReaderGetInt32, sqliteReaderGetBoolean, sqliteReaderGetString, sqliteReaderIsDBNull, Getters
<1>6. v # Val("object", 0)
  BY DEF Val, Plain, sqliteGoValue
<1>7. QED
  BY <1>1, <1>2, <1>3, <1>4, <1>5, <1>6 DEF Arguments

-----------------------------------------------------------------------------
(* What the invariant says, in the form the steps use it.                  *)

LEMMA InitAdoInv == AdoInit => AdoInv
<1> SUFFICES ASSUME AdoInit PROVE AdoInv
  OBVIOUS
<1> USE AdoNetAssumption DEF AdoInit
<1>1. AdoTypeOK
  BY DEF AdoTypeOK, NoTx, TxStates, NoCommand, NoReader, ReaderStates, Owners, Rows
<1>2. Held
  BY DEF Held, NoTx, Live, Rows
<1>3. Told
  BY DEF Told, NoReader, Rows
<1>4. AllOrNothing
  BY DEF AllOrNothing, NoTx, Live
<1>5. QED
  BY <1>1, <1>2, <1>3, <1>4 DEF AdoInv

\* A step that touches neither a transaction nor a row nor the reader, and is
\* not an answer of Read.
LEMMA FrameStep ==
    ASSUME AdoInv, UNCHANGED <<tx, table, log, reader>>,
           conn' \in [db : Nat, open : BOOLEAN],
           cmd' \in [tx : Owners, params : Seq([name : Names, v : Arguments])],
           reply' = [op |-> "none", out |-> Nothing]
    PROVE  AdoInv'
<1> USE DEF AdoInv
<1>1. AdoTypeOK'
  BY DEF AdoTypeOK, Rows
<1>2. Held'
  BY DEF Held, Live, Rows
<1>3. Told'
  BY DEF Told, Rows
<1>4. AllOrNothing'
  BY DEF AllOrNothing, Live
<1>5. QED
  BY <1>1, <1>2, <1>3, <1>4

\* A call that changes nothing but the answer.
LEMMA QuietStep ==
    ASSUME AdoInv, UNCHANGED <<conn, cmd, tx, table, log, reader>>,
           reply' = [op |-> "none", out |-> Nothing]
    PROVE  AdoInv'
  BY FrameStep DEF AdoInv, AdoTypeOK

LEMMA UnchangedStep ==
    ASSUME AdoInv, UNCHANGED avars
    PROVE  AdoInv'
<1> USE DEF AdoInv, avars
<1>1. AdoTypeOK'
  BY DEF AdoTypeOK, Rows
<1>2. Held'
  BY DEF Held, Live, Rows
<1>3. Told'
  BY DEF Told, Rows
<1>4. AllOrNothing'
  BY DEF AllOrNothing, Live
<1>5. QED
  BY <1>1, <1>2, <1>3, <1>4

LEMMA ConnectionStep ==
    ASSUME AdoInv, ConnectionOpen \/ ConnectionClose
    PROVE  AdoInv'
<1>1. conn \in [db : Nat, open : BOOLEAN]
  BY DEF AdoInv, AdoTypeOK
<1>2. conn' \in [db : Nat, open : BOOLEAN]
  <2>1. CASE ConnectionOpen
    <3>1. conn.db + 1 \in Nat
      BY <1>1
    <3>2. conn' = conn \/ conn' = [db |-> conn.db + 1, open |-> TRUE]
      BY <2>1 DEF ConnectionOpen
    <3>3. CASE conn' = conn
      BY <1>1, <3>3
    <3>4. CASE conn' = [db |-> conn.db + 1, open |-> TRUE]
      BY <3>1, <3>4, Zenon
    <3>5. QED
      BY <3>2, <3>3, <3>4
  <2>2. CASE ConnectionClose
    BY <1>1, <2>2 DEF ConnectionClose
  <2>3. QED
    BY <2>1, <2>2
<1>3. /\ UNCHANGED <<cmd, tx, table, log, reader>>
      /\ reply' = [op |-> "none", out |-> Nothing]
  BY DEF ConnectionOpen, ConnectionClose, Reply
<1>4. QED
  BY <1>2, <1>3, FrameStep DEF AdoInv, AdoTypeOK

LEMMA CommandStep ==
    ASSUME AdoInv,
           \/ NewCommand \/ ParamsClear
           \/ \E t \in Txs : CommandSetTransaction(t)
           \/ \E name \in Names, v \in Arguments : ParamsAddWithValue(name, v)
    PROVE  AdoInv'
<1> DEFINE Params == Seq([name : Names, v : Arguments])
<1>1. /\ cmd \in [tx : Owners, params : Params]
      /\ conn \in [db : Nat, open : BOOLEAN]
  BY DEF AdoInv, AdoTypeOK
<1>2. /\ UNCHANGED <<conn, tx, table, log, reader>>
      /\ reply' = [op |-> "none", out |-> Nothing]
  BY DEF NewCommand, ParamsClear, CommandSetTransaction, ParamsAddWithValue, Reply
<1>3. CASE NewCommand
  <2>1. cmd' \in [tx : Owners, params : Params]
    BY <1>3 DEF NewCommand, NoCommand, Owners
  <2>2. QED
    BY <1>1, <1>2, <2>1, FrameStep
<1>4. CASE ParamsClear
  <2>1. cmd' \in [tx : Owners, params : Params]
    <3>1. <<>> \in Params
      OBVIOUS
    <3>2. cmd' = [cmd EXCEPT !.params = <<>>]
      BY <1>4 DEF ParamsClear
    <3> HIDE DEF Params
    <3>3. QED
      BY <1>1, <3>1, <3>2
  <2>2. QED
    BY <1>1, <1>2, <2>1, FrameStep
<1>5. CASE \E t \in Txs : CommandSetTransaction(t)
  <2>1. cmd' \in [tx : Owners, params : Params]
    BY <1>1, <1>5 DEF CommandSetTransaction, Owners
  <2>2. QED
    BY <1>1, <1>2, <2>1, FrameStep
<1>6. ASSUME NEW name \in Names, NEW v \in Arguments, ParamsAddWithValue(name, v)
      PROVE  AdoInv'
  <2>1. Append(cmd.params, [name |-> name, v |-> v]) \in Params
    BY <1>1, AppendFacts
  <2>2. cmd' \in [tx : Owners, params : Params]
    BY <1>1, <1>6, <2>1 DEF ParamsAddWithValue
  <2>3. QED
    BY <1>1, <1>2, <2>2, FrameStep
<1>7. QED
  BY <1>3, <1>4, <1>5, <1>6

LEMMA QuietCalls ==
    ASSUME AdoInv,
           \/ Fails \/ ExecuteScalar \/ ReaderHasRows
           \/ \E getter \in Getters : ReaderGet(getter)
    PROVE  AdoInv'
<1>1. \A getter \in Getters : getter # "Read"
  BY DEF Getters
<1>2. UNCHANGED <<conn, cmd, tx, table, log, reader>>
  BY DEF Fails, ExecuteScalar, ReaderHasRows, ReaderGet
<1>3. reply' = [op |-> "none", out |-> Nothing]
  BY <1>1 DEF Fails, ExecuteScalar, ReaderHasRows, ReaderGet, Reply
<1>4. QED
  BY <1>2, <1>3, QuietStep

-----------------------------------------------------------------------------
(* Transactions.                                                           *)

LEMMA BeginStep ==
    ASSUME AdoInv, NEW t \in Txs, BeginTransaction(t)
    PROVE  AdoInv'
<1>0. /\ UNCHANGED <<conn, cmd, table, log, reader>>
      /\ reply' = [op |-> "none", out |-> Nothing]
  BY DEF BeginTransaction, Reply
<1>1. CASE UNCHANGED tx
  BY <1>0, <1>1, QuietStep
<1>2. CASE tx' = [tx EXCEPT ![t] = [NoTx EXCEPT !.st = "live", !.db = conn.db]]
  <2> USE DEF AdoInv
  <2>0. /\ tx[t].st = "none" /\ tx \in [Txs -> TxStates] /\ conn.db \in Nat
        /\ tx'[t] = [st |-> "live", db |-> conn.db, done |-> FALSE, pending |-> <<>>, committed |-> FALSE]
        /\ \A u \in Txs \ {t} : tx'[u] = tx[u]
    BY <1>2 DEF BeginTransaction, AdoTypeOK, NoTx
  <2>1. AdoTypeOK'
    <3>1. tx' \in [Txs -> TxStates]
      <4>1. tx'[t] \in TxStates
        BY <2>0 DEF TxStates
      <4>2. QED
        BY <1>2, <2>0, <4>1
    <3>2. QED
      BY <1>0, <3>1 DEF AdoTypeOK, Rows
  <2>2. Held'
    BY <1>0, <2>0 DEF Held, Live, Rows
  <2>3. Told'
    BY <1>0 DEF Told, Rows
  <2>4. AllOrNothing'
    <3>1. ~ tx[t].committed
      BY <2>0 DEF Held
    <3>2. \A u \in Txs : tx'[u].committed <=> tx[u].committed
      <4>1. ~ tx'[t].committed
        BY <2>0
      <4>2. QED
        BY <2>0, <3>1, <4>1
    <3>3. \A u \in Txs : tx'[u].done => ~ (tx'[u].st = "live")
      BY <2>0 DEF AllOrNothing, Live
    <3>4. QED
      BY <1>0, <3>2, <3>3 DEF AllOrNothing, Live
  <2>5. QED
    BY <2>1, <2>2, <2>3, <2>4
<1>3. QED
  BY <1>1, <1>2 DEF BeginTransaction

\* A live transaction ends: its rows are written when it ends well, and given
\* up otherwise; the rows being read inside it are cut short.
LEMMA EndingStep ==
    ASSUME AdoInv, NEW t \in Txs, Live(t), NEW ok \in BOOLEAN, NEW done \in BOOLEAN,
           tx' = [tx EXCEPT ![t] = [Ended(t, ok) EXCEPT !.done = done]],
           table' = IF ok THEN table \o tx[t].pending ELSE table,
           reader' = RowsAfter(t), UNCHANGED <<conn, cmd, log>>,
           reply' = [op |-> "none", out |-> Nothing]
    PROVE  AdoInv'
<1> USE AdoNetAssumption DEF AdoInv
<1>0. /\ tx \in [Txs -> TxStates] /\ tx[t] \in TxStates
      /\ tx'[t] = [st |-> "ended", db |-> tx[t].db, done |-> done, pending |-> <<>>, committed |-> ok]
      /\ \A u \in Txs \ {t} : tx'[u] = tx[u]
      /\ table \in Seq(Nat) /\ tx[t].pending \in Seq(Nat)
  <2>1. tx \in [Txs -> TxStates] /\ table \in Seq(Nat)
    BY DEF AdoTypeOK
  <2>2. tx[t] \in TxStates
    BY <2>1
  <2>3. tx[t].pending \in Seq(Nat)
    BY <2>2 DEF TxStates
  <2>4. tx[t] = [st |-> tx[t].st, db |-> tx[t].db, done |-> tx[t].done,
                 pending |-> tx[t].pending, committed |-> tx[t].committed]
    BY <2>2 DEF TxStates
  <2>5. tx'[t] = [st |-> "ended", db |-> tx[t].db, done |-> done, pending |-> <<>>, committed |-> ok]
    BY <2>1, <2>4 DEF Ended
  <2>6. QED
    BY <2>1, <2>2, <2>3, <2>5
<1>00. /\ tx'[t].st = "ended" /\ tx'[t].pending = <<>>
       /\ tx'[t].committed <=> ok
       /\ tx'[t].done <=> done
  BY <1>0
<1>1. ASSUME NEW r
      PROVE  Contains(table', r) <=> Contains(table, r) \/ (ok /\ Contains(tx[t].pending, r))
  <2>1. Contains(table \o tx[t].pending, r) <=> Contains(table, r) \/ Contains(tx[t].pending, r)
    BY <1>0, ContainsConcat
  <2>2. CASE ok
    BY <2>1, <2>2
  <2>3. CASE ~ ok
    BY <2>3
  <2>4. QED
    BY <2>2, <2>3
<1>2. AdoTypeOK'
  <2>1. tx' \in [Txs -> TxStates]
    <3>1. tx[t].db \in Nat
      BY <1>0 DEF TxStates
    <3>2. tx'[t] \in TxStates
      <4>1. \A n \in Nat, d \in BOOLEAN, c \in BOOLEAN :
               [st |-> "ended", db |-> n, done |-> d, pending |-> <<>>, committed |-> c] \in TxStates
        BY DEF TxStates
      <4>2. QED
        BY <1>0, <3>1, <4>1
    <3>3. QED
      BY <1>0, <3>2
  <2>2. table' \in Seq(Nat) /\ \A i \in 1..Len(table') : table'[i] \in Rows
    <3>1. CASE ~ ok
      BY <3>1 DEF AdoTypeOK
    <3>2. CASE ok
      <4>1. table' = table \o tx[t].pending
        BY <3>2
      <4>2. /\ \A i \in 1..Len(table) : table[i] \in Rows
            /\ \A i \in 1..Len(tx[t].pending) : tx[t].pending[i] \in Rows
        BY DEF AdoTypeOK, Held
      <4>3. ASSUME NEW i \in 1..Len(table') PROVE table'[i] \in Rows
        <5>1. CASE i <= Len(table)
          BY <1>0, <4>1, <4>2, <5>1
        <5>2. CASE i > Len(table)
          <6>1. i - Len(table) \in 1..Len(tx[t].pending) /\ table'[i] = tx[t].pending[i - Len(table)]
            BY <1>0, <4>1, <5>2
          <6>2. QED
            BY <4>2, <6>1
        <5>3. QED
          BY <1>0, <5>1, <5>2
      <4>4. QED
        BY <1>0, <4>1, <4>3
    <3>3. QED
      BY <3>1, <3>2
  <2>3. reader' \in ReaderStates /\ reader'.current = reader.current /\ reader'.all = reader.all
    <3>1. reader \in ReaderStates
      BY DEF AdoTypeOK
    <3>2. CASE reader' = reader
      BY <3>1, <3>2
    <3>3. CASE reader' = [reader EXCEPT !.cut = TRUE]
      BY <3>1, <3>3 DEF ReaderStates
    <3>4. QED
      BY <3>2, <3>3 DEF RowsAfter
  <2>4. QED
    BY <2>1, <2>2, <2>3 DEF AdoTypeOK, Rows
<1>3. Held'
  <2>1. ASSUME NEW u \in Txs
        PROVE  /\ ~ (tx'[u].st = "live") => tx'[u].pending = <<>>
               /\ tx'[u].committed \/ tx'[u].done => tx'[u].st = "ended"
               /\ \A i \in 1..Len(tx'[u].pending) :
                     tx'[u].pending[i] \in Rows /\ log[tx'[u].pending[i]].owner = u
    <3>1. CASE u = t
      BY <1>0, <3>1
    <3>2. CASE u # t
      BY <1>0, <3>2 DEF Held, Live
    <3>3. QED
      BY <3>1, <3>2
  <2>2. ASSUME NEW r \in Rows, log[r].owner \in Txs
        PROVE  /\ tx'[log[r].owner].st # "none"
               /\ tx'[log[r].owner].st = "live" => Contains(tx'[log[r].owner].pending, r)
    <3>1. CASE log[r].owner = t
      BY <1>00, <2>2, <3>1 DEF Live
    <3>2. CASE log[r].owner # t
      BY <1>0, <2>2, <3>2 DEF Held, Live
    <3>3. QED
      BY <3>1, <3>2
  <2>3. QED
    BY <2>1, <2>2 DEF Held, Live, Rows
<1>4. Told'
  <2>1. /\ reader'.got = reader.got /\ reader'.all = reader.all
        /\ reply' # [op |-> "Read", out |-> Bool(FALSE)]
    BY DEF RowsAfter, AdoTypeOK, ReaderStates
  <2>2. QED
    BY <2>1 DEF Told, Rows
<1>5. AllOrNothing'
  <2>1. ASSUME NEW r \in Rows
        PROVE  Contains(table', r) <=> \/ log[r].owner = "auto"
                                       \/ log[r].owner \in Txs /\ tx'[log[r].owner].committed
    <3>0. Contains(table, r) <=> \/ log[r].owner = "auto"
                                 \/ log[r].owner \in Txs /\ tx[log[r].owner].committed
      BY DEF AllOrNothing, Rows, AdoTypeOK
    <3>1. CASE log[r].owner = t
      <4>1. Contains(tx[t].pending, r) /\ ~ tx[t].committed /\ t # "auto"
        BY <3>1 DEF Held, Live
      <4>2. Contains(table', r) <=> ok
        BY <1>1, <3>0, <3>1, <4>1
      <4>3. tx'[t].committed <=> ok
        BY <1>0
      <4>4. QED
        BY <3>1, <4>1, <4>2, <4>3
    <3>2. CASE log[r].owner # t
      <4>1. ~ Contains(tx[t].pending, r)
        BY <3>2 DEF Held, Contains
      <4>2. Contains(table', r) <=> Contains(table, r)
        <5>1. Contains(table', r) <=> Contains(table, r) \/ (ok /\ Contains(tx[t].pending, r))
          BY <1>1
        <5>2. QED
          BY <4>1, <5>1
      <4>3. log[r].owner \in Txs => tx'[log[r].owner] = tx[log[r].owner]
        BY <1>0, <3>2
      <4>4. QED
        BY <3>0, <4>2, <4>3
    <3>3. QED
      BY <3>1, <3>2
  <2>2. \A u \in Txs : tx'[u].done => ~ (tx'[u].st = "live")
    BY <1>0, <1>00 DEF AllOrNothing, Live
  <2>3. DOMAIN log = Rows
    BY DEF AdoTypeOK, Rows
  <2>4. QED
    BY <2>1, <2>2, <2>3 DEF AllOrNothing, Live
<1>6. QED
  BY <1>2, <1>3, <1>4, <1>5

\* An object whose transaction is over is marked as done.
LEMMA MarkStep ==
    ASSUME AdoInv, NEW t \in Txs, tx[t].st = "ended", tx' = [tx EXCEPT ![t].done = TRUE],
           UNCHANGED <<conn, cmd, log, table, reader>>,
           reply' = [op |-> "none", out |-> Nothing]
    PROVE  AdoInv'
<1> USE DEF AdoInv
<1>0. /\ tx \in [Txs -> TxStates]
      /\ tx'[t] \in TxStates /\ tx'[t].done
      /\ tx'[t].st = tx[t].st /\ tx'[t].pending = tx[t].pending
      /\ tx'[t].committed = tx[t].committed
      /\ \A u \in Txs \ {t} : tx'[u] = tx[u]
  <2>1. tx \in [Txs -> TxStates] /\ tx[t] \in TxStates
    BY DEF AdoTypeOK
  <2>2. tx'[t] = [tx[t] EXCEPT !.done = TRUE]
    BY <2>1
  <2>3. QED
    BY <2>1, <2>2 DEF TxStates
<1>1. AdoTypeOK'
  <2>1. tx' \in [Txs -> TxStates]
    BY <1>0
  <2>2. QED
    BY <2>1 DEF AdoTypeOK, Rows
<1>2. \A u \in Txs : /\ tx'[u].st = tx[u].st /\ tx'[u].pending = tx[u].pending
                     /\ tx'[u].committed <=> tx[u].committed
                     /\ tx'[u].done => tx[u].done \/ u = t
  BY <1>0
<1>3. Held'
  BY <1>2 DEF Held, Live, Rows
<1>4. Told'
  BY DEF Told, Rows
<1>5. AllOrNothing'
  BY <1>2 DEF AllOrNothing, Live
<1>6. QED
  BY <1>1, <1>3, <1>4, <1>5

LEMMA TransactionStep ==
    ASSUME AdoInv, NEW t \in Txs,
           TransactionCommit(t) \/ TransactionRollback(t) \/ TransactionDispose(t)
    PROVE  AdoInv'
<1>0. /\ UNCHANGED <<conn, cmd, log>> /\ reply' = [op |-> "none", out |-> Nothing]
      /\ tx[t].st # "none" /\ tx[t] \in TxStates
  BY DEF TransactionCommit, TransactionRollback, TransactionDispose, Reply, AdoInv, AdoTypeOK
<1>1. CASE UNCHANGED <<tx, table, reader>>
  BY <1>0, <1>1, QuietStep
<1>2. ASSUME NEW ok \in BOOLEAN, Live(t), End(t, ok),
             table' = IF ok THEN table \o tx[t].pending ELSE table
      PROVE  AdoInv'
  BY <1>0, <1>2, EndingStep DEF End
<1>3. ASSUME Live(t), Breaks(t), UNCHANGED table
      PROVE  AdoInv'
  <2>1. Ended(t, FALSE) = [Ended(t, FALSE) EXCEPT !.done = FALSE]
    <3>1. ~ tx[t].done
      BY <1>3 DEF AdoInv, AllOrNothing
    <3>2. tx[t].done = FALSE
      BY <1>0, <3>1 DEF TxStates
    <3>3. QED
      BY <1>0, <3>2 DEF Ended, TxStates
  <2>2. tx' = [tx EXCEPT ![t] = [Ended(t, FALSE) EXCEPT !.done = FALSE]]
    BY <1>3, <2>1 DEF Breaks
  <2>3. QED
    BY <1>0, <1>3, <2>2, EndingStep DEF Breaks
<1>4. ASSUME ~ Live(t), tx' = [tx EXCEPT ![t].done = TRUE], UNCHANGED <<table, reader>>
      PROVE  AdoInv'
  <2>1. tx[t].st = "ended"
    BY <1>0, <1>4 DEF Live, TxStates
  <2>2. QED
    BY <1>0, <1>4, <2>1, MarkStep
<1>5. QED
  BY <1>1, <1>2, <1>3, <1>4 DEF TransactionCommit, TransactionRollback, TransactionDispose, Refuses

-----------------------------------------------------------------------------
(* Execution: a statement runs for the transaction the program means, and  *)
(* stores what it was given.                                               *)

LogEntries == [v : Arguments, go : {sqliteGoValue(v) : v \in Arguments} \ {Plain},
               owner : Owners, named : {TRUE}]

\* A transaction object that has been given up is not live, so that passing
\* it over is what the program means.
LEMMA TargetFacts ==
    ASSUME AdoInv, Runs
    PROVE  /\ target \in Owners /\ target = Meant
           /\ target # "auto" => target \in Txs /\ Live(target)
<1> USE AdoNetAssumption
<1>1. CASE cmd.tx \in Txs /\ ~ tx[cmd.tx].done
  <2>1. target = cmd.tx
    BY <1>1 DEF target
  <2>2. Live(target)
    BY <1>1, <2>1 DEF Runs, Accepts
  <2>3. QED
    BY <1>1, <2>1, <2>2 DEF Meant, Owners
<1>2. CASE ~ (cmd.tx \in Txs /\ ~ tx[cmd.tx].done)
  <2>1. target = "auto"
    BY <1>2 DEF target, Runs
  <2>2. ~ (cmd.tx \in Txs /\ Live(cmd.tx))
    BY <1>2 DEF AdoInv, AllOrNothing
  <2>3. QED
    BY <2>1, <2>2 DEF Meant, Owners
<1>3. QED
  BY <1>1, <1>2

LEMMA BoundFacts ==
    ASSUME AdoInv, Runs, NEW byName \in BOOLEAN, NEW i \in Bound(byName)
    PROVE  /\ cmd.params[i].v \in Arguments
           /\ bindParams[i].go = sqliteGoValue(cmd.params[i].v)
           /\ sqliteGoValue(cmd.params[i].v) # Plain
           /\ byName => cmd.params[i].name \in {"", "@p"}
<1> DEFINE named == \E j \in DOMAIN cmd.params : cmd.params[j].name # ""
<1>1. /\ DOMAIN bindParams = DOMAIN cmd.params
      /\ \A j \in DOMAIN cmd.params :
            /\ bindParams[j].go = sqliteGoValue(cmd.params[j].v)
            /\ bindParams[j].name = IF named THEN stripParamSigil(cmd.params[j].name) ELSE ""
  BY DEF bindParams
<1>2. i \in DOMAIN cmd.params
  BY <1>1 DEF Bound
<1>3. cmd.params[i] \in [name : Names, v : Arguments]
  <2>1. cmd.params \in Seq([name : Names, v : Arguments])
    BY DEF AdoInv, AdoTypeOK
  <2>2. QED
    BY <1>2, <2>1, ElementFacts
<1>4. cmd.params[i].v \in Arguments /\ cmd.params[i].name \in Names
  BY <1>3
<1>5. bindParams[i].go # Plain
  BY <1>1, <1>2 DEF Runs, Unbindable
<1>6. byName => bindParams[i].name \in {"p", ""}
  BY DEF Bound
<1>7. bindParams[i].name \in {"p", ""} => cmd.params[i].name \in {"", "@p"}
  <2>1. CASE named
    BY <1>1, <1>2, <1>4, <2>1 DEF stripParamSigil, Names
  <2>2. CASE ~ named
    BY <1>2, <2>2
  <2>3. QED
    BY <2>1, <2>2
<1>8. QED
  BY <1>1, <1>2, <1>4, <1>5, <1>6, <1>7

LEMMA ExecuteNonQueryStep ==
    ASSUME AdoInv, NEW byName \in BOOLEAN, NEW i \in 1..2, ExecuteNonQuery(byName, i)
    PROVE  AdoInv'
<1> DEFINE v == cmd.params[i].v
           n == Len(log) + 1
           row == [v |-> v, go |-> sqliteGoValue(v), owner |-> target, named |-> TRUE]
<1> USE AdoNetAssumption DEF AdoInv
<1>0. /\ UNCHANGED <<conn, cmd, reader>> /\ reply' = [op |-> "none", out |-> Nothing]
      /\ Runs /\ i \in Bound(byName)
  BY DEF ExecuteNonQuery, Reply
<1>1. /\ target \in Owners /\ target = Meant
      /\ target # "auto" => target \in Txs /\ Live(target)
  BY <1>0, TargetFacts
<1>2. /\ v \in Arguments /\ bindParams[i].go = sqliteGoValue(v)
      /\ sqliteGoValue(v) # Plain
      /\ byName => cmd.params[i].name \in {"", "@p"}
  BY <1>0, BoundFacts
<1>3. log \in Seq(LogEntries) /\ Rows = 1..Len(log) /\ Len(log) \in Nat
  BY DEF AdoTypeOK, LogEntries, Rows
<1>4. row \in LogEntries
  BY <1>1, <1>2 DEF LogEntries
<1>5. log' = Append(log, row)
  <2>1. (byName => cmd.params[i].name \in {"", "@p"}) = TRUE
    BY <1>2
  <2>2. QED
    BY <1>1, <1>2, <2>1 DEF ExecuteNonQuery
<1>6. PICK new \in LogEntries : new = row
  BY <1>4
<1>7. /\ new.v = v /\ new.go = sqliteGoValue(v) /\ new.owner = target
      /\ log' = Append(log, new)
  BY <1>5, <1>6
<1> HIDE DEF row
<1>8. /\ log' \in Seq(LogEntries) /\ Len(log') = n /\ Rows' = 1..n /\ DOMAIN log' = 1..n
      /\ \A r \in Rows : log'[r] = log[r]
      /\ log'[n] = new
  BY <1>3, <1>7, AppendFacts DEF Rows
<1>9. /\ n \notin Rows /\ n \in Rows' /\ n \in Nat
      /\ \A r \in Rows : r \in Rows'
      /\ \A r \in Rows' : r \in Rows \/ r = n
  BY <1>3, <1>8
<1> HIDE DEF v, n
<1>10. Told'
  <2>1. \A r \in Rows' : log'[r].go = sqliteGoValue(log'[r].v)
    BY <1>7, <1>8, <1>9 DEF Told
  <2>2. QED
    BY <1>0, <2>1 DEF Told
<1>11. CASE target = "auto"
  <2>1. table' = Append(table, n) /\ tx' = tx /\ table \in Seq(Nat)
    <3>1. table \in Seq(Nat)
      BY DEF AdoTypeOK
    <3>2. table' = Append(table, Len(log) + 1) /\ tx' = tx
      BY <1>11 DEF ExecuteNonQuery
    <3>3. QED
      BY <3>1, <3>2 DEF n
  <2>2. ASSUME NEW r PROVE Contains(table', r) <=> Contains(table, r) \/ r = n
    BY <1>9, <2>1, ContainsAppend
  <2>3. AdoTypeOK'
    <3>1. table' \in Seq(Nat) /\ \A j \in 1..Len(table') : table'[j] \in Rows'
      BY <1>8, <1>9, <2>1, AppendFacts DEF AdoTypeOK
    <3>2. QED
      BY <1>0, <1>8, <1>9, <2>1, <3>1 DEF AdoTypeOK, LogEntries
  <2>4. Held'
    <3>1. \A r \in Rows' : log'[r].owner \in Txs => r \in Rows /\ log'[r] = log[r]
      BY <1>7, <1>8, <1>9, <1>11
    <3>2. ASSUME NEW t \in Txs
          PROVE  /\ ~ (tx[t].st = "live") => tx[t].pending = <<>>
                 /\ tx[t].committed \/ tx[t].done => tx[t].st = "ended"
                 /\ \A j \in 1..Len(tx[t].pending) :
                       tx[t].pending[j] \in Rows' /\ log'[tx[t].pending[j]].owner = t
      BY <1>8, <1>9 DEF Held, Live
    <3>3. ASSUME NEW r \in Rows', log'[r].owner \in Txs
          PROVE  /\ tx[log'[r].owner].st # "none"
                 /\ tx[log'[r].owner].st = "live" => Contains(tx[log'[r].owner].pending, r)
      BY <3>1, <3>3 DEF Held, Live
    <3>4. QED
      BY <2>1, <3>2, <3>3 DEF Held, Live
  <2>5. AllOrNothing'
    <3>1. ASSUME NEW r \in 1..n
          PROVE  Contains(table', r) <=> \/ log'[r].owner = "auto"
                                         \/ log'[r].owner \in Txs /\ tx'[log'[r].owner].committed
      <4>1. CASE r = n
        BY <1>7, <1>8, <1>11, <2>2, <4>1
      <4>2. CASE r # n
        BY <1>3, <1>8, <1>9, <2>1, <2>2, <4>2 DEF AllOrNothing
      <4>3. QED
        BY <4>1, <4>2
    <3>2. QED
      BY <1>8, <2>1, <3>1 DEF AllOrNothing, Live
  <2>6. QED
    BY <1>10, <2>3, <2>4, <2>5
<1>12. CASE target # "auto"
  <2>0. PICK u \in Txs : u = target /\ Live(u)
    BY <1>1, <1>12
  <2>1. /\ tx' = [tx EXCEPT ![u].pending = Append(@, n)] /\ table' = table
        /\ tx \in [Txs -> TxStates] /\ tx[u] \in TxStates /\ n \in Nat
    <3>1. tx' = [tx EXCEPT ![target].pending = Append(@, Len(log) + 1)] /\ table' = table
      BY <1>12 DEF ExecuteNonQuery
    <3>2. tx \in [Txs -> TxStates]
      BY DEF AdoTypeOK
    <3>3. QED
      BY <1>9, <2>0, <3>1, <3>2 DEF n
  <2>2. PICK old \in Seq(Nat) : old = tx[u].pending
    BY <2>1 DEF TxStates
  <2>3. /\ tx'[u] \in TxStates /\ tx'[u].pending = Append(old, n)
        /\ tx'[u].st = tx[u].st /\ tx'[u].committed = tx[u].committed /\ tx'[u].done = tx[u].done
        /\ \A w \in Txs \ {u} : tx'[w] = tx[w]
    <3>1. Append(old, n) \in Seq(Nat)
      BY <2>1, AppendFacts
    <3>2. tx'[u] = [tx[u] EXCEPT !.pending = Append(old, n)]
      BY <2>1, <2>2
    <3>3. QED
      BY <2>1, <3>1, <3>2 DEF TxStates
  <2>4. \A w \in Txs : /\ tx'[w].st = tx[w].st
                       /\ tx'[w].committed <=> tx[w].committed
                       /\ tx'[w].done <=> tx[w].done
    BY <2>3
  <2>5. AdoTypeOK'
    <3>1. tx' \in [Txs -> TxStates]
      BY <2>1, <2>3
    <3>2. QED
      BY <1>0, <1>8, <1>9, <2>1, <3>1 DEF AdoTypeOK, LogEntries
  <2>6. Held'
    <3>1. ASSUME NEW w \in Txs
          PROVE  /\ ~ (tx'[w].st = "live") => tx'[w].pending = <<>>
                 /\ tx'[w].committed \/ tx'[w].done => tx'[w].st = "ended"
                 /\ \A j \in 1..Len(tx'[w].pending) :
                       tx'[w].pending[j] \in Rows' /\ log'[tx'[w].pending[j]].owner = w
      <4>1. CASE w # u
        <5>1. /\ ~ (tx[w].st = "live") => tx[w].pending = <<>>
              /\ tx[w].committed \/ tx[w].done => tx[w].st = "ended"
              /\ \A j \in 1..Len(tx[w].pending) :
                    tx[w].pending[j] \in Rows /\ log[tx[w].pending[j]].owner = w
          BY DEF Held, Live
        <5>2. tx'[w] = tx[w]
          BY <2>3, <4>1
        <5>3. QED
          BY <1>8, <1>9, <5>1, <5>2
      <4>2. CASE w = u
        <5>1. tx'[u].st = "live" /\ (tx'[u].committed \/ tx'[u].done => tx'[u].st = "ended")
          BY <2>0, <2>4 DEF Live, Held
        <5>2. \A j \in 1..Len(old) : old[j] \in Rows /\ log[old[j]].owner = u
          BY <2>2 DEF Held
        <5>3. ASSUME NEW j \in 1..Len(tx'[u].pending)
              PROVE  tx'[u].pending[j] \in Rows' /\ log'[tx'[u].pending[j]].owner = u
          <6>1. CASE j \in 1..Len(old)
            <7>1. tx'[u].pending[j] = old[j]
              BY <2>1, <2>3, <6>1, AppendFacts
            <7>2. QED
              BY <1>8, <1>9, <5>2, <6>1, <7>1
          <6>2. CASE j = Len(old) + 1
            <7>1. tx'[u].pending[j] = n
              BY <2>1, <2>3, <6>2, AppendFacts
            <7>2. QED
              BY <1>7, <1>8, <1>9, <2>0, <7>1
          <6>3. QED
            BY <2>1, <2>3, <6>1, <6>2, AppendFacts
        <5>4. QED
          BY <4>2, <5>1, <5>3
      <4>3. QED
        BY <4>1, <4>2
    <3>2. ASSUME NEW r \in Rows', log'[r].owner \in Txs
          PROVE  /\ tx'[log'[r].owner].st # "none"
                 /\ tx'[log'[r].owner].st = "live" => Contains(tx'[log'[r].owner].pending, r)
      <4>1. Contains(tx'[u].pending, r) <=> Contains(old, r) \/ r = n
        <5>1. Contains(Append(old, n), r) <=> Contains(old, r) \/ r = n
          BY <2>1, ContainsAppend
        <5>2. QED
          BY <2>3, <5>1
      <4>2. CASE r = n
        BY <1>7, <1>8, <2>0, <2>4, <4>1, <4>2 DEF Live
      <4>3. CASE r # n
        <5>1. r \in Rows /\ log'[r] = log[r]
          BY <1>8, <1>9, <4>3
        <5>2. /\ tx[log[r].owner].st # "none"
              /\ Live(log[r].owner) => Contains(tx[log[r].owner].pending, r)
          BY <3>2, <5>1 DEF Held
        <5>3. CASE log[r].owner = u
          BY <2>2, <2>4, <4>1, <5>1, <5>2, <5>3 DEF Live
        <5>4. CASE log[r].owner # u
          BY <2>3, <3>2, <5>1, <5>2, <5>4 DEF Live
        <5>5. QED
          BY <5>3, <5>4
      <4>4. QED
        BY <4>2, <4>3
    <3>3. QED
      BY <3>1, <3>2 DEF Held, Live
  <2>7. AllOrNothing'
    <3>1. ASSUME NEW r \in 1..n
          PROVE  Contains(table', r) <=> \/ log'[r].owner = "auto"
                                         \/ log'[r].owner \in Txs /\ tx'[log'[r].owner].committed
      <4>1. CASE r = n
        <5>1. ~ Contains(table, n)
          BY <1>9 DEF AdoTypeOK, Contains
        <5>2. ~ tx[u].committed
          BY <2>0 DEF Held, Live
        <5>3. QED
          BY <1>7, <1>8, <1>12, <2>0, <2>1, <2>4, <4>1, <5>1, <5>2
      <4>2. CASE r # n
        <5>1. r \in Rows /\ log'[r] = log[r]
          BY <1>8, <1>9, <4>2
        <5>2. Contains(table, r) <=> \/ log[r].owner = "auto"
                                     \/ log[r].owner \in Txs /\ tx[log[r].owner].committed
          BY <1>3, <5>1 DEF AllOrNothing
        <5>3. QED
          BY <2>1, <2>4, <5>1, <5>2
      <4>3. QED
        BY <4>1, <4>2
    <3>2. \A w \in Txs : tx'[w].done => ~ (tx'[w].st = "live")
      BY <2>4 DEF AllOrNothing, Live
    <3>3. QED
      BY <1>8, <3>1, <3>2 DEF AllOrNothing, Live
  <2>8. QED
    BY <1>10, <2>5, <2>6, <2>7
<1>13. QED
  BY <1>11, <1>12

-----------------------------------------------------------------------------
(* The reader.                                                             *)

LEMMA SameSequence ==
    ASSUME NEW S, NEW s \in Seq(S), NEW u \in Seq(S), Len(s) = Len(u),
           \A i \in 1..Len(s) : s[i] = u[i]
    PROVE  s = u
  OBVIOUS

LEMMA ConcatFacts ==
    ASSUME NEW S, NEW s \in Seq(S), NEW u \in Seq(S), NEW R,
           \A i \in 1..Len(s) : s[i] \in R, \A i \in 1..Len(u) : u[i] \in R
    PROVE  s \o u \in Seq(S) /\ \A i \in 1..Len(s \o u) : (s \o u)[i] \in R
<1>1. s \o u \in Seq(S)
  OBVIOUS
<1>2. ASSUME NEW i \in 1..Len(s \o u) PROVE (s \o u)[i] \in R
  <2>1. CASE i <= Len(s)
    BY <2>1
  <2>2. CASE i > Len(s)
    <3>1. i - Len(s) \in 1..Len(u) /\ (s \o u)[i] = u[i - Len(s)]
      BY <2>2
    <3>2. QED
      BY <3>1
  <2>3. QED
    BY <2>1, <2>2
<1>3. QED
  BY <1>1, <1>2

\* A step of the reader alone.
LEMMA ReaderFrame ==
    ASSUME AdoInv, UNCHANGED <<conn, cmd, tx, table, log>>,
           reader' \in ReaderStates, reader'.current \in Rows \union {0},
           \A i \in 1..Len(reader'.all) : reader'.all[i] \in Rows,
           Len(reader'.got) <= Len(reader'.all),
           \A i \in 1..Len(reader'.got) : reader'.got[i] = reader'.all[i],
           reply' = [op |-> "Read", out |-> Bool(FALSE)] =>
             reader'.got = reader'.all \/ reader'.cut \/ reader'.closed
    PROVE  AdoInv'
<1> USE DEF AdoInv
<1>1. AdoTypeOK'
  BY DEF AdoTypeOK, Rows
<1>2. Held'
  BY DEF Held, Live, Rows
<1>3. Told'
  BY DEF Told, Rows
<1>4. AllOrNothing'
  BY DEF AllOrNothing, Live
<1>5. QED
  BY <1>1, <1>2, <1>3, <1>4

LEMMA ReaderFacts ==
    ASSUME AdoInv
    PROVE  /\ reader \in ReaderStates /\ reader.current \in Rows \union {0}
           /\ reader.all \in Seq(Nat) /\ reader.got \in Seq(Nat)
           /\ \A i \in 1..Len(reader.all) : reader.all[i] \in Rows
           /\ Len(reader.got) <= Len(reader.all)
           /\ \A i \in 1..Len(reader.got) : reader.got[i] = reader.all[i]
           /\ Rows \subseteq Nat
<1>1. reader \in ReaderStates /\ Rows \subseteq Nat
  BY DEF AdoInv, AdoTypeOK, Rows
<1>2. reader.all \in Seq(Nat) /\ reader.got \in Seq(Nat)
  BY <1>1 DEF ReaderStates
<1>3. QED
  BY <1>1, <1>2 DEF AdoInv, AdoTypeOK, Told

LEMMA ExecuteReaderStep ==
    ASSUME AdoInv, ExecuteReader
    PROVE  AdoInv'
<1> USE AdoNetAssumption
<1>1. target \in Owners
  BY TargetFacts DEF ExecuteReader
<1>2. Visible(target) \in Seq(Nat) /\ \A i \in 1..Len(Visible(target)) : Visible(target)[i] \in Rows
  <2>1. table \in Seq(Nat) /\ \A i \in 1..Len(table) : table[i] \in Rows
    BY DEF AdoInv, AdoTypeOK
  <2>2. CASE target \in Txs
    <3>1. tx[target] \in TxStates
      BY <2>2 DEF AdoInv, AdoTypeOK
    <3>2. tx[target].pending \in Seq(Nat)
      BY <3>1 DEF TxStates
    <3>3. \A i \in 1..Len(tx[target].pending) : tx[target].pending[i] \in Rows
      BY <2>2 DEF AdoInv, Held
    <3>4. Visible(target) = table \o tx[target].pending
      BY <2>2 DEF Visible
    <3>5. QED
      BY <2>1, <3>2, <3>3, <3>4, ConcatFacts
  <2>3. CASE target \notin Txs
    BY <2>1, <2>3 DEF Visible
  <2>4. QED
    BY <2>2, <2>3
<1>3. PICK o \in Owners, found \in Seq(Nat) : o = target /\ found = Visible(target)
  BY <1>1, <1>2
<1>4. reader' = [st |-> "open", all |-> found, got |-> <<>>, current |-> 0, closed |-> FALSE,
                 cut |-> FALSE, owner |-> o]
  BY <1>3 DEF ExecuteReader, NoReader
<1>5. reader' \in ReaderStates
  BY <1>4 DEF ReaderStates
<1>6. /\ reader'.all = found /\ reader'.got = <<>> /\ reader'.current = 0
      /\ Len(reader'.got) = 0 /\ Len(reader'.all) \in Nat
  BY <1>4
<1>7. /\ UNCHANGED <<conn, cmd, tx, table, log>>
      /\ reply' # [op |-> "Read", out |-> Bool(FALSE)]
  BY DEF ExecuteReader, Reply
<1>8. \A i \in 1..Len(reader'.all) : reader'.all[i] \in Rows
  BY <1>2, <1>3, <1>6
<1>9. /\ Len(reader'.got) <= Len(reader'.all) /\ reader'.current \in Rows \union {0}
      /\ \A i \in 1..Len(reader'.got) : reader'.got[i] = reader'.all[i]
  BY <1>6
<1>10. QED
  BY <1>5, <1>7, <1>8, <1>9, ReaderFrame

LEMMA ReaderReadStep ==
    ASSUME AdoInv, ReaderRead
    PROVE  AdoInv'
<1>0. /\ UNCHANGED <<conn, cmd, tx, table, log>>
      /\ reader \in ReaderStates /\ reader.current \in Rows \union {0}
      /\ reader.all \in Seq(Nat) /\ reader.got \in Seq(Nat)
      /\ \A i \in 1..Len(reader.all) : reader.all[i] \in Rows
      /\ Len(reader.got) <= Len(reader.all)
      /\ \A i \in 1..Len(reader.got) : reader.got[i] = reader.all[i]
      /\ Rows \subseteq Nat
  BY ReaderFacts DEF ReaderRead
<1>1. CASE (reader.closed \/ reader.cut \/ Len(reader.got) = Len(reader.all)) /\ UNCHANGED reader
  <2>1. reader.got = reader.all \/ reader.cut \/ reader.closed
    <3>1. CASE Len(reader.got) = Len(reader.all)
      BY <1>0, <3>1, SameSequence
    <3>2. QED
      BY <1>1, <3>1
  <2>2. QED
    BY <1>0, <1>1, <2>1, ReaderFrame
<1>2. CASE /\ Len(reader.got) # Len(reader.all)
           /\ reader' = [reader EXCEPT !.got = Append(@, reader.all[Len(reader.got) + 1]),
                                       !.current = reader.all[Len(reader.got) + 1]]
           /\ Reply("Read", Bool(TRUE))
  <2>1. Len(reader.got) + 1 \in 1..Len(reader.all)
    BY <1>0, <1>2
  <2>2. PICK row \in Nat : row = reader.all[Len(reader.got) + 1] /\ row \in Rows
    BY <1>0, <2>1
  <2>3. PICK got \in Seq(Nat) : got = Append(reader.got, row)
    BY <1>0, AppendFacts
  <2>4. /\ Len(got) = Len(reader.got) + 1
        /\ \A i \in 1..Len(reader.got) : got[i] = reader.got[i]
        /\ got[Len(reader.got) + 1] = row
    BY <1>0, <2>3, AppendFacts
  <2>5. reader' = [reader EXCEPT !.got = got, !.current = row]
    BY <1>2, <2>2, <2>3
  <2>6. /\ reader' \in ReaderStates /\ reader'.all = reader.all
        /\ reader'.got = got /\ reader'.current = row
    BY <1>0, <2>5 DEF ReaderStates
  <2>7. \A i \in 1..Len(got) : got[i] = reader.all[i]
    <3>1. \A i \in 1..Len(got) : i \in 1..Len(reader.got) \/ i = Len(reader.got) + 1
      BY <1>0, <2>4
    <3>2. QED
      BY <1>0, <2>2, <2>4, <3>1
  <2>8. reply' # [op |-> "Read", out |-> Bool(FALSE)]
    BY <1>2 DEF Reply, Bool, Val
  <2>9. QED
    <3>1. /\ \A i \in 1..Len(reader'.all) : reader'.all[i] \in Rows
          /\ Len(reader'.got) <= Len(reader'.all) /\ reader'.current \in Rows \union {0}
          /\ \A i \in 1..Len(reader'.got) : reader'.got[i] = reader'.all[i]
      BY <1>0, <2>1, <2>2, <2>4, <2>6, <2>7
    <3>2. QED
      BY <1>0, <2>6, <2>8, <3>1, ReaderFrame
<1>3. CASE reader' = [reader EXCEPT !.cut = TRUE]
  <2>1. /\ reader' \in ReaderStates /\ reader'.all = reader.all /\ reader'.got = reader.got
        /\ reader'.current = reader.current /\ reader'.cut
    BY <1>0, <1>3 DEF ReaderStates
  <2>2. QED
    BY <1>0, <2>1, ReaderFrame
<1>4. QED
  BY <1>1, <1>2, <1>3 DEF ReaderRead

LEMMA ReaderDisposeStep ==
    ASSUME AdoInv, ReaderDispose
    PROVE  AdoInv'
<1>1. /\ reader' \in ReaderStates /\ reader'.all = reader.all /\ reader'.got = reader.got
      /\ reader'.current = reader.current /\ reader'.closed
  BY ReaderFacts DEF ReaderDispose, ReaderStates
<1>2. UNCHANGED <<conn, cmd, tx, table, log>>
  BY DEF ReaderDispose
<1>3. QED
  BY <1>1, <1>2, ReaderFacts, ReaderFrame

-----------------------------------------------------------------------------
(* The theorems.                                                           *)

LEMMA NextAdoInv == AdoInv /\ [AdoNext]_avars => AdoInv'
<1> SUFFICES ASSUME AdoInv, [AdoNext]_avars PROVE AdoInv'
  OBVIOUS
<1>1. CASE UNCHANGED avars
  BY <1>1, UnchangedStep DEF avars
<1>2. CASE AdoNext
  <2>1. ASSUME NEW t \in Txs, BeginTransaction(t) PROVE AdoInv'
    BY <2>1, BeginStep
  <2>2. ASSUME NEW t \in Txs,
               TransactionCommit(t) \/ TransactionRollback(t) \/ TransactionDispose(t)
        PROVE  AdoInv'
    BY <2>2, TransactionStep
  <2>3. ASSUME NEW byName \in BOOLEAN, NEW i \in 1..2, ExecuteNonQuery(byName, i) PROVE AdoInv'
    BY <2>3, ExecuteNonQueryStep
  <2>4. QED
    BY <1>2, <2>1, <2>2, <2>3, ConnectionStep, CommandStep, QuietCalls,
       ExecuteReaderStep, ReaderReadStep, ReaderDisposeStep DEF AdoNext
<1>3. QED
  BY <1>1, <1>2

\* The invariant: the program uses the objects in any order, any statement,
\* commit or fetch may fail.
THEOREM StoreInvariance == AdoSpec => []AdoInv
<1>1. QED
  BY InitAdoInv, NextAdoInv, PTL DEF AdoSpec

\* Whatever becomes of a transaction object, its rows are in the database
\* exactly when it was committed (sqliteTransactionCommit, sqliteTransactionDispose).
THEOREM TransactionsAreAllOrNothing == AdoSpec => []AllOrNothing
<1>1. AdoInv => AllOrNothing
  BY DEF AdoInv
<1>2. QED
  BY <1>1, StoreInvariance, PTL

\* What is to be shown of readers follows from the invariant.
LEMMA ReadersAreRight == AdoInv => ReadersTellTheTable
<1> SUFFICES ASSUME AdoInv PROVE ReadersTellTheTable
  OBVIOUS
<1>1. IsPrefix(reader.got, reader.all)
  BY ReaderFacts, PrefixFacts
<1>2. reply = [op |-> "Read", out |-> Bool(FALSE)] =>
        reader.got = reader.all \/ reader.cut \/ reader.closed
  BY DEF AdoInv, Told
<1>3. /\ log \in Seq(LogEntries) /\ DOMAIN log = Rows
      /\ \A r \in Rows : log[r] \in LogEntries
  <2>1. log \in Seq(LogEntries)
    BY DEF AdoInv, AdoTypeOK, LogEntries
  <2>2. DOMAIN log = Rows
    BY <2>1 DEF Rows
  <2>3. QED
    BY <2>1, <2>2, ElementFacts
<1>4. ASSUME NEW r \in Rows
      PROVE  /\ log[r].v \in Arguments /\ log[r].named
             /\ log[r].go = sqliteGoValue(log[r].v) /\ sqliteGoValue(log[r].v) # Plain
  <2>1. log[r].v \in Arguments /\ log[r].go # Plain /\ log[r].named
    BY <1>3 DEF LogEntries
  <2>2. log[r].go = sqliteGoValue(log[r].v)
    BY DEF AdoInv, Told
  <2>3. QED
    BY <2>1, <2>2
<1>5. reader.current # 0 =>
        \A getter \in Getters :
           Suits(getter, log[reader.current].v, Column(getter, log[reader.current].go))
  BY <1>4, ColumnsSuit, ReaderFacts
<1>6. QED
  BY <1>1, <1>2, <1>3, <1>4, <1>5 DEF ReadersTellTheTable

\* Readers hand out the rows of their query in order, and every column reads
\* as what was stored (sqliteReaderRead, sqliteValueFromGo).
THEOREM ReadersTellWhatWasStored == AdoSpec => []ReadersTellTheTable
<1>1. QED
  BY ReadersAreRight, StoreInvariance, PTL

\* A set of numbers has a least one.
LEMMA LeastNumber ==
    ASSUME NEW S \in SUBSET Nat, S # {}
    PROVE  \E p \in S : \A q \in S : p <= q
<1>1. PICK p \in S : \A q \in S : ~(<<q, p>> \in OpToRel(<, Nat))
  BY NatLessThanWellFounded, WFMin
<1>2. \A q \in S : p <= q
  <2> SUFFICES ASSUME NEW q \in S PROVE p <= q
    OBVIOUS
  <2>1. <<q, p>> \in Nat \X Nat /\ ~(<<q, p>>[1] < <<q, p>>[2])
    BY <1>1 DEF OpToRel
  <2> QED BY <2>1
<1> QED BY <1>2

(***************************************************************************)
(* LinkedList                                                              *)
(***************************************************************************)

\* The element in a place of a sequence, or nothing beside it.
NodeAt(s, i) == IF i \in 1..Len(s) THEN s[i] ELSE Nil

\* No element is in two places.
Distinct(s) == \A i, j \in 1..Len(s) : s[i] = s[j] => i = j

\* A chain of different nodes is no longer than there are nodes.
LEMMA ChainsAreShort ==
    ASSUME NEW s \in Seq(Nodes), Distinct(s)
    PROVE  Len(s) \in Nat /\ Cardinality(Nodes) \in Nat /\ Len(s) <= Cardinality(Nodes)
<1>1. Len(s) \in Nat /\ s \in [1..Len(s) -> Nodes]
  BY LenProperties
<1>2. s \in Injection(1..Len(s), Nodes)
  BY <1>1 DEF Injection, IsInjective, Distinct
<1>3. IsFiniteSet(Nodes)
  BY LibraryAssumption
<1>4. Cardinality(1..Len(s)) <= Cardinality(Nodes)
  BY <1>2, <1>3, FS_Injection
<1>5. Cardinality(1..Len(s)) = Len(s)
  BY <1>1, FS_Interval
<1> QED
  BY <1>1, <1>3, <1>4, <1>5, FS_CardinalityType

\* An enumeration that starts at a chain's first node and follows its links
\* meets the nodes of the chain, in their order, and stops.
LEMMA WalkIsTheChain ==
    ASSUME NEW s \in Seq(Nodes), Distinct(s), NEW first, NEW link,
           first = NodeAt(s, 1),
           \A i \in 1..Len(s) : link[s[i]] = NodeAt(s, i + 1)
    PROVE  L!Walk(first, link) = s
<1> DEFINE N == Cardinality(Nodes) + 1
           Follow(f) == [k \in 1..N |-> IF k = 1 THEN first ELSE IF f[k - 1] = Nil THEN Nil ELSE link[f[k - 1]]]
           g == [k \in 1..N |-> NodeAt(s, k)]
           walk == CHOOSE f : f = Follow(f)
<1>0. Len(s) \in Nat /\ Cardinality(Nodes) \in Nat /\ Len(s) <= Cardinality(Nodes)
  BY ChainsAreShort
<1>1. \A i \in 1..Len(s) : s[i] \in Nodes /\ s[i] # Nil
  BY LenProperties, LibraryAssumption
<1>2. g = Follow(g)
  <2>1. \A k \in 1..N : g[k] = Follow(g)[k]
    <3> TAKE k \in 1..N
    <3>1. CASE k = 1
      BY <3>1
    <3>2. CASE k # 1
      <4>1. k - 1 \in 1..N /\ g[k - 1] = NodeAt(s, k - 1) /\ g[k] = NodeAt(s, k)
        BY <3>2, <1>0
      <4>2. CASE k - 1 \in 1..Len(s)
        BY <4>1, <4>2, <3>2, <1>1, SMTT(30) DEF NodeAt
      <4>3. CASE k - 1 \notin 1..Len(s)
        BY <4>1, <4>3, <3>2, <1>0, SMTT(30) DEF NodeAt
      <4> QED BY <4>2, <4>3
    <3> QED BY <3>1, <3>2
  <2> QED BY <2>1
<1>3. walk = Follow(walk)
  BY <1>2
<1>4. \A k \in 1..N : walk[k] = g[k]
  <2> DEFINE D == {k \in 1..N : walk[k] # g[k]}
  <2> SUFFICES ASSUME D # {} PROVE FALSE
    OBVIOUS
  <2>1. D \in SUBSET Nat
    BY <1>0
  <2> HIDE DEF walk, g
  <2>2. PICK k \in D : \A j \in D : k <= j
    BY <2>1, LeastNumber
  <2>3. k \in 1..N /\ walk[k] # g[k] /\ walk[k] = Follow(walk)[k] /\ g[k] = Follow(g)[k]
    BY <2>2, <1>2, <1>3
  <2>4. k # 1
    BY <2>3
  <2>5. k - 1 \in 1..N /\ walk[k - 1] = g[k - 1]
    BY <2>2, <2>4, <1>0
  <2> QED
    BY <2>3, <2>4, <2>5
<1>5. {k \in DOMAIN walk : walk[k] # Nil} = 1..Len(s)
  <2>1. DOMAIN walk = 1..N
    BY <1>3
  <2> HIDE DEF walk
  <2> QED BY <2>1, <1>4, <1>0, <1>1, SMTT(30) DEF NodeAt
<1>6. [k \in 1..Len(s) |-> walk[k]] = s
  <2> HIDE DEF walk
  <2>1. \A k \in 1..Len(s) : walk[k] = s[k]
    BY <1>4, <1>0 DEF NodeAt
  <2>2. s = [k \in 1..Len(s) |-> s[k]]
    BY LenProperties
  <2> QED BY <2>1, <2>2
<1>7. L!Walk(first, link) = [k \in {k \in DOMAIN walk : walk[k] # Nil} |-> walk[k]]
  BY DEF L!Walk, L!Cardinality, Cardinality
<1> QED
  BY <1>5, <1>6, <1>7

\* The nodes of s, in this order, are the chain of list l, with these ends and links.
Chain(s, l, first, final, nx, pv, ls, vl) ==
    /\ s \in Seq(Nodes) /\ Distinct(s)
    /\ first = NodeAt(s, 1) /\ final = NodeAt(s, Len(s))
    /\ \A i \in 1..Len(s) : /\ nx[s[i]] = NodeAt(s, i + 1) /\ pv[s[i]] = NodeAt(s, i - 1)
                            /\ ls[s[i]] = l /\ vl[s[i]] # NoData
\* The same of the lists as they are.
IsChain(l, s) == Chain(s, l, head[l], tail[l], next, prev, list, value)

\* A node that was never added has no links.
NewNodesAreFree == \A n \in Nodes : value[n] = NoData => next[n] = Nil /\ prev[n] = Nil

\* The inductive invariant: what an enumeration of a list meets is the list's chain.
ChainInv ==
    /\ L!TypeOK
    /\ NewNodesAreFree
    /\ \A l \in Lists : IsChain(l, L!Items(l)) /\ count[l] = Len(L!Items(l))

\* Enumerations meet the chain, forwards and backwards.
LEMMA ChainFromBothEnds ==
    ASSUME NEW s, NEW l, NEW h, NEW t, NEW nx, NEW pv, NEW ls, NEW vl,
           Chain(s, l, h, t, nx, pv, ls, vl)
    PROVE  /\ L!Walk(h, nx) = s
           /\ L!Walk(t, pv) = [i \in 1..Len(s) |-> s[Len(s) - i + 1]]
<1> DEFINE r == [i \in 1..Len(s) |-> s[Len(s) - i + 1]]
<1>1. s \in Seq(Nodes) /\ Distinct(s) /\ Len(s) \in Nat
  BY LenProperties DEF Chain
<1>2. L!Walk(h, nx) = s
  BY <1>1, WalkIsTheChain DEF Chain
<1>3. r \in Seq(Nodes) /\ Len(r) = Len(s) /\ \A i \in 1..Len(s) : r[i] = s[Len(s) - i + 1]
  BY <1>1
<1> HIDE DEF r
<1>4. Distinct(r)
  <2> SUFFICES ASSUME NEW i \in 1..Len(s), NEW j \in 1..Len(s), r[i] = r[j] PROVE i = j
    BY <1>3 DEF Distinct
  <2>1. s[Len(s) - i + 1] = s[Len(s) - j + 1]
    BY <1>3
  <2>2. Len(s) - i + 1 \in 1..Len(s) /\ Len(s) - j + 1 \in 1..Len(s)
    BY <1>1
  <2>3. Len(s) - i + 1 = Len(s) - j + 1
    BY <1>1, <2>1, <2>2 DEF Distinct
  <2> QED BY <1>1, <2>3
<1>5. t = NodeAt(r, 1)
  BY <1>1, <1>3 DEF Chain, NodeAt
<1>6. \A i \in 1..Len(r) : pv[r[i]] = NodeAt(r, i + 1)
  <2> TAKE i \in 1..Len(r)
  <2>1. Len(s) - i + 1 \in 1..Len(s) /\ r[i] = s[Len(s) - i + 1]
    BY <1>1, <1>3
  <2>2. pv[r[i]] = NodeAt(s, Len(s) - i)
    BY <2>1, <1>1 DEF Chain
  <2>3. NodeAt(s, Len(s) - i) = NodeAt(r, i + 1)
    BY <1>1, <1>3, <2>1 DEF NodeAt
  <2> QED BY <2>2, <2>3
<1>7. L!Walk(t, pv) = r
  BY <1>3, <1>4, <1>5, <1>6, WalkIsTheChain
<1> QED
  BY <1>2, <1>7 DEF r

\* A step that changes the chain of l to s, its count with it, and no link of a
\* node of another list.
LEMMA OneChainChanges ==
    ASSUME ChainInv, L!TypeOK', NewNodesAreFree', NEW l \in Lists, NEW s,
           IsChain(l, s)', count'[l] = Len(s),
           \A k \in Lists \ {l} : head'[k] = head[k] /\ tail'[k] = tail[k] /\ count'[k] = count[k],
           \A m \in Nodes : list[m] # l /\ value[m] # NoData =>
               next'[m] = next[m] /\ prev'[m] = prev[m] /\ list'[m] = list[m] /\ value'[m] = value[m]
    PROVE  /\ ChainInv'
           /\ [k \in Lists |-> L!Items(k)]' = [[k \in Lists |-> L!Items(k)] EXCEPT ![l] = s]
<1>1. L!Items(l)' = s
  BY ChainFromBothEnds DEF IsChain, L!Items
<1>2. ASSUME NEW k \in Lists \ {l}
      PROVE  L!Items(k)' = L!Items(k) /\ IsChain(k, L!Items(k))' /\ count'[k] = Len(L!Items(k)')
  <2> DEFINE c == L!Items(k)
  <2>1. Chain(c, k, head[k], tail[k], next, prev, list, value) /\ count[k] = Len(c)
    BY DEF ChainInv, IsChain
  <2> HIDE DEF c
  <2>2. \A i \in 1..Len(c) : c[i] \in Nodes /\ list[c[i]] = k /\ value[c[i]] # NoData
    BY <2>1, ElementOfSeq DEF Chain
  <2>3. Chain(c, k, head'[k], tail'[k], next', prev', list', value')
    BY <2>1, <2>2 DEF Chain
  <2>4. L!Walk(head'[k], next') = c
    BY <2>3, ChainFromBothEnds
  <2>5. L!Items(k)' = c
    BY <2>4 DEF L!Items
  <2> QED
    BY <2>1, <2>3, <2>5, <1>2 DEF IsChain, c
<1>3. ChainInv'
  BY <1>1, <1>2 DEF ChainInv
<1>4. [k \in Lists |-> L!Items(k)]' = [k \in Lists |-> IF k = l THEN s ELSE L!Items(k)]
  BY <1>1, <1>2
<1> QED
  BY <1>3, <1>4

\* Before anything is added.
LEMMA ChainsInit == L!Init => ChainInv /\ [l \in Lists |-> L!Items(l)] = [l \in Lists |-> <<>>]
<1> SUFFICES ASSUME L!Init PROVE ChainInv /\ [l \in Lists |-> L!Items(l)] = [l \in Lists |-> <<>>]
  OBVIOUS
<1>1. L!TypeOK /\ NewNodesAreFree
  BY DEF L!Init, L!TypeOK, NewNodesAreFree
<1>2. ASSUME NEW l \in Lists PROVE IsChain(l, <<>>) /\ L!Items(l) = <<>> /\ count[l] = 0
  <2>1. IsChain(l, <<>>) /\ count[l] = 0
    BY EmptySeq DEF L!Init, IsChain, Chain, NodeAt, Distinct
  <2>2. L!Items(l) = <<>>
    BY <2>1, ChainFromBothEnds DEF IsChain, L!Items
  <2> QED BY <2>1, <2>2
<1> QED
  BY <1>1, <1>2, EmptySeq DEF ChainInv

\* A node put behind or before a chain.
LEMMA AppendNode ==
    ASSUME NEW s \in Seq(Nodes), NEW n \in Nodes, Distinct(s), \A i \in 1..Len(s) : s[i] # n
    PROVE  LET r == Append(s, n)
           IN  /\ r \in Seq(Nodes) /\ Distinct(r) /\ Len(r) = Len(s) + 1
               /\ \A i \in 1..Len(s) : r[i] = s[i]
               /\ r[Len(s) + 1] = n
<1> DEFINE r == Append(s, n)
<1>1. /\ r \in Seq(Nodes) /\ Len(r) = Len(s) + 1 /\ Len(s) \in Nat
      /\ \A i \in 1..Len(s) : r[i] = s[i]
      /\ r[Len(s) + 1] = n
  BY AppendProperties, LenProperties
<1> HIDE DEF r
<1>2. Distinct(r)
  BY <1>1 DEF Distinct
<1> QED BY <1>1, <1>2 DEF r

\* Before it.
LEMMA PrependNode ==
    ASSUME NEW s \in Seq(Nodes), NEW n \in Nodes, Distinct(s), \A i \in 1..Len(s) : s[i] # n
    PROVE  LET r == <<n>> \o s
           IN  /\ r \in Seq(Nodes) /\ Distinct(r) /\ Len(r) = Len(s) + 1
               /\ \A i \in 1..Len(s) : r[i + 1] = s[i]
               /\ r[1] = n
<1> DEFINE r == <<n>> \o s
<1>1. /\ r \in Seq(Nodes) /\ Len(r) = Len(s) + 1 /\ Len(s) \in Nat
      /\ \A i \in 1..(Len(s) + 1) : r[i] = IF i = 1 THEN n ELSE s[i - 1]
  OBVIOUS
<1> HIDE DEF r
<1>2. Distinct(r)
  <2> SUFFICES ASSUME NEW i \in 1..(Len(s) + 1), NEW j \in 1..(Len(s) + 1), r[i] = r[j] PROVE i = j
    BY <1>1 DEF Distinct
  <2>1. i = 1 \/ i - 1 \in 1..Len(s)
    BY <1>1
  <2>2. j = 1 \/ j - 1 \in 1..Len(s)
    BY <1>1
  <2>3. r[i] = (IF i = 1 THEN n ELSE s[i - 1]) /\ r[j] = (IF j = 1 THEN n ELSE s[j - 1])
    BY <1>1
  <2>4. \A p, q \in 1..Len(s) : s[p] = s[q] => p = q
    BY DEF Distinct
  <2>5. CASE i = 1
    BY <2>2, <2>3, <2>5
  <2>6. CASE i # 1
    <3>1. i - 1 \in 1..Len(s) /\ j # 1
      BY <2>1, <2>3, <2>6
    <3>2. i - 1 = j - 1
      BY <2>2, <2>3, <2>4, <2>6, <3>1
    <3> QED BY <3>2
  <2> QED BY <2>5, <2>6
<1>3. \A i \in 1..Len(s) : r[i + 1] = s[i]
  BY <1>1
<1> QED BY <1>1, <1>2, <1>3 DEF r

\* A piece of a sequence, between two places of it.
LEMMA PieceFacts ==
    ASSUME NEW S, NEW s \in Seq(S), NEW lo \in Nat, NEW hi \in Nat, lo <= hi, hi <= Len(s)
    PROVE  /\ SubSeq(s, lo + 1, hi) \in Seq(S) /\ Len(SubSeq(s, lo + 1, hi)) = hi - lo
           /\ \A i \in 1..(hi - lo) : SubSeq(s, lo + 1, hi)[i] = s[lo + i]
<1> DEFINE fr == lo + 1
<1>1. fr \in Int /\ hi \in Int /\ \A i \in fr..hi : s[i] \in S
  OBVIOUS
<1>2. /\ hi - fr + 1 = hi - lo /\ (fr <= hi \/ hi - lo = 0)
      /\ \A i \in 1..(hi - lo) : fr + i - 1 = lo + i
  OBVIOUS
<1> HIDE DEF fr
<1>3. /\ SubSeq(s, fr, hi) \in Seq(S)
      /\ Len(SubSeq(s, fr, hi)) = IF fr <= hi THEN hi - fr + 1 ELSE 0
      /\ \A i \in 1..(hi - fr + 1) : SubSeq(s, fr, hi)[i] = s[fr + i - 1]
  BY <1>1, SubSeqProperties
<1>4. /\ SubSeq(s, fr, hi) \in Seq(S) /\ Len(SubSeq(s, fr, hi)) = hi - lo
      /\ \A i \in 1..(hi - lo) : SubSeq(s, fr, hi)[i] = s[lo + i]
  BY <1>2, <1>3
<1> QED BY <1>4 DEF fr

\* A chain without the node in place i.
LEMMA WithoutNode ==
    ASSUME NEW s \in Seq(Nodes), Distinct(s), NEW i \in 1..Len(s)
    PROVE  LET r == SubSeq(s, 1, i - 1) \o SubSeq(s, i + 1, Len(s))
           IN  /\ r \in Seq(Nodes) /\ Distinct(r) /\ Len(r) = Len(s) - 1
               /\ \A j \in 1..(Len(s) - 1) : r[j] = IF j < i THEN s[j] ELSE s[j + 1]
<1> DEFINE r == SubSeq(s, 1, i - 1) \o SubSeq(s, i + 1, Len(s))
<1>0. Len(s) \in Nat /\ \A j \in 1..Len(s) : s[j] \in Nodes
  BY LenProperties, ElementOfSeq
<1>1. /\ r \in Seq(Nodes) /\ Len(r) = Len(s) - 1
      /\ \A j \in 1..(Len(s) - 1) : r[j] = IF j < i THEN s[j] ELSE s[j + 1]
  <2> DEFINE a == SubSeq(s, 1, i - 1)
             b == SubSeq(s, i + 1, Len(s))
  <2>1. /\ a \in Seq(Nodes) /\ Len(a) = i - 1
        /\ \A j \in 1..(i - 1) : a[j] = s[j]
    BY <1>0, SubSeqProperties
  <2>2. /\ b \in Seq(Nodes) /\ Len(b) = Len(s) - i
        /\ \A j \in 1..(Len(s) - i) : b[j] = s[j + i]
    BY <1>0, SubSeqProperties
  <2> HIDE DEF a, b
  <2>3. /\ a \o b \in Seq(Nodes) /\ Len(a \o b) = Len(s) - 1
        /\ \A j \in 1..(Len(s) - 1) : (a \o b)[j] = IF j <= i - 1 THEN a[j] ELSE b[j - (i - 1)]
    <3>1. Len(a) + Len(b) = Len(s) - 1
      BY <2>1, <2>2, <1>0
    <3>2. /\ a \o b \in Seq(Nodes) /\ Len(a \o b) = Len(a) + Len(b)
          /\ \A j \in 1..(Len(a) + Len(b)) : (a \o b)[j] = IF j <= Len(a) THEN a[j] ELSE b[j - Len(a)]
      BY <2>1, <2>2, ConcatProperties
    <3> QED BY <3>1, <3>2, <2>1
  <2>4. \A j \in 1..(Len(s) - 1) : (a \o b)[j] = IF j < i THEN s[j] ELSE s[j + 1]
    BY <2>1, <2>2, <2>3, <1>0
  <2> QED BY <2>3, <2>4 DEF a, b
<1> HIDE DEF r
<1>2. Distinct(r)
  <2> SUFFICES ASSUME NEW j \in 1..(Len(s) - 1), NEW k \in 1..(Len(s) - 1), r[j] = r[k] PROVE j = k
    BY <1>1 DEF Distinct
  <2>1. \A p, q \in 1..Len(s) : s[p] = s[q] => p = q
    BY DEF Distinct
  <2>2. j \in 1..Len(s) /\ j + 1 \in 1..Len(s) /\ k \in 1..Len(s) /\ k + 1 \in 1..Len(s)
    BY <1>0
  <2> QED BY <1>1, <2>1, <2>2
<1> QED BY <1>1, <1>2 DEF r

\* What the invariant says of a list's chain s.
LEMMA ChainOf ==
    ASSUME ChainInv, NEW l \in Lists, NEW s, s = L!Items(l)
    PROVE  /\ s \in Seq(Nodes) /\ Distinct(s) /\ Len(s) \in Nat /\ count[l] = Len(s)
           /\ head[l] = NodeAt(s, 1) /\ tail[l] = NodeAt(s, Len(s))
           /\ \A i \in 1..Len(s) : /\ s[i] \in Nodes /\ s[i] # Nil
                                   /\ next[s[i]] = NodeAt(s, i + 1) /\ prev[s[i]] = NodeAt(s, i - 1)
                                   /\ list[s[i]] = l /\ value[s[i]] # NoData
<1>1. Chain(s, l, head[l], tail[l], next, prev, list, value) /\ count[l] = Len(s)
  BY DEF ChainInv, IsChain
<1>2. Len(s) \in Nat /\ \A i \in 1..Len(s) : s[i] \in Nodes
  BY <1>1, LenProperties, ElementOfSeq DEF Chain
<1> QED
  BY <1>1, <1>2, LibraryAssumption DEF Chain

\* AddLast puts the node behind the chain.
LEMMA AddLastKeeps ==
    ASSUME ChainInv, NEW l \in Lists, NEW n \in Nodes, NEW v \in Data, L!AddLast(l, n, v),
           NEW s, s = L!Items(l)
    PROVE  /\ ChainInv'
           /\ [k \in Lists |-> L!Items(k)]' = [[k \in Lists |-> L!Items(k)] EXCEPT ![l] = Append(s, n)]
<1> DEFINE r == Append(s, n)
<1>1. /\ s \in Seq(Nodes) /\ Distinct(s) /\ Len(s) \in Nat /\ count[l] = Len(s)
      /\ head[l] = NodeAt(s, 1) /\ tail[l] = NodeAt(s, Len(s))
      /\ \A i \in 1..Len(s) : /\ s[i] \in Nodes /\ s[i] # Nil
                              /\ next[s[i]] = NodeAt(s, i + 1) /\ prev[s[i]] = NodeAt(s, i - 1)
                              /\ list[s[i]] = l /\ value[s[i]] # NoData
  BY ChainOf
<1>2. L!TypeOK /\ next[n] = Nil /\ n # Nil /\ v # NoData /\ l # Nil
  BY LibraryAssumption DEF ChainInv, NewNodesAreFree, L!AddLast, L!NewNode
<1>3. \A i \in 1..Len(s) : s[i] # n
  BY <1>1 DEF L!AddLast, L!NewNode
<1>4. /\ r \in Seq(Nodes) /\ Distinct(r) /\ Len(r) = Len(s) + 1
      /\ \A i \in 1..Len(s) : r[i] = s[i]
      /\ r[Len(s) + 1] = n
  BY <1>1, <1>3, AppendNode
<1> HIDE DEF r
<1>5. /\ head'[l] = (IF tail[l] = Nil THEN n ELSE head[l]) /\ tail'[l] = n /\ count'[l] = Len(r)
      /\ \A k \in Lists \ {l} : head'[k] = head[k] /\ tail'[k] = tail[k] /\ count'[k] = count[k]
  BY <1>1, <1>2, <1>4 DEF L!AddLast, L!NewNode, L!TypeOK
<1>6. \A m \in Nodes : /\ next'[m] = (IF m = tail[l] THEN n ELSE next[m])
                       /\ prev'[m] = (IF m = n THEN tail[l] ELSE prev[m])
                       /\ list'[m] = (IF m = n THEN l ELSE list[m])
                       /\ value'[m] = (IF m = n THEN v ELSE value[m])
  BY <1>2 DEF L!AddLast, L!NewNode, L!TypeOK
<1>7. L!TypeOK'
  BY <1>2 DEF L!AddLast, L!NewNode, L!TypeOK
<1>8. tail[l] # Nil => list[tail[l]] = l /\ value[tail[l]] # NoData
  BY <1>1 DEF NodeAt
<1>9. NewNodesAreFree'
  <2> SUFFICES ASSUME NEW m \in Nodes, value'[m] = NoData PROVE next'[m] = Nil /\ prev'[m] = Nil
    BY DEF NewNodesAreFree
  <2>1. m # n /\ value[m] = NoData
    BY <1>2, <1>6
  <2>2. m # tail[l]
    BY <1>8, <2>1, LibraryAssumption
  <2> QED
    BY <1>6, <2>1, <2>2 DEF ChainInv, NewNodesAreFree
<1>10. head'[l] = NodeAt(r, 1) /\ tail'[l] = NodeAt(r, Len(r))
  BY <1>1, <1>4, <1>5 DEF NodeAt
<1>11. ASSUME NEW i \in 1..Len(r)
       PROVE  /\ next'[r[i]] = NodeAt(r, i + 1) /\ prev'[r[i]] = NodeAt(r, i - 1)
              /\ list'[r[i]] = l /\ value'[r[i]] # NoData
  <2>1. CASE i = Len(s) + 1
    <3>1. r[i] = n /\ n # tail[l]
      BY <2>1, <1>1, <1>3, <1>4, <1>2 DEF NodeAt
    <3>2. NodeAt(r, i + 1) = Nil /\ NodeAt(r, i - 1) = tail[l]
      BY <2>1, <1>1, <1>4 DEF NodeAt
    <3> QED BY <3>1, <3>2, <1>2, <1>6
  <2>2. CASE i \in 1..Len(s)
    <3>1. r[i] = s[i] /\ s[i] # n
      BY <2>2, <1>3, <1>4
    <3>2. prev'[r[i]] = NodeAt(s, i - 1) /\ list'[r[i]] = l /\ value'[r[i]] # NoData
      <4>1. /\ s[i] \in Nodes /\ prev[s[i]] = NodeAt(s, i - 1)
            /\ list[s[i]] = l /\ value[s[i]] # NoData
        BY <2>2, <1>1
      <4>2. prev'[s[i]] = prev[s[i]] /\ list'[s[i]] = list[s[i]] /\ value'[s[i]] = value[s[i]]
        BY <4>1, <3>1, <1>6
      <4> QED BY <4>1, <4>2, <3>1
    <3>3. NodeAt(s, i - 1) = NodeAt(r, i - 1)
      BY <2>2, <1>1, <1>4 DEF NodeAt
    <3>4. s[i] = tail[l] <=> i = Len(s)
      BY <2>2, <1>1 DEF NodeAt, Distinct
    <3>5. next'[r[i]] = IF i = Len(s) THEN n ELSE NodeAt(s, i + 1)
      BY <2>2, <3>1, <3>4, <1>1, <1>6
    <3>6. NodeAt(r, i + 1) = IF i = Len(s) THEN n ELSE NodeAt(s, i + 1)
      BY <2>2, <1>1, <1>4 DEF NodeAt
    <3> QED BY <3>2, <3>3, <3>5, <3>6
  <2> QED BY <2>1, <2>2, <1>1, <1>4
<1>12. IsChain(l, r)'
  BY <1>4, <1>10, <1>11 DEF IsChain, Chain
<1>13. \A m \in Nodes : list[m] # l /\ value[m] # NoData =>
           next'[m] = next[m] /\ prev'[m] = prev[m] /\ list'[m] = list[m] /\ value'[m] = value[m]
  BY <1>6, <1>8, LibraryAssumption DEF L!AddLast, L!NewNode
<1> QED
  BY <1>5, <1>7, <1>9, <1>12, <1>13, OneChainChanges DEF r

\* AddFirst puts it before the chain.
LEMMA AddFirstKeeps ==
    ASSUME ChainInv, NEW l \in Lists, NEW n \in Nodes, NEW v \in Data, L!AddFirst(l, n, v),
           NEW s, s = L!Items(l)
    PROVE  /\ ChainInv'
           /\ [k \in Lists |-> L!Items(k)]' = [[k \in Lists |-> L!Items(k)] EXCEPT ![l] = <<n>> \o s]
<1> DEFINE r == <<n>> \o s
<1>1. /\ s \in Seq(Nodes) /\ Distinct(s) /\ Len(s) \in Nat /\ count[l] = Len(s)
      /\ head[l] = NodeAt(s, 1) /\ tail[l] = NodeAt(s, Len(s))
      /\ \A i \in 1..Len(s) : /\ s[i] \in Nodes /\ s[i] # Nil
                              /\ next[s[i]] = NodeAt(s, i + 1) /\ prev[s[i]] = NodeAt(s, i - 1)
                              /\ list[s[i]] = l /\ value[s[i]] # NoData
  BY ChainOf
<1>2. L!TypeOK /\ prev[n] = Nil /\ n # Nil /\ v # NoData /\ l # Nil
  BY LibraryAssumption DEF ChainInv, NewNodesAreFree, L!AddFirst, L!NewNode
<1>3. \A i \in 1..Len(s) : s[i] # n
  BY <1>1 DEF L!AddFirst, L!NewNode
<1>4. /\ r \in Seq(Nodes) /\ Distinct(r) /\ Len(r) = Len(s) + 1
      /\ \A i \in 1..Len(s) : r[i + 1] = s[i]
      /\ r[1] = n
  BY <1>1, <1>3, PrependNode
<1> HIDE DEF r
<1>5. /\ tail'[l] = (IF head[l] = Nil THEN n ELSE tail[l]) /\ head'[l] = n /\ count'[l] = Len(r)
      /\ \A k \in Lists \ {l} : head'[k] = head[k] /\ tail'[k] = tail[k] /\ count'[k] = count[k]
  BY <1>1, <1>2, <1>4 DEF L!AddFirst, L!NewNode, L!TypeOK
<1>6. \A m \in Nodes : /\ prev'[m] = (IF m = head[l] THEN n ELSE prev[m])
                       /\ next'[m] = (IF m = n THEN head[l] ELSE next[m])
                       /\ list'[m] = (IF m = n THEN l ELSE list[m])
                       /\ value'[m] = (IF m = n THEN v ELSE value[m])
  BY <1>2 DEF L!AddFirst, L!NewNode, L!TypeOK
<1>7. L!TypeOK'
  BY <1>2 DEF L!AddFirst, L!NewNode, L!TypeOK
<1>8. head[l] # Nil => list[head[l]] = l /\ value[head[l]] # NoData
  BY <1>1 DEF NodeAt
<1>9. NewNodesAreFree'
  <2> SUFFICES ASSUME NEW m \in Nodes, value'[m] = NoData PROVE next'[m] = Nil /\ prev'[m] = Nil
    BY DEF NewNodesAreFree
  <2>1. m # n /\ value[m] = NoData
    BY <1>2, <1>6
  <2>2. m # head[l]
    BY <1>8, <2>1, LibraryAssumption
  <2> QED
    BY <1>6, <2>1, <2>2 DEF ChainInv, NewNodesAreFree
<1>10. head'[l] = NodeAt(r, 1) /\ tail'[l] = NodeAt(r, Len(r))
  <2>1. head'[l] = NodeAt(r, 1)
    BY <1>1, <1>4, <1>5 DEF NodeAt
  <2>2. CASE Len(s) = 0
    BY <2>2, <1>1, <1>4, <1>5 DEF NodeAt
  <2>3. CASE Len(s) # 0
    <3>1. Len(s) \in 1..Len(s) /\ 1 \in 1..Len(s)
      BY <2>3, <1>1
    <3>2. r[Len(s) + 1] = s[Len(s)] /\ tail[l] = s[Len(s)] /\ head[l] # Nil
      BY <3>1, <1>1, <1>4 DEF NodeAt
    <3> QED BY <2>1, <3>1, <3>2, <1>1, <1>4, <1>5 DEF NodeAt
  <2> QED BY <2>1, <2>2, <2>3
<1>11. ASSUME NEW i \in 1..Len(r)
       PROVE  /\ next'[r[i]] = NodeAt(r, i + 1) /\ prev'[r[i]] = NodeAt(r, i - 1)
              /\ list'[r[i]] = l /\ value'[r[i]] # NoData
  <2>1. CASE i = 1
    <3>1. r[i] = n /\ n # head[l]
      BY <2>1, <1>1, <1>3, <1>4, <1>2 DEF NodeAt
    <3>2. NodeAt(r, i - 1) = Nil /\ NodeAt(r, i + 1) = head[l]
      BY <2>1, <1>1, <1>4 DEF NodeAt
    <3> QED BY <3>1, <3>2, <1>2, <1>6
  <2>2. CASE i # 1
    <3> DEFINE j == i - 1
    <3>1. j \in 1..Len(s) /\ i = j + 1
      BY <2>2, <1>1, <1>4
    <3> HIDE DEF j
    <3>2. r[i] = s[j] /\ s[j] # n
      BY <3>1, <1>3, <1>4
    <3>3. next'[r[i]] = NodeAt(s, j + 1) /\ list'[r[i]] = l /\ value'[r[i]] # NoData
      <4>1. /\ s[j] \in Nodes /\ next[s[j]] = NodeAt(s, j + 1)
            /\ list[s[j]] = l /\ value[s[j]] # NoData
        BY <3>1, <1>1
      <4>2. next'[s[j]] = next[s[j]] /\ list'[s[j]] = list[s[j]] /\ value'[s[j]] = value[s[j]]
        BY <4>1, <3>2, <1>6
      <4> QED BY <4>1, <4>2, <3>2
    <3>4. NodeAt(s, j + 1) = NodeAt(r, i + 1)
      BY <3>1, <1>1, <1>4 DEF NodeAt
    <3>5. s[j] = head[l] <=> j = 1
      BY <3>1, <1>1 DEF NodeAt, Distinct
    <3>6. prev'[r[i]] = IF j = 1 THEN n ELSE NodeAt(s, j - 1)
      BY <3>1, <3>2, <3>5, <1>1, <1>6
    <3>7. NodeAt(r, i - 1) = IF j = 1 THEN n ELSE NodeAt(s, j - 1)
      <4>1. CASE j = 1
        BY <4>1, <3>1, <1>1, <1>4 DEF NodeAt
      <4>2. CASE j # 1
        <5>1. j - 1 \in 1..Len(s) /\ i - 1 = (j - 1) + 1 /\ i - 1 \in 1..Len(r)
          BY <4>2, <3>1, <1>1, <1>4
        <5> QED BY <4>2, <5>1, <1>4 DEF NodeAt
      <4> QED BY <4>1, <4>2
    <3> QED BY <3>3, <3>4, <3>6, <3>7
  <2> QED BY <2>1, <2>2
<1>12. IsChain(l, r)'
  BY <1>4, <1>10, <1>11 DEF IsChain, Chain
<1>13. \A m \in Nodes : list[m] # l /\ value[m] # NoData =>
           next'[m] = next[m] /\ prev'[m] = prev[m] /\ list'[m] = list[m] /\ value'[m] = value[m]
  BY <1>6, <1>8, LibraryAssumption DEF L!AddFirst, L!NewNode
<1> QED
  BY <1>5, <1>7, <1>9, <1>12, <1>13, OneChainChanges DEF r

\* The five ways to take out a node of the chain.
LEMMA UnlinkKeeps ==
    ASSUME ChainInv, NEW l \in Lists, NEW s, s = L!Items(l), NEW i \in 1..Len(s), L!Unlink(l, s[i])
    PROVE  /\ ChainInv'
           /\ [k \in Lists |-> L!Items(k)]'
                = [[k \in Lists |-> L!Items(k)] EXCEPT ![l] = SubSeq(s, 1, i - 1) \o SubSeq(s, i + 1, Len(s))]
           /\ value' = value
<1> DEFINE r == SubSeq(s, 1, i - 1) \o SubSeq(s, i + 1, Len(s))
           n == s[i]
           before == NodeAt(s, i - 1)
           after == NodeAt(s, i + 1)
<1>1. /\ s \in Seq(Nodes) /\ Distinct(s) /\ Len(s) \in Nat /\ count[l] = Len(s)
      /\ head[l] = NodeAt(s, 1) /\ tail[l] = NodeAt(s, Len(s))
      /\ \A j \in 1..Len(s) : /\ s[j] \in Nodes /\ s[j] # Nil
                              /\ next[s[j]] = NodeAt(s, j + 1) /\ prev[s[j]] = NodeAt(s, j - 1)
                              /\ list[s[j]] = l /\ value[s[j]] # NoData
  BY ChainOf
<1>2. L!TypeOK /\ l # Nil
  BY LibraryAssumption DEF ChainInv
<1>3. n \in Nodes /\ n # Nil /\ prev[n] = before /\ next[n] = after /\ list[n] = l /\ L!Unlink(l, n)
  BY <1>1
<1>4. /\ r \in Seq(Nodes) /\ Distinct(r) /\ Len(r) = Len(s) - 1
      /\ \A j \in 1..(Len(s) - 1) : r[j] = IF j < i THEN s[j] ELSE s[j + 1]
  BY <1>1, WithoutNode
<1>a. \A j, k \in 1..Len(s) : s[j] = s[k] => j = k
  BY <1>1 DEF Distinct
<1>e. Len(s) \in Nat /\ i \in 1..Len(s)
  BY <1>1
<1>b. /\ before = (IF i = 1 THEN Nil ELSE s[i - 1]) /\ (before = Nil <=> i = 1)
      /\ after = (IF i = Len(s) THEN Nil ELSE s[i + 1]) /\ (after = Nil <=> i = Len(s))
  <2>1. i = 1 \/ i - 1 \in 1..Len(s)
    BY <1>e
  <2>2. i = Len(s) \/ i + 1 \in 1..Len(s)
    BY <1>e
  <2> QED BY <2>1, <2>2, <1>1 DEF NodeAt
<1>c. \A j \in 1..Len(s) : (s[j] = before <=> j = i - 1) /\ (s[j] = after <=> j = i + 1) /\ (s[j] = n <=> j = i)
  <2> TAKE j \in 1..Len(s)
  <2>1. i = 1 \/ i - 1 \in 1..Len(s)
    BY <1>e
  <2>2. i = Len(s) \/ i + 1 \in 1..Len(s)
    BY <1>e
  <2>3. s[j] # Nil
    BY <1>1
  <2>4. s[j] = before <=> j = i - 1
    <3>1. CASE i = 1
      BY <3>1, <2>3, <1>b
    <3>2. CASE i # 1
      <4>1. i - 1 \in 1..Len(s) /\ before = s[i - 1]
        BY <3>2, <2>1, <1>b
      <4> QED BY <4>1, <1>a
    <3> QED BY <3>1, <3>2
  <2>5. s[j] = after <=> j = i + 1
    <3>1. CASE i = Len(s)
      <4>1. after = Nil /\ j # i + 1
        BY <3>1, <1>b, <1>1
      <4> QED BY <4>1, <2>3
    <3>2. CASE i # Len(s)
      <4>1. i + 1 \in 1..Len(s) /\ after = s[i + 1]
        BY <3>2, <2>2, <1>b
      <4> QED BY <4>1, <1>a
    <3> QED BY <3>1, <3>2
  <2>6. s[j] = n <=> j = i
    BY <1>a
  <2> QED BY <2>4, <2>5, <2>6
<1>d. \A m \in {before, after} : m # Nil => m \in Nodes /\ list[m] = l /\ value[m] # NoData
  BY <1>1 DEF NodeAt
<1> HIDE DEF r, before, after, n
<1>5. /\ head'[l] = (IF before = Nil THEN after ELSE head[l])
      /\ tail'[l] = (IF after = Nil THEN before ELSE tail[l]) /\ count'[l] = Len(r)
      /\ \A k \in Lists \ {l} : head'[k] = head[k] /\ tail'[k] = tail[k] /\ count'[k] = count[k]
  BY <1>1, <1>2, <1>3, <1>4 DEF L!Unlink, L!TypeOK
<1>6. \A m \in Nodes : /\ next'[m] = (IF m = n THEN Nil ELSE IF m = before THEN after ELSE next[m])
                       /\ prev'[m] = (IF m = n THEN Nil ELSE IF m = after THEN before ELSE prev[m])
                       /\ list'[m] = (IF m = n THEN Nil ELSE list[m])
                       /\ value'[m] = value[m]
  BY <1>2, <1>3 DEF L!Unlink, L!TypeOK
<1>7. L!TypeOK'
  <2>1. before \in Nodes \union {Nil} /\ after \in Nodes \union {Nil}
    BY <1>d
  <2>2. count' \in [Lists -> Nat]
    BY <1>1, <1>2, <1>3 DEF L!Unlink, L!TypeOK
  <2> QED
    BY <2>1, <2>2, <1>2, <1>3 DEF L!Unlink, L!TypeOK
<1>9. NewNodesAreFree'
  <2> SUFFICES ASSUME NEW m \in Nodes, value'[m] = NoData PROVE next'[m] = Nil /\ prev'[m] = Nil
    BY DEF NewNodesAreFree
  <2>1. value[m] = NoData /\ next[m] = Nil /\ prev[m] = Nil /\ m # Nil
    BY <1>6, LibraryAssumption DEF ChainInv, NewNodesAreFree
  <2>2. m # before /\ m # after
    BY <1>d, <2>1
  <2> QED
    BY <1>6, <2>1, <2>2
<1>10. head'[l] = NodeAt(r, 1) /\ tail'[l] = NodeAt(r, Len(r))
  <2>1. head'[l] = NodeAt(r, 1)
    <3>1. CASE i = 1
      <4>1. head'[l] = after
        BY <3>1, <1>5, <1>b
      <4>2. CASE Len(s) = 1
        <5>1. after = Nil /\ Len(r) = 0
          BY <4>2, <3>1, <1>4, <1>b
        <5>2. NodeAt(r, 1) = Nil
          BY <5>1, <1>4 DEF NodeAt
        <5> QED BY <4>1, <5>1, <5>2
      <4>3. CASE Len(s) # 1
        <5>1. 1 \in 1..(Len(s) - 1) /\ ~(1 < i) /\ i # Len(s)
          <6>1. \A m \in Nat : m # 1 /\ i \in 1..m /\ i = 1 => 1 \in 1..(m - 1) /\ ~(1 < i) /\ i # m
            OBVIOUS
          <6> QED BY <6>1, <4>3, <3>1, <1>e
        <5>2. r[1] = s[1 + 1] /\ after = s[1 + 1]
          BY <5>1, <3>1, <1>4, <1>b
        <5>3. NodeAt(r, 1) = r[1]
          BY <5>1, <1>4 DEF NodeAt
        <5> QED BY <4>1, <5>2, <5>3
      <4> QED BY <4>2, <4>3
    <3>2. CASE i # 1
      <4>1. 1 \in 1..(Len(s) - 1) /\ 1 < i
        BY <3>2, <1>e
      <4> QED BY <4>1, <3>2, <1>1, <1>4, <1>5, <1>b DEF NodeAt
    <3> QED BY <3>1, <3>2
  <2>2. tail'[l] = NodeAt(r, Len(r))
    <3>1. CASE i = Len(s)
      <4>1. CASE i = 1
        BY <4>1, <3>1, <1>1, <1>4, <1>5, <1>b DEF NodeAt
      <4>2. CASE i # 1
        <5>1. i - 1 \in 1..(Len(s) - 1) /\ i - 1 < i /\ Len(r) = i - 1
          BY <4>2, <3>1, <1>e, <1>4
        <5> QED BY <5>1, <4>2, <3>1, <1>4, <1>5, <1>b DEF NodeAt
      <4> QED BY <4>1, <4>2
    <3>2. CASE i # Len(s)
      <4>1. Len(s) - 1 \in 1..(Len(s) - 1) /\ ~(Len(s) - 1 < i) /\ (Len(s) - 1) + 1 = Len(s) /\ Len(s) \in 1..Len(s)
        BY <3>2, <1>e
      <4>2. NodeAt(r, Len(r)) = s[Len(s)] /\ tail[l] = s[Len(s)]
        BY <4>1, <1>1, <1>4 DEF NodeAt
      <4> QED BY <4>2, <3>2, <1>5, <1>b
    <3> QED BY <3>1, <3>2
  <2> QED BY <2>1, <2>2
<1>11. ASSUME NEW k \in 1..Len(r)
       PROVE  /\ next'[r[k]] = NodeAt(r, k + 1) /\ prev'[r[k]] = NodeAt(r, k - 1)
              /\ list'[r[k]] = l /\ value'[r[k]] # NoData
  <2> DEFINE j == IF k < i THEN k ELSE k + 1
  <2>1. k \in 1..(Len(s) - 1) /\ j \in 1..Len(s) /\ j # i /\ r[k] = s[j] /\ k = IF j < i THEN j ELSE j - 1
    BY <1>1, <1>4, SMTT(30)
  <2> HIDE DEF j
  <2>2. /\ s[j] \in Nodes /\ next[s[j]] = NodeAt(s, j + 1) /\ prev[s[j]] = NodeAt(s, j - 1)
        /\ list[s[j]] = l /\ value[s[j]] # NoData
        /\ (s[j] = before <=> j = i - 1) /\ (s[j] = after <=> j = i + 1) /\ s[j] # n
    BY <2>1, <1>1, <1>c
  <2>3. list'[r[k]] = l /\ value'[r[k]] # NoData
    BY <2>1, <2>2, <1>6
  <2>4. next'[r[k]] = IF j = i - 1 THEN after ELSE NodeAt(s, j + 1)
    BY <2>1, <2>2, <1>6
  <2>5. prev'[r[k]] = IF j = i + 1 THEN before ELSE NodeAt(s, j - 1)
    BY <2>1, <2>2, <1>6
  <2>6. NodeAt(r, k + 1) = IF j = i - 1 THEN after ELSE NodeAt(s, j + 1)
    <3>1. CASE k + 1 \in 1..(Len(s) - 1)
      <4>1. NodeAt(r, k + 1) = r[k + 1]
        BY <3>1, <1>4 DEF NodeAt
      <4>2. r[k + 1] = IF k + 1 < i THEN s[k + 1] ELSE s[(k + 1) + 1]
        BY <3>1, <1>4
      <4> QED BY <4>1, <4>2, <3>1, <2>1, <1>b, <1>1, SMTT(30) DEF NodeAt
    <3>2. CASE k + 1 \notin 1..(Len(s) - 1)
      <4>1. NodeAt(r, k + 1) = Nil
        BY <3>2, <1>4 DEF NodeAt
      <4> QED BY <4>1, <3>2, <2>1, <1>b, <1>1, SMTT(30) DEF NodeAt
    <3> QED BY <3>1, <3>2
  <2>7. NodeAt(r, k - 1) = IF j = i + 1 THEN before ELSE NodeAt(s, j - 1)
    <3>1. CASE k = 1
      <4>1. NodeAt(r, k - 1) = Nil
        BY <3>1, <1>4 DEF NodeAt
      <4> QED BY <4>1, <3>1, <2>1, <1>b, <1>1, SMTT(30) DEF NodeAt
    <3>2. CASE k # 1
      <4>1. k - 1 \in 1..(Len(s) - 1)
        BY <3>2, <2>1, <1>e
      <4>2. NodeAt(r, k - 1) = IF k - 1 < i THEN s[k - 1] ELSE s[k]
        BY <4>1, <1>4 DEF NodeAt
      <4> QED BY <4>1, <4>2, <3>2, <2>1, <1>b, <1>1, SMTT(30) DEF NodeAt
    <3> QED BY <3>1, <3>2
  <2> QED BY <2>3, <2>4, <2>5, <2>6, <2>7
<1>12. IsChain(l, r)'
  BY <1>4, <1>10, <1>11 DEF IsChain, Chain
<1>13. \A m \in Nodes : list[m] # l /\ value[m] # NoData =>
           next'[m] = next[m] /\ prev'[m] = prev[m] /\ list'[m] = list[m] /\ value'[m] = value[m]
  BY <1>6, <1>d, <1>3, LibraryAssumption
<1>14. value' = value
  BY <1>3 DEF L!Unlink
<1> QED
  BY <1>5, <1>7, <1>9, <1>12, <1>13, <1>14, OneChainChanges DEF r

\* Clear leaves no chain, and frees every node of it.
LEMMA ClearKeeps ==
    ASSUME ChainInv, NEW l \in Lists, L!Clear(l)
    PROVE  /\ ChainInv'
           /\ [k \in Lists |-> L!Items(k)]' = [[k \in Lists |-> L!Items(k)] EXCEPT ![l] = <<>>]
<1>1. L!TypeOK /\ NewNodesAreFree
  BY DEF ChainInv
<1>2. L!TypeOK' /\ NewNodesAreFree'
  BY <1>1 DEF L!Clear, L!TypeOK, NewNodesAreFree
<1>3. IsChain(l, <<>>)' /\ count'[l] = Len(<<>>)
  BY <1>1, EmptySeq DEF L!Clear, L!TypeOK, IsChain, Chain, NodeAt, Distinct
<1>4. /\ \A k \in Lists \ {l} : head'[k] = head[k] /\ tail'[k] = tail[k] /\ count'[k] = count[k]
      /\ next' = next /\ prev' = prev /\ list' = list /\ value' = value
  BY <1>1 DEF L!Clear, L!TypeOK
<1> QED
  BY <1>2, <1>3, <1>4, OneChainChanges

\* The lists of the promise, with this value of what a list is.
ListsNow == [k \in Lists |-> L!Items(k)]

\* Calls that change nothing.
LEMMA ChainsStay ==
    ASSUME ChainInv, UNCHANGED L!vars
    PROVE  ChainInv' /\ ListsNow' = ListsNow
<1>1. /\ head' = head /\ tail' = tail /\ count' = count /\ value' = value
      /\ list' = list /\ prev' = prev /\ next' = next
  BY DEF L!vars, L!links
<1>2. \A l : L!Items(l)' = L!Items(l)
  BY <1>1 DEF L!Items
<1> QED
  BY <1>1, <1>2 DEF ChainInv, L!TypeOK, NewNodesAreFree, IsChain, ListsNow

\* Every operation keeps the chains, and does to them what is promised.
LEMMA ChainStep ==
    ASSUME ChainInv, L!Next
    PROVE  ChainInv' /\ L!Promise!Next
<1> USE DEF ListsNow
<1>1. PICK l \in Lists :
        \/ \E n \in Nodes, v \in Data : L!AddLast(l, n, v) \/ L!AddFirst(l, n, v)
        \/ \E n \in Nodes : L!RemoveNode(l, n)
        \/ \E v \in Data : L!RemoveValue(l, v)
        \/ L!RemoveFirst(l) \/ L!RemoveLast(l) \/ L!Clear(l)
  BY DEF L!Next
<1> DEFINE s == L!Items(l)
<1>2. /\ s \in Seq(Nodes) /\ Len(s) \in Nat
      /\ head[l] = NodeAt(s, 1) /\ tail[l] = NodeAt(s, Len(s))
      /\ DOMAIN s = 1..Len(s) /\ (Len(s) = 0 => s = <<>>)
  BY ChainOf, LenProperties, EmptySeq
<1>3. ListsNow[l] = s
  OBVIOUS
<1>4. ASSUME NEW i \in 1..Len(s), L!Unlink(l, s[i])
      PROVE  ChainInv' /\ L!Promise!TakeOut(l, i)
  <2>1. /\ ChainInv' /\ value' = value
        /\ ListsNow' = [ListsNow EXCEPT ![l] = SubSeq(s, 1, i - 1) \o SubSeq(s, i + 1, Len(s))]
    BY <1>4, UnlinkKeeps
  <2> QED
    BY <2>1, <1>3 DEF L!Promise!TakeOut, L!Promise!RemoveAt
<1>5. ASSUME NEW n \in Nodes, NEW v \in Data, L!AddLast(l, n, v) \/ L!AddFirst(l, n, v)
      PROVE  ChainInv' /\ L!Promise!Add(l, n, v)
  <2>1. value[n] = NoData /\ value' = [value EXCEPT ![n] = v]
    BY <1>5 DEF L!AddLast, L!AddFirst, L!NewNode
  <2>2. CASE L!AddLast(l, n, v)
    <3>1. ChainInv' /\ ListsNow' = [ListsNow EXCEPT ![l] = Append(s, n)]
      BY <2>2, AddLastKeeps
    <3> QED BY <2>1, <3>1, <1>3 DEF L!Promise!Add
  <2>3. CASE L!AddFirst(l, n, v)
    <3>1. ChainInv' /\ ListsNow' = [ListsNow EXCEPT ![l] = <<n>> \o s]
      BY <2>3, AddFirstKeeps
    <3> QED BY <2>1, <3>1, <1>3 DEF L!Promise!Add
  <2> QED BY <1>5, <2>2, <2>3
<1>6. ASSUME NEW n \in Nodes, L!RemoveNode(l, n)
      PROVE  ChainInv' /\ L!Promise!RemoveNode(l, n)
  <2>1. PICK i \in 1..Len(s) : s[i] = n /\ L!Unlink(l, s[i])
    BY <1>6, <1>2 DEF L!RemoveNode
  <2> QED
    BY <2>1, <1>2, <1>3, <1>4 DEF L!Promise!RemoveNode
<1>7. ASSUME NEW v \in Data, L!RemoveValue(l, v)
      PROVE  ChainInv' /\ L!Promise!RemoveValue(l, v)
  <2>1. PICK i \in 1..Len(s) : /\ value[s[i]] = v /\ \A j \in 1..(i - 1) : value[s[j]] # v
                               /\ L!Unlink(l, s[i])
    BY <1>7, <1>2 DEF L!RemoveValue
  <2> QED
    BY <2>1, <1>2, <1>3, <1>4 DEF L!Promise!RemoveValue
<1>8. ASSUME L!RemoveFirst(l) \/ L!RemoveLast(l)
      PROVE  ChainInv' /\ L!Promise!RemoveEnd(l)
  <2>1. CASE L!RemoveFirst(l)
    <3>1. 1 \in 1..Len(s) /\ L!Unlink(l, s[1])
      BY <2>1, <1>2 DEF L!RemoveFirst, NodeAt
    <3>2. s # <<>>
      BY <3>1, EmptySeq
    <3> QED BY <3>1, <3>2, <1>3, <1>4 DEF L!Promise!RemoveEnd
  <2>2. CASE L!RemoveLast(l)
    <3>1. Len(s) \in 1..Len(s) /\ L!Unlink(l, s[Len(s)])
      BY <2>2, <1>2 DEF L!RemoveLast, NodeAt
    <3>2. s # <<>>
      BY <3>1, EmptySeq
    <3> QED BY <3>1, <3>2, <1>3, <1>4 DEF L!Promise!RemoveEnd
  <2> QED BY <1>8, <2>1, <2>2
<1>9. ASSUME L!Clear(l)
      PROVE  ChainInv' /\ L!Promise!Clear(l)
  <2>1. ChainInv' /\ ListsNow' = [ListsNow EXCEPT ![l] = <<>>] /\ value' = value
    BY <1>9, ClearKeeps DEF L!Clear
  <2> QED BY <2>1 DEF L!Promise!Clear
<1> QED
  BY <1>1, <1>5, <1>6, <1>7, <1>8, <1>9 DEF L!Promise!Next

\* What is to be shown of the lists follows from the invariant.
LEMMA ChainsAreSound == ChainInv => L!ListInv
<1> SUFFICES ASSUME ChainInv PROVE L!ListInv
  OBVIOUS
<1>1. ASSUME NEW l \in Lists
      PROVE  /\ Len(L!Items(l)) = Len(L!ItemsBack(l))
             /\ \A i \in DOMAIN L!Items(l) : L!Items(l)[i] = L!ItemsBack(l)[Len(L!Items(l)) - i + 1]
             /\ count[l] = Len(L!Items(l))
             /\ \A i \in DOMAIN L!Items(l) : list[L!Items(l)[i]] = l
  <2> DEFINE s == L!Items(l)
  <2>1. Chain(s, l, head[l], tail[l], next, prev, list, value) /\ count[l] = Len(s)
    BY DEF ChainInv, IsChain
  <2>2. L!ItemsBack(l) = [i \in 1..Len(s) |-> s[Len(s) - i + 1]]
    BY <2>1, ChainFromBothEnds DEF L!ItemsBack
  <2> HIDE DEF s
  <2>3. s \in Seq(Nodes) /\ Len(s) \in Nat /\ DOMAIN s = 1..Len(s)
    BY <2>1, LenProperties DEF Chain
  <2>4. Len(L!ItemsBack(l)) = Len(s)
    BY <2>2, <2>3
  <2>5. \A i \in 1..Len(s) : s[i] = L!ItemsBack(l)[Len(s) - i + 1]
    <3> TAKE i \in 1..Len(s)
    <3>1. Len(s) - i + 1 \in 1..Len(s) /\ Len(s) - (Len(s) - i + 1) + 1 = i
      BY <2>3
    <3> QED BY <2>2, <3>1
  <2>6. \A i \in 1..Len(s) : list[s[i]] = l
    BY <2>1 DEF Chain
  <2> QED BY <2>1, <2>3, <2>4, <2>5, <2>6 DEF s
<1> QED
  BY <1>1 DEF ChainInv, L!ListInv, L!WalksAgree, L!CountIsLength

\* The lists are well formed.
THEOREM ListsAreChains == L!Spec => []L!ListInv
<1>1. L!Init => ChainInv
  BY ChainsInit
<1>2. ChainInv /\ [L!Next]_L!vars => ChainInv'
  BY ChainStep, ChainsStay
<1> QED
  BY <1>1, <1>2, ChainsAreSound, PTL DEF L!Spec

\* The lists implement the sequences of nodes that the class promises: links,
\* ends and counts, changed one node at a time, are at every call what the
\* operation does to the sequence.
THEOREM ListsAreSequences == L!Spec => L!ImplementsLists
<1>1. L!Init => ChainInv /\ L!Promise!Init
  BY ChainsInit DEF L!Init, L!Promise!Init
<1>2. ASSUME ChainInv, [L!Next]_L!vars
      PROVE  ChainInv' /\ [L!Promise!Next]_<<[l \in Lists |-> L!Items(l)], value>>
  <2>1. CASE L!Next
    <3>1. ChainInv' /\ L!Promise!Next
      BY <1>2, <2>1, ChainStep
    <3> QED BY <3>1
  <2>2. CASE UNCHANGED L!vars
    <3>1. ChainInv' /\ ListsNow' = ListsNow /\ value' = value
      BY <1>2, <2>2, ChainsStay DEF L!vars
    <3> QED BY <3>1 DEF ListsNow
  <2> QED BY <1>2, <2>1, <2>2
<1> QED
  BY <1>1, <1>2, PTL DEF L!Spec, L!ImplementsLists, L!Promise!Spec

(***************************************************************************)
(* Collections: their elements and their order                             *)
(***************************************************************************)

\* r is s with x put in place i; r is s without its place i.
Inserted(s, r, i, x) ==
    /\ r \in Seq(Keys) /\ i \in 1..(Len(s) + 1) /\ Len(r) = Len(s) + 1
    /\ \A j \in 1..Len(r) : r[j] = IF j < i THEN s[j] ELSE IF j = i THEN x ELSE s[j - 1]
\* The second.
Removed(s, r, i) ==
    /\ r \in Seq(Keys) /\ i \in 1..Len(s) /\ Len(r) = Len(s) - 1
    /\ \A j \in 1..Len(r) : r[j] = IF j < i THEN s[j] ELSE s[j + 1]
\* Every element is smaller than those behind it.
Increasing(s) == \A i, j \in 1..Len(s) : i < j => s[i] < s[j]

\* List.Insert: what is behind moves on by one.
LEMMA InsertAtFacts ==
    ASSUME NEW T, NEW s \in Seq(T), NEW i \in 1..(Len(s) + 1), NEW x \in T
    PROVE  /\ K!InsertAt(s, i, x) \in Seq(T) /\ Len(K!InsertAt(s, i, x)) = Len(s) + 1
           /\ \A j \in 1..(Len(s) + 1) :
                K!InsertAt(s, i, x)[j] = IF j < i THEN s[j] ELSE IF j = i THEN x ELSE s[j - 1]
<1> DEFINE a == SubSeq(s, 1, i - 1)
           b == SubSeq(s, i, Len(s))
           c == a \o <<x>>
<1>0. Len(s) \in Nat /\ \A j \in 1..Len(s) : s[j] \in T
  BY LenProperties, ElementOfSeq
<1>1. a \in Seq(T) /\ Len(a) = i - 1 /\ \A j \in 1..(i - 1) : a[j] = s[j]
  BY <1>0, SubSeqProperties
<1>2. b \in Seq(T) /\ Len(b) = Len(s) - i + 1 /\ \A j \in 1..(Len(s) - i + 1) : b[j] = s[i + j - 1]
  BY <1>0, SubSeqProperties
<1> HIDE DEF a, b
<1>3. c \in Seq(T) /\ Len(c) = i /\ \A j \in 1..i : c[j] = IF j = i THEN x ELSE a[j]
  BY <1>1
<1> HIDE DEF c
<1>4. /\ c \o b \in Seq(T) /\ Len(c \o b) = Len(c) + Len(b)
      /\ \A j \in 1..(Len(c) + Len(b)) : (c \o b)[j] = IF j <= Len(c) THEN c[j] ELSE b[j - Len(c)]
  BY <1>2, <1>3, ConcatProperties
<1>5. Len(c) + Len(b) = Len(s) + 1
  BY <1>0, <1>2, <1>3
<1>6. \A j \in 1..(Len(s) + 1) : (c \o b)[j] = IF j < i THEN s[j] ELSE IF j = i THEN x ELSE s[j - 1]
  <2> TAKE j \in 1..(Len(s) + 1)
  <2>1. CASE j <= i
    BY <2>1, <1>0, <1>1, <1>3, <1>4, <1>5
  <2>2. CASE j > i
    <3>1. j - i \in 1..(Len(s) - i + 1) /\ i + (j - i) - 1 = j - 1
      BY <2>2, <1>0
    <3>2. b[j - i] = s[j - 1]
      BY <3>1, <1>2
    <3>3. (c \o b)[j] = b[j - i]
      BY <2>2, <1>0, <1>3, <1>4, <1>5
    <3> QED BY <2>2, <3>2, <3>3, <1>0
  <2>3. j <= i \/ j > i
    BY <1>0
  <2> QED BY <2>1, <2>2, <2>3
<1>7. K!InsertAt(s, i, x) = c \o b
  BY DEF K!InsertAt, a, b, c
<1> QED BY <1>4, <1>5, <1>6, <1>7

\* List.RemoveAt: what is behind moves back by one.
LEMMA RemoveAtFacts ==
    ASSUME NEW T, NEW s \in Seq(T), NEW i \in 1..Len(s)
    PROVE  /\ K!RemoveAt(s, i) \in Seq(T) /\ Len(K!RemoveAt(s, i)) = Len(s) - 1
           /\ \A j \in 1..(Len(s) - 1) : K!RemoveAt(s, i)[j] = IF j < i THEN s[j] ELSE s[j + 1]
<1> DEFINE a == SubSeq(s, 1, i - 1)
           b == SubSeq(s, i + 1, Len(s))
<1>0. Len(s) \in Nat /\ \A j \in 1..Len(s) : s[j] \in T
  BY LenProperties, ElementOfSeq
<1>1. a \in Seq(T) /\ Len(a) = i - 1 /\ \A j \in 1..(i - 1) : a[j] = s[j]
  BY <1>0, SubSeqProperties
<1>2. b \in Seq(T) /\ Len(b) = Len(s) - i /\ \A j \in 1..(Len(s) - i) : b[j] = s[j + i]
  BY <1>0, SubSeqProperties
<1> HIDE DEF a, b
<1>3. Len(a) + Len(b) = Len(s) - 1
  BY <1>0, <1>1, <1>2
<1>4. /\ a \o b \in Seq(T) /\ Len(a \o b) = Len(a) + Len(b)
      /\ \A j \in 1..(Len(a) + Len(b)) : (a \o b)[j] = IF j <= Len(a) THEN a[j] ELSE b[j - Len(a)]
  BY <1>1, <1>2, ConcatProperties
<1>5. \A j \in 1..(Len(s) - 1) : (a \o b)[j] = IF j < i THEN s[j] ELSE s[j + 1]
  <2> TAKE j \in 1..(Len(s) - 1)
  <2>1. CASE j < i
    BY <2>1, <1>0, <1>1, <1>3, <1>4
  <2>2. CASE ~(j < i)
    <3>1. j - (i - 1) \in 1..(Len(s) - i) /\ (j - (i - 1)) + i = j + 1
      BY <2>2, <1>0
    <3>2. b[j - (i - 1)] = s[j + 1]
      BY <3>1, <1>2
    <3>3. (a \o b)[j] = b[j - (i - 1)]
      BY <2>2, <1>0, <1>1, <1>3, <1>4
    <3> QED BY <2>2, <3>2, <3>3
  <2> QED BY <2>1, <2>2
<1>6. K!RemoveAt(s, i) = a \o b
  BY DEF K!RemoveAt, a, b
<1> QED BY <1>3, <1>4, <1>5, <1>6

\* The elements of a sequence.
LEMMA RangeOf ==
    ASSUME NEW T, NEW s \in Seq(T)
    PROVE  K!Range(s) = {s[i] : i \in 1..Len(s)} /\ K!Range(s) \subseteq T
BY LenProperties DEF K!Range

\* What a new element does to the set of elements and their order.
LEMMA InsertedFacts ==
    ASSUME NEW s \in Seq(Keys), NEW r, NEW i, NEW x \in Keys, Inserted(s, r, i, x)
    PROVE  /\ K!Range(r) = K!Range(s) \union {x}
           /\ r[i] = x /\ i \in 1..Len(r)
           /\ \A j \in 1..Len(s) : r[IF j < i THEN j ELSE j + 1] = s[j]
           /\ Distinct(s) /\ x \notin K!Range(s) => Distinct(r)
           /\ /\ Increasing(s)
              /\ \A j \in 1..(i - 1) : s[j] < x
              /\ \A j \in i..Len(s) : x < s[j]
              => Increasing(r)
<1>0. Len(s) \in Nat /\ Len(r) = Len(s) + 1 /\ i \in 1..(Len(s) + 1) /\ r \in Seq(Keys)
  BY LenProperties DEF Inserted
<1>1. \A j \in 1..Len(r) : r[j] = IF j < i THEN s[j] ELSE IF j = i THEN x ELSE s[j - 1]
  BY DEF Inserted
<1>2. \A j \in 1..Len(s) : r[IF j < i THEN j ELSE j + 1] = s[j]
  <2> TAKE j \in 1..Len(s)
  <2>1. CASE j < i
    BY <2>1, <1>0, <1>1
  <2>2. CASE ~(j < i)
    <3>1. j + 1 \in 1..Len(r) /\ ~(j + 1 < i) /\ j + 1 # i /\ (j + 1) - 1 = j
      BY <2>2, <1>0
    <3> QED BY <2>2, <3>1, <1>1
  <2> QED BY <2>1, <2>2
<1>3. r[i] = x /\ i \in 1..Len(r)
  BY <1>0, <1>1
<1>4. K!Range(s) = {s[j] : j \in 1..Len(s)} /\ K!Range(r) = {r[j] : j \in 1..Len(r)}
  BY <1>0, RangeOf
<1>5. K!Range(r) = K!Range(s) \union {x}
  <2>1. \A j \in 1..Len(r) : r[j] \in K!Range(s) \union {x}
    <3> TAKE j \in 1..Len(r)
    <3>1. j = i \/ (j < i /\ j \in 1..Len(s)) \/ (j > i /\ j - 1 \in 1..Len(s))
      BY <1>0
    <3> QED BY <3>1, <1>0, <1>1, <1>4
  <2>2. \A j \in 1..Len(s) : (IF j < i THEN j ELSE j + 1) \in 1..Len(r)
    BY <1>0
  <2>3. \A j \in 1..Len(s) : s[j] \in K!Range(r)
    BY <2>2, <1>2, <1>4
  <2> QED BY <2>1, <2>3, <1>3, <1>4
<1>6. ASSUME Distinct(s), x \notin K!Range(s) PROVE Distinct(r)
  <2> SUFFICES ASSUME NEW p \in 1..Len(r), NEW q \in 1..Len(r), r[p] = r[q] PROVE p = q
    BY DEF Distinct
  <2>1. \A j, k \in 1..Len(s) : s[j] = s[k] => j = k
    BY <1>6 DEF Distinct
  <2>2. \A j \in 1..Len(s) : s[j] # x
    BY <1>6, <1>4
  <2>3. p = i \/ (p < i /\ p \in 1..Len(s) /\ r[p] = s[p]) \/ (p > i /\ p - 1 \in 1..Len(s) /\ r[p] = s[p - 1])
    BY <1>0, <1>1
  <2>4. q = i \/ (q < i /\ q \in 1..Len(s) /\ r[q] = s[q]) \/ (q > i /\ q - 1 \in 1..Len(s) /\ r[q] = s[q - 1])
    BY <1>0, <1>1
  <2>5. CASE p = i
    BY <2>5, <2>2, <2>4, <1>3
  <2>6. CASE q = i
    BY <2>6, <2>2, <2>3, <1>3
  <2>7. CASE p # i /\ q # i
    <3> DEFINE u == IF p < i THEN p ELSE p - 1
               w == IF q < i THEN q ELSE q - 1
    <3>1. u \in 1..Len(s) /\ w \in 1..Len(s) /\ r[p] = s[u] /\ r[q] = s[w]
      BY <2>3, <2>4, <2>7, <1>0
    <3>2. u = w
      BY <3>1, <2>1
    <3> QED BY <3>2, <2>7, <1>0
  <2> QED BY <2>5, <2>6, <2>7
<1>7. ASSUME Increasing(s), \A j \in 1..(i - 1) : s[j] < x, \A j \in i..Len(s) : x < s[j]
      PROVE  Increasing(r)
  <2> SUFFICES ASSUME NEW p \in 1..Len(r), NEW q \in 1..Len(r), p < q PROVE r[p] < r[q]
    BY DEF Increasing
  <2>0. \A j, k \in 1..Len(s) : j < k => s[j] < s[k]
    BY <1>7 DEF Increasing
  <2>1. (p < i /\ p \in 1..Len(s) /\ p \in 1..(i - 1) /\ r[p] = s[p]) \/ (p = i /\ r[p] = x) \/ (p > i /\ p - 1 \in 1..Len(s) /\ r[p] = s[p - 1])
    BY <1>0, <1>1
  <2>2. (q < i /\ q \in 1..Len(s) /\ r[q] = s[q]) \/ (q = i /\ r[q] = x) \/ (q > i /\ q - 1 \in 1..Len(s) /\ q - 1 \in i..Len(s) /\ r[q] = s[q - 1])
    BY <1>0, <1>1
  <2>3. CASE q < i
    BY <2>0, <2>1, <2>2, <2>3, <1>0
  <2>4. CASE q = i
    BY <2>1, <2>2, <2>4, <1>7
  <2>5. CASE q > i /\ p < i
    <3>1. p < q - 1 /\ q - 1 \in 1..Len(s)
      BY <2>5, <2>2, <1>0
    <3> QED BY <3>1, <2>0, <2>1, <2>2, <2>5
  <2>6. CASE q > i /\ p = i
    BY <2>1, <2>2, <2>6, <1>7
  <2>7. CASE p > i
    <3>1. p - 1 < q - 1 /\ q > i /\ p # i
      BY <2>7, <1>0
    <3> QED BY <3>1, <2>0, <2>1, <2>2, <2>7, <1>0
  <2> QED BY <2>3, <2>4, <2>5, <2>6, <2>7, <1>0
<1> QED BY <1>2, <1>3, <1>5, <1>6, <1>7

\* What a removed one does to them.
LEMMA RemovedFacts ==
    ASSUME NEW s \in Seq(Keys), NEW r, NEW i, Removed(s, r, i)
    PROVE  /\ Distinct(s) => Distinct(r) /\ K!Range(r) = K!Range(s) \ {s[i]}
           /\ Increasing(s) => Increasing(r)
<1>0. Len(s) \in Nat /\ Len(r) = Len(s) - 1 /\ i \in 1..Len(s) /\ r \in Seq(Keys)
  BY LenProperties DEF Removed
<1> DEFINE from(j) == IF j < i THEN j ELSE j + 1
<1>1. \A j \in 1..Len(r) : r[j] = s[from(j)] /\ from(j) \in 1..Len(s) /\ from(j) # i
  BY <1>0 DEF Removed
<1>2. \A j, k \in 1..Len(r) : (from(j) = from(k) => j = k) /\ (j < k => from(j) < from(k))
  BY <1>0
<1>3. \A k \in 1..Len(s) : k # i => (IF k < i THEN k ELSE k - 1) \in 1..Len(r) /\ from(IF k < i THEN k ELSE k - 1) = k
  BY <1>0
<1> HIDE DEF from
<1>4. K!Range(s) = {s[j] : j \in 1..Len(s)} /\ K!Range(r) = {r[j] : j \in 1..Len(r)}
  BY <1>0, RangeOf
<1>5. ASSUME Distinct(s) PROVE Distinct(r) /\ K!Range(r) = K!Range(s) \ {s[i]}
  <2>1. \A j, k \in 1..Len(s) : s[j] = s[k] => j = k
    BY <1>5 DEF Distinct
  <2>2. Distinct(r)
    BY <2>1, <1>1, <1>2 DEF Distinct
  <2>3. ASSUME NEW y \in K!Range(r) PROVE y \in K!Range(s) /\ y # s[i]
    <3>1. PICK j \in 1..Len(r) : y = r[j]
      BY <1>4, <2>3
    <3> QED BY <3>1, <1>0, <1>1, <1>4, <2>1
  <2>4. ASSUME NEW y \in K!Range(s), y # s[i] PROVE y \in K!Range(r)
    <3>1. PICK k \in 1..Len(s) : y = s[k] /\ k # i
      BY <1>4, <2>4
    <3>2. PICK j \in 1..Len(r) : from(j) = k
      BY <3>1, <1>3
    <3> QED BY <3>1, <3>2, <1>1, <1>4
  <2> QED BY <2>2, <2>3, <2>4
<1>6. ASSUME Increasing(s) PROVE Increasing(r)
  BY <1>6, <1>1, <1>2 DEF Increasing
<1> QED BY <1>5, <1>6

\* The least of a set of numbers is one of them.
LEMMA MinFacts ==
    ASSUME NEW S \in SUBSET Nat, S # {}
    PROVE  K!Min(S) \in S /\ \A j \in S : K!Min(S) <= j
<1>1. \E p \in S : \A q \in S : p <= q
  BY LeastNumber
<1> QED BY <1>1 DEF K!Min

\* The first place of x in s, 0 if there is none.
PositionIn(s, x) ==
    IF {i \in 1..Len(s) : s[i] = x} # {} THEN K!Min({i \in 1..Len(s) : s[i] = x}) ELSE 0

\* It is the first place of x, or x is nowhere.
LEMMA PositionFacts ==
    ASSUME NEW s \in Seq(Keys), NEW x
    PROVE  \/ /\ PositionIn(s, x) = 0 /\ x \notin K!Range(s)
              /\ \A j \in 1..Len(s) : s[j] # x
           \/ /\ PositionIn(s, x) \in 1..Len(s) /\ s[PositionIn(s, x)] = x /\ x \in K!Range(s)
              /\ \A j \in 1..(PositionIn(s, x) - 1) : s[j] # x
<1> DEFINE I == {i \in 1..Len(s) : s[i] = x}
<1>1. Len(s) \in Nat /\ K!Range(s) = {s[i] : i \in 1..Len(s)}
  BY LenProperties, RangeOf
<1>2. CASE I = {}
  BY <1>2, <1>1 DEF PositionIn
<1>3. CASE I # {}
  <2>1. I \in SUBSET Nat
    BY <1>1
  <2>2. PositionIn(s, x) = K!Min(I)
    BY <1>3 DEF PositionIn
  <2> HIDE DEF I
  <2>3. K!Min(I) \in I /\ \A j \in I : K!Min(I) <= j
    BY <2>1, <1>3, MinFacts
  <2> DEFINE m == K!Min(I)
  <2>4. m \in 1..Len(s) /\ s[m] = x
    BY <2>3 DEF I
  <2>5. \A j \in 1..Len(s) : s[j] = x => m <= j
    BY <2>3 DEF I
  <2> HIDE DEF m
  <2>6. \A j \in 1..(m - 1) : s[j] # x
    BY <2>4, <2>5, <1>1
  <2>7. PositionIn(s, x) = m
    BY <2>2 DEF m
  <2>8. x \in K!Range(s)
    BY <2>4, <1>1
  <2> QED BY <2>4, <2>6, <2>7, <2>8
<1> QED BY <1>2, <1>3

\* It is what the code's searches find.
LEMMA PositionIs == \A x : K!Position(x) = PositionIn(items, x)
BY DEF K!Position, PositionIn, K!SelectInSeq

\* The same after a step.
LEMMA PositionIsNext == \A x : K!Position(x)' = PositionIn(items', x)
BY DEF K!Position, PositionIn, K!SelectInSeq

\* In a sequence without repetitions an element has one place.
LEMMA OnePosition ==
    ASSUME NEW s \in Seq(Keys), Distinct(s), NEW i \in 1..Len(s)
    PROVE  PositionIn(s, s[i]) = i
<1>1. PositionIn(s, s[i]) \in 1..Len(s) /\ s[PositionIn(s, s[i])] = s[i]
  BY PositionFacts
<1> QED BY <1>1 DEF Distinct

\* A sorted kind puts a new element between the smaller and the greater ones.
LEMMA InsertedInOrder ==
    ASSUME items \in Seq(Keys), NEW x \in Keys
    PROVE  \E i \in 1..(Len(items) + 1) :
              /\ Inserted(items, K!InsertBeforeGreater(x), i, x)
              /\ ordered /\ Increasing(items) /\ x \notin K!Range(items) =>
                    /\ \A j \in 1..(i - 1) : items[j] < x
                    /\ \A j \in i..Len(items) : x < items[j]
<1> DEFINE G == {i \in 1..Len(items) : K!Less(x, items[i])}
           r == K!InsertBeforeGreater(x)
<1>1. Len(items) \in Nat /\ (\A i \in 1..Len(items) : items[i] \in Keys /\ items[i] \in Int) /\ x \in Int
  BY LenProperties, ElementOfSeq, LibraryAssumption
<1>2. r = LET i == IF G # {} THEN K!Min(G) ELSE 0
          IN IF i = 0 THEN Append(items, x) ELSE K!InsertAt(items, i, x)
  BY DEF K!InsertBeforeGreater, K!SelectInSeq
<1>3. x \notin K!Range(items) => \A j \in 1..Len(items) : items[j] # x
  BY RangeOf
<1>4. G \in SUBSET Nat
  BY <1>1
<1> HIDE DEF r, G
<1>5. CASE G = {}
  <2>1. r = Append(items, x)
    BY <1>2, <1>5
  <2>2. Inserted(items, Append(items, x), Len(items) + 1, x)
    BY <1>1 DEF Inserted
  <2>3. ordered /\ x \notin K!Range(items) => \A j \in 1..Len(items) : items[j] < x
    BY <1>1, <1>3, <1>5 DEF G, K!Less
  <2> QED BY <2>1, <2>2, <2>3, <1>1 DEF r
<1>6. CASE G # {}
  <2>1. K!Min(G) \in G /\ \A j \in G : K!Min(G) <= j
    BY <1>4, <1>6, MinFacts
  <2> DEFINE m == K!Min(G)
  <2>2. m \in 1..Len(items) /\ K!Less(x, items[m]) /\ m \in 1..(Len(items) + 1)
    BY <2>1, <1>1 DEF G
  <2>3. r = K!InsertAt(items, m, x)
    BY <1>2, <1>6, <2>2
  <2>4. \A j \in 1..(m - 1) : j \in 1..Len(items) /\ ~K!Less(x, items[j])
    BY <2>1, <2>2, <1>1 DEF G
  <2> HIDE DEF m
  <2>5. Inserted(items, r, m, x)
    <3>1. /\ K!InsertAt(items, m, x) \in Seq(Keys) /\ Len(K!InsertAt(items, m, x)) = Len(items) + 1
          /\ \A j \in 1..(Len(items) + 1) :
                K!InsertAt(items, m, x)[j] = IF j < m THEN items[j] ELSE IF j = m THEN x ELSE items[j - 1]
      BY <2>2, InsertAtFacts
    <3> QED BY <3>1, <2>2, <2>3 DEF Inserted
  <2>6. ordered /\ x \notin K!Range(items) => \A j \in 1..(m - 1) : items[j] < x
    BY <2>4, <1>1, <1>3 DEF K!Less
  <2>7. Increasing(items) => \A j \in m..Len(items) : x < items[j]
    <3> SUFFICES ASSUME Increasing(items), NEW j \in m..Len(items) PROVE x < items[j]
      OBVIOUS
    <3>1. x < items[m] /\ j \in 1..Len(items)
      BY <2>2, <1>1 DEF K!Less
    <3>2. j = m \/ items[m] < items[j]
      BY <2>2, <3>1, <1>1 DEF Increasing
    <3> QED BY <3>1, <3>2, <2>2, <1>1
  <2> QED BY <2>2, <2>5, <2>6, <2>7 DEF r
<1> QED BY <1>5, <1>6

\* In a sequence in order the elements smaller than k come first.
LEMMA SmallerFirst ==
    ASSUME NEW s \in Seq(Keys), Increasing(s), NEW k \in Keys
    PROVE  \E q \in 0..Len(s) : /\ \A j \in 1..q : s[j] < k
                                /\ \A j \in (q + 1)..Len(s) : ~(s[j] < k)
                                /\ \A j \in (q + 2)..Len(s) : k < s[j]
<1> DEFINE D == {q \in 0..Len(s) : \A j \in (q + 1)..Len(s) : ~(s[j] < k)}
<1>1. Len(s) \in Nat /\ (\A j \in 1..Len(s) : s[j] \in Int) /\ k \in Int
  BY LenProperties, ElementOfSeq, LibraryAssumption
<1>2. Len(s) \in D /\ D \in SUBSET Nat
  BY <1>1
<1>3. PICK q \in D : \A p \in D : q <= p
  BY <1>2, LeastNumber
<1>4. q \in 0..Len(s) /\ \A j \in (q + 1)..Len(s) : ~(s[j] < k)
  BY <1>3
<1>5. CASE q = 0
  <2>1. \A j \in 2..Len(s) : k < s[j]
    <3> TAKE j \in 2..Len(s)
    <3>1. 1 \in 1..Len(s) /\ j \in 1..Len(s) /\ s[1] < s[j] /\ ~(s[1] < k)
      BY <1>1, <1>4, <1>5 DEF Increasing
    <3> QED BY <3>1, <1>1
  <2> QED BY <1>4, <1>5, <2>1
<1>6. CASE q # 0
  <2>0. q - 1 \in 0..Len(s) /\ (q - 1) + 1 = q
    BY <1>1, <1>4, <1>6
  <2>1. q - 1 \notin D
    <3> HIDE DEF D
    <3>1. q - 1 \in D => q <= q - 1
      BY <1>3
    <3> QED BY <3>1, <1>4
  <2>2. PICK j \in q..Len(s) : s[j] < k
    BY <2>0, <2>1
  <2>3. j = q
    BY <2>2, <1>4, <1>1
  <2>4. \A i \in 1..q : s[i] < k
    <3> TAKE i \in 1..q
    <3>1. i \in 1..Len(s) /\ q \in 1..Len(s) /\ (i = q \/ i < q) /\ s[q] < k
      BY <1>1, <1>4, <1>6, <2>2, <2>3
    <3>2. i < q => s[i] < s[q]
      BY <3>1 DEF Increasing
    <3> QED BY <3>1, <3>2, <1>1
  <2>5. \A i \in (q + 2)..Len(s) : k < s[i]
    <3> TAKE i \in (q + 2)..Len(s)
    <3>1. i \in 1..Len(s) /\ q + 1 \in 1..Len(s) /\ q + 1 < i /\ ~(s[q + 1] < k)
      BY <1>1, <1>4, <1>6
    <3>2. s[q + 1] < s[i]
      BY <3>1 DEF Increasing
    <3> QED BY <3>1, <3>2, <1>1
  <2> QED BY <1>4, <2>4, <2>5
<1> QED BY <1>5, <1>6

\* What bisection between places lo + 1 and hi answers, when the elements
\* smaller than the key are the first q and the key is next to them or nowhere.
Split(q, here, lo, hi) ==
    IF lo >= hi THEN [at |-> lo + 1, found |-> FALSE]
    ELSE IF here /\ lo <= q /\ q < hi THEN [at |-> q + 1, found |-> TRUE]
    ELSE [at |-> IF q < lo THEN lo + 1 ELSE IF q > hi THEN hi + 1 ELSE q + 1, found |-> FALSE]

\* One step of the bisection keeps the answer.
LEMMA SplitStep ==
    ASSUME NEW q \in Nat, NEW here \in BOOLEAN, NEW lo \in Nat, NEW hi \in Nat, NEW mid \in lo..(hi - 1)
    PROVE  /\ mid < q => Split(q, here, lo, hi) = Split(q, here, mid + 1, hi)
           /\ ~(mid < q) /\ ~(mid = q /\ here) => Split(q, here, lo, hi) = Split(q, here, lo, mid)
           /\ mid = q /\ here => Split(q, here, lo, hi) = [at |-> mid + 1, found |-> TRUE]
<1>1. ASSUME mid < q PROVE Split(q, here, lo, hi) = Split(q, here, mid + 1, hi)
  <2>1. CASE mid + 1 >= hi
    <3>1. mid + 1 = hi /\ ~(lo >= hi) /\ ~(q < hi) /\ ~(q < lo) /\ (q > hi \/ q = hi)
      BY <1>1, <2>1
    <3> QED BY <3>1, <2>1 DEF Split
  <2>2. CASE ~(mid + 1 >= hi)
    <3>1. ~(lo >= hi) /\ lo <= q /\ mid + 1 <= q /\ ~(q < lo) /\ ~(q < mid + 1)
      BY <1>1, <2>2
    <3> QED BY <3>1, <2>2 DEF Split
  <2> QED BY <2>1, <2>2
<1>2. ASSUME ~(mid < q), ~(mid = q /\ here) PROVE Split(q, here, lo, hi) = Split(q, here, lo, mid)
  <2>1. ~(lo >= hi) /\ q <= mid /\ q < hi /\ ~(q > hi) /\ ~(q > mid) /\ lo <= mid
    BY <1>2
  <2>2. CASE lo >= mid
    <3>1. lo = mid
      BY <2>1, <2>2
    <3>2. ~(here /\ lo <= q)
      BY <1>2, <2>1, <3>1
    <3>3. q < lo \/ q = lo
      BY <2>1, <3>1
    <3> QED BY <2>1, <2>2, <3>2, <3>3 DEF Split
  <2>3. CASE ~(lo >= mid)
    <3>1. here => q < mid
      BY <1>2, <2>1
    <3> QED BY <2>1, <2>3, <3>1 DEF Split
  <2> QED BY <2>2, <2>3
<1>3. ASSUME mid = q, here PROVE Split(q, here, lo, hi) = [at |-> mid + 1, found |-> TRUE]
  <2>1. ~(lo >= hi) /\ lo <= q /\ q < hi
    BY <1>3
  <2> QED BY <2>1, <1>3 DEF Split
<1> QED BY <1>1, <1>2, <1>3

\* Bisection finds a key, or the place it is to be put in.
LEMMA BisectionFinds ==
    ASSUME items \in Seq(Keys), Increasing(items), NEW k \in Keys
    PROVE  \E q \in 0..Len(items) :
              /\ \A j \in 1..q : items[j] < k
              /\ \A j \in (q + 2)..Len(items) : k < items[j]
              /\ K!Find(k).at = q + 1
              /\ K!Find(k).found \in BOOLEAN
              /\ K!Find(k).found => q + 1 \in 1..Len(items) /\ items[q + 1] = k
              /\ ~K!Find(k).found => \A j \in (q + 1)..Len(items) : k < items[j]
<1>1. /\ Len(items) \in Nat /\ k \in Int
      /\ \A j \in 1..Len(items) : items[j] \in Int
  BY LenProperties, ElementOfSeq, LibraryAssumption
<1>2. PICK q \in 0..Len(items) : /\ \A j \in 1..q : items[j] < k
                                 /\ \A j \in (q + 1)..Len(items) : ~(items[j] < k)
                                 /\ \A j \in (q + 2)..Len(items) : k < items[j]
  BY SmallerFirst
<1> DEFINE n == Len(items)
           R == (0..n) \X (0..n)
           here == q + 1 \in 1..n /\ items[q + 1] = k
           Halved(f) == [r \in R |->
             LET lo == r[1] hi == r[2] mid == (lo + hi) \div 2
             IN IF lo >= hi THEN [at |-> lo + 1, found |-> FALSE]
                ELSE IF items[mid + 1] = k THEN [at |-> mid + 1, found |-> TRUE]
                ELSE IF items[mid + 1] < k THEN f[<<mid + 1, hi>>]
                ELSE f[<<lo, mid>>]]
           g == [r \in R |-> Split(q, here, r[1], r[2])]
           find == CHOOSE f : f = Halved(f)
<1>3. ASSUME NEW r \in R, r[1] < r[2]
      PROVE  LET mid == (r[1] + r[2]) \div 2
             IN /\ mid \in r[1]..(r[2] - 1) /\ mid + 1 \in 1..n
                /\ <<mid + 1, r[2]>> \in R /\ <<r[1], mid>> \in R
                /\ items[mid + 1] = k <=> mid = q /\ here
                /\ items[mid + 1] < k <=> mid < q
  <2> DEFINE mid == (r[1] + r[2]) \div 2
  <2>1. r[1] \in 0..n /\ r[2] \in 0..n
    OBVIOUS
  <2>2. mid \in r[1]..(r[2] - 1) /\ mid + 1 \in 1..n
    BY <2>1, <1>1, <1>3
  <2> HIDE DEF mid
  <2>3. <<mid + 1, r[2]>> \in R /\ <<r[1], mid>> \in R
    BY <2>1, <2>2, <1>1
  <2>4. items[mid + 1] < k <=> mid < q
    <3>1. mid < q => mid + 1 \in 1..q
      BY <2>1, <2>2, <1>1
    <3>2. ~(mid < q) => mid + 1 \in (q + 1)..n
      BY <2>1, <2>2, <1>1
    <3> QED BY <3>1, <3>2, <1>2
  <2>5. items[mid + 1] = k <=> mid = q /\ here
    <3>1. mid < q => items[mid + 1] < k
      BY <2>4
    <3>2. mid > q => k < items[mid + 1]
      <4>1. mid > q => mid + 1 \in (q + 2)..n
        BY <2>1, <2>2, <1>1
      <4> QED BY <4>1, <1>2
    <3> QED BY <3>1, <3>2, <2>1, <2>2, <1>1
  <2> QED BY <2>2, <2>3, <2>4, <2>5 DEF mid
<1>4. g = Halved(g)
  <2>1. ASSUME NEW r \in R PROVE g[r] = Halved(g)[r]
    <3> DEFINE lo == r[1]
               hi == r[2]
               mid == (lo + hi) \div 2
    <3>0. lo \in 0..n /\ hi \in 0..n
      OBVIOUS
    <3>1. CASE lo >= hi
      BY <3>1 DEF Split
    <3>2. CASE ~(lo >= hi)
      <4>0. lo < hi
        BY <3>0, <3>2, <1>1
      <4>1. /\ mid \in lo..(hi - 1) /\ mid + 1 \in 1..n
            /\ <<mid + 1, hi>> \in R /\ <<lo, mid>> \in R
            /\ items[mid + 1] = k <=> mid = q /\ here
            /\ items[mid + 1] < k <=> mid < q
        BY <1>3, <4>0
      <4>2. Halved(g)[r] = IF items[mid + 1] = k THEN [at |-> mid + 1, found |-> TRUE]
                         ELSE IF items[mid + 1] < k THEN g[<<mid + 1, hi>>]
                         ELSE g[<<lo, mid>>]
        BY <3>2
      <4>3. g[r] = Split(q, here, lo, hi)
        OBVIOUS
      <4>4. g[<<mid + 1, hi>>] = Split(q, here, mid + 1, hi) /\ g[<<lo, mid>>] = Split(q, here, lo, mid)
        BY <4>1
      <4> HIDE DEF g, Halved
      <4>5. /\ mid < q => Split(q, here, lo, hi) = Split(q, here, mid + 1, hi)
            /\ ~(mid < q) /\ ~(mid = q /\ here) => Split(q, here, lo, hi) = Split(q, here, lo, mid)
            /\ mid = q /\ here => Split(q, here, lo, hi) = [at |-> mid + 1, found |-> TRUE]
        <5>1. q \in Nat /\ lo \in Nat /\ hi \in Nat /\ here \in BOOLEAN
          BY <3>0, <1>1
        <5> HIDE DEF mid, here, lo, hi
        <5> QED BY <5>1, <4>1, SplitStep, SMTT(30)
      <4> HIDE DEF mid, here
      <4>6. CASE items[mid + 1] = k
        BY <4>1, <4>2, <4>3, <4>5, <4>6
      <4>7. CASE items[mid + 1] # k /\ items[mid + 1] < k
        BY <4>1, <4>2, <4>3, <4>4, <4>5, <4>7
      <4>8. CASE items[mid + 1] # k /\ ~(items[mid + 1] < k)
        <5>1. ~(mid < q) /\ ~(mid = q /\ here)
          BY <4>1, <4>8
        <5> QED BY <5>1, <4>2, <4>3, <4>4, <4>5, <4>8
      <4> QED BY <4>6, <4>7, <4>8
    <3> QED BY <3>1, <3>2
  <2>2. g = [r \in R |-> Halved(g)[r]]
    BY <2>1, ZenonT(30)
  <2> QED BY <2>2
<1>5. find = Halved(find)
  BY <1>4, ZenonT(30)
<1>6. \A r \in R : find[r] = g[r]
  <2> DEFINE gap(r) == IF r[1] >= r[2] THEN 0 ELSE r[2] - r[1]
             D == {gap(r) : r \in {z \in R : find[z] # g[z]}}
  <2> SUFFICES ASSUME NEW z \in R, find[z] # g[z] PROVE FALSE
    OBVIOUS
  <2> HIDE DEF find, g
  <2>1. D \in SUBSET Nat /\ D # {}
    BY <1>1
  <2>2. PICK d \in D : \A e \in D : d <= e
    BY <2>1, LeastNumber
  <2>3. PICK r \in R : find[r] # g[r] /\ d = gap(r)
    BY <2>2
  <2>4. \A s \in R : gap(s) < gap(r) => find[s] = g[s]
    <3> SUFFICES ASSUME NEW s \in R, gap(s) < gap(r), find[s] # g[s] PROVE FALSE
      OBVIOUS
    <3>1. gap(s) \in D
      OBVIOUS
    <3>2. s[1] \in Nat /\ s[2] \in Nat /\ r[1] \in Nat /\ r[2] \in Nat
      BY <1>1
    <3>3. gap(s) \in Nat /\ gap(r) \in Nat
      BY <3>2
    <3>4. gap(r) <= gap(s)
      BY <3>1, <2>2, <2>3
    <3> HIDE DEF gap
    <3> QED BY <3>3, <3>4
  <2>5. find[r] = Halved(find)[r] /\ g[r] = Halved(g)[r]
    BY <1>4, <1>5, ZenonT(30)
  <2>6. CASE r[1] >= r[2]
    BY <2>3, <2>5, <2>6
  <2>7. CASE ~(r[1] >= r[2])
    <3> DEFINE mid == (r[1] + r[2]) \div 2
    <3>0. r[1] < r[2] /\ r[1] \in 0..n /\ r[2] \in 0..n
      BY <2>7, <1>1
    <3>1. mid \in r[1]..(r[2] - 1) /\ <<mid + 1, r[2]>> \in R /\ <<r[1], mid>> \in R
      BY <1>3, <3>0
    <3> HIDE DEF mid
    <3>2. gap(<<mid + 1, r[2]>>) < gap(r) /\ gap(<<r[1], mid>>) < gap(r)
      BY <3>0, <3>1, <1>1
    <3>3. find[<<mid + 1, r[2]>>] = g[<<mid + 1, r[2]>>] /\ find[<<r[1], mid>>] = g[<<r[1], mid>>]
      BY <3>1, <3>2, <2>4
    <3> QED BY <2>3, <2>5, <2>7, <3>3 DEF mid
  <2> QED BY <2>6, <2>7
<1>7. K!Find(k) = find[<<0, n>>]
  BY DEF K!Find
<1>8. <<0, n>> \in R /\ g[<<0, n>>] = Split(q, here, 0, n)
  BY <1>1
<1>9. K!Find(k) = Split(q, here, 0, n)
  BY <1>6, <1>7, <1>8
<1> HIDE DEF find, g
<1>10. K!Find(k).at = q + 1 /\ K!Find(k).found = here
  <2>1. here \in BOOLEAN /\ q \in 0..n /\ n \in Nat
    BY <1>1
  <2>2. CASE here
    <3>1. q < n /\ 0 <= q /\ ~(0 >= n)
      BY <2>1, <2>2
    <3> HIDE DEF here
    <3> QED BY <3>1, <2>2, <2>1, <1>9 DEF Split
  <2>3. CASE ~here
    <3>1. ~(q < 0) /\ ~(q > n) /\ (0 >= n => q = 0)
      BY <2>1
    <3> HIDE DEF here
    <3>2. here = FALSE
      BY <2>1, <2>3
    <3>3. Split(q, here, 0, n) = [at |-> q + 1, found |-> FALSE]
      BY <3>1, <2>3, <2>1 DEF Split
    <3>4. K!Find(k) = [at |-> q + 1, found |-> FALSE]
      BY <3>3, <1>9
    <3> HIDE DEF n
    <3>5. K!Find(k).at = q + 1 /\ K!Find(k).found = FALSE
      BY <3>4
    <3> QED BY <3>2, <3>5
  <2> QED BY <2>2, <2>3
<1>11. ~here => \A j \in (q + 1)..Len(items) : k < items[j]
  <2> SUFFICES ASSUME ~here, NEW j \in (q + 1)..Len(items) PROVE k < items[j]
    OBVIOUS
  <2>1. j = q + 1 \/ j \in (q + 2)..Len(items)
    BY <1>1, <1>2
  <2>2. j = q + 1 => j \in 1..n /\ items[j] # k /\ ~(items[j] < k)
    BY <1>1, <1>2
  <2>3. j = q + 1 => k < items[j]
    BY <2>2, <1>1
  <2> QED BY <2>1, <2>3, <1>2
<1> QED BY <1>2, <1>10, <1>11

\* The inductive invariant of what a collection stores.
Once == K!SetKinds \union K!DictKinds \union {"SortedList"}
\* The inductive invariant of the elements: those that are in order are, those that
\* are unique are, and there is a value for each key.
StoreInv ==
    /\ kind \in K!Kinds /\ ordered \in BOOLEAN
    /\ items \in Seq(Keys) /\ Len(items) <= MaxItems
    /\ kind \in Once => Distinct(items)
    /\ kind \in K!DictKinds => vals \in [K!Range(items) -> Data]
    /\ kind = "SortedList" => /\ vals \in Seq(Data) /\ Len(vals) = Len(items)
                              /\ ~ordered => Len(items) <= 1
    /\ ordered /\ kind \in {"SortedSet", "SortedDictionary", "SortedList"} => Increasing(items)

\* The map that keys and values beside each other stand for.
MapOf(s, w) == [k \in K!Range(s) |-> w[PositionIn(s, k)]]

\* What a collection promises to be, by its kind.
LEMMA Families ==
    /\ kind \in K!ListKinds => K!Family = "list" /\ K!Content = items
    /\ kind \in K!SetKinds => K!Family = "set" /\ K!Content = K!Range(items)
    /\ kind \in K!DictKinds => K!Family = "map" /\ K!Content = vals
    /\ kind = "SortedList" => K!Family = "map" /\ K!Content = MapOf(items, vals)
    /\ kind = "Stack" => K!Family = "stack" /\ K!Content = items
    /\ kind \in {"Queue", "ConcurrentQueue"} => K!Family = "queue" /\ K!Content = items
<1>1. K!Family = CASE kind \in K!SetKinds -> "set"
            [] kind \in K!DictKinds \union {"SortedList"} -> "map"
            [] kind = "Stack" -> "stack"
            [] kind \in {"Queue", "ConcurrentQueue"} -> "queue"
            [] OTHER -> "list"
  BY DEF K!Family
<1>2. /\ kind \in K!ListKinds => K!Family = "list"
      /\ kind \in K!SetKinds => K!Family = "set"
      /\ kind \in K!DictKinds => K!Family = "map"
      /\ kind = "SortedList" => K!Family = "map"
      /\ kind = "Stack" => K!Family = "stack"
      /\ kind \in {"Queue", "ConcurrentQueue"} => K!Family = "queue"
  BY <1>1 DEF K!SetKinds, K!DictKinds, K!ListKinds
<1>3. [k \in K!Range(items) |-> vals[K!Position(k)]] = MapOf(items, vals)
  BY PositionIs DEF MapOf
<1> DEFINE m == MapOf(items, vals)
<1>4. K!Content = CASE K!Family = "set" -> K!Range(items)
             [] kind = "SortedList" -> m
             [] kind \in K!DictKinds -> vals
             [] OTHER -> items
  BY <1>3 DEF K!Content
<1>5. kind \in K!ListKinds \union K!SetKinds \union K!DictKinds => kind # "SortedList"
  BY DEF K!SetKinds, K!DictKinds, K!ListKinds
<1> HIDE DEF m
<1>6. kind \in K!ListKinds => K!Content = items
  BY <1>2, <1>4, <1>5
<1>7. kind \in K!SetKinds => K!Content = K!Range(items)
  BY <1>2, <1>4
<1>8. kind \in K!DictKinds => K!Content = vals
  BY <1>2, <1>4, <1>5
<1>9. kind = "SortedList" => K!Content = MapOf(items, vals)
  BY <1>2, <1>4, <1>5 DEF m
<1>10. kind \in {"Stack", "Queue", "ConcurrentQueue"} => K!Content = items
  BY <1>2, <1>4
<1> QED BY <1>2, <1>6, <1>7, <1>8, <1>9, <1>10

\* The same after a step.
LEMMA FamiliesNext ==
    /\ kind' \in K!ListKinds => K!Family' = "list" /\ K!Content' = items'
    /\ kind' \in K!SetKinds => K!Family' = "set" /\ K!Content' = K!Range(items')
    /\ kind' \in K!DictKinds => K!Family' = "map" /\ K!Content' = vals'
    /\ kind' = "SortedList" => K!Family' = "map" /\ K!Content' = MapOf(items', vals')
    /\ kind' = "Stack" => K!Family' = "stack" /\ K!Content' = items'
    /\ kind' \in {"Queue", "ConcurrentQueue"} => K!Family' = "queue" /\ K!Content' = items'
<1>1. K!Family' = CASE kind' \in K!SetKinds -> "set"
            [] kind' \in K!DictKinds \union {"SortedList"} -> "map"
            [] kind' = "Stack" -> "stack"
            [] kind' \in {"Queue", "ConcurrentQueue"} -> "queue"
            [] OTHER -> "list"
  BY DEF K!Family
<1>2. /\ kind' \in K!ListKinds => K!Family' = "list"
      /\ kind' \in K!SetKinds => K!Family' = "set"
      /\ kind' \in K!DictKinds => K!Family' = "map"
      /\ kind' = "SortedList" => K!Family' = "map"
      /\ kind' = "Stack" => K!Family' = "stack"
      /\ kind' \in {"Queue", "ConcurrentQueue"} => K!Family' = "queue"
  BY <1>1 DEF K!SetKinds, K!DictKinds, K!ListKinds
<1>3. [k \in K!Range(items') |-> vals'[K!Position(k)']] = MapOf(items', vals')
  BY PositionIsNext DEF MapOf
<1> DEFINE m == MapOf(items', vals')
<1>4. K!Content' = CASE K!Family' = "set" -> K!Range(items')
             [] kind' = "SortedList" -> m
             [] kind' \in K!DictKinds -> vals'
             [] OTHER -> items'
  BY <1>3 DEF K!Content
<1>5. kind' \in K!ListKinds \union K!SetKinds \union K!DictKinds => kind' # "SortedList"
  BY DEF K!SetKinds, K!DictKinds, K!ListKinds
<1> HIDE DEF m
<1>6. kind' \in K!ListKinds => K!Content' = items'
  BY <1>2, <1>4, <1>5
<1>7. kind' \in K!SetKinds => K!Content' = K!Range(items')
  BY <1>2, <1>4
<1>8. kind' \in K!DictKinds => K!Content' = vals'
  BY <1>2, <1>4, <1>5
<1>9. kind' = "SortedList" => K!Content' = MapOf(items', vals')
  BY <1>2, <1>4, <1>5 DEF m
<1>10. kind' \in {"Stack", "Queue", "ConcurrentQueue"} => K!Content' = items'
  BY <1>2, <1>4
<1> QED BY <1>2, <1>6, <1>7, <1>8, <1>9, <1>10

\* The elements of a list, a queue or a stack may be any.
LEMMA PlainStore ==
    ASSUME StoreInv, kind \notin Once, kind' = kind, ordered' = ordered,
           items' \in Seq(Keys), Len(items') <= MaxItems
    PROVE  StoreInv'
BY DEF StoreInv, Once, K!SetKinds, K!DictKinds

\* An element put behind the others.
LEMMA AppendedFacts ==
    ASSUME items \in Seq(Keys), NEW x \in Keys
    PROVE  /\ Append(items, x) = items \o <<x>> /\ Append(items, x) \in Seq(Keys)
           /\ Inserted(items, Append(items, x), Len(items) + 1, x)
           /\ Len(Append(items, x)) = Len(items) + 1
<1>1. Len(items) \in Nat /\ items \in [1..Len(items) -> Keys]
  BY LenProperties
<1>2. Append(items, x) \in Seq(Keys) /\ Len(Append(items, x)) = Len(items) + 1
  BY <1>1
<1>3. \A j \in 1..(Len(items) + 1) : Append(items, x)[j] = IF j <= Len(items) THEN items[j] ELSE x
  BY <1>1
<1>4. Append(items, x) = items \o <<x>>
  BY AppendIsConcat
<1>5. Inserted(items, Append(items, x), Len(items) + 1, x)
  BY <1>1, <1>2, <1>3 DEF Inserted
<1> QED BY <1>2, <1>4, <1>5

\* The operations of lists do what lists promise.
LEMMA ListStep ==
    ASSUME StoreInv, kind \in K!ListKinds,
           \/ \E x \in Keys : K!ListAdd(x) \/ K!RemoveFirstEqual(x)
           \/ \E i \in 0..MaxItems : K!ListRemoveAt(i)
           \/ \E i \in 0..MaxItems, x \in Keys : K!ListSetItem(i, x) \/ K!ListInsert(i, x)
           \/ kind = "List" /\ (K!ListAddSelf \/ K!ListReverse)
    PROVE  StoreInv' /\ K!Promise!CNext
<1>0. /\ kind \notin Once /\ K!Family = "list" /\ K!Content = items
      /\ kind' = kind => K!Family' = "list" /\ K!Content' = items'
  BY Families, FamiliesNext DEF Once, K!ListKinds, K!SetKinds, K!DictKinds
<1>1. /\ items \in Seq(Keys) /\ Len(items) \in Nat /\ Len(items) <= MaxItems /\ MaxItems \in Nat
      /\ items \in [1..Len(items) -> Keys] /\ DOMAIN items = 1..Len(items)
  BY LenProperties, LibraryAssumption DEF StoreInv
<1>2. ASSUME kind' = kind, ordered' = ordered, items' \in Seq(Keys), Len(items') <= MaxItems, K!Promise!ListOp
      PROVE  StoreInv' /\ K!Promise!CNext
  <2>1. StoreInv'
    BY <1>2, <1>0, PlainStore
  <2> QED BY <2>1, <1>2, <1>0 DEF K!Promise!CNext
<1>3. ASSUME K!Changes PROVE kind' = kind /\ ordered' = ordered /\ K!Content' = items'
  BY <1>3, <1>0 DEF K!Changes
<1>4. ASSUME K!Leaves
      PROVE  kind' = kind /\ ordered' = ordered /\ items' = items /\ K!Content' = items
  BY <1>4, <1>0 DEF K!Leaves, K!coll
<1>5. ASSUME NEW x \in Keys, K!ListAdd(x) PROVE StoreInv' /\ K!Promise!CNext
  <2>1. /\ K!Changes /\ items' = Append(items, x) /\ Len(items) < MaxItems
        /\ call' = [op |-> "Add", arg |-> <<x>>, out |-> "done"]
    BY <1>5 DEF K!ListAdd, K!HasRoom, K!Answer
  <2>2. items' = items \o <<x>> /\ items' \in Seq(Keys) /\ Len(items') <= MaxItems
    BY <2>1, <1>1, AppendedFacts
  <2>3. K!Promise!Did("Add", <<x>>, "done")
    BY <2>1 DEF K!Promise!Did
  <2>4. K!Promise!ListOp
    BY <2>2, <2>3, <2>1, <1>0, <1>3 DEF K!Promise!ListOp
  <2> QED BY <2>1, <2>2, <2>4, <1>2, <1>3
<1>6. ASSUME NEW i \in 1..Len(items), NEW arg, NEW op, NEW out,
             items' = K!RemoveAt(items, i), K!Changes, K!Answer(op, arg, out),
             \/ op = "RemoveAt" /\ arg = <<i>> /\ out = "done"
             \/ /\ op = "Remove" /\ arg = <<items[i]>> /\ out = "true"
                /\ \A j \in 1..(i - 1) : items[j] # items[i]
      PROVE  StoreInv' /\ K!Promise!CNext
  <2>1. /\ items' \in Seq(Keys) /\ Len(items') = Len(items) - 1
        /\ \A j \in 1..(Len(items) - 1) : items'[j] = IF j < i THEN items[j] ELSE items[j + 1]
    BY <1>6, <1>1, RemoveAtFacts
  <2>2. \/ K!Promise!Did("RemoveAt", <<i>>, "done")
        \/ /\ K!Promise!Did("Remove", <<items[i]>>, "true")
           /\ \A j \in 1..(i - 1) : items[j] # items[i]
    BY <1>6 DEF K!Promise!Did, K!Answer
  <2>3. Len(items') <= MaxItems
    BY <2>1, <1>1
  <2>4. \A j \in 1..(Len(items) - 1) : items'[j] = items[IF j < i THEN j ELSE j + 1]
    BY <2>1
  <2>5. K!Promise!ListOp
    <3>1. /\ \/ K!Promise!Did("RemoveAt", <<i>>, "done")
             \/ /\ K!Promise!Did("Remove", <<K!Content[i]>>, "true")
                /\ \A j \in 1..(i - 1) : K!Content[j] # K!Content[i]
          /\ Len(K!Content') = Len(K!Content) - 1
          /\ \A j \in 1..(Len(K!Content) - 1) : K!Content'[j] = K!Content[IF j < i THEN j ELSE j + 1]
      BY <2>1, <2>2, <2>4, <1>0, <1>3, <1>6
    <3>2. i \in 1..Len(K!Content)
      BY <1>0
    <3> QED BY <3>1, <3>2 DEF K!Promise!ListOp
  <2> QED BY <1>2, <1>3, <1>6, <2>1, <2>3, <2>5
<1>7. ASSUME NEW x \in Keys, K!RemoveFirstEqual(x) PROVE StoreInv' /\ K!Promise!CNext
  <2>1. K!Position(x) = PositionIn(items, x)
    BY PositionIs
  <2>2. CASE PositionIn(items, x) = 0
    <3>1. K!Leaves /\ K!Answer("Remove", <<x>>, "false") /\ \A j \in 1..Len(items) : items[j] # x
      BY <1>7, <2>1, <2>2, <1>1, PositionFacts DEF K!RemoveFirstEqual
    <3>2. K!Promise!Did("Remove", <<x>>, "false")
      BY <3>1 DEF K!Answer, K!Promise!Did
    <3>3. K!Promise!ListOp
      BY <3>1, <3>2, <1>0, <1>4 DEF K!Promise!ListOp
    <3> QED BY <3>1, <3>3, <1>1, <1>2, <1>4
  <2>3. CASE PositionIn(items, x) # 0
    <3> DEFINE i == PositionIn(items, x)
    <3>1. i \in 1..Len(items) /\ items[i] = x /\ \A j \in 1..(i - 1) : items[j] # x
      BY <2>3, <1>1, PositionFacts
    <3>2. items' = K!RemoveAt(items, i) /\ K!Changes /\ K!Answer("Remove", <<x>>, "true")
      BY <1>7, <2>1, <2>3 DEF K!RemoveFirstEqual
    <3> HIDE DEF i
    <3> QED BY <3>1, <3>2, <1>6
  <2> QED BY <2>2, <2>3
<1>8. ASSUME NEW i \in 0..MaxItems, K!ListRemoveAt(i) PROVE StoreInv' /\ K!Promise!CNext
  <2>1. CASE i \in 1..Len(items)
    <3>1. items' = K!RemoveAt(items, i) /\ K!Changes /\ K!Answer("RemoveAt", <<i>>, "done")
      BY <1>8, <2>1 DEF K!ListRemoveAt
    <3> QED BY <2>1, <3>1, <1>6
  <2>2. CASE i \notin 1..Len(items)
    <3>1. K!Leaves /\ call' = [op |-> "RemoveAt", arg |-> <<i>>, out |-> "ArgumentOutOfRange"]
      BY <1>8, <2>2 DEF K!ListRemoveAt, K!Answer
    <3>2. K!Promise!ListOp
      BY <3>1, <2>2, <1>0, <1>4 DEF K!Promise!ListOp, K!Promise!Fails, K!Promise!Failures
    <3> QED BY <3>1, <3>2, <1>1, <1>2, <1>4
  <2> QED BY <2>1, <2>2
<1>9. ASSUME NEW i \in 0..MaxItems, NEW x \in Keys, K!ListSetItem(i, x) PROVE StoreInv' /\ K!Promise!CNext
  <2>1. CASE i \in 1..Len(items)
    <3>1. /\ items' = [items EXCEPT ![i] = x] /\ K!Changes
          /\ call' = [op |-> "SetItem", arg |-> <<i, x>>, out |-> "done"]
      BY <1>9, <2>1 DEF K!ListSetItem, K!Answer
    <3>2. items' \in Seq(Keys) /\ Len(items') = Len(items)
      BY <3>1, <2>1, <1>1
    <3>3. K!Promise!Did("SetItem", <<i, x>>, "done")
      BY <3>1 DEF K!Promise!Did
    <3>4. K!Promise!ListOp
      BY <3>1, <3>3, <2>1, <1>0, <1>3 DEF K!Promise!ListOp
    <3> QED BY <3>1, <3>2, <3>4, <1>1, <1>2, <1>3
  <2>2. CASE i \notin 1..Len(items)
    <3>1. K!Leaves /\ call' = [op |-> "SetItem", arg |-> <<i, x>>, out |-> "ArgumentOutOfRange"]
      BY <1>9, <2>2 DEF K!ListSetItem, K!Answer
    <3>2. K!Promise!ListOp
      BY <3>1, <2>2, <1>0, <1>4 DEF K!Promise!ListOp, K!Promise!Fails, K!Promise!Failures
    <3> QED BY <3>1, <3>2, <1>1, <1>2, <1>4
  <2> QED BY <2>1, <2>2
<1>10. ASSUME NEW i \in 0..MaxItems, NEW x \in Keys, K!ListInsert(i, x) PROVE StoreInv' /\ K!Promise!CNext
  <2>1. CASE i \in 1..(Len(items) + 1)
    <3>1. /\ items' = K!InsertAt(items, i, x) /\ K!Changes /\ Len(items) < MaxItems
          /\ call' = [op |-> "Insert", arg |-> <<i, x>>, out |-> "done"]
      BY <1>10, <2>1 DEF K!ListInsert, K!Answer, K!HasRoom
    <3>2. Inserted(items, items', i, x)
      <4>1. /\ K!InsertAt(items, i, x) \in Seq(Keys) /\ Len(K!InsertAt(items, i, x)) = Len(items) + 1
            /\ \A j \in 1..(Len(items) + 1) :
                  K!InsertAt(items, i, x)[j] = IF j < i THEN items[j] ELSE IF j = i THEN x ELSE items[j - 1]
        BY <2>1, <1>1, InsertAtFacts
      <4> QED BY <4>1, <3>1, <2>1, SMTT(30) DEF Inserted
    <3>3. /\ items' \in Seq(Keys) /\ Len(items') = Len(items) + 1 /\ items'[i] = x
          /\ \A j \in 1..Len(items) : items'[IF j < i THEN j ELSE j + 1] = items[j]
      BY <3>2, <1>1, InsertedFacts DEF Inserted
    <3>4. K!Promise!Did("Insert", <<i, x>>, "done")
      BY <3>1 DEF K!Promise!Did
    <3>5. K!Promise!ListOp
      <4>1. /\ K!Promise!Did("Insert", <<i, x>>, "done")
            /\ Len(K!Content') = Len(K!Content) + 1 /\ K!Content'[i] = x
            /\ \A j \in 1..Len(K!Content) : K!Content[j] = K!Content'[IF j < i THEN j ELSE j + 1]
        BY <3>1, <3>3, <3>4, <1>0, <1>3
      <4>2. i \in 1..(Len(K!Content) + 1)
        BY <2>1, <1>0
      <4> QED BY <4>1, <4>2 DEF K!Promise!ListOp
    <3>6. Len(items') <= MaxItems
      BY <3>1, <3>3, <1>1
    <3> QED BY <3>1, <3>3, <3>5, <3>6, <1>2, <1>3
  <2>2. CASE i \notin 1..(Len(items) + 1)
    <3>1. K!Leaves /\ call' = [op |-> "Insert", arg |-> <<i, x>>, out |-> "ArgumentOutOfRange"]
      BY <1>10, <2>2 DEF K!ListInsert, K!Answer
    <3>2. i \notin 1..Len(items)
      BY <2>2, <1>1
    <3>3. K!Promise!ListOp
      BY <3>1, <3>2, <1>0, <1>4 DEF K!Promise!ListOp, K!Promise!Fails, K!Promise!Failures
    <3> QED BY <3>1, <3>3, <1>1, <1>2, <1>4
  <2> QED BY <2>1, <2>2
<1>11. ASSUME K!ListAddSelf PROVE StoreInv' /\ K!Promise!CNext
  <2>1. /\ K!Changes /\ items' = items \o items /\ 2 * Len(items) <= MaxItems
        /\ call' = [op |-> "AddSelf", arg |-> <<>>, out |-> "done"]
    BY <1>11 DEF K!ListAddSelf, K!Answer
  <2>2. items' \in Seq(Keys) /\ Len(items') = Len(items) + Len(items)
    BY <2>1, <1>1, ConcatProperties
  <2>3. K!Promise!Did("AddSelf", <<>>, "done")
    BY <2>1 DEF K!Promise!Did
  <2>4. K!Promise!ListOp
    BY <2>1, <2>3, <1>0, <1>3 DEF K!Promise!ListOp
  <2>5. Len(items') <= MaxItems
    BY <2>1, <2>2, <1>1
  <2> QED BY <2>1, <2>2, <2>4, <2>5, <1>2, <1>3
<1>12. ASSUME K!ListReverse PROVE StoreInv' /\ K!Promise!CNext
  <2>1. /\ K!Changes /\ items' = [i \in 1..Len(items) |-> items[Len(items) - i + 1]]
        /\ call' = [op |-> "Reverse", arg |-> <<>>, out |-> "done"]
    BY <1>12, <1>1 DEF K!ListReverse, K!Answer
  <2>2. items' \in Seq(Keys) /\ Len(items') = Len(items)
    BY <2>1, <1>1
  <2>3. \A i \in 1..Len(items) : items'[i] = items[Len(items) + 1 - i]
    BY <2>1, <1>1
  <2>4. K!Promise!Did("Reverse", <<>>, "done")
    BY <2>1 DEF K!Promise!Did
  <2>5. K!Promise!ListOp
    BY <2>1, <2>2, <2>3, <2>4, <1>0, <1>3 DEF K!Promise!ListOp
  <2> QED BY <2>1, <2>2, <2>5, <1>1, <1>2, <1>3
<1> QED BY <1>5, <1>7, <1>8, <1>9, <1>10, <1>11, <1>12

\* The operations of sets do what sets promise.
LEMMA SetStep ==
    ASSUME StoreInv, kind \in K!SetKinds, NEW x \in Keys, K!SetAdd(x) \/ K!RemoveFirstEqual(x)
    PROVE  StoreInv' /\ K!Promise!CNext
<1>0. /\ kind \in Once /\ K!Family = "set" /\ K!Content = K!Range(items)
      /\ kind' = kind => K!Family' = "set" /\ K!Content' = K!Range(items')
      /\ kind \notin K!DictKinds /\ kind # "SortedList" /\ kind # "SortedDictionary"
  BY Families, FamiliesNext DEF Once, K!SetKinds, K!DictKinds
<1>1. /\ items \in Seq(Keys) /\ Len(items) \in Nat /\ Len(items) <= MaxItems /\ MaxItems \in Nat
      /\ Distinct(items) /\ ordered \in BOOLEAN /\ kind \in K!Kinds
      /\ ordered /\ kind = "SortedSet" => Increasing(items)
  BY <1>0, LenProperties, LibraryAssumption DEF StoreInv
<1>2. ASSUME kind' = kind, ordered' = ordered, items' \in Seq(Keys), Len(items') <= MaxItems, Distinct(items'),
             ordered /\ kind = "SortedSet" => Increasing(items'), K!Promise!SetOp
      PROVE  StoreInv' /\ K!Promise!CNext
  <2>1. StoreInv'
    BY <1>2, <1>0, <1>1 DEF StoreInv
  <2> QED BY <2>1, <1>2, <1>0 DEF K!Promise!CNext
<1>3. ASSUME K!Changes PROVE kind' = kind /\ ordered' = ordered /\ K!Content' = K!Range(items')
  BY <1>3, <1>0 DEF K!Changes
<1>4. ASSUME K!Leaves
      PROVE  kind' = kind /\ ordered' = ordered /\ items' = items /\ K!Content' = K!Content
  BY <1>4, <1>0 DEF K!Leaves, K!coll
<1>5. K!Position(x) = PositionIn(items, x)
  BY PositionIs
<1>6. /\ PositionIn(items, x) = 0 => x \notin K!Content
      /\ PositionIn(items, x) # 0 => /\ x \in K!Content /\ PositionIn(items, x) \in 1..Len(items)
                                     /\ items[PositionIn(items, x)] = x
  BY <1>0, <1>1, PositionFacts
<1>7. CASE K!RemoveFirstEqual(x)
  <2>1. CASE PositionIn(items, x) = 0
    <3>1. K!Leaves /\ call' = [op |-> "Remove", arg |-> <<x>>, out |-> "false"]
      BY <1>7, <2>1, <1>5 DEF K!RemoveFirstEqual, K!Answer
    <3>2. K!Promise!SetOp
      BY <3>1, <2>1, <1>4, <1>6 DEF K!Promise!SetOp, K!Promise!Did
    <3> QED BY <3>1, <3>2, <1>1, <1>2, <1>4
  <2>2. CASE PositionIn(items, x) # 0
    <3> DEFINE i == PositionIn(items, x)
    <3>1. /\ items' = K!RemoveAt(items, i) /\ K!Changes
          /\ call' = [op |-> "Remove", arg |-> <<x>>, out |-> "true"]
      BY <1>7, <2>2, <1>5 DEF K!RemoveFirstEqual, K!Answer
    <3>2. i \in 1..Len(items) /\ items[i] = x
      BY <2>2, <1>6
    <3> HIDE DEF i
    <3>3. Removed(items, items', i)
      BY <3>1, <3>2, <1>1, RemoveAtFacts DEF Removed
    <3>4. Distinct(items') /\ K!Range(items') = K!Range(items) \ {x} /\ (Increasing(items) => Increasing(items'))
      BY <3>2, <3>3, <1>1, RemovedFacts
    <3>5. items' \in Seq(Keys) /\ Len(items') <= MaxItems
      BY <3>3, <1>1 DEF Removed
    <3>6. K!Promise!SetOp
      BY <3>1, <3>4, <2>2, <1>0, <1>3, <1>6 DEF K!Promise!SetOp, K!Promise!Did
    <3> QED BY <3>1, <3>4, <3>5, <3>6, <1>1, <1>2, <1>3
  <2> QED BY <2>1, <2>2
<1>8. CASE K!SetAdd(x)
  <2>1. CASE PositionIn(items, x) # 0
    <3>1. K!Leaves /\ call' = [op |-> "Add", arg |-> <<x>>, out |-> "false"]
      BY <1>8, <2>1, <1>5 DEF K!SetAdd, K!Answer
    <3>2. K!Promise!SetOp
      BY <3>1, <2>1, <1>4, <1>6 DEF K!Promise!SetOp, K!Promise!Did
    <3> QED BY <3>1, <3>2, <1>1, <1>2, <1>4
  <2>2. CASE PositionIn(items, x) = 0
    <3>1. /\ items' = IF kind = "SortedSet" THEN K!InsertBeforeGreater(x) ELSE Append(items, x)
          /\ K!Changes /\ Len(items) < MaxItems
          /\ call' = [op |-> "Add", arg |-> <<x>>, out |-> "true"]
      BY <1>8, <2>2, <1>5 DEF K!SetAdd, K!Answer, K!HasRoom
    <3>2. PICK i \in 1..(Len(items) + 1) :
            /\ Inserted(items, items', i, x)
            /\ ordered /\ kind = "SortedSet" =>
                 (\A j \in 1..(i - 1) : items[j] < x) /\ (\A j \in i..Len(items) : x < items[j])
      <4>1. CASE kind = "SortedSet"
        <5>1. x \notin K!Range(items)
          BY <2>2, <1>6, <1>0
        <5> QED BY <4>1, <3>1, <5>1, <1>1, InsertedInOrder
      <4>2. CASE kind # "SortedSet"
        <5>1. Len(items) + 1 \in 1..(Len(items) + 1)
          BY <1>1
        <5>2. Inserted(items, items', Len(items) + 1, x)
          BY <4>2, <3>1, <1>1, AppendedFacts
        <5> QED BY <4>2, <5>1, <5>2
      <4> QED BY <4>1, <4>2
    <3>3. x \notin K!Range(items)
      BY <2>2, <1>6, <1>0
    <3>4. /\ K!Range(items') = K!Range(items) \union {x} /\ Distinct(items')
          /\ ordered /\ kind = "SortedSet" => Increasing(items')
      BY <3>2, <3>3, <1>1, InsertedFacts
    <3>5. items' \in Seq(Keys) /\ Len(items') <= MaxItems
      BY <3>1, <3>2, <1>1 DEF Inserted
    <3>6. K!Promise!SetOp
      BY <3>1, <3>3, <3>4, <1>0, <1>3 DEF K!Promise!SetOp, K!Promise!Did
    <3> QED BY <3>1, <3>4, <3>5, <3>6, <1>2, <1>3
  <2> QED BY <2>1, <2>2
<1> QED BY <1>7, <1>8

\* The operations of queues and stacks do what they promise.
LEMMA EndsStep ==
    ASSUME StoreInv, kind \in {"Queue", "ConcurrentQueue", "Stack"},
           \/ \E x \in Keys : K!Enqueue(x)
           \/ kind # "Stack" /\ \E tries \in BOOLEAN : K!QueueTake(tries)
           \/ kind = "Stack" /\ \E tries \in BOOLEAN : K!StackTake(tries)
    PROVE  StoreInv' /\ K!Promise!CNext
<1>0. /\ kind \notin Once /\ K!Content = items
      /\ K!Family = IF kind = "Stack" THEN "stack" ELSE "queue"
      /\ kind' = kind => K!Family' = K!Family /\ K!Content' = items'
  BY Families, FamiliesNext DEF Once, K!SetKinds, K!DictKinds
<1>1. /\ items \in Seq(Keys) /\ Len(items) \in Nat /\ Len(items) <= MaxItems /\ MaxItems \in Nat
      /\ (items # <<>> => Len(items) >= 1)
  BY LenProperties, EmptySeq, LibraryAssumption DEF StoreInv
<1>2. ASSUME kind' = kind, ordered' = ordered, items' \in Seq(Keys), Len(items') <= MaxItems, K!Promise!EndsOp
      PROVE  StoreInv' /\ K!Promise!CNext
  <2>1. StoreInv'
    BY <1>2, <1>0, PlainStore
  <2> QED BY <2>1, <1>2, <1>0 DEF K!Promise!CNext
<1>3. ASSUME K!Changes PROVE kind' = kind /\ ordered' = ordered /\ K!Content' = items'
  BY <1>3, <1>0 DEF K!Changes
<1>4. ASSUME K!Leaves
      PROVE  kind' = kind /\ ordered' = ordered /\ items' = items /\ K!Content' = items
  BY <1>4, <1>0 DEF K!Leaves, K!coll
<1>5. ASSUME NEW x \in Keys, K!Enqueue(x) PROVE StoreInv' /\ K!Promise!CNext
  <2>1. /\ K!Changes /\ items' = Append(items, x) /\ Len(items) < MaxItems
        /\ call' = [op |-> "Add", arg |-> <<x>>, out |-> "done"]
    BY <1>5 DEF K!Enqueue, K!HasRoom, K!Answer
  <2>2. items' = items \o <<x>> /\ items' \in Seq(Keys) /\ Len(items') <= MaxItems
    BY <2>1, <1>1, AppendedFacts
  <2>3. K!Promise!EndsOp
    BY <2>1, <2>2, <1>0, <1>3 DEF K!Promise!EndsOp, K!Promise!Did
  <2> QED BY <2>1, <2>2, <2>3, <1>2, <1>3
<1>6. ASSUME items = <<>>, K!Leaves, NEW out \in {"false", "InvalidOperation"}, K!Answer("Take", <<>>, out)
      PROVE  StoreInv' /\ K!Promise!CNext
  <2>1. K!Promise!EndsOp
    BY <1>6, <1>0, <1>4 DEF K!Promise!EndsOp, K!Answer
  <2> QED BY <2>1, <1>1, <1>2, <1>4, <1>6
<1>7. ASSUME kind # "Stack", NEW tries \in BOOLEAN, K!QueueTake(tries) PROVE StoreInv' /\ K!Promise!CNext
  <2>1. CASE items = <<>>
    BY <2>1, <1>6, <1>7 DEF K!QueueTake
  <2>2. CASE items # <<>>
    <3>1. items' = Tail(items) /\ K!Changes /\ call' = [op |-> "Take", arg |-> <<Head(items)>>, out |-> "true"]
      BY <2>2, <1>7 DEF K!QueueTake, K!Answer
    <3>2. Head(items) \in Keys /\ Tail(items) \in Seq(Keys) /\ Len(Tail(items)) = Len(items) - 1
      BY <2>2, <1>1, HeadTailProperties
    <3>3. items = <<Head(items)>> \o Tail(items)
      BY <2>2, <1>1, HeadTailProperties
    <3>4. Len(<<Head(items)>>) = 1
      OBVIOUS
    <3>5. K!Promise!EndsOp
      BY <3>1, <3>3, <3>4, <1>0, <1>3, <1>7 DEF K!Promise!EndsOp
    <3>6. Len(items') <= MaxItems
      BY <3>1, <3>2, <1>1
    <3> QED BY <3>1, <3>2, <3>5, <3>6, <1>2, <1>3
  <2> QED BY <2>1, <2>2
<1>8. ASSUME kind = "Stack", NEW tries \in BOOLEAN, K!StackTake(tries) PROVE StoreInv' /\ K!Promise!CNext
  <2>1. CASE items = <<>>
    BY <2>1, <1>6, <1>8 DEF K!StackTake
  <2>2. CASE items # <<>>
    <3>1. items' = K!Front(items) /\ K!Changes /\ call' = [op |-> "Take", arg |-> <<K!Last(items)>>, out |-> "true"]
      BY <2>2, <1>8 DEF K!StackTake, K!Answer
    <3>2. K!Front(items) = SubSeq(items, 1, Len(items) - 1) /\ K!Last(items) = items[Len(items)]
      BY DEF K!Front, K!Last
    <3>3. items' \in Seq(Keys) /\ Len(items') = Len(items) - 1 /\ \A j \in 1..(Len(items) - 1) : items'[j] = items[j]
      BY <3>1, <3>2, <2>2, <1>1, SubSeqProperties
    <3>4. items = items' \o <<K!Last(items)>>
      <4>1. items[Len(items)] \in Keys
        BY <2>2, <1>1, ElementOfSeq
      <4> DEFINE s == items' \o <<items[Len(items)]>>
      <4>2. s \in Seq(Keys) /\ Len(s) = Len(items)
        BY <3>3, <4>1, <1>1
      <4>3. \A j \in 1..Len(items) : s[j] = items[j]
        <5> TAKE j \in 1..Len(items)
        <5>1. j <= Len(items') \/ j = Len(items') + 1
          BY <3>3, <1>1
        <5> QED BY <5>1, <3>3, <4>1, <1>1
      <4> HIDE DEF s
      <4>4. s = items
        BY <4>2, <4>3, <1>1, SeqEqual
      <4> QED BY <4>4, <3>2 DEF s
    <3>5. Len(<<K!Last(items)>>) = 1
      OBVIOUS
    <3>6. K!Promise!EndsOp
      BY <3>1, <3>4, <3>5, <1>0, <1>3, <1>8 DEF K!Promise!EndsOp
    <3>7. Len(items') <= MaxItems
      BY <3>3, <1>1
    <3> QED BY <3>1, <3>3, <3>6, <3>7, <1>2, <1>3
  <2> QED BY <2>1, <2>2
<1> QED BY <1>5, <1>7, <1>8

\* Calls that change nothing.
LEMMA StoreStays ==
    ASSUME StoreInv, UNCHANGED K!coll
    PROVE  StoreInv' /\ K!Family' = K!Family /\ K!Content' = K!Content
<1>1. kind' = kind /\ ordered' = ordered /\ items' = items /\ vals' = vals
  BY DEF K!coll
<1>2. StoreInv'
  BY <1>1 DEF StoreInv
<1>3. K!Family' = K!Family
  BY <1>1 DEF K!Family
<1>4. kind \in K!ListKinds \union K!SetKinds \union K!DictKinds \union {"SortedList", "Queue", "ConcurrentQueue", "Stack"}
  BY DEF StoreInv, K!Kinds
<1>5. K!Content' = K!Content
  <2>1. CASE kind \in K!ListKinds
    BY <2>1, <1>1, Families, FamiliesNext
  <2>2. CASE kind \in K!SetKinds
    BY <2>2, <1>1, Families, FamiliesNext
  <2>3. CASE kind \in K!DictKinds
    BY <2>3, <1>1, Families, FamiliesNext
  <2>4. CASE kind = "SortedList"
    BY <2>4, <1>1, Families, FamiliesNext
  <2>5. CASE kind \in {"Queue", "ConcurrentQueue", "Stack"}
    BY <2>5, <1>1, Families, FamiliesNext
  <2> QED BY <1>4, <2>1, <2>2, <2>3, <2>4, <2>5
<1> QED BY <1>2, <1>3, <1>5

\* An enumerator changes nothing.
LEMMA EnumeratorStep ==
    ASSUME StoreInv, K!GetEnumerator \/ K!MoveNext \/ K!GetCurrent
    PROVE  StoreInv' /\ K!Promise!CNext
<1>1. UNCHANGED K!coll
  BY DEF K!GetEnumerator, K!MoveNext, K!GetCurrent
<1>2. call'.op \in {"GetEnumerator", "MoveNext", "GetCurrent"}
  BY DEF K!GetEnumerator, K!MoveNext, K!GetCurrent, K!Answer
<1> QED BY <1>1, <1>2, StoreStays DEF K!Promise!CNext

\* Of a collection without elements.
LEMMA NothingInIt == K!Range(<<>>) = {} /\ MapOf(<<>>, <<>>) = <<>> /\ Distinct(<<>>) /\ Increasing(<<>>)
<1>1. K!Range(<<>>) = {}
  BY DEF K!Range
<1>2. MapOf(<<>>, <<>>) = <<>>
  BY <1>1 DEF MapOf
<1>3. Distinct(<<>>) /\ Increasing(<<>>)
  BY DEF Distinct, Increasing
<1> QED BY <1>1, <1>2, <1>3

\* Clear does what every kind promises.
LEMMA ClearStep ==
    ASSUME StoreInv, K!Clear
    PROVE  StoreInv' /\ K!Promise!CNext
<1>1. /\ items' = <<>> /\ vals' = <<>> /\ kind' = kind /\ ordered' = ordered
      /\ call' = [op |-> "Clear", arg |-> <<>>, out |-> "done"]
  BY DEF K!Clear, K!Changes, K!Answer
<1>2. <<>> \in Seq(Keys) /\ Len(<<>>) = 0 /\ MaxItems \in Nat /\ <<>> \in Seq(Data)
  BY LibraryAssumption
<1>3. <<>> \in [{} -> Data]
  OBVIOUS
<1>4. StoreInv'
  BY <1>1, <1>2, <1>3, NothingInIt DEF StoreInv
<1>5. kind \in K!ListKinds \union K!SetKinds \union K!DictKinds \union {"SortedList", "Queue", "ConcurrentQueue", "Stack"}
  BY DEF StoreInv, K!Kinds
<1>6. K!Family' = K!Family
  BY <1>1 DEF K!Family
<1>7. K!Content' = IF K!Family = "set" THEN {} ELSE <<>>
  <2>1. CASE kind \in K!ListKinds
    BY <2>1, <1>1, Families, FamiliesNext
  <2>2. CASE kind \in K!SetKinds
    BY <2>2, <1>1, Families, FamiliesNext, NothingInIt
  <2>3. CASE kind \in K!DictKinds
    BY <2>3, <1>1, Families, FamiliesNext
  <2>4. CASE kind = "SortedList"
    BY <2>4, <1>1, Families, FamiliesNext, NothingInIt
  <2>5. CASE kind \in {"Queue", "ConcurrentQueue"}
    BY <2>5, <1>1, Families, FamiliesNext
  <2>6. CASE kind = "Stack"
    BY <2>6, <1>1, Families, FamiliesNext
  <2> QED BY <1>5, <2>1, <2>2, <2>3, <2>4, <2>5, <2>6
<1>8. K!Promise!Did("Clear", <<>>, "done")
  BY <1>1 DEF K!Promise!Did
<1> QED BY <1>4, <1>6, <1>7, <1>8 DEF K!Promise!CNext

\* The operations of dictionaries do what maps promise.
LEMMA DictStep ==
    ASSUME StoreInv, kind \in K!DictKinds, NEW k \in Keys,
           K!DictRemove(k) \/ \E v \in Data : K!DictAdd(k, v) \/ K!DictSetItem(k, v)
    PROVE  StoreInv' /\ K!Promise!CNext
<1>0. /\ kind \in Once /\ K!Family = "map" /\ K!Content = vals
      /\ kind' = kind => K!Family' = "map" /\ K!Content' = vals'
      /\ kind # "SortedList" /\ kind # "SortedSet"
  BY Families, FamiliesNext DEF Once, K!DictKinds
<1>1. /\ items \in Seq(Keys) /\ Len(items) \in Nat /\ Len(items) <= MaxItems /\ MaxItems \in Nat
      /\ Distinct(items) /\ ordered \in BOOLEAN /\ kind \in K!Kinds
      /\ vals \in [K!Range(items) -> Data] /\ DOMAIN vals = K!Range(items)
      /\ ordered /\ kind = "SortedDictionary" => Increasing(items)
  BY <1>0, LenProperties, LibraryAssumption DEF StoreInv
<1>2. ASSUME kind' = kind, ordered' = ordered, items' \in Seq(Keys), Len(items') <= MaxItems, Distinct(items'),
             vals' \in [K!Range(items') -> Data],
             ordered /\ kind = "SortedDictionary" => Increasing(items'), K!Promise!MapOp
      PROVE  StoreInv' /\ K!Promise!CNext
  <2>1. StoreInv'
    BY <1>2, <1>0, <1>1 DEF StoreInv
  <2> QED BY <2>1, <1>2, <1>0 DEF K!Promise!CNext
<1>3. ASSUME K!Leaves, K!Promise!MapOp PROVE StoreInv' /\ K!Promise!CNext
  BY <1>3, <1>0, StoreStays DEF K!Promise!CNext, K!Leaves
<1>4. ASSUME K!Leaves PROVE K!Content' = K!Content
  BY <1>4, StoreStays DEF K!Leaves
<1>5. ASSUME NEW v \in Data, K!Put(k, v), NEW op, K!Answer(op, <<k, v>>, "done"),
             op = "SetItem" \/ (op = "Add" /\ k \notin DOMAIN vals)
      PROVE  StoreInv' /\ K!Promise!CNext
  <2>1. /\ k \in DOMAIN vals \/ Len(items) < MaxItems
        /\ vals' = [j \in DOMAIN vals \union {k} |-> IF j = k THEN v ELSE vals[j]]
        /\ items' = IF k \in DOMAIN vals THEN items
                    ELSE IF kind = "SortedDictionary" THEN K!InsertBeforeGreater(k)
                    ELSE Append(items, k)
        /\ kind' = kind /\ ordered' = ordered
    BY <1>5 DEF K!Put, K!HasRoom
  <2>2. K!Promise!MapOp
    <3>1. /\ K!Promise!Did(op, <<k, v>>, "done")
          /\ K!Content' = [j \in DOMAIN K!Content \union {k} |-> IF j = k THEN v ELSE K!Content[j]]
      BY <1>5, <2>1, <1>0 DEF K!Answer, K!Promise!Did
    <3> QED BY <3>1, <1>5, <1>0 DEF K!Promise!MapOp, K!Promise!Written
  <2>3. CASE k \in DOMAIN vals
    <3>1. items' = items /\ vals' \in [K!Range(items) -> Data]
      BY <2>1, <2>3, <1>1
    <3> QED BY <2>1, <2>2, <3>1, <1>1, <1>2
  <2>4. CASE k \notin DOMAIN vals
    <3>1. /\ items' = IF kind = "SortedDictionary" THEN K!InsertBeforeGreater(k) ELSE Append(items, k)
          /\ k \notin K!Range(items) /\ Len(items) < MaxItems
      BY <2>1, <2>4, <1>1
    <3>2. PICK i \in 1..(Len(items) + 1) :
            /\ Inserted(items, items', i, k)
            /\ ordered /\ kind = "SortedDictionary" =>
                 (\A j \in 1..(i - 1) : items[j] < k) /\ (\A j \in i..Len(items) : k < items[j])
      <4>1. CASE kind = "SortedDictionary"
        BY <4>1, <3>1, <1>1, InsertedInOrder
      <4>2. CASE kind # "SortedDictionary"
        <5>1. Len(items) + 1 \in 1..(Len(items) + 1)
          BY <1>1
        <5>2. Inserted(items, items', Len(items) + 1, k)
          BY <4>2, <3>1, <1>1, AppendedFacts
        <5> QED BY <4>2, <5>1, <5>2
      <4> QED BY <4>1, <4>2
    <3>3. /\ K!Range(items') = K!Range(items) \union {k} /\ Distinct(items')
          /\ ordered /\ kind = "SortedDictionary" => Increasing(items')
      BY <3>1, <3>2, <1>1, InsertedFacts
    <3>4. items' \in Seq(Keys) /\ Len(items') <= MaxItems
      BY <3>1, <3>2, <1>1 DEF Inserted
    <3>5. vals' \in [K!Range(items') -> Data]
      BY <2>1, <3>3, <1>1
    <3> QED BY <2>1, <2>2, <3>3, <3>4, <3>5, <1>2
  <2> QED BY <2>3, <2>4
<1>6. ASSUME NEW v \in Data, K!DictAdd(k, v) PROVE StoreInv' /\ K!Promise!CNext
  <2>1. CASE k \in DOMAIN vals
    <3>1. K!Leaves /\ call' = [op |-> "Add", arg |-> <<k, v>>, out |-> "plain"]
      BY <1>6, <2>1 DEF K!DictAdd, K!Answer
    <3>2. K!Promise!Fails({"Add"}) /\ call'.arg[1] \in DOMAIN K!Content
      BY <3>1, <2>1, <1>0, <1>4 DEF K!Promise!Fails, K!Promise!Failures
    <3>3. K!Promise!MapOp
      BY <3>2 DEF K!Promise!MapOp
    <3> QED BY <3>1, <3>3, <1>3
  <2>2. CASE k \notin DOMAIN vals
    BY <1>5, <1>6, <2>2 DEF K!DictAdd
  <2> QED BY <2>1, <2>2
<1>7. ASSUME NEW v \in Data, K!DictSetItem(k, v) PROVE StoreInv' /\ K!Promise!CNext
  BY <1>5, <1>7 DEF K!DictSetItem
<1>8. ASSUME K!DictRemove(k) PROVE StoreInv' /\ K!Promise!CNext
  <2>1. CASE k \notin DOMAIN vals
    <3>1. K!Leaves /\ call' = [op |-> "Remove", arg |-> <<k>>, out |-> "false"]
      BY <1>8, <2>1 DEF K!DictRemove, K!Answer
    <3>2. K!Content' = [j \in DOMAIN K!Content \ {k} |-> K!Content[j]]
      BY <3>1, <2>1, <1>0, <1>1, <1>4
    <3>3. K!Promise!Did("Remove", <<k>>, IF k \in DOMAIN K!Content THEN "true" ELSE "false")
      BY <3>1, <2>1, <1>0 DEF K!Promise!Did
    <3>4. K!Promise!MapOp
      BY <3>2, <3>3 DEF K!Promise!MapOp
    <3> QED BY <3>1, <3>4, <1>3
  <2>2. CASE k \in DOMAIN vals
    <3> DEFINE i == PositionIn(items, k)
    <3>1. /\ items' = K!RemoveAt(items, i) /\ vals' = [j \in DOMAIN vals \ {k} |-> vals[j]]
          /\ kind' = kind /\ ordered' = ordered
          /\ call' = [op |-> "Remove", arg |-> <<k>>, out |-> "true"]
      BY <1>8, <2>2, PositionIs DEF K!DictRemove, K!Answer, K!Changes
    <3>2. i \in 1..Len(items) /\ items[i] = k
      BY <2>2, <1>1, PositionFacts
    <3> HIDE DEF i
    <3>3. Removed(items, items', i)
      BY <3>1, <3>2, <1>1, RemoveAtFacts DEF Removed
    <3>4. Distinct(items') /\ K!Range(items') = K!Range(items) \ {k} /\ (Increasing(items) => Increasing(items'))
      BY <3>2, <3>3, <1>1, RemovedFacts
    <3>5. items' \in Seq(Keys) /\ Len(items') <= MaxItems
      BY <3>3, <1>1 DEF Removed
    <3>6. vals' \in [K!Range(items') -> Data]
      BY <3>1, <3>4, <1>1
    <3>7. K!Promise!Did("Remove", <<k>>, IF k \in DOMAIN K!Content THEN "true" ELSE "false")
      BY <3>1, <2>2, <1>0 DEF K!Promise!Did
    <3>8. K!Promise!MapOp
      BY <3>1, <3>7, <1>0 DEF K!Promise!MapOp
    <3> QED BY <3>1, <3>4, <3>5, <3>6, <3>8, <1>1, <1>2
  <2> QED BY <2>1, <2>2
<1> QED BY <1>6, <1>7, <1>8

\* The value of a key is in the key's place.
LEMMA MapAt ==
    ASSUME NEW s \in Seq(Keys), Distinct(s), NEW w
    PROVE  /\ DOMAIN MapOf(s, w) = K!Range(s)
           /\ \A p \in 1..Len(s) : s[p] \in K!Range(s) /\ MapOf(s, w)[s[p]] = w[p]
           /\ \A k \in K!Range(s) : \E p \in 1..Len(s) : s[p] = k
<1>1. DOMAIN MapOf(s, w) = K!Range(s)
  BY DEF MapOf
<1>2. K!Range(s) = {s[p] : p \in 1..Len(s)}
  BY RangeOf
<1>3. \A p \in 1..Len(s) : MapOf(s, w)[s[p]] = w[p]
  BY <1>2, OnePosition DEF MapOf
<1> QED BY <1>1, <1>2, <1>3

\* A function that has these values at the places of s is this map.
MapsTo(s, w, f) == f = [k \in K!Range(s) |-> f[k]] /\ \A p \in 1..Len(s) : w[p] = f[s[p]]
\* Then it is the map that the keys and values stand for.
LEMMA MapIs ==
    ASSUME NEW s \in Seq(Keys), Distinct(s), NEW w, NEW f, MapsTo(s, w, f)
    PROVE  MapOf(s, w) = f
<1>1. \A k \in K!Range(s) : MapOf(s, w)[k] = f[k]
  BY MapAt DEF MapsTo
<1>2. MapOf(s, w) = [k \in K!Range(s) |-> MapOf(s, w)[k]]
  BY DEF MapOf
<1> QED BY <1>1, <1>2 DEF MapsTo

\* f with v for k, and f without k.
With(f, k, v) == [j \in DOMAIN f \union {k} |-> IF j = k THEN v ELSE f[j]]
\* The second.
Without(f, k) == [j \in DOMAIN f \ {k} |-> f[j]]

\* w2 is w, of n values, with v put in place i.
PutIn(w, w2, i, v, n) ==
    \A j \in 1..(n + 1) : w2[j] = IF j < i THEN w[j] ELSE IF j = i THEN v ELSE w[j - 1]
\* w2 is w, of n values, without its place i.
TakenFrom(w, w2, i, n) ==
    \A j \in 1..(n - 1) : w2[j] = IF j < i THEN w[j] ELSE w[j + 1]

\* A key and its value put in the same place are one more entry of the map.
LEMMA MapInserted ==
    ASSUME NEW s \in Seq(Keys), Distinct(s), NEW w, NEW k \in Keys, k \notin K!Range(s), NEW v,
           NEW i \in 1..(Len(s) + 1), NEW s2, NEW w2, Inserted(s, s2, i, k),
           PutIn(w, w2, i, v, Len(s))
    PROVE  MapOf(s2, w2) = With(MapOf(s, w), k, v)
<1>1. /\ s2 \in Seq(Keys) /\ Len(s2) = Len(s) + 1 /\ Len(s) \in Nat
      /\ \A j \in 1..Len(s2) : s2[j] = IF j < i THEN s[j] ELSE IF j = i THEN k ELSE s[j - 1]
  BY LenProperties DEF Inserted
<1>2. Distinct(s2) /\ K!Range(s2) = K!Range(s) \union {k}
  BY InsertedFacts
<1> DEFINE f == [j \in K!Range(s) \union {k} |-> IF j = k THEN v ELSE MapOf(s, w)[j]]
<1>3. f[k] = v /\ \A p \in 1..Len(s) : s[p] # k /\ f[s[p]] = w[p]
  BY MapAt
<1>4. \A p \in 1..Len(s2) : w2[p] = f[s2[p]]
  <2> TAKE p \in 1..Len(s2)
  <2>1. CASE p < i
    <3>1. p \in 1..Len(s) /\ s2[p] = s[p] /\ w2[p] = w[p]
      BY <2>1, <1>1 DEF PutIn
    <3> QED BY <3>1, <1>3
  <2>2. CASE p = i
    <3>1. s2[p] = k /\ w2[p] = v
      BY <2>2, <1>1 DEF PutIn
    <3> QED BY <3>1, <1>3
  <2>3. CASE p > i
    <3>1. p - 1 \in 1..Len(s) /\ s2[p] = s[p - 1] /\ w2[p] = w[p - 1]
      BY <2>3, <1>1 DEF PutIn
    <3> QED BY <3>1, <1>3
  <2> QED BY <2>1, <2>2, <2>3, <1>1
<1>5. f = [j \in K!Range(s2) |-> f[j]]
  BY <1>2
<1> HIDE DEF f
<1>6. MapsTo(s2, w2, f)
  BY <1>4, <1>5 DEF MapsTo
<1>7. MapOf(s2, w2) = f
  BY <1>1, <1>2, <1>6, MapIs
<1> QED BY <1>7, MapAt DEF f, With

\* A key and its value taken from the same place are one less.
LEMMA MapRemoved ==
    ASSUME NEW s \in Seq(Keys), Distinct(s), NEW w, NEW i, NEW s2, NEW w2, Removed(s, s2, i),
           TakenFrom(w, w2, i, Len(s))
    PROVE  MapOf(s2, w2) = Without(MapOf(s, w), s[i])
<1>1. /\ s2 \in Seq(Keys) /\ Len(s2) = Len(s) - 1 /\ Len(s) \in Nat /\ i \in 1..Len(s)
      /\ \A j \in 1..Len(s2) : s2[j] = IF j < i THEN s[j] ELSE s[j + 1]
  BY LenProperties DEF Removed
<1>2. Distinct(s2) /\ K!Range(s2) = K!Range(s) \ {s[i]}
  BY RemovedFacts
<1> DEFINE f == [j \in K!Range(s) \ {s[i]} |-> MapOf(s, w)[j]]
<1>3. \A p \in 1..Len(s) : p # i => f[s[p]] = w[p]
  BY <1>1, MapAt, SMTT(30) DEF Distinct
<1>4. \A p \in 1..Len(s2) : w2[p] = f[s2[p]]
  <2> TAKE p \in 1..Len(s2)
  <2>1. CASE p < i
    <3>1. p \in 1..Len(s) /\ s2[p] = s[p] /\ w2[p] = w[p] /\ p # i
      BY <2>1, <1>1 DEF TakenFrom
    <3> QED BY <3>1, <1>3
  <2>2. CASE ~(p < i)
    <3>1. p + 1 \in 1..Len(s) /\ s2[p] = s[p + 1] /\ w2[p] = w[p + 1] /\ p + 1 # i
      BY <2>2, <1>1 DEF TakenFrom
    <3> QED BY <3>1, <1>3
  <2> QED BY <2>1, <2>2
<1>5. f = [j \in K!Range(s2) |-> f[j]]
  BY <1>2
<1> HIDE DEF f
<1>6. MapsTo(s2, w2, f)
  BY <1>4, <1>5 DEF MapsTo
<1>7. MapOf(s2, w2) = f
  BY <1>1, <1>2, <1>6, MapIs
<1> QED BY <1>7, MapAt DEF f, Without

\* A value put in the place of a key is the key's.
LEMMA MapReplaced ==
    ASSUME NEW s \in Seq(Keys), Distinct(s), NEW w \in Seq(Data), Len(w) = Len(s), NEW i \in 1..Len(s), NEW v \in Data
    PROVE  MapOf(s, [w EXCEPT ![i] = v]) = With(MapOf(s, w), s[i], v)
<1> DEFINE f == [j \in K!Range(s) \union {s[i]} |-> IF j = s[i] THEN v ELSE MapOf(s, w)[j]]
           w2 == [w EXCEPT ![i] = v]
<1>1. s[i] \in K!Range(s) /\ \A p \in 1..Len(s) : MapOf(s, w)[s[p]] = w[p]
  BY MapAt
<1>2. \A p \in 1..Len(s) : w2[p] = IF p = i THEN v ELSE w[p]
  BY LenProperties
<1>3. \A p \in 1..Len(s) : s[p] = s[i] => p = i
  BY DEF Distinct
<1>4. \A p \in 1..Len(s) : w2[p] = f[s[p]]
  <2>1. \A p \in 1..Len(s) : f[s[p]] = IF p = i THEN v ELSE w[p]
    BY <1>1, <1>3, MapAt
  <2> QED BY <2>1, <1>2
<1>5. K!Range(s) \union {s[i]} = K!Range(s)
  BY <1>1
<1>6. f = [j \in K!Range(s) |-> f[j]]
  BY <1>5
<1> HIDE DEF f, w2
<1>7. MapsTo(s, w2, f)
  BY <1>4, <1>6 DEF MapsTo
<1>8. MapOf(s, w2) = f
  BY <1>7, MapIs
<1> QED BY <1>8, MapAt DEF f, w2, With

\* The operations of SortedList, which keeps keys and values beside each other and
\* finds a key by bisection, do what maps promise.
LEMMA SortedListStep ==
    ASSUME StoreInv, kind = "SortedList", NEW k \in Keys,
           K!SortedListRemove(k) \/ \E v \in Data : K!SortedListAdd(k, v) \/ K!SortedListSetItem(k, v)
    PROVE  StoreInv' /\ K!Promise!CNext
<1>0. /\ kind \in Once /\ kind \notin K!DictKinds /\ K!Family = "map" /\ K!Content = MapOf(items, vals)
      /\ kind' = kind => K!Family' = "map" /\ K!Content' = MapOf(items', vals')
  BY Families, FamiliesNext DEF Once, K!DictKinds
<1>1. /\ items \in Seq(Keys) /\ Len(items) \in Nat /\ Len(items) <= MaxItems /\ MaxItems \in Nat
      /\ Distinct(items) /\ ordered \in BOOLEAN /\ kind \in K!Kinds
      /\ vals \in Seq(Data) /\ Len(vals) = Len(items)
      /\ ordered => Increasing(items)
      /\ ~ordered => Len(items) <= 1
      /\ DOMAIN K!Content = K!Range(items)
  BY <1>0, LenProperties, LibraryAssumption, MapAt DEF StoreInv
<1>2. ASSUME kind' = kind, ordered' = ordered, items' \in Seq(Keys), Len(items') <= MaxItems, Distinct(items'),
             vals' \in Seq(Data), Len(vals') = Len(items'), ~ordered => Len(items') <= 1,
             ordered => Increasing(items'), K!Promise!MapOp
      PROVE  StoreInv' /\ K!Promise!CNext
  <2>1. StoreInv'
    BY <1>2, <1>0, <1>1 DEF StoreInv
  <2> QED BY <2>1, <1>2, <1>0 DEF K!Promise!CNext
<1>3. ASSUME K!Leaves, K!Promise!MapOp PROVE StoreInv' /\ K!Promise!CNext
  BY <1>3, <1>0, StoreStays DEF K!Promise!CNext, K!Leaves
<1>4. ASSUME K!Leaves PROVE K!Content' = K!Content
  BY <1>4, StoreStays DEF K!Leaves
<1>5. ASSUME K!CannotCompare, K!Leaves, NEW op \in {"Add", "SetItem", "Remove"}, NEW arg, K!Answer(op, arg, "plain")
      PROVE  StoreInv' /\ K!Promise!CNext
  <2>1. Len(items) = 1
    BY <1>5, <1>1, EmptySeq DEF K!CannotCompare
  <2>2. K!Range(items) = {items[1]}
    BY <2>1, <1>1, RangeOf
  <2>3. K!Promise!Cardinality(DOMAIN K!Content) = 1
    <3>1. K!Promise!Cardinality({items[1]}) = Cardinality({items[1]})
      BY DEF K!Promise!Cardinality, Cardinality
    <3> QED BY <3>1, <2>2, <1>1, FS_Singleton
  <2>4. call'.op = op /\ call'.out = "plain"
    BY <1>5 DEF K!Answer
  <2>5. K!Promise!Fails({"Add"}) \/ K!Promise!Fails({"SetItem", "Remove"})
    BY <2>4, <1>4, <1>5 DEF K!Promise!Fails, K!Promise!Failures
  <2>6. K!Promise!MapOp
    BY <2>3, <2>5 DEF K!Promise!MapOp
  <2> QED BY <2>6, <1>3, <1>5
<1> DEFINE there == K!Find(k).at
           found == K!Find(k).found
<1>6. ASSUME ~K!CannotCompare
      PROVE  Increasing(items) /\ (ordered \/ items = <<>>)
  <2>1. ordered \/ items = <<>>
    BY <1>6 DEF K!CannotCompare
  <2> QED BY <2>1, <1>1, NothingInIt
<1>7. ASSUME ~K!CannotCompare
      PROVE  /\ there \in 1..(Len(items) + 1) /\ \A j \in 1..(there - 1) : items[j] < k
             /\ found => there \in 1..Len(items) /\ items[there] = k /\ k \in K!Range(items)
             /\ ~found => (\A j \in there..Len(items) : k < items[j]) /\ k \notin K!Range(items)
  <2>1. PICK q \in 0..Len(items) :
              /\ \A j \in 1..q : items[j] < k
              /\ there = q + 1
              /\ found => q + 1 \in 1..Len(items) /\ items[q + 1] = k
              /\ ~found => \A j \in (q + 1)..Len(items) : k < items[j]
    BY <1>6, <1>7, <1>1, BisectionFinds
  <2> HIDE DEF there, found
  <2>2. there \in 1..(Len(items) + 1) /\ (\A j \in 1..(there - 1) : items[j] < k)
    BY <2>1, <1>1
  <2>3. found => there \in 1..Len(items) /\ items[there] = k /\ k \in K!Range(items)
    BY <2>1, <1>1, RangeOf
  <2>4. ASSUME ~found PROVE (\A j \in there..Len(items) : k < items[j]) /\ k \notin K!Range(items)
    <3>1. \A j \in there..Len(items) : k < items[j]
      BY <2>1, <2>4
    <3>2. \A j \in 1..Len(items) : items[j] < k \/ k < items[j]
      <4> TAKE j \in 1..Len(items)
      <4>1. j \in 1..(there - 1) \/ j \in there..Len(items)
        BY <1>1, <2>2
      <4> QED BY <4>1, <2>2, <3>1
    <3>3. \A j \in 1..Len(items) : items[j] # k
      BY <3>2, <1>1, ElementOfSeq, LibraryAssumption
    <3> QED BY <3>1, <3>3, <1>1, RangeOf
  <2> QED BY <2>2, <2>3, <2>4
<1>8. ASSUME ~K!CannotCompare, ~found, NEW v \in Data, K!InsertEntry(there, k, v),
             NEW op \in {"Add", "SetItem"}, K!Answer(op, <<k, v>>, "done")
      PROVE  StoreInv' /\ K!Promise!CNext
  <2> DEFINE p == there
  <2>1. /\ items' = K!InsertAt(items, p, k) /\ vals' = K!InsertAt(vals, p, v)
        /\ Len(items) < MaxItems /\ kind' = kind /\ ordered' = ordered
    BY <1>8 DEF K!InsertEntry, K!HasRoom, K!Changes
  <2>2. /\ p \in 1..(Len(items) + 1) /\ k \notin K!Range(items)
        /\ \A j \in 1..(p - 1) : items[j] < k
        /\ \A j \in p..Len(items) : k < items[j]
    BY <1>7, <1>8
  <2> HIDE DEF p, there, found
  <2>3. Inserted(items, items', p, k)
    <3>1. /\ K!InsertAt(items, p, k) \in Seq(Keys) /\ Len(K!InsertAt(items, p, k)) = Len(items) + 1
          /\ \A j \in 1..(Len(items) + 1) :
                K!InsertAt(items, p, k)[j] = IF j < p THEN items[j] ELSE IF j = p THEN k ELSE items[j - 1]
      BY <2>2, <1>1, InsertAtFacts
    <3> QED BY <3>1, <2>1, <2>2, SMTT(30) DEF Inserted
  <2>4. vals' \in Seq(Data) /\ Len(vals') = Len(items) + 1 /\ PutIn(vals, vals', p, v, Len(items))
    <3>1. p \in 1..(Len(vals) + 1)
      BY <2>2, <1>1
    <3>2. /\ K!InsertAt(vals, p, v) \in Seq(Data) /\ Len(K!InsertAt(vals, p, v)) = Len(vals) + 1
          /\ \A j \in 1..(Len(vals) + 1) :
                K!InsertAt(vals, p, v)[j] = IF j < p THEN vals[j] ELSE IF j = p THEN v ELSE vals[j - 1]
      BY <3>1, <1>1, InsertAtFacts
    <3> QED BY <3>2, <2>1, <1>1 DEF PutIn
  <2>5. Distinct(items') /\ Increasing(items')
    <3>1. Increasing(items)
      BY <1>6, <1>8
    <3> QED BY <3>1, <2>2, <2>3, <1>1, InsertedFacts
  <2>6. items' \in Seq(Keys) /\ Len(items') = Len(items) + 1 /\ Len(items') <= MaxItems
    BY <2>1, <2>3, <1>1 DEF Inserted
  <2>7. ~ordered => Len(items') <= 1
    <3>1. ~ordered => items = <<>>
      BY <1>6, <1>8
    <3> QED BY <3>1, <2>6
  <2>8. MapOf(items', vals') = With(MapOf(items, vals), k, v)
    BY <2>2, <2>3, <2>4, <1>1, MapInserted
  <2>9. K!Promise!MapOp
    <3>1. K!Content' = [j \in DOMAIN K!Content \union {k} |-> IF j = k THEN v ELSE K!Content[j]]
      BY <2>8, <2>1, <1>0 DEF With
    <3>2. K!Promise!Did(op, <<k, v>>, "done")
      BY <1>8 DEF K!Answer, K!Promise!Did
    <3>3. k \notin DOMAIN K!Content
      BY <2>2, <1>1
    <3> QED BY <3>1, <3>2, <3>3, <1>8 DEF K!Promise!MapOp, K!Promise!Written
  <2> QED BY <2>1, <2>4, <2>5, <2>6, <2>7, <2>9, <1>2
<1>9. ASSUME NEW v \in Data, K!SortedListAdd(k, v) PROVE StoreInv' /\ K!Promise!CNext
  <2>1. CASE K!CannotCompare
    BY <2>1, <1>5, <1>9 DEF K!SortedListAdd
  <2>2. CASE ~K!CannotCompare /\ found
    <3>1. K!Leaves /\ call' = [op |-> "Add", arg |-> <<k, v>>, out |-> "ArgumentException"]
      BY <2>2, <1>9 DEF K!SortedListAdd, K!Answer
    <3>2. K!Promise!Fails({"Add"}) /\ call'.arg[1] \in DOMAIN K!Content
      BY <3>1, <2>2, <1>1, <1>4, <1>7 DEF K!Promise!Fails, K!Promise!Failures
    <3>3. K!Promise!MapOp
      BY <3>2 DEF K!Promise!MapOp
    <3> QED BY <3>1, <3>3, <1>3
  <2>3. CASE ~K!CannotCompare /\ ~found
    BY <2>3, <1>8, <1>9 DEF K!SortedListAdd
  <2> QED BY <2>1, <2>2, <2>3
<1>10. ASSUME NEW v \in Data, K!SortedListSetItem(k, v) PROVE StoreInv' /\ K!Promise!CNext
  <2>1. CASE K!CannotCompare
    BY <2>1, <1>5, <1>10 DEF K!SortedListSetItem
  <2>2. CASE ~K!CannotCompare /\ found
    <3>1. /\ vals' = [vals EXCEPT ![there] = v] /\ kind' = kind /\ ordered' = ordered /\ items' = items
          /\ call' = [op |-> "SetItem", arg |-> <<k, v>>, out |-> "done"]
      BY <2>2, <1>10 DEF K!SortedListSetItem, K!Answer
    <3>2. there \in 1..Len(items) /\ items[there] = k
      BY <2>2, <1>7
    <3> HIDE DEF there
    <3>3. vals' \in Seq(Data) /\ Len(vals') = Len(vals)
      BY <3>1, <3>2, <1>1, ExceptSeq
    <3>4. MapOf(items', vals') = With(MapOf(items, vals), k, v)
      BY <3>1, <3>2, <1>1, MapReplaced
    <3>5. K!Promise!MapOp
      <4>1. K!Content' = [j \in DOMAIN K!Content \union {k} |-> IF j = k THEN v ELSE K!Content[j]]
        BY <3>4, <3>1, <1>0 DEF With
      <4>2. K!Promise!Did("SetItem", <<k, v>>, "done")
        BY <3>1 DEF K!Promise!Did
      <4> QED BY <4>1, <4>2 DEF K!Promise!MapOp, K!Promise!Written
    <3> QED BY <3>1, <3>3, <3>5, <1>1, <1>2
  <2>3. CASE ~K!CannotCompare /\ ~found
    BY <2>3, <1>8, <1>10 DEF K!SortedListSetItem
  <2> QED BY <2>1, <2>2, <2>3
<1>11. ASSUME K!SortedListRemove(k) PROVE StoreInv' /\ K!Promise!CNext
  <2>1. CASE K!CannotCompare
    BY <2>1, <1>5, <1>11 DEF K!SortedListRemove
  <2>2. CASE ~K!CannotCompare /\ ~found
    <3>1. K!Leaves /\ call' = [op |-> "Remove", arg |-> <<k>>, out |-> "false"]
      BY <2>2, <1>11 DEF K!SortedListRemove, K!Answer
    <3>2. k \notin DOMAIN K!Content
      BY <2>2, <1>7, <1>1
    <3>3. K!Content' = [j \in DOMAIN K!Content \ {k} |-> K!Content[j]]
      <4>1. K!Content = [j \in K!Range(items) |-> K!Content[j]]
        BY <1>0 DEF MapOf
      <4> QED BY <4>1, <3>1, <3>2, <1>1, <1>4
    <3>4. K!Promise!Did("Remove", <<k>>, IF k \in DOMAIN K!Content THEN "true" ELSE "false")
      BY <3>1, <3>2 DEF K!Promise!Did
    <3>5. K!Promise!MapOp
      BY <3>3, <3>4 DEF K!Promise!MapOp
    <3> QED BY <3>1, <3>5, <1>3
  <2>3. CASE ~K!CannotCompare /\ found
    <3> DEFINE p == there
    <3>1. /\ items' = K!RemoveAt(items, p) /\ vals' = K!RemoveAt(vals, p)
          /\ kind' = kind /\ ordered' = ordered
          /\ call' = [op |-> "Remove", arg |-> <<k>>, out |-> "true"]
      BY <2>3, <1>11 DEF K!SortedListRemove, K!Answer, K!Changes
    <3>2. p \in 1..Len(items) /\ items[p] = k /\ k \in K!Range(items)
      BY <2>3, <1>7
    <3> HIDE DEF p, there, found
    <3>3. Removed(items, items', p)
      BY <3>1, <3>2, <1>1, RemoveAtFacts DEF Removed
    <3>4. vals' \in Seq(Data) /\ Len(vals') = Len(items) - 1 /\ TakenFrom(vals, vals', p, Len(items))
      <4>1. p \in 1..Len(vals)
        BY <3>2, <1>1
      <4>2. /\ K!RemoveAt(vals, p) \in Seq(Data) /\ Len(K!RemoveAt(vals, p)) = Len(vals) - 1
            /\ \A j \in 1..(Len(vals) - 1) : K!RemoveAt(vals, p)[j] = IF j < p THEN vals[j] ELSE vals[j + 1]
        BY <4>1, <1>1, RemoveAtFacts
      <4> QED BY <4>2, <3>1, <1>1 DEF TakenFrom
    <3>5. Distinct(items') /\ K!Range(items') = K!Range(items) \ {k} /\ (Increasing(items) => Increasing(items'))
      BY <3>2, <3>3, <1>1, RemovedFacts
    <3>6. items' \in Seq(Keys) /\ Len(items') = Len(items) - 1 /\ Len(items') <= MaxItems
      BY <3>3, <1>1 DEF Removed
    <3>7. ~ordered => Len(items') <= 1
      BY <3>6, <1>1
    <3>8. MapOf(items', vals') = Without(MapOf(items, vals), k)
      BY <3>2, <3>3, <3>4, <1>1, MapRemoved
    <3>9. K!Promise!MapOp
      <4>1. K!Content' = [j \in DOMAIN K!Content \ {k} |-> K!Content[j]]
        BY <3>8, <3>1, <1>0 DEF Without
      <4>2. K!Promise!Did("Remove", <<k>>, IF k \in DOMAIN K!Content THEN "true" ELSE "false")
        BY <3>1, <3>2, <1>1 DEF K!Promise!Did
      <4> QED BY <4>1, <4>2 DEF K!Promise!MapOp
    <3> QED BY <3>1, <3>4, <3>5, <3>6, <3>7, <3>9, <1>1, <1>2
  <2> QED BY <2>1, <2>2, <2>3
<1> QED BY <1>9, <1>10, <1>11

\* What is to be shown of the elements follows from the invariant.
LEMMA StoreIsSound == StoreInv => K!CollectionsInv
<1> SUFFICES ASSUME StoreInv PROVE K!CollectionsInv
  OBVIOUS
<1>1. /\ items \in Seq(Keys) /\ Len(items) <= MaxItems /\ Len(items) \in Nat /\ DOMAIN items = 1..Len(items)
      /\ \A i \in 1..Len(items) : items[i] \in Int
  BY LenProperties, ElementOfSeq, LibraryAssumption DEF StoreInv
<1>2. kind \in Once => K!IsInjective(items)
  BY <1>1 DEF StoreInv, Distinct, K!IsInjective
<1>3. kind \in K!DictKinds => DOMAIN vals = K!Range(items)
  BY DEF StoreInv
<1>4. kind = "SortedList" => Len(vals) = Len(items) /\ (~ordered => Len(items) <= 1)
  BY DEF StoreInv
<1>5. ASSUME Increasing(items)
      PROVE  /\ \A i, j \in DOMAIN items : i < j => items[i] < items[j]
             /\ items # <<>> => \A x \in K!Range(items) : K!SortedMin <= x /\ x <= K!SortedMax
  <2>1. \A i, j \in 1..Len(items) : i < j => items[i] < items[j]
    BY <1>5 DEF Increasing
  <2>2. ASSUME items # <<>>, NEW x \in K!Range(items) PROVE K!SortedMin <= x /\ x <= K!SortedMax
    <3>1. PICK i \in 1..Len(items) : items[i] = x
      BY <2>2, <1>1, RangeOf
    <3>2. 1 \in 1..Len(items) /\ Len(items) \in 1..Len(items)
      BY <3>1, <1>1
    <3>3. i = 1 \/ items[1] < items[i]
      BY <3>1, <3>2, <2>1, <1>1
    <3>4. i = Len(items) \/ items[i] < items[Len(items)]
      <4>1. i # Len(items) => i < Len(items)
        BY <3>2
      <4> QED BY <4>1, <3>2, <2>1
    <3>5. items[1] \in Int /\ items[i] \in Int /\ items[Len(items)] \in Int
      BY <3>1, <3>2, <1>1
    <3>6. items[1] <= x /\ x <= items[Len(items)]
      BY <3>1, <3>3, <3>4, <3>5
    <3> QED BY <3>6 DEF K!SortedMin, K!SortedMax
  <2> QED BY <2>1, <2>2, <1>1
<1>6. ASSUME kind = "SortedList", ~K!CannotCompare, NEW k \in Keys
      PROVE  K!Find(k).found <=> k \in K!Range(items)
  <2>1. Increasing(items)
    BY <1>6, NothingInIt DEF K!CannotCompare, StoreInv
  <2>2. PICK q \in 0..Len(items) :
          /\ \A j \in 1..q : items[j] < k
          /\ K!Find(k).found => q + 1 \in 1..Len(items) /\ items[q + 1] = k
          /\ ~K!Find(k).found => \A j \in (q + 1)..Len(items) : k < items[j]
    BY <2>1, <1>1, BisectionFinds
  <2>3. K!Find(k).found => k \in K!Range(items)
    BY <2>2, <1>1, RangeOf
  <2>4. ASSUME ~K!Find(k).found PROVE k \notin K!Range(items)
    <3>1. \A j \in 1..Len(items) : items[j] < k \/ k < items[j]
      <4> TAKE j \in 1..Len(items)
      <4>1. j \in 1..q \/ j \in (q + 1)..Len(items)
        BY <1>1
      <4> QED BY <4>1, <2>2, <2>4
    <3>2. \A j \in 1..Len(items) : items[j] # k
      BY <3>1, <1>1, LibraryAssumption
    <3> QED BY <3>2, <1>1, RangeOf
  <2> QED BY <2>3, <2>4
<1>7. ordered /\ kind \in {"SortedSet", "SortedDictionary", "SortedList"} => Increasing(items)
  BY DEF StoreInv
<1> QED BY <1>1, <1>2, <1>3, <1>4, <1>5, <1>6, <1>7 DEF K!CollectionsInv, Once

\* The inductive invariant of an enumeration.  Shown is the number of elements
\* it has moved past and read.
Shown == IF en.ready THEN en.index - 1 ELSE en.index
\* The places of the elements that were seen, in what is enumerated.
Places(p, n) ==
    /\ p \in [1..Len(seen) -> 1..n \cap DOMAIN en.snap]
    /\ \A i, j \in 1..Len(seen) : i < j => p[i] < p[j]
    /\ \A i \in 1..Len(seen) : seen[i] = en.snap[p[i]]
\* What an enumerator has moved past is what its caller was shown.
EnumInv ==
    /\ en \in [on : {"none", "copy", "live"}, ready : BOOLEAN, snap : Seq(Keys), index : Nat]
    /\ seen \in Seq(Keys) /\ intact \in BOOLEAN
    /\ en.on = "none" => ~en.ready
    /\ en.on = "copy" => kind \in K!Snapshots
    /\ en.on = "live" => kind \notin K!DictKinds
    /\ en.ready => en.index >= 1
    /\ en.on = "copy" => (en.ready => en.index <= Len(en.snap)) /\ \E p : Places(p, Shown)
    /\ en.on # "none" /\ intact =>
          /\ en.on = "copy" => en.snap = items
          /\ en.ready => en.index <= Len(items)
          /\ Len(seen) = IF Shown <= Len(items) THEN Shown ELSE Len(items)
          /\ \A i \in 1..Len(seen) : seen[i] = K!InOrder[i]
          /\ ~en.ready /\ call.op = "MoveNext" => Len(seen) = Len(items)

\* An operation that is not the enumerator's.
Beside ==
    /\ kind' = kind /\ en' = en /\ seen' = seen /\ call'.op # "MoveNext"
    /\ intact' = FALSE \/ (intact' = intact /\ items' = items)

\* Every operation but three leaves the enumerator alone.
LEMMA NextIsBeside ==
    ASSUME K!Next
    PROVE  K!GetEnumerator \/ K!MoveNext \/ K!GetCurrent \/ Beside
<1>1. ASSUME K!Changes, call'.op # "MoveNext" PROVE Beside
  BY <1>1 DEF K!Changes, Beside
<1>2. ASSUME K!Leaves, call'.op # "MoveNext" PROVE Beside
  BY <1>2 DEF K!Leaves, K!coll, Beside
<1>3. ASSUME NEW op, NEW arg, NEW out, K!Answer(op, arg, out), op # "MoveNext" PROVE call'.op # "MoveNext"
  BY <1>3 DEF K!Answer
<1>4. ASSUME NEW x, \/ K!ListAdd(x) \/ K!RemoveFirstEqual(x) \/ K!ListRemoveAt(x)
                    \/ K!SetAdd(x) \/ K!Enqueue(x)
      PROVE  Beside
  BY <1>4, <1>1, <1>2, <1>3 DEF K!ListAdd, K!RemoveFirstEqual, K!ListRemoveAt, K!SetAdd, K!Enqueue
<1>5. ASSUME NEW i, NEW x, K!ListSetItem(i, x) \/ K!ListInsert(i, x) PROVE Beside
  BY <1>5, <1>1, <1>2, <1>3 DEF K!ListSetItem, K!ListInsert
<1>6. ASSUME K!ListAddSelf \/ K!ListReverse \/ K!Clear PROVE Beside
  BY <1>6, <1>1, <1>2, <1>3 DEF K!ListAddSelf, K!ListReverse, K!Clear
<1>7. ASSUME NEW t, K!QueueTake(t) \/ K!StackTake(t) PROVE Beside
  BY <1>7, <1>1, <1>2, <1>3 DEF K!QueueTake, K!StackTake
<1>8. ASSUME NEW k, NEW v, K!Put(k, v), call'.op # "MoveNext" PROVE Beside
  <2>1. /\ kind' = kind /\ en' = en /\ seen' = seen /\ intact' = (intact /\ k \in DOMAIN vals)
        /\ k \in DOMAIN vals => items' = items
    BY <1>8 DEF K!Put
  <2>2. intact' = FALSE \/ (intact' = intact /\ items' = items)
    <3>1. CASE k \in DOMAIN vals /\ intact
      BY <2>1, <3>1
    <3>2. CASE ~(k \in DOMAIN vals /\ intact)
      <4>1. (intact /\ k \in DOMAIN vals) = FALSE
        BY <3>2
      <4> QED BY <2>1, <4>1
    <3> QED BY <3>1, <3>2
  <2> QED BY <2>1, <2>2, <1>8 DEF Beside
<1>9. ASSUME NEW k, NEW v, K!DictAdd(k, v) \/ K!DictSetItem(k, v) PROVE Beside
  BY <1>9, <1>2, <1>3, <1>8 DEF K!DictAdd, K!DictSetItem
<1>10. ASSUME NEW k, K!DictRemove(k) \/ K!SortedListRemove(k) PROVE Beside
  BY <1>10, <1>1, <1>2, <1>3 DEF K!DictRemove, K!SortedListRemove
<1>11. ASSUME NEW k, NEW v, K!SortedListAdd(k, v) \/ K!SortedListSetItem(k, v) PROVE Beside
  <2>1. CASE K!SortedListAdd(k, v)
    BY <2>1, <1>1, <1>2, <1>3 DEF K!SortedListAdd, K!InsertEntry
  <2>2. CASE K!SortedListSetItem(k, v)
    <3>1. call'.op # "MoveNext"
      BY <2>2, <1>3 DEF K!SortedListSetItem
    <3>2. \/ K!Leaves \/ K!InsertEntry(K!Find(k).at, k, v)
          \/ UNCHANGED <<kind, ordered, items, en, seen, intact>>
      BY <2>2 DEF K!SortedListSetItem
    <3> QED BY <3>1, <3>2, <1>1, <1>2 DEF K!InsertEntry, Beside
  <2> QED BY <1>11, <2>1, <2>2
<1> QED
  BY <1>4, <1>5, <1>6, <1>7, <1>9, <1>10, <1>11 DEF K!Next, K!ConcurrentQueueTryDequeue, K!Push

\* The order of an enumeration is that of the elements, a stack's the other way round.
LEMMA InOrderFacts ==
    ASSUME items \in Seq(Keys)
    PROVE  /\ K!InOrder \in Seq(Keys) /\ Len(K!InOrder) = Len(items) /\ Len(items) \in Nat
           /\ kind # "Stack" => K!InOrder = items
           /\ kind = "Stack" => \A i \in 1..Len(items) : K!InOrder[i] = items[Len(items) - i + 1]
<1>1. Len(items) \in Nat /\ items \in [1..Len(items) -> Keys]
  BY LenProperties
<1>2. CASE kind # "Stack"
  BY <1>1, <1>2 DEF K!InOrder
<1>3. CASE kind = "Stack"
  <2>1. K!InOrder = [i \in 1..Len(items) |-> items[(Len(items) - i) + 1]]
    BY <1>3 DEF K!InOrder, K!Reverse
  <2>2. \A i \in 1..Len(items) : (Len(items) - i) + 1 \in 1..Len(items)
    BY <1>1
  <2> QED BY <2>1, <2>2, <1>1, <1>3
<1> QED BY <1>2, <1>3

\* It depends on nothing else.
LEMMA InOrderStays ==
    ASSUME items' = items, kind' = kind
    PROVE  K!InOrder' = K!InOrder
BY DEF K!InOrder, K!Reverse

\* What is to be shown of enumerations follows from the invariant.
LEMMA EnumIsFaithful == StoreInv /\ EnumInv => K!EnumerationsAreFaithful
<1> SUFFICES ASSUME StoreInv, EnumInv, en.on # "none" PROVE
      /\ intact => /\ K!IsPrefix(seen, K!InOrder)
                   /\ ~en.ready /\ call.op = "MoveNext" => seen = K!InOrder
      /\ en.on = "copy" =>
            \E places \in [DOMAIN seen -> 1..en.index \cap DOMAIN en.snap] :
                /\ \A m, n \in DOMAIN seen : m < n => places[m] < places[n]
                /\ \A n \in DOMAIN seen : seen[n] = en.snap[places[n]]
  BY DEF K!EnumerationsAreFaithful
<1>1. /\ items \in Seq(Keys) /\ Len(items) \in Nat /\ seen \in Seq(Keys) /\ Len(seen) \in Nat
      /\ DOMAIN seen = 1..Len(seen) /\ en.index \in Nat /\ en.ready \in BOOLEAN
      /\ K!InOrder \in Seq(Keys) /\ Len(K!InOrder) = Len(items)
  BY LenProperties, InOrderFacts DEF StoreInv, EnumInv
<1>2. ASSUME intact
      PROVE  K!IsPrefix(seen, K!InOrder) /\ (~en.ready /\ call.op = "MoveNext" => seen = K!InOrder)
  <2>1. /\ Len(seen) = IF Shown <= Len(items) THEN Shown ELSE Len(items)
        /\ \A i \in 1..Len(seen) : seen[i] = K!InOrder[i]
        /\ ~en.ready /\ call.op = "MoveNext" => Len(seen) = Len(items)
    BY <1>2 DEF EnumInv
  <2>2. Shown \in Int
    BY <1>1 DEF Shown
  <2>3. Len(seen) <= Len(items)
    BY <2>1, <2>2, <1>1
  <2>4. SubSeq(seen, 1, Len(seen)) = seen
    BY <1>1, SubSeqFull
  <2> DEFINE r == SubSeq(K!InOrder, 1, Len(seen))
  <2>5. r \in Seq(Keys) /\ Len(r) = Len(seen) /\ \A i \in 1..Len(seen) : r[i] = K!InOrder[i]
    BY <2>3, <1>1, SubSeqProperties
  <2> HIDE DEF r
  <2>6. r = seen
    BY <2>1, <2>5, <1>1, SeqEqual
  <2>7. K!IsPrefix(seen, K!InOrder)
    BY <2>3, <2>4, <2>6, <1>1 DEF r, K!IsPrefix
  <2>8. Len(seen) = Len(items) => seen = K!InOrder
    BY <2>1, <1>1, SeqEqual
  <2> QED BY <2>1, <2>7, <2>8
<1>3. ASSUME en.on = "copy"
      PROVE  \E places \in [DOMAIN seen -> 1..en.index \cap DOMAIN en.snap] :
                /\ \A m, n \in DOMAIN seen : m < n => places[m] < places[n]
                /\ \A n \in DOMAIN seen : seen[n] = en.snap[places[n]]
  <2>1. PICK p : Places(p, Shown)
    BY <1>3 DEF EnumInv
  <2>2. 1..Shown \subseteq 1..en.index
    BY <1>1 DEF Shown
  <2>3. p \in [DOMAIN seen -> 1..en.index \cap DOMAIN en.snap]
    BY <2>1, <2>2, <1>1 DEF Places
  <2> QED BY <2>1, <2>3, <1>1 DEF Places
<1> QED BY <1>2, <1>3

\* Other operations at most end the promise that nothing is missed.
LEMMA BesideKeepsEnum ==
    ASSUME EnumInv, Beside
    PROVE  EnumInv'
<1>1. en' = en /\ seen' = seen /\ kind' = kind /\ Shown' = Shown
  BY DEF Beside, Shown
<1>2. \A p : Places(p, Shown)' <=> Places(p, Shown)
  BY <1>1 DEF Places
<1>3. en.on = "copy" => \E p : Places(p, Shown)'
  BY <1>2 DEF EnumInv
<1>4. CASE intact' = FALSE
  BY <1>1, <1>3, <1>4 DEF EnumInv
<1>5. CASE intact' = intact /\ items' = items
  <2>1. K!InOrder' = K!InOrder
    BY <1>1, <1>5, InOrderStays
  <2>2. call'.op # "MoveNext"
    BY DEF Beside
  <2> QED BY <1>1, <1>3, <1>5, <2>1, <2>2 DEF EnumInv
<1> QED BY <1>4, <1>5 DEF Beside

\* A new enumerator has shown nothing.
LEMMA GetEnumeratorKeepsEnum ==
    ASSUME StoreInv, EnumInv, K!GetEnumerator
    PROVE  EnumInv'
<1>1. /\ en' = [on |-> IF kind \in K!Snapshots THEN "copy" ELSE "live", ready |-> FALSE,
                snap |-> IF kind \in K!Snapshots THEN items ELSE <<>>, index |-> 0]
      /\ seen' = <<>> /\ intact' = TRUE /\ items' = items /\ kind' = kind
      /\ call'.op = "GetEnumerator"
  BY DEF K!GetEnumerator, K!coll, K!Answer
<1>2. items \in Seq(Keys) /\ Len(items) \in Nat /\ <<>> \in Seq(Keys)
  BY LenProperties DEF StoreInv
<1>3. /\ en' \in [on : {"none", "copy", "live"}, ready : BOOLEAN, snap : Seq(Keys), index : Nat]
      /\ en'.ready = FALSE /\ en'.index = 0 /\ Shown' = 0 /\ en'.on # "none"
      /\ en'.on = "copy" => kind \in K!Snapshots /\ en'.snap = items
      /\ en'.on = "live" => kind \notin K!Snapshots
  BY <1>1, <1>2 DEF Shown
<1>4. Places(<<>>, Shown)'
  BY <1>1, <1>3 DEF Places
<1>5. Len(seen') = 0 /\ 0 <= Len(items)
  BY <1>1, <1>2
<1> QED
  BY <1>1, <1>2, <1>3, <1>4, <1>5 DEF EnumInv, K!Snapshots

\* MoveNext goes one further, or ends when all were shown.
LEMMA MoveNextKeepsEnum ==
    ASSUME StoreInv, EnumInv, K!MoveNext
    PROVE  EnumInv'
<1> DEFINE more == en.index < Len(K!Enumerated)
<1>1. /\ en.on # "none" /\ ~en.ready
      /\ en' = [en EXCEPT !.index = @ + 1, !.ready = more]
      /\ kind' = kind /\ items' = items /\ seen' = seen /\ intact' = intact
  BY DEF K!MoveNext, K!coll
<1>2. /\ en \in [on : {"none", "copy", "live"}, ready : BOOLEAN, snap : Seq(Keys), index : Nat]
      /\ items \in Seq(Keys) /\ Len(items) \in Nat /\ Len(en.snap) \in Nat
      /\ seen \in Seq(Keys) /\ Len(seen) \in Nat
  BY LenProperties DEF StoreInv, EnumInv
<1>3. more \in BOOLEAN
  OBVIOUS
<1>4. K!Enumerated = IF en.on = "copy" THEN en.snap ELSE items
  BY DEF K!Enumerated
<1> HIDE DEF more
<1>5. /\ en' \in [on : {"none", "copy", "live"}, ready : BOOLEAN, snap : Seq(Keys), index : Nat]
      /\ en'.on = en.on /\ en'.snap = en.snap /\ en'.index = en.index + 1 /\ en'.ready = more
  <2>1. en' = [on |-> en.on, ready |-> more, snap |-> en.snap, index |-> en.index + 1]
    BY <1>1, <1>2
  <2>2. en.index + 1 \in Nat /\ en.on \in {"none", "copy", "live"} /\ en.snap \in Seq(Keys)
    BY <1>2
  <2> QED BY <2>1, <2>2, <1>3
<1>6. Shown = en.index /\ Shown' = IF more THEN en.index ELSE en.index + 1
  BY <1>1, <1>2, <1>5 DEF Shown
<1>7. en.on = "copy" => (more => en.index + 1 <= Len(en.snap)) /\ \E p : Places(p, Shown)'
  <2> SUFFICES ASSUME en.on = "copy" PROVE (more => en.index + 1 <= Len(en.snap)) /\ \E p : Places(p, Shown)'
    OBVIOUS
  <2>1. more => en.index + 1 <= Len(en.snap)
    BY <1>2, <1>4 DEF more
  <2>2. PICK p : Places(p, Shown)
    BY DEF EnumInv
  <2>3. 1..Shown \subseteq 1..Shown'
    BY <1>2, <1>6
  <2>4. Places(p, Shown)'
    BY <2>2, <2>3, <1>1, <1>5 DEF Places
  <2> QED BY <2>1, <2>4
<1>8. K!InOrder' = K!InOrder
  BY <1>1, InOrderStays
<1>9. intact => /\ more <=> en.index < Len(items)
                /\ Len(seen) = IF en.index <= Len(items) THEN en.index ELSE Len(items)
                /\ \A i \in 1..Len(seen) : seen[i] = K!InOrder[i]
  BY <1>1, <1>4, <1>6 DEF EnumInv, more
<1>10. intact => /\ more => en.index + 1 <= Len(items) /\ Len(seen) = en.index /\ en.index <= Len(items)
                 /\ ~more => Len(seen) = Len(items) /\ ~(en.index + 1 <= Len(items))
  BY <1>2, <1>9
<1>11. intact' => /\ en'.on = "copy" => en'.snap = items'
                  /\ en'.ready => en'.index <= Len(items')
                  /\ Len(seen') = IF Shown' <= Len(items') THEN Shown' ELSE Len(items')
                  /\ \A i \in 1..Len(seen') : seen'[i] = K!InOrder'[i]
                  /\ ~en'.ready /\ call'.op = "MoveNext" => Len(seen') = Len(items')
  <2> SUFFICES ASSUME intact'
               PROVE  /\ en'.on = "copy" => en'.snap = items'
                      /\ en'.ready => en'.index <= Len(items')
                      /\ Len(seen') = IF Shown' <= Len(items') THEN Shown' ELSE Len(items')
                      /\ \A i \in 1..Len(seen') : seen'[i] = K!InOrder'[i]
                      /\ ~en'.ready /\ call'.op = "MoveNext" => Len(seen') = Len(items')
    OBVIOUS
  <2>1. intact /\ (en.on = "copy" => en.snap = items)
    BY <1>1 DEF EnumInv
  <2>2. Len(seen) = IF Shown' <= Len(items) THEN Shown' ELSE Len(items)
    BY <2>1, <1>6, <1>10
  <2> QED BY <2>1, <2>2, <1>1, <1>5, <1>8, <1>9, <1>10
<1>12. en'.ready => en'.index >= 1
  BY <1>2, <1>5
<1> QED
  BY <1>1, <1>2, <1>5, <1>7, <1>11, <1>12 DEF EnumInv

\* Current shows what MoveNext moved to.
LEMMA GetCurrentKeepsEnum ==
    ASSUME StoreInv, EnumInv, K!GetCurrent
    PROVE  EnumInv'
<1>1. /\ en.ready /\ en' = [en EXCEPT !.ready = FALSE]
      /\ kind' = kind /\ items' = items /\ intact' = intact /\ call'.op = "GetCurrent"
      /\ IF en.index > Len(K!Enumerated) \/ (kind \in K!DictKinds /\ K!Current \notin DOMAIN vals)
         THEN seen' = seen ELSE seen' = Append(seen, K!Current)
  BY DEF K!GetCurrent, K!coll, K!Answer
<1>2. /\ en \in [on : {"none", "copy", "live"}, ready : BOOLEAN, snap : Seq(Keys), index : Nat]
      /\ items \in Seq(Keys) /\ Len(items) \in Nat /\ en.snap \in Seq(Keys) /\ Len(en.snap) \in Nat
      /\ seen \in Seq(Keys) /\ Len(seen) \in Nat /\ en.index >= 1 /\ en.index \in Nat /\ en.on # "none"
      /\ DOMAIN en.snap = 1..Len(en.snap) /\ intact \in BOOLEAN
  BY <1>1, LenProperties DEF StoreInv, EnumInv
<1>3. K!Enumerated = IF en.on = "copy" THEN en.snap ELSE items
  BY DEF K!Enumerated
<1>4. /\ en' \in [on : {"none", "copy", "live"}, ready : BOOLEAN, snap : Seq(Keys), index : Nat]
      /\ en'.on = en.on /\ en'.snap = en.snap /\ en'.index = en.index /\ en'.ready = FALSE
  BY <1>1, <1>2
<1>5. Shown = en.index - 1 /\ Shown' = en.index
  BY <1>1, <1>2, <1>4 DEF Shown
<1>6. en.on = "copy" => kind \in K!Snapshots /\ kind # "Stack"
  BY DEF EnumInv, K!Snapshots, K!DictKinds
<1>7. ASSUME ~(en.index > Len(K!Enumerated))
      PROVE  K!Current \in Keys /\ (kind # "Stack" => K!Current = K!Enumerated[en.index])
  <2>1. en.index \in 1..Len(K!Enumerated) /\ K!Enumerated \in Seq(Keys)
    BY <1>2, <1>3, <1>7
  <2>2. CASE kind = "Stack"
    <3>1. Len(items) - en.index + 1 \in 1..Len(items)
      BY <2>1, <2>2, <1>2, <1>3, <1>6
    <3> QED BY <2>2, <3>1, <1>2, ElementOfSeq DEF K!Current
  <2>3. CASE kind # "Stack"
    BY <2>1, <2>3, ElementOfSeq DEF K!Current
  <2> QED BY <2>2, <2>3
<1>8. \/ seen' = seen
      \/ ~(en.index > Len(K!Enumerated)) /\ seen' = Append(seen, K!Current) /\ K!Current \in Keys
  BY <1>1, <1>7
<1>9. seen' \in Seq(Keys)
  <2>1. CASE seen' = seen
    BY <2>1, <1>2
  <2>2. CASE seen' = Append(seen, K!Current) /\ K!Current \in Keys
    BY <2>2, <1>2
  <2> QED BY <1>8, <2>1, <2>2
<1>10. ASSUME en.on = "copy" PROVE \E p : Places(p, Shown)'
  <2>1. PICK p : Places(p, en.index - 1)
    BY <1>5, <1>10 DEF EnumInv
  <2>2. /\ p \in [1..Len(seen) -> 1..(en.index - 1) \cap DOMAIN en.snap]
        /\ \A i, j \in 1..Len(seen) : i < j => p[i] < p[j]
        /\ \A i \in 1..Len(seen) : seen[i] = en.snap[p[i]]
    BY <2>1 DEF Places
  <2>3. CASE seen' = seen
    <3>1. 1..(en.index - 1) \subseteq 1..en.index
      BY <1>2
    <3>2. Places(p, Shown)'
      BY <2>2, <2>3, <3>1, <1>4, <1>5 DEF Places
    <3> QED BY <3>2
  <2>4. CASE ~(en.index > Len(K!Enumerated)) /\ seen' = Append(seen, K!Current) /\ K!Current \in Keys
    <3> DEFINE n == Len(seen) + 1
    <3>0. PICK r : r = [i \in 1..n |-> IF i <= Len(seen) THEN p[i] ELSE en.index]
      OBVIOUS
    <3>1. en.index \in 1..en.index /\ en.index \in DOMAIN en.snap /\ K!Current = en.snap[en.index]
      BY <2>4, <1>2, <1>3, <1>6, <1>7, <1>10
    <3>2. /\ Len(seen') = n /\ seen'[n] = K!Current /\ \A i \in 1..Len(seen) : seen'[i] = seen[i]
      BY <2>4, <1>2
    <3>3. \A i \in 1..n : i \in 1..Len(seen) \/ i = n
      BY <1>2
    <3>4. \A i \in 1..Len(seen) : r[i] = p[i] /\ p[i] \in 1..(en.index - 1) /\ p[i] \in DOMAIN en.snap
      <4> TAKE i \in 1..Len(seen)
      <4>1. i \in 1..n /\ i <= Len(seen)
        BY <1>2
      <4>2. r[i] = p[i]
        BY <3>0, <4>1
      <4>3. p[i] \in 1..(en.index - 1) \cap DOMAIN en.snap
        BY <2>2
      <4> QED BY <4>2, <4>3
    <3>5. r[n] = en.index
      BY <3>0, <1>2
    <3>6. \A i \in 1..n : r[i] \in 1..en.index \cap DOMAIN en.snap
      <4> TAKE i \in 1..n
      <4>1. CASE i \in 1..Len(seen)
        <5>1. r[i] \in 1..(en.index - 1) /\ r[i] \in DOMAIN en.snap
          BY <4>1, <3>4
        <5>2. 1..(en.index - 1) \subseteq 1..en.index
          BY <1>2
        <5> QED BY <5>1, <5>2
      <4>2. CASE i = n
        BY <4>2, <3>1, <3>5
      <4> QED BY <4>1, <4>2, <3>3
    <3>7. r \in [1..n -> 1..en.index \cap DOMAIN en.snap]
      BY <3>0, <3>6
    <3> HIDE DEF n
    <3>8. \A i, j \in 1..n : i < j => r[i] < r[j]
      <4> TAKE i \in 1..n, j \in 1..n
      <4> SUFFICES ASSUME i < j PROVE r[i] < r[j]
        OBVIOUS
      <4>1. i \in 1..Len(seen)
        BY <3>3, <1>2 DEF n
      <4>2. CASE j = n
        BY <4>1, <4>2, <3>4, <3>5, <1>2
      <4>3. CASE j \in 1..Len(seen)
        BY <4>1, <4>3, <3>4, <2>2
      <4> QED BY <3>3, <4>2, <4>3
    <3>9. \A i \in 1..n : seen'[i] = en.snap[r[i]]
      BY <3>1, <3>2, <3>3, <3>4, <3>5, <2>2
    <3>10. Places(r, Shown)'
      BY <3>2, <3>7, <3>8, <3>9, <1>4, <1>5 DEF Places
    <3> QED BY <3>10
  <2> QED BY <2>3, <2>4, <1>8
<1>11. K!InOrder' = K!InOrder
  BY <1>1, InOrderStays
<1>12. ASSUME intact
       PROVE  /\ en.on = "copy" => en.snap = items
              /\ Len(seen') = en.index /\ en.index <= Len(items)
              /\ \A i \in 1..Len(seen') : seen'[i] = K!InOrder[i]
  <2>1. /\ en.on = "copy" => en.snap = items
        /\ en.index <= Len(items)
        /\ Len(seen) = IF en.index - 1 <= Len(items) THEN en.index - 1 ELSE Len(items)
        /\ \A i \in 1..Len(seen) : seen[i] = K!InOrder[i]
    BY <1>1, <1>2, <1>5, <1>12 DEF EnumInv
  <2>2. K!Enumerated = items /\ ~(en.index > Len(K!Enumerated)) /\ en.index \in 1..Len(items)
    BY <2>1, <1>2, <1>3
  <2>3. K!Current = K!InOrder[en.index]
    <3>1. CASE kind = "Stack"
      BY <3>1, <2>2, <1>2, InOrderFacts DEF K!Current
    <3>2. CASE kind # "Stack"
      BY <3>2, <2>2, <1>2, InOrderFacts DEF K!Current
    <3> QED BY <3>1, <3>2
  <2>4. kind \in K!DictKinds => K!Current \in DOMAIN vals
    <3> SUFFICES ASSUME kind \in K!DictKinds PROVE K!Current \in DOMAIN vals
      OBVIOUS
    <3>1. kind # "Stack"
      BY DEF K!DictKinds
    <3>2. K!Current = items[en.index] /\ DOMAIN vals = K!Range(items)
      BY <3>1, <2>2, <1>7 DEF StoreInv
    <3> QED BY <3>2, <2>2, <1>2, RangeOf
  <2>5. seen' = Append(seen, K!Current) /\ K!Current \in Keys
    BY <2>2, <2>4, <1>1, <1>7
  <2>6. Len(seen) = en.index - 1
    BY <2>1, <1>2
  <2>7. Len(seen') = en.index /\ seen'[en.index] = K!Current /\ \A i \in 1..(en.index - 1) : seen'[i] = seen[i]
    BY <2>5, <2>6, <1>2
  <2>8. \A i \in 1..en.index : seen'[i] = K!InOrder[i]
    <3> TAKE i \in 1..en.index
    <3>1. i = en.index \/ i \in 1..(en.index - 1)
      BY <1>2
    <3> QED BY <3>1, <2>1, <2>3, <2>6, <2>7
  <2> QED BY <2>1, <2>7, <2>8
<1>13. intact' => /\ en'.on = "copy" => en'.snap = items'
                  /\ en'.ready => en'.index <= Len(items')
                  /\ Len(seen') = IF Shown' <= Len(items') THEN Shown' ELSE Len(items')
                  /\ \A i \in 1..Len(seen') : seen'[i] = K!InOrder'[i]
                  /\ ~en'.ready /\ call'.op = "MoveNext" => Len(seen') = Len(items')
  BY <1>1, <1>4, <1>5, <1>11, <1>12
<1>14. /\ en'.on # "none" /\ ~en'.ready /\ intact' \in BOOLEAN
       /\ en'.on = "copy" => kind' \in K!Snapshots
       /\ en'.on = "live" => kind' \notin K!DictKinds
  BY <1>1, <1>2, <1>4 DEF EnumInv
<1> QED
  BY <1>4, <1>9, <1>10, <1>13, <1>14 DEF EnumInv

\* The inductive invariant of a collection.
CollectionInv == StoreInv /\ EnumInv

\* An empty collection is what its kind promises.
LEMMA CollectionInit == K!Init => CollectionInv /\ K!Promise!CInit
<1> SUFFICES ASSUME K!Init PROVE CollectionInv /\ K!Promise!CInit
  OBVIOUS
<1>1. /\ kind \in K!Kinds /\ ordered \in BOOLEAN /\ items = <<>> /\ vals = <<>>
      /\ en = [on |-> "none", ready |-> FALSE, snap |-> <<>>, index |-> 0]
      /\ seen = <<>> /\ intact = TRUE /\ call.op = "none"
  BY DEF K!Init, K!NoEnumerator, K!NoCall
<1>2. <<>> \in Seq(Keys) /\ <<>> \in Seq(Data) /\ Len(<<>>) = 0 /\ MaxItems \in Nat /\ <<>> \in [{} -> Data]
  BY LibraryAssumption
<1>3. StoreInv
  BY <1>1, <1>2, NothingInIt DEF StoreInv
<1>4. EnumInv
  BY <1>1, <1>2 DEF EnumInv
<1>5. kind \in K!ListKinds \union K!SetKinds \union K!DictKinds \union {"SortedList", "Queue", "ConcurrentQueue", "Stack"}
  BY <1>1 DEF K!Kinds
<1>6. K!Content = IF K!Family = "set" THEN {} ELSE <<>>
  <2>1. CASE kind \in K!ListKinds
    BY <2>1, <1>1, Families
  <2>2. CASE kind \in K!SetKinds
    BY <2>2, <1>1, Families, NothingInIt
  <2>3. CASE kind \in K!DictKinds
    BY <2>3, <1>1, Families
  <2>4. CASE kind = "SortedList"
    BY <2>4, <1>1, Families, NothingInIt
  <2>5. CASE kind \in {"Queue", "ConcurrentQueue"}
    BY <2>5, <1>1, Families
  <2>6. CASE kind = "Stack"
    BY <2>6, <1>1, Families
  <2> QED BY <1>5, <2>1, <2>2, <2>3, <2>4, <2>5, <2>6
<1> QED BY <1>1, <1>3, <1>4, <1>6 DEF CollectionInv, K!Promise!CInit

\* Every operation keeps the invariant, and does what the collection's kind promises.
LEMMA CollectionStep ==
    ASSUME CollectionInv, K!Next
    PROVE  CollectionInv' /\ K!Promise!CNext
<1>1. StoreInv /\ EnumInv
  BY DEF CollectionInv
<1>2. EnumInv'
  BY <1>1, NextIsBeside, BesideKeepsEnum, GetEnumeratorKeepsEnum, MoveNextKeepsEnum, GetCurrentKeepsEnum
<1>3. StoreInv' /\ K!Promise!CNext
  <2>1. CASE /\ kind \in K!ListKinds
             /\ \/ \E x \in Keys : K!ListAdd(x) \/ K!RemoveFirstEqual(x)
                \/ \E i \in 0..MaxItems : K!ListRemoveAt(i)
                \/ \E i \in 0..MaxItems, x \in Keys : K!ListSetItem(i, x) \/ K!ListInsert(i, x)
                \/ kind = "List" /\ (K!ListAddSelf \/ K!ListReverse)
    BY <2>1, <1>1, ListStep
  <2>2. CASE kind \in K!SetKinds /\ \E x \in Keys : K!SetAdd(x) \/ K!RemoveFirstEqual(x)
    BY <2>2, <1>1, SetStep
  <2>3. CASE /\ kind \in K!DictKinds
             /\ \E k \in Keys : K!DictRemove(k) \/ \E v \in Data : K!DictAdd(k, v) \/ K!DictSetItem(k, v)
    BY <2>3, <1>1, DictStep
  <2>4. CASE /\ kind = "SortedList"
             /\ \E k \in Keys : \/ K!SortedListRemove(k)
                                \/ \E v \in Data : K!SortedListAdd(k, v) \/ K!SortedListSetItem(k, v)
    BY <2>4, <1>1, SortedListStep
  <2>5. CASE \/ kind = "Queue" /\ (\E tries \in BOOLEAN : K!QueueTake(tries))
             \/ kind = "ConcurrentQueue" /\ K!ConcurrentQueueTryDequeue
             \/ kind \in {"Queue", "ConcurrentQueue"} /\ \E x \in Keys : K!Enqueue(x)
    BY <2>5, <1>1, EndsStep DEF K!ConcurrentQueueTryDequeue
  <2>6. CASE kind = "Stack" /\ ((\E x \in Keys : K!Push(x)) \/ \E tries \in BOOLEAN : K!StackTake(tries))
    BY <2>6, <1>1, EndsStep DEF K!Push
  <2>7. CASE kind # "Queue" /\ K!Clear
    BY <2>7, <1>1, ClearStep
  <2>8. CASE K!GetEnumerator \/ K!MoveNext \/ K!GetCurrent
    BY <2>8, <1>1, EnumeratorStep
  <2> QED BY <2>1, <2>2, <2>3, <2>4, <2>5, <2>6, <2>7, <2>8 DEF K!Next
<1> QED BY <1>2, <1>3 DEF CollectionInv

\* Calls that change nothing.
LEMMA CollectionStays ==
    ASSUME CollectionInv, UNCHANGED K!vars
    PROVE  CollectionInv' /\ UNCHANGED <<K!Family, K!Content, call>>
<1>1. /\ UNCHANGED K!coll /\ kind' = kind /\ items' = items
      /\ en' = en /\ seen' = seen /\ intact' = intact /\ call' = call
  BY DEF K!vars, K!coll
<1>2. StoreInv' /\ K!Family' = K!Family /\ K!Content' = K!Content
  BY <1>1, StoreStays DEF CollectionInv
<1>3. Shown' = Shown /\ K!InOrder' = K!InOrder
  BY <1>1, InOrderStays DEF Shown
<1>4. \A p : Places(p, Shown)' <=> Places(p, Shown)
  BY <1>1, <1>3 DEF Places
<1>5. EnumInv'
  BY <1>1, <1>3, <1>4 DEF CollectionInv, EnumInv
<1> QED BY <1>1, <1>2, <1>5 DEF CollectionInv

\* What is to be shown of collections follows from the invariant.
LEMMA CollectionIsSound == CollectionInv => K!CollectionsInv /\ K!EnumerationsAreFaithful
BY StoreIsSound, EnumIsFaithful DEF CollectionInv

\* A collection is stored as its kind demands, and an enumeration of one misses
\* nothing, and shows nothing twice or removed: for any keys, values and sizes.
THEOREM CollectionsAreSound == K!Spec => [](K!CollectionsInv /\ K!EnumerationsAreFaithful)
<1>1. K!Init => CollectionInv
  BY CollectionInit
<1>2. CollectionInv /\ [K!Next]_K!vars => CollectionInv'
  BY CollectionStep, CollectionStays
<1> QED
  BY <1>1, <1>2, CollectionIsSound, PTL DEF K!Spec

\* Thirteen kinds of collections, kept as sequences in four ways, do to lists, sets,
\* maps, queues and stacks what these promise, and answer so.
THEOREM CollectionsKeepTheContract == K!Spec => K!ImplementsContract
<1>1. K!Init => CollectionInv /\ K!Promise!CInit
  BY CollectionInit
<1>2. ASSUME CollectionInv, [K!Next]_K!vars
      PROVE  CollectionInv' /\ [K!Promise!CNext]_<<K!Family, K!Content, call>>
  BY <1>2, CollectionStep, CollectionStays
<1> QED
  BY <1>1, <1>2, PTL DEF K!Spec, K!ImplementsContract, K!Promise!Spec, K!Promise!cvars

(***************************************************************************)
(* Streams and their readers                                               *)
(***************************************************************************)

\* A set of numbers that has a bound has a greatest one.
LEMMA GreatestNumber ==
    ASSUME NEW n \in Nat, NEW S \in SUBSET (0..n), S # {}
    PROVE  \E p \in S : \A q \in S : q <= p
<1> DEFINE D == {n - k : k \in S}
<1>1. D \in SUBSET Nat /\ D # {}
  <2>1. \A k \in S : n - k \in Nat
    OBVIOUS
  <2>2. PICK k \in S : TRUE
    OBVIOUS
  <2> QED BY <2>1, <2>2
<1>2. PICK d \in D : \A e \in D : d <= e
  BY <1>1, LeastNumber
<1>3. PICK p \in S : d = n - p
  BY <1>2
<1>4. \A q \in S : n - p <= n - q
  BY <1>2, <1>3
<1> QED BY <1>4

\* Streams looks for the greatest with Max.
LEMMA MaxIs ==
    ASSUME NEW S \in SUBSET Int, NEW m \in S, \A j \in S : j <= m
    PROVE  Str!Max(S) = m
<1>1. m \in S /\ \A y \in S : m >= y
  OBVIOUS
<1>2. \A x \in S : (\A y \in S : x >= y) => x = m
  OBVIOUS
<1> QED BY <1>1, <1>2 DEF Str!Max

\* What was done to a stream: one entry of its history.
Entry == [op : {"write", "length"}, at : Nat, bytes : Seq(Int)]
\* Whether it decided what is in place i.
Touches(e, i) == IF e.op = "write" THEN i - e.at \in DOMAIN e.bytes ELSE i > e.at
\* The entries that did.
Touching(l, i) == {k \in DOMAIN l : Touches(l[k], i)}
\* What is in place i, by the last entry that touched it.
ByteOf(l, i) ==
    LET latest == l[Str!Max(Touching(l, i))]
    IN IF Touching(l, i) = {} \/ latest.op = "length" THEN 0 ELSE latest.bytes[i - latest.at]
\* The entries since the last time the stream was cut.
Since(l) == {k \in DOMAIN l : \A c \in {c \in DOMAIN l : l[c].op = "length"} : c <= k}
\* How far an entry reaches.
EndOf(e) == e.at + Len(e.bytes)
\* m is the greatest place of the entries since the last cut.
Reaches(l, m) ==
    /\ \E k \in Since(l) : m = EndOf(l[k])
    /\ \A k \in Since(l) : EndOf(l[k]) <= m

\* These are ByteAt and LengthNow of Streams.
LEMMA ByteAtIs == \A i : Str!ByteAt(i) = ByteOf(wrote, i) /\ Str!ByteAt(i)' = ByteOf(wrote', i)
BY DEF Str!ByteAt, ByteOf, Touching, Touches

\* The stream is as long as the entries since the last cut reach.
LEMMA LengthNowIs ==
    ASSUME wrote \in Seq(Entry), NEW m \in Nat, Reaches(wrote, m)
    PROVE  Str!LengthNow = m
<1> DEFINE E == {EndOf(wrote[k]) : k \in Since(wrote)}
<1>1. Str!LengthNow = Str!Max(E)
  BY DEF Str!LengthNow, Since, EndOf
<1>2. \A k \in DOMAIN wrote : EndOf(wrote[k]) \in Nat
  <2> TAKE k \in DOMAIN wrote
  <2>1. wrote[k] \in Entry
    OBVIOUS
  <2> QED BY <2>1, LenProperties DEF Entry, EndOf
<1>3. E \in SUBSET Int
  BY <1>2 DEF Since
<1>4. m \in E /\ \A j \in E : j <= m
  BY DEF Reaches
<1> HIDE DEF E
<1> QED BY <1>1, <1>3, <1>4, MaxIs

\* The history with one more entry.
LEMMA AppendEntry ==
    ASSUME NEW l \in Seq(Entry), NEW e \in Entry
    PROVE  /\ Append(l, e) \in Seq(Entry) /\ Len(l) \in Nat /\ DOMAIN l = 1..Len(l)
           /\ DOMAIN Append(l, e) = 1..(Len(l) + 1) /\ Append(l, e)[Len(l) + 1] = e
           /\ \A k \in 1..Len(l) : Append(l, e)[k] = l[k]
           /\ \A k \in 1..Len(l) : l[k] \in Entry
BY LenProperties

\* Of an entry that comes last the places it touches have its bytes, no other.
LEMMA ByteAfter ==
    ASSUME NEW l \in Seq(Entry), NEW e \in Entry, NEW i \in Int
    PROVE  ByteOf(Append(l, e), i) =
              IF ~Touches(e, i) THEN ByteOf(l, i) ELSE IF e.op = "length" THEN 0 ELSE e.bytes[i - e.at]
<1> DEFINE n == Len(l)
           r == Append(l, e)
<1>1. /\ n \in Nat /\ DOMAIN l = 1..n /\ DOMAIN r = 1..(n + 1) /\ r[n + 1] = e
      /\ \A k \in 1..n : r[k] = l[k]
  BY AppendEntry
<1> HIDE DEF n, r
<1>2. ByteOf(r, i) = IF Touching(r, i) = {} \/ r[Str!Max(Touching(r, i))].op = "length" THEN 0
                     ELSE r[Str!Max(Touching(r, i))].bytes[i - r[Str!Max(Touching(r, i))].at]
  BY DEF ByteOf
<1>3. CASE Touches(e, i)
  <2>1. n + 1 \in Touching(r, i) /\ Touching(r, i) \in SUBSET Int /\ \A k \in Touching(r, i) : k <= n + 1
    BY <1>1, <1>3 DEF Touching
  <2>2. Str!Max(Touching(r, i)) = n + 1
    BY <2>1, MaxIs
  <2> QED BY <1>1, <1>2, <1>3, <2>1, <2>2 DEF r
<1>4. CASE ~Touches(e, i)
  <2>1. Touching(r, i) = Touching(l, i)
    BY <1>1, <1>4 DEF Touching
  <2>2. CASE Touching(l, i) = {}
    BY <2>1, <2>2, <1>2, <1>4 DEF ByteOf, r
  <2>3. CASE Touching(l, i) # {}
    <3>1. Touching(l, i) \in SUBSET (0..n) /\ Touching(l, i) \subseteq 1..n /\ Touching(l, i) \in SUBSET Int
      BY <1>1 DEF Touching
    <3>2. PICK m \in Touching(l, i) : \A k \in Touching(l, i) : k <= m
      BY <3>1, <2>3, <1>1, GreatestNumber
    <3>3. Str!Max(Touching(l, i)) = m
      BY <3>1, <3>2, MaxIs
    <3>4. r[m] = l[m]
      BY <3>1, <3>2, <1>1
    <3> QED BY <2>1, <2>3, <3>3, <3>4, <1>2, <1>4 DEF ByteOf, r
  <2> QED BY <2>2, <2>3
<1> QED BY <1>3, <1>4

\* A write makes the stream as long as it reaches, if it was shorter; a cut, as long
\* as it says.
LEMMA ReachesAfter ==
    ASSUME NEW l \in Seq(Entry), NEW e \in Entry, NEW m \in Nat, Reaches(l, m)
    PROVE  /\ e.op = "write" => Reaches(Append(l, e), Str!Greatest(m, EndOf(e)))
           /\ e.op = "length" => Reaches(Append(l, e), EndOf(e))
<1> DEFINE n == Len(l)
           r == Append(l, e)
<1>1. /\ n \in Nat /\ DOMAIN l = 1..n /\ DOMAIN r = 1..(n + 1) /\ r[n + 1] = e
      /\ \A k \in 1..n : r[k] = l[k]
      /\ \A k \in 1..n : l[k] \in Entry
  BY AppendEntry
<1>2. EndOf(e) \in Nat /\ \A k \in 1..n : EndOf(l[k]) \in Nat
  BY <1>1, LenProperties DEF EndOf, Entry
<1> HIDE DEF n, r
<1>3. ASSUME e.op = "write" PROVE Reaches(r, Str!Greatest(m, EndOf(e)))
  <2>1. Since(r) = Since(l) \union {n + 1}
    <3>1. {c \in DOMAIN r : r[c].op = "length"} = {c \in DOMAIN l : l[c].op = "length"}
      BY <1>1, <1>3
    <3> DEFINE C == {c \in DOMAIN l : l[c].op = "length"}
    <3>2. \A c \in C : c \in 1..n
      BY <1>1
    <3>3. Since(r) = {k \in 1..(n + 1) : \A c \in C : c <= k} /\ Since(l) = {k \in 1..n : \A c \in C : c <= k}
      BY <3>1, <1>1 DEF Since
    <3> HIDE DEF C
    <3>4. \A c \in C : c <= n + 1
      BY <3>2, <1>1
    <3>5. 1..(n + 1) = 1..n \union {n + 1}
      BY <1>1
    <3> QED BY <3>3, <3>4, <3>5
  <2>2. Since(l) \subseteq 1..n
    BY <1>1 DEF Since
  <2>3. \A k \in Since(l) : r[k] = l[k] /\ EndOf(l[k]) \in Nat /\ EndOf(l[k]) <= m
    BY <2>2, <1>1, <1>2 DEF Reaches
  <2>4. PICK p \in Since(l) : m = EndOf(l[p])
    BY DEF Reaches
  <2> DEFINE g == Str!Greatest(m, EndOf(e))
  <2>5. g \in {m, EndOf(e)} /\ m <= g /\ EndOf(e) <= g
    BY <1>2 DEF Str!Greatest
  <2>6. \A k \in Since(r) : EndOf(r[k]) <= g
    <3> TAKE k \in Since(r)
    <3>1. CASE k = n + 1
      BY <3>1, <2>5, <1>1
    <3>2. CASE k \in Since(l)
      BY <3>2, <2>3, <2>5, <1>2
    <3> QED BY <3>1, <3>2, <2>1
  <2>7. \E k \in Since(r) : g = EndOf(r[k])
    <3>1. CASE g = m
      BY <3>1, <2>1, <2>3, <2>4
    <3>2. CASE g = EndOf(e)
      BY <3>2, <2>1, <1>1
    <3> QED BY <2>5, <3>1, <3>2
  <2> QED BY <2>6, <2>7 DEF Reaches
<1>4. ASSUME e.op = "length" PROVE Reaches(r, EndOf(e))
  <2>1. Since(r) = {n + 1}
    <3>1. n + 1 \in {c \in DOMAIN r : r[c].op = "length"} /\ \A c \in DOMAIN r : c <= n + 1
      BY <1>1, <1>4
    <3>2. \A k \in 1..(n + 1) : n + 1 <= k => k = n + 1
      BY <1>1
    <3>3. n + 1 \in Since(r)
      BY <3>1 DEF Since
    <3>4. \A k \in Since(r) : k = n + 1
      BY <3>1, <3>2, <1>1 DEF Since
    <3> QED BY <3>3, <3>4
  <2> QED BY <2>1, <1>1, <1>2 DEF Reaches
<1> QED BY <1>3, <1>4 DEF r

\* What the last call that read gave is what is in the stream.
Tells(r, p) ==
    /\ r.op \in {"read", "copy"} =>
          /\ r.from \in Nat
          /\ \A i \in DOMAIN r.got : i \in Nat \ {0} /\ r.got[i] = ByteOf(wrote, r.from + i)
    /\ r.op = "read" => p = r.from + Len(r.got)
    /\ r.op = "byte" => IF r.from < Len(buf) THEN r.got = <<ByteOf(wrote, p)>> /\ p = r.from + 1
                        ELSE r.got = <<-1>> /\ p = r.from
\* The inductive invariant of a stream: its bytes are those of its history, also
\* beyond its end, where they are zero.
StreamInv ==
    /\ buf \in Seq(Int) /\ pos \in Int
    /\ wrote \in Seq(Entry) /\ Reaches(wrote, Len(buf))
    /\ \A i \in Nat \ {0} : ByteOf(wrote, i) = IF i <= Len(buf) THEN buf[i] ELSE 0
    /\ Tells(last, pos)

\* What is to be shown of the stream follows from the invariant.
LEMMA StreamIsSound == StreamInv => Str!BytesAreTheLastWritten
<1> SUFFICES ASSUME StreamInv PROVE Str!BytesAreTheLastWritten
  OBVIOUS
<1>1. Len(buf) \in Nat /\ DOMAIN buf = 1..Len(buf)
  BY LenProperties DEF StreamInv
<1>2. Str!LengthNow = Len(buf)
  BY <1>1, LengthNowIs DEF StreamInv
<1>3. \A i : Str!ByteAt(i) = ByteOf(wrote, i)
  BY ByteAtIs
<1>4. \A i \in DOMAIN buf : buf[i] = ByteOf(wrote, i)
  <2> TAKE i \in DOMAIN buf
  <2>1. i \in Nat \ {0} /\ i <= Len(buf)
    BY <1>1
  <2> QED BY <2>1 DEF StreamInv
<1>5. Tells(last, pos)
  BY DEF StreamInv
<1> QED BY <1>1, <1>2, <1>3, <1>4, <1>5 DEF Str!BytesAreTheLastWritten, Tells

\* A stream made of bytes has them.
LEMMA StreamInit == Str!Init => StreamInv
<1> SUFFICES ASSUME Str!Init PROVE StreamInv
  OBVIOUS
<1>1. /\ buf \in Seq(Int) /\ pos = 0 /\ last.op = "none"
      /\ wrote = <<[op |-> "write", at |-> 0, bytes |-> buf]>>
  <2>1. buf \in Contents \cup {<<>>} /\ pos = 0 /\ last = Str!Quiet
    BY DEF Str!Init
  <2>2. wrote = <<[op |-> "write", at |-> 0, bytes |-> buf]>>
    BY DEF Str!Init
  <2>3. buf \in Seq(Int)
    <3>1. Contents \subseteq Seq(Int)
      BY LibraryAssumption
    <3>2. <<>> \in Seq(Int)
      OBVIOUS
    <3> QED BY <3>1, <3>2, <2>1
  <2>4. Str!Quiet.op = "none"
    BY DEF Str!Quiet, Str!Did
  <2> QED BY <2>1, <2>2, <2>3, <2>4
<1> DEFINE e == [op |-> "write", at |-> 0, bytes |-> buf]
<1>2. e \in Entry /\ e.op = "write" /\ e.at = 0 /\ e.bytes = buf
  BY <1>1 DEF Entry
<1> HIDE DEF e
<1>3. wrote = <<e>>
  BY <1>1 DEF e
<1>4. wrote \in Seq(Entry) /\ DOMAIN wrote = {1} /\ wrote[1] = e
  BY <1>2, <1>3
<1>5. Len(buf) \in Nat /\ DOMAIN buf = 1..Len(buf)
  BY <1>1, LenProperties
<1>6. Since(wrote) = {1}
  BY <1>2, <1>4 DEF Since
<1>7. Reaches(wrote, Len(buf))
  BY <1>2, <1>4, <1>5, <1>6 DEF Reaches, EndOf
<1>8. \A i \in Nat \ {0} : ByteOf(wrote, i) = IF i <= Len(buf) THEN buf[i] ELSE 0
  <2> TAKE i \in Nat \ {0}
  <2>1. Touching(wrote, i) = IF i <= Len(buf) THEN {1} ELSE {}
    BY <1>2, <1>4, <1>5 DEF Touching, Touches
  <2>2. Str!Max({1}) = 1
    BY MaxIs
  <2>3. CASE i <= Len(buf)
    BY <2>1, <2>2, <2>3, <1>2, <1>4 DEF ByteOf
  <2>4. CASE ~(i <= Len(buf))
    BY <2>1, <2>4 DEF ByteOf
  <2> QED BY <2>3, <2>4
<1>9. Tells(last, pos)
  BY <1>1 DEF Tells
<1> QED BY <1>1, <1>4, <1>7, <1>8, <1>9 DEF StreamInv

\* A write sets what it covers, zero between the end and its place, and no other.
LEMMA WriteKeeps ==
    ASSUME StreamInv, NEW s \in Pieces, Str!msWrite(s)
    PROVE  StreamInv'
<1> DEFINE n == Len(buf)
           size == Str!Greatest(n, pos + Len(s))
           e == [op |-> "write", at |-> pos, bytes |-> s]
<1>1. /\ pos \in 0..MaxLength /\ MaxLength \in Nat /\ buf' = Str!writeAt(buf, pos, s) /\ pos' = pos + Len(s)
      /\ wrote' = Append(wrote, e) /\ last'.op = "none"
  BY LibraryAssumption DEF Str!msWrite, Str!Quiet, Str!Did
<1>2. /\ s \in Seq(Int) /\ Len(s) \in Nat /\ DOMAIN s = 1..Len(s) /\ \A i \in 1..Len(s) : s[i] \in Int
      /\ buf \in Seq(Int) /\ n \in Nat /\ (\A i \in 1..n : buf[i] \in Int) /\ pos \in Nat
      /\ wrote \in Seq(Entry)
  BY <1>1, LenProperties, ElementOfSeq, LibraryAssumption DEF StreamInv
<1>3. e \in Entry /\ e.op = "write" /\ e.at = pos /\ e.bytes = s /\ EndOf(e) = pos + Len(s)
  BY <1>2 DEF Entry, EndOf
<1> HIDE DEF e
<1>4. buf' = [i \in 1..size |-> IF i - pos \in 1..Len(s) THEN s[i - pos] ELSE IF i <= n THEN buf[i] ELSE 0]
  BY <1>1, <1>2 DEF Str!writeAt
<1>5. size \in Nat /\ n <= size /\ pos + Len(s) <= size
  BY <1>2 DEF Str!Greatest
<1> HIDE DEF size
<1>6. \A i \in 1..size : (IF i - pos \in 1..Len(s) THEN s[i - pos] ELSE IF i <= n THEN buf[i] ELSE 0) \in Int
  BY <1>2, <1>5
<1>7. buf' \in Seq(Int) /\ Len(buf') = size
  BY <1>4, <1>5, <1>6
<1>8. wrote' \in Seq(Entry) /\ pos' \in Int
  BY <1>1, <1>2, <1>3
<1>9. Reaches(wrote', size)
  BY <1>1, <1>2, <1>3, ReachesAfter DEF StreamInv, size
<1>10. \A i \in Nat \ {0} : ByteOf(wrote', i) = IF i <= size THEN buf'[i] ELSE 0
  <2> TAKE i \in Nat \ {0}
  <2>1. ByteOf(wrote', i) = IF i - pos \in 1..Len(s) THEN s[i - pos] ELSE ByteOf(wrote, i)
    <3>1. i \in Int
      OBVIOUS
    <3>2. ByteOf(Append(wrote, e), i)
            = IF ~Touches(e, i) THEN ByteOf(wrote, i) ELSE IF e.op = "length" THEN 0 ELSE e.bytes[i - e.at]
      BY <1>2, <1>3, <3>1, ByteAfter
    <3>3. Touches(e, i) <=> i - pos \in 1..Len(s)
      BY <1>2, <1>3 DEF Touches
    <3> QED BY <1>1, <1>3, <3>2, <3>3
  <2>2. ByteOf(wrote, i) = IF i <= n THEN buf[i] ELSE 0
    BY DEF StreamInv
  <2>3. CASE i <= size
    <3>1. buf'[i] = IF i - pos \in 1..Len(s) THEN s[i - pos] ELSE IF i <= n THEN buf[i] ELSE 0
      BY <2>3, <1>4, <1>5
    <3> QED BY <3>1, <2>1, <2>2, <2>3
  <2>4. CASE ~(i <= size)
    <3>1. ~(i - pos \in 1..Len(s)) /\ ~(i <= n)
      BY <2>4, <1>2, <1>5
    <3> QED BY <3>1, <2>1, <2>2, <2>4
  <2> QED BY <2>3, <2>4
<1>11. Tells(last, pos)'
  BY <1>1 DEF Tells
<1> QED BY <1>7, <1>8, <1>9, <1>10, <1>11 DEF StreamInv

\* A cut removes what is behind it, for good; a longer length adds zeros.
LEMMA SetLengthKeeps ==
    ASSUME StreamInv, NEW n \in Int, Str!msSetLength(n)
    PROVE  StreamInv'
<1> DEFINE size == Str!Greatest(n, 0)
           e == [op |-> "length", at |-> size, bytes |-> <<>>]
<1>1. /\ buf' = [i \in 1..size |-> IF i <= Len(buf) THEN buf[i] ELSE 0]
      /\ pos' = Str!Least(pos, size)
      /\ wrote' = Append(wrote, e) /\ last'.op = "none"
  BY DEF Str!msSetLength, Str!Quiet, Str!Did
<1>2. /\ buf \in Seq(Int) /\ Len(buf) \in Nat /\ (\A i \in 1..Len(buf) : buf[i] \in Int) /\ pos \in Int
      /\ wrote \in Seq(Entry) /\ size \in Nat
  BY LenProperties, ElementOfSeq DEF StreamInv, Str!Greatest
<1> HIDE DEF size
<1>3. e \in Entry /\ e.op = "length" /\ e.at = size /\ EndOf(e) = size
  BY <1>2 DEF Entry, EndOf
<1> HIDE DEF e
<1>4. \A i \in 1..size : (IF i <= Len(buf) THEN buf[i] ELSE 0) \in Int
  BY <1>2
<1>5. buf' \in Seq(Int) /\ Len(buf') = size
  BY <1>1, <1>2, <1>4
<1>6. wrote' \in Seq(Entry) /\ pos' \in Int
  BY <1>1, <1>2, <1>3 DEF Str!Least
<1>7. Reaches(wrote', size)
  BY <1>1, <1>2, <1>3, ReachesAfter DEF StreamInv
<1>8. \A i \in Nat \ {0} : ByteOf(wrote', i) = IF i <= size THEN buf'[i] ELSE 0
  <2> TAKE i \in Nat \ {0}
  <2>1. ByteOf(wrote', i) = IF i > size THEN 0 ELSE ByteOf(wrote, i)
    <3>1. i \in Int
      OBVIOUS
    <3>2. ByteOf(Append(wrote, e), i)
            = IF ~Touches(e, i) THEN ByteOf(wrote, i) ELSE IF e.op = "length" THEN 0 ELSE e.bytes[i - e.at]
      BY <1>2, <1>3, <3>1, ByteAfter
    <3>3. Touches(e, i) <=> i > size
      BY <1>3 DEF Touches
    <3> QED BY <1>1, <1>3, <3>2, <3>3
  <2>2. ByteOf(wrote, i) = IF i <= Len(buf) THEN buf[i] ELSE 0
    BY DEF StreamInv
  <2>3. CASE i <= size
    <3>1. buf'[i] = (IF i <= Len(buf) THEN buf[i] ELSE 0) /\ ~(i > size)
      BY <2>3, <1>1, <1>2
    <3> QED BY <3>1, <2>1, <2>2, <2>3
  <2>4. CASE ~(i <= size)
    <3>1. i > size
      BY <2>4, <1>2
    <3> QED BY <3>1, <2>1, <2>4
  <2> QED BY <2>3, <2>4
<1>9. Tells(last, pos)'
  BY <1>1 DEF Tells
<1> QED BY <1>5, <1>6, <1>7, <1>8, <1>9 DEF StreamInv

\* A call that asks changes neither the bytes nor their history.
LEMMA AskKeeps ==
    ASSUME StreamInv, buf' = buf, wrote' = wrote, pos' \in Int,
           last'.op \in {"none", "failed"} \/ Tells(last', pos')
    PROVE  StreamInv'
<1>1. Tells(last', pos')
  BY DEF Tells
<1>2. Tells(last, pos)'
  BY <1>1 DEF Tells
<1> QED BY <1>2 DEF StreamInv

\* A part of the stream tells what is in it.
LEMMA PartTells ==
    ASSUME StreamInv, NEW from \in Nat, NEW to \in Nat, from <= to, to <= Len(buf) \/ to = from,
           NEW op \in {"read", "copy"}
    PROVE  /\ Tells(Str!Did(op, from, Str!Part(buf, from, to)), to)
           /\ Len(Str!Part(buf, from, to)) = to - from
<1> DEFINE s == Str!Part(buf, from, to)
<1>1. buf \in Seq(Int) /\ Len(buf) \in Nat
  BY LenProperties DEF StreamInv
<1>2. s = SubSeq(buf, from + 1, to)
  BY DEF Str!Part
<1>3. Len(s) = to - from /\ DOMAIN s = 1..(to - from) /\ \A i \in 1..(to - from) : s[i] = buf[from + i]
  <2>1. CASE to = from
    <3>1. s = <<>>
      BY <1>2, <2>1, SubSeqEmpty
    <3> QED BY <3>1, <2>1
  <2>2. CASE to <= Len(buf) /\ to # from
    <3>1. /\ s \in Seq(Int) /\ Len(s) = to - from
          /\ \A i \in 1..(to - from) : s[i] = buf[from + i]
      <4>1. buf \in Seq(Int) /\ from \in Nat /\ to \in Nat /\ from <= to /\ to <= Len(buf)
        BY <1>1, <2>2
      <4>2. /\ SubSeq(buf, from + 1, to) \in Seq(Int) /\ Len(SubSeq(buf, from + 1, to)) = to - from
            /\ \A i \in 1..(to - from) : SubSeq(buf, from + 1, to)[i] = buf[from + i]
        BY <4>1, PieceFacts
      <4> QED BY <4>2, <1>2
    <3> QED BY <3>1, LenProperties
  <2> QED BY <2>1, <2>2
<1>4. \A i \in 1..(to - from) : s[i] = ByteOf(wrote, from + i)
  <2> TAKE i \in 1..(to - from)
  <2>1. from + i \in Nat \ {0} /\ from + i <= Len(buf)
    BY <1>1
  <2> QED BY <2>1, <1>3 DEF StreamInv
<1> HIDE DEF s
<1>5. Tells(Str!Did(op, from, s), to)
  <2> DEFINE d == Str!Did(op, from, s)
  <2>1. d.op = op /\ d.from = from /\ d.got = s
    BY DEF Str!Did
  <2> HIDE DEF d
  <2>2. \A i \in DOMAIN d.got : i \in Nat \ {0} /\ d.got[i] = ByteOf(wrote, d.from + i)
    BY <2>1, <1>3, <1>4
  <2>3. to = from + Len(s)
    BY <1>3
  <2>4. d.op # "byte"
    BY <2>1
  <2>5. d.from \in Nat /\ to = d.from + Len(d.got)
    BY <2>1, <2>3
  <2>6. d.op = "byte" => IF d.from < Len(buf) THEN d.got = <<ByteOf(wrote, to)>> /\ to = d.from + 1
                        ELSE d.got = <<-1>> /\ to = d.from
    BY <2>4
  <2>7. Tells(d, to)
    BY <2>2, <2>5, <2>6 DEF Tells
  <2> QED BY <2>7 DEF d
<1> QED BY <1>3, <1>5 DEF s

\* Every operation on a stream keeps the invariant.
LEMMA StreamStep ==
    ASSUME StreamInv, Str!OnStream
    PROVE  StreamInv'
<1>1. buf \in Seq(Int) /\ Len(buf) \in Nat /\ pos \in Int /\ MaxLength \in Nat
  BY LenProperties, LibraryAssumption DEF StreamInv
<1>2. ASSUME Str!Asks PROVE buf' = buf /\ wrote' = wrote
  BY <1>2 DEF Str!Asks
<1>3. ASSUME Str!Fails PROVE last'.op = "failed" /\ pos' = pos
  BY <1>3 DEF Str!Fails, Str!Did
<1>4. ASSUME NEW n \in 0..MaxLength, Str!msRead(n) PROVE StreamInv'
  <2> DEFINE a == Str!Available(n)
  <2>1. /\ pos >= 0 /\ Str!Asks /\ pos' = pos + a
        /\ last' = Str!Did("read", pos, Str!Part(buf, pos, pos + a))
    BY <1>4 DEF Str!msRead
  <2>2. a \in Nat /\ (pos + a <= Len(buf) \/ a = 0)
    BY <1>1, <2>1 DEF Str!Available, Str!Least, Str!Greatest
  <2> HIDE DEF a
  <2>3. pos \in Nat /\ pos + a \in Nat /\ pos <= pos + a /\ (pos + a <= Len(buf) \/ pos + a = pos)
    BY <1>1, <2>1, <2>2
  <2>4. Tells(last', pos')
    BY <2>1, <2>3, PartTells
  <2> QED BY <2>1, <2>3, <2>4, <1>2, AskKeeps
<1>5. ASSUME NEW n \in 0..MaxLength, Str!msReadBefore(n) PROVE StreamInv'
  <2>1. Str!Asks /\ (Str!Fails \/ (last' = Str!Quiet /\ pos' = pos))
    BY <1>5 DEF Str!msReadBefore
  <2>2. Str!Quiet.op = "none"
    BY DEF Str!Quiet, Str!Did
  <2> QED BY <2>1, <2>2, <1>1, <1>2, <1>3, AskKeeps
<1>6. ASSUME Str!msReadByte PROVE StreamInv'
  <2>1. CASE pos < 0
    BY <2>1, <1>1, <1>2, <1>3, <1>6, AskKeeps DEF Str!msReadByte
  <2>2. CASE ~(pos < 0) /\ pos >= Len(buf)
    <3>1. Str!Asks /\ last' = [op |-> "byte", from |-> pos, got |-> <<-1>>] /\ pos' = pos
      BY <1>6, <2>2 DEF Str!msReadByte, Str!Did
    <3>2. ~(pos < Len(buf))
      BY <1>1, <2>2
    <3>3. Tells(last', pos')
      BY <3>1, <3>2 DEF Tells
    <3> QED BY <3>1, <3>3, <1>1, <1>2, AskKeeps
  <2>3. CASE ~(pos < 0) /\ ~(pos >= Len(buf))
    <3>1. Str!Asks /\ last' = [op |-> "byte", from |-> pos, got |-> <<buf[pos + 1]>>] /\ pos' = pos + 1
      BY <1>6, <2>3 DEF Str!msReadByte, Str!Did
    <3>2. pos < Len(buf) /\ pos + 1 \in Nat \ {0} /\ pos + 1 <= Len(buf)
      BY <1>1, <2>3
    <3>3. buf[pos + 1] = ByteOf(wrote, pos + 1)
      BY <3>2 DEF StreamInv
    <3>4. Tells(last', pos')
      BY <3>1, <3>2, <3>3 DEF Tells
    <3> QED BY <3>1, <3>2, <3>4, <1>2, AskKeeps
  <2> QED BY <2>1, <2>2, <2>3
<1>7. ASSUME NEW origin \in 0..2, NEW offset \in -2..1, Str!msSeek(origin, offset) PROVE StreamInv'
  <2> DEFINE base == CASE origin = 1 -> pos [] origin = 2 -> Len(buf) [] OTHER -> 0
  <2>1. Str!Asks /\ (Str!Fails \/ (last' = Str!Quiet /\ pos' = base + offset))
    BY <1>7 DEF Str!msSeek
  <2>2. base \in Int
    <3>1. CASE origin = 1
      BY <3>1, <1>1
    <3>2. CASE origin = 2
      BY <3>2, <1>1
    <3>3. CASE origin # 1 /\ origin # 2
      BY <3>3
    <3> QED BY <3>1, <3>2, <3>3
  <2> HIDE DEF base
  <2>3. Str!Quiet.op = "none" /\ base + offset \in Int
    BY <2>2 DEF Str!Quiet, Str!Did
  <2> QED BY <2>1, <2>3, <1>1, <1>2, <1>3, AskKeeps
<1>8. ASSUME NEW n \in Int, Str!msSetPosition(n) PROVE StreamInv'
  BY <1>8, <1>2, AskKeeps DEF Str!msSetPosition, Str!Quiet, Str!Did
<1>9. ASSUME Str!msCopyTo PROVE StreamInv'
  <2>1. CASE pos \in 0..Len(buf)
    <3>1. Str!Asks /\ last' = Str!Did("read", pos, Str!Part(buf, pos, Len(buf))) /\ pos' = Len(buf)
      BY <1>9, <2>1 DEF Str!msCopyTo
    <3>2. pos \in Nat /\ pos <= Len(buf) /\ Len(buf) <= Len(buf)
      BY <1>1, <2>1
    <3>3. Tells(last', pos')
      BY <3>1, <3>2, <1>1, PartTells
    <3> QED BY <3>1, <3>3, <1>1, <1>2, AskKeeps
  <2>2. CASE pos \notin 0..Len(buf)
    BY <2>2, <1>1, <1>2, <1>3, <1>9, AskKeeps DEF Str!msCopyTo
  <2> QED BY <2>1, <2>2
<1>10. ASSUME Str!msToArray PROVE StreamInv'
  <2>1. Str!Asks /\ last' = [op |-> "copy", from |-> 0, got |-> buf] /\ pos' = pos
    BY <1>10 DEF Str!msToArray, Str!Did
  <2>2. \A i \in DOMAIN buf : i \in Nat \ {0} /\ buf[i] = ByteOf(wrote, 0 + i)
    <3> TAKE i \in DOMAIN buf
    <3>1. i \in Nat \ {0} /\ i <= Len(buf) /\ 0 + i = i
      BY <1>1, LenProperties
    <3> QED BY <3>1 DEF StreamInv
  <2>3. Tells(last', pos')
    BY <2>1, <2>2 DEF Tells
  <2> QED BY <2>1, <2>3, <1>1, <1>2, AskKeeps
<1>11. ASSUME UNCHANGED <<buf, pos, wrote, last>> PROVE StreamInv'
  BY <1>11 DEF StreamInv, Tells
<1>12. ASSUME Str!msWriteBefore PROVE StreamInv'
  BY <1>12, <1>1, <1>2, <1>3, AskKeeps DEF Str!msWriteBefore
<1>13. ASSUME NEW works, Str!msClose(works) PROVE StreamInv'
  BY <1>11, <1>13 DEF Str!msClose
<1>14. ASSUME Str!NewStreamReader PROVE StreamInv'
  BY <1>11, <1>14 DEF Str!NewStreamReader, Str!stream
<1>15. -1 \in Int /\ (\A n \in 0..MaxLength : n \in Int) /\ (\A n \in -1..MaxLength : n \in Int)
  BY <1>1
<1> QED
  BY <1>4, <1>5, <1>6, <1>7, <1>8, <1>9, <1>10, <1>12, <1>13, <1>14, <1>15, WriteKeeps, SetLengthKeeps DEF Str!OnStream

\* What a reader's caller was given by a call.
Given == [is : {"char", "rest", "line"}, s : Seq(Int)]
\* What a call of a reader of the characters r gave, as Streams.Gave has it.
GaveOf(r, h, from, to) ==
    LET end == from + Len(h.s)
        ending == SubSeq(r, end + 1, to)
    IN /\ end <= to /\ h.s = SubSeq(r, from + 1, end)
       /\ IF h.is # "line" THEN end = to
          ELSE /\ \A i \in DOMAIN h.s : h.s[i] \notin {13, 10}
               /\ ending \in {<<>>, <<10>>, <<13>>, <<13, 10>>}
               /\ (ending = <<>> => to = Len(r))
               /\ (ending = <<13>> /\ to < Len(r) => r[to + 1] # 10)
\* The places at which the calls that gave the list stopped, the last one at p.
StopsAt(r, given, p, stops) ==
    /\ stops[0] = 0 /\ stops[Len(given)] = p
    /\ \A k \in DOMAIN given : GaveOf(r, given[k], stops[k - 1], stops[k])
\* A caller that got the list has got what the reader passed.
AllGiven(r, given, p) == \E stops \in [0..Len(given) -> 0..p] : StopsAt(r, given, p, stops)
\* r is what the stream has from p on, but for a mark in front.
MarkOff(r, b, p) ==
    p \in 0..Len(b) =>
        \E mark \in {<<>>, <<239>>} :
            /\ mark \o r = Str!Part(b, p, Len(b))
            /\ (mark = <<>> /\ r # <<>> => r[1] # 239)
\* The inductive invariant of a reader.
ReaderInv ==
    runes # Str!NotMade =>
        /\ runes \in Seq(Int) /\ at \in 0..Len(runes) /\ heard \in Seq(Given)
        /\ MarkOff(runes, buf, pos) /\ AllGiven(runes, heard, at)

\* It is the Gave of Streams.
LEMMA GaveIs == \A h, from, to : Str!Gave(h, from, to) <=> GaveOf(runes, h, from, to)
BY DEF Str!Gave, GaveOf, Str!CR, Str!LF

\* What is to be shown of the reader follows from the invariant.
LEMMA ReaderIsSound == ReaderInv => Str!ReadersLoseNothing
<1> SUFFICES ASSUME ReaderInv, runes # Str!NotMade PROVE Str!ReadersLoseNothing
  BY DEF Str!ReadersLoseNothing
<1>1. MarkOff(runes, buf, pos) /\ AllGiven(runes, heard, at)
  BY DEF ReaderInv
<1>2. pos \in 0..Len(buf) =>
        \E mark \in {<<>>, <<Str!Mark>>} :
            /\ mark \o runes = Str!Part(buf, pos, Len(buf))
            /\ (mark = <<>> /\ runes # <<>> => runes[1] # Str!Mark)
  BY <1>1 DEF MarkOff, Str!Mark
<1>3. PICK stops \in [0..Len(heard) -> 0..at] : StopsAt(runes, heard, at, stops)
  BY <1>1 DEF AllGiven
<1>4. \A k \in DOMAIN heard : Str!Gave(heard[k], stops[k - 1], stops[k])
  BY <1>3, GaveIs DEF StopsAt
<1>5. stops[0] = 0 /\ stops[Len(heard)] = at
  BY <1>3 DEF StopsAt
<1> QED BY <1>2, <1>3, <1>4, <1>5 DEF Str!ReadersLoseNothing

\* One more call, that goes on from where the last one stopped.
LEMMA OneMoreGiven ==
    ASSUME NEW r \in Seq(Int), NEW l \in Seq(Given), NEW p \in Nat, AllGiven(r, l, p),
           NEW h \in Given, NEW q \in Nat, p <= q, GaveOf(r, h, p, q)
    PROVE  Append(l, h) \in Seq(Given) /\ AllGiven(r, Append(l, h), q)
<1> DEFINE n == Len(l)
           m == Append(l, h)
<1>1. /\ n \in Nat /\ DOMAIN l = 1..n /\ m \in Seq(Given) /\ Len(m) = n + 1 /\ DOMAIN m = 1..(n + 1)
      /\ m[n + 1] = h /\ \A k \in 1..n : m[k] = l[k]
  BY LenProperties
<1>2. PICK stops \in [0..n -> 0..p] : StopsAt(r, l, p, stops)
  BY DEF AllGiven
<1>3. stops[0] = 0 /\ stops[n] = p /\ \A k \in 1..n : GaveOf(r, l[k], stops[k - 1], stops[k])
  BY <1>1, <1>2 DEF StopsAt
<1> HIDE DEF n, m
<1> DEFINE t == [k \in 0..(n + 1) |-> IF k <= n THEN stops[k] ELSE q]
<1>4. \A k \in 0..n : t[k] = stops[k] /\ stops[k] \in 0..p
  BY <1>1, <1>2
<1>5. t[n + 1] = q
  BY <1>1
<1>6. t \in [0..(n + 1) -> 0..q]
  <2>1. \A k \in 0..(n + 1) : (IF k <= n THEN stops[k] ELSE q) \in 0..q
    BY <1>1, <1>2
  <2> QED BY <2>1
<1>7. ASSUME NEW k \in 1..(n + 1) PROVE GaveOf(r, m[k], t[k - 1], t[k])
  <2>1. CASE k = n + 1
    <3>1. t[k - 1] = p /\ t[k] = q /\ m[k] = h
      <4>1. k - 1 = n /\ n \in 0..n
        BY <2>1, <1>1
      <4>2. t[n] = stops[n]
        BY <4>1, <1>4
      <4> QED BY <4>1, <4>2, <2>1, <1>1, <1>3, <1>5
    <3> QED BY <3>1
  <2>2. CASE k # n + 1
    <3>1. k \in 1..n /\ k \in 0..n /\ k - 1 \in 0..n
      BY <2>2, <1>1
    <3>2. t[k - 1] = stops[k - 1] /\ t[k] = stops[k] /\ m[k] = l[k]
      BY <3>1, <1>1, <1>4
    <3>3. GaveOf(r, l[k], stops[k - 1], stops[k])
      BY <3>1, <1>3
    <3> QED BY <3>2, <3>3
  <2> QED BY <2>1, <2>2
<1>8. t[0] = 0
  BY <1>1, <1>3, <1>4
<1> HIDE DEF t
<1>9. StopsAt(r, m, q, t)
  BY <1>1, <1>5, <1>7, <1>8 DEF StopsAt
<1>10. AllGiven(r, m, q)
  BY <1>1, <1>6, <1>9 DEF AllGiven
<1> QED BY <1>1, <1>10 DEF m

\* A call that gives what the reader has next.
LEMMA ReadKeeps ==
    ASSUME ReaderInv, runes # Str!NotMade, NEW h \in Given, NEW q \in 0..Len(runes), at <= q,
           GaveOf(runes, h, at, q), heard' = Append(heard, h), at' = q, UNCHANGED <<runes, buf, pos>>
    PROVE  ReaderInv'
<1>1. runes \in Seq(Int) /\ at \in 0..Len(runes) /\ heard \in Seq(Given) /\ MarkOff(runes, buf, pos)
      /\ AllGiven(runes, heard, at)
  BY DEF ReaderInv
<1>2. at \in Nat /\ q \in Nat
  BY <1>1, LenProperties
<1>3. Append(heard, h) \in Seq(Given) /\ AllGiven(runes, Append(heard, h), q)
  BY <1>1, <1>2, OneMoreGiven
<1> QED BY <1>1, <1>3 DEF ReaderInv

\* What lies between two places of the characters.
LEMMA PartIs ==
    ASSUME NEW r \in Seq(Int), NEW from \in 0..Len(r), NEW to \in 0..Len(r), from <= to
    PROVE  /\ Str!Part(r, from, to) \in Seq(Int) /\ Len(Str!Part(r, from, to)) = to - from
           /\ DOMAIN Str!Part(r, from, to) = 1..(to - from)
           /\ \A i \in 1..(to - from) : Str!Part(r, from, to)[i] = r[from + i]
           /\ Str!Part(r, from, to) = SubSeq(r, from + 1, from + Len(Str!Part(r, from, to)))
<1> DEFINE s == Str!Part(r, from, to)
<1>1. s = SubSeq(r, from + 1, to)
  BY DEF Str!Part
<1>2. Len(r) \in Nat
  BY LenProperties
<1> HIDE DEF s
<1>3. /\ s \in Seq(Int) /\ Len(s) = to - from
      /\ \A i \in 1..(to - from) : s[i] = r[from + i]
  BY <1>1, <1>2, PieceFacts
<1>4. DOMAIN s = 1..(to - from) /\ from + (to - from) = to
  BY <1>2, <1>3, LenProperties
<1>5. s = SubSeq(r, from + 1, from + Len(s))
  BY <1>1, <1>3, <1>4
<1> QED BY <1>3, <1>4, <1>5 DEF s

\* What gives the characters up to a place, none of them a line's ending, gives them.
LEMMA RestIsGiven ==
    ASSUME NEW r \in Seq(Int), NEW from \in 0..Len(r), NEW to \in 0..Len(r), from <= to,
           NEW is \in {"char", "rest"}
    PROVE  [is |-> is, s |-> Str!Part(r, from, to)] \in Given
           /\ GaveOf(r, [is |-> is, s |-> Str!Part(r, from, to)], from, to)
<1> DEFINE s == Str!Part(r, from, to)
<1>1. s \in Seq(Int) /\ Len(s) = to - from /\ s = SubSeq(r, from + 1, from + Len(s)) /\ Len(r) \in Nat
  BY PartIs, LenProperties
<1> HIDE DEF s
<1>2. from + Len(s) = to
  BY <1>1
<1> DEFINE h == [is |-> is, s |-> s]
<1>3. h \in Given /\ h.is = is /\ h.s = s
  BY <1>1 DEF Given
<1> HIDE DEF h
<1>4. h.is # "line"
  BY <1>3
<1>5. to <= to
  BY <1>1
<1>6. GaveOf(r, h, from, to)
  BY <1>1, <1>2, <1>3, <1>4, <1>5 DEF GaveOf
<1> QED BY <1>3, <1>6 DEF h, s

\* Every call but ReadLine does.
LEMMA ReaderStep ==
    ASSUME ReaderInv,
           Str!stringReaderRead \/ Str!stringReaderReadBlock(2) \/ Str!stringReaderReadToEnd
    PROVE  ReaderInv'
<1>1. runes # Str!NotMade /\ Str!Reads /\ at < Len(runes)
  BY DEF Str!stringReaderRead, Str!stringReaderReadBlock, Str!stringReaderReadToEnd, Str!Reads, Str!More
<1>2. UNCHANGED <<runes, buf, pos>>
  BY <1>1 DEF Str!Reads, Str!stream
<1>3. runes \in Seq(Int) /\ at \in 0..Len(runes) /\ Len(runes) \in Nat /\ DOMAIN runes = 1..Len(runes)
  BY <1>1, LenProperties DEF ReaderInv
<1>4. ASSUME NEW q \in 0..Len(runes), at <= q, NEW is \in {"char", "rest"},
             heard' = Append(heard, [is |-> is, s |-> Str!Part(runes, at, q)]), at' = q
      PROVE  ReaderInv'
  <2>1. [is |-> is, s |-> Str!Part(runes, at, q)] \in Given
        /\ GaveOf(runes, [is |-> is, s |-> Str!Part(runes, at, q)], at, q)
    BY <1>3, <1>4, RestIsGiven
  <2> QED BY <2>1, <1>1, <1>2, <1>4, ReadKeeps
<1>5. CASE Str!stringReaderRead
  <2>1. heard' = Append(heard, [is |-> "char", s |-> <<runes[at + 1]>>]) /\ at' = at + 1
    BY <1>5 DEF Str!stringReaderRead, Str!Heard
  <2>2. at + 1 \in 0..Len(runes) /\ at <= at + 1 /\ at + 1 \in 1..Len(runes) /\ at + 1 - at = 1
    BY <1>1, <1>3
  <2>3. PICK e : e = at + 1
    OBVIOUS
  <2>4. Str!Part(runes, at, at + 1) = <<runes[at + 1]>>
    <3> DEFINE g == SubSeq(runes, e, e)
    <3>1. e \in 1..(Len(runes) + 1) /\ e \in 0..Len(runes) /\ e <= e + 1 /\ e - e + 1 = 1 /\ e + 1 - 1 = e
          /\ e \in 1..Len(runes)
      BY <2>2, <2>3, <1>3
    <3>2. g \in Seq(Int) /\ Len(g) = 1 /\ \A i \in 1..1 : g[i] = runes[e + i - 1]
      BY <3>1, <1>3, SubSeqProperties
    <3>3. Str!Part(runes, at, at + 1) = g
      BY <2>3 DEF Str!Part
    <3> HIDE DEF g
    <3>4. 1 \in 1..1 /\ g[1] = runes[e]
      BY <3>1, <3>2
    <3>5. g = <<runes[e]>>
      BY <3>2, <3>4
    <3> QED BY <2>3, <3>3, <3>5
  <2> QED BY <2>1, <2>2, <2>4, <1>4
<1>6. CASE Str!stringReaderReadBlock(2)
  <2> DEFINE n == Str!Least(2, Len(runes) - at)
  <2>1. heard' = Append(heard, [is |-> "rest", s |-> Str!Part(runes, at, at + n)]) /\ at' = at + n
    BY <1>6 DEF Str!stringReaderReadBlock, Str!Heard
  <2>2. at + n \in 0..Len(runes) /\ at <= at + n
    BY <1>1, <1>3 DEF Str!Least
  <2> HIDE DEF n
  <2> QED BY <2>1, <2>2, <1>4
<1>7. CASE Str!stringReaderReadToEnd
  <2>1. heard' = Append(heard, [is |-> "rest", s |-> Str!Part(runes, at, Len(runes))]) /\ at' = Len(runes)
    BY <1>7 DEF Str!stringReaderReadToEnd, Str!Heard
  <2>2. Len(runes) \in 0..Len(runes) /\ at <= Len(runes)
    BY <1>1, <1>3
  <2> QED BY <2>1, <2>2, <1>4
<1> QED BY <1>5, <1>6, <1>7

\* ReadLine gives what is before the next line ending, and passes that.
LEMMA LineStep ==
    ASSUME ReaderInv, Str!stringReaderReadLine
    PROVE  ReaderInv'
<1> DEFINE n == Len(runes)
           E == {i \in (at + 1)..n : runes[i] \in {13, 10}}
<1>1. runes # Str!NotMade /\ Str!Reads /\ at < n
  BY DEF Str!stringReaderReadLine, Str!Reads, Str!More
<1>2. UNCHANGED <<runes, buf, pos>>
  BY <1>1 DEF Str!Reads, Str!stream
<1>3. runes \in Seq(Int) /\ at \in 0..n /\ n \in Nat /\ DOMAIN runes = 1..n /\ at \in Nat
  BY <1>1, LenProperties DEF ReaderInv
<1>4. CASE E = {}
  <2> DEFINE s == Str!Part(runes, at, n)
             h == [is |-> "line", s |-> s]
  <2>1. heard' = Append(heard, h) /\ at' = n
    BY <1>4 DEF Str!stringReaderReadLine, Str!Heard, Str!CR, Str!LF
  <2>2. n \in 0..n /\ at <= n
    BY <1>1, <1>3
  <2>3. /\ s \in Seq(Int) /\ Len(s) = n - at /\ DOMAIN s = 1..(n - at)
        /\ (\A i \in 1..(n - at) : s[i] = runes[at + i]) /\ s = SubSeq(runes, at + 1, at + Len(s))
    BY <2>2, <1>3, PartIs
  <2>4. at + Len(s) = n
    BY <2>3, <1>3
  <2> HIDE DEF s
  <2>5. h \in Given /\ h.is = "line" /\ h.s = s
    BY <2>3 DEF Given
  <2> HIDE DEF h
  <2>6. \A i \in DOMAIN s : s[i] \notin {13, 10}
    <3> TAKE i \in DOMAIN s
    <3>1. at + i \in (at + 1)..n
      BY <2>3, <1>3, SMTT(30)
    <3>2. at + i \notin E
      BY <1>4
    <3> QED BY <3>1, <3>2, <2>3
  <2>7. SubSeq(runes, n + 1, n) = <<>>
    BY <1>3, SubSeqEmpty
  <2>8. GaveOf(runes, h, at, n)
    BY <2>2, <2>3, <2>4, <2>5, <2>6, <2>7 DEF GaveOf
  <2> HIDE DEF n
  <2> QED BY <2>1, <2>2, <2>5, <2>8, <1>1, <1>2, ReadKeeps DEF n
<1>5. CASE E # {}
  <2>1. E \in SUBSET Nat
    BY <1>3
  <2>2. PICK e \in E : \A j \in E : e <= j
    BY <2>1, <1>5, LeastNumber
  <2>3. e \in (at + 1)..n /\ runes[e] \in {13, 10} /\ e \in Nat
    BY <2>1, <2>2
  <2>4. (CHOOSE i \in E : \A j \in E : i <= j) = e
    <3>1. \A i \in E : (\A j \in E : i <= j) => i = e
      BY <2>1, <2>2
    <3> QED BY <3>1, <2>2
  <2> DEFINE s == Str!Part(runes, at, e - 1)
             h == [is |-> "line", s |-> s]
             q == IF runes[e] = 13 /\ e < n /\ runes[e + 1] = 10 THEN e + 1 ELSE e
  <2>5. heard' = Append(heard, h) /\ at' = q
    <3> DEFINE f == CHOOSE i \in E : \A j \in E : i <= j
    <3>1. heard' = Append(heard, [is |-> "line", s |-> Str!Part(runes, at, f - 1)])
          /\ at' = IF runes[f] = 13 /\ f < n /\ runes[f + 1] = 10 THEN f + 1 ELSE f
      BY <1>5 DEF Str!stringReaderReadLine, Str!Heard, Str!CR, Str!LF
    <3>2. f = e
      BY <2>4
    <3> HIDE DEF f
    <3> QED BY <3>1, <3>2
  <2>6. \A i \in (at + 1)..(e - 1) : runes[i] \notin {13, 10}
    <3> TAKE i \in (at + 1)..(e - 1)
    <3>1. i \in (at + 1)..n /\ ~(e <= i)
      BY <2>3, <1>3
    <3>2. i \notin E
      BY <3>1, <2>2
    <3> QED BY <3>1, <3>2
  <2> HIDE DEF E
  <2>7. e - 1 \in 0..n /\ at <= e - 1 /\ at \in 0..n
    BY <2>3, <1>3
  <2>8. /\ s \in Seq(Int) /\ Len(s) = e - 1 - at /\ DOMAIN s = 1..(e - 1 - at)
        /\ (\A i \in 1..(e - 1 - at) : s[i] = runes[at + i]) /\ s = SubSeq(runes, at + 1, at + Len(s))
    BY <2>7, <1>3, PartIs
  <2>9. at + Len(s) = e - 1
    BY <2>8, <2>3, <1>3
  <2> HIDE DEF s
  <2>10. h \in Given /\ h.is = "line" /\ h.s = s
    BY <2>8 DEF Given
  <2> HIDE DEF h
  <2>11. \A i \in DOMAIN s : s[i] \notin {13, 10}
    <3> TAKE i \in DOMAIN s
    <3>1. i \in 1..(e - 1 - at) /\ at \in Nat /\ e \in Nat
      BY <2>3, <2>8, <1>3
    <3>2. at + i \in (at + 1)..(e - 1)
      BY <3>1
    <3> QED BY <3>1, <3>2, <2>6, <2>8
  <2>12. e - 1 + 1 = e /\ e <= n /\ e - 1 <= e
    BY <2>3, <1>3
  <2>13. CASE runes[e] = 13 /\ e < n /\ runes[e + 1] = 10
    <3>1. q = e + 1 /\ e + 1 \in 0..n /\ at <= e + 1 /\ e - 1 <= e + 1
      BY <2>3, <2>13, <1>3
    <3> DEFINE g == SubSeq(runes, e, e + 1)
    <3>2. g = <<13, 10>>
      <4>1. e \in 1..(n + 1) /\ e + 1 \in 0..n /\ e <= e + 1 + 1 /\ e + 1 - e + 1 = 2
        BY <2>3, <3>1, <1>3
      <4>2. g \in Seq(Int) /\ Len(g) = 2 /\ \A i \in 1..2 : g[i] = runes[e + i - 1]
        BY <4>1, <1>3, SubSeqProperties
      <4> HIDE DEF g
      <4>3. 1 \in 1..2 /\ 2 \in 1..2 /\ e + 1 - 1 = e /\ e + 2 - 1 = e + 1
        BY <2>3
      <4>4. g[1] = 13 /\ g[2] = 10
        BY <4>2, <4>3, <2>13
      <4> QED BY <4>2, <4>4
    <3> HIDE DEF g
    <3>3. g # <<>> /\ g # <<13>>
      BY <3>2
    <3>4. GaveOf(runes, h, at, e + 1)
      BY <3>1, <3>2, <3>3, <2>8, <2>9, <2>10, <2>11, <2>12 DEF GaveOf, g
    <3> QED BY <3>1, <3>4, <2>5, <2>10, <1>1, <1>2, ReadKeeps
  <2>14. CASE ~(runes[e] = 13 /\ e < n /\ runes[e + 1] = 10)
    <3>1. q = e /\ e \in 0..n /\ at <= e /\ e - 1 <= e
      BY <2>3, <2>14, <1>3
    <3> DEFINE g == SubSeq(runes, e, e)
    <3>2. g = <<runes[e]>>
      <4>1. e \in 1..(n + 1) /\ e \in 0..n /\ e <= e + 1 /\ e - e + 1 = 1
        BY <2>3, <3>1, <1>3
      <4>2. g \in Seq(Int) /\ Len(g) = 1 /\ \A i \in 1..1 : g[i] = runes[e + i - 1]
        BY <4>1, <1>3, SubSeqProperties
      <4> HIDE DEF g
      <4>3. 1 \in 1..1 /\ e + 1 - 1 = e
        BY <2>3
      <4>4. g[1] = runes[e]
        BY <4>2, <4>3
      <4> QED BY <4>2, <4>4
    <3> HIDE DEF g
    <3>3. g # <<>> /\ g \in {<<13>>, <<10>>} /\ (g = <<13>> => runes[e] = 13)
      BY <3>2, <2>3
    <3>4. g = <<13>> /\ e < n => runes[e + 1] # 10
      BY <3>3, <2>14
    <3>5. GaveOf(runes, h, at, e)
      BY <3>1, <3>3, <3>4, <2>8, <2>9, <2>10, <2>11, <2>12 DEF GaveOf, g
    <3> QED BY <3>1, <3>5, <2>5, <2>10, <1>1, <1>2, ReadKeeps
  <2> QED BY <2>13, <2>14
<1> QED BY <1>4, <1>5

\* A new reader has given nothing, and has what its stream had left but for a mark.
LEMMA NewReader ==
    ASSUME buf \in Seq(Int), pos \in Int, Str!NewStreamReader
    PROVE  ReaderInv'
<1> DEFINE n == Len(buf)
           b == Str!MemoryStreamBytesFromCurrentPosition
<1>1. /\ runes' = IF b # <<>> /\ b[1] = 239 THEN Tail(b) ELSE b
      /\ at' = 0 /\ heard' = <<>> /\ buf' = buf /\ pos' = pos
  BY DEF Str!NewStreamReader, Str!NewStreamReaderFromBytes, Str!stream, Str!Mark
<1>2. n \in Nat /\ DOMAIN buf = 1..n /\ n \in 0..n
  BY LenProperties
<1>3. b \in Seq(Int) /\ (pos \in 0..n => b = Str!Part(buf, pos, n))
  <2>1. CASE pos > 0 /\ pos <= n
    <3>1. b = Str!Part(buf, pos, n) /\ pos \in 0..n
      BY <2>1, <1>2 DEF Str!MemoryStreamBytesFromCurrentPosition
    <3>2. Str!Part(buf, pos, n) \in Seq(Int)
      BY <2>1, <3>1, <1>2, PartIs
    <3> QED BY <3>1, <3>2
  <2>2. CASE ~(pos > 0 /\ pos <= n)
    <3>1. b = buf
      BY <2>2 DEF Str!MemoryStreamBytesFromCurrentPosition
    <3>2. ASSUME pos \in 0..n PROVE buf = Str!Part(buf, pos, n)
      <4>1. pos = 0 /\ 0 \in 0..n /\ 0 <= n
        BY <2>2, <3>2, <1>2
      <4>2. /\ Str!Part(buf, 0, n) \in Seq(Int) /\ Len(Str!Part(buf, 0, n)) = n - 0
            /\ \A i \in 1..(n - 0) : Str!Part(buf, 0, n)[i] = buf[0 + i]
        BY <4>1, <1>2, PartIs
      <4> DEFINE g == Str!Part(buf, 0, n)
      <4>3. g \in Seq(Int) /\ Len(g) = n /\ \A i \in 1..n : g[i] = buf[i]
        BY <4>2, <1>2
      <4> HIDE DEF g
      <4>4. g = buf
        BY <4>3, SameSequence
      <4> QED BY <4>1, <4>4 DEF g
    <3> QED BY <3>1, <3>2
  <2> QED BY <2>1, <2>2
<1> HIDE DEF b
<1>4. PICK r : r = IF b # <<>> /\ b[1] = 239 THEN Tail(b) ELSE b
  OBVIOUS
<1>5. r \in Seq(Int) /\ \E mark \in {<<>>, <<239>>} : mark \o r = b /\ (mark = <<>> /\ r # <<>> => r[1] # 239)
  <2>1. CASE b # <<>> /\ b[1] = 239
    <3>1. r = Tail(b) /\ Tail(b) \in Seq(Int)
      BY <1>3, <1>4, <2>1
    <3>2. <<239>> \o Tail(b) = b
      BY <1>3, <2>1
    <3>3. <<239>> # <<>>
      OBVIOUS
    <3> QED BY <3>1, <3>2, <3>3
  <2>2. CASE ~(b # <<>> /\ b[1] = 239)
    <3>1. r = b
      BY <1>4, <2>2
    <3>2. <<>> \o b = b
      BY <1>3
    <3> QED BY <3>1, <3>2, <1>3, <2>2
  <2> QED BY <2>1, <2>2
<1>6. MarkOff(r, buf, pos)
  BY <1>3, <1>5 DEF MarkOff
<1>7. AllGiven(r, <<>>, 0)
  <2> DEFINE t == [k \in 0..0 |-> 0]
  <2>1. t \in [0..Len(<<>>) -> 0..0] /\ t[0] = 0 /\ t[Len(<<>>)] = 0 /\ DOMAIN <<>> = {}
    BY LenProperties
  <2> HIDE DEF t
  <2>2. StopsAt(r, <<>>, 0, t)
    BY <2>1 DEF StopsAt
  <2> QED BY <2>1, <2>2 DEF AllGiven
<1>8. runes' = r /\ 0 \in 0..Len(r) /\ <<>> \in Seq(Given)
  BY <1>1, <1>4, <1>5, LenProperties
<1> QED BY <1>1, <1>5, <1>6, <1>7, <1>8 DEF ReaderInv

\* The inductive invariant of a stream that is read to its end: what was taken off it
\* is kept in front of what is left, and only a short read ends it.
PluginInv ==
    /\ all \in Seq(Int) /\ left \in Seq(Int) /\ all \o left = Str!Text
    /\ reading \in {"no", "yes", "done"}
    /\ reading = "yes" => Len(all) % Chunk = 0
    /\ reading = "done" /\ left # <<>> => Len(all) % Chunk # 0

\* A number with nothing left over is a multiple.
LEMMA MultipleIs ==
    ASSUME NEW c \in Nat \ {0}, NEW x \in Nat, x % c = 0
    PROVE  \E q \in Int : x = c * q
  BY Z3T(30)

\* What is less than c is left over.
LEMMA RestIs ==
    ASSUME NEW c \in Nat \ {0}, NEW q \in Int, NEW n \in 0..(c - 1), NEW x \in Int, x = c * q + n
    PROVE  x % c = n
  BY Z3T(30)

\* What a read adds to a multiple of the chunk decides whether it still is one.
LEMMA OverAMultiple ==
    ASSUME NEW c \in Nat \ {0}, NEW x \in Nat, x % c = 0, NEW n \in 0..c
    PROVE  (x + n) % c = IF n = c THEN 0 ELSE n
<1>1. PICK q \in Int : x = c * q
  BY MultipleIs
<1>2. CASE n = c
  <2>1. c * q + c = c * (q + 1) + 0
    BY Z3
  <2> DEFINE r == q + 1
             y == x + n
  <2>2. y = c * r + 0 /\ r \in Int /\ y \in Int /\ 0 \in 0..(c - 1)
    BY <1>1, <1>2, <2>1
  <2> HIDE DEF r, y
  <2>3. y % c = 0
    BY <2>2, RestIs
  <2> QED BY <2>3, <1>2 DEF y
<1>3. CASE n # c
  <2> DEFINE y == x + n
  <2>1. y = c * q + n /\ n \in 0..(c - 1) /\ y \in Int
    BY <1>1, <1>3
  <2> HIDE DEF y
  <2>2. y % c = n
    BY <2>1, RestIs
  <2> QED BY <2>2, <1>3 DEF y
<1> QED BY <1>2, <1>3

\* It does not matter what is joined first.
LEMMA JoinedInEitherOrder ==
    ASSUME NEW a \in Seq(Int), NEW f \in Seq(Int), NEW g \in Seq(Int)
    PROVE  (a \o f) \o g = a \o (f \o g)
  BY ConcatAssociative

\* Nothing was read.
LEMMA PluginInit == Str!Init => PluginInv
<1> SUFFICES ASSUME Str!Init PROVE PluginInv
  OBVIOUS
<1>1. all = <<>> /\ left = Str!Text /\ reading \in {"no", "yes"}
  BY DEF Str!Init
<1>2. Str!Text \in Seq(Int)
  <2>1. Size \in Nat /\ \A i \in 1..Size : i \in Int
    BY LibraryAssumption
  <2> QED BY <2>1 DEF Str!Text
<1>3. <<>> \o Str!Text = Str!Text /\ Len(<<>>) = 0
  BY <1>2
<1>4. 0 % Chunk = 0
  BY LibraryAssumption
<1> QED BY <1>1, <1>2, <1>3, <1>4 DEF PluginInv

\* One read, of any length.
LEMMA PluginStep ==
    ASSUME PluginInv, Str!readAllBytesFromStream
    PROVE  PluginInv'
<1>1. PICK n \in 0..Str!Least(Chunk, Len(left)) :
        /\ n = 0 => left = <<>>
        /\ all' = all \o SubSeq(left, 1, n) /\ left' = SubSeq(left, n + 1, Len(left))
        /\ reading' = IF n < Chunk THEN "done" ELSE "yes"
  BY DEF Str!readAllBytesFromStream
<1>2. /\ all \in Seq(Int) /\ left \in Seq(Int) /\ Len(left) \in Nat /\ Len(all) \in Nat /\ Chunk \in Nat \ {0}
      /\ all \o left = Str!Text /\ Len(all) % Chunk = 0
  BY LibraryAssumption, LenProperties DEF PluginInv, Str!readAllBytesFromStream
<1>3. n \in Nat /\ n <= Len(left) /\ n <= Chunk
  BY <1>2 DEF Str!Least
<1>4. PICK f : f = SubSeq(left, 1, n)
  OBVIOUS
<1>5. PICK g : g = SubSeq(left, n + 1, Len(left))
  OBVIOUS
<1>6. f \in Seq(Int) /\ Len(f) = n /\ \A i \in 1..n : f[i] = left[i]
  <2>1. 0 \in Nat /\ 0 <= n /\ 0 + 1 = 1 /\ n - 0 = n /\ \A i \in 1..n : 0 + i = i
    BY <1>3
  <2>2. /\ SubSeq(left, 0 + 1, n) \in Seq(Int) /\ Len(SubSeq(left, 0 + 1, n)) = n - 0
        /\ \A i \in 1..(n - 0) : SubSeq(left, 0 + 1, n)[i] = left[0 + i]
    BY <2>1, <1>2, <1>3, PieceFacts
  <2> QED BY <2>1, <2>2, <1>4
<1>7. g \in Seq(Int) /\ Len(g) = Len(left) - n /\ \A i \in 1..(Len(left) - n) : g[i] = left[n + i]
  <2>1. Len(left) \in Nat /\ n \in Nat /\ n <= Len(left) /\ Len(left) <= Len(left) /\ left \in Seq(Int)
    BY <1>2, <1>3
  <2> QED BY <2>1, <1>5, PieceFacts
<1>15. f \in Seq(Int) /\ g \in Seq(Int) /\ all \in Seq(Int)
  BY <1>2, <1>6, <1>7
<1>8. f \o g = left
  <2>1. f \o g \in Seq(Int) /\ Len(f \o g) = Len(left)
    <3>1. f \o g \in Seq(Int) /\ Len(f \o g) = Len(f) + Len(g)
      BY <1>15, ConcatProperties
    <3>2. n + (Len(left) - n) = Len(left)
      BY <1>2, <1>3
    <3> QED BY <3>1, <3>2, <1>6, <1>7
  <2>2. ASSUME NEW i \in 1..Len(left) PROVE (f \o g)[i] = left[i]
    <3>1. CASE i <= n
      <4>1. (f \o g)[i] = f[i] /\ i \in 1..n
        BY <3>1, <1>2, <1>3, <1>6, <1>7
      <4> QED BY <4>1, <1>6
    <3>2. CASE ~(i <= n)
      <4>1. i - n \in 1..(Len(left) - n) /\ n + (i - n) = i
        BY <3>2, <1>2, <1>3
      <4>2. (f \o g)[i] = g[i - n]
        <5>1. i \in 1..(Len(f) + Len(g)) /\ ~(i <= Len(f))
          BY <3>2, <1>2, <1>3, <1>6, <1>7
        <5>2. (f \o g)[i] = g[i - Len(f)]
          BY <5>1, <1>15, ConcatProperties
        <5> QED BY <5>2, <1>6
      <4> QED BY <4>1, <4>2, <1>7
    <3> QED BY <3>1, <3>2
  <2> QED BY <2>1, <2>2, <1>2, SameSequence
<1>9. (all \o f) \o g = Str!Text
  <2>1. (all \o f) \o g = all \o (f \o g)
    BY <1>15, JoinedInEitherOrder
  <2> QED BY <2>1, <1>2, <1>8
<1>10. all \o f \in Seq(Int) /\ Len(all \o f) = Len(all) + n
  <2>1. all \o f \in Seq(Int) /\ Len(all \o f) = Len(all) + Len(f)
    BY <1>15, ConcatProperties
  <2> QED BY <2>1, <1>6
<1>11. Len(all \o f) % Chunk = IF n = Chunk THEN 0 ELSE n
  <2>1. n \in 0..Chunk /\ Chunk \in Nat \ {0} /\ Len(all) \in Nat /\ Len(all) % Chunk = 0
    BY <1>2, <1>3
  <2> DEFINE x == Len(all)
  <2> HIDE DEF x
  <2>2. (x + n) % Chunk = IF n = Chunk THEN 0 ELSE n
    BY <2>1, OverAMultiple DEF x
  <2> QED BY <2>2, <1>10 DEF x
<1>12. all' = all \o f /\ left' = g /\ reading' \in {"no", "yes", "done"}
  BY <1>1, <1>4, <1>5
<1>13. reading' = "yes" => Len(all') % Chunk = 0
  <2>1. reading' = "yes" => n = Chunk
    BY <1>1, <1>2, <1>3
  <2> QED BY <2>1, <1>11, <1>12
<1>14. reading' = "done" /\ left' # <<>> => Len(all') % Chunk # 0
  <2>1. ASSUME reading' = "done", left' # <<>> PROVE n # Chunk /\ n # 0
    <3>1. n < Chunk
      BY <1>1, <2>1
    <3>2. CASE n = 0
      <4>1. left = <<>>
        BY <3>2, <1>1
      <4>2. Len(g) = 0
        BY <4>1, <3>2, <1>7
      <4>3. g = <<>>
        BY <4>2, <1>7
      <4> QED BY <4>3, <1>12, <2>1
    <3> QED BY <3>1, <3>2, <1>2, <1>3
  <2> QED BY <2>1, <1>11, <1>12
<1> QED BY <1>6, <1>7, <1>9, <1>10, <1>12, <1>13, <1>14 DEF PluginInv

\* The stream, the reader of it and the plugin's stream.
BytesInv == StreamInv /\ ReaderInv /\ PluginInv

\* A new stream, or one that a reader empties.
LEMMA BytesInit == Str!Init => BytesInv
<1>1. Str!Init => runes = Str!NotMade
  BY DEF Str!Init
<1> QED BY <1>1, StreamInit, PluginInit DEF BytesInv, ReaderInv

\* Steps that change nothing of it.
LEMMA BytesStay == BytesInv /\ UNCHANGED bytes => BytesInv'
<1> SUFFICES ASSUME BytesInv, UNCHANGED bytes PROVE BytesInv'
  OBVIOUS
<1>1. StreamInv'
  BY DEF bytes, BytesInv, StreamInv, Tells
<1>2. ReaderInv'
  BY DEF bytes, BytesInv, ReaderInv
<1>3. PluginInv'
  BY DEF bytes, BytesInv, PluginInv
<1> QED BY <1>1, <1>2, <1>3 DEF BytesInv

\* A step of the stream, of its reader or of the plugin's stream leaves the two others.
LEMMA BytesStep == BytesInv /\ [Str!Next]_bytes => BytesInv'
<1> SUFFICES ASSUME BytesInv, Str!Next PROVE BytesInv'
  BY BytesStay
<1>1. StreamInv /\ ReaderInv /\ PluginInv
  BY DEF BytesInv
<1>2. ASSUME UNCHANGED Str!stream PROVE StreamInv'
  BY <1>1, <1>2 DEF Str!stream, StreamInv, Tells
<1>3. ASSUME UNCHANGED Str!plugin PROVE PluginInv'
  BY <1>1, <1>3 DEF Str!plugin, PluginInv
<1>4. CASE runes = Str!NotMade /\ Str!OnStream
  <2>1. StreamInv'
    BY <1>1, <1>4, StreamStep
  <2>2. UNCHANGED Str!plugin /\ (UNCHANGED Str!reader \/ Str!NewStreamReader)
    BY <1>4 DEF Str!OnStream, Str!msWrite, Str!msWriteBefore, Str!msReadByte, Str!msCopyTo, Str!msToArray, Str!msRead,
                Str!msReadBefore, Str!msSetPosition, Str!msSeek, Str!msSetLength, Str!msClose, Str!NewStreamReader,
                Str!Changes, Str!Asks
  <2>3. ASSUME UNCHANGED Str!reader PROVE ReaderInv'
    BY <1>4, <2>3 DEF Str!reader, ReaderInv
  <2>4. buf \in Seq(Int) /\ pos \in Int
    BY <1>1 DEF StreamInv
  <2> QED BY <2>1, <2>2, <2>3, <2>4, <1>3, NewReader DEF BytesInv
<1>5. CASE Str!stringReaderRead \/ Str!stringReaderReadBlock(2) \/ Str!stringReaderReadLine
           \/ Str!stringReaderReadToEnd
  <2>1. UNCHANGED Str!stream /\ UNCHANGED Str!plugin
    BY <1>5 DEF Str!stringReaderRead, Str!stringReaderReadBlock, Str!stringReaderReadLine, Str!stringReaderReadToEnd,
                Str!Reads
  <2> QED BY <2>1, <1>1, <1>2, <1>3, <1>5, ReaderStep, LineStep DEF BytesInv
<1>6. CASE Str!readAllBytesFromStream
  <2>1. UNCHANGED Str!stream /\ UNCHANGED Str!reader
    BY <1>6 DEF Str!readAllBytesFromStream
  <2>2. ReaderInv'
    BY <2>1, <1>1 DEF Str!stream, Str!reader, ReaderInv
  <2> QED BY <2>1, <2>2, <1>1, <1>2, <1>6, PluginStep DEF BytesInv
<1> QED BY <1>4, <1>5, <1>6 DEF Str!Next

\* What is to be shown of streams follows from the invariant.
LEMMA BytesAreSound ==
    BytesInv => Str!BytesAreTheLastWritten /\ Str!ReadersLoseNothing /\ Str!OnlyShortReadsEnd
<1>1. PluginInv => Str!OnlyShortReadsEnd
  BY DEF PluginInv, Str!OnlyShortReadsEnd
<1> QED BY <1>1, StreamIsSound, ReaderIsSound DEF BytesInv

\* A stream has the bytes last written, its reader loses none, and of a plugin's
\* stream that answers in full nothing is lost: for any contents, lengths and chunks.
THEOREM StreamsAreSound ==
    Str!Spec => [](Str!BytesAreTheLastWritten /\ Str!ReadersLoseNothing /\ Str!OnlyShortReadsEnd)
<1>1. Str!svars = <<Str!stream, Str!reader, Str!plugin>>
  BY DEF Str!svars
<1>2. UNCHANGED Str!svars => UNCHANGED bytes
  BY DEF Str!svars, Str!stream, Str!reader, Str!plugin, bytes
<1>3. BytesInv /\ [Str!Next]_(Str!svars) => BytesInv'
  BY <1>2, BytesStep
<1> QED BY <1>3, BytesInit, BytesAreSound, PTL DEF Str!Spec

(***************************************************************************)
(* The four parts                                                          *)
(***************************************************************************)

\* The inductive invariant of the library: that of every part, for the others
\* stay as they begin while one runs.
LibraryInv == CollectionInv /\ ChainInv /\ AdoInv /\ BytesInv

\* Every part begins as it should.
LEMMA LibraryInit == Inits => LibraryInv /\ L!Promise!Init /\ K!Promise!CInit
<1>1. Inits => K!Init /\ L!Init /\ AdoInit /\ Str!Init
  BY DEF Inits
<1>2. L!Init => ChainInv /\ L!Promise!Init
  BY ChainsInit DEF L!Init, L!Promise!Init
<1> QED BY <1>1, <1>2, CollectionInit, InitAdoInv, BytesInit DEF LibraryInv

\* Parts that a step leaves alone.
LEMMA CollectionRests == CollectionInv /\ UNCHANGED coll => CollectionInv'
BY CollectionStays DEF coll, K!vars, K!coll
\* The lists.
LEMMA ChainsRest == ChainInv /\ UNCHANGED chains => ChainInv'
BY ChainsStay DEF chains, L!vars, L!links
\* The database.
LEMMA RowsRest == AdoInv /\ UNCHANGED avars => AdoInv'
BY NextAdoInv

\* A step of one part keeps all invariants, and what that part promises.
LEMMA LibraryStep ==
    ASSUME LibraryInv, [Collection \/ Linked \/ Sqlite \/ Stream]_<<part, coll, chains, avars, bytes>>
    PROVE  /\ LibraryInv'
           /\ [part = "linked" => [L!Promise!Next]_chains]_chains
           /\ [part = "collection" => [K!Promise!CNext]_coll]_coll
<1>1. CollectionInv /\ ChainInv /\ AdoInv /\ BytesInv
  BY DEF LibraryInv
<1>2. CASE Collection
  <2>1. part = "collection" /\ K!Next /\ UNCHANGED chains /\ UNCHANGED avars /\ UNCHANGED bytes
    BY <1>2 DEF Collection
  <2>2. CollectionInv' /\ K!Promise!CNext
    BY <1>1, <2>1, CollectionStep
  <2> QED BY <1>1, <2>1, <2>2, ChainsRest, RowsRest, BytesStay DEF LibraryInv
<1>3. CASE Linked
  <2>1. part = "linked" /\ L!Next /\ UNCHANGED coll /\ UNCHANGED avars /\ UNCHANGED bytes
    BY <1>3 DEF Linked
  <2>2. ChainInv' /\ L!Promise!Next
    BY <1>1, <2>1, ChainStep
  <2> QED BY <1>1, <2>1, <2>2, CollectionRests, RowsRest, BytesStay DEF LibraryInv
<1>4. CASE Sqlite
  <2>1. AdoNext /\ UNCHANGED coll /\ UNCHANGED chains /\ UNCHANGED bytes
    BY <1>4 DEF Sqlite
  <2> QED BY <1>1, <2>1, CollectionRests, ChainsRest, NextAdoInv, BytesStay DEF LibraryInv
<1>5. CASE Stream
  <2>1. Str!Next /\ UNCHANGED coll /\ UNCHANGED chains /\ UNCHANGED avars
    BY <1>5 DEF Stream
  <2> QED BY <1>1, <2>1, CollectionRests, ChainsRest, RowsRest, BytesStep DEF LibraryInv
<1>6. CASE UNCHANGED <<part, coll, chains, avars, bytes>>
  <2>1. UNCHANGED coll /\ UNCHANGED chains /\ UNCHANGED avars /\ UNCHANGED bytes
    BY <1>6
  <2> QED BY <1>1, <2>1, CollectionRests, ChainsRest, RowsRest, BytesStay DEF LibraryInv
<1> QED BY <1>2, <1>3, <1>4, <1>5, <1>6

\* Whichever part of the library runs: linked lists are well formed chains,
\* collections are stored and enumerated as their kinds demand, transactions hold
\* the rows inserted for them, streams and readers lose no byte.
THEOREM LibraryIsSound == Parts => []StructuresAreSound
<1>1. LibraryInv => StructuresAreSound
  BY ChainsAreSound, CollectionIsSound, BytesAreSound DEF LibraryInv, StructuresAreSound
<1> QED BY <1>1, LibraryInit, LibraryStep, PTL DEF Parts

\* In the library as in themselves, the linked lists are the sequences promised.
THEOREM LibraryKeepsLists == Parts => ImplementsLists
<1> QED BY LibraryInit, LibraryStep, PTL DEF Parts, ImplementsLists

\* In the library as in themselves, the collections do what their kinds promise.
THEOREM LibraryKeepsTheContract == Parts => ImplementsContract
<1> QED BY LibraryInit, LibraryStep, PTL DEF Parts, ImplementsContract

\* So are transactions all or nothing, and readers tell what was stored.
THEOREM LibraryKeepsRows == Parts => [](AllOrNothing /\ ReadersTellTheTable)
<1>1. LibraryInv => AllOrNothing /\ ReadersTellTheTable
  BY ReadersAreRight DEF LibraryInv, AdoInv
<1> QED BY <1>1, LibraryInit, LibraryStep, PTL DEF Parts
=============================================================================
