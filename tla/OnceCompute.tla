----------------------------- MODULE OnceCompute -----------------------------
(***************************************************************************)
(* The values code computes once and shares: Lazy<T>.Value, ThreadLocal<T> *)
(* .Value and ConcurrentDictionary.GetOrAdd with a factory, next to the    *)
(* other operations of their containers (system_lazy.go,                   *)
(* system_threadlocal.go, system_concurrentdictionary.go and the files of  *)
(* those names of the interpreter), for concurrent Calls of one Assembly.  *)
(*                                                                         *)
(* A container is a Lazy<T>, a ThreadLocal<T> or AsyncLocal<T> (a box), or *)
(* a whole dictionary: it has one sync.Mutex, and one slot for its value   *)
(* or one per key.  The mutex is held while the factory runs, and the      *)
(* factory is C# code, which may use any container.  Every other operation *)
(* takes the mutex for one look or one write and is one step.              *)
(***************************************************************************)
EXTENDS Naturals, Sequences, FiniteSets

CONSTANTS Procs,     \* goroutines inside Assembly.Call
          Conts,     \* the containers
          Kind,      \* Kind[c]: "lazy", "box" or "dict"
          Slots,     \* the cells of the containers
          In,        \* In[s]: the container of slot s
          Body,      \* Body[s]: the operations the factory for s performs
          NoFactory, \* slots constructed without a factory delegate
          MayFail,   \* slots whose factory may throw, or meet a limit
          Offered,   \* the operations the called methods perform
          MaxCalls,  \* operations per goroutine
          NoOp, Nobody, Unset, Null, Failed

Kinds == [lazy |-> {"compute", "tryGet"},
          box  |-> {"compute", "tryGet", "set"},
          dict |-> {"compute", "orAdd", "tryAdd", "set", "tryGet", "item",
                    "tryRemove", "clear"}]

ASSUME OnceComputeAssumption ==
    /\ Kind \in [Conts -> {"lazy", "box", "dict"}]
    /\ In \in [Slots -> Conts]
    /\ Offered \subseteq [do : UNION {Kinds[k] : k \in DOMAIN Kinds}, slot : Slots]
    /\ Body \in [Slots -> Seq(Offered)]
    /\ \A o \in Offered : o.do \in Kinds[Kind[In[o.slot]]]
    /\ \A s \in NoFactory : Kind[In[s]] # "dict"
    /\ MaxCalls \in Nat
    /\ NoOp \notin Offered /\ Nobody \notin Procs
    /\ Unset \notin {Null, Failed} \union (Procs \X Nat)
    /\ Failed \notin {Null} \union (Procs \X Nat)

VARIABLES val,     \* value and hasValue of each cell, or the map's entries
          holder,  \* who holds each container's mu
          stack,   \* per goroutine, the factories it is running, innermost last
          asked,   \* the operation the called method performs, NoOp for none
          raised,  \* whether an error is on its way out of an operation
          res,     \* what the goroutine's last operation returned
          made,    \* values each goroutine has created
          calls,   \* operations each called method has begun
          begun    \* the slots whose factory ever ran

vars == <<val, holder, stack, asked, raised, res, made, calls, begun>>

Value == Procs \X Nat
Frame == [slot : Slots, at : Nat \ {0}]

FreeAlways(c) == c \in Conts
Free(c) == holder[c] = Nobody

Top(p) == stack[p][Len(stack[p])]
Below(p) == SubSeq(stack[p], 1, Len(stack[p]) - 1)

\* The operation p is at: of the innermost factory, or of the called method.
Now(p) ==
    IF stack[p] = <<>> THEN asked[p]
    ELSE IF Top(p).at \in DOMAIN Body[Top(p).slot] THEN Body[Top(p).slot][Top(p).at]
    ELSE NoOp

At(p, o, ops) == Now(p) = o /\ o.do \in ops /\ ~raised[p]

Init ==
    /\ val = [s \in Slots |-> Unset]
    /\ holder = [c \in Conts |-> Nobody]
    /\ stack = [p \in Procs |-> <<>>]
    /\ asked = [p \in Procs |-> NoOp]
    /\ raised = [p \in Procs |-> FALSE]
    /\ res = [p \in Procs |-> Unset]
    /\ made = [p \in Procs |-> 0]
    /\ calls = [p \in Procs |-> 0]
    /\ begun = {}

\* An operation on s ends with v, or with an error: the code that performed it,
\* rest being the factories below, goes on.
Resume(p, rest, s, v) ==
    /\ res' = [res EXCEPT ![p] = [slot |-> s, val |-> v]]
    /\ raised' = [raised EXCEPT ![p] = (v = Failed /\ rest # <<>>)]
    /\ IF rest = <<>>
       THEN /\ stack' = [stack EXCEPT ![p] = <<>>]
            /\ asked' = [asked EXCEPT ![p] = NoOp]
       ELSE /\ stack' = [stack EXCEPT ![p] = [rest EXCEPT ![Len(rest)].at = @ + 1]]
            /\ UNCHANGED asked

\* A new object, boxed number or string.
New(p) == <<p, made[p] + 1>>
Makes(p) == made' = [made EXCEPT ![p] = @ + 1]

Call(p, o) ==
    /\ asked[p] = NoOp /\ calls[p] < MaxCalls
    /\ asked' = [asked EXCEPT ![p] = o]
    /\ calls' = [calls EXCEPT ![p] = @ + 1]
    /\ UNCHANGED <<val, holder, stack, raised, res, made, begun>>

-----------------------------------------------------------------------------
(* LazyGetOrCompute, ValueBoxGetOrCompute, ConcurrentDictGetOrAdd.         *)

Hit(p, o) ==
    /\ At(p, o, {"compute"}) /\ Free(In[o.slot]) /\ val[o.slot] # Unset
    /\ Resume(p, stack[p], o.slot, val[o.slot])
    /\ UNCHANGED <<val, holder, made, calls, begun>>

Miss(p, o) ==
    /\ At(p, o, {"compute"}) /\ Free(In[o.slot]) /\ val[o.slot] = Unset
    /\ o.slot \notin NoFactory
    /\ holder' = [holder EXCEPT ![In[o.slot]] = p]
    /\ stack' = [stack EXCEPT ![p] = Append(@, [slot |-> o.slot, at |-> 1])]
    /\ begun' = begun \union {o.slot}
    /\ UNCHANGED <<val, asked, raised, res, made, calls>>

\* A Lazy<T> without a delegate is an error, a ThreadLocal<T> becomes null.
MissNoFactory(p, o) ==
    /\ At(p, o, {"compute"}) /\ Free(In[o.slot]) /\ val[o.slot] = Unset
    /\ o.slot \in NoFactory
    /\ IF Kind[In[o.slot]] = "lazy"
       THEN Resume(p, stack[p], o.slot, Failed) /\ UNCHANGED val
       ELSE /\ Resume(p, stack[p], o.slot, Null)
            /\ val' = [val EXCEPT ![o.slot] = Null]
    /\ UNCHANGED <<holder, made, calls, begun>>

\* The innermost factory has performed its operations.
AtEnd(p) ==
    stack[p] # <<>> /\ ~raised[p] /\ Top(p).at > Len(Body[Top(p).slot])

FinishLocked(p) ==
    /\ AtEnd(p)
    /\ val' = [val EXCEPT ![Top(p).slot] = New(p)]
    /\ Resume(p, Below(p), Top(p).slot, New(p))
    /\ Makes(p) /\ UNCHANGED <<holder, calls, begun>>
Finish(p) ==
    /\ AtEnd(p)
    /\ LET s == Top(p).slot
       IN  /\ val' = [val EXCEPT ![s] = New(p)]
           /\ holder' = [holder EXCEPT ![In[s]] = Nobody]
           /\ Resume(p, Below(p), s, New(p))
    /\ Makes(p) /\ UNCHANGED <<calls, begun>>

\* It throws, or does not catch what an operation of it threw: nothing is stored.
FailLocked(p) ==
    /\ \/ stack[p] # <<>> /\ raised[p]
       \/ AtEnd(p) /\ Top(p).slot \in MayFail
    /\ Resume(p, Below(p), Top(p).slot, Failed)
    /\ UNCHANGED <<val, holder, made, calls, begun>>
FailCached(p) ==
    /\ \/ stack[p] # <<>> /\ raised[p]
       \/ AtEnd(p) /\ Top(p).slot \in MayFail
    /\ val' = [val EXCEPT ![Top(p).slot] = Failed]
    /\ holder' = [holder EXCEPT ![In[Top(p).slot]] = Nobody]
    /\ Resume(p, Below(p), Top(p).slot, Failed)
    /\ UNCHANGED <<made, calls, begun>>
Fail(p) ==
    /\ \/ stack[p] # <<>> /\ raised[p]
       \/ AtEnd(p) /\ Top(p).slot \in MayFail
    /\ LET s == Top(p).slot
       IN  /\ holder' = [holder EXCEPT ![In[s]] = Nobody]
           /\ Resume(p, Below(p), s, Failed)
    /\ UNCHANGED <<val, made, calls, begun>>

Catch(p) ==
    /\ stack[p] # <<>> /\ raised[p]
    /\ raised' = [raised EXCEPT ![p] = FALSE]
    /\ UNCHANGED <<val, holder, stack, asked, res, made, calls, begun>>

-----------------------------------------------------------------------------
(* The operations that run no code of the assembly.                        *)

\* GetOrAdd with a value, TryAdd.
AddBlindly(p, o) ==
    /\ At(p, o, {"orAdd", "tryAdd"}) /\ Free(In[o.slot])
    /\ val' = [val EXCEPT ![o.slot] = New(p)]
    /\ Resume(p, stack[p], o.slot, IF val[o.slot] = Unset THEN New(p) ELSE val[o.slot])
    /\ Makes(p) /\ UNCHANGED <<holder, calls, begun>>
Add(p, o) ==
    /\ At(p, o, {"orAdd", "tryAdd"}) /\ Free(In[o.slot])
    /\ IF val[o.slot] = Unset
       THEN /\ val' = [val EXCEPT ![o.slot] = New(p)]
            /\ Resume(p, stack[p], o.slot, New(p))
            /\ Makes(p)
       ELSE /\ Resume(p, stack[p], o.slot,
                      IF o.do = "orAdd" THEN val[o.slot] ELSE Unset)
            /\ UNCHANGED <<val, made>>
    /\ UNCHANGED <<holder, calls, begun>>

SetUnlocked(p, o) ==
    /\ At(p, o, {"set"})
    /\ val' = [val EXCEPT ![o.slot] = New(p)]
    /\ Resume(p, stack[p], o.slot, New(p))
    /\ Makes(p) /\ UNCHANGED <<holder, calls, begun>>
Set(p, o) ==
    /\ At(p, o, {"set"}) /\ Free(In[o.slot])
    /\ val' = [val EXCEPT ![o.slot] = New(p)]
    /\ Resume(p, stack[p], o.slot, New(p))
    /\ Makes(p) /\ UNCHANGED <<holder, calls, begun>>

\* TryGetValue, ContainsKey, Count, Keys, GetEnumerator, IsValueCreated,
\* AsyncLocal<T>.Value; and the indexer, which fails where they answer no.
Look(p, o) ==
    /\ At(p, o, {"tryGet", "item"}) /\ Free(In[o.slot])
    /\ Resume(p, stack[p], o.slot,
              IF o.do = "item" /\ val[o.slot] = Unset THEN Failed ELSE val[o.slot])
    /\ UNCHANGED <<val, holder, made, calls, begun>>

TryRemove(p, o) ==
    /\ At(p, o, {"tryRemove"}) /\ Free(In[o.slot])
    /\ val' = [val EXCEPT ![o.slot] = Unset]
    /\ Resume(p, stack[p], o.slot, val[o.slot])
    /\ UNCHANGED <<holder, made, calls, begun>>

Clear(p, o) ==
    /\ At(p, o, {"clear"}) /\ Free(In[o.slot])
    /\ val' = [s \in Slots |-> IF In[s] = In[o.slot] THEN Unset ELSE val[s]]
    /\ Resume(p, stack[p], o.slot, Unset)
    /\ UNCHANGED <<holder, made, calls, begun>>

Step(p) ==
    \/ Finish(p) \/ Fail(p) \/ Catch(p)
    \/ \E o \in Offered :
          \/ Hit(p, o) \/ Miss(p, o) \/ MissNoFactory(p, o)
          \/ Add(p, o) \/ Set(p, o) \/ Look(p, o) \/ TryRemove(p, o) \/ Clear(p, o)

Next == \E p \in Procs : Step(p) \/ \E o \in Offered : Call(p, o)

Spec == Init /\ [][Next]_vars
\* The Go scheduler runs every goroutine that can, and sync.Mutex hands over to
\* a goroutine that has waited for a millisecond.
FairSpec == Spec /\ \A p \in Procs : SF_vars(Step(p))
-----------------------------------------------------------------------------
(* Correctness.                                                            *)

\* Every variable has its type; in particular no cell ever holds an error.
TypeOK ==
    /\ val \in [Slots -> Value \union {Unset, Null}]
    /\ holder \in [Conts -> Procs \union {Nobody}]
    /\ stack \in [Procs -> Seq(Frame)]
    /\ asked \in [Procs -> Offered \union {NoOp}]
    /\ raised \in [Procs -> BOOLEAN]
    /\ res \in [Procs -> {Unset} \union
               [slot : Slots, val : Value \union {Unset, Null, Failed}]]
    /\ made \in [Procs -> Nat] /\ calls \in [Procs -> 0..MaxCalls]
    /\ begun \subseteq Slots

\* In one container one factory runs at a time, on one goroutine, and not inside
\* itself: "two concurrent misses on the same key can't both run the factory"
\* (system_concurrentdictionary.go:75-76), "one computes, the other blocks".
OneFactoryAtATime ==
    \A p, q \in Procs : \A i \in DOMAIN stack[p], j \in DOMAIN stack[q] :
        In[stack[p][i].slot] = In[stack[q][j].slot] => p = q /\ i = j

\* A mutex is held by the goroutine that runs a factory of its container and by
\* no other: no way out of a factory, however deep, leaves one locked.
HeldWhileRunning ==
    \A c \in Conts, p \in Procs :
        holder[c] = p <=> \E i \in DOMAIN stack[p] : In[stack[p][i].slot] = c

\* The factory of an empty slot is at work: nothing fills the slot behind its back.
EmptyWhileRunning ==
    \A p \in Procs : \A i \in DOMAIN stack[p] : val[stack[p][i].slot] = Unset

\* Together they are inductive.
IInv == TypeOK /\ OneFactoryAtATime /\ HeldWhileRunning /\ EmptyWhileRunning

\* The mutexes, factories and errors implement maps that are read and written in
\* one step: "one cached value silently wins" (system_lazy.go:90) never happens.
Promised == INSTANCE OnceMap
ImplementsOnceMap == Promised!Spec

\* Every operation returns: the sandbox "reliably stops a buggy or
\* accidentally-adversarial plugin from hanging" its host (security.md:118).
\* It does as long as no factory asks, directly or through another factory, for
\* a container that waits for that factory.
OperationsReturn == \A p \in Procs : asked[p] # NoOp ~> asked[p] = NoOp

\* Accesses to a Lazy<T> "serialize through the factory exactly once"
\* (system_lazy.go:15-16). Not kept when the factory throws (README,
\* Disagreements).
FactoryRunsOnce ==
    [][\A p \in Procs : Len(stack'[p]) > Len(stack[p]) =>
          LET s == stack'[p][Len(stack'[p])].slot
          IN  Kind[In[s]] = "lazy" => s \notin begun]_vars

\* "This thread's own value and the one value this box currently holds are the
\* same thing" (system_threadlocal.go:18-19): what a goroutine reads from a
\* ThreadLocal<T> is what it stored there itself, or nothing. Not kept when calls
\* run concurrently (README, Disagreements).
OwnValue ==
    \A p \in Procs :
        LET v == res[p].val
        IN  res[p] # Unset /\ Kind[In[res[p].slot]] = "box" /\ v \in Value
               => v[1] = p
=============================================================================
