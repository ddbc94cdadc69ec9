------------------------------ MODULE TypeInit ------------------------------
(***************************************************************************)
(* Lazy type initialisation: Machine.staticType / runCctor                 *)
(* (internal/interpreter/statics.go) over Type.EnsureCctor                 *)
(* (internal/runtime/class.go), for several concurrent Assembly.Calls.     *)
(*                                                                         *)
(* Every call runs on a Machine of its own (call.go, Assembly.machine), so *)
(* a "process" is one goroutine making one call after another; the Types,  *)
(* with their sync.Once, are shared.  A .cctor is abstracted to the        *)
(* sequence Body[t] of types whose statics it touches; written[t] counts   *)
(* how much of it has run, so the statics of t are at their defaults when  *)
(* it is 0 and complete when it is Len(Body[t]).  A type without a .cctor  *)
(* (ErrMethodNotFound in runCctor) has an empty Body.                      *)
(*                                                                         *)
(* stack[p] is the part of p's Go call stack that consists of nested       *)
(* initialisers, the innermost last.                                       *)
(***************************************************************************)
EXTENDS Naturals, Sequences

CONSTANTS Procs,      \* goroutines calling into the assembly
          Types,      \* types of the assembly that own static state
          Body,       \* Body[t]: the static accesses the .cctor of t makes
          Panics,     \* types whose .cctor may be running when the code below
                      \* Invoke panics (bad IL, a bug of a native)
          None        \* no type

ASSUME TypeInitAssumption ==
    /\ Body \in [Types -> Seq(Types)]
    /\ Panics \subseteq Types
    /\ None \notin Types

VARIABLES once,           \* Type.cctorOnce: fresh, running or done
          cctorErr,       \* Type.cctorErr: "nil", "err", or "limit" when the
                          \* initialiser met a resource limit of its call
          written,        \* progress of the .cctor over its statics
          cctorsRunning,  \* Machine.cctorsRunning of each goroutine's Machine
          stack,          \* the nested .cctors on the goroutine's Go stack
          pc,             \* where the goroutine is
          arg,            \* the type staticType was called with
          res             \* what staticType returned

Failures == {"err", "limit"}

shared == <<once, cctorErr, written>>
local == <<cctorsRunning, stack, pc, arg, res>>
vars == <<once, cctorErr, written, cctorsRunning, stack, pc, arg, res>>

Init ==
    /\ once = [t \in Types |-> "fresh"]
    /\ cctorErr = [t \in Types |-> "nil"]
    /\ written = [t \in Types |-> 0]
    /\ cctorsRunning = [p \in Procs |-> {}]
    /\ stack = [p \in Procs |-> <<>>]
    /\ pc = [p \in Procs |-> "idle"]
    /\ arg = [p \in Procs |-> None]
    /\ res = [p \in Procs |-> "ok"]

-----------------------------------------------------------------------------
(* The call around the initialisers.                                       *)

\* Assembly.Call: a fresh Machine, hence an empty cctorsRunning.
BeginCall(p) ==
    /\ pc[p] = "idle"
    /\ pc' = [pc EXCEPT ![p] = "code"]
    /\ cctorsRunning' = [cctorsRunning EXCEPT ![p] = {}]
    /\ UNCHANGED <<shared, stack, arg, res>>

\* The called method returns, or fails outside every .cctor.
EndCall(p) ==
    /\ pc[p] = "code"
    /\ stack[p] = <<>>
    /\ pc' = [pc EXCEPT ![p] = "idle"]
    /\ UNCHANGED <<shared, cctorsRunning, stack, arg, res>>

-----------------------------------------------------------------------------
(* A static access: staticType(t).                                         *)

\* The innermost .cctor p is running.
Top(p) == stack[p][Len(stack[p])]

\* The accesses the code that p is running can make next.
NextAccess(p) ==
    {t \in Types :
        stack[p] = <<>>
        \/ /\ written[Top(p)] < Len(Body[Top(p)])
           /\ t = Body[Top(p)][written[Top(p)] + 1]}

Return(p, t, r) ==
    /\ pc' = [pc EXCEPT ![p] = "ret"]
    /\ arg' = [arg EXCEPT ![p] = t]
    /\ res' = [res EXCEPT ![p] = r]

\* Mutant: EnsureCctor forgets to return the recorded error.
OutcomeForgotten(t) == "ok"

\* What EnsureCctor reports once the Once is done.
Outcome(t) == IF cctorErr[t] = "nil" THEN "ok" ELSE cctorErr[t]

\* t's .cctor runs further up this very call chain: its partial statics are
\* visible, the Once is not touched.
AccessReentrant(p, t) ==
    /\ pc[p] = "code" /\ t \in NextAccess(p)
    /\ t \in cctorsRunning[p]
    /\ Return(p, t, "ok")
    /\ UNCHANGED <<shared, cctorsRunning, stack>>

\* The Once is done: the recorded outcome is the outcome of this access too.
AccessDone(p, t) ==
    /\ pc[p] = "code" /\ t \in NextAccess(p)
    /\ t \notin cctorsRunning[p]
    /\ once[t] = "done"
    /\ Return(p, t, Outcome(t))
    /\ UNCHANGED <<shared, cctorsRunning, stack>>

\* Mutant: a failed initialiser is tried again by the next access.
AccessFirstRetries(p, t) ==
    /\ pc[p] = "code" /\ t \in NextAccess(p)
    /\ t \notin cctorsRunning[p]
    /\ once[t] = "fresh" \/ (once[t] = "done" /\ cctorErr[t] # "nil")
    /\ once' = [once EXCEPT ![t] = "running"]
    /\ cctorsRunning' = [cctorsRunning EXCEPT ![p] = @ \cup {t}]
    /\ stack' = [stack EXCEPT ![p] = Append(@, t)]
    /\ UNCHANGED <<cctorErr, written, pc, arg, res>>

\* First access ever: the closure given to EnsureCctor starts running.
AccessFirst(p, t) ==
    /\ pc[p] = "code" /\ t \in NextAccess(p)
    /\ t \notin cctorsRunning[p]
    /\ once[t] = "fresh"
    /\ once' = [once EXCEPT ![t] = "running"]
    /\ cctorsRunning' = [cctorsRunning EXCEPT ![p] = @ \cup {t}]
    /\ stack' = [stack EXCEPT ![p] = Append(@, t)]
    /\ UNCHANGED <<cctorErr, written, pc, arg, res>>

\* Mutant: a flag instead of a Once, so the second goroutine goes on at once.
AccessBlocksNot(p, t) ==
    /\ pc[p] = "code" /\ t \in NextAccess(p)
    /\ t \notin cctorsRunning[p]
    /\ once[t] = "running"
    /\ Return(p, t, "ok")
    /\ UNCHANGED <<shared, cctorsRunning, stack>>

\* Mutant: no cctorsRunning test before the Once (the state before Fase 3.3).
AccessBlocksAlways(p, t) ==
    /\ pc[p] = "code" /\ t \in NextAccess(p)
    /\ once[t] = "running"
    /\ pc' = [pc EXCEPT ![p] = "wait"]
    /\ arg' = [arg EXCEPT ![p] = t]
    /\ UNCHANGED <<shared, cctorsRunning, stack, res>>

\* Another goroutine is inside the Once: block on it.
AccessBlocks(p, t) ==
    /\ pc[p] = "code" /\ t \in NextAccess(p)
    /\ t \notin cctorsRunning[p]
    /\ once[t] = "running"
    /\ pc' = [pc EXCEPT ![p] = "wait"]
    /\ arg' = [arg EXCEPT ![p] = t]
    /\ UNCHANGED <<shared, cctorsRunning, stack, res>>

\* Mutant: a waiter that finds a failure goes back to sleep.
WakeOnSuccess(p) ==
    /\ pc[p] = "wait"
    /\ once[arg[p]] = "done"
    /\ \/ /\ cctorErr[arg[p]] = "nil"
          /\ Return(p, arg[p], "ok")
          /\ UNCHANGED <<shared, cctorsRunning, stack>>
       \/ cctorErr[arg[p]] # "nil" /\ UNCHANGED vars

\* The Once became done: Do returns and EnsureCctor reads cctorErr.
Wake(p) ==
    /\ pc[p] = "wait"
    /\ once[arg[p]] = "done"
    /\ Return(p, arg[p], Outcome(arg[p]))
    /\ UNCHANGED <<shared, cctorsRunning, stack>>

-----------------------------------------------------------------------------
(* The end of an initialiser.                                              *)

\* Mutant: the deferred delete from cctorsRunning is missing.
FinishWithoutDelete(p, err) ==
    /\ once' = [once EXCEPT ![Top(p)] = "done"]
    /\ cctorErr' = [cctorErr EXCEPT ![Top(p)] = err]
    /\ stack' = [stack EXCEPT ![p] = SubSeq(@, 1, Len(@) - 1)]
    /\ UNCHANGED cctorsRunning

\* The closure returns err: the deferred delete, then cctorErr, then the Once.
Finish(p, err) ==
    /\ once' = [once EXCEPT ![Top(p)] = "done"]
    /\ cctorErr' = [cctorErr EXCEPT ![Top(p)] = err]
    /\ cctorsRunning' = [cctorsRunning EXCEPT ![p] = @ \ {Top(p)}]
    /\ stack' = [stack EXCEPT ![p] = SubSeq(@, 1, Len(@) - 1)]

\* Mutant: the access is not consumed once its initialiser is done.
AdvanceTwice(p) ==
    /\ written' = IF stack[p] = <<>> THEN written
                  ELSE [written EXCEPT ![Top(p)] = @ + 2]
    /\ pc' = [pc EXCEPT ![p] = "code"]
    /\ arg' = [arg EXCEPT ![p] = None]

\* The instruction stream goes on behind the static access.
Advance(p) ==
    /\ written' = IF stack[p] = <<>> THEN written
                  ELSE [written EXCEPT ![Top(p)] = @ + 1]
    /\ pc' = [pc EXCEPT ![p] = "code"]
    /\ arg' = [arg EXCEPT ![p] = None]

ReturnOk(p) ==
    /\ pc[p] = "ret" /\ res[p] = "ok"
    /\ Advance(p)
    /\ UNCHANGED <<once, cctorErr, cctorsRunning, stack, res>>

\* A failed access ends its .cctor with an error too: wrapped by staticType
\* it is no *ManagedException any more, so no catch handler in IL sees it.
ReturnErrInCctor(p) ==
    /\ pc[p] = "ret" /\ res[p] # "ok"
    /\ stack[p] # <<>>
    /\ Finish(p, res[p])
    /\ Return(p, Top(p), res[p])
    /\ UNCHANGED written

\* ... and outside every .cctor it ends the call.
ReturnErrInCall(p) ==
    /\ pc[p] = "ret" /\ res[p] # "ok"
    /\ stack[p] = <<>>
    /\ pc' = [pc EXCEPT ![p] = "idle"]
    /\ arg' = [arg EXCEPT ![p] = None]
    /\ UNCHANGED <<shared, cctorsRunning, stack, res>>

\* Natives that drop the error and let the code go on: Task.Run and
\* TaskFactory.StartNew (taskFaultOrPropagate, whose == never matches a limit
\* error that staticType has wrapped), FieldInfo.GetValue.
ReturnErrSwallowed(p) ==
    /\ pc[p] = "ret" /\ res[p] # "ok"
    /\ Advance(p)
    /\ UNCHANGED <<once, cctorErr, cctorsRunning, stack, res>>

CctorReturns(p) ==
    /\ pc[p] = "code"
    /\ stack[p] # <<>>
    /\ written[Top(p)] = Len(Body[Top(p)])
    /\ Finish(p, "nil")
    /\ Return(p, Top(p), "ok")
    /\ UNCHANGED written

\* Anything else that fails in the body: the .cctor does not build or throws
\* ("err"), or it meets the instruction or depth limit of the call that
\* happens to run it ("limit").
CctorFails(p, err) ==
    /\ pc[p] = "code"
    /\ stack[p] # <<>>
    /\ Finish(p, err)
    /\ Return(p, Top(p), err)
    /\ UNCHANGED written

-----------------------------------------------------------------------------
(* A Go panic below Invoke: it runs the deferred functions of every nested *)
(* EnsureCctor (sync.Once is done even so, cctorErr is never assigned) up  *)
(* to the recover in Invoke / New / CallInstance.                          *)

Panic(p) ==
    /\ cctorsRunning[p] \subseteq Panics
    /\ pc[p] = "code"
    /\ pc' = [pc EXCEPT ![p] = "panic"]
    /\ UNCHANGED <<shared, cctorsRunning, stack, arg, res>>

PanicUnwinds(p) ==
    /\ pc[p] = "panic"
    /\ stack[p] # <<>>
    /\ Finish(p, cctorErr[Top(p)])
    /\ UNCHANGED <<written, pc, arg, res>>

PanicRecovered(p) ==
    /\ pc[p] = "panic"
    /\ stack[p] = <<>>
    /\ pc' = [pc EXCEPT ![p] = "idle"]
    /\ UNCHANGED <<shared, cctorsRunning, stack, arg, res>>

-----------------------------------------------------------------------------
Access(p, t) ==
    \/ AccessReentrant(p, t)
    \/ AccessDone(p, t)
    \/ AccessFirst(p, t)
    \/ AccessBlocks(p, t)

Step(p) ==
    \/ EndCall(p)
    \/ \E t \in Types : Access(p, t)
    \/ Wake(p)
    \/ ReturnOk(p)
    \/ ReturnErrInCctor(p)
    \/ ReturnErrInCall(p)
    \/ ReturnErrSwallowed(p)
    \/ CctorReturns(p)
    \/ \E err \in Failures : CctorFails(p, err)
    \/ Panic(p)
    \/ PanicUnwinds(p)
    \/ PanicRecovered(p)

Next == \E p \in Procs : BeginCall(p) \/ Step(p)

Spec == Init /\ [][Next]_vars

\* The Go scheduler runs every runnable goroutine; hosts need not make calls.
FairSpec == Spec /\ \A p \in Procs : WF_vars(Step(p))

-----------------------------------------------------------------------------
TypeOK ==
    /\ once \in [Types -> {"fresh", "running", "done"}]
    /\ cctorErr \in [Types -> Failures \cup {"nil"}]
    /\ written \in [Types -> Nat]
    /\ \A t \in Types : written[t] <= Len(Body[t])
    /\ cctorsRunning \in [Procs -> SUBSET Types]
    /\ stack \in [Procs -> Seq(Types)]
    /\ pc \in [Procs -> {"idle", "code", "wait", "ret", "panic"}]
    /\ arg \in [Procs -> Types \cup {None}]
    /\ \A p \in Procs : pc[p] \in {"wait", "ret"} => arg[p] \in Types
    /\ res \in [Procs -> Failures \cup {"ok"}]

\* A type is being initialised exactly as long as one goroutine has it in the
\* cctorsRunning of its Machine: the map and the Once never disagree, so the
\* reentrancy test of staticType answers for the Once (statics.go:15-20).
RunningIsOwned ==
    /\ \A t \in Types :
          once[t] = "running" <=> \E p \in Procs : t \in cctorsRunning[p]
    /\ \A p, q \in Procs :
          p # q => cctorsRunning[p] \cap cctorsRunning[q] = {}

\* A goroutine whose access succeeded sees the statics of a type whose
\* initialiser ran to its end, unless that initialiser is on its own call
\* chain (EnsureCctor: only a different goroutine blocks on the Once) or may
\* panic: a panic completes the Once without recording an error.
NoPartialStatics ==
    \A p \in Procs :
        pc[p] = "ret" /\ res[p] = "ok" /\ arg[p] \notin cctorsRunning[p] \cup Panics
            => written[arg[p]] = Len(Body[arg[p]])

\* A goroutine that blocks is never the one it waits for: the self-deadlock
\* of Fase 3.3 stays fixed even when initialisers refer to one another.
NeverWaitsForItself ==
    \A p \in Procs : pc[p] = "wait" => arg[p] \notin cctorsRunning[p]

\* q runs the initialiser p waits for.
WaitsFor(p, q) == pc[p] = "wait" /\ arg[p] \in cctorsRunning[q]

\* No set of goroutines waits only for members of the set.
NoDeadlock ==
    ~ \E S \in SUBSET Procs :
        S # {} /\ \A p \in S : \E q \in S : WaitsFor(p, q)

\* The outcome of an initialiser is final, and its statics are not touched by
\* it again: a failure is cached and shared by every later caller.
OutcomeIsFinal ==
    [][\A t \in Types : once[t] = "done" =>
          /\ once'[t] = "done"
          /\ cctorErr'[t] = cctorErr[t]
          /\ written'[t] = written[t]]_vars

\* A resource limit ends the call that met it and no other: a goroutine gets a
\* limit error only from an initialiser of its own call chain (limits.go:5,
\* "Limits bounds one Invoke call"). The code does not keep this promise: the
\* limit is recorded with the Once (README, Disagreements).
LimitStaysInItsCall ==
    [][\A p \in Procs :
          pc[p] # "ret" /\ pc'[p] = "ret" /\ res'[p] = "limit"
              => arg'[p] \in cctorsRunning[p]]_vars

\* Every static access gets an answer, whatever the other goroutines do.
EveryAccessReturns ==
    \A p \in Procs : (pc[p] = "wait") ~> (pc[p] # "wait")

-----------------------------------------------------------------------------
(* Why the invariants hold: the strengthening the proofs carry along.      *)

\* p is at the static access to t its innermost initialiser makes next.
At(p, t) ==
    /\ written[Top(p)] < Len(Body[Top(p)])
    /\ Body[Top(p)][written[Top(p)] + 1] = t

\* The stack of p holds just the types in its cctorsRunning, each once ...
Mirrors(p) ==
    /\ \A t \in Types :
          t \in cctorsRunning[p] <=> \E i \in 1..Len(stack[p]) : stack[p][i] = t
    /\ \A i, j \in 1..Len(stack[p]) : stack[p][i] = stack[p][j] => i = j

\* ... each initialiser on it is at its access to the next one ...
Linked(p) ==
    \A i \in 1..(Len(stack[p]) - 1) :
        /\ written[stack[p][i]] < Len(Body[stack[p][i]])
        /\ Body[stack[p][i]][written[stack[p][i]] + 1] = stack[p][i + 1]

\* ... and the innermost is at its access to arg[p].
Anchored(p) ==
    /\ pc[p] = "idle" => stack[p] = <<>>
    /\ pc[p] \in {"wait", "ret"} /\ stack[p] # <<>> => At(p, arg[p])

CallChains == \A p \in Procs : Mirrors(p) /\ Linked(p) /\ Anchored(p)

\* A Once that is done without an error has run its initialiser to the end,
\* and an answer in flight is the one the Once recorded.
Settled ==
    /\ \A t \in Types :
          /\ once[t] # "done" => cctorErr[t] = "nil"
          /\ once[t] = "done" /\ cctorErr[t] = "nil" /\ t \notin Panics
                => written[t] = Len(Body[t])
    /\ \A p \in Procs :
          /\ pc[p] = "ret" /\ arg[p] \notin cctorsRunning[p]
                => once[arg[p]] = "done" /\ res[p] = Outcome(arg[p])
          /\ pc[p] = "wait" => arg[p] \notin cctorsRunning[p]
          /\ pc[p] = "wait" => once[arg[p]] # "fresh"
          /\ pc[p] = "panic" => cctorsRunning[p] \subseteq Panics

\* What every step preserves: the cctorsRunning of a Machine, the Go stack of
\* its goroutine and the Onces tell the same story.
IInv == TypeOK /\ RunningIsOwned /\ CallChains /\ Settled

\* Whatever the goroutines do, a type's initialiser is run by one of them, the
\* outcome that is kept is the outcome it had, and a successful access from
\* outside sees every static the initialiser wrote.
StaticsAreWhole == IInv /\ NoPartialStatics

-----------------------------------------------------------------------------
(* The promise seen from outside the call chains: TypeInitAbs.             *)

StatusOf(t) ==
    CASE once[t] = "fresh" -> "none"
      [] once[t] = "running" -> "busy"
      [] OTHER -> IF cctorErr[t] # "nil" THEN "failed" ELSE "ready"

\* The type whose access, made by the call itself, p is serving.
Root(p) == stack[p][1]

ClientOf(p) ==
    CASE stack[p] # <<>> -> [kind |-> "asked", type |-> Root(p)]
      [] stack[p] = <<>> /\ pc[p] = "wait" -> [kind |-> "asked", type |-> arg[p]]
      [] stack[p] = <<>> /\ pc[p] = "ret" ->
            [kind |-> IF res[p] = "ok" THEN "ok" ELSE "err", type |-> arg[p]]
      [] OTHER -> [kind |-> "none", type |-> None]

Abs == INSTANCE TypeInitAbs
           WITH status <- [t \in Types |-> StatusOf(t)],
                client <- [p \in Procs |-> ClientOf(p)]

\* The accesses a call makes cannot tell the nested, blocking initialisers from
\* types initialised once, atomically; one cut short by a panic counts as ready.
ImplementsAbs == Abs!Spec
=============================================================================
