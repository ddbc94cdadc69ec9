-------------------------- MODULE ExceptionUnwind --------------------------
(***************************************************************************)
(* Structured exception handling inside one frame: Machine.invoke's        *)
(* dispatch loop and runFrame's control opcodes                            *)
(* (internal/interpreter/eval.go) over internal/interpreter/exceptions.go. *)
(*                                                                         *)
(* A method is its IR, reduced to the opcodes that transfer control, and   *)
(* its handler table.  Everything that can raise and go on (a call, a      *)
(* native that faults) is the opcode "call"; a branch has the set of the   *)
(* instructions it may go on with.  The evaluation stack is left out; the  *)
(* exception pushed on entry to a handler is currentException.             *)
(*                                                                         *)
(* pending is a set of indices of the handler table: the order of the Go   *)
(* slice is recomputed from Before, which is what the slice was sorted by. *)
(* conts and caught are history variables: the continuations and caught    *)
(* exceptions that ECMA-335 keeps per handler activation where the frame   *)
(* has a single slot each.                                                 *)
(***************************************************************************)
EXTENDS Integers, Sequences, FiniteSets

CONSTANTS Methods,     \* the methods that can be invoked
          Exceptions,  \* exception types that can be raised
          Matches(_,_) \* Matches(ex, type): exceptionMatchesCatch

Kinds == {"catch", "finally", "fault", "filter"}

Guards(h, i) == h.ts <= i /\ i < h.te
Handles(h, i) == h.hs <= i /\ i < h.he
Filters(h, i) == h.kind = "filter" /\ h.fs <= i /\ i < h.hs

IsHandler(h, n) ==
    /\ h.kind \in Kinds
    /\ {h.ts, h.te, h.hs, h.he} \subseteq Nat
    /\ h.kind = "filter" => h.fs \in Nat
    /\ 1 <= h.ts /\ h.ts < h.te /\ h.te <= h.hs /\ h.hs < h.he /\ h.he <= n + 1
    /\ h.kind = "filter" => h.te <= h.fs /\ h.fs < h.hs

ASSUME MethodsAssumption ==
    \A m \in Methods :
        /\ Len(m.ir) \in Nat /\ DOMAIN m.ir = 1..Len(m.ir)
        /\ Len(m.handlers) \in Nat /\ DOMAIN m.handlers = 1..Len(m.handlers)
        /\ \A i \in DOMAIN m.ir :
              m.ir[i].op \in {"nop", "call", "throw", "branch", "leave", "endfinally", "endfilter", "rethrow", "ret"}
        /\ \A k \in DOMAIN m.handlers : IsHandler(m.handlers[k], Len(m.ir))

VARIABLES method,            \* the method this frame runs
          ip,                \* Frame.IP
          unwind,            \* Frame.unwind
          currentException,  \* Frame.currentException
          outcome,           \* running, returned, thrown or failed
          conts,             \* history: suspended continuations, innermost last
          caught             \* history: the exception each catch was entered with

frame == <<method, ip, unwind, currentException, outcome, conts, caught>>

NoException == "none"
NoUnwind == [kind |-> "nil"]
LeaveUnwind(target, pending) == [kind |-> "leave", target |-> target, pending |-> pending]
RaiseUnwind(ex, pending) == [kind |-> "raise", ex |-> ex, pending |-> pending]
FilterUnwind(ex, pending, h) ==
    [kind |-> "filter", ex |-> ex, pending |-> pending, filterHandler |-> h]

Instr == method.ir[ip]
H(k) == method.handlers[k]
Clauses == DOMAIN method.handlers

InTry(k, i) == Guards(H(k), i)
InHandler(k, i) == Handles(H(k), i)
InFilter(k, i) == Filters(H(k), i)

\* The stable sort of both candidate lists: narrower try first, then table order.
Width(k) == H(k).te - H(k).ts
Before(j, k) == Width(j) < Width(k) \/ (Width(j) = Width(k) /\ j < k)
\* Mutant: an unstable sort, the later of two equally narrow clauses first.
InnermostUnstable(S) ==
    CHOOSE k \in S : \A j \in S \ {k} : Width(k) < Width(j) \/ (Width(k) = Width(j) /\ j < k)

Innermost(S) == CHOOSE k \in S : \A j \in S \ {k} : Before(k, j)
\* Mutant: the clause that takes the exception stays among the candidates.
BehindInclusive(k, S) == S

Behind(k, S) == {j \in S : Before(k, j)}

handlersContaining(i) == {k \in Clauses : InTry(k, i)}

\* Mutant: fault handlers run for a leave too (the state before Fase 3.42).
handlersLeavingFaults(i, target) ==
    {k \in Clauses : H(k).kind \in {"finally", "fault"} /\ InTry(k, i) /\ ~InTry(k, target)}

handlersLeaving(i, target) ==
    {k \in Clauses : H(k).kind = "finally" /\ InTry(k, i) /\ ~InTry(k, target)}

-----------------------------------------------------------------------------
(* History.  ECMA-335 suspends one continuation per handler activation: the *)
(* end of the body takes its own up, and a jump to i abandons those of the  *)
(* bodies that do not contain i.                                            *)

Active(c, i) ==
    IF c.unwind.kind = "filter" THEN InFilter(c.handler, i) ELSE InHandler(c.handler, i)
EndsBody == Instr.op \in {"endfinally", "endfilter"}
Suspended == IF EndsBody /\ conts # <<>> THEN SubSeq(conts, 1, Len(conts) - 1) ELSE conts
\* Bodies nest, so those that contain i come first.
Keep(i) ==
    LET n == CHOOSE n \in 0..Len(Suspended) :
                 /\ \A j \in 1..n : Active(Suspended[j], i)
                 /\ n < Len(Suspended) => ~Active(Suspended[n + 1], i)
    IN  SubSeq(Suspended, 1, n)
InnermostCont == conts[Len(conts)]

\* Where the exception that this instruction raises, or goes on raising, came from.
RaisedAt == IF EndsBody /\ conts # <<>> THEN InnermostCont.origin ELSE ip

-----------------------------------------------------------------------------
FrameInit ==
    /\ method \in Methods
    /\ ip = 1
    /\ unwind = NoUnwind
    /\ currentException = NoException
    /\ outcome = "running"
    /\ conts = <<>>
    /\ caught = [k \in Clauses |-> NoException]

AtOp(op) == outcome = "running" /\ Instr.op = op

Goto(i) ==
    /\ ip' = i
    /\ conts' = Keep(i)
    /\ UNCHANGED outcome

Stop(result) ==
    /\ outcome' = result
    /\ conts' = <<>>
    /\ UNCHANGED ip

\* Mutant: a transfer already in the slot is not replaced.
EnterKeepsSlot(k, i, u) ==
    /\ unwind' = IF unwind.kind = "nil" THEN u ELSE unwind
    /\ ip' = i
    /\ conts' = Append(Keep(i), [handler |-> k, unwind |-> u, origin |-> RaisedAt])
    /\ UNCHANGED outcome

\* Run the code at i on behalf of handler k and remember in the frame's single
\* slot how to go on after it.
Enter(k, i, u) ==
    /\ unwind' = u
    /\ ip' = i
    /\ conts' = Append(Keep(i), [handler |-> k, unwind |-> u, origin |-> RaisedAt])
    /\ UNCHANGED outcome

\* Mutant: only the first caught exception is remembered for rethrow.
CatchKeepsFirst(k, ex) ==
    /\ currentException' = IF currentException = NoException THEN ex ELSE currentException
    /\ caught' = [caught EXCEPT ![k] = ex]
    /\ Goto(H(k).hs)

\* The exception is handed to the body of clause k.
Catch(k, ex) ==
    /\ currentException' = ex
    /\ caught' = [caught EXCEPT ![k] = ex]
    /\ Goto(H(k).hs)

\* The clauses that do not pass the exception on.
Takers(ex, candidates) == {k \in candidates : H(k).kind = "catch" => Matches(ex, H(k).type)}

\* dispatchException(frame, ex, candidates), called with u in frame.unwind.
Dispatch(ex, candidates, u) ==
    LET takers == Takers(ex, candidates)
        k == Innermost(takers)
        pending == Behind(k, candidates)
    IN  \/ /\ takers = {}
           /\ unwind' = u
           /\ Stop("thrown")
           /\ UNCHANGED <<currentException, caught>>
        \/ /\ takers # {} /\ H(k).kind = "catch"
           /\ unwind' = u
           /\ Catch(k, ex)
        \/ /\ takers # {} /\ H(k).kind \in {"finally", "fault"}
           /\ Enter(k, H(k).hs, RaiseUnwind(ex, pending))
           /\ UNCHANGED <<currentException, caught>>
        \/ /\ takers # {} /\ H(k).kind = "filter"
           /\ Enter(k, H(k).fs, FilterUnwind(ex, pending, k))
           /\ UNCHANGED <<currentException, caught>>

\* The search goes on behind a finally, fault or filter body.  If nothing is
\* found, runFrame returns the exception and invoke searches again from here.
ResumeDispatch(ex, pending) ==
    Dispatch(ex, IF Takers(ex, pending) = {} THEN handlersContaining(ip) ELSE pending, NoUnwind)

\* Mutant: only the innermost finally runs.
LeaveThroughOne(finallys, target, u) ==
    \/ /\ finallys = {}
       /\ unwind' = u
       /\ Goto(target)
    \/ /\ finallys # {}
       /\ LET k == Innermost(finallys)
          IN  Enter(k, H(k).hs, LeaveUnwind(target, {}))

\* Mutant: the index behind the target, as if the loop incremented it again.
LeaveThroughBehind(finallys, target, u) ==
    \/ /\ finallys = {}
       /\ unwind' = u
       /\ Goto(target + 1)
    \/ /\ finallys # {}
       /\ LET k == Innermost(finallys)
          IN  Enter(k, H(k).hs, LeaveUnwind(target, Behind(k, finallys)))

\* Run the finally handlers that lie between here and target, then jump.
LeaveThrough(finallys, target, u) ==
    \/ /\ finallys = {}
       /\ unwind' = u
       /\ Goto(target)
    \/ /\ finallys # {}
       /\ LET k == Innermost(finallys)
          IN  Enter(k, H(k).hs, LeaveUnwind(target, Behind(k, finallys)))

\* An error that is no *ManagedException passes every handler by.
Fail ==
    /\ Stop("failed")
    /\ UNCHANGED <<unwind, currentException, caught>>

-----------------------------------------------------------------------------
Advances ==
    /\ AtOp("nop") \/ AtOp("call")
    /\ Goto(ip + 1)
    /\ UNCHANGED <<unwind, currentException, caught>>

\* A branch, conditional or not, or a switch; the condition is data.
Branch ==
    /\ AtOp("branch")
    /\ \E i \in Instr.targets : Goto(i)
    /\ UNCHANGED <<unwind, currentException, caught>>

Raises ==
    /\ AtOp("call") \/ AtOp("throw")
    /\ \E ex \in Exceptions : Dispatch(ex, handlersContaining(ip), unwind)

\* A limit, an unsupported native, a resolution failure, a throw of what is no exception.
CallFails == (AtOp("call") \/ AtOp("throw")) /\ Fail

Leave ==
    /\ AtOp("leave")
    /\ LeaveThrough(handlersLeaving(ip, Instr.target), Instr.target, unwind)
    /\ UNCHANGED <<currentException, caught>>

\* resumeAfterFinally without a transfer to resume.
EndFinallyOutsideHandler ==
    /\ AtOp("endfinally")
    /\ unwind.kind = "nil"
    /\ Fail

EndFinallyOfLeave ==
    /\ AtOp("endfinally")
    /\ unwind.kind = "leave"
    /\ LeaveThrough(unwind.pending, unwind.target, NoUnwind)
    /\ UNCHANGED <<currentException, caught>>

EndFinallyOfRaise ==
    /\ AtOp("endfinally")
    /\ unwind.kind \in {"raise", "filter"}
    /\ ResumeDispatch(unwind.ex, unwind.pending)

EndFilterOutsideFilter ==
    /\ AtOp("endfilter")
    /\ unwind.kind # "filter"
    /\ Fail

EndFilterAccepts ==
    /\ AtOp("endfilter")
    /\ unwind.kind = "filter"
    /\ unwind' = NoUnwind
    /\ Catch(unwind.filterHandler, unwind.ex)

EndFilterRejects ==
    /\ AtOp("endfilter")
    /\ unwind.kind = "filter"
    /\ ResumeDispatch(unwind.ex, unwind.pending)

RethrowOutsideCatch ==
    /\ AtOp("rethrow")
    /\ currentException = NoException
    /\ Fail

Rethrow ==
    /\ AtOp("rethrow")
    /\ currentException # NoException
    /\ Dispatch(currentException, handlersContaining(ip), unwind)

Returns ==
    /\ AtOp("ret")
    /\ Stop("returned")
    /\ UNCHANGED <<unwind, currentException, caught>>

FrameStep ==
    \/ Advances
    \/ Branch
    \/ Raises
    \/ CallFails
    \/ Leave
    \/ EndFinallyOutsideHandler
    \/ EndFinallyOfLeave
    \/ EndFinallyOfRaise
    \/ EndFilterOutsideFilter
    \/ EndFilterAccepts
    \/ EndFilterRejects
    \/ RethrowOutsideCatch
    \/ Rethrow
    \/ Returns

\* The caller goes on when the frame is gone.
Finished == outcome # "running" /\ UNCHANGED frame

FrameNext == (FrameStep /\ UNCHANGED method) \/ Finished

\* The interpreter loop keeps executing instructions.
FrameSpec == FrameInit /\ [][FrameNext]_frame
FairFrameSpec == FrameSpec /\ WF_frame(FrameStep /\ UNCHANGED method)

-----------------------------------------------------------------------------
Unwinds ==
    [kind : {"nil"}]
    \cup [kind : {"leave"}, target : DOMAIN method.ir, pending : SUBSET Clauses]
    \cup [kind : {"raise"}, ex : Exceptions, pending : SUBSET Clauses]
    \cup [kind : {"filter"}, ex : Exceptions, pending : SUBSET Clauses, filterHandler : Clauses]

FrameTypeOK ==
    /\ method \in Methods
    /\ ip \in DOMAIN method.ir
    /\ unwind \in Unwinds
    /\ currentException \in Exceptions \cup {NoException}
    /\ outcome \in {"running", "returned", "thrown", "failed"}
    /\ conts \in Seq([handler : Clauses, unwind : Unwinds, origin : DOMAIN method.ir])
    /\ caught \in [Clauses -> Exceptions \cup {NoException}]

\* i is in the body of a finally or fault clause, or in a filter: a transfer is
\* suspended while it runs.
Suspends(h, i) == (h.kind \in {"finally", "fault"} /\ Handles(h, i)) \/ Filters(h, i)
SuspendedIn(k, i) == Suspends(H(k), i)

\* A finally, fault or filter guards code of such a body: a using, a lock, a
\* foreach or a catch-when in a finally block.
NestsSuspension ==
    \E j, k \in Clauses : H(j).kind # "catch" /\ SuspendedIn(k, H(j).ts)

\* Unless such clauses nest, at the end of a finally, fault or filter body the
\* frame's one unwind slot holds the transfer that this very activation interrupted, so endfinally
\* goes on with "whichever control transfer brought execution into the block
\* that just ended" (exceptions.go:182).
ResumesWhatItInterrupted ==
    outcome = "running" /\ EndsBody /\ (\E k \in Clauses : SuspendedIn(k, ip)) /\ ~NestsSuspension
        => conts # <<>> /\ unwind = InnermostCont.unwind

\* Control leaves a try block that has a finally only into that finally: no
\* leave, no exception, caught or not, gets past it.  Only errors that are no
\* managed exceptions do.
NoFinallySkipped ==
    [][\A k \in Clauses :
          H(k).kind = "finally" /\ InTry(k, ip) /\ outcome = "running" =>
              \/ outcome' = "failed"
              \/ outcome' = "running" /\ (InTry(k, ip') \/ ip' = H(k).hs)]_frame

\* With the same exception, a fault handler runs for exceptions only, never for a leave: the truncated
\* iterators of Fase 3.42.
FaultOnlyForExceptions ==
    outcome = "running" /\ (\E k \in Clauses : H(k).kind = "fault" /\ ip = H(k).hs) /\ ~NestsSuspension
        => unwind.kind = "raise"

\* However many finallys and filters ran in between, an exception ends up in
\* the first catch, innermost first, whose try block it was raised in and
\* whose type it has; it leaves the method only when there is none.  Unless the
\* one slot was overwritten, again.
FirstMatchingCatch ==
    [][LET matching == {k \in handlersContaining(RaisedAt) :
                          H(k).kind = "catch" /\ Matches(unwind.ex, H(k).type)}
       IN  Instr.op = "endfinally" /\ unwind.kind \in {"raise", "filter"} /\ ~NestsSuspension =>
              /\ outcome' = "thrown" => matching = {}
              /\ \A k \in Clauses : H(k).kind = "catch" /\ ip' = H(k).hs =>
                    k \in matching /\ \A j \in matching \ {k} : Before(k, j)]_frame

\* The handlers run in the order the tables say, and none is left out.
HandlersRunInOrder == NoFinallySkipped /\ FirstMatchingCatch

\* A try with catch or filter clauses is in the handler of another.
NestsCatch ==
    \E j, k \in Clauses :
        {H(j).kind, H(k).kind} \subseteq {"catch", "filter"} /\ InHandler(k, H(j).ts)

\* rethrow raises what the catch clause around it was entered with, unless catches
\* nest ("a narrow known gap", frame.go:26) or a stale slot led back into it.
RethrowsItsOwn ==
    AtOp("rethrow") /\ ~NestsSuspension /\ ~NestsCatch =>
        \A k \in Clauses :
            H(k).kind \in {"catch", "filter"} /\ InHandler(k, ip) => currentException = caught[k]

-----------------------------------------------------------------------------
(* Why the handlers do their job, in methods that ECMA-335 calls valid     *)
(* (I.12.4.2.5 to 8): the invariant the proofs carry along.                *)

\* A whole clause in a range; in one region of another; two clauses of one try.
Within(g, first, end) == first <= g.ts /\ g.he <= end
Inside(g, h) ==
    \/ Within(g, h.ts, h.te) \/ Within(g, h.hs, h.he)
    \/ h.kind = "filter" /\ Within(g, h.fs, h.hs)
Start(h) == IF h.kind = "filter" THEN h.fs ELSE h.hs
Alternatives(g, h) ==
    /\ {g.kind, h.kind} \subseteq {"catch", "filter"}
    /\ g.ts = h.ts /\ g.te = h.te
    /\ g.he <= Start(h) \/ h.he <= Start(g)

Covers(h, i) == Guards(h, i) \/ Handles(h, i) \/ Filters(h, i)
Nested(m, g, h) ==
    \/ \A i \in DOMAIN m.ir : ~(Covers(g, i) /\ Covers(h, i))
    \/ Inside(g, h) \/ Inside(h, g) \/ Alternatives(g, h)

\* Control falls or branches into a try at most.
StaysIn(h, i, t) ==
    /\ Handles(h, i) <=> Handles(h, t)
    /\ Filters(h, i) <=> Filters(h, t)
    /\ Guards(h, i) => Guards(h, t)

\* A leave gets out of tries and catches.
LeavesFor(h, i, t) ==
    /\ Handles(h, t) => Handles(h, i)
    /\ Filters(h, t) => Filters(h, i)
    /\ Suspends(h, i) => Suspends(h, t)

\* Clause k's body is the innermost that i is in.
InnermostBody(m, k, i) ==
    /\ Suspends(m.handlers[k], i)
    /\ \A j \in DOMAIN m.handlers \ {k} :
          Covers(m.handlers[j], i) => Inside(m.handlers[k], m.handlers[j])

\* Where the instruction at i goes on, other than by a leave or into a handler.
Nexts(m, i) ==
    CASE m.ir[i].op \in {"nop", "call"} -> {i + 1}
      [] m.ir[i].op = "branch" -> m.ir[i].targets
      [] OTHER -> {}

\* The instruction at i keeps to the regions.
Keeps(m, i) ==
    LET instr == m.ir[i]
        clauses == DOMAIN m.handlers
    IN  /\ \A t \in Nexts(m, i) :
              t \in DOMAIN m.ir /\ \A k \in clauses : StaysIn(m.handlers[k], i, t)
        /\ instr.op = "leave" =>
              /\ instr.target \in DOMAIN m.ir
              /\ \A k \in clauses : LeavesFor(m.handlers[k], i, instr.target)
        /\ instr.op = "endfinally" =>
              \E k \in clauses : m.handlers[k].kind # "filter" /\ InnermostBody(m, k, i)
        /\ instr.op = "endfilter" =>
              \E k \in clauses : m.handlers[k].kind = "filter" /\ InnermostBody(m, k, i)
        /\ instr.op = "ret" => \A k \in clauses : ~Covers(m.handlers[k], i)

WellFormed(m) ==
    /\ Len(m.ir) >= 1
    /\ \A j, k \in DOMAIN m.handlers : j # k => Nested(m, m.handlers[j], m.handlers[k])
    /\ \A i \in DOMAIN m.ir : Keeps(m, i)

\* u is the transfer that came from i and that clause k's body interrupts: what is
\* pending are the clauses behind k of those that were to be asked, and no catch
\* before k takes the exception.
Interrupts(k, u, i) ==
    /\ InTry(k, i)
    /\ u.kind = "leave" =>
          /\ method.ir[i].op = "leave" /\ method.ir[i].target = u.target
          /\ k \in handlersLeaving(i, u.target)
          /\ u.pending = Behind(k, handlersLeaving(i, u.target))
    /\ u.kind \in {"raise", "filter"} =>
          /\ u.pending = Behind(k, handlersContaining(i))
          /\ \A j \in handlersContaining(i) :
                H(j).kind = "catch" /\ Matches(u.ex, H(j).type) => Before(k, j)
    /\ u.kind = "raise" => H(k).kind \in {"finally", "fault"}
    /\ u.kind = "filter" => H(k).kind = "filter" /\ u.filterHandler = k

\* The slot's transfer belongs to a body around ip, or to one that was in there.
SlotIsLocal ==
    unwind.kind # "nil" =>
        \E k \in Clauses, i \in DOMAIN method.ir :
            /\ Interrupts(k, unwind, i)
            /\ \A j \in Clauses : SuspendedIn(j, ip) => j = k \/ SuspendedIn(j, H(k).ts)

\* There is one suspended transfer, in the body that ip is in.
OneSuspended ==
    \/ conts = <<>> /\ \A k \in Clauses : ~SuspendedIn(k, ip)
    \/ /\ Len(conts) = 1 /\ conts[1].unwind = unwind /\ unwind.kind # "nil"
       /\ SuspendedIn(conts[1].handler, ip)
       /\ Interrupts(conts[1].handler, unwind, conts[1].origin)

\* The catch that ip is in was entered with the current exception.
CatchIsCurrent ==
    \A k \in Clauses :
        H(k).kind \in {"catch", "filter"} /\ InHandler(k, ip) => currentException = caught[k]

FrameInv ==
    /\ FrameTypeOK
    /\ outcome = "running" =>
          /\ SlotIsLocal
          /\ ~NestsSuspension => OneSuspended
          /\ ~NestsSuspension /\ ~NestsCatch => CatchIsCurrent

\* The invariant of a frame: whatever was nested in whatever, each handler runs for
\* what it was entered for and hands control back to what it interrupted.
UnwindInv ==
    /\ WellFormed(method) => FrameInv
    /\ ResumesWhatItInterrupted
    /\ FaultOnlyForExceptions
    /\ RethrowsItsOwn

-----------------------------------------------------------------------------
\* No instruction of the method jumps back.
LoopFree ==
    \A i \in DOMAIN method.ir :
        /\ \A t \in Nexts(method, i) : t > i
        /\ method.ir[i].op = "leave" => method.ir[i].target > i

\* The handlers hand control on: a method without a loop comes to an end,
\* whatever is raised where.
Terminates == LoopFree => <>(outcome # "running")
=============================================================================
