------------------------------ MODULE CallChain ------------------------------
(***************************************************************************)
(* One call into an assembly, from Machine.Invoke, New or CallInstance to  *)
(* its end: the chain of Go activations it builds, the resource limits it  *)
(* meets, the assembly whose metadata each activation sees, and what each  *)
(* activation does with an error on its way up (interpreter/eval.go,       *)
(* calls.go, statics.go, async.go, reflection.go, activator.go).           *)
(*                                                                         *)
(* An activation is an interpreted method, or native code that calls one:  *)
(* Task.Run and TaskFactory.StartNew ("task"), new T() of a struct         *)
(* ("ctor"), a first static access ("cctor") and construction by           *)
(* reflection ("new").  Each passes, changes or drops the callee's error.  *)
(* A method has at most one protected region, a try with a catch that      *)
(* matches or with a finally; ExceptionUnwind has the search among several.*)
(***************************************************************************)
EXTENDS Naturals, Sequences, FiniteSets

CONSTANTS Asms,      \* loaded assemblies
          Root,      \* the assembly the host calls
          Natives,   \* which native callers occur
          MaxDepth,  \* Limits.MaxCallDepth
          MaxInstrs, \* Limits.MaxInstructions
          GoStack    \* how many activations the Go stack holds

ASSUME CallChainAssumption ==
    /\ Root \in Asms
    /\ Natives \subseteq {"task", "ctor", "cctor", "new"}
    /\ MaxDepth \in Nat \ {0} /\ MaxInstrs \in Nat \ {0}
    /\ GoStack \in Nat /\ GoStack >= 2 * (MaxDepth + 2)   \* as 256 calls do fit

VARIABLES acts,     \* the activations, outermost first
          resolver, \* the assembly of the Machine's active resolvers
          err,      \* the error on its way up
          count,    \* *instrCount of the innermost method
          stage     \* of the host's call

vars == <<acts, resolver, err, count, stage>>

Guards == {"none", "catch", "finally"}
Phases == {"body", "catch", "finally", "unwind"}
\* "size" is ErrArrayTooLarge or ErrStringTooLarge, "error" any Go error that is
\* neither a limit nor a *ManagedException.
Limits == {"instrs", "stack", "depth", "size"}
Kinds == Limits \union {"managed", "error"}

NoErr == [kind |-> "none", wrapped |-> FALSE]
Err(k) == [kind |-> k, wrapped |-> FALSE]
Errors == [kind : Kinds, wrapped : BOOLEAN]

\* prev and saved: what the activation restores when it ends.
Method(a, d, g) == [kind |-> "method", asm |-> a, prev |-> resolver, depth |-> d,
                    saved |-> 0, guard |-> g, phase |-> "body"]
Native(k, d, n) == [kind |-> k, asm |-> resolver, prev |-> resolver, depth |-> d,
                    saved |-> n, guard |-> "none", phase |-> "body"]

Top == acts[Len(acts)]
Below == SubSeq(acts, 1, Len(acts) - 1)

Init ==
    /\ acts = <<>> /\ resolver = Root /\ err = NoErr /\ count = 0
    /\ stage = "ready"

-----------------------------------------------------------------------------
(* Calls                                                                   *)

\* invoke at the given depth, on top of the activations mid.
Invoke(mid, d, a, g) ==
    IF d > MaxDepth
    THEN acts' = mid /\ err' = Err("depth") /\ UNCHANGED resolver
    ELSE acts' = Append(mid, Method(a, d, g)) /\ resolver' = a /\ UNCHANGED err

\* The host: Machine.Invoke starts at depth 0; New and CallInstance call the
\* method at depth 0, which invokes it at depth 1.
Enter(d, a, g) ==
    /\ stage = "ready"
    /\ stage' = "running"
    /\ Invoke(<<>>, d, a, g)
    /\ UNCHANGED count

\* runFrame fetches an instruction: the innermost method runs on.
Fetch ==
    /\ stage = "running" /\ err = NoErr /\ acts # <<>>
    /\ Top.kind = "method" /\ count < MaxInstrs

Room == Len(acts) + 2 <= GoStack

\* The Go runtime ends the process: no recover sees a stack that is full.
Overflow ==
    /\ Fetch /\ ~Room
    /\ stage' = "dead"
    /\ UNCHANGED <<acts, resolver, err, count>>

\* call, callvirt, a delegate's Invoke, newobj of a class.
Call(a, g) ==
    /\ Fetch /\ Room
    /\ Invoke(acts, Top.depth + 1, a, g)
    /\ count' = count + 1 /\ UNCHANGED stage

CallThroughFlat(k, a, g) ==
    /\ Fetch /\ Room /\ k \in Natives
    /\ Invoke(Append(acts, Native(k, Top.depth, 0)), Top.depth, a, g)
    /\ count' = count + 1 /\ UNCHANGED stage

\* Native code that runs a method with the depth and counter it was given.
CallThrough(k, a, g) ==
    /\ Fetch /\ Room /\ k \in Natives
    /\ Invoke(Append(acts, Native(k, Top.depth, 0)), Top.depth + 1, a, g)
    /\ count' = count + 1 /\ UNCHANGED stage

RunTask(a, g) == CallThrough("task", a, g)
NewStruct(a, g) == CallThrough("ctor", a, g)
RunCctor(a, g) == CallThrough("cctor", a, g)

\* Activator.CreateInstance and ConstructorInfo.Invoke go through Machine.New,
\* which begins again at depth 0 with a counter of its own.
Construct(a, g) ==
    /\ Fetch /\ Room /\ "new" \in Natives
    /\ Invoke(Append(acts, Native("new", 0, count + 1)), 1, a, g)
    /\ count' = 0 /\ UNCHANGED stage

-----------------------------------------------------------------------------
(* Errors begin                                                            *)

\* throw, a native that fails, an over-long array or string, a full evaluation
\* stack, any other error.
Raise(k) ==
    /\ Fetch
    /\ err' = Err(k) /\ count' = count + 1
    /\ UNCHANGED <<acts, resolver, stage>>

InstrLimitReset ==
    /\ stage = "running" /\ err = NoErr /\ acts # <<>>
    /\ Top.kind = "method" /\ count >= MaxInstrs
    /\ count' = 0
    /\ UNCHANGED <<acts, resolver, err, stage>>

InstrLimit ==
    /\ stage = "running" /\ err = NoErr /\ acts # <<>>
    /\ Top.kind = "method" /\ count >= MaxInstrs
    /\ err' = Err("instrs") /\ count' = count + 1
    /\ UNCHANGED <<acts, resolver, stage>>

\* A Go panic unwinds to the nearest recover, New's or the host's; the defers on
\* its way put the resolvers back.
Panic(i) ==
    /\ Fetch
    /\ i \in DOMAIN acts
    /\ i > 1 => acts[i - 1].kind = "new"
    /\ \A j \in (i + 1)..Len(acts) : acts[j - 1].kind # "new"
    /\ acts' = SubSeq(acts, 1, i - 1)
    /\ resolver' = acts[i].prev
    /\ err' = Err("error") /\ count' = count + 1
    /\ UNCHANGED stage

-----------------------------------------------------------------------------
(* Methods end, or handle an error                                         *)

InPhase(p) == acts' = [acts EXCEPT ![Len(acts)].phase = p]

\* The region's leave: a finally still has to run.
Leave ==
    /\ Fetch
    /\ Top.phase = "body" /\ Top.guard = "finally"
    /\ InPhase("finally") /\ count' = count + 1
    /\ UNCHANGED <<resolver, err, stage>>

\* ret, after the region's leave where there is one.
Return ==
    /\ Fetch
    /\ Top.phase \in {"body", "catch", "finally"}
    /\ Top.phase = "body" => Top.guard # "finally"
    /\ acts' = Below /\ resolver' = Top.prev /\ count' = count + 1
    /\ UNCHANGED <<err, stage>>

EndFinallyDrops ==
    /\ Fetch
    /\ Top.phase = "unwind"
    /\ acts' = Below /\ resolver' = Top.prev /\ count' = count + 1
    /\ UNCHANGED <<err, stage>>

\* endfinally of a finally an exception entered: it goes on.
EndFinally ==
    /\ Fetch
    /\ Top.phase = "unwind"
    /\ acts' = Below /\ resolver' = Top.prev /\ count' = count + 1
    /\ err' = Err("managed")
    /\ UNCHANGED stage

DispatchableCatch == err = Err("managed") /\ Top.phase = "body" /\ Top.guard = "catch"

\* invoke's type test: only a bare *ManagedException meets the handlers.
Dispatchable ==
    /\ err = Err("managed")
    /\ Top.phase = "body" /\ Top.guard # "none"

Dispatch ==
    /\ acts # <<>> /\ Top.kind = "method"
    /\ Dispatchable
    /\ InPhase(IF Top.guard = "catch" THEN "catch" ELSE "unwind")
    /\ err' = NoErr
    /\ UNCHANGED <<resolver, count, stage>>

PopKeeping ==
    /\ err # NoErr /\ acts # <<>> /\ Top.kind = "method"
    /\ ~Dispatchable
    /\ acts' = Below
    /\ UNCHANGED <<resolver, err, count, stage>>

Pop ==
    /\ err # NoErr /\ acts # <<>> /\ Top.kind = "method"
    /\ ~Dispatchable
    /\ acts' = Below /\ resolver' = Top.prev
    /\ UNCHANGED <<err, count, stage>>

-----------------------------------------------------------------------------
(* Native callers end                                                      *)

PassedIgnored(k) == IF k = "new" THEN NoErr ELSE err

\* taskFaultOrPropagate compares with ==; newObj ignores any error of a struct's
\* constructor without arguments; staticType wraps.
Passed(k) ==
    CASE k = "task"  -> IF err \in {Err("instrs"), Err("stack")} THEN err ELSE NoErr
      [] k = "ctor"  -> NoErr
      [] k = "cctor" -> [err EXCEPT !.wrapped = TRUE]
      [] k = "new"   -> err

NativeEnds ==
    /\ acts # <<>> /\ Top.kind # "method"
    /\ acts' = Below /\ resolver' = Top.prev
    /\ err' = IF err = NoErr THEN NoErr ELSE Passed(Top.kind)
    /\ count' = IF Top.kind = "new" THEN Top.saved ELSE count
    /\ UNCHANGED stage

\* The host gets the result, or the error that classify gives a code.
Exit ==
    /\ stage = "running" /\ acts = <<>>
    /\ stage' = "over"
    /\ UNCHANGED <<acts, resolver, err, count>>

Next ==
    \/ \E a \in Asms, g \in Guards :
          \/ \E d \in {0, 1} : Enter(d, a, g)
          \/ Call(a, g)
          \/ RunTask(a, g)
          \/ NewStruct(a, g)
          \/ RunCctor(a, g)
          \/ Construct(a, g)
    \/ \E k \in {"managed", "stack", "size", "error"} : Raise(k)
    \/ InstrLimit
    \/ Overflow
    \/ \E i \in DOMAIN acts : Panic(i)
    \/ Leave
    \/ Return
    \/ EndFinally
    \/ Dispatch
    \/ Pop
    \/ NativeEnds
    \/ Exit

Spec == Init /\ [][Next]_vars

\* The interpreter is one loop: it keeps stepping.
FairSpec == Spec /\ WF_vars(Next)

-----------------------------------------------------------------------------
(* Properties                                                              *)

Activation ==
    [kind : {"method", "task", "ctor", "cctor", "new"}, asm : Asms, prev : Asms,
     depth : Nat, saved : Nat, guard : Guards, phase : Phases]

TypeOK ==
    /\ acts \in Seq(Activation)
    /\ resolver \in Asms
    /\ err \in Errors \union {NoErr}
    /\ count \in Nat
    /\ stage \in {"ready", "running", "over", "dead"}

\* Names are resolved in the right assembly: whatever way a callee ended, by
\* return, error or panic, the activation below it sees its own assembly's
\* resolvers again, and the Machine ends with those it began with (eval.go:278-293).
ResolverIsMine == resolver = IF acts = <<>> THEN Root ELSE Top.asm

\* "Call depth (MaxCallDepth, default 256) ... bound unbounded recursion"
\* (security.md:21-22): methods on the Go stack since the last construction by
\* reflection, which begins to count again.
Counted(i) == acts[i].kind = "method" /\ \A j \in i..Len(acts) : acts[j].kind # "new"
DepthBounded == Cardinality({i \in DOMAIN acts : Counted(i)}) <= MaxDepth + 1

\* A limit "must still abort the whole run rather than be silently absorbed"
\* (async.go:93-95): no activation drops the error of a limit, but for new T() of
\* a struct, and for a task unless it is one of the two limits taskFaultOrPropagate
\* knows and crossed no static initialiser.
MayDrop ==
    /\ acts # <<>>
    /\ Top.kind = "ctor" \/ (Top.kind = "task" /\ err \notin {Err("instrs"), Err("stack")})
LimitsAbort == [][err.kind \in Limits /\ ~MayDrop => err'.kind \in Limits]_vars

\* An exception is on its way up, or waits for a finally to end.
InFlight == err.kind = "managed" \/ \E i \in DOMAIN acts : acts[i].phase = "unwind"

\* An exception ends in a catch or in a faulted task, or gives way to another
\* error, and is never simply gone: "anything else genuinely needed a real
\* constructor to run and this must still surface that error" (calls.go:777-778).
\* Only new T() of a struct drops it.
ExceptionsAreHandled ==
    [][InFlight /\ ~InFlight' /\ err' = NoErr =>
          Top.guard = "catch" \/ Top.kind \in {"task", "ctor"}]_vars

\* "A finally/fault on the path always runs, whether the exception ends up caught
\* or keeps propagating" (ROADMAP.md:1048-1049), as long as it crossed no static
\* initialiser, which wraps it.
FinallyRuns ==
    [][err = Err("managed") /\ acts # <<>> /\ Top.guard = "finally" /\ Top.phase = "body"
          => Len(acts') >= Len(acts)]_vars

\* What goes wrong is never gone, but where the code says so.
ErrorsAreNotLost == LimitsAbort /\ ExceptionsAreHandled /\ FinallyRuns

\* A call returns to the host: an infinite loop "hits this and returns
\* ErrInstructionLimitExceeded instead of hanging the host process" (security.md:16-18).
\* Only a chain with a construction by reflection, which begins to count again,
\* can fill the Go stack before it meets a limit.
Constructs == \E i \in DOMAIN acts : acts[i].kind = "new"
CallEnds == stage = "running" ~> stage = "over" \/ (stage = "dead" /\ Constructs)

\* Violated: "bound unbounded recursion ... deterministically and recoverably
\* instead of a real OS-level stack overflow" (security.md:21-24).
HostSurvives == stage # "dead"
=============================================================================
