----------------------------- MODULE MCRuntime -----------------------------
(***************************************************************************)
(* Three parts of a running assembly that share nothing, each on its own:  *)
(* the initialisers of the three types of MCTypeInit; a static field       *)
(* declared int or object that two calls share; and a frame that runs one  *)
(* of the methods of MCExceptionUnwind.                                    *)
(***************************************************************************)
EXTENDS MCTypeInit, SharedStatics, MCExceptionUnwind

IntOrObject == {"int", "object"}
Num(n) == [kind |-> "I4", data |-> n]
Obj(n) == [kind |-> "Object", data |-> n]
Null == [kind |-> "Null", data |-> 0]
SomeValues == [t \in IntOrObject |-> IF t = "int" THEN {Num(0), Num(1)}
                                     ELSE {Null, Obj(1), Num(1)}]
ZeroOrNull == [t \in IntOrObject |-> IF t = "int" THEN Num(0) ELSE Null]

VARIABLE part

Inits ==
    /\ part \in {"initialisers", "field", "frame"}
    /\ Init /\ FieldInit /\ FrameInit
    /\ part # "field" => type = "int"
    /\ part # "frame" => method = TryCatchFinally

Initialisers == part = "initialisers" /\ Next /\ UNCHANGED <<part, fieldVars, frame>>
SharedField == part = "field" /\ FieldNext /\ UNCHANGED <<part, vars, frame>>
OneFrame == part = "frame" /\ FrameNext /\ UNCHANGED <<part, vars, fieldVars>>

\* Each part with the fairness of its own specification.
Parts ==
    /\ Inits /\ [][Initialisers \/ SharedField \/ OneFrame]_<<part, vars, fieldVars, frame>>
    /\ \A p \in Procs : WF_vars(Step(p))
    /\ \A p \in Callers : SF_fieldVars(FieldStep(p))
    /\ WF_frame(part = "frame" /\ FrameStep /\ UNCHANGED method)

\* A method without a loop comes to its end, whatever its instructions raise and
\* wherever they fail: no handler, and no resumption of a transfer that a finally,
\* fault or filter interrupted, goes round in circles (Machine.runFrame,
\* Machine.resumeAfterFinally).
MethodsEnd == part = "frame" => Terminates
=============================================================================
