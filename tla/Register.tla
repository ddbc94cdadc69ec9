------------------------------ MODULE Register ------------------------------
(***************************************************************************)
(* What a static field is to the calls that share it: one Value, which     *)
(* each operation reads, writes or increments at one moment between its    *)
(* start and its end.                                                      *)
(***************************************************************************)
EXTENDS Naturals

CONSTANTS Procs, Idle

VARIABLES value,
          doing, \* per call, Idle, the operation it is in, or "done"
          got    \* per call, the Value it read, will write or made

vars == <<value, doing, got>>

Start(v) ==
    /\ value = v
    /\ doing = [p \in Procs |-> Idle] /\ got = [p \in Procs |-> v]

Begin(p) ==
    /\ doing[p] = Idle
    /\ \E o \in {"ldsfld", "ldind", "stsfld", "stind", "increment"} :
          doing' = [doing EXCEPT ![p] = o]
    /\ \A q \in Procs \ {p} : got'[q] = got[q]
    /\ UNCHANGED value

Read(p) ==
    /\ doing[p] \in {"ldsfld", "ldind"}
    /\ doing' = [doing EXCEPT ![p] = "done"] /\ got' = [got EXCEPT ![p] = value]
    /\ UNCHANGED value

Write(p) ==
    /\ doing[p] \in {"stsfld", "stind"}
    /\ doing' = [doing EXCEPT ![p] = "done"] /\ value' = got[p]
    /\ UNCHANGED got

Increment(p) ==
    /\ doing[p] = "increment"
    /\ value' = [value EXCEPT !.data = @ + 1]
    /\ doing' = [doing EXCEPT ![p] = "done"] /\ got' = [got EXCEPT ![p] = value']

End(p) ==
    /\ doing[p] = "done"
    /\ doing' = [doing EXCEPT ![p] = Idle] /\ UNCHANGED <<value, got>>

Next == \E p \in Procs : Begin(p) \/ Read(p) \/ Write(p) \/ Increment(p) \/ End(p)
=============================================================================
