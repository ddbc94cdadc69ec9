---------------------------- MODULE TypeInitAbs ----------------------------
(***************************************************************************)
(* What lazy type initialisation promises to the code of a call: every     *)
(* type is initialised at most once, the initialisation has one outcome,   *)
(* every goroutine that asks for the type is told that outcome, and none   *)
(* is answered before it is known.  No call chains, no locks, no partial   *)
(* statics.                                                                *)
(***************************************************************************)
CONSTANTS Procs, Types, Panics, None

VARIABLES status,   \* none, busy, ready or failed, per type
          client    \* the access each goroutine is making, and its answer

vars == <<status, client>>

NoAccess == [kind |-> "none", type |-> None]
Asked(t) == [kind |-> "asked", type |-> t]
Answer(t, k) == [kind |-> k, type |-> t]

Init ==
    /\ status = [t \in Types |-> "none"]
    /\ client = [p \in Procs |-> NoAccess]

\* One initialiser starts or ends.
Begin(t) == status[t] = "none" /\ status' = [status EXCEPT ![t] = "busy"]
Settle(t) ==
    /\ status[t] = "busy"
    /\ \E s \in {"ready", "failed"} : status' = [status EXCEPT ![t] = s]

\* A goroutine asks and is told the outcome, now or later.
Ask(p, t) == client[p] = NoAccess /\ client' = [client EXCEPT ![p] = Asked(t)]
Tell(p, t) ==
    /\ client[p] \in {NoAccess, Asked(t)}
    /\ \/ status'[t] = "ready" /\ client' = [client EXCEPT ![p] = Answer(t, "ok")]
       \/ status'[t] = "failed" /\ client' = [client EXCEPT ![p] = Answer(t, "err")]
\* The call of a goroutine panics below the initialiser it asked for.
GiveUp(p, t) ==
    /\ t \in Panics /\ client[p] = Asked(t)
    /\ client' = [client EXCEPT ![p] = NoAccess]
Done(p) == client[p].kind \in {"ok", "err"} /\ client' = [client EXCEPT ![p] = NoAccess]

Next ==
    /\ (\E t \in Types : Begin(t) \/ Settle(t)) \/ UNCHANGED status
    /\ (\E p \in Procs : Done(p) \/ \E t \in Types : Ask(p, t) \/ Tell(p, t) \/ GiveUp(p, t))
       \/ UNCHANGED client

Spec == Init /\ [][Next]_vars
=============================================================================
