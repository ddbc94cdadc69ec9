------------------------------- MODULE OnceMap -------------------------------
(***************************************************************************)
(* What Lazy<T>, ThreadLocal<T> and ConcurrentDictionary promise the code  *)
(* that shares them: each is a map that is read and written in one step.   *)
(* Whoever asks for a slot's value is told what the slot holds at that     *)
(* moment, a value is only ever put into an empty slot, unless the caller  *)
(* asked to overwrite it, a call that fails leaves no trace, and a Lazy<T> *)
(* once created never changes.  No locks, no factories, no call chains.    *)
(***************************************************************************)
CONSTANTS Procs, Slots, Conts, In, Kind, Unset, Failed

VARIABLES val,   \* what each slot holds
          res    \* what each goroutine was told last, of which slot

vars == <<val, res>>

Told(p, s, v) == res' = [res EXCEPT ![p] = [slot |-> s, val |-> v]]

Init ==
    /\ val = [s \in Slots |-> Unset]
    /\ res = [p \in Procs |-> Unset]

\* p is told what s holds, and it held nothing before or has not changed.
Get(p, s) ==
    /\ val' = [val EXCEPT ![s] = val'[s]]
    /\ val[s] # Unset => val'[s] = val[s]
    /\ Told(p, s, val'[s])

Fail(p, s) == Told(p, s, Failed) /\ UNCHANGED val

\* TryAdd on a key that is there.
Refuse(p, s) == val[s] # Unset /\ Told(p, s, Unset) /\ UNCHANGED val

Overwrite(p, s) ==
    /\ Kind[In[s]] # "lazy"
    /\ val' = [val EXCEPT ![s] = val'[s]]
    /\ Told(p, s, val'[s])

Remove(p, s) ==
    /\ Kind[In[s]] = "dict"
    /\ val' = [val EXCEPT ![s] = Unset]
    /\ Told(p, s, val[s])

Clear(p, s) ==
    /\ Kind[In[s]] = "dict"
    /\ val' = [t \in Slots |-> IF In[t] = In[s] THEN Unset ELSE val[t]]
    /\ Told(p, s, Unset)

Next ==
    \E p \in Procs, s \in Slots :
        \/ Get(p, s) \/ Fail(p, s) \/ Refuse(p, s)
        \/ Overwrite(p, s) \/ Remove(p, s) \/ Clear(p, s)

Spec == Init /\ [][Next]_vars
=============================================================================
