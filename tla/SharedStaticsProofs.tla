------------------------- MODULE SharedStaticsProofs -------------------------
(***************************************************************************)
(* SharedStatics for any number of calls, types and Values: the lock is    *)
(* held by those at work, and while nobody uses the address of the field   *)
(* against another operation it is an atomic register.                     *)
(***************************************************************************)
EXTENDS SharedStatics, TLAPS

\* Another operation is not copying while one writes.
LEMMA WritesAlone ==
    ASSUME FieldIInv, ~raced, NEW p \in Callers, NEW q \in Callers, p # q, phase[p] = "write"
    PROVE  phase[q] \notin {"read", "write"}
<1> SUFFICES ASSUME phase[q] \in {"read", "write"} PROVE FALSE
  OBVIOUS
<1>1. ~Conflict(op[p], op[q])
  BY DEF FieldIInv, Alone
<1>2. op[p] \in {"stsfld", "stind", "increment"}
  BY DEF FieldIInv, Phases, Stores
<1>3. op[q] \in {"ldsfld", "ldind", "stsfld", "stind", "increment"}
  BY DEF FieldIInv, Phases, Stores, Loads
<1>4. op[p] = "stsfld" /\ op[q] \in {"ldsfld", "stsfld"}
  BY <1>1, <1>2, <1>3 DEF Conflict, ByAddress, Loads
<1>5. CASE op[q] = "ldsfld"
  <2>1. phase[q] = "read"
    BY <1>5 DEF FieldIInv, Phases, Stores
  <2>2. QED
    BY <1>4, <1>5, <2>1 DEF FieldIInv, Alone, FieldTypeOK
<1>6. CASE op[q] = "stsfld"
  <2>1. phase[q] = "write"
    BY <1>6 DEF FieldIInv, Phases, Loads
  <2>2. QED
    BY <1>4, <1>6, <2>1 DEF FieldIInv, FieldTypeOK
<1>7. QED
  BY <1>4, <1>5, <1>6

-----------------------------------------------------------------------------
(* The invariant.                                                          *)

LEMMA InitIInv == FieldInit => FieldIInv
<1> SUFFICES ASSUME FieldInit PROVE FieldIInv
  OBVIOUS
<1> USE SharedStaticsAssumption
<1>0. Default[type] \in Values[type] /\ IsValue(Default[type])
  BY DEF FieldInit, IsValue
<1>1. FieldTypeOK
  BY <1>0 DEF FieldInit, FieldTypeOK, IsValue
<1>2. Phases
  BY <1>0 DEF FieldInit, Phases, Stores, IsValue
<1>3. Alone
  BY DEF FieldInit, Alone
<1>4. Accounted
  BY DEF FieldInit, Accounted
<1>5. QED
  BY <1>1, <1>2, <1>3, <1>4 DEF FieldIInv

LEMMA BeginIInv ==
    ASSUME FieldIInv, NEW p \in Callers, NEW o \in Ops, NEW v \in Values[type], Begin(p, o, v)
    PROVE  FieldIInv'
<1> USE SharedStaticsAssumption DEF FieldIInv
<1>0. /\ phase[p] = "idle" /\ op[p] = "none"
      /\ op'[p] = o /\ buf'[p] = v /\ left'[p] = Words
      /\ phase'[p] = IF o \in Locked THEN "lock" ELSE IF o = "stind" THEN "write" ELSE "read"
      /\ \A q \in Callers \ {p} : phase'[q] = phase[q] /\ op'[q] = op[q] /\ buf'[q] = buf[q] /\ left'[q] = left[q]
      /\ UNCHANGED <<type, field, mutex, result>>
  BY DEF Begin, FieldTypeOK, Phases
<1>1. IsValue(v)
  BY DEF FieldTypeOK, IsValue
<1>2. o \in {"ldsfld", "stsfld", "ldind", "stind", "increment"}
  BY DEF Ops, Locked, ByAddress
<1>3. FieldTypeOK'
  <2>1. readers' = {q \in Callers : op'[q] = "ldsfld" /\ phase'[q] = "read"}
    BY <1>0, <1>2 DEF FieldTypeOK, mutex, Locked
  <2>2. \A q \in Callers : writer' = q <=> op'[q] = "stsfld" /\ phase'[q] \in {"drain", "write"}
    BY <1>0, <1>2 DEF FieldTypeOK, mutex, Locked
  <2>3. /\ op' \in [Callers -> Ops \union {"none"}] /\ left' \in [Callers -> SUBSET Words]
        /\ phase' \in [Callers -> {"idle", "lock", "drain", "read", "write"}] /\ raced' \in BOOLEAN
    BY DEF Begin, FieldTypeOK
  <2>4. QED
    BY <1>0, <2>1, <2>2, <2>3 DEF FieldTypeOK
<1>4. Phases'
  <2>1. o = "increment" => type = "int"
    BY DEF Begin
  <2>2. DOMAIN buf' = Callers /\ \A q \in Callers : IsValue(buf'[q])
    BY <1>0, <1>1 DEF Begin, Phases
  <2>3. QED
    BY <1>0, <1>2, <2>1, <2>2 DEF Phases, mutex, Locked, Stores, Loads, IsValue
<1>5. Alone'
  <2>1. \A q \in Callers : op'[q] = "stsfld" /\ phase'[q] = "write" => readers' = {}
    BY <1>0 DEF Alone, mutex, Locked
  <2>2. ASSUME ~raced', NEW q \in Callers, NEW r \in Callers, q # r, phase'[q] # "idle", phase'[r] # "idle"
        PROVE  ~Conflict(op'[q], op'[r])
    <3>1. ~raced /\ \A s \in Callers : phase[s] # "idle" => ~Conflict(o, op[s]) /\ ~Conflict(op[s], o)
      BY <2>2 DEF Begin, Conflict
    <3>2. QED
      BY <1>0, <2>2, <3>1 DEF Alone
  <2>3. QED
    BY <2>1, <2>2 DEF Alone
<1>6. Accounted'
  <2> SUFFICES ASSUME ~raced' PROVE Accounted'
    BY DEF Accounted
  <2>1. ~raced /\ \A s \in Callers : phase[s] # "idle" => ~Conflict(o, op[s])
    BY DEF Begin
  <2>2. CASE o # "stind"
    BY <1>0, <1>2, <2>1, <2>2 DEF Accounted
  <2>3. CASE o = "stind"
    <3>1. \A s \in Callers : phase[s] = "idle"
      BY <2>1, <2>3 DEF Conflict, ByAddress, Loads
    <3>2. field = result
      BY <2>1, <3>1 DEF Accounted
    <3>3. QED
      BY <1>0, <2>1, <2>3, <3>1, <3>2 DEF Accounted
  <2>4. QED
    BY <2>2, <2>3
<1>7. QED
  BY <1>3, <1>4, <1>5, <1>6

LEMMA LockIInv ==
    ASSUME FieldIInv, NEW p \in Callers, RLock(p) \/ Announce(p) \/ Drain(p)
    PROVE  FieldIInv'
<1> USE SharedStaticsAssumption DEF FieldIInv
<1>0. /\ phase[p] \in {"lock", "drain"} /\ left[p] = Words
      /\ phase'[p] \in {"read", "drain", "write"}
      /\ \A q \in Callers \ {p} : phase'[q] = phase[q]
      /\ UNCHANGED <<type, field, op, buf, left, result, increments, raced>>
  BY DEF RLock, Announce, Drain, FieldTypeOK, Phases
<1>1. FieldTypeOK'
  <2>1. CASE RLock(p)
    BY <1>0, <2>1 DEF RLock, FieldTypeOK
  <2>2. CASE Announce(p)
    BY <1>0, <2>2 DEF Announce, FieldTypeOK
  <2>3. CASE Drain(p)
    BY <1>0, <2>3 DEF Drain, FieldTypeOK, Phases, mutex
  <2>4. QED
    BY <2>1, <2>2, <2>3
<1>2. Phases'
  <2>1. CASE RLock(p)
    BY <1>0, <2>1 DEF RLock, Phases, FieldTypeOK, Locked, Stores, Loads, IsValue
  <2>2. CASE Announce(p)
    BY <1>0, <2>2 DEF Announce, Phases, FieldTypeOK, Locked, Stores, Loads, IsValue
  <2>3. CASE Drain(p)
    BY <1>0, <2>3 DEF Drain, Phases, FieldTypeOK, mutex, Locked, Stores, Loads, IsValue
  <2>4. QED
    BY <2>1, <2>2, <2>3
<1>3. Alone'
  BY <1>0 DEF RLock, Announce, Drain, mutex, FieldTypeOK, Phases, Alone
<1>4. Accounted'
  <2> SUFFICES ASSUME ~raced PROVE Accounted'
    BY <1>0 DEF Accounted
  <2>1. CASE phase'[p] # "write"
    BY <1>0, <2>1 DEF Accounted
  <2>2. CASE phase'[p] = "write"
    <3>1. phase[p] = "drain" /\ op[p] = "stsfld" /\ readers = {}
      BY <2>2 DEF RLock, Announce, Drain, Phases, FieldTypeOK
    <3>2. \A q \in Callers \ {p} : phase[q] # "write"
      <4> SUFFICES ASSUME NEW q \in Callers \ {p}, phase[q] = "write" PROVE FALSE
        OBVIOUS
      <4>1. op[q] \in {"stsfld", "stind", "increment"}
        BY DEF Phases, Stores
      <4>2. op[q] = "stsfld"
        BY <3>1, <4>1 DEF Alone, Conflict, ByAddress, Loads
      <4>3. QED
        BY <3>1, <4>2 DEF FieldTypeOK
    <3>3. field = result
      BY <3>1, <3>2 DEF Accounted
    <3>4. QED
      BY <1>0, <2>2, <3>1, <3>2, <3>3 DEF Accounted
  <2>3. QED
    BY <2>1, <2>2
<1>5. QED
  BY <1>1, <1>2, <1>3, <1>4

LEMMA ReadIInv ==
    ASSUME FieldIInv, NEW p \in Callers, NEW w \in Words, ReadWord(p, w)
    PROVE  FieldIInv'
<1> USE DEF FieldIInv
<1>0. /\ phase[p] = "read" /\ buf'[p] = [buf[p] EXCEPT ![w] = field[w]] /\ left'[p] = left[p] \ {w}
      /\ \A q \in Callers \ {p} : buf'[q] = buf[q] /\ left'[q] = left[q]
      /\ UNCHANGED <<type, field, mutex, op, phase, result, increments, raced>>
  BY DEF ReadWord, FieldTypeOK, Phases
<1>1. FieldTypeOK'
  BY <1>0 DEF ReadWord, FieldTypeOK, mutex
<1>2. IsValue(buf'[p]) /\ buf'[p][w] = field[w] /\ \A u \in Words \ {w} : buf'[p][u] = buf[p][u]
  BY <1>0 DEF Phases, IsValue
<1>3. Phases'
  <2>1. DOMAIN buf' = Callers /\ \A q \in Callers : IsValue(buf'[q])
    BY <1>0, <1>2 DEF ReadWord, Phases
  <2>2. op[p] \notin Stores
    BY <1>0 DEF Phases, Loads, Stores
  <2>3. IsValue(field') /\ IsValue(result')
    BY <1>0 DEF Phases, IsValue
  <2>4. QED
    BY <1>0, <2>1, <2>2, <2>3 DEF Phases, mutex
<1>4. Alone'
  BY <1>0 DEF Alone, mutex
<1>5. Accounted'
  <2> SUFFICES ASSUME ~raced PROVE Accounted'
    BY <1>0 DEF Accounted
  <2>1. ASSUME NEW q \in Callers, NEW u \in Words
        PROVE  /\ phase[q] = "write" => field[u] = IF u \in left'[q] THEN result[u] ELSE buf'[q][u]
               /\ phase[q] = "read" /\ u \notin left'[q] => buf'[q][u] = field[u]
    <3>1. CASE q = p
      BY <1>0, <1>2, <3>1 DEF Accounted
    <3>2. CASE q # p
      BY <1>0, <3>2 DEF Accounted
    <3>3. QED
      BY <3>1, <3>2
  <2>2. ASSUME NEW q \in Callers, op[q] = "increment", phase[q] = "write"
        PROVE  buf'[q] = [result EXCEPT !.data = @ + 1]
    BY <1>0, <2>2 DEF Accounted
  <2>3. (\A q \in Callers : phase[q] # "write") => field = result
    BY DEF Accounted
  <2>4. QED
    BY <1>0, <2>1, <2>2, <2>3 DEF Accounted
<1>6. QED
  BY <1>1, <1>3, <1>4, <1>5

LEMMA AddIInv ==
    ASSUME FieldIInv, NEW p \in Callers, Add(p)
    PROVE  FieldIInv'
<1> USE DEF FieldIInv
<1>0. /\ phase[p] = "read" /\ op[p] = "increment" /\ left[p] = {}
      /\ phase'[p] = "write" /\ left'[p] = Words /\ buf'[p] = [buf[p] EXCEPT !.data = @ + 1]
      /\ \A q \in Callers \ {p} : phase'[q] = phase[q] /\ buf'[q] = buf[q] /\ left'[q] = left[q]
      /\ UNCHANGED <<type, field, mutex, op, result, increments, raced>>
  BY DEF Add, FieldTypeOK, Phases
<1>1. FieldTypeOK'
  BY <1>0 DEF Add, FieldTypeOK, mutex
<1>2. IsValue(buf'[p])
  BY <1>0 DEF Phases, IsValue, Words
<1>3. Phases'
  <2>1. DOMAIN buf' = Callers /\ \A q \in Callers : IsValue(buf'[q])
    BY <1>0, <1>2 DEF Add, Phases
  <2>2. IsValue(field') /\ IsValue(result')
    BY <1>0 DEF Phases, IsValue
  <2>3. QED
    BY <1>0, <2>1, <2>2 DEF Phases, mutex, Loads, Stores
<1>4. Alone'
  BY <1>0 DEF Alone, mutex
<1>5. ASSUME ~raced PROVE field = result /\ buf[p] = result
  <2>1. \A q \in Callers : phase[q] # "write"
    BY <1>0, <1>5, WritesAlone
  <2>2. field = result
    BY <1>5, <2>1 DEF Accounted
  <2>3. \A w \in Words : buf[p][w] = field[w]
    BY <1>0, <1>5 DEF Accounted
  <2>4. QED
    BY <2>2, <2>3 DEF Phases, IsValue
<1>6. Accounted'
  BY <1>0, <1>5 DEF Accounted, Phases
<1>7. QED
  BY <1>1, <1>3, <1>4, <1>6

LEMMA WriteIInv ==
    ASSUME FieldIInv, NEW p \in Callers, NEW w \in Words, WriteWord(p, w)
    PROVE  FieldIInv'
<1> USE DEF FieldIInv
<1>0. /\ phase[p] = "write" /\ w \in left[p] /\ field' = [field EXCEPT ![w] = buf[p][w]]
      /\ left'[p] = left[p] \ {w} /\ \A q \in Callers \ {p} : left'[q] = left[q]
      /\ UNCHANGED <<type, mutex, op, phase, buf, result, increments, raced>>
  BY DEF WriteWord, FieldTypeOK
<1>1. FieldTypeOK'
  BY <1>0 DEF WriteWord, FieldTypeOK, mutex
<1>2. IsValue(field') /\ field'[w] = buf[p][w] /\ \A u \in Words \ {w} : field'[u] = field[u]
  BY <1>0 DEF Phases, IsValue
<1>3. Phases'
  BY <1>0, <1>2 DEF Phases, mutex, Loads, Stores, IsValue
<1>4. Alone'
  BY <1>0 DEF Alone, mutex
<1>5. Accounted'
  <2> SUFFICES ASSUME ~raced PROVE Accounted'
    BY <1>0 DEF Accounted
  <2>1. \A q \in Callers \ {p} : phase[q] \notin {"read", "write"}
    BY <1>0, WritesAlone
  <2>2. QED
    BY <1>0, <1>2, <2>1 DEF Accounted
<1>6. QED
  BY <1>1, <1>3, <1>4, <1>5

LEMMA ReturnIInv ==
    ASSUME FieldIInv, NEW p \in Callers, AccessEnds(p)
    PROVE  FieldIInv'
<1> USE SharedStaticsAssumption DEF FieldIInv
<1>0. /\ Copied(p) /\ left[p] = {} /\ phase'[p] = "idle" /\ op'[p] = "none"
      /\ \A q \in Callers \ {p} : phase'[q] = phase[q] /\ op'[q] = op[q]
      /\ readers' = readers \ {p} /\ writer' = IF writer = p THEN Nobody ELSE writer
      /\ result' = IF op[p] \in Stores THEN buf[p]
                   ELSE IF op[p] = "increment" THEN [result EXCEPT !.data = @ + 1] ELSE result
      /\ UNCHANGED <<type, field, buf, left, increments, raced>>
  BY DEF AccessEnds, Copied, FieldTypeOK
<1>1. IsValue(result')
  BY <1>0 DEF Phases, IsValue, Words
<1>2. FieldTypeOK'
  <2>1. readers' = {q \in Callers : op'[q] = "ldsfld" /\ phase'[q] = "read"}
    BY <1>0 DEF FieldTypeOK
  <2>2. \A q \in Callers : writer' = q <=> op'[q] = "stsfld" /\ phase'[q] \in {"drain", "write"}
    BY <1>0 DEF FieldTypeOK
  <2>3. DOMAIN result' = Words
    BY <1>1 DEF IsValue
  <2>4. QED
    BY <1>0, <2>1, <2>2, <2>3 DEF AccessEnds, FieldTypeOK
<1>3. Phases'
  BY <1>0, <1>1 DEF Phases, Locked, Loads, Stores, IsValue
<1>4. Alone'
  BY <1>0 DEF Alone
<1>5. Accounted'
  <2> SUFFICES ASSUME ~raced PROVE Accounted'
    BY <1>0 DEF Accounted
  <2>1. CASE phase[p] = "write"
    <3>1. \A q \in Callers \ {p} : phase[q] \notin {"read", "write"}
      BY <2>1, WritesAlone
    <3>2. \A w \in Words : field[w] = buf[p][w]
      BY <1>0, <2>1 DEF Accounted
    <3>3. field = buf[p]
      BY <3>2 DEF Phases, IsValue
    <3>4. result' = buf[p]
      BY <1>0, <2>1 DEF Phases, Accounted
    <3>5. QED
      BY <1>0, <3>1, <3>3, <3>4 DEF Accounted
  <2>2. CASE phase[p] # "write"
    <3>1. op[p] \in Loads /\ result' = result
      BY <1>0, <2>2 DEF Copied, Loads, Stores
    <3>2. QED
      BY <1>0, <2>2, <3>1 DEF Accounted
  <2>3. QED
    BY <2>1, <2>2
<1>6. QED
  BY <1>2, <1>3, <1>4, <1>5

LEMMA NextIInv == FieldIInv /\ [FieldNext]_fieldVars => FieldIInv'
<1> SUFFICES ASSUME FieldIInv, [FieldNext]_fieldVars PROVE FieldIInv'
  OBVIOUS
<1>1. CASE UNCHANGED fieldVars
  BY <1>1 DEF fieldVars, mutex, FieldIInv, FieldTypeOK, Phases, Alone, Accounted, IsValue
<1>2. ASSUME NEW p \in Callers, FieldStep(p) PROVE FieldIInv'
  BY <1>2, LockIInv, ReadIInv, AddIInv, WriteIInv, ReturnIInv DEF FieldStep
<1>3. ASSUME NEW p \in Callers, NEW o \in Ops, NEW v \in Values[type], Begin(p, o, v) PROVE FieldIInv'
  BY <1>3, BeginIInv
<1>4. QED
  BY <1>1, <1>2, <1>3 DEF FieldNext

\* Every state of every behaviour satisfies it.
THEOREM Invariance == FieldSpec => []FieldIInv
<1>1. FieldInit => FieldIInv
  BY InitIInv
<1>2. FieldIInv /\ [FieldNext]_fieldVars => FieldIInv'
  BY NextIInv
<1>3. QED
  BY <1>1, <1>2, PTL DEF FieldSpec

\* What the mutex of the statics is for: no load returns half a store, and when all
\* operations have returned the field holds what they make one after another.
THEOREM StaticsStayWhole == FieldSpec => []StaticsInv
<1>1. FieldIInv => StaticsInv
  <2> SUFFICES ASSUME FieldIInv PROVE ReadsAreWhole /\ NoUpdateIsLost
    BY DEF StaticsInv
  <2> USE DEF FieldIInv
  <2>1. ASSUME NEW p \in Callers, ~raced, op[p] \in Loads, Copied(p)
        PROVE  type = "int" \/ buf[p] \in Values[type]
    <3>1. phase[p] = "read" /\ left[p] = {}
      BY <2>1 DEF Copied, Phases, Loads, Stores
    <3>2. \A q \in Callers : phase[q] # "write"
      BY <2>1, <3>1, WritesAlone
    <3>3. field = result
      BY <2>1, <3>2 DEF Accounted
    <3>4. \A w \in Words : buf[p][w] = field[w]
      BY <2>1, <3>1 DEF Accounted
    <3>5. buf[p] = result
      BY <3>3, <3>4 DEF Phases, IsValue
    <3>6. QED
      BY <3>5 DEF Phases
  <2>2. NoUpdateIsLost
    BY DEF NoUpdateIsLost, Accounted
  <2>3. QED
    BY <2>1, <2>2 DEF ReadsAreWhole
<1>2. QED
  BY <1>1, Invariance, PTL

-----------------------------------------------------------------------------
(* The register the field stands for, as the refinement mapping gives it.  *)

Value == IF \E p \in Callers : Writing(p) THEN buf[CHOOSE p \in Callers : Writing(p)] ELSE field
Doing == [p \in Callers |-> IF Copied(p) \/ Writing(p) THEN "done" ELSE op[p]]
Got == [p \in Callers |->
          IF op[p] \in Loads \union {"increment"} /\ ~Copied(p) /\ ~Writing(p)
          THEN Default[type] ELSE buf[p]]

\* The store that has begun to write is the value already.
LEMMA ValueIsWritten ==
    \A p \in Callers : FieldIInv /\ ~raced /\ Writing(p) => Value = buf[p]
<1> SUFFICES ASSUME NEW p \in Callers, FieldIInv, ~raced, Writing(p) PROVE Value = buf[p]
  OBVIOUS
<1> DEFINE c == CHOOSE q \in Callers : Writing(q)
<1>1. c \in Callers /\ Writing(c)
  OBVIOUS
<1>2. c = p
  <2>1. phase[p] = "write" /\ phase[c] = "write"
    BY <1>1 DEF Writing
  <2>2. QED
    BY <1>1, <2>1, WritesAlone
<1>3. QED
  BY <1>2 DEF Value

LEMMA ValueIsTheField == (\A p \in Callers : ~Writing(p)) => Value = field
  BY DEF Value

\* Steps that leave it alone, and the moments of the three operations.
LEMMA RegisterStep ==
    ASSUME \/ Value' = Value /\ Doing' = Doing /\ Got' = Got
           \/ \E p \in Callers :
                 \/ /\ Doing[p] = "none" /\ Doing' = [Doing EXCEPT ![p] = op'[p]] /\ op'[p] \in Ops
                    /\ Value' = Value /\ \A q \in Callers \ {p} : Got'[q] = Got[q]
                 \/ /\ Doing[p] \in Loads /\ Doing' = [Doing EXCEPT ![p] = "done"]
                    /\ Got' = [Got EXCEPT ![p] = Value] /\ Value' = Value
                 \/ /\ Doing[p] \in Stores /\ Doing' = [Doing EXCEPT ![p] = "done"]
                    /\ Value' = Got[p] /\ Got' = Got
                 \/ /\ Doing[p] = "increment" /\ Doing' = [Doing EXCEPT ![p] = "done"]
                    /\ Value' = [Value EXCEPT !.data = @ + 1] /\ Got' = [Got EXCEPT ![p] = Value']
                 \/ /\ Doing[p] = "done" /\ Doing' = [Doing EXCEPT ![p] = "none"]
                    /\ Value' = Value /\ Got' = Got
    PROVE  [Atomic!Next]_(Atomic!vars)
<1>1. CASE Value' = Value /\ Doing' = Doing /\ Got' = Got
  BY <1>1 DEF Atomic!vars, Value, Doing, Got
<1>2. ASSUME NEW p \in Callers, Doing[p] = "none", Doing' = [Doing EXCEPT ![p] = op'[p]], op'[p] \in Ops,
             Value' = Value, \A q \in Callers \ {p} : Got'[q] = Got[q]
      PROVE  Atomic!Next
  <2>1. op'[p] \in {"ldsfld", "ldind", "stsfld", "stind", "increment"}
    BY <1>2 DEF Ops, Locked, ByAddress
  <2>2. Atomic!Begin(p)
    BY <1>2, <2>1 DEF Atomic!Begin, Value, Doing, Got
  <2>3. QED
    BY <2>2 DEF Atomic!Next
<1>3. ASSUME NEW p \in Callers, Doing[p] \in Loads, Doing' = [Doing EXCEPT ![p] = "done"],
             Got' = [Got EXCEPT ![p] = Value], Value' = Value
      PROVE  Atomic!Next
  <2>1. Atomic!Read(p)
    BY <1>3 DEF Atomic!Read, Value, Doing, Got, Loads
  <2>2. QED
    BY <2>1 DEF Atomic!Next
<1>4. ASSUME NEW p \in Callers, Doing[p] \in Stores, Doing' = [Doing EXCEPT ![p] = "done"],
             Value' = Got[p], Got' = Got
      PROVE  Atomic!Next
  <2>1. Atomic!Write(p)
    BY <1>4 DEF Atomic!Write, Value, Doing, Got, Stores
  <2>2. QED
    BY <2>1 DEF Atomic!Next
<1>5. ASSUME NEW p \in Callers, Doing[p] = "increment", Doing' = [Doing EXCEPT ![p] = "done"],
             Value' = [Value EXCEPT !.data = @ + 1], Got' = [Got EXCEPT ![p] = Value']
      PROVE  Atomic!Next
  <2>1. Atomic!Increment(p)
    BY <1>5 DEF Atomic!Increment, Value, Doing, Got
  <2>2. QED
    BY <2>1 DEF Atomic!Next
<1>6. ASSUME NEW p \in Callers, Doing[p] = "done", Doing' = [Doing EXCEPT ![p] = "none"],
             Value' = Value, Got' = Got
      PROVE  Atomic!Next
  <2>1. Atomic!End(p)
    BY <1>6 DEF Atomic!End, Value, Doing, Got
  <2>2. QED
    BY <2>1 DEF Atomic!Next
<1>7. QED
  BY <1>1, <1>2, <1>3, <1>4, <1>5, <1>6

LEMMA ValuePrimed ==
    /\ \A p \in Callers : FieldIInv' /\ ~raced' /\ Writing(p)' => Value' = buf'[p]
    /\ (\A p \in Callers : ~Writing(p)') => Value' = field'
<1>1. (\A p \in Callers : FieldIInv /\ ~raced /\ Writing(p) => Value = buf[p])'
  BY ValueIsWritten, PTL
<1>2. ((\A p \in Callers : ~Writing(p)) => Value = field)'
  BY ValueIsTheField, PTL
<1>3. QED
  BY <1>1, <1>2

LEMMA ValueStays ==
    ASSUME FieldIInv, FieldIInv', ~raced, ~raced', field' = field,
           \A q \in Callers : (Writing(q)' <=> Writing(q)) /\ (Writing(q) => buf'[q] = buf[q])
    PROVE  Value' = Value
<1>1. CASE \E q \in Callers : Writing(q)
  <2>1. PICK q \in Callers : Writing(q)
    BY <1>1
  <2>2. QED
    BY <2>1, ValueIsWritten, ValuePrimed
<1>2. CASE \A q \in Callers : ~Writing(q)
  BY <1>2, ValueIsTheField, ValuePrimed
<1>3. QED
  BY <1>1, <1>2

LEMMA BeginRefines ==
    ASSUME FieldIInv, ~raced', NEW p \in Callers, NEW o \in Ops, NEW v \in Values[type], Begin(p, o, v)
    PROVE  [Atomic!Next]_(Atomic!vars)
<1>1. /\ op[p] = "none" /\ op' = [op EXCEPT ![p] = o] /\ op'[p] = o
      /\ phase[p] = "idle" /\ phase'[p] \in {"lock", "read", "write"} /\ left'[p] = Words
      /\ \A q \in Callers \ {p} : phase'[q] = phase[q] /\ op'[q] = op[q] /\ buf'[q] = buf[q] /\ left'[q] = left[q]
      /\ UNCHANGED <<type, field>>
  BY DEF Begin, FieldIInv, FieldTypeOK, Phases
<1>2. ~Copied(p) /\ ~Writing(p) /\ ~Copied(p)' /\ ~Writing(p)'
  BY <1>1 DEF Copied, Writing, Words
<1>3. \A q \in Callers \ {p} : (Copied(q)' <=> Copied(q)) /\ (Writing(q)' <=> Writing(q))
  BY <1>1 DEF Copied, Writing
<1>4. Doing[p] = "none" /\ Doing' = [Doing EXCEPT ![p] = o]
  BY <1>1, <1>2, <1>3 DEF Doing
<1>5. \A q \in Callers \ {p} : Got'[q] = Got[q]
  BY <1>1, <1>3 DEF Got
<1>6. Value' = Value
  <2>1. FieldIInv' /\ ~raced
    BY BeginIInv DEF Begin
  <2>2. \A q \in Callers : (Writing(q)' <=> Writing(q)) /\ (Writing(q) => buf'[q] = buf[q])
    BY <1>1, <1>2, <1>3
  <2>3. QED
    BY <1>1, <2>1, <2>2, ValueStays
<1>7. QED
  BY <1>1, <1>4, <1>5, <1>6, RegisterStep

\* Waiting for the lock is not seen.
LEMMA LockRefines ==
    ASSUME FieldIInv, ~raced', NEW p \in Callers, RLock(p) \/ Announce(p) \/ Drain(p)
    PROVE  [Atomic!Next]_(Atomic!vars)
<1>1. /\ phase[p] \in {"lock", "drain"} /\ left[p] = Words
      /\ \A q \in Callers \ {p} : phase'[q] = phase[q]
      /\ UNCHANGED <<type, field, op, buf, left, raced>>
  BY DEF RLock, Announce, Drain, FieldIInv, FieldTypeOK, Phases
<1>2. \A q \in Callers : (Copied(q)' <=> Copied(q)) /\ (Writing(q)' <=> Writing(q))
  BY <1>1 DEF Copied, Writing, Words
<1>3. Doing' = Doing /\ Got' = Got
  BY <1>1, <1>2 DEF Doing, Got
<1>4. Value' = Value
  BY <1>1, <1>2, LockIInv, ValueStays
<1>5. QED
  BY <1>3, <1>4, RegisterStep

\* A load takes place when it copies its last word.
LEMMA ReadRefines ==
    ASSUME FieldIInv, ~raced', NEW p \in Callers, NEW w \in Words, ReadWord(p, w)
    PROVE  [Atomic!Next]_(Atomic!vars)
<1>1. /\ phase[p] = "read" /\ w \in left[p] /\ left'[p] = left[p] \ {w}
      /\ \A q \in Callers \ {p} : buf'[q] = buf[q] /\ left'[q] = left[q]
      /\ op[p] \in Loads \union {"increment"}
      /\ UNCHANGED <<type, field, op, phase, raced>>
  BY DEF ReadWord, FieldIInv, FieldTypeOK, Phases
<1>2. \A q \in Callers \ {p} : (Copied(q)' <=> Copied(q)) /\ (Writing(q)' <=> Writing(q))
  BY <1>1 DEF Copied, Writing
<1>3. ~Copied(p) /\ ~Writing(p) /\ ~Writing(p)'
  BY <1>1 DEF Copied, Writing
<1>4. Value' = Value
  BY <1>1, <1>2, <1>3, ReadIInv, ValueStays
<1>5. CASE ~Copied(p)'
  <2>1. Doing' = Doing /\ Got' = Got
    BY <1>1, <1>2, <1>3, <1>5 DEF Doing, Got
  <2>2. QED
    BY <1>4, <2>1, RegisterStep
<1>6. CASE Copied(p)'
  <2>1. op[p] \in Loads /\ left'[p] = {}
    BY <1>1, <1>6 DEF Copied
  <2>2. Value = field
    <3>1. \A q \in Callers : ~Writing(q)
      BY <1>1, WritesAlone DEF Writing
    <3>2. QED
      BY <3>1, ValueIsTheField
  <2>3. buf'[p] = field
    <3>1. FieldIInv'
      BY ReadIInv
    <3>2. IsValue(buf'[p]) /\ IsValue(field) /\ \A u \in Words : buf'[p][u] = field[u]
      BY <1>1, <2>1, <3>1 DEF FieldIInv, Phases, Accounted, IsValue
    <3>3. QED
      BY <3>2 DEF IsValue
  <2>4. Doing[p] \in Loads /\ Doing' = [Doing EXCEPT ![p] = "done"]
    BY <1>1, <1>2, <1>3, <1>6, <2>1 DEF Doing
  <2>5. Got' = [Got EXCEPT ![p] = Value]
    BY <1>1, <1>2, <1>3, <1>6, <2>2, <2>3 DEF Got
  <2>6. QED
    BY <1>4, <2>4, <2>5, RegisterStep
<1>7. QED
  BY <1>5, <1>6

LEMMA AddRefines ==
    ASSUME FieldIInv, ~raced', NEW p \in Callers, Add(p)
    PROVE  [Atomic!Next]_(Atomic!vars)
<1>1. /\ phase[p] = "read" /\ op[p] = "increment" /\ phase'[p] = "write" /\ left'[p] = Words
      /\ \A q \in Callers \ {p} : buf'[q] = buf[q] /\ left'[q] = left[q] /\ phase'[q] = phase[q]
      /\ UNCHANGED <<type, field, op, raced>>
  BY DEF Add, FieldIInv, FieldTypeOK, Phases
<1>2. \A q \in Callers : (Writing(q)' <=> Writing(q))
  BY <1>1 DEF Writing
<1>3. \A q \in Callers : Copied(q)' <=> Copied(q)
  BY <1>1 DEF Copied, Loads, Words
<1>4. ~Copied(p) /\ ~Writing(p)
  BY <1>1 DEF Copied, Writing, Loads
<1>5. Doing' = Doing /\ Got' = Got
  BY <1>1, <1>2, <1>3, <1>4 DEF Doing, Got
<1>6. Value' = Value
  BY <1>1, <1>2, <1>4, AddIInv, ValueStays
<1>7. QED
  BY <1>5, <1>6, RegisterStep

\* A store takes place when it writes its first word, and so does an increment: the
\* lock, or the address' being used alone, keeps the others from seeing the rest.
LEMMA WriteRefines ==
    ASSUME FieldIInv, ~raced', NEW p \in Callers, NEW w \in Words, WriteWord(p, w)
    PROVE  [Atomic!Next]_(Atomic!vars)
<1>1. /\ phase[p] = "write" /\ w \in left[p] /\ left'[p] = left[p] \ {w}
      /\ \A q \in Callers \ {p} : left'[q] = left[q]
      /\ UNCHANGED <<type, op, phase, buf, result, raced>>
  BY DEF WriteWord, FieldIInv, FieldTypeOK
<1>2. \A q \in Callers \ {p} : (Copied(q)' <=> Copied(q)) /\ (Writing(q)' <=> Writing(q))
  BY <1>1 DEF Copied, Writing
<1>3. ~Copied(p) /\ Writing(p)'
  BY <1>1 DEF Copied, Writing
<1>4. Value' = buf[p]
  BY <1>1, <1>3, WriteIInv, ValuePrimed
<1>5. CASE Writing(p)
  <2>1. Doing' = Doing /\ Got' = Got
    BY <1>1, <1>2, <1>3, <1>5 DEF Doing, Got
  <2>2. Value' = Value
    BY <1>1, <1>4, <1>5, ValueIsWritten
  <2>3. QED
    BY <2>1, <2>2, RegisterStep
<1>6. CASE ~Writing(p)
  <2>1. Doing[p] = op[p] /\ Doing' = [Doing EXCEPT ![p] = "done"]
    BY <1>1, <1>2, <1>3, <1>6 DEF Doing
  <2>2. CASE op[p] \in Stores
    <3>1. Got' = Got /\ Got[p] = buf[p]
      BY <1>1, <1>2, <2>2 DEF Got, Loads, Stores
    <3>2. QED
      BY <1>4, <2>1, <2>2, <3>1, RegisterStep
  <2>3. CASE op[p] = "increment"
    <3>1. Value = field
      <4>1. \A q \in Callers : ~Writing(q)
        BY <1>1, <1>6, WritesAlone DEF Writing
      <4>2. QED
        BY <4>1, ValueIsTheField
    <3>2. field = result
      <4>1. left[p] = Words
        BY <1>1, <1>6 DEF Writing
      <4>2. \A u \in Words : field[u] = result[u]
        BY <1>1, <4>1 DEF FieldIInv, Accounted
      <4>3. QED
        BY <4>2 DEF FieldIInv, Phases, IsValue
    <3>3. Value' = [Value EXCEPT !.data = @ + 1]
      BY <1>1, <1>4, <2>3, <3>1, <3>2 DEF FieldIInv, Accounted
    <3>4. Got' = [Got EXCEPT ![p] = Value']
      BY <1>1, <1>2, <1>3, <1>4, <2>3 DEF Got
    <3>5. QED
      BY <2>1, <2>3, <3>3, <3>4, RegisterStep
  <2>4. QED
    BY <1>1, <2>2, <2>3 DEF FieldIInv, Phases
<1>7. QED
  BY <1>5, <1>6

LEMMA ReturnRefines ==
    ASSUME FieldIInv, ~raced', NEW p \in Callers, AccessEnds(p)
    PROVE  [Atomic!Next]_(Atomic!vars)
<1>1. /\ Copied(p) /\ left[p] = {} /\ phase'[p] = "idle" /\ op'[p] = "none"
      /\ \A q \in Callers \ {p} : phase'[q] = phase[q] /\ op'[q] = op[q]
      /\ UNCHANGED <<type, field, buf, left, raced>>
  BY DEF AccessEnds, Copied, FieldIInv, FieldTypeOK
<1>2. \A q \in Callers \ {p} : (Copied(q)' <=> Copied(q)) /\ (Writing(q)' <=> Writing(q))
  BY <1>1 DEF Copied, Writing
<1>3. ~Copied(p)' /\ ~Writing(p)'
  BY <1>1 DEF Copied, Writing
<1>4. Doing[p] = "done" /\ Doing' = [Doing EXCEPT ![p] = "none"]
  BY <1>1, <1>2, <1>3 DEF Doing
<1>5. Got' = Got
  BY <1>1, <1>2, <1>3 DEF Got, Loads
<1>6. Value' = Value
  <2>1. FieldIInv'
    BY ReturnIInv
  <2>2. CASE Writing(p)
    <3>1. Value = buf[p]
      BY <1>1, <2>2, ValueIsWritten
    <3>2. \A q \in Callers : ~Writing(q)'
      BY <1>1, <1>2, <1>3, <2>2, WritesAlone DEF Writing
    <3>3. Value' = field
      BY <1>1, <3>2, ValuePrimed
    <3>4. \A u \in Words : field[u] = buf[p][u]
      BY <1>1, <2>2 DEF Writing, FieldIInv, Accounted
    <3>5. field = buf[p]
      BY <3>4 DEF FieldIInv, Phases, IsValue
    <3>6. QED
      BY <3>1, <3>3, <3>5
  <2>3. CASE ~Writing(p)
    BY <1>1, <1>2, <1>3, <2>1, <2>3, ValueStays
  <2>4. QED
    BY <2>2, <2>3
<1>7. QED
  BY <1>4, <1>5, <1>6, RegisterStep

-----------------------------------------------------------------------------

\* Until an address is used against another operation the field is an atomic
\* register, whatever order the words are copied in and however the calls of
\* ldsfld, stsfld, ldind, stind and Interlocked.Increment interleave.
THEOREM FieldIsARegister == FieldSpec => IsARegister
<1>1. FieldInit => Atomic!Start(Default[type])
  BY DEF FieldInit, Atomic!Start, Copied, Writing
<1>2. ASSUME FieldIInv, [FieldNext]_fieldVars PROVE [raced' \/ [Atomic!Next]_(Atomic!vars)]_fieldVars
  <2> SUFFICES ASSUME FieldNext, ~raced' PROVE [Atomic!Next]_(Atomic!vars)
    BY <1>2
  <2>1. ASSUME NEW p \in Callers, FieldStep(p) PROVE [Atomic!Next]_(Atomic!vars)
    BY <1>2, <2>1, LockRefines, ReadRefines, AddRefines, WriteRefines, ReturnRefines DEF FieldStep
  <2>2. ASSUME NEW p \in Callers, NEW o \in Ops, NEW v \in Values[type], Begin(p, o, v)
        PROVE  [Atomic!Next]_(Atomic!vars)
    BY <1>2, <2>2, BeginRefines
  <2>3. QED
    BY <2>1, <2>2 DEF FieldNext
<1>3. QED
  BY <1>1, <1>2, Invariance, PTL DEF FieldSpec, IsARegister
=============================================================================
