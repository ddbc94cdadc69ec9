--------------------------- MODULE SharedStatics ---------------------------
(***************************************************************************)
(* One static field of a type of an Assembly, and the calls that goroutines *)
(* make on that Assembly at the same time.  ldsfld and stsfld go through    *)
(* the type's staticsMu, an RWMutex; ldsflda gives the address of the slot, *)
(* which ldind, stind and Interlocked then use without it.  A Value is a    *)
(* struct of several words, which Go copies one at a time, in no given      *)
(* order.                                                                   *)
(***************************************************************************)
EXTENDS Naturals

CONSTANTS Callers,
          FieldTypes,         \* what the field may be declared as
          Values,        \* Values[t]: what is stored in a field of type t
          Default,       \* Default[t]: its staticFieldDefaults
          MaxIncrements, \* bound
          Nobody

Words == {"kind", "data"}
Locked == {"ldsfld", "stsfld"}
ByAddress == {"ldind", "stind", "increment"}
Loads == {"ldsfld", "ldind"}
Stores == {"stsfld", "stind"}
Ops == Locked \union ByAddress

ASSUME SharedStaticsAssumption ==
    /\ \A t \in FieldTypes : Default[t] \in Values[t] /\ \A v \in Values[t] : v = [w \in Words |-> v[w]]
    /\ "int" \in FieldTypes => \A v \in Values["int"] : v.data \in Nat
    /\ MaxIncrements \in Nat /\ Nobody \notin Callers

VARIABLES type,            \* the declared type of the field
          field,
          readers, writer, \* staticsMu: who holds it to read, or holds or wants it to write
          op, phase,          \* per call, the operation and where it is
          buf,             \* per call, the Value it reads or writes
          left,            \* per call, the words that remain to be copied
          result,          \* the Value the operations that returned make, in that order
          increments,
          raced            \* whether the address was used against another operation

mutex == <<readers, writer>>
fieldVars == <<type, field, mutex, op, phase, buf, left, result, increments, raced>>

FieldInit ==
    /\ type \in FieldTypes
    /\ field = Default[type] /\ result = Default[type] /\ increments = 0
    /\ readers = {} /\ writer = Nobody
    /\ op = [p \in Callers |-> "none"] /\ phase = [p \in Callers |-> "idle"]
    /\ buf = [p \in Callers |-> Default[type]] /\ left = [p \in Callers |-> {}]
    /\ raced = FALSE

-----------------------------------------------------------------------------
(* An instruction starts: with an address, at once with the copying.       *)

Conflict(o1, o2) == {o1, o2} \cap ByAddress # {} /\ ~({o1, o2} \subseteq Loads)

Begin(p, o, v) ==
    /\ phase[p] = "idle"
    /\ o \in Stores \/ v = Default[type]
    /\ o = "increment" => type = "int" /\ increments < MaxIncrements
    /\ increments' = IF o = "increment" THEN increments + 1 ELSE increments
    /\ op' = [op EXCEPT ![p] = o] /\ buf' = [buf EXCEPT ![p] = v]
    /\ phase' = [phase EXCEPT ![p] = IF o \in Locked THEN "lock"
                               ELSE IF o = "stind" THEN "write" ELSE "read"]
    /\ left' = [left EXCEPT ![p] = Words]
    /\ raced' = (raced \/ \E q \in Callers : phase[q] # "idle" /\ Conflict(o, op[q]))
    /\ UNCHANGED <<type, field, mutex, result>>

RLockFree(p) ==
    /\ phase[p] = "lock" /\ op[p] = "ldsfld"
    /\ readers' = readers \union {p} /\ phase' = [phase EXCEPT ![p] = "read"]
    /\ UNCHANGED <<type, field, writer, op, buf, left, result, increments, raced>>
RLock(p) ==
    /\ phase[p] = "lock" /\ op[p] = "ldsfld" /\ writer = Nobody
    /\ readers' = readers \union {p} /\ phase' = [phase EXCEPT ![p] = "read"]
    /\ UNCHANGED <<type, field, writer, op, buf, left, result, increments, raced>>

\* A writer keeps new readers out and waits for those that are in.
AnnounceOver(p) ==
    /\ phase[p] = "lock" /\ op[p] = "stsfld"
    /\ writer' = p /\ phase' = [phase EXCEPT ![p] = "drain"]
    /\ UNCHANGED <<type, field, readers, op, buf, left, result, increments, raced>>
Announce(p) ==
    /\ phase[p] = "lock" /\ op[p] = "stsfld" /\ writer = Nobody
    /\ writer' = p /\ phase' = [phase EXCEPT ![p] = "drain"]
    /\ UNCHANGED <<type, field, readers, op, buf, left, result, increments, raced>>
DrainNot(p) ==
    /\ phase[p] = "drain"
    /\ phase' = [phase EXCEPT ![p] = "write"]
    /\ UNCHANGED <<type, field, mutex, op, buf, left, result, increments, raced>>
Drain(p) ==
    /\ phase[p] = "drain" /\ readers = {}
    /\ phase' = [phase EXCEPT ![p] = "write"]
    /\ UNCHANGED <<type, field, mutex, op, buf, left, result, increments, raced>>

ReadWord(p, w) ==
    /\ phase[p] = "read" /\ w \in left[p]
    /\ buf' = [buf EXCEPT ![p][w] = field[w]]
    /\ left' = [left EXCEPT ![p] = @ \ {w}]
    /\ UNCHANGED <<type, field, mutex, op, phase, result, increments, raced>>

\* Interlocked.Increment has read the number it will write back.
Add(p) ==
    /\ phase[p] = "read" /\ op[p] = "increment" /\ left[p] = {}
    /\ buf' = [buf EXCEPT ![p].data = @ + 1]
    /\ left' = [left EXCEPT ![p] = Words] /\ phase' = [phase EXCEPT ![p] = "write"]
    /\ UNCHANGED <<type, field, mutex, op, result, increments, raced>>

WriteWord(p, w) ==
    /\ phase[p] = "write" /\ w \in left[p]
    /\ field' = [field EXCEPT ![w] = buf[p][w]]
    /\ left' = [left EXCEPT ![p] = @ \ {w}]
    /\ UNCHANGED <<type, mutex, op, phase, buf, result, increments, raced>>

Copied(p) ==
    /\ left[p] = {}
    /\ \/ phase[p] = "read" /\ op[p] \in Loads
       \/ phase[p] = "write"

\* Mutant: the reader's lock is not given back.
AccessEndsHolding(p) ==
    /\ Copied(p)
    /\ writer' = IF writer = p THEN Nobody ELSE writer
    /\ result' = IF op[p] \in Stores THEN buf[p]
                 ELSE IF op[p] = "increment" THEN [result EXCEPT !.data = @ + 1]
                 ELSE result
    /\ phase' = [phase EXCEPT ![p] = "idle"] /\ op' = [op EXCEPT ![p] = "none"]
    /\ UNCHANGED <<type, field, readers, buf, left, increments, raced>>

AccessEnds(p) ==
    /\ Copied(p)
    /\ readers' = readers \ {p} /\ writer' = IF writer = p THEN Nobody ELSE writer
    /\ result' = IF op[p] \in Stores THEN buf[p]
                 ELSE IF op[p] = "increment" THEN [result EXCEPT !.data = @ + 1]
                 ELSE result
    /\ phase' = [phase EXCEPT ![p] = "idle"] /\ op' = [op EXCEPT ![p] = "none"]
    /\ UNCHANGED <<type, field, buf, left, increments, raced>>

FieldStep(p) ==
    \/ RLock(p) \/ Announce(p) \/ Drain(p) \/ Add(p) \/ AccessEnds(p)
    \/ \E w \in Words : ReadWord(p, w) \/ WriteWord(p, w)

FieldNext ==
    \E p \in Callers :
        FieldStep(p) \/ \E o \in Ops, v \in Values[type] : Begin(p, o, v)

FieldSpec == FieldInit /\ [][FieldNext]_fieldVars

\* A sync.RWMutex admits the readers that wait before another writer, and its
\* writers queue on a sync.Mutex, which starves none.
FairFieldSpec == FieldSpec /\ \A p \in Callers : SF_fieldVars(FieldStep(p))

-----------------------------------------------------------------------------

\* The mutex is held by the calls that are within ldsfld and stsfld, and by no others.
FieldTypeOK ==
    /\ type \in FieldTypes /\ DOMAIN field = Words /\ DOMAIN result = Words
    /\ op \in [Callers -> Ops \union {"none"}]
    /\ phase \in [Callers -> {"idle", "lock", "drain", "read", "write"}]
    /\ left \in [Callers -> SUBSET Words] /\ raced \in BOOLEAN
    /\ readers = {p \in Callers : op[p] = "ldsfld" /\ phase[p] = "read"}
    /\ \A p \in Callers : writer = p <=> op[p] = "stsfld" /\ phase[p] \in {"drain", "write"}

\* What a load returns is a Value that was stored, never a kind that says
\* reference beside the number of another Value, unless an address was used while
\* another operation was at work: StaticFieldAddr's caller, "it's on them"
\* (class.go:155-163).
ReadsAreWhole ==
    \A p \in Callers : ~raced /\ op[p] \in Loads /\ Copied(p) =>
        type = "int" \/ buf[p] \in Values[type]

\* With that exception, when every operation has returned the field holds what
\* they make, done one after another as they returned: no update was lost.
NoUpdateIsLost == ~raced /\ (\A p \in Callers : phase[p] = "idle") => field = result

-----------------------------------------------------------------------------
(* Why they hold: the strengthening the proofs carry along.                *)

IsValue(v) == v = [w \in Words |-> v[w]]

\* Where an operation may be, and what it has at hand there.
Phases ==
    /\ IsValue(field) /\ IsValue(result) /\ DOMAIN buf = Callers /\ \A p \in Callers : IsValue(buf[p])
    /\ type = "int" \/ result \in Values[type]
    /\ writer \in Callers \union {Nobody}
    /\ \A p \in Callers :
          /\ phase[p] = "idle" <=> op[p] = "none"
          /\ phase[p] = "lock" => op[p] \in Locked
          /\ phase[p] = "drain" => op[p] = "stsfld"
          /\ phase[p] = "read" => op[p] \in Loads \union {"increment"}
          /\ phase[p] = "write" => op[p] \in Stores \union {"increment"}
          /\ phase[p] \in {"lock", "drain"} => left[p] = Words
          /\ op[p] = "increment" => type = "int"
          /\ op[p] \in Stores => buf[p] \in Values[type]

\* A store of the field has waited for its readers, and the address meets no
\* other operation unless raced says so.
Alone ==
    /\ \A p \in Callers : op[p] = "stsfld" /\ phase[p] = "write" => readers = {}
    /\ ~raced => \A p, q \in Callers :
          p # q /\ phase[p] # "idle" /\ phase[q] # "idle" => ~Conflict(op[p], op[q])

\* Then the field is what the returned operations made, but for the words that
\* the one at work has written; readers and increments hold what is there.
Accounted ==
    ~raced =>
        /\ (\A p \in Callers : phase[p] # "write") => field = result
        /\ \A p \in Callers, w \in Words :
              /\ phase[p] = "write" => field[w] = IF w \in left[p] THEN result[w] ELSE buf[p][w]
              /\ phase[p] = "read" /\ w \notin left[p] => buf[p][w] = field[w]
        /\ \A p \in Callers :
              op[p] = "increment" /\ phase[p] = "write" => buf[p] = [result EXCEPT !.data = @ + 1]

FieldIInv == FieldTypeOK /\ Phases /\ Alone /\ Accounted

\* The lock keeps what it is there for: no load sees half a store, no increment is
\* lost, and it is held by those at work alone.
StaticsInv ==
    /\ FieldIInv
    /\ ReadsAreWhole
    /\ NoUpdateIsLost

\* Every load and store of a static returns: the mutex is always given back.
AccessReturns == \A p \in Callers : phase[p] # "idle" ~> phase[p] = "idle"

Writing(p) == phase[p] = "write" /\ left[p] # Words
Atomic == INSTANCE Register WITH
    Procs <- Callers,
    Idle <- "none",
    value <- IF \E p \in Callers : Writing(p) THEN buf[CHOOSE p \in Callers : Writing(p)] ELSE field,
    doing <- [p \in Callers |-> IF Copied(p) \/ Writing(p) THEN "done" ELSE op[p]],
    got <- [p \in Callers |->
              IF op[p] \in Loads \union {"increment"} /\ ~Copied(p) /\ ~Writing(p)
              THEN Default[type] ELSE buf[p]]

\* Until an address is used against another operation the field is an atomic
\* register: whatever order the words are copied in, each operation takes effect at
\* one moment between its start and its end.
IsARegister == Atomic!Start(Default[type]) /\ [][raced' \/ [Atomic!Next]_(Atomic!vars)]_fieldVars
=============================================================================
