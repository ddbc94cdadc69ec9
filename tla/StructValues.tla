---------------------------- MODULE StructValues ----------------------------
(***************************************************************************)
(* Value types in the interpreter (runtime/struct.go, interpreter/eval.go).*)
(* A Value of kind Struct is a pointer to a Struct with its Fields, so two *)
(* Values may share one.  Value.Clone, which copies a Struct and every     *)
(* Struct in its fields, runs where an instruction stores a Value in a     *)
(* slot (stloc, starg, stfld, stsfld, stelem, stind) and where a frame's   *)
(* locals are set up; what is loaded, passed or returned is the pointer.   *)
(* A managed pointer is the Go address of a slot, or of a field within the *)
(* Struct that was in the slot when the address was taken.                 *)
(*                                                                         *)
(* A struct has one field n, itself a struct with a numeric field x: the   *)
(* outer Struct holds a pointer to the inner one.  Boxed values and the    *)
(* instance calls on them are left out.                                    *)
(***************************************************************************)
EXTENDS Naturals, Sequences

CONSTANTS MaxDepth, \* method activations
          Shared,   \* static fields, fields of objects, array elements
          Lists,    \* elements of collections, which natives store
          Nums,     \* the values of x
          MaxItems, \* bound: items on an evaluation stack
          Nil, New, NoItem, NoNum

Frames == 1..MaxDepth
Owned == (Frames \X {"local"}) \union ({0} \X Shared)
Callees == 2..MaxDepth
Slots == (Frames \X {"local"}) \union (Callees \X {"arg"}) \union ({0} \X (Shared \union Lists))
Operands == Frames \X {"stack"} \X (1..MaxItems)
RefArgs == Callees \X {"ref"}

\* A Struct is named after one of the places that lead to it.
Places == Slots \union Operands \union RefArgs

\* What is on a stack: a pointer to an outer or an inner Struct, or the address
\* of a slot, of the field n or of the field x of a Struct.  "of" is the slot an
\* address was taken in, which the interpreter does not keep.
Kinds == {"struct", "nested", "&", "&n", "&x"}
Items == [is : Kinds, of : Slots \union {Nil}, id : Places \union {Nil}]

ASSUME StructValuesAssumption ==
    /\ MaxDepth \in Nat \ {0} /\ MaxItems \in Nat
    /\ 0 \in Nums
    /\ Shared \intersect (Lists \union {"local", "arg"}) = {}
    /\ Nil \notin Places /\ New \notin Places \union {Nil}
    /\ NoItem \notin [is : Kinds, of : Slots \union {Nil}, id : Places \union {Nil, New}]
    /\ NoNum \notin Nums
    /\ NoItem \notin [is : Kinds, of : Slots \union {Nil}, num : Nums \union {NoNum}]

VARIABLES cell,  \* the Struct each slot points to, Nil for a slot that is not there
          outer, \* per outer Struct, the inner Struct its field n points to
          inner, \* per inner Struct, its field x
          stack, \* the evaluation stack of each frame
          ref,   \* the managed pointer each frame was passed, or NoItem
          depth,
          leaked \* whether a struct was written while it was also held elsewhere, or
                 \* a slot assigned while an address within it was held

vars == <<cell, outer, inner, stack, ref, depth, leaked>>

Value(is, p) == [is |-> is, of |-> Nil, id |-> p]
Address(is, s, p) == [is |-> is, of |-> s, id |-> p]

Here(s) == s[1] \in {0, depth} /\ cell[s] # Nil
Item(k) == stack[depth][Len(stack[depth]) - k + 1]
Has(k, is) == Len(stack[depth]) >= k /\ Item(k).is = is
Popped(k, items) ==
    [stack EXCEPT ![depth] = SubSeq(@, 1, Len(@) - k) \o items]

-----------------------------------------------------------------------------
(* The heap.                                                               *)

\* What each place holds.
Holding(c, st, r) ==
    [p \in Places |->
        IF p \in Slots THEN (IF c[p] = Nil THEN NoItem ELSE Value("struct", c[p]))
        ELSE IF p \in RefArgs THEN r[p[1]]
        ELSE IF p[3] \in DOMAIN st[p[1]] THEN st[p[1]][p[3]]
        ELSE NoItem]

OuterOf(it) == IF it # NoItem /\ it.is \in {"struct", "&n"} THEN it.id ELSE Nil
InnerOf(ou, it) ==
    IF OuterOf(it) # Nil THEN ou[OuterOf(it)]
    ELSE IF it # NoItem /\ it.is \in {"nested", "&x"} THEN it.id
    ELSE Nil

\* A Struct, outer or inner, gets the name of a place that leads to it.
NameO(h, o) == CHOOSE p \in Places : OuterOf(h[p]) = o
NameI(ou, h, i) == CHOOSE p \in Places : InnerOf(ou, h[p]) = i
Named(ou, h, it) ==
    CASE it.is \in {"struct", "&n"} -> [it EXCEPT !.id = NameO(h, it.id)]
      [] it.is \in {"nested", "&x"} -> [it EXCEPT !.id = NameI(ou, h, it.id)]
      [] OTHER -> it

\* The state after an instruction.  What nothing leads to any more is collected,
\* and a new Struct gets a name.
Becomes(c, ou, inn, st, r) ==
    LET h == Holding(c, st, r)
        owner(p) == OuterOf(h[p]) # Nil /\ NameO(h, OuterOf(h[p])) = p
        within(p) == InnerOf(ou, h[p]) # Nil /\ NameI(ou, h, InnerOf(ou, h[p])) = p
    IN /\ cell' = [s \in Slots |-> IF c[s] = Nil THEN Nil ELSE NameO(h, c[s])]
       /\ outer' = [p \in Places |-> IF owner(p) THEN NameI(ou, h, ou[OuterOf(h[p])]) ELSE Nil]
       /\ inner' = [p \in Places |-> IF within(p) THEN inn[InnerOf(ou, h[p])] ELSE 0]
       /\ stack' = [d \in Frames |-> [k \in DOMAIN st[d] |-> Named(ou, h, st[d][k])]]
       /\ ref' = [d \in Frames |-> IF r[d] = NoItem THEN NoItem ELSE Named(ou, h, r[d])]

Keep(st) == Becomes(cell, outer, inner, st, ref)

\* Allocating an outer Struct with x = v in an inner one: NewStruct and Clone.
NewOuter(o) == [p \in Places \union {New} |-> IF p \in {o, New} THEN New ELSE outer[p]]
NewInner(v) == [p \in Places \union {New} |-> IF p = New THEN v ELSE inner[p]]
Alloc(c, v, st, r) == Becomes(c, NewOuter(New), NewInner(v), st, r)

NumOf(o) == inner[outer[o]]
CloneIntoShallow(s, o, st) ==
    Becomes([cell EXCEPT ![s] = New],
            [p \in Places \union {New} |-> IF p = New THEN outer[o] ELSE outer[p]], inner, st, ref)
CloneInto(s, o, st) == Alloc([cell EXCEPT ![s] = New], NumOf(o), st, ref)

Init ==
    LET present == {<<1, "local">>} \union ({0} \X Shared)
    IN /\ cell = [s \in Slots |-> IF s \in present THEN s ELSE Nil]
       /\ outer = [p \in Places |-> IF p \in present THEN p ELSE Nil]
       /\ inner = [p \in Places |-> 0]
       /\ stack = [d \in Frames |-> <<>>]
       /\ ref = [d \in Frames |-> NoItem]
       /\ depth = 1 /\ leaked = FALSE

-----------------------------------------------------------------------------
(* Instructions that push a pointer: nothing is cloned.                    *)

Push(k, item) == Len(Popped(k, <<item>>)[depth]) <= MaxItems /\ Keep(Popped(k, <<item>>))

\* ldloc, ldarg, ldsfld, ldelem, ldfld of an object, and get_Item of a list.
Load(s) == Here(s) /\ Push(0, Value("struct", cell[s])) /\ UNCHANGED <<depth, leaked>>

\* ldfld n of a struct value, or through a managed pointer.
LoadField ==
    /\ \/ Has(1, "struct") /\ Push(1, Value("nested", outer[Item(1).id]))
       \/ Has(1, "&") /\ Push(1, Value("nested", outer[cell[Item(1).of]]))
    /\ UNCHANGED <<depth, leaked>>

LoadIndirect ==
    /\ \/ Has(1, "&") /\ Push(1, Value("struct", cell[Item(1).of]))
       \/ Has(1, "&n") /\ Push(1, Value("nested", outer[Item(1).id]))
    /\ UNCHANGED <<depth, leaked>>

\* ldloca, ldarga, ldsflda, ldelema, ldflda of an object; a list gives none.
LoadAddr(s) ==
    /\ Here(s) /\ s[2] \notin Lists
    /\ Push(0, Address("&", s, Nil)) /\ UNCHANGED <<depth, leaked>>

LoadFieldAddr ==
    /\ \/ Has(1, "&") /\ Push(1, Address("&n", Item(1).of, cell[Item(1).of]))
       \/ Has(1, "&n") /\ Push(1, Address("&x", Item(1).of, outer[Item(1).id]))
    /\ UNCHANGED <<depth, leaked>>

LoadRefArg == ref[depth] # NoItem /\ Push(0, ref[depth]) /\ UNCHANGED <<depth, leaked>>

Dup == \E is \in Kinds : Has(1, is) /\ Push(0, Item(1)) /\ UNCHANGED <<depth, leaked>>
Pop == \E is \in Kinds : Has(1, is) /\ Keep(Popped(1, <<>>)) /\ UNCHANGED <<depth, leaked>>

\* newobj of a value type: its constructor has set the fields.
NewObj(v) ==
    /\ Len(stack[depth]) < MaxItems
    /\ Alloc(cell, v, Popped(0, <<Value("struct", New)>>), ref)
    /\ UNCHANGED <<depth, leaked>>

-----------------------------------------------------------------------------
(* Instructions that write.                                                *)

All ==
    (UNION {{stack[d][k] : k \in DOMAIN stack[d]} : d \in Frames})
    \union {ref[d] : d \in {e \in Frames : ref[e] # NoItem}}

Leaks(observable) == leaked' = (leaked \/ observable)

\* Another slot, or a value on a stack, is the outer Struct o, or has inner i.
OuterElsewhere(s, o) ==
    (\E t \in Slots \ {s} : cell[t] = o) \/ (\E it \in All : it.is = "struct" /\ it.id = o)
InnerElsewhere(s, i) ==
    \/ \E t \in Slots \ {s} : cell[t] # Nil /\ outer[cell[t]] = i
    \/ \E it \in All : \/ it.is = "struct" /\ outer[it.id] = i
                       \/ it.is = "nested" /\ it.id = i
HeldWithin(s, kinds) == \E it \in All : it.of = s /\ it.is \in kinds

Assigns(s) == Leaks(HeldWithin(s, {"&n", "&x"})) /\ UNCHANGED depth

\* stloc, starg, stsfld, stelem, stfld of an object.
Store(s) ==
    /\ Here(s) /\ s[2] \notin Lists
    /\ Has(1, "struct")
    /\ CloneInto(s, Item(1).id, Popped(1, <<>>))
    /\ Assigns(s)

\* stind, stobj through a pointer to a slot.
StoreIndirect ==
    /\ Has(1, "struct") /\ Len(stack[depth]) > 1 /\ Item(2).is = "&"
    /\ CloneInto(Item(2).of, Item(1).id, Popped(2, <<>>))
    /\ Assigns(Item(2).of)

InitObjInPlace ==
    /\ Has(1, "&")
    /\ Becomes(cell, outer, [inner EXCEPT ![outer[cell[Item(1).of]]] = 0], Popped(1, <<>>), ref)
    /\ Assigns(Item(1).of)
InitObj ==
    /\ Has(1, "&")
    /\ Alloc([cell EXCEPT ![Item(1).of] = New], 0, Popped(1, <<>>), ref)
    /\ Assigns(Item(1).of)

\* stfld n through a pointer to a slot, or stobj through a pointer to the field.
StoreField ==
    /\ Has(1, "nested") /\ Len(stack[depth]) > 1 /\ Item(2).is \in {"&", "&n"}
    /\ LET o == IF Item(2).is = "&" THEN cell[Item(2).of] ELSE Item(2).id
       IN /\ Becomes(cell, NewOuter(o), NewInner(inner[Item(1).id]), Popped(2, <<>>), ref)
          /\ Leaks(OuterElsewhere(Item(2).of, o) \/ HeldWithin(Item(2).of, {"&x"}))
    /\ UNCHANGED depth

\* stfld x through a pointer to the inner struct, stind through one to its field.
StoreNum(v) ==
    /\ Has(1, "&n") \/ Has(1, "&x")
    /\ LET i == IF Item(1).is = "&n" THEN outer[Item(1).id] ELSE Item(1).id
       IN /\ Becomes(cell, outer, [inner EXCEPT ![i] = v], Popped(1, <<>>), ref)
          /\ Leaks(InnerElsewhere(Item(1).of, i))
    /\ UNCHANGED depth

\* List.Add and the indexer's set: the native keeps the pointer it was given.
ListSet(s) ==
    /\ s \in {0} \X Lists /\ Has(1, "struct")
    /\ Becomes([cell EXCEPT ![s] = Item(1).id], outer, inner, Popped(1, <<>>), ref)
    /\ UNCHANGED <<depth, leaked>>

-----------------------------------------------------------------------------
(* Frames.  The locals are cloned from the method's defaults; the arguments *)
(* are the Values that were on the stack.                                   *)

EnterBare(c, r) ==
    /\ depth < MaxDepth
    /\ Becomes(c, outer, inner, Popped(1, <<>>), r)
    /\ depth' = depth + 1 /\ UNCHANGED leaked
Enter(c, r) ==
    /\ depth < MaxDepth
    /\ Alloc([c EXCEPT ![<<depth + 1, "local">>] = New], 0, Popped(1, <<>>), r)
    /\ depth' = depth + 1 /\ UNCHANGED leaked

CallByValue ==
    Has(1, "struct") /\ Enter([cell EXCEPT ![<<depth + 1, "arg">>] = Item(1).id], ref)

\* An instance method of a struct, or a ref parameter.
CallByRef ==
    /\ \E is \in {"&", "&n", "&x"} : Has(1, is)
    /\ Enter(cell, [ref EXCEPT ![depth + 1] = Item(1)])

Leave(result) ==
    /\ depth > 1
    /\ Len(stack[depth - 1]) + Len(result) <= MaxItems
    /\ Becomes([cell EXCEPT ![<<depth, "arg">>] = Nil, ![<<depth, "local">>] = Nil],
               outer, inner,
               [stack EXCEPT ![depth] = <<>>, ![depth - 1] = @ \o result],
               [ref EXCEPT ![depth] = NoItem])
    /\ depth' = depth - 1 /\ UNCHANGED leaked

Return ==
    \/ Leave(<<>>)
    \/ (Has(1, "struct") \/ Has(1, "nested")) /\ Leave(<<Item(1)>>)

Next ==
    \/ \E s \in Slots : Load(s) \/ LoadAddr(s) \/ Store(s) \/ ListSet(s)
    \/ LoadField \/ LoadIndirect \/ LoadFieldAddr \/ LoadRefArg \/ Dup \/ Pop
    \/ \E v \in Nums : NewObj(v) \/ StoreNum(v)
    \/ StoreIndirect \/ InitObj \/ StoreField
    \/ CallByValue \/ CallByRef \/ Return

Spec == Init /\ [][Next]_vars

\* A bound for TLC: a method that has put a struct into a collection calls none.
Bounded == depth = 1 \/ \A l \in Lists : cell[<<0, l>>] = Nil
BoundedSpec == Init /\ [][Next /\ Bounded']_vars

-----------------------------------------------------------------------------
(* Properties.                                                             *)

\* Every pointer leads to a Struct, and the locals of exactly the frames that
\* are active are there, as are the static fields: no slot of a value type is
\* without a Struct (LocalDefaults).
TypeOK ==
    /\ cell \in [Slots -> Places \union {Nil}]
    /\ outer \in [Places -> Places \union {Nil}] /\ inner \in [Places -> Nums]
    /\ stack \in [Frames -> Seq(Items)] /\ ref \in [Frames -> Items \union {NoItem}]
    /\ depth \in Frames /\ leaked \in BOOLEAN
    /\ \A s \in Owned : (cell[s] # Nil) = (s[1] <= depth)

Apart(s, t) ==
    cell[s] # Nil /\ cell[t] # Nil => cell[s] # cell[t] /\ outer[cell[s]] # outer[cell[t]]

\* No two locals, static fields, fields of objects or array elements share a
\* Struct, at either level, whatever the methods load, store, pass and return:
\* mutating one never shows in another (struct.go:8-13).
SlotsAreSeparate == \A s, t \in Owned : s # t => Apart(s, t)

\* Violated: Clone is called "at every point a Value is written into a persistent
\* slot", "Machine.invoke's argument setup" among them (struct.go:41-46), so that what a
\* callee does to its argument the caller's locals do not see: they change only
\* through an address in them.
CallersKeepTheirLocals ==
    [][\A d \in 1..(depth - 1) :
          LET mine == <<d, "local">>
          IN  d <= depth' /\ (NumOf(cell[mine]))' # NumOf(cell[mine])
                 => \E k \in 1..Len(stack[depth]) : k <= 2 /\ Item(k).of = mine]_vars

\* Until a struct leaks, an address taken within a slot leads into the Struct the
\* slot holds.
AddressesFollowTheirSlot ==
    ~leaked => \A it \in All : /\ it.is = "&n" => it.id = cell[it.of]
                              /\ it.is = "&x" => it.id = outer[cell[it.of]]

\* As long as no struct is written while another slot or operand holds it, and
\* no slot is assigned while an address within it is held, sharing is never
\* observed: the interpreter implements the CLI's value semantics (struct.go:8-13).
NumIn(ou, inn, it) == CASE it.is = "struct" -> inn[ou[it.id]]
                        [] it.is = "nested" -> inn[it.id]
                        [] OTHER -> 0
AbsItem(it) ==
    [is |-> it.is, of |-> it.of,
     num |-> IF it.is \in {"struct", "nested"} THEN NumIn(outer, inner, it) ELSE NoNum]
Values == INSTANCE ValueSemantics WITH
    NoSlot <- Nil,
    slot <- [s \in Slots |-> IF cell[s] = Nil THEN NoNum ELSE NumOf(cell[s])],
    stack <- [d \in Frames |-> [k \in DOMAIN stack[d] |-> AbsItem(stack[d][k])]],
    ref <- [d \in Frames |-> IF ref[d] = NoItem THEN NoItem ELSE AbsItem(ref[d])]
ImplementsValues == Values!Init /\ [][leaked' \/ [Values!Next]_(Values!vars)]_vars
=============================================================================
