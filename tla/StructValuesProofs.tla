------------------------- MODULE StructValuesProofs -------------------------
(***************************************************************************)
(* Whatever methods load, store, pass and return, and however many there   *)
(* are, no two locals, static fields, fields of objects or array elements  *)
(* share a Struct; and until a Struct has been written while it was held   *)
(* twice, or a slot assigned while an address within it was held, the      *)
(* pointers cannot be told from copies: StructValues implements            *)
(* ValueSemantics.  The variable leaked says whether that has happened.    *)
(*                                                                         *)
(* Every instruction ends in Becomes, which renames the Structs; the first *)
(* lemmas show that renaming keeps two slots apart that were apart, so     *)
(* that each action is left with what it does to cell and outer before the *)
(* renaming.  For that nothing need be known of the stacks.  The second    *)
(* part is about them: HeapInv says what slots, items and passed addresses *)
(* lead to, renaming changes nothing that ValueSemantics can see           *)
(* (Becoming), and each instruction, before the renaming, does to what is  *)
(* seen what an instruction of ValueSemantics does.                        *)
(***************************************************************************)
EXTENDS StructValues, SequenceTheorems, TLAPS

\* The slots that are cloned into point to a Struct or are not there.
Typed ==
    /\ cell = [s \in Slots |-> cell[s]]
    /\ \A s \in Owned : cell[s] \in Places \union {Nil}
    /\ outer \in [Places -> Places \union {Nil}]

IInv == Typed /\ SlotsAreSeparate

\* What Becomes needs of the heap it renames.
SeparateIn(c, ou) ==
    \A s, t \in Owned :
        s # t /\ c[s] # Nil /\ c[t] # Nil => c[s] # c[t] /\ ou[c[s]] # ou[c[t]]
TypedIn(c) == \A s \in Owned : c[s] \in Places \union {Nil, New}

USE StructValuesAssumption

\* The owned slots are slots, and none of them is in a collection or an argument.
LEMMA OwnedSlots ==
    /\ Owned \subseteq Slots /\ Slots \subseteq Places
    /\ \A s \in Owned : s \notin {0} \X Lists /\ \A d : s # <<d, "arg">>
BY DEF Owned, Slots, Places, Frames

\* A name is a place that leads to what it names.
LEMMA NameOLeads ==
    ASSUME NEW h, NEW p \in Places
    PROVE  /\ NameO(h, OuterOf(h[p])) \in Places
           /\ OuterOf(h[NameO(h, OuterOf(h[p]))]) = OuterOf(h[p])
BY DEF NameO

LEMMA NameILeads ==
    ASSUME NEW h, NEW ou, NEW p \in Places
    PROVE  /\ NameI(ou, h, InnerOf(ou, h[p])) \in Places
           /\ InnerOf(ou, h[NameI(ou, h, InnerOf(ou, h[p]))]) = InnerOf(ou, h[p])
BY DEF NameI

\* An owned slot leads to the Struct it points to, and to the one within.
LEMMA SlotLeads ==
    ASSUME NEW c, NEW ou, NEW st, NEW r, TypedIn(c), NEW s \in Owned, c[s] # Nil
    PROVE  LET h == Holding(c, st, r)
           IN OuterOf(h[s]) = c[s] /\ InnerOf(ou, h[s]) = ou[c[s]]
<1> DEFINE h == Holding(c, st, r)
<1>1. s \in Slots /\ s \in Places
  BY OwnedSlots
<1>2. h[s] = [is |-> "struct", of |-> Nil, id |-> c[s]]
  BY <1>1 DEF Holding, Value
<1>3. c[s] \in Places \union {Nil, New}
  BY DEF TypedIn
<1>4. h[s] \in [is : Kinds, of : Slots \union {Nil}, id : Places \union {Nil, New}]
  BY <1>2, <1>3 DEF Kinds
<1>5. h[s] # NoItem
  BY <1>4
<1>6. OuterOf(h[s]) = c[s]
  BY <1>2, <1>5 DEF OuterOf
<1>7. InnerOf(ou, h[s]) = ou[c[s]]
  BY <1>6 DEF InnerOf
<1> QED BY <1>6, <1>7

-----------------------------------------------------------------------------
(* Renaming keeps slots apart.                                             *)

LEMMA BecomesTyped ==
    ASSUME NEW c, NEW ou, NEW inn, NEW st, NEW r, TypedIn(c), Becomes(c, ou, inn, st, r)
    PROVE  Typed'
<1> DEFINE h == Holding(c, st, r)
<1>1. cell' = [s \in Slots |-> IF c[s] = Nil THEN Nil ELSE NameO(h, c[s])]
  BY DEF Becomes
<1>2. cell' = [s \in Slots |-> cell'[s]]
  BY <1>1
<1>3. ASSUME NEW s \in Owned  PROVE cell'[s] \in Places \union {Nil}
  <2>1. CASE c[s] = Nil
    BY <1>1, <2>1, OwnedSlots
  <2>2. CASE c[s] # Nil
    <3>1. OuterOf(h[s]) = c[s] /\ s \in Places /\ s \in Slots
      BY <2>2, SlotLeads, OwnedSlots
    <3>2. NameO(h, c[s]) \in Places
      BY <3>1, NameOLeads
    <3> QED BY <1>1, <2>2, <3>1, <3>2
  <2> QED BY <2>1, <2>2
<1>4. outer' \in [Places -> Places \union {Nil}]
  <2> DEFINE owner(p) == OuterOf(h[p]) # Nil /\ NameO(h, OuterOf(h[p])) = p
             name(p) == NameI(ou, h, ou[OuterOf(h[p])])
  <2>1. outer' = [p \in Places |-> IF owner(p) THEN name(p) ELSE Nil]
    BY DEF Becomes
  <2>2. ASSUME NEW p \in Places, owner(p)  PROVE name(p) \in Places
    <3>1. InnerOf(ou, h[p]) = ou[OuterOf(h[p])]
      BY <2>2 DEF InnerOf
    <3> QED BY <3>1, NameILeads
  <2> HIDE DEF owner, name
  <2> QED BY <2>1, <2>2
<1> QED BY <1>2, <1>3, <1>4 DEF Typed

LEMMA BecomesSeparate ==
    ASSUME NEW c, NEW ou, NEW inn, NEW st, NEW r, TypedIn(c), SeparateIn(c, ou),
           Becomes(c, ou, inn, st, r)
    PROVE  SlotsAreSeparate'
<1> DEFINE h == Holding(c, st, r)
<1>1. cell' = [s \in Slots |-> IF c[s] = Nil THEN Nil ELSE NameO(h, c[s])]
  BY DEF Becomes
<1>2. ASSUME NEW s \in Owned, c[s] # Nil
      PROVE  /\ cell'[s] \in Places
             /\ OuterOf(h[cell'[s]]) = c[s]
             /\ outer'[cell'[s]] \in Places
             /\ InnerOf(ou, h[outer'[cell'[s]]]) = ou[c[s]]
  <2>1. s \in Slots /\ s \in Places
    BY OwnedSlots
  <2>2. OuterOf(h[s]) = c[s] /\ InnerOf(ou, h[s]) = ou[c[s]]
    BY <1>2, SlotLeads
  <2>3. cell'[s] = NameO(h, c[s])
    BY <1>1, <1>2, <2>1
  <2>4. cell'[s] \in Places /\ OuterOf(h[cell'[s]]) = c[s]
    BY <2>1, <2>2, <2>3, NameOLeads
  <2>5. outer'[cell'[s]] = NameI(ou, h, ou[c[s]])
    <3> DEFINE owner(p) == OuterOf(h[p]) # Nil /\ NameO(h, OuterOf(h[p])) = p
               name(p) == NameI(ou, h, ou[OuterOf(h[p])])
    <3>1. outer' = [p \in Places |-> IF owner(p) THEN name(p) ELSE Nil]
      BY DEF Becomes
    <3>2. owner(cell'[s])
      BY <1>2, <2>3, <2>4
    <3>3. name(cell'[s]) = NameI(ou, h, ou[c[s]])
      BY <2>4
    <3> HIDE DEF owner, name
    <3> QED BY <3>1, <3>2, <3>3, <2>4
  <2>6. outer'[cell'[s]] \in Places /\ InnerOf(ou, h[outer'[cell'[s]]]) = ou[c[s]]
    BY <2>1, <2>2, <2>5, NameILeads
  <2> QED BY <2>4, <2>6
<1>3. SUFFICES ASSUME NEW s \in Owned, NEW t \in Owned, s # t, cell'[s] # Nil, cell'[t] # Nil
               PROVE  cell'[s] # cell'[t] /\ outer'[cell'[s]] # outer'[cell'[t]]
  BY DEF SlotsAreSeparate, Apart
<1>4. c[s] # Nil /\ c[t] # Nil
  BY <1>1, <1>3, OwnedSlots
<1>5. c[s] # c[t] /\ ou[c[s]] # ou[c[t]]
  BY <1>3, <1>4 DEF SeparateIn
<1> QED BY <1>2, <1>4, <1>5

LEMMA BecomesKeeps ==
    ASSUME NEW c, NEW ou, NEW inn, NEW st, NEW r, TypedIn(c), SeparateIn(c, ou),
           Becomes(c, ou, inn, st, r)
    PROVE  IInv'
BY BecomesTyped, BecomesSeparate DEF IInv

-----------------------------------------------------------------------------
(* What the instructions do before the renaming.                           *)

\* Cells beyond the owned ones may change, and owned ones become empty.
LEMMA OthersChange ==
    ASSUME IInv, NEW c, \A s \in Owned : c[s] \in {cell[s], Nil}
    PROVE  TypedIn(c) /\ SeparateIn(c, outer)
<1>1. TypedIn(c)
  BY DEF IInv, Typed, TypedIn
<1>2. SeparateIn(c, outer)
  BY DEF IInv, SlotsAreSeparate, Apart, SeparateIn
<1> QED BY <1>1, <1>2

\* At most one owned slot gets the new Struct.
LEMMA OneIsNew ==
    ASSUME IInv, NEW c, NEW z,
           \A s \in Owned : c[s] = IF s = z THEN New ELSE cell[s]
    PROVE  TypedIn(c) /\ SeparateIn(c, NewOuter(New))
<1>1. TypedIn(c)
  BY DEF IInv, Typed, TypedIn
<1>2. ASSUME NEW s \in Owned, NEW t \in Owned, s # t, c[s] # Nil, c[t] # Nil
      PROVE  c[s] # c[t] /\ NewOuter(New)[c[s]] # NewOuter(New)[c[t]]
  <2>1. ASSUME NEW u \in Owned, u # z, c[u] # Nil
        PROVE  /\ c[u] = cell[u] /\ c[u] \in Places
               /\ NewOuter(New)[c[u]] = outer[cell[u]] /\ outer[cell[u]] # New
    <3>1. c[u] = cell[u] /\ c[u] \in Places /\ c[u] # New
      BY <2>1 DEF IInv, Typed
    <3>2. outer[cell[u]] \in Places \union {Nil}
      BY <3>1 DEF IInv, Typed
    <3> QED BY <3>1, <3>2 DEF NewOuter
  <2>2. NewOuter(New)[New] = New
    BY DEF NewOuter
  <2>3. CASE s # z /\ t # z
    <3>1. cell[s] # cell[t] /\ outer[cell[s]] # outer[cell[t]]
      BY <1>2, <2>1, <2>3 DEF IInv, SlotsAreSeparate, Apart
    <3> QED BY <1>2, <2>1, <2>3, <3>1
  <2>4. CASE s = z
    BY <1>2, <2>1, <2>2, <2>4
  <2>5. CASE t = z
    BY <1>2, <2>1, <2>2, <2>5
  <2> QED BY <2>3, <2>4, <2>5
<1>3. SeparateIn(c, NewOuter(New))
  BY <1>2 DEF SeparateIn
<1> QED BY <1>1, <1>3

\* An outer Struct gets a new inner one.
LEMMA InnerIsNew ==
    ASSUME IInv, NEW o
    PROVE  TypedIn(cell) /\ SeparateIn(cell, NewOuter(o))
<1>1. TypedIn(cell)
  BY DEF IInv, Typed, TypedIn
<1>2. ASSUME NEW s \in Owned, NEW t \in Owned, s # t, cell[s] # Nil, cell[t] # Nil
      PROVE  cell[s] # cell[t] /\ NewOuter(o)[cell[s]] # NewOuter(o)[cell[t]]
  <2>1. cell[s] \in Places /\ cell[t] \in Places
    BY <1>2 DEF IInv, Typed
  <2>2. cell[s] # cell[t] /\ outer[cell[s]] # outer[cell[t]]
    BY <1>2 DEF IInv, SlotsAreSeparate, Apart
  <2>3. outer[cell[s]] # New /\ outer[cell[t]] # New
    BY <2>1 DEF IInv, Typed
  <2> QED BY <2>1, <2>2, <2>3 DEF NewOuter
<1>3. SeparateIn(cell, NewOuter(o))
  BY <1>2 DEF SeparateIn
<1> QED BY <1>1, <1>3

LEMMA KeepKeeps ==
    ASSUME IInv, NEW st, Keep(st)
    PROVE  IInv'
<1>1. TypedIn(cell) /\ SeparateIn(cell, outer)
  BY OthersChange
<1> QED BY <1>1, BecomesKeeps DEF Keep

LEMMA AllocKeeps ==
    ASSUME IInv, NEW c, NEW z, NEW v, NEW st, NEW r, Alloc(c, v, st, r),
           \A s \in Owned : c[s] = IF s = z THEN New ELSE cell[s]
    PROVE  IInv'
<1>1. TypedIn(c) /\ SeparateIn(c, NewOuter(New))
  BY OneIsNew
<1> QED BY <1>1, BecomesKeeps DEF Alloc

\* A slot is cloned into.
LEMMA CloneKeeps ==
    ASSUME IInv, NEW z, NEW v, NEW st, NEW r, Alloc([cell EXCEPT ![z] = New], v, st, r)
    PROVE  IInv'
<1> DEFINE c == [cell EXCEPT ![z] = New]
<1>1. \A s \in Owned : c[s] = IF s = z THEN New ELSE cell[s]
  BY OwnedSlots DEF IInv, Typed
<1>2. Alloc(c, v, st, r)
  OBVIOUS
<1> HIDE DEF c
<1> QED BY <1>1, <1>2, AllocKeeps

-----------------------------------------------------------------------------

LEMMA InitHolds == Init => IInv
<1> SUFFICES ASSUME Init PROVE IInv
  OBVIOUS
<1> DEFINE present == {<<1, "local">>} \union ({0} \X Shared)
<1>1. /\ cell = [s \in Slots |-> IF s \in present THEN s ELSE Nil]
      /\ outer = [p \in Places |-> IF p \in present THEN p ELSE Nil]
  BY DEF Init
<1>2. Typed
  BY <1>1, OwnedSlots DEF Typed
<1>3. ASSUME NEW s \in Owned, cell[s] # Nil  PROVE cell[s] = s /\ outer[cell[s]] = s
  <2>1. s \in Slots /\ s \in Places
    BY OwnedSlots
  <2> HIDE DEF present
  <2>2. s \in present /\ cell[s] = s
    BY <1>1, <1>3, <2>1
  <2> QED BY <1>1, <2>1, <2>2
<1>4. SlotsAreSeparate
  BY <1>3 DEF SlotsAreSeparate, Apart
<1> QED BY <1>2, <1>4 DEF IInv

LEMMA UpdateAt ==
    ASSUME NEW f, NEW z, NEW v, NEW s \in DOMAIN f
    PROVE  [f EXCEPT ![z] = v][s] = IF s = z THEN v ELSE f[s]
OBVIOUS

\* A call: the callee's local is new, its argument is whatever the stack held.
LEMMA EnterKeeps ==
    ASSUME IInv, NEW c, NEW r, Enter(c, r), \A s \in Owned : c[s] = cell[s],
           DOMAIN c = Slots
    PROVE  IInv'
<1> DEFINE z == <<depth + 1, "local">>
           d == [c EXCEPT ![z] = New]
<1>1. ASSUME NEW s \in Owned  PROVE d[s] = IF s = z THEN New ELSE cell[s]
  <2>1. s \in Slots /\ s \in DOMAIN c /\ c[s] = cell[s]
    BY OwnedSlots
  <2> HIDE DEF z
  <2> QED BY <2>1, UpdateAt
<1>2. Alloc(d, 0, Popped(1, <<>>), r)
  BY DEF Enter
<1> HIDE DEF d, z
<1> QED BY <1>1, <1>2, AllocKeeps

LEMMA LeaveKeeps ==
    ASSUME IInv, NEW result, Leave(result)
    PROVE  IInv'
<1> DEFINE c == [cell EXCEPT ![<<depth, "arg">>] = Nil, ![<<depth, "local">>] = Nil]
           st == [stack EXCEPT ![depth] = <<>>, ![depth - 1] = @ \o result]
           r == [ref EXCEPT ![depth] = NoItem]
<1>1. \A s \in Owned : c[s] \in {cell[s], Nil}
  BY OwnedSlots DEF IInv, Typed
<1>2. Becomes(c, outer, inner, st, r)
  BY DEF Leave
<1> HIDE DEF c, st, r
<1>3. TypedIn(c) /\ SeparateIn(c, outer)
  BY <1>1, OthersChange
<1> QED BY <1>2, <1>3, BecomesKeeps

LEMMA NextKeeps == IInv /\ [Next]_vars => IInv'
<1> SUFFICES ASSUME IInv, [Next]_vars PROVE IInv'
  OBVIOUS
<1>1. ASSUME NEW s \in Slots, Load(s) \/ LoadAddr(s)  PROVE IInv'
  BY <1>1, KeepKeeps DEF Load, LoadAddr, Push
<1>2. CASE LoadField \/ LoadIndirect \/ LoadFieldAddr \/ LoadRefArg \/ Dup \/ Pop
  BY <1>2, KeepKeeps
     DEF LoadField, LoadIndirect, LoadFieldAddr, LoadRefArg, Dup, Pop, Push
<1>3. ASSUME NEW s \in Slots, Store(s)  PROVE IInv'
  BY <1>3, CloneKeeps DEF Store, CloneInto
<1>4. CASE StoreIndirect
  BY <1>4, CloneKeeps DEF StoreIndirect, CloneInto
<1>5. CASE InitObj
  BY <1>5, CloneKeeps DEF InitObj
<1>6. ASSUME NEW v \in Nums, NewObj(v)  PROVE IInv'
  <2>1. TypedIn(cell) /\ SeparateIn(cell, NewOuter(New))
    BY InnerIsNew
  <2> QED BY <1>6, <2>1, BecomesKeeps DEF NewObj, Alloc
<1>7. ASSUME NEW v \in Nums, StoreNum(v)  PROVE IInv'
  <2>1. TypedIn(cell) /\ SeparateIn(cell, outer)
    BY OthersChange
  <2> QED BY <1>7, <2>1, BecomesKeeps DEF StoreNum
<1>8. CASE StoreField
  BY <1>8, InnerIsNew, BecomesKeeps DEF StoreField
<1>9. ASSUME NEW s \in Slots, ListSet(s)  PROVE IInv'
  <2> DEFINE c == [cell EXCEPT ![s] = Item(1).id]
  <2>1. \A t \in Owned : c[t] \in {cell[t], Nil}
    BY <1>9, OwnedSlots DEF ListSet, IInv, Typed
  <2>2. Becomes(c, outer, inner, Popped(1, <<>>), ref)
    BY <1>9 DEF ListSet
  <2> HIDE DEF c
  <2> QED BY <2>1, <2>2, OthersChange, BecomesKeeps
<1>10. CASE CallByValue
  <2> DEFINE c == [cell EXCEPT ![<<depth + 1, "arg">>] = Item(1).id]
  <2>1. \A t \in Owned : c[t] = cell[t]
    BY OwnedSlots DEF IInv, Typed
  <2>2. DOMAIN c = Slots
    BY DEF IInv, Typed
  <2>3. Enter(c, ref)
    BY <1>10 DEF CallByValue
  <2> HIDE DEF c
  <2> QED BY <2>1, <2>2, <2>3, EnterKeeps
<1>11. CASE CallByRef
  <2>1. DOMAIN cell = Slots
    BY DEF IInv, Typed
  <2>2. PICK r : Enter(cell, r)
    BY <1>11 DEF CallByRef
  <2> QED BY <2>1, <2>2, EnterKeeps
<1>12. CASE Return
  BY <1>12, LeaveKeeps DEF Return
<1>13. CASE UNCHANGED vars
  BY <1>13 DEF vars, IInv, Typed, SlotsAreSeparate, Apart
<1> QED
  BY <1>1, <1>2, <1>3, <1>4, <1>5, <1>6, <1>7, <1>8, <1>9, <1>10, <1>11, <1>12, <1>13 DEF Next

\* No two locals, static fields, fields of objects or array elements ever share
\* a Struct, at either level (runtime/struct.go:8-13): for any number of frames,
\* shared slots and collections, and any bound on the stacks.
THEOREM SlotsStaySeparate == Spec => []SlotsAreSeparate
<1>1. IInv => SlotsAreSeparate
  BY DEF IInv
<1> QED BY <1>1, InitHolds, NextKeeps, PTL DEF Spec

-----------------------------------------------------------------------------
(* The heap: what the places that are there lead to.                       *)

\* What an item on a stack of frame d, or passed to it, leads to: a pointer to
\* Structs that are there, an address to a slot that is there at least as long.
ItemOK(c, ou, N, d, it) ==
    /\ it \in [is : Kinds, of : Slots \union {Nil}, id : N \union {Nil}]
    /\ it.is \in {"struct", "&n"} => it.id \in N /\ ou[it.id] \in N
    /\ it.is \in {"nested", "&x"} => it.id \in N
    /\ it.is \in {"struct", "nested"} => it.of = Nil
    /\ it.is = "&" => it.id = Nil
    /\ it.is \in {"&", "&n", "&x"} =>
          it.of \in Slots \ ({0} \X Lists) /\ it.of[1] <= d /\ c[it.of] # Nil

\* An address within a slot leads into the Struct that the slot points to.
Follows(c, ou, it) ==
    /\ it.is = "&n" => it.id = c[it.of]
    /\ it.is = "&x" => it.id = ou[c[it.of]]

SlotsOK(c, ou, N) ==
    /\ c = [s \in Slots |-> c[s]]
    /\ \A s \in Slots : c[s] # Nil => c[s] \in N /\ ou[c[s]] \in N

StacksOK(c, ou, st, N) ==
    /\ st = [d \in Frames |-> st[d]]
    /\ \A d \in Frames : /\ st[d] \in Seq([is : Kinds, of : Slots \union {Nil}, id : N \union {Nil}])
                         /\ Len(st[d]) <= MaxItems
                         /\ \A k \in 1..Len(st[d]) : ItemOK(c, ou, N, d, st[d][k])

RefsOK(c, ou, r, N) ==
    /\ r = [d \in Frames |-> r[d]]
    /\ \A d \in Frames : r[d] # NoItem => d \in Callees /\ ItemOK(c, ou, N, d, r[d])

Sound(c, ou, inn, st, r, N) ==
    /\ SlotsOK(c, ou, N) /\ StacksOK(c, ou, st, N) /\ RefsOK(c, ou, r, N)
    /\ \A n \in N : inn[n] \in Nums

Followed(c, ou, st, r) ==
    \A d \in Frames : /\ \A k \in 1..Len(st[d]) : Follows(c, ou, st[d][k])
                      /\ r[d] # NoItem => Follows(c, ou, r[d])

\* What ValueSemantics sees.
SlotView(c, ou, inn) == [s \in Slots |-> IF c[s] = Nil THEN NoNum ELSE inn[ou[c[s]]]]
ItemView(ou, inn, it) ==
    [is |-> it.is, of |-> it.of,
     num |-> IF it.is \in {"struct", "nested"} THEN NumIn(ou, inn, it) ELSE NoNum]
StackView(ou, inn, st) == [d \in Frames |-> [k \in DOMAIN st[d] |-> ItemView(ou, inn, st[d][k])]]
RefView(ou, inn, r) == [d \in Frames |-> IF r[d] = NoItem THEN NoItem ELSE ItemView(ou, inn, r[d])]

\* Names for Structs, with a new one perhaps.
Names(N) == Places \subseteq N /\ N \subseteq Places \union {New}

\* Slots, places on a stack and passed pointers are different places.
LEMMA PlacesDiffer ==
    /\ \A d \in Frames, k \in 1..MaxItems : /\ <<d, "stack", k>> \in Places
                                            /\ <<d, "stack", k>> \notin Slots \union RefArgs
    /\ \A d \in Callees : <<d, "ref">> \in Places /\ <<d, "ref">> \notin Slots
<1>1. ASSUME NEW d \in Frames, NEW k \in 1..MaxItems
      PROVE  /\ <<d, "stack", k>> \in Places
             /\ <<d, "stack", k>> \notin Slots \union RefArgs
  <2>1. <<d, "stack", k>> \in Operands
    BY DEF Operands
  <2>2. \A a, b : <<d, "stack", k>> # <<a, b>>
    <3>1. Len(<<d, "stack", k>>) = 3 /\ \A a, b : Len(<<a, b>>) = 2
      OBVIOUS
    <3> QED BY <3>1
  <2>3. \A s \in Slots \union RefArgs : \E a, b : s = <<a, b>>
    BY DEF Slots, RefArgs
  <2> QED BY <2>1, <2>2, <2>3 DEF Places
<1>2. ASSUME NEW d \in Callees
      PROVE  <<d, "ref">> \in Places /\ <<d, "ref">> \notin Slots
  <2>1. d # 0
    BY DEF Callees
  <2> QED BY <2>1 DEF Places, RefArgs, Slots
<1> QED BY <1>1, <1>2

\* Each slot, item and passed pointer is held in a place of its own.
LEMMA Held ==
    ASSUME NEW c, NEW ou, NEW inn, NEW st, NEW r, NEW N, Sound(c, ou, inn, st, r, N), Names(N)
    PROVE  LET h == Holding(c, st, r)
           IN  /\ \A s \in Slots : s \in Places /\ (c[s] # Nil => h[s] = Value("struct", c[s]))
                                   /\ (c[s] = Nil => h[s] = NoItem)
               /\ \A d \in Frames : \A k \in 1..Len(st[d]) :
                     <<d, "stack", k>> \in Places /\ h[<<d, "stack", k>>] = st[d][k]
               /\ \A d \in Frames : r[d] # NoItem => <<d, "ref">> \in Places /\ h[<<d, "ref">>] = r[d]
<1> DEFINE h == Holding(c, st, r)
<1>1. ASSUME NEW s \in Slots
      PROVE  s \in Places /\ (c[s] # Nil => h[s] = Value("struct", c[s])) /\ (c[s] = Nil => h[s] = NoItem)
  <2>1. s \in Places
    BY DEF Places
  <2> QED BY <2>1 DEF Holding
<1>2. ASSUME NEW d \in Frames, NEW k \in 1..Len(st[d])
      PROVE  <<d, "stack", k>> \in Places /\ h[<<d, "stack", k>>] = st[d][k]
  <2>1. st[d] \in Seq([is : Kinds, of : Slots \union {Nil}, id : N \union {Nil}]) /\ Len(st[d]) <= MaxItems
    BY DEF Sound, StacksOK
  <2>2. k \in 1..MaxItems /\ k \in DOMAIN st[d]
    BY <2>1
  <2> DEFINE p == <<d, "stack", k>>
  <2>3. p \in Places /\ p \notin Slots /\ p \notin RefArgs /\ p[1] = d /\ p[3] = k
    BY <2>2, PlacesDiffer
  <2> HIDE DEF p
  <2>4. h[p] = st[d][k]
    BY <2>2, <2>3 DEF Holding
  <2> QED BY <2>3, <2>4 DEF p
<1>3. ASSUME NEW d \in Frames, r[d] # NoItem
      PROVE  <<d, "ref">> \in Places /\ h[<<d, "ref">>] = r[d]
  <2>1. d \in Callees
    BY <1>3 DEF Sound, RefsOK
  <2> DEFINE p == <<d, "ref">>
  <2>2. p \in Places /\ p \notin Slots /\ p \in RefArgs /\ p[1] = d
    BY <2>1, PlacesDiffer DEF RefArgs
  <2> HIDE DEF p
  <2>3. h[p] = r[d]
    BY <2>2 DEF Holding
  <2> QED BY <2>2, <2>3 DEF p
<1> QED BY <1>1, <1>2, <1>3

\* What a place holds is nothing, or leads to Structs that are there.
LEMMA HeldLeads ==
    ASSUME NEW c, NEW ou, NEW inn, NEW st, NEW r, NEW N, Sound(c, ou, inn, st, r, N), Names(N),
           NEW p \in Places
    PROVE  LET h == Holding(c, st, r)
           IN  /\ OuterOf(h[p]) \in N \union {Nil}
               /\ InnerOf(ou, h[p]) \in N \union {Nil}
               /\ OuterOf(h[p]) # Nil => InnerOf(ou, h[p]) = ou[OuterOf(h[p])] /\ ou[OuterOf(h[p])] \in N
<1> DEFINE h == Holding(c, st, r)
<1>1. \/ h[p] = NoItem
      \/ \E o : h[p] = Value("struct", o) /\ o \in N /\ ou[o] \in N
      \/ \E d \in Frames : ItemOK(c, ou, N, d, h[p])
  <2>1. CASE p \in Slots
    <3>1. h[p] = IF c[p] = Nil THEN NoItem ELSE Value("struct", c[p])
      BY <2>1 DEF Holding
    <3>2. c[p] # Nil => c[p] \in N /\ ou[c[p]] \in N
      BY <2>1 DEF Sound, SlotsOK
    <3> QED BY <3>1, <3>2
  <2>2. CASE p \notin Slots /\ p \in RefArgs
    <3>1. h[p] = r[p[1]] /\ p[1] \in Callees
      BY <2>2 DEF Holding, RefArgs
    <3>2. p[1] \in Frames
      BY <3>1 DEF Callees, Frames
    <3> QED BY <3>1, <3>2 DEF Sound, RefsOK
  <2>3. CASE p \notin Slots /\ p \notin RefArgs
    <3>1. p \in Operands
      BY <2>3 DEF Places
    <3>2. p[1] \in Frames
      BY <3>1 DEF Operands
    <3>3. h[p] = IF p[3] \in DOMAIN st[p[1]] THEN st[p[1]][p[3]] ELSE NoItem
      BY <2>3 DEF Holding
    <3>4. /\ DOMAIN st[p[1]] = 1..Len(st[p[1]])
          /\ \A k \in 1..Len(st[p[1]]) : ItemOK(c, ou, N, p[1], st[p[1]][k])
      BY <3>2, LenProperties DEF Sound, StacksOK
    <3> QED BY <3>2, <3>3, <3>4
  <2> QED BY <2>1, <2>2, <2>3
<1> HIDE DEF h
<1>2. CASE h[p] = NoItem
  BY <1>2 DEF OuterOf, InnerOf, h
<1>3. CASE \E o : h[p] = Value("struct", o) /\ o \in N /\ ou[o] \in N
  <2> PICK o : h[p] = Value("struct", o) /\ o \in N /\ ou[o] \in N
    BY <1>3
  <2>1. o \in Places \union {New}
    BY DEF Names
  <2>2. h[p] \in [is : Kinds, of : Slots \union {Nil}, id : Places \union {Nil, New}] /\ h[p].is = "struct" /\ h[p].id = o
    BY <2>1 DEF Value, Kinds
  <2>3. OuterOf(h[p]) = o
    BY <2>2 DEF OuterOf
  <2>4. o # Nil
    BY <2>1
  <2>5. InnerOf(ou, h[p]) = ou[o]
    BY <2>3, <2>4 DEF InnerOf
  <2> QED BY <2>3, <2>5 DEF h
<1>4. CASE \E d \in Frames : ItemOK(c, ou, N, d, h[p])
  <2> PICK d \in Frames : ItemOK(c, ou, N, d, h[p])
    BY <1>4
  <2>1. Nil \notin N
    BY DEF Names
  <2>2. OuterOf(h[p]) \in N \union {Nil} /\ (OuterOf(h[p]) # Nil => ou[OuterOf(h[p])] \in N)
    BY DEF OuterOf, ItemOK
  <2>3. InnerOf(ou, h[p]) \in N \union {Nil} /\ (OuterOf(h[p]) # Nil => InnerOf(ou, h[p]) = ou[OuterOf(h[p])])
    BY <2>2 DEF InnerOf, ItemOK
  <2> QED BY <2>2, <2>3 DEF h
<1> QED BY <1>1, <1>2, <1>3, <1>4

\* Renaming Structs leaves what is in them.
LEMMA Renames ==
    ASSUME NEW c, NEW ou, NEW inn, NEW st, NEW r, NEW N, Sound(c, ou, inn, st, r, N), Names(N),
           Becomes(c, ou, inn, st, r)
    PROVE  LET h == Holding(c, st, r)
           IN  /\ outer' \in [Places -> Places \union {Nil}] /\ inner' \in [Places -> Nums]
               /\ \A p \in Places :
                     /\ LET o == OuterOf(h[p])
                        IN  o # Nil => /\ NameO(h, o) \in Places /\ NameI(ou, h, ou[o]) \in Places
                                       /\ outer'[NameO(h, o)] = NameI(ou, h, ou[o])
                                       /\ inner'[NameI(ou, h, ou[o])] = inn[ou[o]]
                     /\ LET i == InnerOf(ou, h[p])
                        IN  i # Nil => /\ NameI(ou, h, i) \in Places
                                       /\ inner'[NameI(ou, h, i)] = inn[i]
<1> DEFINE h == Holding(c, st, r)
           owner(p) == OuterOf(h[p]) # Nil /\ NameO(h, OuterOf(h[p])) = p
           within(p) == InnerOf(ou, h[p]) # Nil /\ NameI(ou, h, InnerOf(ou, h[p])) = p
           oname(p) == NameI(ou, h, ou[OuterOf(h[p])])
           inum(p) == inn[InnerOf(ou, h[p])]
<1>1. /\ outer' = [p \in Places |-> IF owner(p) THEN oname(p) ELSE Nil]
      /\ inner' = [p \in Places |-> IF within(p) THEN inum(p) ELSE 0]
  BY DEF Becomes
<1>2. \A p \in Places :
         /\ InnerOf(ou, h[p]) \in N \union {Nil}
         /\ OuterOf(h[p]) # Nil => InnerOf(ou, h[p]) = ou[OuterOf(h[p])] /\ ou[OuterOf(h[p])] \in N
  BY HeldLeads
<1>3. Nil \notin N
  BY DEF Names
<1>4. ASSUME NEW p \in Places, InnerOf(ou, h[p]) # Nil
      PROVE  LET i == InnerOf(ou, h[p])
             IN  NameI(ou, h, i) \in Places /\ inner'[NameI(ou, h, i)] = inn[i] /\ inn[i] \in Nums
  <2> DEFINE i == InnerOf(ou, h[p])
             q == NameI(ou, h, i)
  <2>1. q \in Places /\ InnerOf(ou, h[q]) = i
    BY NameILeads
  <2>2. within(q)
    BY <2>1, <1>4
  <2>3. inum(q) = inn[i]
    BY <2>1
  <2>4. i \in N
    BY <1>2, <1>4
  <2>5. inn[i] \in Nums
    BY <2>4 DEF Sound
  <2> HIDE DEF within, inum, h, q
  <2>6. inner'[q] = inn[i]
    BY <1>1, <2>1, <2>2, <2>3
  <2> QED BY <2>1, <2>5, <2>6 DEF q
<1>5. ASSUME NEW p \in Places, OuterOf(h[p]) # Nil
      PROVE  LET o == OuterOf(h[p])
             IN  /\ NameO(h, o) \in Places /\ NameI(ou, h, ou[o]) \in Places
                 /\ outer'[NameO(h, o)] = NameI(ou, h, ou[o])
                 /\ inner'[NameI(ou, h, ou[o])] = inn[ou[o]]
  <2> DEFINE o == OuterOf(h[p])
             q == NameO(h, o)
  <2>1. q \in Places /\ OuterOf(h[q]) = o
    BY NameOLeads
  <2>2. owner(q)
    BY <2>1, <1>5
  <2>3. oname(q) = NameI(ou, h, ou[o])
    BY <2>1
  <2>4. InnerOf(ou, h[p]) = ou[o] /\ ou[o] # Nil
    BY <1>2, <1>3, <1>5
  <2>5. NameI(ou, h, ou[o]) \in Places /\ inner'[NameI(ou, h, ou[o])] = inn[ou[o]]
    BY <1>4, <2>4
  <2> HIDE DEF owner, oname, h, q
  <2>6. outer'[q] = NameI(ou, h, ou[o])
    BY <1>1, <2>1, <2>2, <2>3
  <2> QED BY <2>1, <2>5, <2>6 DEF q
<1>6. outer' \in [Places -> Places \union {Nil}]
  <2>1. ASSUME NEW p \in Places, owner(p) PROVE oname(p) \in Places
    BY <1>5, <2>1
  <2> HIDE DEF owner, oname
  <2> QED BY <1>1, <2>1
<1>7. inner' \in [Places -> Nums]
  <2>1. ASSUME NEW p \in Places, within(p) PROVE inum(p) \in Nums
    BY <1>4, <2>1
  <2> HIDE DEF within, inum
  <2> QED BY <1>1, <2>1
<1> HIDE DEF owner, within, oname, inum
<1> QED BY <1>4, <1>5, <1>6, <1>7

\* A slot points to what it pointed to, under its new name.
LEMMA SlotRenamed ==
    ASSUME NEW c, NEW ou, NEW inn, NEW st, NEW r, NEW N, Sound(c, ou, inn, st, r, N), Names(N),
           Becomes(c, ou, inn, st, r)
    PROVE  LET h == Holding(c, st, r)
           IN  /\ cell' = [s \in Slots |-> IF c[s] = Nil THEN Nil ELSE NameO(h, c[s])]
               /\ \A s \in Slots : c[s] # Nil =>
                     /\ cell'[s] = NameO(h, c[s]) /\ cell'[s] \in Places
                     /\ outer'[cell'[s]] = NameI(ou, h, ou[c[s]]) /\ outer'[cell'[s]] \in Places
                     /\ inner'[outer'[cell'[s]]] = inn[ou[c[s]]]
<1> DEFINE h == Holding(c, st, r)
<1>1. cell' = [s \in Slots |-> IF c[s] = Nil THEN Nil ELSE NameO(h, c[s])]
  BY DEF Becomes
<1>2. ASSUME NEW s \in Slots, c[s] # Nil
      PROVE  /\ cell'[s] = NameO(h, c[s]) /\ cell'[s] \in Places
             /\ outer'[cell'[s]] = NameI(ou, h, ou[c[s]]) /\ outer'[cell'[s]] \in Places
             /\ inner'[outer'[cell'[s]]] = inn[ou[c[s]]]
  <2>1. s \in Places /\ h[s] = Value("struct", c[s]) /\ c[s] \in N
    BY <1>2, Held DEF Sound, SlotsOK
  <2>2. OuterOf(h[s]) = c[s]
    <3>1. c[s] \in Places \union {New}
      BY <2>1 DEF Names
    <3>2. h[s] \in [is : Kinds, of : Slots \union {Nil}, id : Places \union {Nil, New}] /\ h[s].is = "struct" /\ h[s].id = c[s]
      BY <2>1, <3>1 DEF Value, Kinds
    <3> QED BY <3>2 DEF OuterOf
  <2>3. cell'[s] = NameO(h, c[s])
    BY <1>1, <1>2
  <2>4. LET o == OuterOf(h[s])
        IN  /\ NameO(h, o) \in Places /\ NameI(ou, h, ou[o]) \in Places
            /\ outer'[NameO(h, o)] = NameI(ou, h, ou[o])
            /\ inner'[NameI(ou, h, ou[o])] = inn[ou[o]]
    BY <1>2, <2>1, <2>2, Renames
  <2> HIDE DEF h
  <2> QED BY <2>2, <2>3, <2>4
<1> QED BY <1>1, <1>2

\* An item, with the Struct it leads to under its new name.
LEMMA ItemRenamed ==
    ASSUME NEW c, NEW ou, NEW inn, NEW st, NEW r, NEW N, Sound(c, ou, inn, st, r, N), Names(N),
           Becomes(c, ou, inn, st, r), NEW d \in Frames, NEW p \in Places,
           ItemOK(c, ou, N, d, Holding(c, st, r)[p])
    PROVE  LET h == Holding(c, st, r)
               it == h[p]
               jt == Named(ou, h, it)
           IN  /\ ItemOK(cell', outer', Places, d, jt)
               /\ ItemView(outer', inner', jt) = ItemView(ou, inn, it)
               /\ Follows(c, ou, it) => Follows(cell', outer', jt)
               /\ jt # NoItem /\ it # NoItem
<1> DEFINE h == Holding(c, st, r)
           it == h[p]
           jt == Named(ou, h, it)
<1>1. /\ it \in [is : Kinds, of : Slots \union {Nil}, id : N \union {Nil}]
      /\ it.is \in {"struct", "&n"} => it.id \in N /\ ou[it.id] \in N
      /\ it.is \in {"nested", "&x"} => it.id \in N
      /\ it.is \in {"struct", "nested"} => it.of = Nil
      /\ it.is = "&" => it.id = Nil
      /\ it.is \in {"&", "&n", "&x"} => it.of \in Slots \ ({0} \X Lists) /\ it.of[1] <= d /\ c[it.of] # Nil
  BY DEF ItemOK
<1>2. Nil \notin N /\ it # NoItem
  <2>1. N \subseteq Places \union {New}
    BY DEF Names
  <2>2. it \in [is : Kinds, of : Slots \union {Nil}, id : Places \union {Nil, New}]
    BY <1>1, <2>1
  <2> QED BY <2>1, <2>2
<1>3. it.is \in Kinds
  BY <1>1
<1>4. it.is \in {"struct", "&n"} => OuterOf(it) = it.id /\ InnerOf(ou, it) = ou[it.id]
  <2> HIDE DEF h
  <2> QED BY <1>1, <1>2 DEF OuterOf, InnerOf
<1>5. it.is \in {"nested", "&x"} => InnerOf(ou, it) = it.id
  <2> HIDE DEF h
  <2> QED BY <1>1, <1>2 DEF OuterOf, InnerOf
<1>6. it.is \in {"struct", "&n"} =>
         /\ NameO(h, it.id) \in Places /\ NameI(ou, h, ou[it.id]) \in Places
         /\ outer'[NameO(h, it.id)] = NameI(ou, h, ou[it.id])
         /\ inner'[NameI(ou, h, ou[it.id])] = inn[ou[it.id]]
  <2>1. LET o == OuterOf(h[p])
        IN  o # Nil => /\ NameO(h, o) \in Places /\ NameI(ou, h, ou[o]) \in Places
                       /\ outer'[NameO(h, o)] = NameI(ou, h, ou[o])
                       /\ inner'[NameI(ou, h, ou[o])] = inn[ou[o]]
    BY Renames
  <2> HIDE DEF h
  <2> QED BY <1>1, <1>2, <1>4, <2>1
<1>7. it.is \in {"nested", "&x"} =>
         NameI(ou, h, it.id) \in Places /\ inner'[NameI(ou, h, it.id)] = inn[it.id]
  <2>1. LET i == InnerOf(ou, h[p])
        IN  i # Nil => NameI(ou, h, i) \in Places /\ inner'[NameI(ou, h, i)] = inn[i]
    BY Renames
  <2> HIDE DEF h
  <2> QED BY <1>1, <1>2, <1>5, <2>1
<1>8. it.is \in {"&", "&n", "&x"} =>
         /\ cell'[it.of] = NameO(h, c[it.of]) /\ cell'[it.of] \in Places
         /\ outer'[cell'[it.of]] = NameI(ou, h, ou[c[it.of]])
  <2>1. \A s \in Slots : c[s] # Nil =>
           cell'[s] = NameO(h, c[s]) /\ cell'[s] \in Places /\ outer'[cell'[s]] = NameI(ou, h, ou[c[s]])
    BY SlotRenamed
  <2> HIDE DEF h
  <2> QED BY <1>1, <2>1
<1> HIDE DEF h
<1>9. jt = [is |-> it.is, of |-> it.of,
            id |-> IF it.is \in {"struct", "&n"} THEN NameO(h, it.id)
                   ELSE IF it.is \in {"nested", "&x"} THEN NameI(ou, h, it.id) ELSE it.id]
  <2> HIDE DEF it
  <2>1. it = [is |-> it.is, of |-> it.of, id |-> it.id]
    BY <1>1
  <2>2. \A x : [it EXCEPT !.id = x] = [is |-> it.is, of |-> it.of, id |-> x]
    BY <1>1
  <2> QED BY <2>1, <2>2, <1>3 DEF Named, Kinds
<1>10. jt.is = it.is /\ jt.of = it.of
       /\ jt.id = (IF it.is \in {"struct", "&n"} THEN NameO(h, it.id)
                   ELSE IF it.is \in {"nested", "&x"} THEN NameI(ou, h, it.id) ELSE it.id)
  BY <1>9
<1>11. jt \in [is : Kinds, of : Slots \union {Nil}, id : Places \union {Nil}]
  <2>1. jt.id \in Places \union {Nil}
    BY <1>1, <1>3, <1>6, <1>7, <1>10 DEF Kinds
  <2> HIDE DEF it
  <2> QED BY <1>1, <1>9, <1>10, <2>1
<1> HIDE DEF it, jt
<1>12. jt # NoItem
  BY <1>11
<1>13. ItemOK(cell', outer', Places, d, jt)
  <2>0. Nil \notin Places
    OBVIOUS
  <2>1. jt.is \in {"struct", "&n"} => jt.id \in Places /\ outer'[jt.id] \in Places
    BY <1>6, <1>10
  <2>2. jt.is \in {"nested", "&x"} => jt.id \in Places
    BY <1>7, <1>10
  <2>3. jt.is \in {"struct", "nested"} => jt.of = Nil
    BY <1>1, <1>10
  <2>4. jt.is \in {"&", "&n", "&x"} => jt.of \in Slots \ ({0} \X Lists) /\ jt.of[1] <= d /\ cell'[jt.of] # Nil
    BY <1>1, <1>8, <1>10, <2>0
  <2>5. jt.is = "&" => jt.id = Nil
    BY <1>1, <1>10
  <2> QED BY <1>11, <2>1, <2>2, <2>3, <2>4, <2>5 DEF ItemOK
<1>14. ItemView(outer', inner', jt) = ItemView(ou, inn, it)
  <2>1. it.is = "struct" => NumIn(outer', inner', jt) = NumIn(ou, inn, it)
    BY <1>6, <1>10 DEF NumIn
  <2>2. it.is = "nested" => NumIn(outer', inner', jt) = NumIn(ou, inn, it)
    BY <1>7, <1>10 DEF NumIn
  <2> QED BY <1>10, <2>1, <2>2 DEF ItemView
<1>15. Follows(c, ou, it) => Follows(cell', outer', jt)
  BY <1>8, <1>10 DEF Follows
<1> QED BY <1>2, <1>12, <1>13, <1>14, <1>15 DEF it, jt, h

-----------------------------------------------------------------------------
(* Renaming changes nothing that can be observed.                          *)

\* Renaming changes nothing that can be observed: the slots that are there, the
\* lengths of the stacks, the numbers everything stands for, and what addresses
\* lead into.
LEMMA Becoming ==
    ASSUME NEW c, NEW ou, NEW inn, NEW st, NEW r, NEW N, Sound(c, ou, inn, st, r, N), Names(N),
           Becomes(c, ou, inn, st, r)
    PROVE  /\ Sound(cell', outer', inner', stack', ref', Places)
           /\ outer' \in [Places -> Places \union {Nil}] /\ inner' \in [Places -> Nums]
           /\ \A s \in Slots : cell'[s] = Nil <=> c[s] = Nil
           /\ \A d \in Frames : /\ stack'[d] = <<>> <=> st[d] = <<>>
                                /\ ref'[d] = NoItem <=> r[d] = NoItem
           /\ SlotView(cell', outer', inner') = SlotView(c, ou, inn)
           /\ StackView(outer', inner', stack') = StackView(ou, inn, st)
           /\ RefView(outer', inner', ref') = RefView(ou, inn, r)
           /\ Followed(c, ou, st, r) => Followed(cell', outer', stack', ref')
<1> DEFINE h == Holding(c, st, r)
<1>1. outer' \in [Places -> Places \union {Nil}] /\ inner' \in [Places -> Nums]
  BY Renames
<1>2. /\ cell' = [s \in Slots |-> cell'[s]]
      /\ \A s \in Slots : (cell'[s] = Nil <=> c[s] = Nil)
      /\ \A s \in Slots : c[s] # Nil => /\ cell'[s] \in Places /\ outer'[cell'[s]] \in Places
                                        /\ inner'[outer'[cell'[s]]] = inn[ou[c[s]]]
  <2>1. /\ cell' = [s \in Slots |-> IF c[s] = Nil THEN Nil ELSE NameO(h, c[s])]
        /\ \A s \in Slots : c[s] # Nil => /\ cell'[s] = NameO(h, c[s]) /\ cell'[s] \in Places
                                          /\ outer'[cell'[s]] \in Places
                                          /\ inner'[outer'[cell'[s]]] = inn[ou[c[s]]]
    BY SlotRenamed
  <2> HIDE DEF h
  <2>2. Nil \notin Places
    OBVIOUS
  <2> QED BY <2>1, <2>2
<1>3. \A d \in Frames : /\ st[d] \in Seq([is : Kinds, of : Slots \union {Nil}, id : N \union {Nil}])
                        /\ Len(st[d]) \in Nat /\ DOMAIN st[d] = 1..Len(st[d]) /\ Len(st[d]) <= MaxItems
  BY LenProperties DEF Sound, StacksOK
<1>4. ASSUME NEW d \in Frames, NEW k \in 1..Len(st[d])
      PROVE  LET jt == Named(ou, h, st[d][k])
             IN  /\ ItemOK(cell', outer', Places, d, jt)
                 /\ ItemView(outer', inner', jt) = ItemView(ou, inn, st[d][k])
                 /\ Follows(c, ou, st[d][k]) => Follows(cell', outer', jt)
  <2>1. <<d, "stack", k>> \in Places /\ h[<<d, "stack", k>>] = st[d][k]
    BY Held
  <2>2. ItemOK(c, ou, N, d, h[<<d, "stack", k>>])
    BY <2>1 DEF Sound, StacksOK
  <2> DEFINE p == <<d, "stack", k>>
  <2>3. LET jt == Named(ou, h, h[p])
        IN  /\ ItemOK(cell', outer', Places, d, jt)
            /\ ItemView(outer', inner', jt) = ItemView(ou, inn, h[p])
            /\ Follows(c, ou, h[p]) => Follows(cell', outer', jt)
    <3>1. p \in Places /\ ItemOK(c, ou, N, d, h[p])
      BY <2>1, <2>2
    <3> HIDE DEF p
    <3> QED BY <3>1, ItemRenamed
  <2> HIDE DEF h, p
  <2>4. h[p] = st[d][k]
    BY <2>1 DEF p
  <2> QED BY <2>3, <2>4
<1>5. ASSUME NEW d \in Frames, r[d] # NoItem
      PROVE  LET jt == Named(ou, h, r[d])
             IN  /\ ItemOK(cell', outer', Places, d, jt) /\ jt # NoItem /\ d \in Callees
                 /\ ItemView(outer', inner', jt) = ItemView(ou, inn, r[d])
                 /\ Follows(c, ou, r[d]) => Follows(cell', outer', jt)
  <2>1. <<d, "ref">> \in Places /\ h[<<d, "ref">>] = r[d]
    BY <1>5, Held
  <2>2. d \in Callees /\ ItemOK(c, ou, N, d, h[<<d, "ref">>])
    BY <1>5, <2>1 DEF Sound, RefsOK
  <2> DEFINE p == <<d, "ref">>
  <2>3. LET jt == Named(ou, h, h[p])
        IN  /\ ItemOK(cell', outer', Places, d, jt) /\ jt # NoItem
            /\ ItemView(outer', inner', jt) = ItemView(ou, inn, h[p])
            /\ Follows(c, ou, h[p]) => Follows(cell', outer', jt)
    <3>1. p \in Places /\ ItemOK(c, ou, N, d, h[p])
      BY <2>1, <2>2
    <3> HIDE DEF p
    <3> QED BY <3>1, ItemRenamed
  <2> HIDE DEF h, p
  <2>4. h[p] = r[d]
    BY <2>1 DEF p
  <2> QED BY <2>2, <2>3, <2>4
<1>6. /\ stack' = [d \in Frames |-> [k \in DOMAIN st[d] |-> Named(ou, h, st[d][k])]]
      /\ ref' = [d \in Frames |-> IF r[d] = NoItem THEN NoItem ELSE Named(ou, h, r[d])]
  BY DEF Becomes
<1> HIDE DEF h
<1>7. stack' = [d \in Frames |-> stack'[d]] /\ ref' = [d \in Frames |-> ref'[d]]
  BY <1>6
<1>8. ASSUME NEW d \in Frames
      PROVE  /\ stack'[d] = [k \in 1..Len(st[d]) |-> Named(ou, h, st[d][k])]
             /\ stack'[d] \in Seq([is : Kinds, of : Slots \union {Nil}, id : Places \union {Nil}])
             /\ Len(stack'[d]) = Len(st[d]) /\ DOMAIN stack'[d] = 1..Len(st[d])
             /\ \A k \in 1..Len(st[d]) : stack'[d][k] = Named(ou, h, st[d][k])
  <2>1. stack'[d] = [k \in 1..Len(st[d]) |-> Named(ou, h, st[d][k])]
    BY <1>3, <1>6
  <2>2. \A k \in 1..Len(st[d]) :
           Named(ou, h, st[d][k]) \in [is : Kinds, of : Slots \union {Nil}, id : Places \union {Nil}]
    BY <1>4 DEF ItemOK
  <2>3. Len(st[d]) \in Nat
    BY <1>3
  <2> QED BY <2>1, <2>2, <2>3
<1>9. \A d \in Frames : /\ stack'[d] = <<>> <=> st[d] = <<>>
                        /\ ref'[d] = NoItem <=> r[d] = NoItem
  <2> TAKE d \in Frames
  <2>1. Len(stack'[d]) = 0 <=> Len(st[d]) = 0
    BY <1>8
  <2>2. stack'[d] = <<>> <=> Len(stack'[d]) = 0
    BY <1>8, EmptySeq
  <2>3. st[d] = <<>> <=> Len(st[d]) = 0
    BY <1>3, EmptySeq
  <2>4. ref'[d] = NoItem <=> r[d] = NoItem
    BY <1>5, <1>6
  <2> QED BY <2>1, <2>2, <2>3, <2>4
<1>10. Sound(cell', outer', inner', stack', ref', Places)
  <2>1. SlotsOK(cell', outer', Places)
    BY <1>2 DEF SlotsOK
  <2>2. StacksOK(cell', outer', stack', Places)
    <3>1. \A d \in Frames : /\ Len(stack'[d]) <= MaxItems
                            /\ \A k \in 1..Len(stack'[d]) : ItemOK(cell', outer', Places, d, stack'[d][k])
      <4> TAKE d \in Frames
      <4>1. Len(stack'[d]) = Len(st[d]) /\ Len(st[d]) <= MaxItems
        BY <1>3, <1>8
      <4>2. \A k \in 1..Len(st[d]) : ItemOK(cell', outer', Places, d, Named(ou, h, st[d][k]))
        BY <1>4
      <4>3. \A k \in 1..Len(st[d]) : stack'[d][k] = Named(ou, h, st[d][k])
        BY <1>8
      <4> QED BY <4>1, <4>2, <4>3
    <3> QED BY <1>7, <1>8, <3>1 DEF StacksOK
  <2>3. RefsOK(cell', outer', ref', Places)
    <3>1. \A d \in Frames : ref'[d] # NoItem => r[d] # NoItem /\ ref'[d] = Named(ou, h, r[d])
      BY <1>6, <1>9
    <3>2. \A d \in Frames : ref'[d] # NoItem => d \in Callees /\ ItemOK(cell', outer', Places, d, ref'[d])
      BY <1>5, <3>1
    <3> QED BY <1>7, <3>2 DEF RefsOK
  <2>4. \A n \in Places : inner'[n] \in Nums
    BY <1>1
  <2> QED BY <2>1, <2>2, <2>3, <2>4 DEF Sound
<1>11. SlotView(cell', outer', inner') = SlotView(c, ou, inn)
  BY <1>2 DEF SlotView
<1>12. StackView(outer', inner', stack') = StackView(ou, inn, st)
  <2>1. \A d \in Frames : [k \in DOMAIN stack'[d] |-> ItemView(outer', inner', stack'[d][k])]
                            = [k \in DOMAIN st[d] |-> ItemView(ou, inn, st[d][k])]
    <3> TAKE d \in Frames
    <3>1. \A k \in 1..Len(st[d]) : ItemView(outer', inner', stack'[d][k]) = ItemView(ou, inn, st[d][k])
      BY <1>4, <1>8
    <3>2. DOMAIN stack'[d] = 1..Len(st[d]) /\ DOMAIN st[d] = 1..Len(st[d])
      BY <1>3, <1>8
    <3> QED BY <3>1, <3>2
  <2> QED BY <2>1 DEF StackView
<1>13. RefView(outer', inner', ref') = RefView(ou, inn, r)
  <2>1. \A d \in Frames : r[d] # NoItem => ItemView(outer', inner', ref'[d]) = ItemView(ou, inn, r[d])
    BY <1>5, <1>6
  <2> QED BY <1>9, <2>1 DEF RefView
<1>14. Followed(c, ou, st, r) => Followed(cell', outer', stack', ref')
  <2> SUFFICES ASSUME Followed(c, ou, st, r) PROVE Followed(cell', outer', stack', ref')
    OBVIOUS
  <2>1. \A d \in Frames : \A k \in 1..Len(stack'[d]) : Follows(cell', outer', stack'[d][k])
    <3>1. \A d \in Frames : \A k \in 1..Len(st[d]) : Follows(c, ou, st[d][k])
      BY DEF Followed
    <3>2. ASSUME NEW d \in Frames, NEW k \in 1..Len(stack'[d])
          PROVE  Follows(cell', outer', stack'[d][k])
      <4>1. k \in 1..Len(st[d]) /\ stack'[d][k] = Named(ou, h, st[d][k])
        BY <1>8
      <4> QED BY <1>4, <3>1, <4>1
    <3> QED BY <3>2
  <2>2. \A d \in Frames : ref'[d] # NoItem => Follows(cell', outer', ref'[d])
    <3> TAKE d \in Frames
    <3> HAVE ref'[d] # NoItem
    <3>1. r[d] # NoItem
      BY <1>9
    <3>2. ref'[d] = Named(ou, h, r[d])
      BY <1>6, <3>1
    <3>3. Follows(c, ou, r[d])
      BY <3>1 DEF Followed
    <3> QED BY <1>5, <3>1, <3>2, <3>3
  <2> QED BY <2>1, <2>2 DEF Followed
<1> QED
  BY <1>1, <1>2, <1>9, <1>10, <1>11, <1>12, <1>13, <1>14

-----------------------------------------------------------------------------
(* The inductive invariant, and what an instruction does to it.            *)

HIDE StructValuesAssumption

\* What the invariant says of frames: those above the running one are empty, and
\* the slots that are there are those of the others, all of them but arguments.
FramesOK(c, st, r, top) ==
    /\ top \in Frames
    /\ \A d \in Frames : d > top => st[d] = <<>> /\ r[d] = NoItem
    /\ \A s \in Slots : c[s] # Nil => s[1] <= top
    /\ \A s \in Owned : s[1] <= top => c[s] # Nil

\* The inductive invariant of the heap and the frames.
HeapInv ==
    /\ Sound(cell, outer, inner, stack, ref, Places)
    /\ FramesOK(cell, stack, ref, depth)
    /\ outer \in [Places -> Places \union {Nil}] /\ inner \in [Places -> Nums]

\* An item goes on leading somewhere in a heap that has lost no slot of its frame.
LEMMA ItemStays ==
    ASSUME NEW c, NEW ou, NEW N, NEW d, NEW it, ItemOK(cell, outer, Places, d, it), Names(N),
           NEW e, d <= e, d \in Nat, e \in Nat, \A s \in Slots : s[1] \in Nat,
           \A s \in Slots : s[1] <= d /\ cell[s] # Nil => c[s] # Nil,
           \A p \in Places : outer[p] \in Places => ou[p] \in N
    PROVE  ItemOK(c, ou, N, e, it) /\ ItemOK(c, ou, N, d, it)
<1>1. /\ it \in [is : Kinds, of : Slots \union {Nil}, id : Places \union {Nil}]
      /\ it.is \in {"struct", "&n"} => it.id \in Places /\ outer[it.id] \in Places
      /\ it.is \in {"nested", "&x"} => it.id \in Places
      /\ it.is \in {"struct", "nested"} => it.of = Nil
      /\ it.is = "&" => it.id = Nil
      /\ it.is \in {"&", "&n", "&x"} => it.of \in Slots \ ({0} \X Lists) /\ it.of[1] <= d /\ cell[it.of] # Nil
  BY DEF ItemOK
<1>2. Places \subseteq N
  BY DEF Names
<1>3. it \in [is : Kinds, of : Slots \union {Nil}, id : N \union {Nil}]
  BY <1>1, <1>2
<1>4. it.is \in {"&", "&n", "&x"} => it.of[1] <= d /\ it.of[1] <= e /\ c[it.of] # Nil
  BY <1>1
<1> QED BY <1>1, <1>2, <1>3, <1>4 DEF ItemOK

\* A piece of a sequence, between two places of it.
LEMMA PieceFacts ==
    ASSUME NEW S, NEW s \in Seq(S), NEW lo \in Nat, NEW hi \in Nat, lo <= hi, hi <= Len(s)
    PROVE  /\ SubSeq(s, lo + 1, hi) \in Seq(S) /\ Len(SubSeq(s, lo + 1, hi)) = hi - lo
           /\ \A i \in 1..(hi - lo) : SubSeq(s, lo + 1, hi)[i] = s[lo + i]
<1> DEFINE fr == lo + 1
<1>1. fr \in Int /\ hi \in Int /\ \A i \in fr..hi : s[i] \in S
  OBVIOUS
<1>2. /\ hi - fr + 1 = hi - lo /\ (fr <= hi \/ hi - lo = 0)
      /\ \A i \in 1..(hi - lo) : fr + i - 1 = lo + i
  OBVIOUS
<1> HIDE DEF fr
<1>3. /\ SubSeq(s, fr, hi) \in Seq(S)
      /\ Len(SubSeq(s, fr, hi)) = IF fr <= hi THEN hi - fr + 1 ELSE 0
      /\ \A i \in 1..(hi - fr + 1) : SubSeq(s, fr, hi)[i] = s[fr + i - 1]
  BY <1>1, SubSeqProperties
<1>4. /\ SubSeq(s, fr, hi) \in Seq(S) /\ Len(SubSeq(s, fr, hi)) = hi - lo
      /\ \A i \in 1..(hi - lo) : SubSeq(s, fr, hi)[i] = s[lo + i]
  BY <1>2, <1>3
<1> QED BY <1>4 DEF fr

\* Frames are numbered from 1, the method that is called first.
LEMMA FrameNumbers ==
    /\ \A s \in Slots : s[1] \in 0..MaxDepth
    /\ Frames \subseteq Nat \ {0} /\ Callees \subseteq Frames /\ 1 \in Frames /\ 1 \notin Callees
    /\ \A d \in Frames : d # 1 => d \in Callees
BY StructValuesAssumption DEF Slots, Frames, Callees

\* The stack of the running frame, when some items are taken from it and others put on it.
LEMMA PoppedIs ==
    ASSUME HeapInv, NEW k \in 0..Len(stack[depth]), NEW T, NEW items \in Seq(T)
    PROVE  LET st == Popped(k, items)
               n == Len(stack[depth]) - k
           IN  /\ st = [d \in Frames |-> st[d]]
               /\ \A d \in Frames : d # depth => st[d] = stack[d]
               /\ st[depth] = SubSeq(stack[depth], 1, n) \o items
               /\ Len(st[depth]) = n + Len(items) /\ DOMAIN st[depth] = 1..(n + Len(items))
               /\ \A j \in 1..n : st[depth][j] = stack[depth][j]
               /\ \A j \in 1..Len(items) : st[depth][n + j] = items[j]
<1> DEFINE st == Popped(k, items)
           n == Len(stack[depth]) - k
           s == stack[depth]
           a == SubSeq(s, 1, n)
           S == [is : Kinds, of : Slots \union {Nil}, id : Places \union {Nil}]
<1>1. depth \in Frames /\ stack = [d \in Frames |-> stack[d]] /\ s \in Seq(S)
  BY DEF HeapInv, FramesOK, Sound, StacksOK
<1>2. st = [stack EXCEPT ![depth] = a \o items]
  BY DEF Popped
<1>3. n \in 0..Len(s) /\ Len(s) \in Nat
  BY <1>1, LenProperties
<1>4. a \in Seq(S) /\ Len(a) = n /\ \A j \in 1..n : a[j] = s[j]
  <2>1. 0 \in Nat /\ 0 <= n /\ n \in Nat /\ n <= Len(s) /\ 0 + 1 = 1 /\ n - 0 = n /\ \A j \in 1..n : 0 + j = j
    BY <1>3
  <2> HIDE DEF n, s, S
  <2>2. /\ SubSeq(s, 0 + 1, n) \in Seq(S) /\ Len(SubSeq(s, 0 + 1, n)) = n - 0
        /\ \A j \in 1..(n - 0) : SubSeq(s, 0 + 1, n)[j] = s[0 + j]
    BY <2>1, <1>1, PieceFacts
  <2> QED BY <2>1, <2>2
<1>5. Len(items) \in Nat
  BY LenProperties
<1> HIDE DEF st, n, a, s, S
<1>6. a \in Seq(S \union T) /\ items \in Seq(S \union T)
  BY <1>4, SeqMonotonic
<1>7. /\ Len(a \o items) = n + Len(items) /\ DOMAIN (a \o items) = 1..(n + Len(items))
      /\ \A j \in 1..(n + Len(items)) : (a \o items)[j] = IF j <= n THEN a[j] ELSE items[j - n]
  <2>1. /\ a \o items \in Seq(S \union T)
        /\ Len(a \o items) = Len(a) + Len(items)
        /\ \A j \in 1..(Len(a) + Len(items)) : (a \o items)[j] = IF j <= Len(a) THEN a[j] ELSE items[j - Len(a)]
    BY <1>6, ConcatProperties
  <2> QED BY <2>1, <1>4, LenProperties
<1>8. st[depth] = a \o items /\ st = [d \in Frames |-> st[d]] /\ \A d \in Frames : d # depth => st[d] = stack[d]
  BY <1>1, <1>2 DEF s
<1>9. \A j \in 1..n : (a \o items)[j] = s[j]
  BY <1>3, <1>4, <1>5, <1>7
<1>10. \A j \in 1..Len(items) : (a \o items)[n + j] = items[j]
  <2> TAKE j \in 1..Len(items)
  <2>1. n + j \in 1..(n + Len(items)) /\ ~(n + j <= n) /\ (n + j) - n = j
    BY <1>3, <1>5
  <2> QED BY <2>1, <1>7
<1> QED BY <1>7, <1>8, <1>9, <1>10 DEF st, n, s, a

\* What the running frame's stack loses and gains.
Gains(c, ou, N, k, items) ==
    /\ k \in 0..Len(stack[depth])
    /\ items \in Seq([is : Kinds, of : Slots \union {Nil}, id : N \union {Nil}])
    /\ Len(stack[depth]) - k + Len(items) <= MaxItems
    /\ \A j \in 1..Len(items) : ItemOK(c, ou, N, depth, items[j])

\* A heap that has lost no slot and no Struct.
Grown(c, ou, N) ==
    /\ \A s \in Slots : cell[s] # Nil => c[s] # Nil
    /\ \A p \in Places : outer[p] \in Places => ou[p] \in N

\* The stacks go on leading somewhere in a heap that has lost nothing.
LEMMA StacksStay ==
    ASSUME HeapInv, NEW c, NEW ou, NEW N, NEW k, NEW items, Names(N), Grown(c, ou, N),
           Gains(c, ou, N, k, items)
    PROVE  StacksOK(c, ou, Popped(k, items), N)
<1> DEFINE S == [is : Kinds, of : Slots \union {Nil}, id : N \union {Nil}]
<1>0. k \in 0..Len(stack[depth]) /\ items \in Seq(S)
  BY DEF Gains
<1> HIDE DEF S
<1> DEFINE st == Popped(k, items)
           n == Len(stack[depth]) - k
<1>1. /\ st = [d \in Frames |-> st[d]]
      /\ \A d \in Frames : d # depth => st[d] = stack[d]
      /\ st[depth] = SubSeq(stack[depth], 1, n) \o items
      /\ Len(st[depth]) = n + Len(items) /\ DOMAIN st[depth] = 1..(n + Len(items))
      /\ \A j \in 1..n : st[depth][j] = stack[depth][j]
      /\ \A j \in 1..Len(items) : st[depth][n + j] = items[j]
  BY <1>0, PoppedIs
<1> USE DEF S
<1>2. /\ depth \in Frames
      /\ \A d \in Frames : /\ stack[d] \in Seq([is : Kinds, of : Slots \union {Nil}, id : Places \union {Nil}])
                           /\ Len(stack[d]) \in Nat /\ Len(stack[d]) <= MaxItems
                           /\ \A j \in 1..Len(stack[d]) : ItemOK(cell, outer, Places, d, stack[d][j])
  BY LenProperties DEF HeapInv, FramesOK, Sound, StacksOK
<1>3. \A d \in Frames : \A j \in 1..Len(stack[d]) : ItemOK(c, ou, N, d, stack[d][j])
  <2> TAKE d \in Frames
  <2> TAKE j \in 1..Len(stack[d])
  <2>1. ItemOK(cell, outer, Places, d, stack[d][j])
    BY <1>2
  <2>2. d \in Nat /\ d <= d /\ \A s \in Slots : s[1] \in Nat
    BY FrameNumbers
  <2>3. /\ \A s \in Slots : s[1] <= d /\ cell[s] # Nil => c[s] # Nil
        /\ \A p \in Places : outer[p] \in Places => ou[p] \in N
    BY DEF Grown
  <2> QED BY <2>1, <2>2, <2>3, ItemStays
<1> HIDE DEF st
<1>4. n \in 0..Len(stack[depth]) /\ Len(items) \in Nat
  BY <1>2, LenProperties DEF Gains
<1>5. \A j \in 1..(n + Len(items)) : ItemOK(c, ou, N, depth, st[depth][j])
  <2> TAKE j \in 1..(n + Len(items))
  <2>1. CASE j <= n
    <3>1. j \in 1..n /\ j \in 1..Len(stack[depth])
      BY <1>2, <1>4, <2>1
    <3> QED BY <3>1, <1>1, <1>2, <1>3
  <2>2. CASE ~(j <= n)
    <3>1. j - n \in 1..Len(items) /\ n + (j - n) = j
      BY <1>4, <2>2
    <3>2. st[depth][n + (j - n)] = items[j - n] /\ ItemOK(c, ou, N, depth, items[j - n])
      BY <3>1, <1>1 DEF Gains
    <3> QED BY <3>1, <3>2
  <2> QED BY <2>1, <2>2
<1>6. \A d \in Frames : \A j \in 1..Len(st[d]) : ItemOK(c, ou, N, d, st[d][j])
  <2> TAKE d \in Frames
  <2>1. CASE d = depth
    BY <2>1, <1>1, <1>5
  <2>2. CASE d # depth
    BY <2>2, <1>1, <1>3
  <2> QED BY <2>1, <2>2
<1>7. \A d \in Frames : st[d] \in Seq(S) /\ Len(st[d]) <= MaxItems
  <2> TAKE d \in Frames
  <2>1. Places \subseteq N
    BY DEF Names
  <2>2. stack[d] \in Seq(S)
    BY <2>1, <1>2, SeqMonotonic
  <2>3. CASE d = depth
    <3>1. SubSeq(stack[depth], 1, n) \in Seq(S)
      <4>1. \A j \in 1..n : stack[depth][j] \in S
        BY <1>2, <1>3, <1>4 DEF ItemOK
      <4>2. n \in Int /\ 1 \in Int
        BY <1>4
      <4> HIDE DEF n, S
      <4> QED BY <4>1, <4>2, SubSeqProperties
    <3>2. items \in Seq(S)
      BY DEF Gains
    <3>3. SubSeq(stack[depth], 1, n) \o items \in Seq(S)
      BY <3>1, <3>2, ConcatProperties
    <3> QED BY <2>3, <3>3, <1>1 DEF Gains
  <2>4. CASE d # depth
    BY <2>2, <2>4, <1>1, <1>2
  <2> QED BY <2>3, <2>4
<1> QED BY <1>1, <1>6, <1>7 DEF StacksOK, st

\* An instruction that takes k items and puts others on the stack, and does to
\* the heap what loses nothing of it: the invariant stays, and what can be
\* observed is what was so before the Structs were given their names.
LEMMA Doing ==
    ASSUME HeapInv, NEW c, NEW ou, NEW inn, NEW r, NEW N, NEW k, NEW items, Names(N), Grown(c, ou, N),
           Becomes(c, ou, inn, Popped(k, items), r), Gains(c, ou, N, k, items),
           SlotsOK(c, ou, N), \A n \in N : inn[n] \in Nums, RefsOK(c, ou, r, N),
           depth' \in Frames, depth' >= depth, \A d \in Frames : d > depth' => r[d] = NoItem,
           \A s \in Slots : c[s] # Nil => s[1] <= depth',
           \A s \in Owned : s[1] <= depth' => c[s] # Nil
    PROVE  /\ HeapInv'
           /\ SlotView(cell', outer', inner') = SlotView(c, ou, inn)
           /\ StackView(outer', inner', stack') = StackView(ou, inn, Popped(k, items))
           /\ RefView(outer', inner', ref') = RefView(ou, inn, r)
           /\ Followed(c, ou, Popped(k, items), r) => Followed(cell', outer', stack', ref')
<1> DEFINE st == Popped(k, items)
<1>1. Sound(c, ou, inn, st, r, N)
  BY StacksStay DEF Sound
<1>2. \A d \in Frames : d > depth' => st[d] = <<>> /\ r[d] = NoItem
  <2>1. k \in 0..Len(stack[depth]) /\ items \in Seq([is : Kinds, of : Slots \union {Nil}, id : N \union {Nil}])
    BY DEF Gains
  <2>2. \A d \in Frames : d # depth => st[d] = stack[d]
    BY <2>1, PoppedIs
  <2>3. \A d \in Frames : d > depth' => d > depth /\ d # depth
    BY FrameNumbers DEF HeapInv, FramesOK
  <2> HIDE DEF st
  <2> QED BY <2>2, <2>3 DEF HeapInv, FramesOK
<1> HIDE DEF st
<1>3. Becomes(c, ou, inn, st, r)
  BY DEF st
<1>4. /\ Sound(cell', outer', inner', stack', ref', Places)
      /\ outer' \in [Places -> Places \union {Nil}] /\ inner' \in [Places -> Nums]
      /\ \A s \in Slots : cell'[s] = Nil <=> c[s] = Nil
      /\ \A d \in Frames : /\ stack'[d] = <<>> <=> st[d] = <<>>
                           /\ ref'[d] = NoItem <=> r[d] = NoItem
      /\ SlotView(cell', outer', inner') = SlotView(c, ou, inn)
      /\ StackView(outer', inner', stack') = StackView(ou, inn, st)
      /\ RefView(outer', inner', ref') = RefView(ou, inn, r)
      /\ Followed(c, ou, st, r) => Followed(cell', outer', stack', ref')
  BY <1>1, <1>3, Becoming
<1>5. FramesOK(cell, stack, ref, depth)'
  <2>1. \A d \in Frames : d > depth' => stack'[d] = <<>> /\ ref'[d] = NoItem
    BY <1>2, <1>4
  <2>2. \A s \in Owned : s \in Slots
    BY OwnedSlots
  <2>3. \A s \in Slots : cell'[s] # Nil => s[1] <= depth'
    BY <1>4
  <2>4. \A s \in Owned : s[1] <= depth' => cell'[s] # Nil
    BY <1>4, <2>2
  <2> QED BY <2>1, <2>3, <2>4 DEF FramesOK
<1>6. HeapInv'
  BY <1>4, <1>5 DEF HeapInv
<1> QED BY <1>4, <1>6 DEF st

-----------------------------------------------------------------------------
(* What is seen of the stacks.                                             *)

MapView(ou, inn, s) == [j \in DOMAIN s |-> ItemView(ou, inn, s[j])]

\* What is seen of the stacks after the running frame's has lost k items and
\* gained others.
After(k, xs) ==
    [StackView(outer, inner, stack) EXCEPT ![depth] = SubSeq(@, 1, Len(@) - k) \o xs]

\* Nothing on the stacks has another number than before.
SameItems(ou, inn) ==
    \A d \in Frames : \A j \in 1..Len(stack[d]) :
        ItemView(ou, inn, stack[d][j]) = ItemView(outer, inner, stack[d][j])

\* A piece of a sequence from its beginning.
LEMMA FirstOf ==
    ASSUME NEW S, NEW s \in Seq(S), NEW n \in 0..Len(s)
    PROVE  /\ SubSeq(s, 1, n) \in Seq(S) /\ Len(SubSeq(s, 1, n)) = n /\ DOMAIN SubSeq(s, 1, n) = 1..n
           /\ \A j \in 1..n : SubSeq(s, 1, n)[j] = s[j]
<1>0. Len(s) \in Nat
  BY LenProperties
<1>1. 0 \in Nat /\ 0 <= n /\ n \in Nat /\ n <= Len(s) /\ 0 + 1 = 1 /\ n - 0 = n /\ \A j \in 1..n : 0 + j = j
  BY <1>0
<1>2. /\ SubSeq(s, 0 + 1, n) \in Seq(S) /\ Len(SubSeq(s, 0 + 1, n)) = n - 0
      /\ \A j \in 1..(n - 0) : SubSeq(s, 0 + 1, n)[j] = s[0 + j]
  BY <1>1, PieceFacts
<1> QED BY <1>1, <1>2, LenProperties

\* Sequences, one after the other.
LEMMA JoinedAre ==
    ASSUME NEW S, NEW s \in Seq(S), NEW T, NEW t \in Seq(T)
    PROVE  /\ Len(s) \in Nat /\ Len(t) \in Nat
           /\ s \o t \in Seq(S \union T) /\ Len(s \o t) = Len(s) + Len(t)
           /\ DOMAIN (s \o t) = 1..(Len(s) + Len(t))
           /\ \A j \in 1..(Len(s) + Len(t)) : (s \o t)[j] = IF j <= Len(s) THEN s[j] ELSE t[j - Len(s)]
<1>1. s \in Seq(S \union T) /\ t \in Seq(S \union T)
  BY SeqMonotonic
<1>2. /\ s \o t \in Seq(S \union T)
      /\ Len(s \o t) = Len(s) + Len(t)
      /\ \A j \in 1..(Len(s) + Len(t)) : (s \o t)[j] = IF j <= Len(s) THEN s[j] ELSE t[j - Len(s)]
  BY <1>1, ConcatProperties
<1> QED BY <1>2, LenProperties

\* What is seen of a sequence of items.
LEMMA MapViewIs ==
    ASSUME NEW S, NEW s \in Seq(S), NEW ou, NEW inn
    PROVE  /\ \E V : MapView(ou, inn, s) \in Seq(V)
           /\ Len(MapView(ou, inn, s)) = Len(s) /\ DOMAIN MapView(ou, inn, s) = 1..Len(s)
           /\ \A j \in 1..Len(s) : MapView(ou, inn, s)[j] = ItemView(ou, inn, s[j])
<1>1. Len(s) \in Nat /\ DOMAIN s = 1..Len(s)
  BY LenProperties
<1>2. MapView(ou, inn, s) = [j \in 1..Len(s) |-> ItemView(ou, inn, s[j])]
  BY <1>1 DEF MapView
<1> DEFINE f == MapView(ou, inn, s)
           V == {f[j] : j \in 1..Len(s)}
<1>3. f = [j \in 1..Len(s) |-> f[j]]
  BY <1>2
<1> HIDE DEF f
<1>4. f \in [1..Len(s) -> V]
  BY <1>3
<1> HIDE DEF V
<1>5. f \in Seq(V) /\ Len(f) = Len(s) /\ DOMAIN f = 1..Len(s)
  BY <1>1, <1>4
<1> QED BY <1>2, <1>5 DEF f

\* What is seen of the running frame's stack changes as the stack does.
LEMMA StackSees ==
    ASSUME HeapInv, NEW c, NEW ou, NEW inn, NEW N, NEW k, NEW items,
           Gains(c, ou, N, k, items), SameItems(ou, inn)
    PROVE  StackView(ou, inn, Popped(k, items)) = After(k, MapView(ou, inn, items))
<1> DEFINE st == Popped(k, items)
           n == Len(stack[depth]) - k
           T == [is : Kinds, of : Slots \union {Nil}, id : N \union {Nil}]
           S == [is : Kinds, of : Slots \union {Nil}, id : Places \union {Nil}]
           was == StackView(outer, inner, stack)
           w == MapView(outer, inner, stack[depth])
           v == MapView(ou, inn, items)
<1>0. k \in 0..Len(stack[depth]) /\ items \in Seq(T)
  BY DEF Gains
<1>1. /\ st = [d \in Frames |-> st[d]]
      /\ \A d \in Frames : d # depth => st[d] = stack[d]
      /\ Len(st[depth]) = n + Len(items) /\ DOMAIN st[depth] = 1..(n + Len(items))
      /\ \A j \in 1..n : st[depth][j] = stack[depth][j]
      /\ \A j \in 1..Len(items) : st[depth][n + j] = items[j]
  <2> HIDE DEF T
  <2> QED BY <1>0, PoppedIs
<1>2. /\ depth \in Frames
      /\ \A d \in Frames : stack[d] \in Seq(S)
      /\ \A d \in Frames : Len(stack[d]) \in Nat /\ DOMAIN stack[d] = 1..Len(stack[d])
  BY LenProperties DEF HeapInv, FramesOK, Sound, StacksOK
<1>3. n \in 0..Len(stack[depth]) /\ Len(items) \in Nat /\ Len(stack[depth]) \in Nat
  BY <1>0, <1>2, LenProperties
<1>4. /\ \E W : w \in Seq(W)
      /\ Len(w) = Len(stack[depth])
      /\ \A j \in 1..Len(stack[depth]) : w[j] = ItemView(outer, inner, stack[depth][j])
  <2> HIDE DEF S
  <2> QED BY <1>2, MapViewIs
<1>5. /\ \E V : v \in Seq(V)
      /\ Len(v) = Len(items)
      /\ \A j \in 1..Len(items) : v[j] = ItemView(ou, inn, items[j])
  <2> HIDE DEF T
  <2> QED BY <1>0, MapViewIs
<1>6. was = [d \in Frames |-> MapView(outer, inner, stack[d])]
  BY DEF StackView, MapView
<1>7. StackView(ou, inn, st) = [d \in Frames |-> MapView(ou, inn, st[d])]
  BY DEF StackView, MapView
<1> HIDE DEF st, S, T, w, v
<1>8. ASSUME NEW d \in Frames, d # depth PROVE MapView(ou, inn, st[d]) = MapView(outer, inner, stack[d])
  <2>1. \A j \in DOMAIN stack[d] : ItemView(ou, inn, stack[d][j]) = ItemView(outer, inner, stack[d][j])
    BY <1>2 DEF SameItems
  <2> QED BY <1>1, <1>8, <2>1 DEF MapView
<1>9. MapView(ou, inn, st[depth]) = SubSeq(w, 1, n) \o v
  <2>0. PICK W : w \in Seq(W)
    BY <1>4
  <2>8. PICK V : v \in Seq(V)
    BY <1>5
  <2>1. /\ SubSeq(w, 1, n) \in Seq(W)
        /\ Len(SubSeq(w, 1, n)) = n /\ \A j \in 1..n : SubSeq(w, 1, n)[j] = w[j]
    <3>1. n \in 0..Len(w)
      BY <1>3, <1>4
    <3> HIDE DEF n
    <3> QED BY <3>1, <2>0, FirstOf
  <2> DEFINE a == SubSeq(w, 1, n)
  <2> HIDE DEF a
  <2>2. /\ Len(a) = n /\ a \in Seq(W)
        /\ \A j \in 1..n : a[j] = w[j]
    BY <2>1 DEF a
  <2>3. /\ Len(a \o v) = n + Len(items) /\ DOMAIN (a \o v) = 1..(n + Len(items))
        /\ \A j \in 1..(n + Len(items)) : (a \o v)[j] = IF j <= n THEN a[j] ELSE v[j - n]
        /\ a \o v \in Seq(W \union V)
    <3>1. /\ a \o v \in Seq(W \union V) /\ Len(a \o v) = Len(a) + Len(v)
          /\ DOMAIN (a \o v) = 1..(Len(a) + Len(v))
          /\ \A j \in 1..(Len(a) + Len(v)) : (a \o v)[j] = IF j <= Len(a) THEN a[j] ELSE v[j - Len(a)]
      BY <2>2, <2>8, JoinedAre
    <3> QED BY <3>1, <2>2, <1>5
  <2>4. MapView(ou, inn, st[depth]) = [j \in 1..(n + Len(items)) |-> ItemView(ou, inn, st[depth][j])]
    BY <1>1 DEF MapView
  <2>5. \A j \in 1..(n + Len(items)) : ItemView(ou, inn, st[depth][j]) = (a \o v)[j]
    <3> TAKE j \in 1..(n + Len(items))
    <3>1. CASE j <= n
      <4>1. j \in 1..n /\ j \in 1..Len(stack[depth])
        BY <1>3, <3>1
      <4>2. ItemView(ou, inn, stack[depth][j]) = ItemView(outer, inner, stack[depth][j])
        BY <4>1, <1>2 DEF SameItems
      <4>3. (a \o v)[j] = w[j] /\ st[depth][j] = stack[depth][j]
        BY <4>1, <3>1, <2>2, <2>3, <1>1
      <4> QED BY <4>1, <4>2, <4>3, <1>4
    <3>2. CASE ~(j <= n)
      <4>1. j - n \in 1..Len(items) /\ n + (j - n) = j
        BY <1>3, <3>2
      <4>2. st[depth][n + (j - n)] = items[j - n] /\ v[j - n] = ItemView(ou, inn, items[j - n])
        BY <4>1, <1>1, <1>5
      <4>3. (a \o v)[j] = v[j - n]
        BY <3>2, <2>3
      <4> QED BY <4>1, <4>2, <4>3
    <3> QED BY <3>1, <3>2
  <2>6. a \o v = [j \in 1..(n + Len(items)) |-> (a \o v)[j]]
    <3> DEFINE z == a \o v
    <3>1. z \in Seq(W \union V) /\ DOMAIN z = 1..(n + Len(items))
      BY <2>3
    <3> HIDE DEF z
    <3>2. z = [j \in 1..(n + Len(items)) |-> z[j]]
      BY <3>1
    <3> QED BY <3>2 DEF z
  <2>7. MapView(ou, inn, st[depth]) = a \o v
    BY <2>4, <2>5, <2>6
  <2> QED BY <2>7 DEF a
<1>10. was[depth] = w /\ Len(w) - k = n
  BY <1>2, <1>4, <1>6 DEF w
<1> HIDE DEF was, n
<1>11. StackView(ou, inn, st) = [was EXCEPT ![depth] = SubSeq(@, 1, Len(@) - k) \o v]
  <2>1. [was EXCEPT ![depth] = SubSeq(@, 1, Len(@) - k) \o v]
          = [d \in Frames |-> IF d = depth THEN SubSeq(w, 1, n) \o v ELSE MapView(outer, inner, stack[d])]
    BY <1>2, <1>6, <1>10
  <2> QED BY <2>1, <1>7, <1>8, <1>9
<1> QED BY <1>11 DEF was, st, v, After

\* The addresses lead on into their slots.
LEMMA FollowedStays ==
    ASSUME HeapInv, NEW c, NEW ou, NEW r, NEW N, NEW k, NEW items, Gains(c, ou, N, k, items),
           \A d \in Frames : \A j \in 1..Len(stack[d]) : Follows(c, ou, stack[d][j]),
           \A j \in 1..Len(items) : Follows(c, ou, items[j]),
           \A d \in Frames : r[d] # NoItem => Follows(c, ou, r[d])
    PROVE  Followed(c, ou, Popped(k, items), r)
<1> DEFINE st == Popped(k, items)
           n == Len(stack[depth]) - k
           T == [is : Kinds, of : Slots \union {Nil}, id : N \union {Nil}]
<1>0. k \in 0..Len(stack[depth]) /\ items \in Seq(T)
  BY DEF Gains
<1>1. /\ \A d \in Frames : d # depth => st[d] = stack[d]
      /\ Len(st[depth]) = n + Len(items)
      /\ \A j \in 1..n : st[depth][j] = stack[depth][j]
      /\ \A j \in 1..Len(items) : st[depth][n + j] = items[j]
  <2> HIDE DEF T
  <2> QED BY <1>0, PoppedIs
<1>2. depth \in Frames /\ n \in 0..Len(stack[depth]) /\ Len(items) \in Nat /\ Len(stack[depth]) \in Nat
  BY <1>0, LenProperties DEF HeapInv, FramesOK, Sound, StacksOK
<1> HIDE DEF st, T
<1>3. ASSUME NEW j \in 1..(n + Len(items)) PROVE Follows(c, ou, st[depth][j])
  <2>1. CASE j <= n
    <3>1. j \in 1..n /\ j \in 1..Len(stack[depth])
      BY <1>2, <2>1
    <3> QED BY <3>1, <1>1, <1>2
  <2>2. CASE ~(j <= n)
    <3>1. j - n \in 1..Len(items) /\ n + (j - n) = j
      BY <1>2, <2>2
    <3>2. st[depth][n + (j - n)] = items[j - n] /\ Follows(c, ou, items[j - n])
      BY <3>1, <1>1
    <3> QED BY <3>1, <3>2
  <2> QED BY <2>1, <2>2
<1>4. ASSUME NEW d \in Frames, NEW j \in 1..Len(st[d]) PROVE Follows(c, ou, st[d][j])
  <2>1. CASE d = depth
    BY <2>1, <1>1, <1>3
  <2>2. CASE d # depth
    BY <2>2, <1>1
  <2> QED BY <2>1, <2>2
<1> QED BY <1>4 DEF Followed, st

USE StructValuesAssumption

\* The state of ValueSemantics.
SlotsSeen == SlotView(cell, outer, inner)
StacksSeen == StackView(outer, inner, stack)
RefsSeen == RefView(outer, inner, ref)

\* What is seen is what the refinement mapping gives.
LEMMA Seen ==
    /\ SlotsSeen = [s \in Slots |-> IF cell[s] = Nil THEN NoNum ELSE NumOf(cell[s])]
    /\ StacksSeen = [d \in Frames |-> [k \in DOMAIN stack[d] |-> AbsItem(stack[d][k])]]
    /\ RefsSeen = [d \in Frames |-> IF ref[d] = NoItem THEN NoItem ELSE AbsItem(ref[d])]
<1>1. \A it : AbsItem(it) = ItemView(outer, inner, it)
  BY DEF AbsItem, ItemView
<1> QED
  BY <1>1 DEF SlotsSeen, StacksSeen, RefsSeen, SlotView, StackView, RefView, NumOf

\* So it is after a step.
LEMMA SeenNext ==
    /\ SlotsSeen' = [s \in Slots |-> IF cell'[s] = Nil THEN NoNum ELSE NumOf(cell[s])']
    /\ StacksSeen' = [d \in Frames |-> [k \in DOMAIN stack'[d] |-> AbsItem(stack[d][k])']]
    /\ RefsSeen' = [d \in Frames |-> IF ref'[d] = NoItem THEN NoItem ELSE AbsItem(ref[d])']
<1>1. \A it : ([is |-> it.is, of |-> it.of,
                num |-> IF it.is \in {"struct", "nested"} THEN NumIn(outer', inner', it) ELSE NoNum])
              = ItemView(outer', inner', it)
  BY DEF ItemView
<1> QED
  BY <1>1 DEF SlotsSeen, StacksSeen, RefsSeen, SlotView, StackView, RefView, NumOf, AbsItem

\* The items on the running frame's stack, as ValueSemantics has them.
LEMMA ItemSeen ==
    ASSUME HeapInv, NEW k \in 1..Len(stack[depth])
    PROVE  /\ Values!Has(k) /\ Values!Item(k) = ItemView(outer, inner, Item(k))
           /\ Values!Item(k).is = Item(k).is /\ Values!Item(k).of = Item(k).of
<1>1. depth \in Frames /\ Len(stack[depth]) \in Nat /\ DOMAIN stack[depth] = 1..Len(stack[depth])
  BY LenProperties DEF HeapInv, FramesOK, Sound, StacksOK
<1> DEFINE s == StacksSeen[depth]
           n == Len(stack[depth])
<1>2. s = [j \in 1..n |-> ItemView(outer, inner, stack[depth][j])]
  BY <1>1 DEF StacksSeen, StackView
<1>3. Len(s) = n
  <2> HIDE DEF s
  <2> QED BY <1>1, <1>2
<1>4. n - k + 1 \in 1..n
  BY <1>1
<1>5. s[n - k + 1] = ItemView(outer, inner, stack[depth][n - k + 1])
  BY <1>2, <1>4
<1>6. Values!Has(k) <=> Len(s) >= k
  BY Seen DEF Values!Has
<1>7. Values!Item(k) = s[Len(s) - k + 1]
  BY Seen DEF Values!Item
<1> HIDE DEF s
<1>8. Values!Item(k) = ItemView(outer, inner, Item(k))
  BY <1>3, <1>5, <1>7 DEF Item
<1>9. Values!Has(k)
  BY <1>1, <1>3, <1>6
<1> QED BY <1>8, <1>9 DEF ItemView

\* Nothing is written: the heap stays, and the stack changes.
LEMMA KeepDoes ==
    ASSUME HeapInv, NEW k, NEW items, Keep(Popped(k, items)), depth' = depth,
           Gains(cell, outer, Places, k, items)
    PROVE  /\ HeapInv' /\ SlotsSeen' = SlotsSeen /\ RefsSeen' = RefsSeen
           /\ StacksSeen' = After(k, MapView(outer, inner, items))
           /\ Followed(cell, outer, stack, ref) /\ (\A j \in 1..Len(items) : Follows(cell, outer, items[j]))
                => Followed(cell', outer', stack', ref')
<1>1. Names(Places) /\ Grown(cell, outer, Places)
  BY DEF Names, Grown
<1>2. Becomes(cell, outer, inner, Popped(k, items), ref)
  BY DEF Keep
<1>3. SlotsOK(cell, outer, Places) /\ (\A n \in Places : inner[n] \in Nums) /\ RefsOK(cell, outer, ref, Places)
  BY DEF HeapInv, Sound
<1>4. /\ depth' \in Frames /\ depth' >= depth /\ \A d \in Frames : d > depth' => ref[d] = NoItem
      /\ \A s \in Slots : cell[s] # Nil => s[1] <= depth'
      /\ \A s \in Owned : s[1] <= depth' => cell[s] # Nil
  BY FrameNumbers DEF HeapInv, FramesOK
<1>5. /\ HeapInv'
      /\ SlotView(cell', outer', inner') = SlotView(cell, outer, inner)
      /\ StackView(outer', inner', stack') = StackView(outer, inner, Popped(k, items))
      /\ RefView(outer', inner', ref') = RefView(outer, inner, ref)
      /\ Followed(cell, outer, Popped(k, items), ref) => Followed(cell', outer', stack', ref')
  BY <1>1, <1>2, <1>3, <1>4, Doing
<1>6. SlotsSeen' = SlotsSeen /\ RefsSeen' = RefsSeen
  BY <1>5 DEF SlotsSeen, RefsSeen
<1>7. StacksSeen' = After(k, MapView(outer, inner, items))
  <2>1. SameItems(outer, inner)
    BY DEF SameItems
  <2>2. StackView(outer, inner, Popped(k, items)) = After(k, MapView(outer, inner, items))
    BY <2>1, StackSees
  <2> QED BY <2>2, <1>5 DEF StacksSeen
<1>8. ASSUME Followed(cell, outer, stack, ref), \A j \in 1..Len(items) : Follows(cell, outer, items[j])
      PROVE  Followed(cell, outer, Popped(k, items), ref)
  <2>1. /\ \A d \in Frames : \A j \in 1..Len(stack[d]) : Follows(cell, outer, stack[d][j])
        /\ \A d \in Frames : ref[d] # NoItem => Follows(cell, outer, ref[d])
    BY <1>8 DEF Followed
  <2> QED BY <2>1, <1>8, FollowedStays
<1> QED BY <1>5, <1>6, <1>7, <1>8

Follow == Followed(cell, outer, stack, ref)

\* The items on the running frame's stack.
LEMMA ItemIs ==
    ASSUME HeapInv, NEW k \in 1..Len(stack[depth])
    PROVE  /\ ItemOK(cell, outer, Places, depth, Item(k)) /\ (Follow => Follows(cell, outer, Item(k)))
           /\ k \in 0..Len(stack[depth])
<1>1. depth \in Frames /\ Len(stack[depth]) \in Nat
  BY LenProperties DEF HeapInv, FramesOK, Sound, StacksOK
<1>2. Len(stack[depth]) - k + 1 \in 1..Len(stack[depth])
  BY <1>1
<1>3. \A j \in 1..Len(stack[depth]) : ItemOK(cell, outer, Places, depth, stack[depth][j])
  BY <1>1 DEF HeapInv, Sound, StacksOK
<1>4. Follow => \A j \in 1..Len(stack[depth]) : Follows(cell, outer, stack[depth][j])
  BY <1>1 DEF Follow, Followed
<1> QED BY <1>1, <1>2, <1>3, <1>4 DEF Item

\* An item of this kind is on top.
LEMMA HasItem ==
    ASSUME HeapInv, NEW is, Has(1, is)
    PROVE  1 \in 1..Len(stack[depth]) /\ Item(1).is = is
<1>1. depth \in Frames /\ Len(stack[depth]) \in Nat
  BY LenProperties DEF HeapInv, FramesOK, Sound, StacksOK
<1> QED BY <1>1 DEF Has

\* One item is pushed, after k were taken.
LEMMA OneGained ==
    ASSUME HeapInv, NEW k \in 0..Len(stack[depth]), NEW x, NEW c, NEW ou, NEW N, ItemOK(c, ou, N, depth, x),
           Len(stack[depth]) - k + 1 <= MaxItems
    PROVE  Gains(c, ou, N, k, <<x>>)
<1>1. x \in [is : Kinds, of : Slots \union {Nil}, id : N \union {Nil}]
  BY DEF ItemOK
<1> DEFINE T == [is : Kinds, of : Slots \union {Nil}, id : N \union {Nil}]
<1>2. <<x>> \in Seq(T) /\ Len(<<x>>) = 1 /\ \A j \in 1..1 : <<x>>[j] = x
  <2> HIDE DEF T
  <2> QED BY <1>1 DEF T
<1>3. Len(stack[depth]) - k + Len(<<x>>) <= MaxItems
  BY <1>2
<1>4. \A j \in 1..Len(<<x>>) : ItemOK(c, ou, N, depth, <<x>>[j])
  BY <1>2
<1> QED BY <1>2, <1>3, <1>4 DEF Gains

\* Nothing is pushed, after k were taken.
LEMMA NoneGained ==
    ASSUME HeapInv, NEW k \in 0..Len(stack[depth]), NEW c, NEW ou, NEW N
    PROVE  Gains(c, ou, N, k, <<>>)
<1>1. Len(stack[depth]) \in Nat /\ Len(stack[depth]) <= MaxItems
  BY LenProperties DEF HeapInv, FramesOK, Sound, StacksOK
<1> DEFINE T == [is : Kinds, of : Slots \union {Nil}, id : N \union {Nil}]
<1>2. <<>> \in Seq(T) /\ Len(<<>>) = 0
  <2> HIDE DEF T
  <2> QED OBVIOUS
<1>3. Len(stack[depth]) - k + Len(<<>>) <= MaxItems
  BY <1>1, <1>2
<1> QED BY <1>2, <1>3 DEF Gains

\* What is seen of no item, and of one.
LEMMA FewSeen ==
    /\ \A ou, inn : MapView(ou, inn, <<>>) = <<>>
    /\ \A ou, inn, x : MapView(ou, inn, <<x>>) = <<ItemView(ou, inn, x)>>
<1>1. ASSUME NEW ou, NEW inn, NEW x PROVE MapView(ou, inn, <<x>>) = <<ItemView(ou, inn, x)>>
  <2> DEFINE y == ItemView(ou, inn, x)
  <2>1. DOMAIN <<x>> = {1} /\ <<x>>[1] = x
    OBVIOUS
  <2>2. MapView(ou, inn, <<x>>) = [j \in {1} |-> y]
    BY <2>1 DEF MapView
  <2> HIDE DEF y
  <2>3. <<y>> = [j \in {1} |-> y]
    OBVIOUS
  <2> QED BY <2>2, <2>3 DEF y
<1>2. \A ou, inn : MapView(ou, inn, <<>>) = <<>>
  <2>1. DOMAIN <<>> = {}
    OBVIOUS
  <2> QED BY <2>1 DEF MapView
<1> QED BY <1>1, <1>2

\* An item is pushed after k were taken: only the stack is seen to change.
LEMMA PushDoes ==
    ASSUME HeapInv, NEW k \in 0..Len(stack[depth]), NEW x, Push(k, x), UNCHANGED depth,
           ItemOK(cell, outer, Places, depth, x)
    PROVE  /\ HeapInv' /\ SlotsSeen' = SlotsSeen /\ RefsSeen' = RefsSeen
           /\ StacksSeen' = After(k, <<ItemView(outer, inner, x)>>)
           /\ Follow /\ Follows(cell, outer, x) => Follow'
<1>1. Keep(Popped(k, <<x>>)) /\ Len(Popped(k, <<x>>)[depth]) <= MaxItems
  BY DEF Push
<1>2. <<x>> \in Seq({x}) /\ Len(<<x>>) = 1 /\ \A j \in 1..1 : <<x>>[j] = x
  OBVIOUS
<1>3. Len(Popped(k, <<x>>)[depth]) = Len(stack[depth]) - k + 1
  <2> DEFINE xs == <<x>>
  <2>1. xs \in Seq({x}) /\ Len(xs) = 1
    BY <1>2
  <2> HIDE DEF xs
  <2>2. Len(Popped(k, xs)[depth]) = (Len(stack[depth]) - k) + Len(xs)
    BY <2>1, PoppedIs
  <2> QED BY <2>1, <2>2 DEF xs
<1>4. Gains(cell, outer, Places, k, <<x>>)
  BY <1>1, <1>3, OneGained
<1>5. /\ HeapInv' /\ SlotsSeen' = SlotsSeen /\ RefsSeen' = RefsSeen
      /\ StacksSeen' = After(k, MapView(outer, inner, <<x>>))
      /\ Followed(cell, outer, stack, ref) /\ (\A j \in 1..Len(<<x>>) : Follows(cell, outer, <<x>>[j]))
           => Followed(cell', outer', stack', ref')
  BY <1>1, <1>4, KeepDoes
<1>6. StacksSeen' = After(k, <<ItemView(outer, inner, x)>>)
  BY <1>5, FewSeen
<1>7. Follow /\ Follows(cell, outer, x) => Follow'
  BY <1>2, <1>5 DEF Follow
<1> QED BY <1>5, <1>6, <1>7

\* k items are thrown away.
LEMMA PopDoes ==
    ASSUME HeapInv, NEW k \in 0..Len(stack[depth]), Keep(Popped(k, <<>>)), UNCHANGED depth
    PROVE  /\ HeapInv' /\ SlotsSeen' = SlotsSeen /\ RefsSeen' = RefsSeen
           /\ StacksSeen' = After(k, <<>>) /\ (Follow => Follow')
<1>1. Gains(cell, outer, Places, k, <<>>)
  BY NoneGained
<1>2. Len(<<>>) = 0 /\ \A j : j \notin 1..0
  OBVIOUS
<1>3. /\ HeapInv' /\ SlotsSeen' = SlotsSeen /\ RefsSeen' = RefsSeen
      /\ StacksSeen' = After(k, MapView(outer, inner, <<>>))
      /\ Followed(cell, outer, stack, ref) /\ (\A j \in 1..Len(<<>>) : Follows(cell, outer, <<>>[j]))
           => Followed(cell', outer', stack', ref')
  BY <1>1, KeepDoes
<1>4. StacksSeen' = After(k, <<>>)
  BY <1>3, FewSeen
<1>5. Follow => Follow'
  BY <1>2, <1>3 DEF Follow
<1> QED BY <1>3, <1>4, <1>5

-----------------------------------------------------------------------------
(* Instructions that change the heap.                                      *)

\* Nothing on a stack, or passed, has another number than before.
SameSeen(ou, inn) ==
    /\ SameItems(ou, inn)
    /\ \A d \in Frames : ref[d] # NoItem => ItemView(ou, inn, ref[d]) = ItemView(outer, inner, ref[d])

\* Every address leads into its slot.
FollowsIn(c, ou) ==
    /\ \A d \in Frames : \A j \in 1..Len(stack[d]) : Follows(c, ou, stack[d][j])
    /\ \A d \in Frames : ref[d] # NoItem => Follows(c, ou, ref[d])

\* The addresses of a state, as those of its stacks and of what was passed.
LEMMA FollowIs == Follow <=> FollowsIn(cell, outer)
BY DEF Follow, Followed, FollowsIn

\* The running frame takes k items, puts others on its stack and changes the heap.
LEMMA ChangeDoes ==
    ASSUME HeapInv, UNCHANGED depth, NEW c, NEW ou, NEW inn, NEW N, NEW k, NEW items,
           Names(N), Grown(c, ou, N), SlotsOK(c, ou, N), \A n \in N : inn[n] \in Nums,
           Becomes(c, ou, inn, Popped(k, items), ref), Gains(c, ou, N, k, items),
           \A s \in Slots : c[s] # Nil => s[1] <= depth
    PROVE  /\ HeapInv' /\ SlotsSeen' = SlotView(c, ou, inn)
           /\ SameSeen(ou, inn) => /\ StacksSeen' = After(k, MapView(ou, inn, items))
                                   /\ RefsSeen' = RefsSeen
           /\ FollowsIn(c, ou) /\ (\A j \in 1..Len(items) : Follows(c, ou, items[j])) => Follow'
<1>1. RefsOK(c, ou, ref, N)
  <2>1. /\ ref = [d \in Frames |-> ref[d]]
        /\ \A d \in Frames : ref[d] # NoItem => d \in Callees /\ ItemOK(cell, outer, Places, d, ref[d])
    BY DEF HeapInv, Sound, RefsOK
  <2>2. ASSUME NEW d \in Frames, ref[d] # NoItem PROVE d \in Callees /\ ItemOK(c, ou, N, d, ref[d])
    <3>1. ItemOK(cell, outer, Places, d, ref[d]) /\ d \in Callees
      BY <2>1, <2>2
    <3>2. d \in Nat /\ d <= d /\ \A s \in Slots : s[1] \in Nat
      BY FrameNumbers
    <3>3. /\ \A s \in Slots : s[1] <= d /\ cell[s] # Nil => c[s] # Nil
          /\ \A p \in Places : outer[p] \in Places => ou[p] \in N
      BY DEF Grown
    <3> HIDE StructValuesAssumption
    <3> QED BY <3>1, <3>2, <3>3, ItemStays
  <2> QED BY <2>1, <2>2 DEF RefsOK
<1>2. /\ depth' \in Frames /\ depth' >= depth /\ \A d \in Frames : d > depth' => ref[d] = NoItem
      /\ \A s \in Slots : c[s] # Nil => s[1] <= depth'
      /\ \A s \in Owned : s[1] <= depth' => c[s] # Nil
  BY FrameNumbers, OwnedSlots DEF HeapInv, FramesOK, Grown
<1> HIDE StructValuesAssumption
<1>3. /\ HeapInv'
      /\ SlotView(cell', outer', inner') = SlotView(c, ou, inn)
      /\ StackView(outer', inner', stack') = StackView(ou, inn, Popped(k, items))
      /\ RefView(outer', inner', ref') = RefView(ou, inn, ref)
      /\ Followed(c, ou, Popped(k, items), ref) => Followed(cell', outer', stack', ref')
  BY <1>1, <1>2, Doing
<1>4. SlotsSeen' = SlotView(c, ou, inn)
  BY <1>3 DEF SlotsSeen
<1>5. ASSUME SameSeen(ou, inn)
      PROVE  StacksSeen' = After(k, MapView(ou, inn, items)) /\ RefsSeen' = RefsSeen
  <2>1. StackView(ou, inn, Popped(k, items)) = After(k, MapView(ou, inn, items))
    BY <1>5, StackSees DEF SameSeen
  <2>2. RefView(ou, inn, ref) = RefView(outer, inner, ref)
    BY <1>5 DEF SameSeen, RefView
  <2> QED BY <2>1, <2>2, <1>3 DEF StacksSeen, RefsSeen
<1>6. ASSUME FollowsIn(c, ou), \A j \in 1..Len(items) : Follows(c, ou, items[j]) PROVE Follow'
  <2>1. Followed(c, ou, Popped(k, items), ref)
    BY <1>6, FollowedStays DEF FollowsIn
  <2> QED BY <2>1, <1>3 DEF Follow
<1> QED BY <1>3, <1>4, <1>5, <1>6

\* The running frame takes k items and changes the heap.
LEMMA WriteDoes ==
    ASSUME HeapInv, UNCHANGED depth, NEW c, NEW ou, NEW inn, NEW N, NEW k \in 0..Len(stack[depth]),
           Names(N), Grown(c, ou, N), SlotsOK(c, ou, N), \A n \in N : inn[n] \in Nums,
           Becomes(c, ou, inn, Popped(k, <<>>), ref),
           \A s \in Slots : c[s] # Nil => s[1] <= depth
    PROVE  /\ HeapInv' /\ SlotsSeen' = SlotView(c, ou, inn)
           /\ SameSeen(ou, inn) => StacksSeen' = After(k, <<>>) /\ RefsSeen' = RefsSeen
           /\ FollowsIn(c, ou) => Follow'
<1>1. Gains(c, ou, N, k, <<>>)
  BY NoneGained
<1>2. Len(<<>>) = 0 /\ \A j : j \notin 1..0
  OBVIOUS
<1> HIDE StructValuesAssumption
<1>3. /\ HeapInv' /\ SlotsSeen' = SlotView(c, ou, inn)
      /\ SameSeen(ou, inn) => /\ StacksSeen' = After(k, MapView(ou, inn, <<>>))
                              /\ RefsSeen' = RefsSeen
      /\ FollowsIn(c, ou) /\ (\A j \in 1..Len(<<>>) : Follows(c, ou, <<>>[j])) => Follow'
  BY <1>1, ChangeDoes
<1>4. SameSeen(ou, inn) => StacksSeen' = After(k, <<>>) /\ RefsSeen' = RefsSeen
  BY <1>3, FewSeen
<1>5. FollowsIn(c, ou) => Follow'
  BY <1>2, <1>3
<1> QED BY <1>3, <1>4, <1>5

\* A new Struct changes nothing that is there.
LEMMA NewChangesNothing ==
    ASSUME HeapInv, NEW v \in Nums
    PROVE  LET N == Places \union {New}
               ou == NewOuter(New)
               inn == NewInner(v)
           IN  /\ Names(N) /\ ou[New] = New /\ inn[New] = v
               /\ \A p \in Places : ou[p] = outer[p] /\ inn[p] = inner[p]
               /\ \A n \in N : inn[n] \in Nums
               /\ SameSeen(ou, inn)
               /\ \A s \in Slots : cell[s] # Nil => inn[ou[cell[s]]] = inner[outer[cell[s]]]
<1> DEFINE N == Places \union {New}
           ou == NewOuter(New)
           inn == NewInner(v)
<1>1. Names(N)
  BY DEF Names
<1>2. ou[New] = New /\ inn[New] = v /\ \A p \in Places : ou[p] = outer[p] /\ inn[p] = inner[p]
  BY DEF NewOuter, NewInner
<1>3. \A n \in N : inn[n] \in Nums
  BY <1>2 DEF HeapInv
<1> HIDE DEF ou, inn
<1>4. ASSUME NEW d \in Frames, NEW it, ItemOK(cell, outer, Places, d, it)
      PROVE  ItemView(ou, inn, it) = ItemView(outer, inner, it)
  <2>1. it.is = "struct" => NumIn(ou, inn, it) = NumIn(outer, inner, it)
    BY <1>2, <1>4 DEF ItemOK, NumIn
  <2>2. it.is = "nested" => NumIn(ou, inn, it) = NumIn(outer, inner, it)
    BY <1>2, <1>4 DEF ItemOK, NumIn
  <2> QED BY <2>1, <2>2 DEF ItemView
<1>5. SameSeen(ou, inn)
  BY <1>4 DEF SameSeen, SameItems, HeapInv, Sound, StacksOK, RefsOK
<1>6. \A s \in Slots : cell[s] # Nil => inn[ou[cell[s]]] = inner[outer[cell[s]]]
  BY <1>2 DEF HeapInv, Sound, SlotsOK
<1> QED BY <1>1, <1>2, <1>3, <1>5, <1>6 DEF ou, inn

-----------------------------------------------------------------------------
(* The steps of ValueSemantics, in terms of what is seen.                  *)

HIDE StructValuesAssumption

\* ValueSemantics has the same slots and frames.
LEMMA SameSlots == Values!Slots = Slots /\ Values!Frames = Frames
BY DEF Values!Slots, Slots, Values!Frames, Frames, Callees

\* A value is copied onto the stack.
LEMMA Reads ==
    ASSUME SlotsSeen' = SlotsSeen, RefsSeen' = RefsSeen, UNCHANGED depth,
           \/ \E s \in Slots : /\ Values!Here(s) /\ SlotsSeen[s] # NoNum
                               /\ StacksSeen' = After(0, <<Values!Value("struct", SlotsSeen[s])>>)
           \/ /\ Values!Has(1) /\ Values!Item(1).is \in {"&", "&n"}
              /\ \E is \in {"struct", "nested"} :
                    StacksSeen' = After(1, <<Values!Value(is, SlotsSeen[Values!Item(1).of])>>)
           \/ /\ Values!Has(1) /\ Values!Item(1).is = "struct"
              /\ StacksSeen' = After(1, <<Values!Value("nested", Values!Item(1).num)>>)
    PROVE  Values!Next
<1>1. Values!Read
  BY Seen, SeenNext, SameSlots DEF Values!Read, Values!Pops, After, StacksSeen
<1> QED BY <1>1 DEF Values!Next

\* An address, a duplicate or a temporary is pushed, or an item is thrown away.
LEMMA Handles ==
    ASSUME SlotsSeen' = SlotsSeen, RefsSeen' = RefsSeen, UNCHANGED depth,
           \/ \E s \in Slots : /\ Values!Here(s) /\ SlotsSeen[s] # NoNum
                               /\ StacksSeen' = After(0, <<Values!Address("&", s)>>)
           \/ /\ Values!Has(1) /\ Values!Item(1).is = "&"
              /\ StacksSeen' = After(1, <<Values!Address("&n", Values!Item(1).of)>>)
           \/ /\ Values!Has(1) /\ Values!Item(1).is = "&n"
              /\ StacksSeen' = After(1, <<Values!Address("&x", Values!Item(1).of)>>)
           \/ RefsSeen[depth] # NoItem /\ StacksSeen' = After(0, <<RefsSeen[depth]>>)
           \/ Values!Has(1) /\ StacksSeen' = After(0, <<Values!Item(1)>>)
           \/ Values!Has(1) /\ StacksSeen' = After(1, <<>>)
           \/ \E v \in Nums : StacksSeen' = After(0, <<Values!Value("struct", v)>>)
    PROVE  Values!Next
<1>1. Values!Handle
  BY Seen, SeenNext, SameSlots DEF Values!Handle, Values!Pops, After, StacksSeen
<1> QED BY <1>1 DEF Values!Next

\* One slot changes.
LEMMA Writes ==
    ASSUME RefsSeen' = RefsSeen, UNCHANGED depth,
           \/ /\ \E s \in Slots : /\ Values!Here(s) /\ Values!Has(1) /\ Values!Item(1).is = "struct"
                                  /\ SlotsSeen' = [SlotsSeen EXCEPT ![s] = Values!Item(1).num]
              /\ StacksSeen' = After(1, <<>>)
           \/ /\ Values!Has(2) /\ Values!Item(2).of # Nil /\ Values!Item(1).of = Nil
              /\ SlotsSeen' = [SlotsSeen EXCEPT ![Values!Item(2).of] = Values!Item(1).num]
              /\ StacksSeen' = After(2, <<>>)
           \/ /\ Values!Has(1) /\ Values!Item(1).of # Nil
              /\ \E v \in Nums : SlotsSeen' = [SlotsSeen EXCEPT ![Values!Item(1).of] = v]
              /\ StacksSeen' = After(1, <<>>)
    PROVE  Values!Next
<1>1. Values!Write
  BY Seen, SeenNext, SameSlots DEF Values!Write, Values!Pops, After, StacksSeen
<1> QED BY <1>1 DEF Values!Next

\* A method is called.
LEMMA Calls ==
    ASSUME depth < MaxDepth, Values!Has(1), StacksSeen' = After(1, <<>>), depth' = depth + 1,
           \/ /\ Values!Item(1).is = "struct"
              /\ SlotsSeen' = [SlotsSeen EXCEPT ![<<depth + 1, "arg">>] = Values!Item(1).num,
                                                ![<<depth + 1, "local">>] = 0]
              /\ RefsSeen' = RefsSeen
           \/ /\ Values!Item(1).of # Nil
              /\ SlotsSeen' = [SlotsSeen EXCEPT ![<<depth + 1, "local">>] = 0]
              /\ RefsSeen' = [RefsSeen EXCEPT ![depth + 1] = Values!Item(1)]
    PROVE  Values!Next
<1>1. Values!Call
  BY Seen, SeenNext, SameSlots DEF Values!Call, Values!Pops, After, StacksSeen
<1> QED BY <1>1 DEF Values!Next

\* The stacks, when the running frame is left with these results.
Left(xs) == [StacksSeen EXCEPT ![depth] = <<>>, ![depth - 1] = @ \o xs]

\* A method returns.
LEMMA Returns ==
    ASSUME depth > 1, depth' = depth - 1,
           SlotsSeen' = [SlotsSeen EXCEPT ![<<depth, "arg">>] = NoNum, ![<<depth, "local">>] = NoNum],
           RefsSeen' = [RefsSeen EXCEPT ![depth] = NoItem],
           \/ StacksSeen' = Left(<<>>)
           \/ /\ Values!Has(1) /\ Values!Item(1).of = Nil
              /\ StacksSeen' = Left(<<Values!Item(1)>>)
    PROVE  Values!Next
<1>1. Values!Return
  <2>1. CASE StacksSeen' = Left(<<>>)
    <3>1. <<>> \in {<<>>} \union (IF Values!Has(1) /\ Values!Item(1).of = Nil THEN {<<Values!Item(1)>>} ELSE {})
      OBVIOUS
    <3> QED BY <2>1, <3>1, Seen, SeenNext, SameSlots DEF Values!Return, Left
  <2>2. CASE /\ Values!Has(1) /\ Values!Item(1).of = Nil
             /\ StacksSeen' = Left(<<Values!Item(1)>>)
    <3>1. <<Values!Item(1)>> \in {<<>>} \union (IF Values!Has(1) /\ Values!Item(1).of = Nil THEN {<<Values!Item(1)>>} ELSE {})
      BY <2>2
    <3> QED BY <2>2, <3>1, Seen, SeenNext, SameSlots DEF Values!Return, Left
  <2> QED BY <2>1, <2>2
<1> QED BY <1>1 DEF Values!Next

-----------------------------------------------------------------------------
(* What is on a stack, as it is seen.                                      *)

USE StructValuesAssumption

\* This instruction writes no struct that is also held elsewhere and assigns no
\* slot into which an address is held, and the addresses lead where they should.
Careful == ~leaked' /\ Follow

\* What the item on the running frame's stack leads to.
LEMMA ItemFacts ==
    ASSUME HeapInv, NEW k \in 1..Len(stack[depth])
    PROVE  LET it == Item(k)
           IN  /\ it.is \in Kinds /\ ItemOK(cell, outer, Places, depth, it)
               /\ it.is \in {"struct", "&n"} => it.id \in Places /\ outer[it.id] \in Places
               /\ it.is \in {"nested", "&x"} => it.id \in Places
               /\ it.is \in {"struct", "nested"} => it.of = Nil
               /\ it.is \in {"&", "&n", "&x"} =>
                     /\ it.of \in Slots \ ({0} \X Lists) /\ it.of # Nil /\ it.of[1] <= depth
                     /\ cell[it.of] \in Places /\ outer[cell[it.of]] \in Places /\ cell[it.of] # Nil
                     /\ SlotsSeen[it.of] = inner[outer[cell[it.of]]]
               /\ Follow => /\ it.is = "&n" => it.id = cell[it.of]
                            /\ it.is = "&x" => it.id = outer[cell[it.of]]
<1> DEFINE it == Item(k)
<1>1. ItemOK(cell, outer, Places, depth, it) /\ (Follow => Follows(cell, outer, it))
  BY ItemIs
<1> HIDE DEF it
<1>2. it.is \in {"&", "&n", "&x"} =>
         /\ it.of \in Slots \ ({0} \X Lists) /\ it.of # Nil /\ it.of[1] <= depth
         /\ cell[it.of] \in Places /\ outer[cell[it.of]] \in Places /\ cell[it.of] # Nil
  <2>1. it.is \in {"&", "&n", "&x"} => it.of \in Slots \ ({0} \X Lists) /\ it.of[1] <= depth /\ cell[it.of] # Nil
    BY <1>1 DEF ItemOK
  <2>2. \A s \in Slots : s # Nil /\ (cell[s] # Nil => cell[s] \in Places /\ outer[cell[s]] \in Places)
    BY OwnedSlots DEF HeapInv, Sound, SlotsOK
  <2> QED BY <2>1, <2>2
<1>3. it.is \in {"&", "&n", "&x"} => SlotsSeen[it.of] = inner[outer[cell[it.of]]]
  BY <1>2 DEF SlotsSeen, SlotView
<1>4. /\ it.is \in Kinds
      /\ it.is \in {"struct", "&n"} => it.id \in Places /\ outer[it.id] \in Places
      /\ it.is \in {"nested", "&x"} => it.id \in Places
      /\ it.is \in {"struct", "nested"} => it.of = Nil
  BY <1>1 DEF ItemOK
<1> QED BY <1>1, <1>2, <1>3, <1>4 DEF Follows, it

\* A pointer that is pushed, as it is seen.
LEMMA ValueSeen ==
    ASSUME NEW is \in {"struct", "nested"}, NEW p \in Places, is = "struct" => outer[p] \in Places
    PROVE  /\ \A d : ItemOK(cell, outer, Places, d, Value(is, p))
           /\ Follows(cell, outer, Value(is, p))
           /\ ItemView(outer, inner, Value(is, p))
                = Values!Value(is, IF is = "struct" THEN inner[outer[p]] ELSE inner[p])
<1> DEFINE it == Value(is, p)
<1>1. it \in [is : Kinds, of : Slots \union {Nil}, id : Places \union {Nil}]
      /\ it.is = is /\ it.of = Nil /\ it.id = p
  BY DEF Value, Kinds
<1> HIDE DEF it
<1>2. \A d : ItemOK(cell, outer, Places, d, it)
  BY <1>1 DEF ItemOK
<1>3. Follows(cell, outer, it)
  BY <1>1 DEF Follows
<1>4. ItemView(outer, inner, it) = [is |-> is, of |-> Nil, num |-> IF is = "struct" THEN inner[outer[p]] ELSE inner[p]]
  BY <1>1 DEF ItemView, NumIn
<1> QED BY <1>2, <1>3, <1>4 DEF Values!Value, it

\* An address that is pushed, as it is seen.
LEMMA AddressSeen ==
    ASSUME HeapInv, NEW is \in {"&", "&n", "&x"}, NEW s \in Slots \ ({0} \X Lists), NEW p \in Places \union {Nil},
           s[1] <= depth, cell[s] # Nil, is = "&" <=> p = Nil, is = "&n" => outer[p] \in Places
    PROVE  /\ ItemOK(cell, outer, Places, depth, Address(is, s, p))
           /\ (is = "&n" => p = cell[s]) /\ (is = "&x" => p = outer[cell[s]])
                => Follows(cell, outer, Address(is, s, p))
           /\ ItemView(outer, inner, Address(is, s, p)) = Values!Address(is, s)
<1> DEFINE it == Address(is, s, p)
<1>1. it \in [is : Kinds, of : Slots \union {Nil}, id : Places \union {Nil}]
      /\ it.is = is /\ it.of = s /\ it.id = p
  BY DEF Address, Kinds
<1> HIDE DEF it
<1>2. ItemOK(cell, outer, Places, depth, it)
  BY <1>1 DEF ItemOK
<1>3. (is = "&n" => p = cell[s]) /\ (is = "&x" => p = outer[cell[s]]) => Follows(cell, outer, it)
  BY <1>1 DEF Follows
<1>4. ItemView(outer, inner, it) = [is |-> is, of |-> s, num |-> NoNum]
  BY <1>1 DEF ItemView
<1> QED BY <1>2, <1>3, <1>4 DEF Values!Address, it

\* A slot that is there, as it is seen.
LEMMA HereSeen ==
    ASSUME HeapInv, NEW s \in Slots, Here(s)
    PROVE  /\ Values!Here(s) /\ cell[s] # Nil /\ cell[s] \in Places /\ outer[cell[s]] \in Places /\ s[1] <= depth
           /\ SlotsSeen[s] = inner[outer[cell[s]]] /\ SlotsSeen[s] # NoNum
<1>1. cell[s] # Nil /\ cell[s] \in Places /\ outer[cell[s]] \in Places /\ s[1] \in {0, depth} /\ s[1] <= depth
  BY DEF Here, HeapInv, Sound, SlotsOK, FramesOK
<1>2. inner[outer[cell[s]]] \in Nums
  BY <1>1 DEF HeapInv
<1>3. SlotsSeen[s] = inner[outer[cell[s]]]
  BY <1>1 DEF SlotsSeen, SlotView
<1> QED BY <1>1, <1>2, <1>3 DEF Values!Here

-----------------------------------------------------------------------------
(* Instructions that push or pop.                                          *)

HIDE StructValuesAssumption

\* A variable is loaded: the pointer that is pushed is seen as a copy.
LEMMA LoadDoes ==
    ASSUME HeapInv, NEW s \in Slots, Load(s)
    PROVE  HeapInv' /\ (Careful => Follow' /\ Values!Next)
<1> DEFINE x == Value("struct", cell[s])
<1>1. Here(s) /\ Push(0, x) /\ UNCHANGED depth
  BY DEF Load
<1>2. /\ Values!Here(s) /\ cell[s] \in Places /\ outer[cell[s]] \in Places
      /\ SlotsSeen[s] = inner[outer[cell[s]]] /\ SlotsSeen[s] # NoNum
  BY <1>1, HereSeen
<1>3. /\ ItemOK(cell, outer, Places, depth, x) /\ Follows(cell, outer, x)
      /\ ItemView(outer, inner, x) = Values!Value("struct", SlotsSeen[s])
  BY <1>2, ValueSeen
<1> HIDE DEF x
<1>4. 0 \in 0..Len(stack[depth])
  BY LenProperties DEF HeapInv, FramesOK, Sound, StacksOK
<1>5. /\ HeapInv' /\ SlotsSeen' = SlotsSeen /\ RefsSeen' = RefsSeen
      /\ StacksSeen' = After(0, <<ItemView(outer, inner, x)>>)
      /\ Follow /\ Follows(cell, outer, x) => Follow'
  BY <1>1, <1>3, <1>4, PushDoes
<1>6. Values!Next
  BY <1>1, <1>2, <1>3, <1>5, Reads
<1> QED BY <1>3, <1>5, <1>6 DEF Careful

\* The field of a value, or through an address, is loaded.
LEMMA LoadFieldDoes ==
    ASSUME HeapInv, LoadField
    PROVE  HeapInv' /\ (Careful => Follow' /\ Values!Next)
<1>1. UNCHANGED depth /\ 1 \in 1..Len(stack[depth]) /\ 1 \in 0..Len(stack[depth])
  BY HasItem, ItemIs DEF LoadField
<1>2. Values!Has(1) /\ Values!Item(1) = ItemView(outer, inner, Item(1))
      /\ Values!Item(1).is = Item(1).is /\ Values!Item(1).of = Item(1).of
  BY <1>1, ItemSeen
<1>3. CASE Item(1).is = "struct" /\ Push(1, Value("nested", outer[Item(1).id]))
  <2> DEFINE x == Value("nested", outer[Item(1).id])
  <2>1. Item(1).id \in Places /\ outer[Item(1).id] \in Places
    BY <1>1, <1>3, ItemFacts
  <2>2. Values!Item(1).num = inner[outer[Item(1).id]]
    BY <1>2, <1>3 DEF ItemView, NumIn
  <2>3. /\ ItemOK(cell, outer, Places, depth, x) /\ Follows(cell, outer, x)
        /\ ItemView(outer, inner, x) = Values!Value("nested", Values!Item(1).num)
    BY <2>1, <2>2, ValueSeen
  <2> HIDE DEF x
  <2>4. Push(1, x)
    BY <1>3 DEF x
  <2>5. /\ HeapInv' /\ SlotsSeen' = SlotsSeen /\ RefsSeen' = RefsSeen
        /\ StacksSeen' = After(1, <<ItemView(outer, inner, x)>>)
        /\ Follow /\ Follows(cell, outer, x) => Follow'
    BY <1>1, <2>3, <2>4, PushDoes
  <2>6. Values!Next
    BY <1>1, <1>2, <1>3, <2>3, <2>5, Reads
  <2> QED BY <2>3, <2>5, <2>6 DEF Careful
<1>4. CASE Item(1).is = "&" /\ Push(1, Value("nested", outer[cell[Item(1).of]]))
  <2> DEFINE x == Value("nested", outer[cell[Item(1).of]])
  <2>1. outer[cell[Item(1).of]] \in Places /\ SlotsSeen[Item(1).of] = inner[outer[cell[Item(1).of]]]
    BY <1>1, <1>4, ItemFacts
  <2>3. /\ ItemOK(cell, outer, Places, depth, x) /\ Follows(cell, outer, x)
        /\ ItemView(outer, inner, x) = Values!Value("nested", SlotsSeen[Item(1).of])
    BY <2>1, ValueSeen
  <2> HIDE DEF x
  <2>4. Push(1, x)
    BY <1>4 DEF x
  <2>5. /\ HeapInv' /\ SlotsSeen' = SlotsSeen /\ RefsSeen' = RefsSeen
        /\ StacksSeen' = After(1, <<ItemView(outer, inner, x)>>)
        /\ Follow /\ Follows(cell, outer, x) => Follow'
    BY <1>1, <2>3, <2>4, PushDoes
  <2>6. Values!Next
    BY <1>1, <1>2, <1>4, <2>3, <2>5, Reads
  <2> QED BY <2>3, <2>5, <2>6 DEF Careful
<1> QED BY <1>3, <1>4, HasItem DEF LoadField

\* What an address leads to is loaded; an address of a field leads into its slot.
LEMMA LoadIndirectDoes ==
    ASSUME HeapInv, LoadIndirect
    PROVE  HeapInv' /\ (Careful => Follow' /\ Values!Next)
<1>1. UNCHANGED depth /\ 1 \in 1..Len(stack[depth]) /\ 1 \in 0..Len(stack[depth])
  BY HasItem, ItemIs DEF LoadIndirect
<1>2. Values!Has(1) /\ Values!Item(1).is = Item(1).is /\ Values!Item(1).of = Item(1).of
  BY <1>1, ItemSeen
<1>3. CASE Item(1).is = "&" /\ Push(1, Value("struct", cell[Item(1).of]))
  <2> DEFINE x == Value("struct", cell[Item(1).of])
  <2>1. /\ cell[Item(1).of] \in Places /\ outer[cell[Item(1).of]] \in Places
        /\ SlotsSeen[Item(1).of] = inner[outer[cell[Item(1).of]]]
    BY <1>1, <1>3, ItemFacts
  <2>3. /\ ItemOK(cell, outer, Places, depth, x) /\ Follows(cell, outer, x)
        /\ ItemView(outer, inner, x) = Values!Value("struct", SlotsSeen[Item(1).of])
    BY <2>1, ValueSeen
  <2> HIDE DEF x
  <2>4. Push(1, x)
    BY <1>3 DEF x
  <2>5. /\ HeapInv' /\ SlotsSeen' = SlotsSeen /\ RefsSeen' = RefsSeen
        /\ StacksSeen' = After(1, <<ItemView(outer, inner, x)>>)
        /\ Follow /\ Follows(cell, outer, x) => Follow'
    BY <1>1, <2>3, <2>4, PushDoes
  <2>6. Values!Next
    BY <1>1, <1>2, <1>3, <2>3, <2>5, Reads
  <2> QED BY <2>3, <2>5, <2>6 DEF Careful
<1>4. CASE Item(1).is = "&n" /\ Push(1, Value("nested", outer[Item(1).id]))
  <2> DEFINE x == Value("nested", outer[Item(1).id])
  <2>1. /\ outer[Item(1).id] \in Places /\ SlotsSeen[Item(1).of] = inner[outer[cell[Item(1).of]]]
        /\ Follow => Item(1).id = cell[Item(1).of]
    BY <1>1, <1>4, ItemFacts
  <2>3. /\ ItemOK(cell, outer, Places, depth, x) /\ Follows(cell, outer, x)
        /\ ItemView(outer, inner, x) = Values!Value("nested", inner[outer[Item(1).id]])
    BY <2>1, ValueSeen
  <2> HIDE DEF x
  <2>4. Push(1, x)
    BY <1>4 DEF x
  <2>5. /\ HeapInv' /\ SlotsSeen' = SlotsSeen /\ RefsSeen' = RefsSeen
        /\ StacksSeen' = After(1, <<ItemView(outer, inner, x)>>)
        /\ Follow /\ Follows(cell, outer, x) => Follow'
    BY <1>1, <2>3, <2>4, PushDoes
  <2>6. ASSUME Follow PROVE Values!Next
    <3>1. StacksSeen' = After(1, <<Values!Value("nested", SlotsSeen[Values!Item(1).of])>>)
      BY <1>2, <2>1, <2>3, <2>5, <2>6
    <3> QED BY <1>1, <1>2, <1>4, <2>5, <3>1, Reads
  <2> QED BY <2>3, <2>5, <2>6 DEF Careful
<1> QED BY <1>3, <1>4, HasItem DEF LoadIndirect

\* The address of a variable is taken.
LEMMA LoadAddrDoes ==
    ASSUME HeapInv, NEW s \in Slots, LoadAddr(s)
    PROVE  HeapInv' /\ (Careful => Follow' /\ Values!Next)
<1> DEFINE x == Address("&", s, Nil)
<1>1. Here(s) /\ s[2] \notin Lists /\ Push(0, x) /\ UNCHANGED depth
  BY DEF LoadAddr
<1>2. Values!Here(s) /\ cell[s] # Nil /\ SlotsSeen[s] # NoNum /\ s[1] <= depth
  BY <1>1, HereSeen
<1>3. /\ ItemOK(cell, outer, Places, depth, x) /\ Follows(cell, outer, x)
      /\ ItemView(outer, inner, x) = Values!Address("&", s)
  <2>1. s \in Slots \ ({0} \X Lists)
    BY <1>1
  <2> QED BY <1>2, <2>1, AddressSeen
<1> HIDE DEF x
<1>4. 0 \in 0..Len(stack[depth])
  BY LenProperties DEF HeapInv, FramesOK, Sound, StacksOK
<1>5. /\ HeapInv' /\ SlotsSeen' = SlotsSeen /\ RefsSeen' = RefsSeen
      /\ StacksSeen' = After(0, <<ItemView(outer, inner, x)>>)
      /\ Follow /\ Follows(cell, outer, x) => Follow'
  BY <1>1, <1>3, <1>4, PushDoes
<1>6. Values!Next
  BY <1>1, <1>2, <1>3, <1>5, Handles
<1> QED BY <1>3, <1>5, <1>6 DEF Careful

\* The address of a field is taken, from an address.
LEMMA LoadFieldAddrDoes ==
    ASSUME HeapInv, LoadFieldAddr
    PROVE  HeapInv' /\ (Careful => Follow' /\ Values!Next)
<1>1. UNCHANGED depth /\ 1 \in 1..Len(stack[depth]) /\ 1 \in 0..Len(stack[depth])
  BY HasItem, ItemIs DEF LoadFieldAddr
<1>2. Values!Has(1) /\ Values!Item(1).is = Item(1).is /\ Values!Item(1).of = Item(1).of
  BY <1>1, ItemSeen
<1>3. CASE Item(1).is = "&" /\ Push(1, Address("&n", Item(1).of, cell[Item(1).of]))
  <2> DEFINE s == Item(1).of
             x == Address("&n", s, cell[s])
  <2>1. /\ s \in Slots \ ({0} \X Lists) /\ s[1] <= depth
        /\ cell[s] \in Places /\ outer[cell[s]] \in Places /\ cell[s] # Nil
    BY <1>1, <1>3, ItemFacts
  <2> HIDE DEF s
  <2>3. /\ ItemOK(cell, outer, Places, depth, x) /\ Follows(cell, outer, x)
        /\ ItemView(outer, inner, x) = Values!Address("&n", s)
    BY <2>1, AddressSeen
  <2> HIDE DEF x
  <2>4. Push(1, x)
    BY <1>3 DEF x, s
  <2>5. /\ HeapInv' /\ SlotsSeen' = SlotsSeen /\ RefsSeen' = RefsSeen
        /\ StacksSeen' = After(1, <<ItemView(outer, inner, x)>>)
        /\ Follow /\ Follows(cell, outer, x) => Follow'
    BY <1>1, <2>3, <2>4, PushDoes
  <2>6. Values!Next
    BY <1>1, <1>2, <1>3, <2>3, <2>5, Handles DEF s
  <2> QED BY <2>3, <2>5, <2>6 DEF Careful
<1>4. CASE Item(1).is = "&n" /\ Push(1, Address("&x", Item(1).of, outer[Item(1).id]))
  <2> DEFINE s == Item(1).of
             p == outer[Item(1).id]
             x == Address("&x", s, p)
  <2>1. /\ s \in Slots \ ({0} \X Lists) /\ s[1] <= depth /\ cell[s] # Nil
        /\ p \in Places /\ (Follow => p = outer[cell[s]])
    BY <1>1, <1>4, ItemFacts
  <2> HIDE DEF s, p
  <2>3. /\ ItemOK(cell, outer, Places, depth, x) /\ (Follow => Follows(cell, outer, x))
        /\ ItemView(outer, inner, x) = Values!Address("&x", s)
    <3>1. p # Nil
      BY <2>1, StructValuesAssumption
    <3> QED BY <2>1, <3>1, AddressSeen
  <2> HIDE DEF x
  <2>4. Push(1, x)
    BY <1>4 DEF x, s, p
  <2>5. /\ HeapInv' /\ SlotsSeen' = SlotsSeen /\ RefsSeen' = RefsSeen
        /\ StacksSeen' = After(1, <<ItemView(outer, inner, x)>>)
        /\ Follow /\ Follows(cell, outer, x) => Follow'
    BY <1>1, <2>3, <2>4, PushDoes
  <2>6. Values!Next
    BY <1>1, <1>2, <1>4, <2>3, <2>5, Handles DEF s
  <2> QED BY <2>3, <2>5, <2>6 DEF Careful
<1> QED BY <1>3, <1>4, HasItem DEF LoadFieldAddr

\* The address the method was passed is pushed.
LEMMA LoadRefArgDoes ==
    ASSUME HeapInv, LoadRefArg
    PROVE  HeapInv' /\ (Careful => Follow' /\ Values!Next)
<1> DEFINE x == ref[depth]
<1>1. x # NoItem /\ Push(0, x) /\ UNCHANGED depth
  BY DEF LoadRefArg
<1>2. depth \in Frames /\ ItemOK(cell, outer, Places, depth, x) /\ (Follow => Follows(cell, outer, x))
  BY <1>1 DEF HeapInv, FramesOK, Sound, RefsOK, Follow, Followed
<1>3. RefsSeen[depth] = ItemView(outer, inner, x)
  BY <1>1, <1>2 DEF RefsSeen, RefView
<1> HIDE DEF x
<1>7. RefsSeen[depth] # NoItem
  <2>1. /\ x.is \in Kinds /\ x.of \in Slots \union {Nil}
        /\ x.is = "struct" => x.id \in Places /\ outer[x.id] \in Places
        /\ x.is = "nested" => x.id \in Places
    BY <1>2 DEF ItemOK
  <2>2. x.is \in {"struct", "nested"} => NumIn(outer, inner, x) \in Nums
    BY <2>1 DEF NumIn, HeapInv
  <2>3. ItemView(outer, inner, x) \in [is : Kinds, of : Slots \union {Nil}, num : Nums \union {NoNum}]
    BY <2>1, <2>2 DEF ItemView
  <2> QED BY <1>3, <2>3, StructValuesAssumption
<1>4. 0 \in 0..Len(stack[depth])
  BY LenProperties DEF HeapInv, FramesOK, Sound, StacksOK
<1>5. /\ HeapInv' /\ SlotsSeen' = SlotsSeen /\ RefsSeen' = RefsSeen
      /\ StacksSeen' = After(0, <<ItemView(outer, inner, x)>>)
      /\ Follow /\ Follows(cell, outer, x) => Follow'
  BY <1>1, <1>2, <1>4, PushDoes
<1>6. Values!Next
  BY <1>1, <1>3, <1>5, <1>7, Handles
<1> QED BY <1>2, <1>5, <1>6 DEF Careful

\* The item on top is pushed again.
LEMMA DupDoes ==
    ASSUME HeapInv, Dup
    PROVE  HeapInv' /\ (Careful => Follow' /\ Values!Next)
<1> DEFINE x == Item(1)
<1>1. Push(0, x) /\ UNCHANGED depth /\ 1 \in 1..Len(stack[depth])
  BY HasItem DEF Dup
<1>2. ItemOK(cell, outer, Places, depth, x) /\ (Follow => Follows(cell, outer, x))
  BY <1>1, ItemIs
<1>3. Values!Has(1) /\ Values!Item(1) = ItemView(outer, inner, x)
  BY <1>1, ItemSeen
<1> HIDE DEF x
<1>4. 0 \in 0..Len(stack[depth])
  BY LenProperties DEF HeapInv, FramesOK, Sound, StacksOK
<1>5. /\ HeapInv' /\ SlotsSeen' = SlotsSeen /\ RefsSeen' = RefsSeen
      /\ StacksSeen' = After(0, <<ItemView(outer, inner, x)>>)
      /\ Follow /\ Follows(cell, outer, x) => Follow'
  BY <1>1, <1>2, <1>4, PushDoes
<1>6. Values!Next
  BY <1>1, <1>3, <1>5, Handles
<1> QED BY <1>2, <1>5, <1>6 DEF Careful

\* The item on top is thrown away.
LEMMA PopStepDoes ==
    ASSUME HeapInv, Pop
    PROVE  HeapInv' /\ (Careful => Follow' /\ Values!Next)
<1>1. Keep(Popped(1, <<>>)) /\ UNCHANGED depth /\ 1 \in 1..Len(stack[depth])
  BY HasItem DEF Pop
<1>2. 1 \in 0..Len(stack[depth]) /\ Values!Has(1)
  BY <1>1, ItemIs, ItemSeen
<1>3. /\ HeapInv' /\ SlotsSeen' = SlotsSeen /\ RefsSeen' = RefsSeen
      /\ StacksSeen' = After(1, <<>>) /\ (Follow => Follow')
  BY <1>1, <1>2, PopDoes
<1>4. Values!Next
  BY <1>1, <1>2, <1>3, Handles
<1> QED BY <1>3, <1>4 DEF Careful

-----------------------------------------------------------------------------
(* Instructions that write.                                                *)

\* What is on the stacks, and what is passed, taken together.
LEMMA AllAre ==
    ASSUME HeapInv
    PROVE  /\ \A d \in Frames : \A j \in 1..Len(stack[d]) : stack[d][j] \in All
           /\ \A d \in Frames : ref[d] # NoItem => ref[d] \in All
           /\ \A it \in All : \E d \in Frames : ItemOK(cell, outer, Places, d, it) /\ d <= depth
           /\ Follow => \A it \in All : Follows(cell, outer, it)
<1>1. \A d \in Frames : DOMAIN stack[d] = 1..Len(stack[d])
  BY LenProperties DEF HeapInv, Sound, StacksOK
<1> DEFINE On(d) == {stack[d][j] : j \in DOMAIN stack[d]}
           InHand == UNION {On(d) : d \in Frames}
           Passed == {ref[d] : d \in {e \in Frames : ref[e] # NoItem}}
<1>6. All = InHand \union Passed
  BY DEF All
<1>7. \A it : it \in InHand <=> \E d \in Frames : it \in On(d)
  <2> HIDE DEF On
  <2> QED OBVIOUS
<1>8. \A d \in Frames : \A it : it \in On(d) <=> \E j \in 1..Len(stack[d]) : it = stack[d][j]
  BY <1>1
<1>9. \A it : it \in Passed <=> \E d \in Frames : ref[d] # NoItem /\ it = ref[d]
  OBVIOUS
<1> HIDE DEF On, InHand, Passed
<1>2. /\ \A d \in Frames : \A j \in 1..Len(stack[d]) : stack[d][j] \in All
      /\ \A d \in Frames : ref[d] # NoItem => ref[d] \in All
  BY <1>6, <1>7, <1>8, <1>9
<1>3. ASSUME NEW it \in All
      PROVE  \/ \E d \in Frames : \E j \in 1..Len(stack[d]) : it = stack[d][j]
             \/ \E d \in Frames : ref[d] # NoItem /\ it = ref[d]
  BY <1>6, <1>7, <1>8, <1>9
<1>4. ASSUME NEW it \in All PROVE \E d \in Frames : ItemOK(cell, outer, Places, d, it) /\ d <= depth
  <2>1. CASE \E d \in Frames : \E j \in 1..Len(stack[d]) : it = stack[d][j]
    <3> PICK d \in Frames : \E j \in 1..Len(stack[d]) : it = stack[d][j]
      BY <2>1
    <3> PICK j \in 1..Len(stack[d]) : it = stack[d][j]
      OBVIOUS
    <3>1. ItemOK(cell, outer, Places, d, it)
      BY DEF HeapInv, Sound, StacksOK
    <3>2. d <= depth
      <4>1. Len(<<>>) = 0 /\ \A i : i \notin 1..0
        OBVIOUS
      <4>2. stack[d] # <<>>
        BY <4>1
      <4>3. d \in Nat /\ depth \in Nat
        BY FrameNumbers DEF HeapInv, FramesOK
      <4> QED BY <4>2, <4>3 DEF HeapInv, FramesOK
    <3> QED BY <3>1, <3>2
  <2>2. CASE \E d \in Frames : ref[d] # NoItem /\ it = ref[d]
    <3> PICK d \in Frames : ref[d] # NoItem /\ it = ref[d]
      BY <2>2
    <3>1. ItemOK(cell, outer, Places, d, it)
      BY DEF HeapInv, Sound, RefsOK
    <3>2. d <= depth
      <4>3. d \in Nat /\ depth \in Nat
        BY FrameNumbers DEF HeapInv, FramesOK
      <4> QED BY <4>3 DEF HeapInv, FramesOK
    <3> QED BY <3>1, <3>2
  <2> QED BY <1>3, <2>1, <2>2
<1>5. ASSUME Follow, NEW it \in All PROVE Follows(cell, outer, it)
  BY <1>3, <1>5 DEF Follow, Followed
<1> QED BY <1>2, <1>4, <1>5

\* What everything there is leads to.
LEMMA AllFacts ==
    ASSUME HeapInv, NEW it \in All
    PROVE  /\ it.is \in {"struct", "&n"} => it.id \in Places /\ outer[it.id] \in Places
           /\ it.is \in {"nested", "&x"} => it.id \in Places
           /\ it.is \in {"&", "&n", "&x"} =>
                 /\ it.of \in Slots \ ({0} \X Lists) /\ it.of[1] <= depth
                 /\ cell[it.of] \in Places /\ cell[it.of] # Nil
<1>1. PICK d \in Frames : ItemOK(cell, outer, Places, d, it) /\ d <= depth
  BY AllAre
<1>2. it.is \in {"&", "&n", "&x"} => it.of \in Slots \ ({0} \X Lists) /\ it.of[1] <= d /\ cell[it.of] # Nil
  BY <1>1 DEF ItemOK
<1>3. d \in Nat /\ depth \in Nat /\ \A s \in Slots : s[1] \in Nat
  BY FrameNumbers DEF HeapInv, FramesOK
<1>4. it.is \in {"&", "&n", "&x"} => it.of[1] <= depth
  BY <1>1, <1>2, <1>3
<1> QED BY <1>1, <1>2, <1>4 DEF ItemOK, HeapInv, Sound, SlotsOK

\* What holds of everything there is holds of the stacks.
LEMMA AllFollow ==
    ASSUME HeapInv, NEW c, NEW ou, \A it \in All : Follows(c, ou, it)
    PROVE  FollowsIn(c, ou)
BY AllAre DEF FollowsIn

\* What is seen of the stacks stays, if every number does.
LEMMA AllSame ==
    ASSUME HeapInv, NEW ou, NEW inn,
           \A it \in All : it.is \in {"struct", "nested"} => NumIn(ou, inn, it) = NumIn(outer, inner, it)
    PROVE  SameSeen(ou, inn)
<1>1. ASSUME NEW it \in All PROVE ItemView(ou, inn, it) = ItemView(outer, inner, it)
  BY DEF ItemView
<1> QED BY <1>1, AllAre DEF SameSeen, SameItems

\* newobj: a new Struct on the stack.
LEMMA NewObjDoes ==
    ASSUME HeapInv, NEW v \in Nums, NewObj(v)
    PROVE  HeapInv' /\ (Careful => Follow' /\ Values!Next)
<1> DEFINE N == Places \union {New}
           ou == NewOuter(New)
           inn == NewInner(v)
           x == Value("struct", New)
<1>1. Becomes(cell, ou, inn, Popped(0, <<x>>), ref) /\ UNCHANGED depth /\ Len(stack[depth]) < MaxItems
  BY DEF NewObj, Alloc
<1>2. /\ Names(N) /\ ou[New] = New /\ inn[New] = v
      /\ \A p \in Places : ou[p] = outer[p] /\ inn[p] = inner[p]
      /\ \A n \in N : inn[n] \in Nums
      /\ SameSeen(ou, inn)
      /\ \A s \in Slots : cell[s] # Nil => inn[ou[cell[s]]] = inner[outer[cell[s]]]
  BY NewChangesNothing
<1> HIDE DEF ou, inn
<1>3. Grown(cell, ou, N)
  BY <1>2 DEF Grown
<1>4. SlotsOK(cell, ou, N)
  BY <1>2 DEF HeapInv, Sound, SlotsOK
<1>5. \A s \in Slots : cell[s] # Nil => s[1] <= depth
  BY DEF HeapInv, FramesOK
<1>6. ItemOK(cell, ou, N, depth, x) /\ ItemView(ou, inn, x) = Values!Value("struct", v) /\ Follows(cell, ou, x)
  <2>1. /\ x \in [is : Kinds, of : Slots \union {Nil}, id : N \union {Nil}]
        /\ x.is = "struct" /\ x.of = Nil /\ x.id = New
    BY DEF Value, Kinds
  <2> HIDE DEF x
  <2>2. NumIn(ou, inn, x) = v
    BY <1>2, <2>1 DEF NumIn
  <2>3. ItemView(ou, inn, x) = Values!Value("struct", v)
    BY <2>1, <2>2 DEF ItemView, Values!Value
  <2>4. ItemOK(cell, ou, N, depth, x)
    BY <1>2, <2>1 DEF ItemOK
  <2> QED BY <2>1, <2>3, <2>4 DEF Follows
<1>7. 0 \in 0..Len(stack[depth]) /\ Len(stack[depth]) \in Nat
  BY LenProperties DEF HeapInv, FramesOK, Sound, StacksOK
<1> HIDE DEF x, N
<1>8. Gains(cell, ou, N, 0, <<x>>)
  <2>1. Len(stack[depth]) - 0 + 1 <= MaxItems
    BY <1>1, <1>7, StructValuesAssumption
  <2> QED BY <1>6, <1>7, <2>1, OneGained
<1>9. /\ HeapInv' /\ SlotsSeen' = SlotView(cell, ou, inn)
      /\ SameSeen(ou, inn) => /\ StacksSeen' = After(0, MapView(ou, inn, <<x>>))
                              /\ RefsSeen' = RefsSeen
      /\ FollowsIn(cell, ou) /\ (\A j \in 1..Len(<<x>>) : Follows(cell, ou, <<x>>[j])) => Follow'
  BY <1>1, <1>2, <1>3, <1>4, <1>5, <1>8, ChangeDoes
<1>10. SlotView(cell, ou, inn) = SlotsSeen
  BY <1>2 DEF SlotsSeen, SlotView
<1>11. StacksSeen' = After(0, <<Values!Value("struct", v)>>)
  BY <1>2, <1>6, <1>9, FewSeen
<1>12. Values!Next
  BY <1>1, <1>2, <1>9, <1>10, <1>11, Handles
<1>13. ASSUME Follow PROVE Follow'
  <2>1. ASSUME NEW it \in All PROVE Follows(cell, ou, it)
    BY <1>2, <1>13, AllFacts, AllAre DEF Follows
  <2>2. FollowsIn(cell, ou)
    BY <2>1, AllFollow
  <2>3. Len(<<x>>) = 1 /\ \A j \in 1..1 : <<x>>[j] = x
    OBVIOUS
  <2> QED BY <2>2, <2>3, <1>6, <1>9
<1> QED BY <1>9, <1>12, <1>13 DEF Careful

\* A slot is cloned into.
LEMMA CloneDoes ==
    ASSUME HeapInv, NEW s \in Slots \ ({0} \X Lists), cell[s] # Nil, NEW v \in Nums,
           NEW k \in 0..Len(stack[depth]), UNCHANGED depth, Leaks(HeldWithin(s, {"&n", "&x"})),
           Alloc([cell EXCEPT ![s] = New], v, Popped(k, <<>>), ref)
    PROVE  /\ HeapInv' /\ SlotsSeen' = [SlotsSeen EXCEPT ![s] = v]
           /\ StacksSeen' = After(k, <<>>) /\ RefsSeen' = RefsSeen
           /\ Careful => Follow'
<1> DEFINE N == Places \union {New}
           ou == NewOuter(New)
           inn == NewInner(v)
           c == [cell EXCEPT ![s] = New]
<1>1. Becomes(c, ou, inn, Popped(k, <<>>), ref)
  BY DEF Alloc
<1>2. /\ Names(N) /\ ou[New] = New /\ inn[New] = v
      /\ \A p \in Places : ou[p] = outer[p] /\ inn[p] = inner[p]
      /\ \A n \in N : inn[n] \in Nums
      /\ SameSeen(ou, inn)
      /\ \A t \in Slots : cell[t] # Nil => inn[ou[cell[t]]] = inner[outer[cell[t]]]
  BY NewChangesNothing
<1>3. cell = [t \in Slots |-> cell[t]] /\ \A t \in Slots : cell[t] # Nil => cell[t] \in Places /\ outer[cell[t]] \in Places
  BY DEF HeapInv, Sound, SlotsOK
<1>4. c = [t \in Slots |-> c[t]] /\ \A t \in Slots : c[t] = IF t = s THEN New ELSE cell[t]
  BY <1>3
<1>0. New \notin Places \union {Nil}
  BY StructValuesAssumption
<1> HIDE DEF ou, inn, c
<1>5. Grown(c, ou, N)
  BY <1>0, <1>2, <1>4 DEF Grown
<1>6. SlotsOK(c, ou, N)
  BY <1>2, <1>3, <1>4 DEF SlotsOK
<1>7. \A t \in Slots : c[t] # Nil => t[1] <= depth
  BY <1>4 DEF HeapInv, FramesOK
<1> HIDE DEF N
<1>8. /\ HeapInv' /\ SlotsSeen' = SlotView(c, ou, inn)
      /\ SameSeen(ou, inn) => StacksSeen' = After(k, <<>>) /\ RefsSeen' = RefsSeen
      /\ FollowsIn(c, ou) => Follow'
  BY <1>1, <1>2, <1>5, <1>6, <1>7, WriteDoes
<1>9. SlotView(c, ou, inn) = [SlotsSeen EXCEPT ![s] = v]
  <2>1. SlotView(c, ou, inn) = [t \in Slots |-> IF t = s THEN v ELSE SlotsSeen[t]]
    BY <1>0, <1>2, <1>4 DEF SlotView, SlotsSeen
  <2>2. SlotsSeen = [t \in Slots |-> SlotsSeen[t]]
    BY DEF SlotsSeen, SlotView
  <2> QED BY <2>1, <2>2
<1>10. ASSUME Careful PROVE FollowsIn(c, ou)
  <2>1. ASSUME NEW it \in All PROVE Follows(c, ou, it)
    <3>1. it.is \in {"&n", "&x"} => it.of # s
      BY <1>10 DEF Careful, Leaks, HeldWithin
    <3>2. Follows(cell, outer, it)
      BY <1>10, AllAre DEF Careful
    <3>3. it.is \in {"&n", "&x"} => it.of \in Slots /\ cell[it.of] \in Places
      BY AllFacts
    <3> QED BY <1>2, <1>4, <3>1, <3>2, <3>3 DEF Follows
  <2> QED BY <2>1, AllFollow
<1> QED BY <1>2, <1>8, <1>9, <1>10

\* The number of a value on the running frame's stack.
LEMMA NumSeen ==
    ASSUME HeapInv, NEW k \in 1..Len(stack[depth]), Item(k).is \in {"struct", "nested"}
    PROVE  /\ Values!Item(k).num \in Nums /\ Values!Item(k).of = Nil /\ Values!Has(k)
           /\ Item(k).is = "struct" => Values!Item(k).num = NumOf(Item(k).id)
           /\ Item(k).is = "nested" => Values!Item(k).num = inner[Item(k).id]
<1>1. Values!Item(k) = ItemView(outer, inner, Item(k)) /\ Values!Has(k)
  BY ItemSeen
<1>2. /\ Item(k).is = "struct" => Item(k).id \in Places /\ outer[Item(k).id] \in Places
      /\ Item(k).is = "nested" => Item(k).id \in Places
      /\ Item(k).of = Nil
  BY ItemFacts
<1>3. Values!Item(k).num = NumIn(outer, inner, Item(k)) /\ Values!Item(k).of = Item(k).of
  BY <1>1 DEF ItemView
<1>4. /\ Item(k).is = "struct" => NumIn(outer, inner, Item(k)) = inner[outer[Item(k).id]]
      /\ Item(k).is = "nested" => NumIn(outer, inner, Item(k)) = inner[Item(k).id]
  BY DEF NumIn
<1>5. \A p \in Places : inner[p] \in Nums
  BY DEF HeapInv
<1> QED BY <1>1, <1>2, <1>3, <1>4, <1>5 DEF NumOf

\* A variable is assigned.
LEMMA StoreDoes ==
    ASSUME HeapInv, NEW s \in Slots, Store(s)
    PROVE  HeapInv' /\ (Careful => Follow' /\ Values!Next)
<1> DEFINE v == NumOf(Item(1).id)
<1>1. /\ Here(s) /\ s[2] \notin Lists /\ Leaks(HeldWithin(s, {"&n", "&x"})) /\ UNCHANGED depth
      /\ Item(1).is = "struct" /\ 1 \in 1..Len(stack[depth]) /\ 1 \in 0..Len(stack[depth])
      /\ Alloc([cell EXCEPT ![s] = New], v, Popped(1, <<>>), ref)
  BY HasItem, ItemIs DEF Store, CloneInto, Assigns
<1>2. v = Values!Item(1).num /\ v \in Nums /\ Values!Has(1) /\ Values!Item(1).is = "struct"
  BY <1>1, NumSeen, ItemSeen
<1>3. s \in Slots \ ({0} \X Lists) /\ cell[s] # Nil /\ Values!Here(s)
  BY <1>1, HereSeen
<1> HIDE DEF v
<1>4. /\ HeapInv' /\ SlotsSeen' = [SlotsSeen EXCEPT ![s] = v]
      /\ StacksSeen' = After(1, <<>>) /\ RefsSeen' = RefsSeen
      /\ Careful => Follow'
  BY <1>1, <1>2, <1>3, CloneDoes
<1>5. Values!Next
  BY <1>1, <1>2, <1>3, <1>4, Writes
<1> QED BY <1>4, <1>5

\* A variable is assigned through its address.
LEMMA StoreIndirectDoes ==
    ASSUME HeapInv, StoreIndirect
    PROVE  HeapInv' /\ (Careful => Follow' /\ Values!Next)
<1> DEFINE v == NumOf(Item(1).id)
           s == Item(2).of
<1>0. Len(stack[depth]) \in Nat
  BY LenProperties DEF HeapInv, FramesOK, Sound, StacksOK
<1>1. /\ Leaks(HeldWithin(s, {"&n", "&x"})) /\ UNCHANGED depth /\ Item(2).is = "&"
      /\ Item(1).is = "struct" /\ 1 \in 1..Len(stack[depth]) /\ 2 \in 1..Len(stack[depth]) /\ 2 \in 0..Len(stack[depth])
      /\ Alloc([cell EXCEPT ![s] = New], v, Popped(2, <<>>), ref)
  BY <1>0, HasItem DEF StoreIndirect, CloneInto, Assigns
<1>2. v = Values!Item(1).num /\ v \in Nums /\ Values!Item(1).of = Nil
  BY <1>1, NumSeen
<1>3. s \in Slots \ ({0} \X Lists) /\ cell[s] # Nil /\ s # Nil
  BY <1>1, ItemFacts
<1>4. Values!Has(2) /\ Values!Item(2).of = s
  BY <1>1, ItemSeen
<1> HIDE DEF v, s
<1>5. /\ HeapInv' /\ SlotsSeen' = [SlotsSeen EXCEPT ![s] = v]
      /\ StacksSeen' = After(2, <<>>) /\ RefsSeen' = RefsSeen
      /\ Careful => Follow'
  BY <1>1, <1>2, <1>3, CloneDoes
<1>6. Values!Next
  BY <1>1, <1>2, <1>3, <1>4, <1>5, Writes
<1> QED BY <1>5, <1>6

\* A variable is reset through its address.
LEMMA InitObjDoes ==
    ASSUME HeapInv, InitObj
    PROVE  HeapInv' /\ (Careful => Follow' /\ Values!Next)
<1> DEFINE s == Item(1).of
<1>1. /\ Leaks(HeldWithin(s, {"&n", "&x"})) /\ UNCHANGED depth /\ Item(1).is = "&"
      /\ 1 \in 1..Len(stack[depth]) /\ 1 \in 0..Len(stack[depth])
      /\ Alloc([cell EXCEPT ![s] = New], 0, Popped(1, <<>>), ref)
  BY HasItem, ItemIs DEF InitObj, Assigns
<1>2. 0 \in Nums
  BY StructValuesAssumption
<1>3. s \in Slots \ ({0} \X Lists) /\ cell[s] # Nil /\ s # Nil
  BY <1>1, ItemFacts
<1>4. Values!Has(1) /\ Values!Item(1).of = s
  BY <1>1, ItemSeen
<1> HIDE DEF s
<1>5. /\ HeapInv' /\ SlotsSeen' = [SlotsSeen EXCEPT ![s] = 0]
      /\ StacksSeen' = After(1, <<>>) /\ RefsSeen' = RefsSeen
      /\ Careful => Follow'
  BY <1>1, <1>2, <1>3, CloneDoes
<1>6. Values!Next
  BY <1>1, <1>2, <1>3, <1>4, <1>5, Writes
<1> QED BY <1>5, <1>6

\* A collection keeps the pointer.
LEMMA ListSetDoes ==
    ASSUME HeapInv, NEW s \in Slots, ListSet(s)
    PROVE  HeapInv' /\ (Careful => Follow' /\ Values!Next)
<1> DEFINE p == Item(1).id
           c == [cell EXCEPT ![s] = p]
<1>1. /\ s \in {0} \X Lists /\ Item(1).is = "struct" /\ UNCHANGED depth
      /\ 1 \in 1..Len(stack[depth]) /\ 1 \in 0..Len(stack[depth])
      /\ Becomes(c, outer, inner, Popped(1, <<>>), ref)
  BY HasItem, ItemIs DEF ListSet
<1>2. p \in Places /\ outer[p] \in Places
  BY <1>1, ItemFacts
<1>3. inner[outer[p]] = Values!Item(1).num /\ Values!Has(1) /\ Values!Item(1).is = "struct"
  BY <1>1, NumSeen, ItemSeen DEF NumOf
<1> HIDE DEF p
<1>4. c = [t \in Slots |-> c[t]] /\ \A t \in Slots : c[t] = IF t = s THEN p ELSE cell[t]
  BY DEF HeapInv, Sound, SlotsOK
<1>5. Nil \notin Places /\ p # Nil
  BY <1>2, StructValuesAssumption
<1> HIDE DEF c
<1>6. Names(Places) /\ Grown(c, outer, Places)
  BY <1>4, <1>5 DEF Names, Grown
<1>7. SlotsOK(c, outer, Places)
  BY <1>2, <1>4 DEF HeapInv, Sound, SlotsOK
<1>8. \A t \in Slots : c[t] # Nil => t[1] <= depth
  <2>1. s[1] = 0 /\ depth \in Nat
    BY <1>1, FrameNumbers DEF HeapInv, FramesOK
  <2> QED BY <1>4, <2>1 DEF HeapInv, FramesOK
<1>9. \A n \in Places : inner[n] \in Nums
  BY DEF HeapInv
<1>10. /\ HeapInv' /\ SlotsSeen' = SlotView(c, outer, inner)
       /\ SameSeen(outer, inner) => StacksSeen' = After(1, <<>>) /\ RefsSeen' = RefsSeen
       /\ FollowsIn(c, outer) => Follow'
  BY <1>1, <1>6, <1>7, <1>8, <1>9, WriteDoes
<1>11. SlotView(c, outer, inner) = [SlotsSeen EXCEPT ![s] = Values!Item(1).num]
  <2>1. SlotView(c, outer, inner) = [t \in Slots |-> IF t = s THEN Values!Item(1).num ELSE SlotsSeen[t]]
    BY <1>3, <1>4, <1>5 DEF SlotView, SlotsSeen
  <2>2. SlotsSeen = [t \in Slots |-> SlotsSeen[t]]
    BY DEF SlotsSeen, SlotView
  <2> QED BY <2>1, <2>2
<1>12. SameSeen(outer, inner)
  BY DEF SameSeen, SameItems
<1>13. ASSUME Follow PROVE FollowsIn(c, outer)
  <2>1. ASSUME NEW it \in All PROVE Follows(c, outer, it)
    <3>1. it.is \in {"&n", "&x"} => it.of # s /\ it.of \in Slots
      BY <1>1, AllFacts
    <3>2. Follows(cell, outer, it)
      BY <1>13, AllAre
    <3> QED BY <1>4, <3>1, <3>2 DEF Follows
  <2> QED BY <2>1, AllFollow
<1>14. Values!Here(s)
  BY <1>1 DEF Values!Here
<1>15. Values!Next
  BY <1>1, <1>3, <1>10, <1>11, <1>12, <1>14, Writes
<1> QED BY <1>10, <1>13, <1>15 DEF Careful

\* The inner Struct of an outer one is replaced.
LEMMA StoreFieldDoes ==
    ASSUME HeapInv, StoreField
    PROVE  HeapInv' /\ (Careful => Follow' /\ Values!Next)
<1> DEFINE s == Item(2).of
           o == IF Item(2).is = "&" THEN cell[Item(2).of] ELSE Item(2).id
           v == inner[Item(1).id]
           N == Places \union {New}
           ou == NewOuter(o)
           inn == NewInner(v)
<1>0. Len(stack[depth]) \in Nat /\ New \notin Places /\ Nil \notin Places
  BY LenProperties, StructValuesAssumption DEF HeapInv, FramesOK, Sound, StacksOK
<1>1. /\ Item(1).is = "nested" /\ Item(2).is \in {"&", "&n"} /\ UNCHANGED depth
      /\ 1 \in 1..Len(stack[depth]) /\ 2 \in 1..Len(stack[depth]) /\ 2 \in 0..Len(stack[depth])
      /\ Leaks(OuterElsewhere(s, o) \/ HeldWithin(s, {"&x"}))
      /\ Becomes(cell, ou, inn, Popped(2, <<>>), ref)
  BY <1>0, HasItem DEF StoreField
<1>2. v = Values!Item(1).num /\ v \in Nums /\ Values!Item(1).of = Nil
  BY <1>1, NumSeen
<1>3. /\ s \in Slots \ ({0} \X Lists) /\ cell[s] # Nil /\ cell[s] \in Places /\ s # Nil
      /\ o \in Places /\ (Follow => o = cell[s])
  BY <1>1, ItemFacts
<1>4. Values!Has(2) /\ Values!Item(2).of = s
  BY <1>1, ItemSeen
<1> HIDE DEF v, s, o
<1>5. /\ ou[o] = New /\ ou[New] = New /\ inn[New] = v
      /\ \A p \in Places : (p # o => ou[p] = outer[p]) /\ inn[p] = inner[p]
  BY <1>0, <1>3 DEF NewOuter, NewInner
<1> HIDE DEF ou, inn
<1>6. /\ cell = [t \in Slots |-> cell[t]]
      /\ \A t \in Slots : cell[t] # Nil => cell[t] \in Places /\ outer[cell[t]] \in Places /\ t[1] <= depth
      /\ \A p \in Places : inner[p] \in Nums
  BY DEF HeapInv, Sound, SlotsOK, FramesOK
<1>7. Names(N) /\ Grown(cell, ou, N)
  BY <1>5 DEF Names, Grown
<1>8. SlotsOK(cell, ou, N)
  BY <1>5, <1>6 DEF SlotsOK
<1>9. \A n \in N : inn[n] \in Nums
  BY <1>2, <1>5, <1>6
<1> HIDE DEF N
<1>10. /\ HeapInv' /\ SlotsSeen' = SlotView(cell, ou, inn)
       /\ SameSeen(ou, inn) => StacksSeen' = After(2, <<>>) /\ RefsSeen' = RefsSeen
       /\ FollowsIn(cell, ou) => Follow'
  BY <1>1, <1>6, <1>7, <1>8, <1>9, WriteDoes
<1>11. ASSUME Careful PROVE Follow' /\ Values!Next
  <2>1. /\ o = cell[s] /\ \A t \in Slots : t # s => cell[t] # o
        /\ \A it \in All : ~(it.is = "struct" /\ it.id = o) /\ ~(it.of = s /\ it.is = "&x")
    BY <1>1, <1>3, <1>11 DEF Careful, Leaks, OuterElsewhere, HeldWithin
  <2>2. SlotView(cell, ou, inn) = [SlotsSeen EXCEPT ![s] = v]
    <3>1. SlotView(cell, ou, inn) = [t \in Slots |-> IF t = s THEN v ELSE SlotsSeen[t]]
      BY <2>1, <1>3, <1>5, <1>6 DEF SlotView, SlotsSeen
    <3>2. SlotsSeen = [t \in Slots |-> SlotsSeen[t]]
      BY DEF SlotsSeen, SlotView
    <3> QED BY <3>1, <3>2
  <2>3. SameSeen(ou, inn)
    <3>1. ASSUME NEW it \in All, it.is \in {"struct", "nested"}
          PROVE  NumIn(ou, inn, it) = NumIn(outer, inner, it)
      <4>1. /\ it.is = "struct" => it.id \in Places /\ outer[it.id] \in Places /\ it.id # o
            /\ it.is = "nested" => it.id \in Places
        BY <2>1, AllFacts
      <4> QED BY <4>1, <3>1, <1>5 DEF NumIn
    <3> QED BY <3>1, AllSame
  <2>4. FollowsIn(cell, ou)
    <3>1. ASSUME NEW it \in All PROVE Follows(cell, ou, it)
      <4>1. Follows(cell, outer, it)
        BY <1>11, AllAre DEF Careful
      <4>2. it.is = "&x" => it.of \in Slots /\ cell[it.of] \in Places /\ cell[it.of] # o
        BY <2>1, AllFacts
      <4> QED BY <4>1, <4>2, <1>5 DEF Follows
    <3> QED BY <3>1, AllFollow
  <2>5. Values!Next
    BY <1>1, <1>2, <1>3, <1>4, <1>10, <2>2, <2>3, Writes
  <2> QED BY <1>10, <2>4, <2>5
<1> QED BY <1>10, <1>11

\* The number in an inner Struct is changed.
LEMMA StoreNumDoes ==
    ASSUME HeapInv, NEW v \in Nums, StoreNum(v)
    PROVE  HeapInv' /\ (Careful => Follow' /\ Values!Next)
<1> DEFINE s == Item(1).of
           i == IF Item(1).is = "&n" THEN outer[Item(1).id] ELSE Item(1).id
           inn == [inner EXCEPT ![i] = v]
<1>1. /\ Item(1).is \in {"&n", "&x"} /\ UNCHANGED depth
      /\ 1 \in 1..Len(stack[depth]) /\ 1 \in 0..Len(stack[depth])
      /\ Leaks(InnerElsewhere(s, i))
      /\ Becomes(cell, outer, inn, Popped(1, <<>>), ref)
  BY HasItem, ItemIs DEF StoreNum
<1>3. /\ s \in Slots \ ({0} \X Lists) /\ cell[s] # Nil /\ cell[s] \in Places /\ s # Nil
      /\ i \in Places /\ (Follow => i = outer[cell[s]])
  BY <1>1, ItemFacts
<1>4. Values!Has(1) /\ Values!Item(1).of = s
  BY <1>1, ItemSeen
<1> HIDE DEF s, i
<1>5. \A p \in Places : inn[p] = IF p = i THEN v ELSE inner[p]
  BY <1>3 DEF HeapInv
<1> HIDE DEF inn
<1>6. /\ \A t \in Slots : cell[t] # Nil => cell[t] \in Places /\ outer[cell[t]] \in Places /\ t[1] <= depth
      /\ \A p \in Places : inner[p] \in Nums
      /\ SlotsOK(cell, outer, Places)
  BY DEF HeapInv, Sound, SlotsOK, FramesOK
<1>7. Names(Places) /\ Grown(cell, outer, Places)
  BY DEF Names, Grown
<1>9. \A n \in Places : inn[n] \in Nums
  BY <1>5, <1>6
<1>10. /\ HeapInv' /\ SlotsSeen' = SlotView(cell, outer, inn)
       /\ SameSeen(outer, inn) => StacksSeen' = After(1, <<>>) /\ RefsSeen' = RefsSeen
       /\ FollowsIn(cell, outer) => Follow'
  BY <1>1, <1>6, <1>7, <1>9, WriteDoes
<1>11. ASSUME Careful PROVE Follow' /\ Values!Next
  <2>1. /\ i = outer[cell[s]] /\ \A t \in Slots : t # s /\ cell[t] # Nil => outer[cell[t]] # i
        /\ \A it \in All : ~(it.is = "struct" /\ outer[it.id] = i) /\ ~(it.is = "nested" /\ it.id = i)
    BY <1>1, <1>3, <1>11 DEF Careful, Leaks, InnerElsewhere
  <2>2. SlotView(cell, outer, inn) = [SlotsSeen EXCEPT ![s] = v]
    <3>1. SlotView(cell, outer, inn) = [t \in Slots |-> IF t = s THEN v ELSE SlotsSeen[t]]
      BY <2>1, <1>3, <1>5, <1>6 DEF SlotView, SlotsSeen
    <3>2. SlotsSeen = [t \in Slots |-> SlotsSeen[t]]
      BY DEF SlotsSeen, SlotView
    <3> QED BY <3>1, <3>2
  <2>3. SameSeen(outer, inn)
    <3>1. ASSUME NEW it \in All, it.is \in {"struct", "nested"}
          PROVE  NumIn(outer, inn, it) = NumIn(outer, inner, it)
      <4>1. /\ it.is = "struct" => outer[it.id] \in Places /\ outer[it.id] # i
            /\ it.is = "nested" => it.id \in Places /\ it.id # i
        BY <2>1, AllFacts
      <4> QED BY <4>1, <3>1, <1>5 DEF NumIn
    <3> QED BY <3>1, AllSame
  <2>4. FollowsIn(cell, outer)
    BY <1>11, FollowIs DEF Careful
  <2>5. Values!Next
    BY <1>1, <1>3, <1>4, <1>10, <2>2, <2>3, Writes
  <2> QED BY <1>10, <2>4, <2>5
<1> QED BY <1>10, <1>11

-----------------------------------------------------------------------------
(* Calls and returns.                                                      *)

\* An item is seen as before, whatever Struct is new, and follows its slot as
\* long as that slot is what it was.
LEMMA NewSees ==
    ASSUME HeapInv, NEW v, NEW d, NEW it, ItemOK(cell, outer, Places, d, it)
    PROVE  /\ ItemView(NewOuter(New), NewInner(v), it) = ItemView(outer, inner, it)
           /\ it # NoItem
<1>1. \A p \in Places : NewOuter(New)[p] = outer[p] /\ NewInner(v)[p] = inner[p]
  BY StructValuesAssumption DEF NewOuter, NewInner
<1>2. it.is = "struct" => NumIn(NewOuter(New), NewInner(v), it) = NumIn(outer, inner, it)
  BY <1>1 DEF ItemOK, NumIn
<1>3. it.is = "nested" => NumIn(NewOuter(New), NewInner(v), it) = NumIn(outer, inner, it)
  BY <1>1 DEF ItemOK, NumIn
<1>4. it # NoItem
  <2>1. it \in [is : Kinds, of : Slots \union {Nil}, id : Places \union {Nil, New}]
    BY DEF ItemOK
  <2> QED BY <2>1, StructValuesAssumption
<1> QED BY <1>2, <1>3, <1>4 DEF ItemView

\* The places of the next frame.
LEMMA NextFrame ==
    ASSUME HeapInv, depth < MaxDepth
    PROVE  /\ depth \in Nat /\ depth + 1 \in Frames /\ depth + 1 \in Callees
           /\ <<depth + 1, "local">> \in Slots /\ <<depth + 1, "arg">> \in Slots
           /\ cell[<<depth + 1, "local">>] = Nil /\ cell[<<depth + 1, "arg">>] = Nil
           /\ \A s \in Owned : s[1] <= depth + 1 => s[1] <= depth \/ s = <<depth + 1, "local">>
<1>1. depth \in 1..MaxDepth /\ MaxDepth \in Nat
  BY StructValuesAssumption DEF HeapInv, FramesOK, Frames
<1>2. depth + 1 \in Frames /\ depth + 1 \in Callees
  BY <1>1 DEF Frames, Callees
<1>3. <<depth + 1, "local">> \in Slots /\ <<depth + 1, "arg">> \in Slots
  BY <1>2 DEF Slots
<1>4. cell[<<depth + 1, "local">>] = Nil /\ cell[<<depth + 1, "arg">>] = Nil
  <2>1. \A s \in Slots : cell[s] # Nil => s[1] <= depth
    BY DEF HeapInv, FramesOK
  <2>2. ~(depth + 1 <= depth) /\ <<depth + 1, "local">>[1] = depth + 1 /\ <<depth + 1, "arg">>[1] = depth + 1
    BY <1>1
  <2> QED BY <2>1, <2>2, <1>3
<1>5. ASSUME NEW s \in Owned, s[1] <= depth + 1 PROVE s[1] <= depth \/ s = <<depth + 1, "local">>
  <2>1. CASE s \in Frames \X {"local"}
    <3>1. s = <<s[1], "local">> /\ s[1] \in Nat
      BY <2>1 DEF Frames
    <3>2. s[1] <= depth \/ s[1] = depth + 1
      BY <1>1, <1>5, <3>1
    <3> QED BY <3>1, <3>2
  <2>2. CASE s \in {0} \X Shared
    <3>1. s[1] = 0
      BY <2>2
    <3> QED BY <1>1, <3>1
  <2> QED BY <2>1, <2>2 DEF Owned
<1> QED BY <1>1, <1>2, <1>3, <1>4, <1>5

\* A call: the callee's local is new.
LEMMA EnterDoes ==
    ASSUME HeapInv, 1 \in 1..Len(stack[depth]), NEW c, NEW r, Enter(c, r),
           SlotsOK(c, outer, Places), \A s \in Slots : cell[s] # Nil => c[s] = cell[s],
           \A s \in Slots : c[s] # Nil => s[1] <= depth + 1,
           r = [d \in Frames |-> r[d]],
           \A d \in Frames : r[d] # NoItem =>
               d \in Callees /\ d <= depth + 1 /\ ItemOK(cell, outer, Places, d, r[d])
    PROVE  /\ HeapInv' /\ StacksSeen' = After(1, <<>>)
           /\ SlotsSeen' = [SlotView(c, outer, inner) EXCEPT ![<<depth + 1, "local">>] = 0]
           /\ RefsSeen' = RefView(outer, inner, r)
           /\ Follow /\ (\A d \in Frames : r[d] # NoItem => Follows(cell, outer, r[d])) => Follow'
<1> DEFINE z == <<depth + 1, "local">>
           e == [c EXCEPT ![z] = New]
           N == Places \union {New}
           ou == NewOuter(New)
           inn == NewInner(0)
<1>0. New \notin Places \union {Nil} /\ Nil \notin Places /\ 0 \in Nums
  BY StructValuesAssumption
<1>1. /\ depth < MaxDepth /\ depth' = depth + 1
      /\ Becomes(e, ou, inn, Popped(1, <<>>), r)
  BY DEF Enter, Alloc
<1>2. /\ depth \in Nat /\ depth + 1 \in Frames /\ z \in Slots /\ cell[z] = Nil
      /\ \A s \in Owned : s[1] <= depth + 1 => s[1] <= depth \/ s = z
  BY <1>1, NextFrame
<1>3. /\ Names(N) /\ ou[New] = New /\ inn[New] = 0
      /\ \A p \in Places : ou[p] = outer[p] /\ inn[p] = inner[p]
      /\ \A n \in N : inn[n] \in Nums
      /\ SameSeen(ou, inn)
  BY <1>0, NewChangesNothing
<1>4. e = [s \in Slots |-> e[s]] /\ \A s \in Slots : e[s] = IF s = z THEN New ELSE c[s]
  <2>1. c = [s \in Slots |-> c[s]]
    BY DEF SlotsOK
  <2> HIDE DEF z
  <2> QED BY <2>1
<1>5. \A d, it : ItemOK(cell, outer, Places, d, it) => ItemView(ou, inn, it) = ItemView(outer, inner, it) /\ it # NoItem
  BY NewSees
<1>10. z[1] = depth + 1
  OBVIOUS
<1> HIDE DEF z, e, ou, inn
<1>6. Grown(e, ou, N)
  BY <1>0, <1>2, <1>3, <1>4 DEF Grown
<1>7. SlotsOK(e, ou, N)
  BY <1>0, <1>3, <1>4 DEF SlotsOK
<1>8. RefsOK(e, ou, r, N)
  <2>1. ASSUME NEW d \in Frames, r[d] # NoItem PROVE d \in Callees /\ ItemOK(e, ou, N, d, r[d])
    <3>1. ItemOK(cell, outer, Places, d, r[d]) /\ d \in Callees
      BY <2>1
    <3>2. d \in Nat /\ d <= d /\ \A s \in Slots : s[1] \in Nat
      BY FrameNumbers
    <3>3. /\ \A s \in Slots : s[1] <= d /\ cell[s] # Nil => e[s] # Nil
          /\ \A p \in Places : outer[p] \in Places => ou[p] \in N
      BY <1>6 DEF Grown
    <3> HIDE DEF N
    <3> QED BY <3>1, <3>2, <3>3, <1>3, ItemStays
  <2> QED BY <2>1 DEF RefsOK
<1>9. Gains(e, ou, N, 1, <<>>)
  <2>1. 1 \in 0..Len(stack[depth])
    OBVIOUS
  <2> QED BY <2>1, NoneGained
<1> HIDE DEF N
<1>11. /\ depth' \in Frames /\ depth' >= depth /\ \A d \in Frames : d > depth' => r[d] = NoItem
       /\ \A s \in Slots : e[s] # Nil => s[1] <= depth'
       /\ \A s \in Owned : s[1] <= depth' => e[s] # Nil
  <2>1. \A d \in Frames : d \in Nat
    BY FrameNumbers
  <2>2. \A d \in Frames : d > depth' => r[d] = NoItem
    BY <1>1, <1>2, <2>1
  <2>3. \A s \in Slots : e[s] # Nil => s[1] <= depth'
    BY <1>1, <1>2, <1>4, <1>10
  <2>4. \A s \in Owned : s[1] <= depth' => e[s] # Nil
    BY <1>0, <1>1, <1>2, <1>4, OwnedSlots DEF HeapInv, FramesOK
  <2> QED BY <1>1, <1>2, <2>2, <2>3, <2>4
<1>12. /\ HeapInv'
       /\ SlotView(cell', outer', inner') = SlotView(e, ou, inn)
       /\ StackView(outer', inner', stack') = StackView(ou, inn, Popped(1, <<>>))
       /\ RefView(outer', inner', ref') = RefView(ou, inn, r)
       /\ Followed(e, ou, Popped(1, <<>>), r) => Followed(cell', outer', stack', ref')
  BY <1>1, <1>3, <1>6, <1>7, <1>8, <1>9, <1>11, Doing
<1>13. SlotView(e, ou, inn) = [SlotView(c, outer, inner) EXCEPT ![z] = 0]
  <2>1. \A s \in Slots : c[s] # Nil => c[s] \in Places /\ outer[c[s]] \in Places
    BY DEF SlotsOK
  <2>2. SlotView(e, ou, inn) = [s \in Slots |-> IF s = z THEN 0 ELSE SlotView(c, outer, inner)[s]]
    BY <2>1, <1>0, <1>3, <1>4 DEF SlotView
  <2>3. SlotView(c, outer, inner) = [s \in Slots |-> SlotView(c, outer, inner)[s]]
    BY DEF SlotView
  <2> QED BY <2>2, <2>3
<1>14. StackView(ou, inn, Popped(1, <<>>)) = After(1, <<>>)
  BY <1>3, <1>9, StackSees, FewSeen DEF SameSeen
<1>15. RefView(ou, inn, r) = RefView(outer, inner, r)
  BY <1>5 DEF RefView
<1>16. ASSUME Follow, \A d \in Frames : r[d] # NoItem => Follows(cell, outer, r[d])
       PROVE  Follow'
  <2>1. ASSUME NEW d, NEW it, ItemOK(cell, outer, Places, d, it), Follows(cell, outer, it)
        PROVE  Follows(e, ou, it)
    <3>1. it.is \in {"&n", "&x"} => it.of \in Slots /\ cell[it.of] # Nil
      BY <2>1 DEF ItemOK
    <3>2. \A s \in Slots : cell[s] # Nil => e[s] = cell[s] /\ ou[cell[s]] = outer[cell[s]]
      BY <1>2, <1>3, <1>4 DEF HeapInv, Sound, SlotsOK
    <3> QED BY <2>1, <3>1, <3>2 DEF Follows
  <2>2. \A d \in Frames : \A j \in 1..Len(stack[d]) : Follows(e, ou, stack[d][j])
    BY <2>1, <1>16 DEF Follow, Followed, HeapInv, Sound, StacksOK
  <2>3. \A d \in Frames : r[d] # NoItem => Follows(e, ou, r[d])
    BY <2>1, <1>16
  <2>4. Len(<<>>) = 0 /\ \A j : j \notin 1..0
    OBVIOUS
  <2>5. Followed(e, ou, Popped(1, <<>>), r)
    BY <2>2, <2>3, <2>4, <1>9, FollowedStays
  <2> QED BY <2>5, <1>12 DEF Follow
<1> QED BY <1>12, <1>13, <1>14, <1>15, <1>16 DEF SlotsSeen, StacksSeen, RefsSeen, z

\* A call with a struct: the argument is the Struct that was on the stack, and is seen as a copy.
LEMMA CallByValueDoes ==
    ASSUME HeapInv, CallByValue
    PROVE  HeapInv' /\ (Careful => Follow' /\ Values!Next)
<1> DEFINE a == <<depth + 1, "arg">>
           p == Item(1).id
           c == [cell EXCEPT ![a] = p]
<1>1. Item(1).is = "struct" /\ 1 \in 1..Len(stack[depth]) /\ Enter(c, ref)
  BY HasItem DEF CallByValue
<1>2. depth < MaxDepth /\ depth' = depth + 1
  BY <1>1 DEF Enter
<1>3. a \in Slots /\ cell[a] = Nil /\ depth \in Nat
  BY <1>2, NextFrame
<1>4. p \in Places /\ outer[p] \in Places
  BY <1>1, ItemFacts
<1>5. inner[outer[p]] = Values!Item(1).num /\ Values!Has(1) /\ Values!Item(1).is = "struct"
  BY <1>1, NumSeen, ItemSeen DEF NumOf
<1>6. a[1] = depth + 1
  OBVIOUS
<1> HIDE DEF a, p
<1>7. /\ cell = [s \in Slots |-> cell[s]]
      /\ \A s \in Slots : cell[s] # Nil => cell[s] \in Places /\ outer[cell[s]] \in Places /\ s[1] <= depth
  BY DEF HeapInv, Sound, SlotsOK, FramesOK
<1>8. c = [s \in Slots |-> c[s]] /\ \A s \in Slots : c[s] = IF s = a THEN p ELSE cell[s]
  BY <1>7
<1> HIDE DEF c
<1>9. SlotsOK(c, outer, Places)
  BY <1>4, <1>7, <1>8 DEF SlotsOK
<1>10. \A s \in Slots : /\ cell[s] # Nil => c[s] = cell[s]
                        /\ c[s] # Nil => s[1] <= depth + 1
  <2>1. \A s \in Slots : s[1] \in Nat
    BY FrameNumbers
  <2> QED BY <2>1, <1>3, <1>6, <1>7, <1>8
<1>11. /\ ref = [d \in Frames |-> ref[d]]
       /\ \A d \in Frames : ref[d] # NoItem =>
             d \in Callees /\ d <= depth + 1 /\ ItemOK(cell, outer, Places, d, ref[d])
  <2>1. \A d \in Frames : ref[d] # NoItem => d <= depth + 1
    <3>1. \A d \in Frames : d \in Nat
      BY FrameNumbers
    <3>2. \A d \in Frames : d > depth => ref[d] = NoItem
      BY DEF HeapInv, FramesOK
    <3>3. depth \in Nat /\ \A d \in Nat : d > depth \/ d <= depth + 1
      BY <1>3
    <3> QED BY <3>1, <3>2, <3>3
  <2> QED BY <2>1 DEF HeapInv, Sound, RefsOK
<1>12. /\ HeapInv' /\ StacksSeen' = After(1, <<>>)
       /\ SlotsSeen' = [SlotView(c, outer, inner) EXCEPT ![<<depth + 1, "local">>] = 0]
       /\ RefsSeen' = RefView(outer, inner, ref)
       /\ Follow /\ (\A d \in Frames : ref[d] # NoItem => Follows(cell, outer, ref[d])) => Follow'
  BY <1>1, <1>9, <1>10, <1>11, EnterDoes
<1>13. SlotView(c, outer, inner) = [SlotsSeen EXCEPT ![a] = Values!Item(1).num]
  <2>0. p # Nil
    BY <1>4, StructValuesAssumption
  <2>1. SlotView(c, outer, inner) = [s \in Slots |-> IF s = a THEN Values!Item(1).num ELSE SlotsSeen[s]]
    BY <2>0, <1>5, <1>8 DEF SlotView, SlotsSeen
  <2>2. SlotsSeen = [s \in Slots |-> SlotsSeen[s]]
    BY DEF SlotsSeen, SlotView
  <2> QED BY <2>1, <2>2
<1>14. Follow => Follow'
  BY <1>12 DEF Follow, Followed
<1>15. SlotsSeen' = [SlotsSeen EXCEPT ![<<depth + 1, "arg">>] = Values!Item(1).num, ![<<depth + 1, "local">>] = 0]
  BY <1>12, <1>13 DEF a
<1>16. RefsSeen' = RefsSeen
  BY <1>12 DEF RefsSeen
<1>17. Values!Next
  BY <1>2, <1>5, <1>12, <1>15, <1>16, Calls
<1> QED BY <1>12, <1>14, <1>17 DEF Careful

\* A call with an address.
LEMMA CallByRefDoes ==
    ASSUME HeapInv, CallByRef
    PROVE  HeapInv' /\ (Careful => Follow' /\ Values!Next)
<1> DEFINE x == Item(1)
           r == [ref EXCEPT ![depth + 1] = x]
<1>1. x.is \in {"&", "&n", "&x"} /\ 1 \in 1..Len(stack[depth]) /\ Enter(cell, r)
  BY HasItem DEF CallByRef
<1>2. depth < MaxDepth /\ depth' = depth + 1
  BY <1>1 DEF Enter
<1>3. depth \in Nat /\ depth + 1 \in Frames /\ depth + 1 \in Callees
  BY <1>2, NextFrame
<1>4. /\ ItemOK(cell, outer, Places, depth, x) /\ (Follow => Follows(cell, outer, x)) /\ x.of # Nil
      /\ Values!Has(1) /\ Values!Item(1).of = x.of /\ Values!Item(1) = ItemView(outer, inner, x)
  BY <1>1, ItemIs, ItemFacts, ItemSeen
<1> HIDE DEF x
<1>5. ItemOK(cell, outer, Places, depth + 1, x) /\ x # NoItem
  <2>1. depth <= depth + 1 /\ depth + 1 \in Nat /\ \A s \in Slots : s[1] \in Nat
    BY <1>3, FrameNumbers
  <2>2. Names(Places) /\ \A p \in Places : outer[p] \in Places => outer[p] \in Places
    BY DEF Names
  <2>3. ItemOK(cell, outer, Places, depth + 1, x)
    BY <1>3, <1>4, <2>1, <2>2, ItemStays
  <2> QED BY <2>3, NewSees
<1>6. /\ ref = [d \in Frames |-> ref[d]]
      /\ \A d \in Frames : ref[d] # NoItem =>
             d \in Callees /\ d <= depth + 1 /\ ItemOK(cell, outer, Places, d, ref[d])
  <2>1. \A d \in Frames : ref[d] # NoItem => d <= depth + 1
    <3>1. \A d \in Frames : d \in Nat
      BY FrameNumbers
    <3>2. \A d \in Frames : d > depth => ref[d] = NoItem
      BY DEF HeapInv, FramesOK
    <3>3. depth \in Nat /\ \A d \in Nat : d > depth \/ d <= depth + 1
      BY <1>3
    <3> QED BY <3>1, <3>2, <3>3
  <2> QED BY <2>1 DEF HeapInv, Sound, RefsOK
<1>7. r = [d \in Frames |-> r[d]] /\ \A d \in Frames : r[d] = IF d = depth + 1 THEN x ELSE ref[d]
  BY <1>6
<1> HIDE DEF r
<1>8. \A d \in Frames : r[d] # NoItem =>
         d \in Callees /\ d <= depth + 1 /\ ItemOK(cell, outer, Places, d, r[d])
  BY <1>3, <1>5, <1>6, <1>7
<1>9. /\ SlotsOK(cell, outer, Places)
      /\ \A s \in Slots : cell[s] # Nil => cell[s] = cell[s] /\ s[1] <= depth + 1
  <2>1. \A s \in Slots : s[1] \in Nat
    BY FrameNumbers
  <2> QED BY <2>1, <1>3 DEF HeapInv, Sound, FramesOK
<1>10. /\ HeapInv' /\ StacksSeen' = After(1, <<>>)
       /\ SlotsSeen' = [SlotView(cell, outer, inner) EXCEPT ![<<depth + 1, "local">>] = 0]
       /\ RefsSeen' = RefView(outer, inner, r)
       /\ Follow /\ (\A d \in Frames : r[d] # NoItem => Follows(cell, outer, r[d])) => Follow'
  BY <1>1, <1>7, <1>8, <1>9, EnterDoes
<1>11. RefView(outer, inner, r) = [RefsSeen EXCEPT ![depth + 1] = Values!Item(1)]
  <2>1. RefView(outer, inner, r) = [d \in Frames |-> IF d = depth + 1 THEN Values!Item(1) ELSE RefsSeen[d]]
    BY <1>4, <1>5, <1>7 DEF RefView, RefsSeen
  <2>2. RefsSeen = [d \in Frames |-> RefsSeen[d]]
    BY DEF RefsSeen, RefView
  <2> QED BY <2>1, <2>2
<1>12. Follow => Follow'
  <2>1. Follow => \A d \in Frames : ref[d] # NoItem => Follows(cell, outer, ref[d])
    BY DEF Follow, Followed
  <2> QED BY <2>1, <1>4, <1>7, <1>10
<1>13. SlotsSeen' = [SlotsSeen EXCEPT ![<<depth + 1, "local">>] = 0]
  BY <1>10 DEF SlotsSeen
<1>14. RefsSeen' = [RefsSeen EXCEPT ![depth + 1] = Values!Item(1)]
  BY <1>10, <1>11
<1>15. Values!Next
  BY <1>2, <1>4, <1>10, <1>13, <1>14, Calls
<1> QED BY <1>10, <1>12, <1>15 DEF Careful

\* What is seen of joined sequences.
LEMMA JoinedSeen ==
    ASSUME NEW S, NEW s \in Seq(S), NEW T, NEW t \in Seq(T), NEW ou, NEW inn
    PROVE  MapView(ou, inn, s \o t) = MapView(ou, inn, s) \o MapView(ou, inn, t)
<1> DEFINE w == MapView(ou, inn, s)
           v == MapView(ou, inn, t)
           u == s \o t
<1>1. /\ Len(s) \in Nat /\ Len(t) \in Nat /\ DOMAIN u = 1..(Len(s) + Len(t))
      /\ \A j \in 1..(Len(s) + Len(t)) : u[j] = IF j <= Len(s) THEN s[j] ELSE t[j - Len(s)]
  BY JoinedAre
<1>2. /\ \E W : w \in Seq(W)
      /\ Len(w) = Len(s) /\ \A j \in 1..Len(s) : w[j] = ItemView(ou, inn, s[j])
  BY MapViewIs
<1>3. /\ \E V : v \in Seq(V)
      /\ Len(v) = Len(t) /\ \A j \in 1..Len(t) : v[j] = ItemView(ou, inn, t[j])
  BY MapViewIs
<1> HIDE DEF w, v, u
<1>4. PICK W : w \in Seq(W)
  BY <1>2
<1>5. PICK V : v \in Seq(V)
  BY <1>3
<1> DEFINE z == w \o v
<1>6. /\ z \in Seq(W \union V) /\ DOMAIN z = 1..(Len(s) + Len(t))
      /\ \A j \in 1..(Len(s) + Len(t)) : z[j] = IF j <= Len(s) THEN w[j] ELSE v[j - Len(s)]
  <2>1. /\ z \in Seq(W \union V) /\ DOMAIN z = 1..(Len(w) + Len(v))
        /\ \A j \in 1..(Len(w) + Len(v)) : z[j] = IF j <= Len(w) THEN w[j] ELSE v[j - Len(w)]
    BY <1>4, <1>5, JoinedAre
  <2> QED BY <2>1, <1>2, <1>3
<1> HIDE DEF z
<1>7. z = [j \in 1..(Len(s) + Len(t)) |-> z[j]]
  BY <1>6
<1>8. MapView(ou, inn, u) = [j \in 1..(Len(s) + Len(t)) |-> ItemView(ou, inn, u[j])]
  BY <1>1 DEF MapView
<1>9. \A j \in 1..(Len(s) + Len(t)) : z[j] = ItemView(ou, inn, u[j])
  <2> TAKE j \in 1..(Len(s) + Len(t))
  <2>1. CASE j <= Len(s)
    <3>1. j \in 1..Len(s)
      BY <1>1, <2>1
    <3> QED BY <3>1, <2>1, <1>1, <1>2, <1>6
  <2>2. CASE ~(j <= Len(s))
    <3>1. j - Len(s) \in 1..Len(t)
      BY <1>1, <2>2
    <3> QED BY <3>1, <2>2, <1>1, <1>3, <1>6
  <2> QED BY <2>1, <2>2
<1>10. MapView(ou, inn, u) = z
  BY <1>7, <1>8, <1>9
<1> QED BY <1>10 DEF z, u, w, v

\* The slots of the frame that is left.
LEMMA LastFrame ==
    ASSUME HeapInv, depth > 1
    PROVE  /\ depth \in Nat /\ depth \in Frames /\ depth - 1 \in Frames /\ depth - 1 \in Nat
           /\ \A s \in Slots : /\ s[1] = depth => s = <<depth, "arg">> \/ s = <<depth, "local">>
                               /\ s = <<depth, "arg">> \/ s = <<depth, "local">> => s[1] = depth
<1>1. depth \in 1..MaxDepth /\ MaxDepth \in Nat
  BY StructValuesAssumption DEF HeapInv, FramesOK, Frames
<1>2. ASSUME NEW s \in Slots, s[1] = depth PROVE s = <<depth, "arg">> \/ s = <<depth, "local">>
  <2>1. s \notin {0} \X (Shared \union Lists)
    BY <1>1, <1>2
  <2> QED BY <2>1, <1>2 DEF Slots
<1> QED BY <1>1, <1>2 DEF Frames

\* The running frame is left, with values as results.
LEMMA LeaveDoes ==
    ASSUME HeapInv, NEW xs, Leave(xs),
           xs \in Seq([is : Kinds, of : Slots \union {Nil}, id : Places \union {Nil}]),
           \A j \in 1..Len(xs) : ItemOK(cell, outer, Places, depth, xs[j]) /\ xs[j].is \in {"struct", "nested"}
    PROVE  /\ HeapInv' /\ StacksSeen' = Left(MapView(outer, inner, xs))
           /\ SlotsSeen' = [SlotsSeen EXCEPT ![<<depth, "arg">>] = NoNum, ![<<depth, "local">>] = NoNum]
           /\ RefsSeen' = [RefsSeen EXCEPT ![depth] = NoItem]
           /\ Follow => Follow'
<1> DEFINE a == <<depth, "arg">>
           l == <<depth, "local">>
           e == depth - 1
           c == [cell EXCEPT ![a] = Nil, ![l] = Nil]
           st == [stack EXCEPT ![depth] = <<>>, ![e] = @ \o xs]
           r == [ref EXCEPT ![depth] = NoItem]
           S == [is : Kinds, of : Slots \union {Nil}, id : Places \union {Nil}]
<1>1. /\ depth > 1 /\ depth' = e /\ Len(stack[e]) + Len(xs) <= MaxItems
      /\ Becomes(c, outer, inner, st, r)
  BY DEF Leave
<1>2. /\ depth \in Nat /\ depth \in Frames /\ e \in Frames /\ e \in Nat /\ e # depth /\ e < depth
      /\ \A s \in Slots : s[1] = depth <=> s = a \/ s = l
  BY <1>1, LastFrame
<1>3. /\ cell = [s \in Slots |-> cell[s]]
      /\ \A s \in Slots : cell[s] # Nil => cell[s] \in Places /\ outer[cell[s]] \in Places /\ s[1] <= depth
  BY DEF HeapInv, Sound, SlotsOK, FramesOK
<1>4. /\ stack = [d \in Frames |-> stack[d]]
      /\ \A d \in Frames : /\ stack[d] \in Seq(S) /\ Len(stack[d]) \in Nat /\ Len(stack[d]) <= MaxItems
                           /\ \A j \in 1..Len(stack[d]) : ItemOK(cell, outer, Places, d, stack[d][j])
                           /\ d > depth => stack[d] = <<>> /\ ref[d] = NoItem
  BY LenProperties DEF HeapInv, Sound, StacksOK, FramesOK
<1>5. /\ ref = [d \in Frames |-> ref[d]]
      /\ \A d \in Frames : ref[d] # NoItem => d \in Callees /\ ItemOK(cell, outer, Places, d, ref[d])
  BY DEF HeapInv, Sound, RefsOK
<1> HIDE DEF a, l, e
<1>6. c = [s \in Slots |-> c[s]] /\ \A s \in Slots : c[s] = IF s[1] = depth THEN Nil ELSE cell[s]
  BY <1>2, <1>3
<1>7. /\ st = [d \in Frames |-> st[d]]
      /\ st[depth] = <<>> /\ st[e] = stack[e] \o xs
      /\ \A d \in Frames : d # depth /\ d # e => st[d] = stack[d]
  BY <1>2, <1>4
<1>8. r = [d \in Frames |-> r[d]] /\ \A d \in Frames : r[d] = IF d = depth THEN NoItem ELSE ref[d]
  BY <1>5
<1> HIDE DEF c, st, r
<1>9. \A d, it : d \in Frames /\ d <= e /\ ItemOK(cell, outer, Places, d, it) => ItemOK(c, outer, Places, d, it)
  <2> SUFFICES ASSUME NEW d \in Frames, NEW it, d <= e, ItemOK(cell, outer, Places, d, it)
               PROVE  ItemOK(c, outer, Places, d, it)
    OBVIOUS
  <2>1. d \in Nat /\ d <= d /\ d < depth /\ \A s \in Slots : s[1] \in Nat
    BY <1>2, FrameNumbers
  <2>2. \A s \in Slots : s[1] <= d /\ cell[s] # Nil => c[s] # Nil
    BY <2>1, <1>2, <1>6
  <2>3. Names(Places) /\ \A p \in Places : outer[p] \in Places => outer[p] \in Places
    BY DEF Names
  <2> QED BY <2>1, <2>2, <2>3, ItemStays
<1>10. /\ Len(stack[e]) \in Nat /\ Len(xs) \in Nat /\ st[e] \in Seq(S \union S)
       /\ Len(st[e]) = Len(stack[e]) + Len(xs)
       /\ \A j \in 1..(Len(stack[e]) + Len(xs)) : st[e][j] = IF j <= Len(stack[e]) THEN stack[e][j] ELSE xs[j - Len(stack[e])]
  <2> HIDE DEF S
  <2>1. stack[e] \in Seq(S) /\ xs \in Seq(S)
    BY <1>2, <1>4 DEF S
  <2> DEFINE y == stack[e]
  <2> HIDE DEF y
  <2>4. y \in Seq(S) /\ xs \in Seq(S)
    BY <2>1 DEF y
  <2>2. /\ Len(y) \in Nat /\ Len(xs) \in Nat
        /\ y \o xs \in Seq(S \union S) /\ Len(y \o xs) = Len(y) + Len(xs)
        /\ DOMAIN (y \o xs) = 1..(Len(y) + Len(xs))
        /\ \A j \in 1..(Len(y) + Len(xs)) : (y \o xs)[j] = IF j <= Len(y) THEN y[j] ELSE xs[j - Len(y)]
    BY <2>4, JoinedAre
  <2>3. st[e] = y \o xs
    BY <1>7 DEF y
  <2> QED BY <2>2, <2>3 DEF y
<1>11. \A d \in Frames : d # depth /\ d # e => d <= e \/ (st[d] = <<>> /\ r[d] = NoItem)
  <2>1. \A d \in Frames : d \in Nat
    BY FrameNumbers
  <2>2. \A d \in Frames : d # depth /\ d # e => d <= e \/ d > depth
    BY <2>1, <1>2 DEF e
  <2>3. \A d \in Frames : d > depth => stack[d] = <<>> /\ ref[d] = NoItem
    BY DEF HeapInv, FramesOK
  <2>4. ASSUME NEW d \in Frames, d # depth, d # e, ~(d <= e) PROVE st[d] = <<>> /\ r[d] = NoItem
    <3>1. stack[d] = <<>> /\ ref[d] = NoItem
      BY <2>2, <2>3, <2>4
    <3> QED BY <3>1, <2>4, <1>7, <1>8
  <2> QED BY <2>4
<1>22. /\ \A j \in 1..Len(st[e]) : j <= Len(stack[e]) => j \in 1..Len(stack[e]) /\ st[e][j] = stack[e][j]
       /\ \A j \in 1..Len(st[e]) : ~(j <= Len(stack[e])) =>
             j - Len(stack[e]) \in 1..Len(xs) /\ st[e][j] = xs[j - Len(stack[e])]
  <2> DEFINE n == Len(stack[e])
             m == Len(xs)
  <2>1. n \in Nat /\ m \in Nat /\ Len(st[e]) = n + m
        /\ \A j \in 1..(n + m) : st[e][j] = IF j <= n THEN stack[e][j] ELSE xs[j - n]
    BY <1>10
  <2> HIDE DEF n, m
  <2>2. /\ \A j \in 1..(n + m) : j <= n => j \in 1..n /\ st[e][j] = stack[e][j]
        /\ \A j \in 1..(n + m) : ~(j <= n) => j - n \in 1..m /\ st[e][j] = xs[j - n]
    BY <2>1
  <2> QED BY <2>1, <2>2 DEF n, m
<1>0. Len(<<>>) = 0 /\ <<>> \in Seq(S) /\ \A j : j \notin 1..0
  <2> HIDE DEF S
  <2> QED OBVIOUS
<1>12. SlotsOK(c, outer, Places)
  BY <1>3, <1>6 DEF SlotsOK
<1>13. StacksOK(c, outer, st, Places)
  <2>1. ASSUME NEW j \in 1..Len(st[e]) PROVE ItemOK(c, outer, Places, e, st[e][j])
    <3>1. CASE j <= Len(stack[e])
      <4>1. j \in 1..Len(stack[e]) /\ st[e][j] = stack[e][j] /\ e <= e
        BY <1>2, <1>22, <3>1
      <4>2. ItemOK(cell, outer, Places, e, stack[e][j])
        BY <4>1, <1>2, <1>4
      <4> QED BY <4>1, <4>2, <1>2, <1>9
    <3>2. CASE ~(j <= Len(stack[e]))
      <4>1. j - Len(stack[e]) \in 1..Len(xs) /\ st[e][j] = xs[j - Len(stack[e])]
        BY <1>22, <3>2
      <4> QED BY <4>1 DEF ItemOK
    <3> QED BY <3>1, <3>2
  <2>2. \A d \in Frames : /\ st[d] \in Seq(S) /\ Len(st[d]) <= MaxItems
                          /\ \A j \in 1..Len(st[d]) : ItemOK(c, outer, Places, d, st[d][j])
    <3> TAKE d \in Frames
    <3>1. CASE d = e
      BY <3>1, <2>1, <1>1, <1>10
    <3>2. CASE d = depth
      BY <3>2, <1>0, <1>7, StructValuesAssumption
    <3>3. CASE d # e /\ d # depth /\ d <= e
      BY <3>3, <1>4, <1>7, <1>9
    <3>4. CASE d # e /\ d # depth /\ st[d] = <<>>
      BY <3>4, <1>0, StructValuesAssumption
    <3> QED BY <3>1, <3>2, <3>3, <3>4, <1>11
  <2> QED BY <2>2, <1>7 DEF StacksOK
<1>14. RefsOK(c, outer, r, Places)
  <2>1. ASSUME NEW d \in Frames, r[d] # NoItem PROVE d \in Callees /\ ItemOK(c, outer, Places, d, r[d])
    <3>1. d # depth /\ r[d] = ref[d]
      BY <2>1, <1>8
    <3>2. d <= e
      <4>1. e <= e
        BY <1>2
      <4>2. d = e \/ d <= e
        BY <2>1, <3>1, <1>11
      <4> QED BY <4>1, <4>2
    <3> QED BY <2>1, <3>1, <3>2, <1>5, <1>9
  <2> QED BY <2>1, <1>8 DEF RefsOK
<1>15. Sound(c, outer, inner, st, r, Places) /\ Names(Places)
  BY <1>12, <1>13, <1>14 DEF Sound, HeapInv, Names
<1>16. /\ Sound(cell', outer', inner', stack', ref', Places)
       /\ outer' \in [Places -> Places \union {Nil}] /\ inner' \in [Places -> Nums]
       /\ \A s \in Slots : cell'[s] = Nil <=> c[s] = Nil
       /\ \A d \in Frames : /\ stack'[d] = <<>> <=> st[d] = <<>>
                            /\ ref'[d] = NoItem <=> r[d] = NoItem
       /\ SlotView(cell', outer', inner') = SlotView(c, outer, inner)
       /\ StackView(outer', inner', stack') = StackView(outer, inner, st)
       /\ RefView(outer', inner', ref') = RefView(outer, inner, r)
       /\ Followed(c, outer, st, r) => Followed(cell', outer', stack', ref')
  BY <1>1, <1>15, Becoming
<1>17. HeapInv'
  <2>0. \A d \in Frames : d \in Nat
    BY FrameNumbers
  <2>1. \A d \in Frames : d > e => stack'[d] = <<>> /\ ref'[d] = NoItem
    <3>1. \A d \in Frames : d > e => d # e /\ ~(d <= e)
      BY <2>0, <1>2
    <3>2. r[depth] = NoItem
      BY <1>2, <1>8
    <3> QED BY <3>1, <3>2, <1>7, <1>11, <1>16
  <2>2. \A s \in Slots : cell'[s] # Nil => s[1] <= e
    <3>1. \A s \in Slots : s[1] \in Nat
      BY FrameNumbers
    <3>2. \A n \in Nat : n <= depth /\ n # depth => n <= e
      BY <1>2 DEF e
    <3> QED BY <3>1, <3>2, <1>3, <1>6, <1>16
  <2>3. \A s \in Owned : s[1] <= e => cell'[s] # Nil
    <3>1. \A s \in Owned : s \in Slots /\ s[1] \in Nat
      BY FrameNumbers, OwnedSlots
    <3>2. \A n \in Nat : n <= e => n <= depth /\ n # depth
      BY <1>2
    <3> QED BY <3>1, <3>2, <1>6, <1>16 DEF HeapInv, FramesOK
  <2>4. FramesOK(cell, stack, ref, depth)'
    BY <2>1, <2>2, <2>3, <1>1, <1>2 DEF FramesOK
  <2> QED BY <2>4, <1>16 DEF HeapInv
<1>18. SlotsSeen' = [SlotsSeen EXCEPT ![a] = NoNum, ![l] = NoNum]
  <2>1. SlotView(c, outer, inner) = [s \in Slots |-> IF s = a \/ s = l THEN NoNum ELSE SlotsSeen[s]]
    BY <1>2, <1>6 DEF SlotView, SlotsSeen
  <2>2. SlotsSeen = [s \in Slots |-> SlotsSeen[s]]
    BY DEF SlotsSeen, SlotView
  <2>3. SlotView(c, outer, inner) = [SlotsSeen EXCEPT ![a] = NoNum, ![l] = NoNum]
    BY <2>1, <2>2
  <2> QED BY <2>3, <1>16 DEF SlotsSeen
<1>19. RefsSeen' = [RefsSeen EXCEPT ![depth] = NoItem]
  <2>1. RefView(outer, inner, r) = [d \in Frames |-> IF d = depth THEN NoItem ELSE RefsSeen[d]]
    BY <1>8 DEF RefView, RefsSeen
  <2>2. RefsSeen = [d \in Frames |-> RefsSeen[d]]
    BY DEF RefsSeen, RefView
  <2> QED BY <2>1, <2>2, <1>16 DEF RefsSeen
<1>20. StacksSeen' = Left(MapView(outer, inner, xs))
  <2> DEFINE W(d) == MapView(outer, inner, stack[d])
             v == MapView(outer, inner, xs)
  <2>1. StackView(outer, inner, st) = [d \in Frames |-> MapView(outer, inner, st[d])]
    BY DEF StackView, MapView
  <2>2. StacksSeen = [d \in Frames |-> W(d)]
    BY DEF StacksSeen, StackView, MapView
  <2>3. MapView(outer, inner, st[e]) = W(e) \o v
    <3> HIDE DEF S
    <3>1. stack[e] \in Seq(S) /\ xs \in Seq(S)
      BY <1>2, <1>4 DEF S
    <3>2. MapView(outer, inner, stack[e] \o xs) = MapView(outer, inner, stack[e]) \o MapView(outer, inner, xs)
      BY <3>1, JoinedSeen
    <3>3. st[e] = stack[e] \o xs
      BY <1>7
    <3> QED BY <3>2, <3>3
  <2>4. MapView(outer, inner, st[depth]) = <<>>
    BY <1>7, FewSeen
  <2> HIDE DEF v
  <2>5. \A d \in Frames : d # depth /\ d # e => MapView(outer, inner, st[d]) = W(d)
    BY <1>7
  <2> HIDE DEF W
  <2>6. StackView(outer, inner, st)
          = [d \in Frames |-> IF d = e THEN W(e) \o v ELSE IF d = depth THEN <<>> ELSE W(d)]
    BY <2>1, <2>3, <2>4, <2>5
  <2>7. [StacksSeen EXCEPT ![depth] = <<>>, ![e] = @ \o v]
          = [d \in Frames |-> IF d = e THEN W(e) \o v ELSE IF d = depth THEN <<>> ELSE W(d)]
    BY <2>2, <1>2
  <2> QED BY <2>6, <2>7, <1>16 DEF Left, StacksSeen, v, e
<1>21. ASSUME Follow PROVE Follow'
  <2>1. ASSUME NEW d \in Frames, NEW it, d <= e, ItemOK(cell, outer, Places, d, it), Follows(cell, outer, it)
        PROVE  Follows(c, outer, it)
    <3>1. it.is \in {"&n", "&x"} => it.of \in Slots /\ it.of[1] <= d
      BY <2>1 DEF ItemOK
    <3>2. \A s \in Slots : s[1] <= d => s[1] # depth
      <4>1. \A s \in Slots : s[1] \in Nat
        BY FrameNumbers
      <4> QED BY <4>1, <2>1, <1>2, FrameNumbers
    <3> QED BY <2>1, <3>1, <3>2, <1>6 DEF Follows
  <2>2. \A d \in Frames : /\ \A j \in 1..Len(stack[d]) : Follows(cell, outer, stack[d][j])
                          /\ ref[d] # NoItem => Follows(cell, outer, ref[d])
    BY <1>21 DEF Follow, Followed
  <2>3. ASSUME NEW j \in 1..Len(st[e]) PROVE Follows(c, outer, st[e][j])
    <3>1. CASE j <= Len(stack[e])
      <4>1. j \in 1..Len(stack[e]) /\ st[e][j] = stack[e][j] /\ e <= e
        BY <1>2, <1>22, <3>1
      <4>2. ItemOK(cell, outer, Places, e, stack[e][j]) /\ Follows(cell, outer, stack[e][j])
        BY <4>1, <1>2, <1>4, <2>2
      <4> QED BY <4>1, <4>2, <1>2, <2>1
    <3>2. CASE ~(j <= Len(stack[e]))
      <4>1. j - Len(stack[e]) \in 1..Len(xs) /\ st[e][j] = xs[j - Len(stack[e])]
        BY <1>22, <3>2
      <4> QED BY <4>1 DEF Follows
    <3> QED BY <3>1, <3>2
  <2>4. \A d \in Frames : \A j \in 1..Len(st[d]) : Follows(c, outer, st[d][j])
    <3> TAKE d \in Frames
    <3>1. CASE d = e
      BY <3>1, <2>3
    <3>2. CASE st[d] = <<>>
      BY <3>2, <1>0
    <3>3. CASE d # e /\ d # depth /\ d <= e
      BY <3>3, <2>1, <2>2, <1>4, <1>7
    <3> QED BY <3>1, <3>2, <3>3, <1>7, <1>11
  <2>5. ASSUME NEW d \in Frames, r[d] # NoItem PROVE Follows(c, outer, r[d])
    <3>1. d # depth /\ r[d] = ref[d]
      BY <2>5, <1>8
    <3>2. d <= e
      <4>1. e <= e
        BY <1>2
      <4>2. d = e \/ d <= e
        BY <2>5, <3>1, <1>11
      <4> QED BY <4>1, <4>2
    <3> QED BY <2>5, <3>1, <3>2, <2>1, <2>2, <1>5
  <2>6. Followed(c, outer, st, r)
    BY <2>4, <2>5 DEF Followed
  <2> QED BY <2>6, <1>16 DEF Follow
<1> QED BY <1>17, <1>18, <1>19, <1>20, <1>21 DEF a, l

\* A return, with a value or without.
LEMMA ReturnDoes ==
    ASSUME HeapInv, Return
    PROVE  HeapInv' /\ (Careful => Follow' /\ Values!Next)
<1> DEFINE S == [is : Kinds, of : Slots \union {Nil}, id : Places \union {Nil}]
<1>1. CASE Leave(<<>>)
  <2>1. <<>> \in Seq(S) /\ Len(<<>>) = 0 /\ \A j : j \notin 1..0
    <3> HIDE DEF S
    <3> QED OBVIOUS
  <2>2. /\ HeapInv' /\ StacksSeen' = Left(MapView(outer, inner, <<>>))
        /\ SlotsSeen' = [SlotsSeen EXCEPT ![<<depth, "arg">>] = NoNum, ![<<depth, "local">>] = NoNum]
        /\ RefsSeen' = [RefsSeen EXCEPT ![depth] = NoItem]
        /\ Follow => Follow'
    BY <1>1, <2>1, LeaveDoes
  <2>3. StacksSeen' = Left(<<>>)
    BY <2>2, FewSeen
  <2>4. Values!Next
    BY <1>1, <2>2, <2>3, Returns DEF Leave
  <2> QED BY <2>2, <2>4 DEF Careful
<1>2. CASE (Has(1, "struct") \/ Has(1, "nested")) /\ Leave(<<Item(1)>>)
  <2> DEFINE x == Item(1)
  <2>1. /\ x.is \in {"struct", "nested"} /\ ItemOK(cell, outer, Places, depth, x)
        /\ Values!Has(1) /\ Values!Item(1) = ItemView(outer, inner, x) /\ Values!Item(1).of = Nil
    <3>1. 1 \in 1..Len(stack[depth]) /\ x.is \in {"struct", "nested"}
      BY <1>2, HasItem
    <3> QED BY <3>1, ItemIs, ItemSeen, NumSeen
  <2>2. Leave(<<x>>)
    BY <1>2
  <2> HIDE DEF x
  <2>3. x \in S
    BY <2>1 DEF ItemOK
  <2>4. <<x>> \in Seq(S) /\ Len(<<x>>) = 1 /\ \A j \in 1..1 : <<x>>[j] = x
    <3> HIDE DEF S
    <3> QED BY <2>3
  <2>5. /\ HeapInv' /\ StacksSeen' = Left(MapView(outer, inner, <<x>>))
        /\ SlotsSeen' = [SlotsSeen EXCEPT ![<<depth, "arg">>] = NoNum, ![<<depth, "local">>] = NoNum]
        /\ RefsSeen' = [RefsSeen EXCEPT ![depth] = NoItem]
        /\ Follow => Follow'
    BY <2>1, <2>2, <2>4, LeaveDoes
  <2>6. StacksSeen' = Left(<<Values!Item(1)>>)
    BY <2>1, <2>5, FewSeen
  <2>7. Values!Next
    BY <2>1, <2>2, <2>5, <2>6, Returns DEF Leave
  <2> QED BY <2>5, <2>7 DEF Careful
<1> QED BY <1>1, <1>2 DEF Return

-----------------------------------------------------------------------------
(* The theorems.                                                           *)

USE StructValuesAssumption

\* The first frame has started.
LEMMA InitDoes ==
    ASSUME Init
    PROVE  HeapInv /\ Follow /\ Values!Init
<1> DEFINE present == {<<1, "local">>} \union ({0} \X Shared)
<1>1. /\ cell = [s \in Slots |-> IF s \in present THEN s ELSE Nil]
      /\ outer = [p \in Places |-> IF p \in present THEN p ELSE Nil]
      /\ inner = [p \in Places |-> 0]
      /\ stack = [d \in Frames |-> <<>>]
      /\ ref = [d \in Frames |-> NoItem]
      /\ depth = 1
  BY DEF Init
<1>2. \A s \in present : s[1] \in {0, 1}
  OBVIOUS
<1>3. ASSUME NEW s \in Owned, s[1] <= 1 PROVE s \in present
  <2>1. CASE s \in Frames \X {"local"}
    <3>1. s = <<s[1], "local">> /\ s[1] \in Nat \ {0}
      BY <2>1 DEF Frames
    <3>2. s[1] = 1
      BY <3>1, <1>3
    <3> QED BY <3>1, <3>2
  <2>2. CASE s \in {0} \X Shared
    BY <2>2
  <2> QED BY <2>1, <2>2 DEF Owned
<1>4. ASSUME NEW s \in Slots PROVE s \in present <=> s = <<1, "local">> \/ s[2] \in Shared
  <2>1. Shared \intersect (Lists \union {"local", "arg"}) = {}
    OBVIOUS
  <2>2. CASE s \in Frames \X {"local"}
    <3>1. s[2] \notin Shared
      BY <2>1, <2>2
    <3> QED BY <3>1, <2>2
  <2>3. CASE s \in Callees \X {"arg"}
    <3>1. s[2] \notin Shared /\ s[2] = "arg"
      BY <2>1, <2>3
    <3> QED BY <3>1, <2>3
  <2>4. CASE s \in {0} \X (Shared \union Lists)
    <3>1. s = <<0, s[2]>> /\ s[1] = 0
      BY <2>4
    <3> QED BY <3>1, <2>4
  <2> QED BY <2>2, <2>3, <2>4 DEF Slots
<1>5. \A s \in Slots : s \in Places
  BY OwnedSlots
<1> HIDE DEF present
<1>6. \A s \in Slots : cell[s] # Nil <=> s \in present
  BY <1>1, <1>5
<1>7. \A s \in Slots : cell[s] # Nil => cell[s] = s /\ outer[s] = s /\ inner[s] = 0 /\ s \in Places
  BY <1>1, <1>5, <1>6
<1>0. Len(<<>>) = 0 /\ \A j : j \notin 1..0
  OBVIOUS
<1>8. SlotsOK(cell, outer, Places)
  BY <1>1, <1>7 DEF SlotsOK
<1>9. StacksOK(cell, outer, stack, Places)
  <2> DEFINE S == [is : Kinds, of : Slots \union {Nil}, id : Places \union {Nil}]
  <2>1. <<>> \in Seq(S)
    <3> HIDE DEF S
    <3> QED OBVIOUS
  <2> QED BY <2>1, <1>0, <1>1 DEF StacksOK
<1>10. RefsOK(cell, outer, ref, Places)
  BY <1>1 DEF RefsOK
<1>11. FramesOK(cell, stack, ref, depth)
  <2>1. \A s \in Slots : cell[s] # Nil => s[1] <= depth
    BY <1>1, <1>2, <1>6
  <2>2. \A s \in Owned : s[1] <= depth => cell[s] # Nil
    BY <1>1, <1>3, <1>6, OwnedSlots
  <2>3. \A d \in Frames : stack[d] = <<>> /\ ref[d] = NoItem
    BY <1>1
  <2> QED BY <2>1, <2>2, <2>3, <1>1, FrameNumbers DEF FramesOK
<1>12. HeapInv
  <2>1. outer \in [Places -> Places \union {Nil}]
    BY <1>1
  <2>2. inner \in [Places -> Nums]
    BY <1>1
  <2>3. \A n \in Places : inner[n] \in Nums
    BY <2>2
  <2> QED BY <1>8, <1>9, <1>10, <1>11, <2>1, <2>2, <2>3 DEF HeapInv, Sound
<1>13. Follow
  BY <1>0, <1>1 DEF Follow, Followed
<1>14. Values!Init
  <2>1. SlotsSeen = [s \in Slots |-> IF s = <<1, "local">> \/ s[2] \in Shared THEN 0 ELSE NoNum]
    <3>1. \A s \in Slots : (IF cell[s] = Nil THEN NoNum ELSE inner[outer[cell[s]]])
                             = IF s = <<1, "local">> \/ s[2] \in Shared THEN 0 ELSE NoNum
      BY <1>4, <1>6, <1>7
    <3> QED BY <3>1 DEF SlotsSeen, SlotView
  <2>2. StacksSeen = [d \in Frames |-> <<>>]
    <3>1. \A d \in Frames : MapView(outer, inner, stack[d]) = <<>>
      BY <1>1, FewSeen
    <3> QED BY <3>1 DEF StacksSeen, StackView, MapView
  <2>3. RefsSeen = [d \in Frames |-> NoItem]
    BY <1>1 DEF RefsSeen, RefView
  <2> QED BY <2>1, <2>2, <2>3, <1>1, Seen, SameSlots DEF Values!Init
<1> QED BY <1>12, <1>13, <1>14

\* Every instruction keeps the heap sound and, as long as sharing is not written
\* through, is an instruction of ValueSemantics.
LEMMA StepDoes ==
    ASSUME HeapInv, Next
    PROVE  HeapInv' /\ (Careful => Follow' /\ Values!Next)
<1> HIDE StructValuesAssumption
<1>1. CASE \E s \in Slots : Load(s) \/ LoadAddr(s) \/ Store(s) \/ ListSet(s)
  BY <1>1, LoadDoes, LoadAddrDoes, StoreDoes, ListSetDoes
<1>2. CASE LoadField \/ LoadIndirect \/ LoadFieldAddr \/ LoadRefArg \/ Dup \/ Pop
  BY <1>2, LoadFieldDoes, LoadIndirectDoes, LoadFieldAddrDoes, LoadRefArgDoes, DupDoes, PopStepDoes
<1>3. CASE \E v \in Nums : NewObj(v) \/ StoreNum(v)
  BY <1>3, NewObjDoes, StoreNumDoes
<1>4. CASE StoreIndirect \/ InitObj \/ StoreField
  BY <1>4, StoreIndirectDoes, InitObjDoes, StoreFieldDoes
<1>5. CASE CallByValue \/ CallByRef \/ Return
  BY <1>5, CallByValueDoes, CallByRefDoes, ReturnDoes
<1> QED BY <1>1, <1>2, <1>3, <1>4, <1>5 DEF Next

\* The heap stays sound, whatever is shared and however long addresses are held.
LEMMA HeapStays == HeapInv /\ [Next]_vars => HeapInv'
<1> SUFFICES ASSUME HeapInv, UNCHANGED vars PROVE HeapInv'
  BY StepDoes
<1>1. /\ cell' = cell /\ outer' = outer /\ inner' = inner /\ stack' = stack /\ ref' = ref
      /\ depth' = depth
  BY DEF vars
<1>2. Sound(cell', outer', inner', stack', ref', Places) /\ FramesOK(cell', stack', ref', depth')
  BY <1>1 DEF HeapInv
<1> QED BY <1>1, <1>2 DEF HeapInv

\* Every step that leaks nothing is a step of ValueSemantics, or none.
LEMMA FollowStays ==
    ASSUME ~leaked', HeapInv, Follow, [Next]_vars
    PROVE  Follow' /\ [Values!Next]_(Values!vars)
<1>1. CASE Next
  BY <1>1, StepDoes DEF Careful
<1>2. CASE UNCHANGED vars
  <2>1. Follow'
    BY <1>2 DEF vars, Follow, Followed, Follows
  <2>2. SlotsSeen' = SlotsSeen /\ StacksSeen' = StacksSeen /\ RefsSeen' = RefsSeen /\ depth' = depth
    BY <1>2 DEF vars, SlotsSeen, StacksSeen, RefsSeen, SlotView, StackView, RefView, ItemView, NumIn
  <2>3. UNCHANGED Values!vars
    BY <2>2, Seen, SeenNext DEF Values!vars
  <2> QED BY <2>1, <2>3
<1> QED BY <1>1, <1>2

\* What has leaked has leaked.
LEMMA LeakedStays ==
    ASSUME leaked \in BOOLEAN, [Next]_vars
    PROVE  leaked' \in BOOLEAN /\ (leaked => leaked')
<1>1. CASE \E s \in Slots : Load(s) \/ LoadAddr(s) \/ ListSet(s)
  BY <1>1 DEF Load, LoadAddr, ListSet
<1>2. CASE LoadField \/ LoadIndirect \/ LoadFieldAddr \/ LoadRefArg \/ Dup \/ Pop
  BY <1>2 DEF LoadField, LoadIndirect, LoadFieldAddr, LoadRefArg, Dup, Pop
<1>3. CASE (\E v \in Nums : NewObj(v)) \/ CallByValue \/ CallByRef \/ Return
  BY <1>3 DEF NewObj, CallByValue, CallByRef, Return, Enter, Leave
<1>4. CASE (\E s \in Slots : Store(s)) \/ StoreIndirect \/ InitObj
  BY <1>4 DEF Store, StoreIndirect, InitObj, Assigns, Leaks
<1>5. CASE StoreField \/ \E v \in Nums : StoreNum(v)
  BY <1>5 DEF StoreField, StoreNum, Leaks
<1>6. CASE UNCHANGED vars
  BY <1>6 DEF vars
<1> QED BY <1>1, <1>2, <1>3, <1>4, <1>5, <1>6 DEF Next

\* The addresses lead where they should until something has leaked.
LeakInv == leaked \in BOOLEAN /\ (leaked \/ Follow)

LEMMA LeakInvStays ==
    ASSUME HeapInv, LeakInv, [Next]_vars
    PROVE  LeakInv' /\ (leaked' \/ [Values!Next]_(Values!vars))
<1>1. leaked' \in BOOLEAN /\ (leaked => leaked')
  BY LeakedStays DEF LeakInv
<1>2. CASE leaked'
  BY <1>1, <1>2 DEF LeakInv
<1>3. CASE ~leaked'
  <2>1. Follow
    BY <1>1, <1>3 DEF LeakInv
  <2>2. Follow' /\ [Values!Next]_(Values!vars)
    BY <1>3, <2>1, FollowStays
  <2> QED BY <1>1, <2>2 DEF LeakInv
<1> QED BY <1>2, <1>3

\* Every pointer and every address leads somewhere, and the locals of exactly the
\* frames that are active are there (eval.go:353-372), for any number of frames,
\* slots and elements, whatever is shared and however long addresses are held.
THEOREM TypeCorrect == Spec => []TypeOK
<1>1. Init => HeapInv /\ LeakInv
  BY InitDoes DEF Init, LeakInv
<1>2. HeapInv /\ LeakInv => TypeOK
  <2> SUFFICES ASSUME HeapInv, LeakInv PROVE TypeOK
    OBVIOUS
  <2>1. cell \in [Slots -> Places \union {Nil}]
    BY DEF HeapInv, Sound, SlotsOK
  <2>2. stack \in [Frames -> Seq(Items)]
    <3>1. stack = [d \in Frames |-> stack[d]] /\ \A d \in Frames : stack[d] \in Seq(Items)
      BY DEF HeapInv, Sound, StacksOK, Items
    <3> QED BY <3>1
  <2>3. ref \in [Frames -> Items \union {NoItem}]
    <3>1. ref = [d \in Frames |-> ref[d]] /\ \A d \in Frames : ref[d] \in Items \union {NoItem}
      BY DEF HeapInv, Sound, RefsOK, ItemOK, Items
    <3> QED BY <3>1
  <2>4. \A s \in Owned : (cell[s] # Nil) = (s[1] <= depth)
    BY OwnedSlots DEF HeapInv, FramesOK
  <2> QED BY <2>1, <2>2, <2>3, <2>4 DEF TypeOK, HeapInv, FramesOK, LeakInv
<1>3. HeapInv /\ LeakInv /\ [Next]_vars => HeapInv' /\ LeakInv'
  BY HeapStays, LeakInvStays
<1> QED BY <1>1, <1>2, <1>3, PTL DEF Spec

\* Until a struct has been written while it was held elsewhere, or a slot assigned
\* while an address within it was held, an address taken within a slot leads into
\* the Struct that the slot holds (eval.go:706-751).
THEOREM AddressesLead == Spec => []AddressesFollowTheirSlot
<1>1. Init => HeapInv /\ LeakInv
  BY InitDoes DEF Init, LeakInv
<1>2. HeapInv /\ LeakInv /\ [Next]_vars => HeapInv' /\ LeakInv'
  BY HeapStays, LeakInvStays
<1>3. HeapInv /\ LeakInv => AddressesFollowTheirSlot
  BY AllAre DEF AddressesFollowTheirSlot, Follows, LeakInv
<1> QED BY <1>1, <1>2, <1>3, PTL DEF Spec

\* Up to that point the interpreter's pointers are not to be told from copies:
\* every instruction, call and return is one of the CLI's value semantics, for any
\* number of frames, slots, elements and values and any bound on the stacks
\* (struct.go:8-13, eval.go:449-857).
THEOREM ValuesAreImplemented == Spec => ImplementsValues
<1>1. Init => HeapInv /\ LeakInv /\ Values!Init
  BY InitDoes DEF Init, LeakInv
<1>2. HeapInv /\ LeakInv /\ [Next]_vars
         => HeapInv' /\ LeakInv' /\ [leaked' \/ [Values!Next]_(Values!vars)]_vars
  BY HeapStays, LeakInvStays
<1> QED BY <1>1, <1>2, PTL DEF Spec, ImplementsValues
=============================================================================
