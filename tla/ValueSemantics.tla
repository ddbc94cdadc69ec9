--------------------------- MODULE ValueSemantics ---------------------------
(***************************************************************************)
(* What the CLI promises of value types, for the instructions StructValues *)
(* models: a storage slot holds a value of its own, an instruction that    *)
(* reads it makes a copy, an instruction that writes it changes that slot  *)
(* and nothing else, and an address names a slot for as long as it is      *)
(* held.  A struct has one field n, a struct with one numeric field x, so  *)
(* a slot and every address into it stand for one number.                  *)
(***************************************************************************)
EXTENDS Naturals, Sequences

CONSTANTS MaxDepth, \* method activations
          Shared,   \* static fields, fields of objects, array elements
          Lists,    \* elements of collections
          Nums,     \* the values of x
          NoSlot, NoNum, NoItem

VARIABLES slot,  \* the number in each slot, NoNum for a slot that is not there
          stack, \* the evaluation stack of each activation
          ref,   \* the address each activation was passed, or NoItem
          depth

vars == <<slot, stack, ref, depth>>

Frames == 1..MaxDepth
Slots == (Frames \X {"local"}) \union ((2..MaxDepth) \X {"arg"}) \union ({0} \X (Shared \union Lists))
Here(s) == s[1] \in {0, depth}

Value(is, v) == [is |-> is, of |-> NoSlot, num |-> v]
Address(is, s) == [is |-> is, of |-> s, num |-> NoNum]

Item(k) == stack[depth][Len(stack[depth]) - k + 1]
Has(k) == Len(stack[depth]) >= k
Pops(k, items) ==
    stack' = [stack EXCEPT ![depth] = SubSeq(@, 1, Len(@) - k) \o items]

Init ==
    /\ slot = [s \in Slots |-> IF s = <<1, "local">> \/ s[2] \in Shared THEN 0 ELSE NoNum]
    /\ stack = [d \in Frames |-> <<>>]
    /\ ref = [d \in Frames |-> NoItem]
    /\ depth = 1

\* Reading: a copy of the slot's number goes on the stack.
Read ==
    /\ \/ \E s \in Slots : Here(s) /\ slot[s] # NoNum /\ Pops(0, <<Value("struct", slot[s])>>)
       \/ /\ Has(1) /\ Item(1).is \in {"&", "&n"}
          /\ \E is \in {"struct", "nested"} : Pops(1, <<Value(is, slot[Item(1).of])>>)
       \/ Has(1) /\ Item(1).is = "struct" /\ Pops(1, <<Value("nested", Item(1).num)>>)
    /\ UNCHANGED <<slot, ref, depth>>

\* Addresses, duplicates, temporaries and what is thrown away.
Handle ==
    /\ \/ \E s \in Slots : Here(s) /\ slot[s] # NoNum /\ Pops(0, <<Address("&", s)>>)
       \/ Has(1) /\ Item(1).is = "&" /\ Pops(1, <<Address("&n", Item(1).of)>>)
       \/ Has(1) /\ Item(1).is = "&n" /\ Pops(1, <<Address("&x", Item(1).of)>>)
       \/ ref[depth] # NoItem /\ Pops(0, <<ref[depth]>>)
       \/ Has(1) /\ Pops(0, <<Item(1)>>)
       \/ Has(1) /\ Pops(1, <<>>)
       \/ \E v \in Nums : Pops(0, <<Value("struct", v)>>)
    /\ UNCHANGED <<slot, ref, depth>>

\* Writing: one slot changes.
Write ==
    /\ \/ \E s \in Slots : /\ Here(s) /\ Has(1) /\ Item(1).is = "struct"
                           /\ slot' = [slot EXCEPT ![s] = Item(1).num]
                           /\ Pops(1, <<>>)
       \/ /\ Has(2) /\ Item(2).of # NoSlot /\ Item(1).of = NoSlot
          /\ slot' = [slot EXCEPT ![Item(2).of] = Item(1).num]
          /\ Pops(2, <<>>)
       \/ /\ Has(1) /\ Item(1).of # NoSlot
          /\ \E v \in Nums : slot' = [slot EXCEPT ![Item(1).of] = v]
          /\ Pops(1, <<>>)
    /\ UNCHANGED <<ref, depth>>

Call ==
    /\ depth < MaxDepth /\ Has(1)
    /\ Pops(1, <<>>)
    /\ depth' = depth + 1
    /\ \/ /\ Item(1).is = "struct"
          /\ slot' = [slot EXCEPT ![<<depth + 1, "arg">>] = Item(1).num,
                                  ![<<depth + 1, "local">>] = 0]
          /\ UNCHANGED ref
       \/ /\ Item(1).of # NoSlot
          /\ slot' = [slot EXCEPT ![<<depth + 1, "local">>] = 0]
          /\ ref' = [ref EXCEPT ![depth + 1] = Item(1)]

Return ==
    /\ depth > 1
    /\ slot' = [slot EXCEPT ![<<depth, "arg">>] = NoNum, ![<<depth, "local">>] = NoNum]
    /\ ref' = [ref EXCEPT ![depth] = NoItem]
    /\ depth' = depth - 1
    /\ \E r \in {<<>>} \union (IF Has(1) /\ Item(1).of = NoSlot THEN {<<Item(1)>>} ELSE {}) :
           stack' = [stack EXCEPT ![depth] = <<>>, ![depth - 1] = @ \o r]

Next == Read \/ Handle \/ Write \/ Call \/ Return

Spec == Init /\ [][Next]_vars
=============================================================================
