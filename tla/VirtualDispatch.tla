-------------------------- MODULE VirtualDispatch --------------------------
(***************************************************************************)
(* Machine.call (internal/interpreter/calls.go): which method a call site  *)
(* runs.  There are no method tables.  A callvirt asks for an explicit     *)
(* implementation of the method it names, then for a method of that name   *)
(* in the receiver's class and in each of its bases, then in System.Object, *)
(* and last for the method it names.                                       *)
(*                                                                         *)
(* The receiver's class is 1, its base 2, and so on up to the class below  *)
(* System.Object, which is Root.  A program says what each class declares  *)
(* under the method's name and what the call site names; it is chosen once, *)
(* among those a C# compiler accepts.  Target is the method the CLI's slots *)
(* select (ECMA-335 II.10.3 and II.12.2), which the walk is to find.       *)
(***************************************************************************)
EXTENDS Naturals

CONSTANT Depth \* how many classes the chain has

Classes == 1..Depth
Root == Depth + 1
Interface == 0

ASSUME VirtualDispatchAssumption == Depth \in Nat \ {0}

\* What a class declares under the name: nothing, a method in the slot of a
\* base's, one in a slot of its own, or only one with other parameters, which
\* the arguments of this call fit or do not fit.
Declarations == {"nothing", "override", "own slot", "misfit", "overload"}

\* How a class implements the interface, if it lists it.
Implementations == {"not listed", "implicit", "explicit"}

VARIABLES program, pc, at, ran

vars == <<program, pc, at, ran>>

Method(k) == <<"method", k>>
Explicit(k) == <<"explicit", k>>
ObjectNative == <<"object", Root>>
Unsupported == <<"unsupported", Root>>
NotYet == <<"none", Root>>

Programs ==
    [declares   : [Classes -> Declarations],
     implements : [Classes -> Implementations],
     broken     : SUBSET Classes, \* bodies that do not build
     object     : BOOLEAN,        \* System.Object has a method of this shape
     names      : Classes \union {Interface, Root}, \* what the call site names
     virtual    : BOOLEAN]        \* callvirt, or a call of the host

-----------------------------------------------------------------------------
(* Programs that compile, and the plain ones among them.                   *)

OwnSlot(p, k) == p.declares[k] = "own slot"
Declares(p, k) == OwnSlot(p, k) \/ p.declares[k] = "override"
Lists(p, k) == p.implements[k] # "not listed"
DeclaresAbove(p, k) == \E j \in k..Depth : Declares(p, j)
Listers(p) == {k \in Classes : Lists(p, k)}

\* Instance.Call names the receiver's class, whichever base has the method.
HostCall(p) ==
    p.virtual /\ p.names = 1 /\ DeclaresAbove(p, 1) /\ p.declares[1] # "overload"

Compiles(p) ==
    /\ \A k \in Classes : p.declares[k] = "override" =>
           p.object \/ \E j \in (k + 1)..Depth : OwnSlot(p, j)
    /\ \A k \in Classes : p.implements[k] = "implicit" => DeclaresAbove(p, k)
    /\ \/ p.names = Interface /\ p.virtual /\ ~p.object /\ Listers(p) # {}
       \/ p.names = Root /\ p.object /\ Listers(p) = {}
       \/ /\ p.names \in Classes /\ Listers(p) = {}
          /\ Declares(p, p.names) \/ HostCall(p)

\* Class k hides a method it inherits.
Hides(p, k) ==
    /\ OwnSlot(p, k)
    /\ p.object \/ \E j \in (k + 1)..Depth : Declares(p, j)

\* No class declares a base's method anew ("new"), or another method of the name
\* that the arguments fit, at most one lists the interface, and every body builds.
Plain(p) ==
    /\ \A k \in Classes : ~Hides(p, k)
    /\ \A k \in Classes : p.declares[k] # "overload"
    /\ \A j, k \in Listers(p) : j = k
    /\ p.broken = {}

-----------------------------------------------------------------------------
(* What the CLI runs.                                                      *)

Nearest(S) == CHOOSE k \in S : \A j \in S : k <= j

\* The nearest method at class k or above: the one a name at k stands for.
Named(p, k) == Nearest({j \in k..Depth : Declares(p, j)})

\* Class j, at or below k, still fills the slot that k's method is in.
SameSlot(p, j, k) ==
    Declares(p, j) /\ \A i \in j..(k - 1) : ~OwnSlot(p, i)

\* The most derived method in the slot of k's method, k = Root for Object's.
Slot(p, k) ==
    LET filling == {j \in 1..k : j = k \/ SameSlot(p, j, k)}
    IN  IF Nearest(filling) = Root THEN ObjectNative ELSE Method(Nearest(filling))

Target(p) ==
    CASE p.names = Interface ->
           LET k == Nearest(Listers(p))
           IN  IF p.implements[k] = "explicit" THEN Explicit(k) ELSE Slot(p, Named(p, k))
      [] p.names = Root -> IF p.virtual THEN Slot(p, Root) ELSE ObjectNative
      [] OTHER -> IF p.virtual THEN Slot(p, Named(p, p.names))
                               ELSE Method(Named(p, p.names))

-----------------------------------------------------------------------------
(* Machine.call.                                                           *)

Init ==
    /\ program \in {p \in Programs : Compiles(p)}
    /\ pc = (IF program.virtual THEN "explicit" ELSE "declared")
    /\ at = 1
    /\ ran = NotYet

Run(m) ==
    /\ ran' = m /\ pc' = "done"
    /\ UNCHANGED <<program, at>>

GoTo(next) ==
    /\ pc' = next
    /\ UNCHANGED <<program, at, ran>>

\* The classes with a MethodImpl row for the method the call site names.
Explicits ==
    IF program.names = Interface
    THEN {k \in Classes : program.implements[k] = "explicit"} ELSE {}

TryExplicitNever == pc = "explicit" /\ GoTo("walk")
\* ResolveExplicitImpl: the nearest such row, wherever another class lists the
\* interface.
TryExplicit ==
    /\ pc = "explicit"
    /\ IF Explicits # {} /\ Nearest(Explicits) \notin program.broken
       THEN Run(Explicit(Nearest(Explicits)))
       ELSE GoTo("walk")

\* tryCall of class k's method of this name finds one: its parameters fit the
\* arguments, and its body can be built.
Resolves(k) ==
    /\ program.declares[k] \in {"override", "own slot", "overload"}
    /\ k \notin program.broken

TryAncestor ==
    /\ pc = "walk"
    /\ Resolves(at)
    /\ Run(Method(at))

NextAncestorNone == pc = "walk" /\ ~Resolves(at) /\ GoTo("object")
\* baseTypeOf: the walk ends below System.Object.
NextAncestor ==
    /\ pc = "walk"
    /\ ~Resolves(at)
    /\ IF at < Depth
       THEN at' = at + 1 /\ UNCHANGED <<program, pc, ran>>
       ELSE GoTo("object")

\* Equals, GetHashCode, ToString and GetType, with the arguments Object's take.
TryObject ==
    /\ pc = "object"
    /\ IF program.object THEN Run(ObjectNative) ELSE GoTo("declared")

\* The method the call site names.  resolveByFullName looks in the class it
\* names only, and an interface's method has no body.
TryDeclared ==
    /\ pc = "declared"
    /\ CASE program.names = Root -> Run(ObjectNative)
         [] program.names \in Classes /\ Resolves(program.names) -> Run(Method(program.names))
         [] OTHER -> Run(Unsupported)

Next == TryExplicit \/ TryAncestor \/ NextAncestor \/ TryObject \/ TryDeclared

Spec == Init /\ [][Next]_vars

-----------------------------------------------------------------------------

\* In a plain program the method that runs is the one the slots select, and no call is
\* refused: the walk by name is "real virtual dispatch" (calls.go:144), without method
\* tables.
RightMethodRuns == Plain(program) => ran \in {NotYet, Target(program)}
=============================================================================
