----------------------------- MODULE TypeResolve -----------------------------
(***************************************************************************)
(* How one Assembly finds the types and the explicit interface             *)
(* implementations its code names, and what it caches (assembly.go):       *)
(* WithDependencies, resolveTypeByFullNameAt, buildType, resolveExplicit-  *)
(* Impl, for calls on several goroutines.                                  *)
(*                                                                         *)
(* A type is asked for in an assembly: in its cache, among its own         *)
(* definitions, in each dependency (all over again, there), and at last in *)
(* the index the packages of one LoadPackage share.  Building a type first *)
(* resolves its base and the types of its value-typed fields.  cacheMu is  *)
(* held for the look-up and for the store only.  A runtime.Type is known   *)
(* by its owner, its name and the goroutine that built it, and keeps what  *)
(* the build found out: its base's fields, a zero struct for its field.    *)
(***************************************************************************)
EXTENDS Naturals, Sequences, FiniteSets

CONSTANTS Asms, Names, Procs,
          None, Unknown,
          Declares,   \* Declares[a]: the TypeDefs of assembly a
          Native,     \* names bcl.LookupValueType knows
          Base,       \* Base[n]: what a class n extends, or None
          Field,      \* Field[n]: the type of n's value-typed field, or None
          HasImpl,    \* types with a MethodImpl for the interface method asked for
          Packages,   \* assemblies of the LoadPackage graph, with its index
          PackageDeps,\* their dependencies: [Packages -> Seq(Packages)]
          Attachable, \* pairs <<a, b>> for which the host calls a.WithDependencies(b)
          AttachLate, \* whether it does so after calls were made, too
          Calls,      \* what the code asks for: <<"type" or "impl", assembly, name>>
          MaxDepth,   \* maxValueTypeDepth
          MaxFrames   \* frames of recursion the Go stack has room for

Type == [owner : Asms \union {None}, name : Names, by : Procs \union {None},
         base : BOOLEAN, zero : BOOLEAN]

ASSUME TypeResolveAssumption ==
    /\ Declares \in [Asms -> SUBSET Names]
    /\ Native \subseteq Names /\ HasImpl \subseteq Names
    /\ Base \in [Names -> Names \union {None}]
    /\ Field \in [Names -> Names \union {None}]
    /\ None \notin Names \union Asms \union Procs \union Type
    /\ Unknown \notin Names \union {None}
    /\ Packages \subseteq Asms /\ PackageDeps \in [Packages -> Seq(Packages)]
    /\ MaxDepth \in Nat /\ MaxFrames \in Nat /\ AttachLate \in BOOLEAN
    /\ IsFiniteSet(Names)

VARIABLES deps,    \* Assembly.deps
          index,   \* the map globalTypeIndex points to
          joined,  \* the assemblies whose globalTypeIndex is that map, not nil
          types,   \* Assembly.types
          impls,   \* Assembly.explicitImpls, for the one interface method
          stack,   \* per goroutine, activations of resolveTypeByFullNameAt
          walk,    \* per goroutine, the activation of resolveExplicitImpl
          ret      \* per goroutine, the type just returned, None for an error

vars == <<deps, index, joined, types, impls, stack, walk, ret>>

NativeType(n) == [owner |-> None, name |-> n, by |-> None, base |-> FALSE, zero |-> FALSE]

\* own is the assembly that builds: asm itself or the owner in the index.
Frame(a, n, d) == [asm |-> a, own |-> a, name |-> n, depth |-> d,
                   at |-> "lookup", i |-> 1, base |-> FALSE, zero |-> FALSE]

Idle(p) == stack[p] = <<>> /\ walk[p] = None /\ ret[p] = None

Untouched ==
    /\ \A p \in Procs : Idle(p)
    /\ \A a \in Asms, n \in Names : types[a][n] = None /\ impls[a][n] = Unknown

\* LoadPackage has loaded Packages and indexed their types; a name several of
\* them declare went to whichever the map iteration met first.
Init ==
    /\ deps = [a \in Asms |-> IF a \in Packages THEN PackageDeps[a] ELSE <<>>]
    /\ index \in [Names -> Packages \union {None}]
    /\ \A n \in Names :
          LET owners == {a \in Packages : n \in Declares[a]}
          IN  IF owners = {} THEN index[n] = None ELSE index[n] \in owners
    /\ joined = Packages
    /\ types = [a \in Asms |-> [n \in Names |-> None]]
    /\ impls = [a \in Asms |-> [n \in Names |-> Unknown]]
    /\ stack = [p \in Procs |-> <<>>]
    /\ walk = [p \in Procs |-> None]
    /\ ret = [p \in Procs |-> None]

-----------------------------------------------------------------------------
(* What can be found from an assembly.                                     *)

Closed(S) == \A a \in S : \A i \in DOMAIN deps[a] : deps[a][i] \in S

\* An assembly, its dependencies, theirs, and so on.
Reach(a) == {b \in Asms : \A S \in SUBSET Asms : a \in S /\ Closed(S) => b \in S}

\* Some assembly below a declares n, or has an index that knows it.
Known(a, n) ==
    \E b \in Reach(a) : n \in Declares[b] \/ (b \in joined /\ index[n] # None)

Findable(a, n) == n \in Native \/ Known(a, n)

-----------------------------------------------------------------------------
(* WithDependencies.                                                       *)

Attach(a, b) ==
    /\ <<a, b>> \in Attachable
    /\ \A i \in DOMAIN deps[a] : deps[a][i] # b
    /\ AttachLate \/ Untouched
    /\ deps' = [deps EXCEPT ![a] = Append(@, b)]
    /\ IF a \in joined \/ b \in joined
       THEN /\ joined' = joined \union {a}
            /\ index' = [n \in Names |->
                           IF n \in Declares[a] /\ index[n] = None THEN a ELSE index[n]]
       ELSE UNCHANGED <<joined, index>>
    /\ UNCHANGED <<types, impls, stack, walk, ret>>

-----------------------------------------------------------------------------
(* resolveTypeByFullNameAt.                                                *)

Running(p) == stack[p] # <<>> /\ Len(stack[p]) <= MaxFrames
Top(p) == stack[p][Len(stack[p])]
At(p, where) == Running(p) /\ Top(p).at = where

Becomes(p, f) ==
    /\ stack' = [stack EXCEPT ![p][Len(stack[p])] = f]
    /\ ret' = [ret EXCEPT ![p] = None]
    /\ UNCHANGED <<deps, index, joined, types, impls, walk>>

Enter(p, f, callee) ==
    /\ stack' = [stack EXCEPT ![p] = Append([@ EXCEPT ![Len(@)] = f], callee)]
    /\ UNCHANGED <<deps, index, joined, types, impls, walk, ret>>

Return(p, t) ==
    /\ stack' = [stack EXCEPT ![p] = SubSeq(@, 1, Len(@) - 1)]
    /\ ret' = [ret EXCEPT ![p] = t]
    /\ UNCHANGED <<deps, index, joined, impls, walk>>

\* The interpreter needs type n while it runs code of assembly a.
CallType(p, a, n) ==
    /\ Idle(p)
    /\ <<"type", a, n>> \in Calls
    /\ stack' = [stack EXCEPT ![p] = <<Frame(a, n, 0)>>]
    /\ UNCHANGED <<deps, index, joined, types, impls, walk, ret>>

\* ... and goes on with the type.
Deliver(p) ==
    /\ stack[p] = <<>> /\ walk[p] = None /\ ret[p] # None
    /\ ret' = [ret EXCEPT ![p] = None]
    /\ UNCHANGED <<deps, index, joined, types, impls, stack, walk>>

InCache(p) == types[Top(p).asm][Top(p).name] # None

Hit(p) ==
    /\ At(p, "lookup")
    /\ InCache(p)
    /\ Return(p, types[Top(p).asm][Top(p).name])
    /\ UNCHANGED types

FindsNative(p) ==
    /\ At(p, "lookup")
    /\ ~InCache(p) /\ Top(p).name \in Native
    /\ Return(p, NativeType(Top(p).name))
    /\ UNCHANGED types

FindsOwn(p) ==
    /\ At(p, "lookup")
    /\ ~InCache(p) /\ Top(p).name \notin Native
    /\ Top(p).name \in Declares[Top(p).asm]
    /\ Becomes(p, [Top(p) EXCEPT !.at = "base"])

NotOwn(p) ==
    /\ At(p, "lookup")
    /\ ~InCache(p) /\ Top(p).name \notin Native
    /\ Top(p).name \notin Declares[Top(p).asm]
    /\ Becomes(p, [Top(p) EXCEPT !.at = "deps"])

AskDep(p) ==
    /\ At(p, "deps")
    /\ Top(p).i <= Len(deps[Top(p).asm])
    /\ Enter(p, [Top(p) EXCEPT !.at = "gotDep"],
             Frame(deps[Top(p).asm][Top(p).i], Top(p).name, 0))

DepHas(p) ==
    /\ At(p, "gotDep")
    /\ ret[p] # None
    /\ Return(p, ret[p])
    /\ UNCHANGED types

\* Mutant: the same dependency is asked again.
DepHasNotAgain(p) ==
    /\ At(p, "gotDep")
    /\ ret[p] = None
    /\ Becomes(p, [Top(p) EXCEPT !.at = "deps"])

DepHasNot(p) ==
    /\ At(p, "gotDep")
    /\ ret[p] = None
    /\ Becomes(p, [Top(p) EXCEPT !.at = "deps", !.i = @ + 1])

IndexOwner(f) ==
    IF f.asm \in joined /\ index[f.name] # f.asm THEN index[f.name] ELSE None

\* Mutant: the index is consulted before the dependencies.
FindsInIndexFirst(p) ==
    /\ At(p, "deps")
    /\ IndexOwner(Top(p)) # None
    /\ Becomes(p, [Top(p) EXCEPT !.at = "base", !.own = IndexOwner(Top(p))])

\* Mutant: an assembly without the index takes the owner all the same.
FindsInNoIndex(p) ==
    /\ At(p, "deps")
    /\ Top(p).i > Len(deps[Top(p).asm])
    /\ Becomes(p, [Top(p) EXCEPT !.at = "base", !.own = IndexOwner(Top(p))])

FindsInIndex(p) ==
    /\ At(p, "deps")
    /\ Top(p).i > Len(deps[Top(p).asm])
    /\ IndexOwner(Top(p)) # None
    /\ Becomes(p, [Top(p) EXCEPT !.at = "base", !.own = IndexOwner(Top(p))])

\* Mutant: the index is not consulted.
FindsNowhereIndexed(p) ==
    /\ At(p, "deps")
    /\ Top(p).i > Len(deps[Top(p).asm])
    /\ Return(p, None)
    /\ UNCHANGED types

FindsNowhere(p) ==
    /\ At(p, "deps")
    /\ Top(p).i > Len(deps[Top(p).asm])
    /\ IndexOwner(Top(p)) = None
    /\ Return(p, None)
    /\ UNCHANGED types

-----------------------------------------------------------------------------
(* buildType, and the store that follows it.                               *)

\* Mutant: only a base of the same assembly is resolved.
NoForeignBase(p) ==
    /\ At(p, "base")
    /\ Base[Top(p).name] \notin Declares[Top(p).own]
    /\ Becomes(p, [Top(p) EXCEPT !.at = "field"])

NoBase(p) ==
    /\ At(p, "base")
    /\ Base[Top(p).name] = None
    /\ Becomes(p, [Top(p) EXCEPT !.at = "field"])

AskBase(p) ==
    /\ At(p, "base")
    /\ Base[Top(p).name] # None
    /\ Enter(p, [Top(p) EXCEPT !.at = "gotBase"],
             Frame(Top(p).own, Base[Top(p).name], 0))

\* A base that cannot be resolved is no error: its fields are missing.
GotBase(p) ==
    /\ At(p, "gotBase")
    /\ Becomes(p, [Top(p) EXCEPT !.at = "field", !.base = ret[p] # None])

\* Mutants: the bound is off by one, or missing.
TooDeepByOne(f) == f.depth + 1 >= MaxDepth
NeverTooDeep(f) == FALSE

TooDeep(f) == f.depth >= MaxDepth

\* valueTypeDefault of the field, unless it is a native value type.
AskField(p) ==
    /\ At(p, "field")
    /\ Field[Top(p).name] # None /\ ~TooDeep(Top(p))
    /\ Field[Top(p).name] \notin Native
    /\ Enter(p, [Top(p) EXCEPT !.at = "gotField"],
             Frame(Top(p).own, Field[Top(p).name], Top(p).depth + 1))

NoField(p) ==
    /\ At(p, "field")
    /\ \/ Field[Top(p).name] = None
       \/ TooDeep(Top(p))
       \/ Field[Top(p).name] \in Native
    /\ Becomes(p, [Top(p) EXCEPT !.at = "store",
                     !.zero = ~TooDeep(Top(p)) /\ Field[Top(p).name] # None])

GotField(p) ==
    /\ At(p, "gotField")
    /\ Becomes(p, [Top(p) EXCEPT !.at = "store", !.zero = ret[p] # None])

Built(p) == [owner |-> Top(p).own, name |-> Top(p).name, by |-> p,
             base |-> Top(p).base, zero |-> Top(p).zero]

\* Mutant: without the second look, whoever stores last wins.
StoreUnchecked(p) ==
    /\ At(p, "store")
    /\ Return(p, Built(p))
    /\ types' = [types EXCEPT ![Top(p).own][Top(p).name] = Built(p)]

\* The loser of a race drops its own type and goes on with the stored one.
Store(p) ==
    /\ At(p, "store")
    /\ LET there == types[Top(p).own][Top(p).name]
           t == IF there = None THEN Built(p) ELSE there
       IN  /\ Return(p, t)
           /\ types' = [types EXCEPT ![Top(p).own][Top(p).name] = t]

-----------------------------------------------------------------------------
(* resolveExplicitImpl: up the base classes of the receiver's type.        *)

\* The miss and the hit are both remembered.
CallImpl(p, a, n) ==
    /\ Idle(p)
    /\ <<"impl", a, n>> \in Calls
    /\ impls[a][n] = Unknown
    /\ walk' = [walk EXCEPT ![p] = [asm |-> a, name |-> n, cur |-> n, seen |-> {n}, up |-> FALSE]]
    /\ UNCHANGED <<deps, index, joined, types, impls, stack, ret>>

\* resolveExplicitImplExact: the MethodImpl table of whoever declares n.
ImplHere(a, n) == n \in HasImpl /\ Known(a, n)

Walking(p, up) == stack[p] = <<>> /\ walk[p] # None /\ walk[p].up = up

StoreImpl(p, found) ==
    /\ impls' = [impls EXCEPT ![walk[p].asm][walk[p].name] = found]
    /\ walk' = [walk EXCEPT ![p] = None]
    /\ ret' = [ret EXCEPT ![p] = None]
    /\ UNCHANGED <<deps, index, joined, types, stack>>

WalkFinds(p) ==
    /\ Walking(p, FALSE)
    /\ ImplHere(walk[p].asm, walk[p].cur)
    /\ StoreImpl(p, walk[p].cur)

WalkAsks(p) ==
    /\ Walking(p, FALSE)
    /\ ~ImplHere(walk[p].asm, walk[p].cur)
    /\ walk' = [walk EXCEPT ![p].up = TRUE]
    /\ stack' = [stack EXCEPT ![p] = <<Frame(walk[p].asm, walk[p].cur, 0)>>]
    /\ UNCHANGED <<deps, index, joined, types, impls, ret>>

\* Mutant: base classes are not searched.
AboveNever(p) == None

Above(p) == IF ret[p] = None THEN None ELSE Base[ret[p].name]

WalkUp(p) ==
    /\ Walking(p, TRUE)
    /\ Above(p) # None /\ Above(p) \notin walk[p].seen
    /\ walk' = [walk EXCEPT ![p] = [walk[p] EXCEPT !.up = FALSE, !.cur = Above(p),
                                                   !.seen = walk[p].seen \union {Above(p)}]]
    /\ ret' = [ret EXCEPT ![p] = None]
    /\ UNCHANGED <<deps, index, joined, types, impls, stack>>

WalkEnds(p) ==
    /\ Walking(p, TRUE)
    /\ Above(p) = None \/ Above(p) \in walk[p].seen
    /\ StoreImpl(p, None)

-----------------------------------------------------------------------------
Step(p) ==
    \/ Deliver(p) \/ Hit(p) \/ FindsNative(p) \/ FindsOwn(p) \/ NotOwn(p)
    \/ AskDep(p) \/ DepHas(p) \/ DepHasNot(p) \/ FindsInIndex(p) \/ FindsNowhere(p)
    \/ NoBase(p) \/ AskBase(p) \/ GotBase(p)
    \/ NoField(p) \/ AskField(p) \/ GotField(p) \/ Store(p)
    \/ WalkFinds(p) \/ WalkAsks(p) \/ WalkUp(p) \/ WalkEnds(p)

Next ==
    \/ \E p \in Procs : Step(p)
    \/ \E p \in Procs, a \in Asms, n \in Names : CallType(p, a, n) \/ CallImpl(p, a, n)
    \/ \E a, b \in Asms : Attach(a, b)

Spec == Init /\ [][Next]_vars

FairSpec == Spec /\ \A p \in Procs : WF_vars(Step(p))

-----------------------------------------------------------------------------
Wheres == {"lookup", "deps", "gotDep", "base", "gotBase", "field", "gotField", "store"}

\* The state has the types the declarations announce.
TypeOK ==
    /\ deps \in [Asms -> Seq(Asms)]
    /\ index \in [Names -> Asms \union {None}]
    /\ joined \subseteq Asms
    /\ \A a \in Asms, n \in Names :
          /\ types[a][n] # None => types[a][n] \in Type
          /\ impls[a][n] \in Names \union {None, Unknown}
    /\ \A p \in Procs :
          /\ \A i \in DOMAIN stack[p] :
                LET f == stack[p][i]
                IN  /\ {f.asm, f.own} \subseteq Asms /\ f.name \in Names
                    /\ f.depth \in 0..MaxDepth /\ f.at \in Wheres /\ f.i \in Nat \ {0}
                    /\ f.base \in BOOLEAN /\ f.zero \in BOOLEAN
          /\ walk[p] # None => walk[p].cur \in walk[p].seen
          /\ ret[p] # None => ret[p] \in Type

\* However many goroutines build a type at once, "every caller still ends up
\* with the one stored in asm.types" (assembly.go:2092-2096): what is handed out
\* is what is cached then and for ever, so that no static field and no .cctor
\* latch exists twice.
OneTypeForAll ==
    [][/\ \A a \in Asms, n \in Names : types[a][n] # None => types'[a][n] = types[a][n]
       /\ \A p \in Procs : LET t == ret'[p]
                           IN  t # None /\ t.owner # None => types'[t.owner][t.name] = t]_vars

\* A cached type has the fields of its base whenever the base can be found: no
\* order of calls freezes an incomplete layout.
LayoutIsComplete ==
    \A a \in Asms, n \in Names :
        types[a][n] # None /\ Base[n] # None /\ Findable(a, Base[n]) => types[a][n].base

\* A field of a value type starts as a zero struct, "or Null() for anything
\* reference-shaped or unresolvable" (assembly.go:2616-2619), unless the struct has
\* a static field of its own type, or its fields nest deeper than MaxDepth.
DefaultsAreZero ==
    \A a \in Asms, n \in Names :
        types[a][n] # None /\ Field[n] \notin {None, n} /\ Findable(a, Field[n]) => types[a][n].zero

\* Violated: "a real zero-valued struct for a value type with fields" (assembly.go:
\* 2613-2619).  The look-up goes down the field as far as MaxDepth, and the Type
\* whose default was cut off there is stored first.
OwnTypeDefaultsAreZero ==
    \A a \in Asms, n \in Names :
        types[a][n] # None /\ Field[n] = n => types[a][n].zero

\* "self always wins on a name collision" (assembly.go:35-36), an error is
\* returned only for what cannot be found, and what is found is the type asked for.
ResolvesRight ==
    [][\A p \in Procs : Len(stack'[p]) < Len(stack[p]) =>
          LET f == Top(p)
              t == ret'[p]
          IN  IF t = None THEN ~Findable(f.asm, f.name)
              ELSE /\ t.name = f.name
                   /\ f.name \in Declares[f.asm] \ Native => t.owner = f.asm]_vars

\* The classes above n, as far as they can be resolved from a.
Ancestor(a, n) ==
    LET Up[k \in Nat] ==
          IF k = 0 THEN n
          ELSE IF Up[k - 1] = None \/ ~Findable(a, Up[k - 1]) THEN None
          ELSE Base[Up[k - 1]]
    IN  Up

ImplOf(a, n) ==
    LET found == {k \in 0..Cardinality(Names) :
                     Ancestor(a, n)[k] # None /\ ImplHere(a, Ancestor(a, n)[k])}
    IN  IF found = {} THEN None
        ELSE Ancestor(a, n)[CHOOSE k \in found : \A j \in found : k <= j]

\* A remembered answer is the one a new walk would give: resolveExplicitImpl "is
\* a pure function of the loaded metadata, which never changes" (assembly.go:83-86).
\* Violated when a dependency is attached after the first call.
ImplCacheIsCurrent ==
    \A a \in Asms, n \in Names : impls[a][n] # Unknown => impls[a][n] = ImplOf(a, n)

\* An assembly takes a type from the index only if nothing in its own chain of
\* dependencies declares it, and only the type the index has.
IndexIsLastResort ==
    [][\A p \in Procs : \A k \in DOMAIN stack[p] :
          LET f == stack[p][k]
          IN  f.own # f.asm =>
                /\ f.asm \in joined /\ index[f.name] = f.own
                /\ \A b \in Reach(f.asm) : f.name \notin Declares[b]]_vars

\* Violated: the index is "consulted only as an absolute last resort, after this
\* assembly's own metadata and its own deps chain both fail" (assembly.go:53-55).  The
\* index of one dependency answers before the next dependency is asked.
DependenciesComeFirst ==
    [][\A p \in Procs : Len(stack'[p]) < Len(stack[p]) /\ ret'[p] # None =>
          LET f == Top(p)
          IN  (\E b \in Reach(f.asm) : f.name \in Declares[b] \ Native)
                 => ret'[p].owner \in Reach(f.asm)]_vars

-----------------------------------------------------------------------------
(* Why the right one is found: what the frames of a goroutine know, while  *)
(* nothing is attached any more.                                           *)

FrameType == [asm : Asms, own : Asms, name : Names, depth : 0..MaxDepth, at : Wheres,
              i : Nat \ {0}, base : BOOLEAN, zero : BOOLEAN]
WalkType == [asm : Asms, name : Names, cur : Names, seen : SUBSET Names, up : BOOLEAN]

Shapes ==
    /\ types \in [Asms -> [Names -> Type \union {None}]]
    /\ impls \in [Asms -> [Names -> Names \union {None, Unknown}]]
    /\ stack \in [Procs -> Seq(FrameType)]
    /\ walk \in [Procs -> WalkType \union {None}]
    /\ ret \in [Procs -> Type \union {None}]

\* What is cached is its assembly's own, and its layout complete.
CachedAreOwn ==
    \A a \in Asms, n \in Names : LET t == types[a][n] IN t # None =>
        /\ t.owner = a /\ t.name = n /\ n \in Declares[a] \ Native
        /\ Base[n] # None /\ Findable(a, Base[n]) => t.base

Answers(a, n, t) ==
    IF t = None THEN ~Findable(a, n)
    ELSE Findable(a, n) /\ t.name = n /\ (n \in Declares[a] \ Native => t.owner = a)

Waiting == {"gotDep", "gotBase", "gotField"}

\* What the frame above f is about.
AskedAsm(f) == IF f.at = "gotDep" THEN deps[f.asm][f.i] ELSE f.own
AskedName(f) == CASE f.at = "gotDep" -> f.name [] f.at = "gotBase" -> Base[f.name] [] OTHER -> Field[f.name]

\* The assembly itself and the dependencies before f.i do not have the type.
Sought(f) ==
    /\ f.own = f.asm /\ f.name \notin Native \union Declares[f.asm]
    /\ \A j \in 1..(f.i - 1) :
          j \in DOMAIN deps[f.asm] /\ ~Findable(deps[f.asm][j], f.name)

LastResort(f) ==
    /\ f.asm \in joined /\ index[f.name] = f.own
    /\ \A b \in Reach(f.asm) : f.name \notin Declares[b]

Building(f) ==
    /\ f.name \in Declares[f.own] \ Native
    /\ f.own # f.asm => LastResort(f)

FrameKnows(f) ==
    /\ f.at = "lookup" => f.own = f.asm /\ f.i = 1
    /\ f.at \in {"deps", "gotDep"} => Sought(f)
    /\ f.at = "gotDep" => f.i \in DOMAIN deps[f.asm]
    /\ f.at \in {"base", "gotBase", "field", "gotField", "store"} => Building(f)
    /\ f.at = "gotBase" => Base[f.name] # None
    /\ f.at = "gotField" => Field[f.name] # None
    /\ f.at \in {"field", "gotField", "store"} =>
          (Base[f.name] # None /\ Findable(f.own, Base[f.name]) => f.base)

FramesKnow ==
    \A p \in Procs :
        /\ \A k \in 1..Len(stack[p]) : FrameKnows(stack[p][k])
        /\ \A k \in 1..(Len(stack[p]) - 1) :
              LET f == stack[p][k]
              IN  /\ f.at \in Waiting
                  /\ stack[p][k + 1].asm = AskedAsm(f) /\ stack[p][k + 1].name = AskedName(f)

\* What was returned answers what was asked, and is the Type that is cached.
ReturnsAreRight ==
    \A p \in Procs :
        /\ stack[p] # <<>> /\ Top(p).at \in Waiting =>
              Answers(AskedAsm(Top(p)), AskedName(Top(p)), ret[p])
        /\ ret[p] # None /\ ret[p].owner # None => types[ret[p].owner][ret[p].name] = ret[p]

IInv ==
    /\ TypeOK
    /\ Shapes
    /\ \A n \in Names : index[n] # None => n \in Declares[index[n]]
    /\ CachedAreOwn
    /\ FramesKnow
    /\ ReturnsAreRight

-----------------------------------------------------------------------------
(* Why explicit implementations, zero values and the Go stack are right.   *)

\* Of the classes the walk of p has been at, only the last may have the MethodImpl.
WalkKnows(p) ==
    LET w == walk[p]
        Up == Ancestor(w.asm, w.name)
    IN  /\ \E k \in 0..Cardinality(Names) :
              /\ w.cur = Up[k] /\ w.seen = {Up[j] : j \in 0..k}
              /\ \A i, j \in 0..k : Up[i] = Up[j] => i = j
              /\ \A j \in 0..k : j < k \/ w.up => ~ImplHere(w.asm, Up[j])
        /\ IF stack[p] = <<>>
           THEN w.up => Answers(w.asm, w.cur, ret[p])
           ELSE w.up /\ stack[p][1].asm = w.asm /\ stack[p][1].name = w.cur

WalksKnow == \A p \in Procs : walk[p] # None => WalkKnows(p)

\* The structs whose fields nest at most k deep, but for fields of their own type.
Nested ==
    LET Within[k \in Nat] ==
          {n \in Names : \/ Field[n] \in {None, n}
                        \/ (k > 0 /\ (Field[n] \in Native \/ Field[n] \in Within[k - 1]))}
    IN  Within

\* No struct nests deeper than zero values are made.
StructsAreShallow == Nested[MaxDepth] = Names

HasZero(a, n, zero) == Field[n] \notin {None, n} /\ Findable(a, Field[n]) => zero

ZerosAreMade ==
    /\ \A a \in Asms, n \in Names : types[a][n] # None => HasZero(a, n, types[a][n].zero)
    /\ \A p \in Procs : \A k \in 1..Len(stack[p]) :
          LET f == stack[p][k]
          IN  f.name \in Nested[MaxDepth - f.depth] /\ (f.at = "store" => HasZero(f.own, f.name, f.zero))

\* A look-up q may have to make the look-up r: in a dependency, or for the base
\* or the field of the type that the assembly or the index has.
Questions == Asms \X Names \X (0..MaxDepth)

Leads(q, r) ==
    LET own == IF q[2] \in Declares[q[1]] THEN q[1] ELSE index[q[2]]
    IN  /\ q[2] \notin Native
        /\ \/ /\ q[2] \notin Declares[q[1]] /\ r[2] = q[2] /\ r[3] = 0
              /\ \E i \in DOMAIN deps[q[1]] : r[1] = deps[q[1]][i]
           \/ r[1] = own /\ r[2] = Base[q[2]] /\ r[3] = 0
           \/ r[1] = own /\ r[2] = Field[q[2]] /\ r[3] = q[3] + 1

\* The look-ups that need at most k frames.
Shorter ==
    LET Within[k \in Nat] ==
          IF k = 0 THEN {}
          ELSE {q \in Questions : \A r \in Questions : Leads(q, r) => r \in Within[k - 1]}
    IN  Within

\* No packages, bases and fields lead back to where they started, nor further
\* than the Go stack has frames.
StackSuffices == Shorter[MaxFrames] = Questions

FramesFit ==
    \A p \in Procs : \A k \in 1..Len(stack[p]) :
        LET f == stack[p][k]
        IN  k <= MaxFrames /\ <<f.asm, f.name, f.depth>> \in Shorter[MaxFrames + 1 - k]

\* No look-up overflows the Go stack.  Violated by a cycle of dependencies, which
\* "terminates cleanly rather than recursing forever" (docs/en/nuget-support.md:114-115).
NoOverflow == \A p \in Procs : Len(stack[p]) <= MaxFrames

\* What is cached does not depend on who asked for what in which order: it is what
\* the loaded assemblies declare.
ResolveInv ==
    /\ IInv
    /\ LayoutIsComplete
    /\ DefaultsAreZero
    /\ ImplCacheIsCurrent

\* A look-up ends with a declaration of the name, an error only when there is none;
\* with the assembly's own if it has one; with one from the index only where the
\* assembly that took it has none below it; and with the one Type there is of it.
RightDeclaration == OneTypeForAll /\ ResolvesRight /\ IndexIsLastResort

\* Every call returns to the interpreter.
CallsReturn == \A p \in Procs : ~Idle(p) ~> Idle(p)
=============================================================================
