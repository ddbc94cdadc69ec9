------------------------------ MODULE Overloads ------------------------------
(***************************************************************************)
(* Which method a name means, and what a value may be cast to.  A call     *)
(* site keeps only the name of its method, so the method is found again    *)
(* among those of that name, by the types the site declares and the values *)
(* it passes (assembly.go, pickMethodOverload).  Casts and exception       *)
(* matching walk the base types (interpreter/typecheck.go), equality the   *)
(* contents (bcl/system_object.go).                                        *)
(*                                                                         *)
(* The reference is the type system: Accepts, Supertypes.                  *)
(***************************************************************************)
EXTENDS Integers, Sequences, FiniteSets, Functions

CONSTANTS Hierarchy   \* a type's [is, base, interfaces]; a class lists every interface it has

NoName == ""
Primitives == {"Boolean", "Char", "U1", "I4", "I8", "R4", "R8"}
\* A parameter's type, and a value with the type it was made as.
Param(kind, name) == [kind |-> kind, name |-> name]
Value(kind, type, content) == [kind |-> kind, type |-> type, content |-> content]
NumberKinds == {"I4", "I8", "R4", "R8"}
IsOf(name, what) == name \in DOMAIN Hierarchy /\ Hierarchy[name].is = what

-----------------------------------------------------------------------------
\* Names of parameters and of values.

paramTypeName(p) ==
    IF p.kind \in {"Class", "ValueType", "GenericInst", "Boolean", "Char"} THEN p.name ELSE NoName
sigParamTypeNames(params) == [j \in DOMAIN params |-> paramTypeName(params[j])]
NumberName == [I4 |-> "Int32", I8 |-> "Int64", R4 |-> "Single", R8 |-> "Double"]
runtimeValueTypeName(v) ==
    CASE v.kind = "String" -> "String" [] v.kind \in NumberKinds -> NumberName[v.kind]
      [] v.kind \in {"Func", "Struct", "Object"} -> v.type
      [] OTHER -> NoName

RECURSIVE BaseChain(_)
BaseChain(name) == IF name \notin DOMAIN Hierarchy THEN {} ELSE {name} \cup BaseChain(Hierarchy[name].base)
\* Objects only; of a native one, its base types.
valueIsAssignableToTypeName(v, target) ==
    /\ v.kind = "Object"
    /\ \/ target = v.type
       \/ ~IsOf(v.type, "exception") /\ target \in BaseChain(v.type)
       \/ /\ IsOf(v.type, "class")
          /\ \E n \in BaseChain(v.type) : target \in Hierarchy[n].interfaces

-----------------------------------------------------------------------------
\* The score of a candidate.

scoreParamMatch(sig, arg) ==
    LET small == {"Boolean", "Char", "U1"}
    IN CASE arg = "I4" -> (CASE sig = "I4" -> 10 [] sig \in small -> 8 [] sig \in {"I8", "R4", "R8"} -> 5
                             [] sig = "ValueType" -> 4 [] sig = "Object" -> 2 [] OTHER -> 0)
         [] arg = "I8" -> (CASE sig = "I8" -> 10 [] sig \in {"R4", "R8"} -> 5 [] sig = "Object" -> 2 [] OTHER -> 0)
         [] arg = "R4" -> (CASE sig = "R4" -> 10 [] sig = "R8" -> 8 [] sig = "Object" -> 2 [] OTHER -> 0)
         [] arg = "R8" -> (CASE sig = "R8" -> 10 [] sig = "R4" -> 6 [] sig = "Object" -> 2 [] OTHER -> 0)
         [] arg = "String" -> (CASE sig = "String" -> 10 [] sig \in {"Object", "Class"} -> 3 [] OTHER -> 0)
         [] arg = "Null" -> (CASE sig \in {"Class", "String", "SZArray", "GenericInst"} -> 5 [] sig = "Object" -> 3
                               [] OTHER -> 0)
         [] arg = "Ref" -> IF sig = "ByRef" THEN 10 ELSE 1
         [] arg \in {"Object", "Func"} -> IF sig \in {"Class", "Object", "GenericInst"} THEN 5 ELSE 1
         [] arg = "Struct" -> IF sig \in {"ValueType", "GenericInst"} THEN 5 ELSE 1
         [] arg = "Array" -> (CASE sig = "SZArray" -> 10 [] sig = "Object" -> 2 [] OTHER -> 0)

\* Pairs no conversion can bring together.
hasHardShapeMismatch(params, args) ==
    \/ \E i \in DOMAIN params :
         LET p == params[i]
             a == args[i].kind
         IN \/ a = "Object" /\ p.kind \in Primitives \cup {"ValueType", "SZArray"}
            \/ a \in NumberKinds /\ p.kind \in {"Class", "String"}
            \/ a = "Array" /\ p.kind = "Class" /\ IsOf(p.name, "delegate")
    \/ \E i, j \in DOMAIN params :
         i < j /\ params[i].kind = "GenericParam" /\ params[i] = params[j] /\ args[i].kind # args[j].kind

\* A method: [this, generics, params].  The receiver is the first argument.
Declared(m, args) == IF m.this /\ args # <<>> THEN Tail(args) ELSE args
candidateMatchesArgs(m, args) ==
    /\ Len(Declared(m, args)) = Len(m.params)
    /\ ~hasHardShapeMismatch(m.params, Declared(m, args))
\* Mutant: the kinds of the values decide.
ParamScoreByKind(p, arg, names, j, arity) == scoreParamMatch(p.kind, arg.kind)
\* A name the site declares outweighs everything; then the names of the values.
ParamScore(p, arg, names, j, arity) ==
    LET name == paramTypeName(p)
        aligned == Len(names) = arity
        actual == runtimeValueTypeName(arg)
    IN scoreParamMatch(p.kind, arg.kind)
       + (IF aligned /\ names[j] # NoName /\ name = names[j] THEN 1000
          ELSE IF name # NoName
          THEN IF actual = NoName THEN 0 ELSE IF actual = name THEN 50
               ELSE IF valueIsAssignableToTypeName(arg, name) THEN 20 ELSE -3
          ELSE IF aligned /\ names[j] = NoName THEN 6 ELSE 0)
Score(m, args, names) ==
    LET declared == Declared(m, args)
        from[j \in 1..(Len(declared) + 1)] ==
            IF j > Len(declared) THEN 0
            ELSE ParamScore(m.params[j], declared[j], names, j, Len(m.params)) + from[j + 1]
    IN from[1]
\* The position of the method, 0 for none.  The first of the best wins, and a
\* single candidate does not need the number of type arguments.
pickMethodOverload(candidates, args, names, generics) ==
    LET fits == {i \in DOMAIN candidates : /\ candidates[i].generics = generics
                                           /\ Len(Declared(candidates[i], args)) = Len(candidates[i].params)}
        wrong == {i \in fits : hasHardShapeMismatch(candidates[i].params, Declared(candidates[i], args))}
        score(i) == Score(candidates[i], args, names)
        best == {i \in fits \ wrong : \A k \in fits \ wrong :
                    score(i) > score(k) \/ (score(i) = score(k) /\ i <= k)}
    IN IF Len(candidates) = 1 THEN (IF candidateMatchesArgs(candidates[1], args) THEN 1 ELSE 0)
       ELSE IF best # {} THEN CHOOSE i \in best : TRUE
       ELSE IF wrong # {} THEN 0 ELSE 1

-----------------------------------------------------------------------------
\* Casts.

TakenFor == [I4 |-> {"Int32", "Boolean", "Char", "Byte"}, I8 |-> {"Int64", "UInt64"},
             R4 |-> {"Single"}, R8 |-> {"Double"}, String |-> {"String"}, Array |-> {"Array"}]
RECURSIVE typeMatches(_, _)
typeMatches(t, target) ==
    /\ t \in DOMAIN Hierarchy
    /\ \/ t = target
       \/ \E i \in Hierarchy[t].interfaces : i = target \/ typeMatches(i, target)
       \/ typeMatches(Hierarchy[t].base, target)
\* A native object: of an exception, the table of the library's exceptions and
\* then the plugin's; of another, its native base types.
nativeMatches(name, target) == target \in BaseChain(name)
isAssignableTo(v, target) ==
    IF target = "Object" THEN TRUE
    ELSE IF v.kind \in DOMAIN TakenFor THEN target \in TakenFor[v.kind]
    ELSE IF v.kind = "Func" THEN TRUE
    ELSE IF v.kind = "Struct" THEN target = "ValueType" \/ typeMatches(v.type, target)
    ELSE IF v.kind = "Object"
    THEN IF IsOf(v.type, "native") \/ IsOf(v.type, "exception") THEN nativeMatches(v.type, target) ELSE typeMatches(v.type, target)
    ELSE FALSE
IsInst(v, target) == v.kind # "Null" /\ isAssignableTo(v, target)
CastClass(v, target) == v.kind = "Null" \/ isAssignableTo(v, target)
receiverTypeName(v) == IF v.kind = "Array" THEN "Array" ELSE runtimeValueTypeName(v)

\* Contents: of a struct, its fields; of a reference, which one it is.
RECURSIVE valuesEqual(_, _)
valuesEqual(a, b) ==
    /\ a.kind = b.kind
    /\ CASE a.kind = "Null" -> TRUE
         [] a.kind \in NumberKinds \cup {"String", "Object", "Array"} -> a.content = b.content
         [] a.kind = "Struct" -> /\ a.type = b.type /\ Len(a.content) = Len(b.content)
                                 /\ \A i \in DOMAIN a.content : valuesEqual(a.content[i], b.content[i])
         [] OTHER -> FALSE
RECURSIVE valueHash(_)
valueHash(v) ==
    CASE v.kind = "Null" -> 0
      [] v.kind = "Struct" ->
           LET from[i \in 0..Len(v.content)] == IF i = 0 THEN 17 ELSE (from[i - 1] * 31 + valueHash(v.content[i])) % 2^16
           IN from[Len(v.content)]
      [] v.kind \in NumberKinds \cup {"String", "Object", "Array"} -> v.content
      [] OTHER -> 0

-----------------------------------------------------------------------------
\* The type system.

RECURSIVE Supertypes(_)
Supertypes(name) ==
    {name, "Object"}
    \cup (IF name \in DOMAIN Hierarchy
          THEN UNION {Supertypes(n) : n \in (Hierarchy[name].interfaces \cup {Hierarchy[name].base}) \ {NoName}}
               \cup (IF Hierarchy[name].is \in {"struct", "enum"} THEN {"ValueType"} ELSE {})
          ELSE {})
NumberTypes == [I4 |-> {"Int32", "Boolean", "Byte"} \cup {n \in DOMAIN Hierarchy : IsOf(n, "enum")},
                I8 |-> {"Int64"}, R4 |-> {"Single"}, R8 |-> {"Double"}]
\* A parameter can be passed the value, boxed if need be.
Accepts(p, v) ==
    CASE p.kind \in Primitives \cup {"ValueType"} -> v.type = p.name
      [] p.kind = "ByRef" -> v.kind = "Ref"
      [] v.kind = "Ref" -> FALSE
      [] p.kind \in {"Object", "GenericParam"} -> TRUE
      [] v.kind = "Null" -> TRUE
      [] p.kind = "SZArray" -> v.kind = "Array"
      [] p.kind = "String" -> v.kind = "String"
      [] OTHER -> p.name \in Supertypes(v.type)
AcceptsAll(m, args) ==
    LET declared == Declared(m, args)
    IN Len(declared) = Len(m.params) /\ \A j \in DOMAIN declared : Accepts(m.params[j], declared[j])
\* To a running program a number is one of its width, whichever type it has.
LooksFit(m, args) ==
    LET declared == Declared(m, args)
        alike(v) == IF v.kind \in NumberKinds THEN {[v EXCEPT !.type = n] : n \in NumberTypes[v.kind]} ELSE {v}
    IN Len(declared) = Len(m.params) /\ \A j \in DOMAIN declared : \E w \in alike(declared[j]) : Accepts(m.params[j], w)
\* What the code takes for impossible, although it is not: a boxed number for an
\* interface, and two kinds of value (null is one) for one type parameter.
Refused(m, args) ==
    LET declared == Declared(m, args)
    IN \/ \E j \in DOMAIN declared : m.params[j].kind = "Class" /\ declared[j].kind \in NumberKinds
       \/ \E i, j \in DOMAIN declared : /\ m.params[i].kind = "GenericParam" /\ m.params[i] = m.params[j]
                                         /\ declared[i].kind # declared[j].kind

\* A task: the methods of one name, the one the site was compiled for (0 if it
\* is not among them), the arguments, and whether the site keeps the names.
Method(this, generics, params) == [this |-> this, generics |-> generics, params |-> params]
Picking(candidates, bound, args, named) == [of |-> "pick", candidates |-> candidates, bound |-> bound, args |-> args, named |-> named]
Casting(v, target) == [of |-> "cast", value |-> v, target |-> target]
Comparing(a, b) == [of |-> "equal", a |-> a, b |-> b]

Named(kind) == {Param(kind, n) : n \in {m \in DOMAIN Hierarchy : IsOf(m, CASE kind = "ValueType" -> "struct" [] OTHER -> "class")}}
Params == {Param(k, n) : k \in {"Boolean"}, n \in {"Boolean"}} \cup {Param("I4", "Int32"), Param("U1", "Byte"), Param("I8", "Int64"),
              Param("R8", "Double"), Param("String", "String"), Param("Object", "Object"), Param("SZArray", "Array"),
              Param("ByRef", "Ref"), Param("GenericParam", "T")}
          \cup {Param("ValueType", n) : n \in {m \in DOMAIN Hierarchy : Hierarchy[m].is \in {"struct", "enum"}}}
          \cup {Param("Class", n) : n \in {m \in DOMAIN Hierarchy : Hierarchy[m].is \in {"class", "interface", "delegate", "native"}}}
Values == {Value("I4", n, 1) : n \in NumberTypes["I4"]}
          \cup {Value("I8", "Int64", 1), Value("R8", "Double", 1), Value("String", "String", 1), Value("Null", "", 0),
                Value("Array", "Array", 1), Value("Ref", "Ref", 1)}
          \cup {Value("Struct", n, <<Value("I4", "Int32", 1)>>) : n \in {m \in DOMAIN Hierarchy : IsOf(m, "struct")}}
          \cup {Value("Func", n, 1) : n \in {m \in DOMAIN Hierarchy : IsOf(m, "delegate")}}
          \cup {Value("Object", n, 1) : n \in {m \in DOMAIN Hierarchy : Hierarchy[m].is \in {"class", "native", "exception"}}}
Receiver(n) == Value("Object", n, 2)
IsClassLike(p) == p.kind \in {"Object", "GenericParam", "SZArray"} \/ IsOf(p.name, "class") \/ IsOf(p.name, "interface")
IsOverloadTask(t) ==
    \/ \E p \in Params, v \in Values, named \in BOOLEAN :
         \/ t = Picking(<<Method(FALSE, 0, <<p>>)>>, 1, <<v>>, named)
         \/ \E q \in Params \ {p} : \E b \in {1, 2}, g \in {0, 1} :
               t = Picking(<<Method(FALSE, g, <<p>>), Method(FALSE, 0, <<q>>)>>, b, <<v>>, named)
         \/ \E q \in Params, b \in {1, 2}, n \in {m \in DOMAIN Hierarchy : IsOf(m, "class")} :
               t = Picking(<<Method(TRUE, 0, <<p>>), Method(FALSE, 0, <<q, p>>)>>, b, <<Receiver(n), v>>, TRUE)
    \/ \E p, q, r, s \in {x \in Params : IsClassLike(x)}, v, w \in {x \in Values : x.kind \in {"Object", "Null", "Array"} /\ ~IsOf(x.type, "native")} :
         t = Picking(<<Method(FALSE, 0, <<p, q>>), Method(FALSE, 0, <<r, s>>)>>, 1, <<v, w>>, TRUE)
    \/ \E v \in Values, target \in DOMAIN Hierarchy \cup {"Object", "ValueType", "String", "Int32", "Array"} : t = Casting(v, target)
    \/ \E a, b \in {x \in Values : x.kind \notin {"Func", "Ref"}} : \E m, n \in {1, 2} :
         (a.kind = "Object" /\ m = n => a.type = b.type) /\ t = Comparing(IF a.kind = "Struct" THEN a ELSE [a EXCEPT !.content = m],
                       IF b.kind = "Struct" THEN [b EXCEPT !.content[1].content = n] ELSE [b EXCEPT !.content = n])

RunOverload(t) ==
    CASE t.of = "pick" ->
           pickMethodOverload(t.candidates, t.args,
                              IF t.named THEN sigParamTypeNames(t.candidates[t.bound].params) ELSE <<>>,
                              t.candidates[t.bound].generics)
      [] t.of = "cast" -> <<IsInst(t.value, t.target), CastClass(t.value, t.target)>>
      [] t.of = "equal" -> <<valuesEqual(t.a, t.b), valueHash(t.a) = valueHash(t.b)>>

\* Some name the site declares says which method it is.
NameTells(c, d) ==
    \E j \in DOMAIN c.params : /\ paramTypeName(c.params[j]) # NoName
                               /\ Len(d.params) = Len(c.params) => paramTypeName(d.params[j]) # paramTypeName(c.params[j])
\* A host that names a method without types (Call) has only what the values know
\* of their types: nothing for null, the width for a number, no
\* interfaces for a struct.
PickStandard(t, r) ==
    LET c == t.candidates[t.bound]
        rivals == {d \in Range(t.candidates) \ {c} : d.generics = c.generics /\ LooksFit(d, t.args)}
        \* An object or type parameter has neither a name nor a kind of value.
        open == \E j \in DOMAIN c.params : c.params[j].kind \in {"Object", "GenericParam"}
        singledOut == /\ ~open
                      /\ IF t.named THEN \A d \in rivals : NameTells(c, d)
                         ELSE rivals = {} /\ \A j \in DOMAIN t.args : t.args[j].kind \in {"Object", "String"}
    IN AcceptsAll(c, t.args) /\ ~Refused(c, t.args) /\ singledOut => r = t.bound
\* Strings and arrays answer to fewer names than they have, a number to those of
\* its width, a delegate to every name.
CastStandard(t, r) ==
    LET v == t.value
        is == t.target \in Supertypes(v.type)
    IN /\ r[1] <=> r[2] /\ v.kind # "Null"
       /\ v.kind \in {"Object", "Struct"} => (r[1] <=> is)
       /\ v.kind \in {"String", "Array"} => (r[1] => is)
       /\ v.kind \in NumberKinds => (t.target = v.type => r[1] \/ IsOf(v.type, "enum"))
EqualStandard(t, r) ==
    /\ r[1] <=> \/ t.a = t.b
                \/ t.a.kind = t.b.kind /\ t.a.kind \in NumberKinds /\ t.a.content = t.b.content
                \/ t.a.kind = "Null" /\ t.b.kind = "Null"
    /\ r[1] => r[2]
OverloadStandard(t, r) ==
    CASE t.of = "pick" -> PickStandard(t, r) [] t.of = "cast" -> CastStandard(t, r) [] t.of = "equal" -> EqualStandard(t, r)
=============================================================================
