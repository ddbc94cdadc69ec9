------------------------------ MODULE TypeNames ------------------------------
(***************************************************************************)
(* The names of types.  The program carries every type as text: the IR     *)
(* builder writes it from the metadata (ir/builder.go), a running frame    *)
(* fills in its type arguments (interpreter/eval.go), and reflection reads *)
(* it back (bcl/system_type.go).  An open name (List#1) names a class, a   *)
(* closed one (List#1[[Int32]]) an instantiation of it.                    *)
(*                                                                         *)
(* A name is a sequence of characters, an identifier counting as one; #    *)
(* is the backquote.                                                       *)
(* The reference is the type itself, as a tree.                            *)
(***************************************************************************)
EXTENDS Integers, Sequences, SequencesExt, FiniteSets, TLC

CONSTANTS Defs,    \* TypeDef rows: [ns, name, enclosing], enclosing 0 for none
          Refs,    \* TypeRef rows: [ns, name, scope], scope a TypeRef or 0
          Cut      \* bound: how deep the types of the tasks nest

Failed == <<"error">>
Digit(n) == ToString(n)
Digits == {ToString(n) : n \in 0..9}
Numeral(ds) == FoldLeft(LAMBDA n, d : 10 * n + (CHOOSE k \in 0..9 : ToString(k) = d), 0, ds)

\* A signature: a primitive, an array, a class by its token, an instantiation
\* of one, or a parameter of the enclosing method or class.
Prim(p) == [kind |-> "prim", tok |-> <<"prim", p>>, args |-> <<>>]
ArrayOf(t) == [kind |-> "array", tok |-> <<"", 0>>, args |-> <<t>>]
Class(tok) == [kind |-> "class", tok |-> tok, args |-> <<>>]
Inst(tok, args) == [kind |-> "inst", tok |-> tok, args |-> args]
Param(of, i) == [kind |-> "param", tok |-> <<of, i>>, args |-> <<>>]

-----------------------------------------------------------------------------
\* What the builder writes.

Qualify(namespace, name) == IF namespace = "" THEN name ELSE <<namespace, ".">> \o name
RECURSIVE qualifyTypeRefName(_)
qualifyTypeRefName(row) ==
    IF row.scope = 0 THEN Qualify(row.ns, row.name)
    ELSE qualifyTypeRefName(Refs[row.scope]) \o <<"+">> \o row.name
RECURSIVE QualifyTypeDefName(_)
QualifyTypeDefName(rid) ==
    LET row == Defs[rid]
    IN IF row.enclosing = 0 THEN Qualify(row.ns, row.name)
       ELSE QualifyTypeDefName(row.enclosing) \o <<"+">> \o row.name
resolveTypeToken(tok) ==
    CASE tok[1] = "ref" -> qualifyTypeRefName(Refs[tok[2]])
      [] tok[1] = "def" -> QualifyTypeDefName(tok[2])
      [] OTHER -> Failed

Bracketed(open, names) ==
    IF names = <<>> THEN open
    ELSE open \o <<"[", "[">> \o FoldLeft(LAMBDA text, n : text \o <<"]", ",", "[">> \o n, names[1], Tail(names))
              \o <<"]", "]">>
AnyFailed(names) == \E i \in DOMAIN names : names[i] = Failed
\* A parameter has no name here.
RECURSIVE SigTypeFullName(_)
SigTypeFullName(t) ==
    LET names == [i \in DOMAIN t.args |-> SigTypeFullName(t.args[i])]
    IN CASE t.kind = "prim" -> <<"System", ".", t.tok[2]>>
         [] t.kind = "class" -> resolveTypeToken(t.tok)
         [] t.kind = "param" -> <<>>
         [] AnyFailed(names) -> Failed
         [] t.kind = "array" -> names[1] \o <<"[", "]">>
         [] t.kind = "inst" -> LET open == resolveTypeToken(t.tok)
                               IN IF open = Failed THEN Failed ELSE Bracketed(open, names)
\* Mutant: a type parameter is named as in a signature.
sigTypeFullNameGenericArgPlain(t) == SigTypeFullName(t)
\* Here it is !!N or !N, for the frame that runs to fill in.
RECURSIVE sigTypeFullNameGenericArg(_)
sigTypeFullNameGenericArg(t) ==
    LET names == [i \in DOMAIN t.args |-> sigTypeFullNameGenericArg(t.args[i])]
    IN CASE t.kind = "param" -> (IF t.tok[1] = "method" THEN <<"!", "!">> ELSE <<"!">>) \o <<Digit(t.tok[2])>>
         [] t.kind = "array" -> IF AnyFailed(names) THEN Failed ELSE names[1] \o <<"[", "]">>
         [] t.kind = "inst" -> LET open == resolveTypeToken(t.tok)
                               IN IF open = Failed \/ AnyFailed(names) THEN Failed ELSE Bracketed(open, names)
         [] OTHER -> SigTypeFullName(t)
sigTypeListGenericArgNames(types) ==
    LET names == [i \in DOMAIN types |-> sigTypeFullNameGenericArg(types[i])]
    IN IF AnyFailed(names) THEN <<Failed>> ELSE names
typeSpecInstantiationArgNames(t) == IF t.kind = "inst" THEN sigTypeListGenericArgNames(t.args) ELSE <<>>

\* The parameters of a call site, to tell overloads apart.
sigParamTypeNames(params) ==
    [i \in DOMAIN params |->
        IF params[i].kind \in {"class", "inst"}
        THEN LET name == SigTypeFullName(params[i]) IN IF name = Failed THEN <<>> ELSE name
        ELSE IF params[i] \in {Prim("Char"), Prim("Boolean")} THEN SigTypeFullName(params[i]) ELSE <<>>]

\* The open name of a TypeSpec, for looking up a member of the class.
resolveTypeSpecName(t) == IF t.kind = "inst" THEN resolveTypeToken(t.tok) ELSE Failed
ResolveMemberRefClassName(class) ==
    IF class.kind = "class" THEN resolveTypeToken(class.tok) ELSE resolveTypeSpecName(class)
\* The name at initobj, isinst, castclass, newarr and unbox.
resolveTypeTokenOrGeneric(t) ==
    CASE t.kind = "class" -> resolveTypeToken(t.tok)
      [] t.kind = "param" -> <<>>
      [] t.kind = "array" -> <<"System", ".", "Array">>
      [] t.kind = "inst" ->
           LET open == resolveTypeToken(t.tok)
               arg == SigTypeFullName(t.args[1])
           IN IF open = <<"System", ".", "Nullable", "#", "1">> /\ Len(t.args) = 1 /\ arg \notin {Failed, <<>>}
              THEN Bracketed(open, <<arg>>) ELSE open
      [] OTHER -> Failed

\* A method's name is the open name of its class, and its own.
resolveCallTarget(m) ==
    IF m.kind = "spec"
    THEN [name |-> ResolveMemberRefClassName(m.class) \o <<":", ":", m.name>>,
          params |-> sigParamTypeNames(m.params), args |-> sigTypeListGenericArgNames(m.args)]
    ELSE [name |-> (IF m.kind = "def" THEN QualifyTypeDefName(m.class.tok[2]) ELSE ResolveMemberRefClassName(m.class))
                   \o <<":", ":", m.name>>,
          params |-> sigParamTypeNames(m.params), args |-> <<>>]
resolveNewObjTarget(m) ==
    LET type == IF m.kind = "def" THEN QualifyTypeDefName(m.class.tok[2]) ELSE ResolveMemberRefClassName(m.class)
    IN [type |-> type, ctor |-> type \o <<":", ":", m.name>>, params |-> sigParamTypeNames(m.params),
        args |-> IF m.kind = "def" THEN <<>> ELSE typeSpecInstantiationArgNames(m.class)]
resolveFieldTarget(m) ==
    IF m.kind = "def" THEN QualifyTypeDefName(m.class.tok[2]) ELSE ResolveMemberRefClassName(m.class)
LastIndexOf(s, c) == LET at == {i \in DOMAIN s : s[i] \in c} IN IF at = {} THEN 0 ELSE CHOOSE i \in at : \A j \in at : j <= i
SplitTypeName(name) ==
    LET dot == LastIndexOf(name, {"."})
    IN IF dot = 0 THEN <<<<>>, name>> ELSE <<SubSeq(name, 1, dot - 1), SubSeq(name, dot + 1, Len(name))>>
SplitFullName(full) ==
    LET colon == LastIndexOf(full, {":"})
    IN IF colon = 0 THEN Failed
       ELSE SplitTypeName(SubSeq(full, 1, colon - 2)) \o <<SubSeq(full, colon + 1, Len(full))>>

-----------------------------------------------------------------------------
\* What a frame fills in.

DigitsAt(s, i) ==
    LET ends == {j \in i..Len(s) : \A k \in i..j : s[k] \in Digits}
    IN IF ends = {} THEN <<>> ELSE SubSeq(s, i, CHOOSE j \in ends : \A k \in ends : k <= j)
Entry(args, ds) == IF Numeral(ds) < Len(args) THEN args[Numeral(ds) + 1] ELSE <<>>
RECURSIVE ReplaceFrom(_, _, _, _)
ReplaceFrom(s, i, methodArgs, classArgs) ==
    LET two == IF i < Len(s) /\ s[i + 1] = "!" THEN DigitsAt(s, i + 2) ELSE <<>>
        one == DigitsAt(s, i + 1)
        past(n, text) == text \o ReplaceFrom(s, i + n, methodArgs, classArgs)
    IN IF i > Len(s) THEN <<>>
       ELSE IF s[i] # "!" THEN past(1, <<s[i]>>)
       ELSE IF two # <<>> THEN past(2 + Len(two), Entry(methodArgs, two))
       ELSE IF one # <<>> THEN past(1 + Len(one), Entry(classArgs, one))
       ELSE past(1, <<s[i]>>)
replaceGenericParamSentinels(s, methodArgs, classArgs) == ReplaceFrom(s, 1, methodArgs, classArgs)
resolveForwardedGenericArgs(callArgs, methodArgs, classArgs) ==
    [i \in DOMAIN callArgs |-> replaceGenericParamSentinels(callArgs[i], methodArgs, classArgs)]
\* The type arguments of the frame's receiver.
frameClassGenericArgs(f) == IF f.this = "object" THEN f.classArgs ELSE <<>>
\* ldtoken of a type.
LoadTypeToken(t, f) ==
    CASE t.kind = "class" -> resolveTypeToken(t.tok)
      [] t.kind = "param" -> Entry(IF t.tok[1] = "method" THEN f.methodArgs ELSE frameClassGenericArgs(f), <<Digit(t.tok[2])>>)
      [] OTHER -> replaceGenericParamSentinels(sigTypeFullNameGenericArg(t), f.methodArgs, frameClassGenericArgs(f))

-----------------------------------------------------------------------------
\* What reflection reads back.

IndexOfPair(s, a, b) ==
    LET at == {i \in 1..(Len(s) - 1) : s[i] = a /\ s[i + 1] = b}
    IN IF at = {} THEN 0 ELSE CHOOSE i \in at : \A j \in at : i <= j
HasSuffix(s, suffix) == Len(s) >= Len(suffix) /\ SubSeq(s, Len(s) - Len(suffix) + 1, Len(s)) = suffix
GenericOpenName(name) ==
    LET i == IndexOfPair(name, "[", "[") IN IF i = 0 THEN name ELSE SubSeq(name, 1, i - 1)
\* The texts between brackets at depth one.
splitGenericArgs(bracketed) ==
    LET inner == SubSeq(bracketed, 2, Len(bracketed) - 1)
        step(acc, i) ==
            CASE inner[i] = "[" -> [acc EXCEPT !.depth = @ + 1, !.start = IF acc.depth = 0 THEN i + 1 ELSE @]
              [] inner[i] = "]" -> [acc EXCEPT !.depth = @ - 1,
                                               !.args = IF acc.depth = 1 THEN Append(@, SubSeq(inner, acc.start, i - 1)) ELSE @]
              [] OTHER -> acc
    IN IF Len(bracketed) < 2 THEN <<>>
       ELSE FoldLeft(step, [depth |-> 0, start |-> 0, args |-> <<>>], [i \in DOMAIN inner |-> i]).args
ClosedGenericArgs(name) ==
    LET i == IndexOfPair(name, "[", "[") IN IF i = 0 THEN <<>> ELSE splitGenericArgs(SubSeq(name, i, Len(name)))
isGenericTypeName(name) == "#" \in ToSet(GenericOpenName(name))
typeGetIsArray(name) == HasSuffix(name, <<"[", "]">>)
typeGetElementType(name) == IF typeGetIsArray(name) THEN SubSeq(name, 1, Len(name) - 2) ELSE Failed
typeGetGenericTypeDefinition(name) == IF isGenericTypeName(name) THEN GenericOpenName(name) ELSE Failed
typeGetIsGenericTypeDefinition(name) == "#" \in ToSet(name) /\ IndexOfPair(name, "[", "[") = 0
typeMakeGenericType(name, args) == Bracketed(GenericOpenName(name), args)
nullableGetUnderlyingType(name) ==
    IF GenericOpenName(name) = <<"System", ".", "Nullable", "#", "1">> /\ Len(ClosedGenericArgs(name)) = 1
    THEN ClosedGenericArgs(name)[1] ELSE Failed
closedTypeFullNameOf(open, args) ==
    IF \E i \in DOMAIN args : args[i] = <<>> THEN open ELSE Bracketed(open, args)
typeGetName(name) == LET i == LastIndexOf(name, {".", "+"}) IN SubSeq(name, i + 1, Len(name))
typeEquals(a, b) == a = b

-----------------------------------------------------------------------------
\* The types themselves, and what is to hold of their names.

\* t where the parameters of the frame are replaced.
RECURSIVE Closed(_, _, _)
Closed(t, methodArgs, classArgs) ==
    IF t.kind = "param" THEN (IF t.tok[1] = "method" THEN methodArgs ELSE classArgs)[t.tok[2] + 1]
    ELSE [t EXCEPT !.args = [i \in DOMAIN t.args |-> Closed(t.args[i], methodArgs, classArgs)]]
RECURSIVE IsClosed(_)
IsClosed(t) == t.kind # "param" /\ \A i \in DOMAIN t.args : IsClosed(t.args[i])
\* Rows of two tables for one class.
SameClass(a, b) == resolveTypeToken(a) = resolveTypeToken(b)
RECURSIVE SameType(_, _)
SameType(a, b) ==
    /\ a.kind = b.kind /\ Len(a.args) = Len(b.args)
    /\ IF a.kind \in {"class", "inst"} THEN SameClass(a.tok, b.tok) ELSE a.tok = b.tok
    /\ \A i \in DOMAIN a.args : SameType(a.args[i], b.args[i])

Tokens == {<<"ref", i>> : i \in DOMAIN Refs} \cup {<<"def", i>> : i \in DOMAIN Defs}
\* A class has the parameters of those around it.
RECURSIVE Arity(_)
Arity(tok) ==
    LET row == IF tok[1] = "ref" THEN Refs[tok[2]] ELSE Defs[tok[2]]
        around == IF tok[1] = "ref" THEN row.scope ELSE row.enclosing
    IN (IF Len(row.name) = 3 THEN Numeral(<<row.name[3]>>) ELSE 0) + (IF around = 0 THEN 0 ELSE Arity(<<tok[1], around>>))
\* The types of nesting n.
RECURSIVE Types(_)
Types(n) ==
    LET Leaves == {Prim("Int32"), Prim("Char"), Param("method", 0), Param("method", 1), Param("class", 0)}
                  \cup {Class(tok) : tok \in {k \in Tokens : Arity(k) = 0}}
    IN IF n = 0 THEN Leaves
       ELSE LET Less == Types(n - 1)
            IN Leaves \cup {ArrayOf(t) : t \in Less}
               \cup {Inst(tok, <<t>>) : tok \in {k \in Tokens : Arity(k) = 1}, t \in Less}
               \cup {Inst(tok, <<t, u>>) : tok \in {k \in Tokens : Arity(k) = 2}, t \in Less, u \in Types(0)}
Frame(this, methodArgs, classArgs) == [this |-> this, methodArgs |-> methodArgs, classArgs |-> classArgs]

\* A task is a name to write or to read; call is a frame with closed arguments
\* that makes an object of a generic class and calls a generic method of it,
\* and the type that method asks for.
Task(of, t, u, v) == [of |-> of, t |-> t, u |-> u, v |-> v]
Method(kind, class, args) == [kind |-> kind, class |-> class, name |-> "M", params |-> <<class, Prim("Char")>>, args |-> args]
Outer == <<Prim("Int32"), ArrayOf(Prim("Char"))>>
OuterClass == <<Prim("Char")>>
IsNameTask(t) ==
    \/ \E a \in {x \in Types(Cut) : IsClosed(x)} :
         \/ t = Task("reflect", a, a, a)
         \/ \E b \in {x \in Types(1) : IsClosed(x)} : t = Task("pair", a, b, b)
    \/ \E a, v \in Types(0), x \in Types(1), tok \in {k \in Tokens : Arity(k) = 1} :
         t \in {Task("call", Inst(tok, <<a>>), x, v), Task("call", Inst(tok, <<x>>), a, v), Task("call", Inst(tok, <<a>>), v, x)}
    \/ \E tok \in Tokens, kind \in {"def", "ref", "spec"} :
         /\ kind = "def" => tok[1] = "def"
         /\ t = Task(kind, IF Arity(tok) = 0 \/ kind = "def" THEN Class(tok) ELSE Inst(tok, <<Prim("Int32")>>), Prim("Char"), Prim("Char"))

Names(types) == [i \in DOMAIN types |-> SigTypeFullName(types[i])]
RunName(t) ==
    CASE t.of = "pair" -> typeEquals(SigTypeFullName(t.t), SigTypeFullName(t.u))
      [] t.of = "reflect" ->
           LET name == SigTypeFullName(t.t)
               args == ClosedGenericArgs(name)
           IN [name |-> name, isArray |-> typeGetIsArray(name), element |-> typeGetElementType(name),
               generic |-> isGenericTypeName(name), definition |-> typeGetGenericTypeDefinition(name),
               isDefinition |-> typeGetIsGenericTypeDefinition(name), args |-> args,
               made |-> IF args = <<>> THEN name ELSE typeMakeGenericType(typeGetGenericTypeDefinition(name), args),
               ofObject |-> closedTypeFullNameOf(GenericOpenName(name), args),
               underlying |-> nullableGetUnderlyingType(name), simple |-> typeGetName(name),
               cast |-> resolveTypeTokenOrGeneric(t.t)]
      [] t.of = "call" ->
           LET outer == Frame("object", Names(Outer), Names(OuterClass))
               site == resolveNewObjTarget(Method("ref", t.t, <<>>))
               call == resolveCallTarget(Method("spec", t.t, <<t.u, t.v>>))
               inner == Frame("object",
                              resolveForwardedGenericArgs(call.args, outer.methodArgs, frameClassGenericArgs(outer)),
                              resolveForwardedGenericArgs(site.args, outer.methodArgs, frameClassGenericArgs(outer)))
           IN <<closedTypeFullNameOf(site.type, inner.classArgs), LoadTypeToken(t.v, inner)>>
      [] OTHER ->
           LET m == Method(t.of, t.t, <<t.u>>)
           IN [call |-> resolveCallTarget(m), new |-> resolveNewObjTarget(m), field |-> resolveFieldTarget(m)]

ReflectStandard(t, r) ==
    /\ r.isArray <=> t.t.kind = "array"
    /\ t.t.kind = "array" => r.element = SigTypeFullName(t.t.args[1])
    /\ t.t.kind = "inst" => /\ r.generic /\ ~r.isDefinition /\ r.args = Names(t.t.args)
                            /\ r.definition = resolveTypeToken(t.t.tok)
                            /\ r.made = r.name /\ r.ofObject = r.name
    /\ t.t.kind \in {"prim", "class"} => ~r.generic /\ r.args = <<>> /\ r.definition = Failed
    \* Of an array of instantiations the code answers for the element.
    /\ t.t.kind # "array" /\ r.underlying # Failed => t.t.kind = "inst" /\ r.underlying = SigTypeFullName(t.t.args[1])
    /\ t.t.kind = "class" => r.simple = (IF t.t.tok[1] = "ref" THEN Refs[t.t.tok[2]] ELSE Defs[t.t.tok[2]]).name
    \* A cast looks only at the class, but for Nullable.
    /\ t.t.kind \in {"class", "inst"} => GenericOpenName(r.cast) = resolveTypeToken(t.t.tok)
    /\ r.cast # GenericOpenName(r.cast) => r.cast = r.name
CallStandard(t, r) ==
    LET closed(x) == Closed(x, Outer, OuterClass)
    IN /\ r[1] = SigTypeFullName(closed(t.t))
       /\ r[2] = SigTypeFullName(Closed(t.v, <<closed(t.u), closed(t.v)>>, closed(t.t).args))
\* The three ways to name a member lead to one class, the open one.
MemberStandard(t, r) ==
    /\ r.call.name = r.new.ctor /\ r.field = r.new.type /\ r.field = resolveTypeToken(t.t.tok)
    /\ LET parts == SplitFullName(r.call.name)
       IN parts[3] = <<"M">> /\ (parts[1] # <<>> => parts[1] \o <<".">> \o parts[2] = r.field)
          /\ (parts[1] = <<>> => parts[2] = r.field)
    /\ r.call.params = <<SigTypeFullName(t.t), SigTypeFullName(Prim("Char"))>>
    /\ r.call.args = (IF t.of = "spec" THEN <<SigTypeFullName(t.u)>> ELSE <<>>)
    /\ r.new.args = (IF t.t.kind = "inst" THEN Names(t.t.args) ELSE <<>>)
NameStandard(t, r) ==
    CASE t.of = "pair" -> r <=> SameType(t.t, t.u)
      [] t.of = "reflect" -> ReflectStandard(t, r)
      [] t.of = "call" -> CallStandard(t, r)
      [] OTHER -> MemberStandard(t, r)
=============================================================================
