------------------------------ MODULE Reflection ------------------------------
(***************************************************************************)
(* Reflection: interpreter/reflection.go and customattributes.go ask, the  *)
(* assembly that declares the type answers (assembly.go), and the answer   *)
(* is a native object that remembers what was asked for                    *)
(* (bcl/system_reflection.go).                                             *)
(*                                                                         *)
(* The reference is the declaration itself.  A type T is declared in one   *)
(* assembly; main depends on dep and dep on low, and far is loaded but no  *)
(* dependency of theirs.                                                   *)
(***************************************************************************)
EXTENDS Integers, Sequences, SequencesExt, FiniteSets, TLC

Places == {"main", "dep", "low", "far", "none"}
Deps == [main |-> <<"dep">>, dep |-> <<"low">>, low |-> <<>>, far |-> <<>>]

\* An optional name is a name or None, an optional result a sequence of one or
\* none: null, not found, or (Raised) an exception.
None == "none"
Missing == <<>>
Raised == <<>>
NoneOf(seq, P(_)) == \A i \in DOMAIN seq : ~P(seq[i])
FirstOf(seq, P(_)) == CHOOSE i \in DOMAIN seq : P(seq[i]) /\ \A j \in 1..(i - 1) : ~P(seq[j])
Collect(seq, Keep(_), Of(_)) == LET kept == SelectSeq(seq, Keep) IN [i \in DOMAIN kept |-> Of(kept[i])]

\* Who answers for a type declared at `at`: the assembly itself, else its
\* dependencies in turn, else the assembly the shared index names.
RECURSIVE Finds(_, _, _)
Finds(asm, at, indexed) ==
    \/ asm = at
    \/ \E i \in DOMAIN Deps[asm] : Finds(Deps[asm][i], at, indexed)
    \/ indexed /\ at # "none"

-----------------------------------------------------------------------------
\* Members.  A method: name, parameter types, the Param rows <<sequence,
\* name>>, flags.  The signature of a method with an unreadable parameter
\* cannot be parsed.
Readable(m) == NoneOf(m.params, LAMBDA p : p = "unreadable")
Candidates(row, name) == SelectSeq(row.methods, LAMBDA m : m.name = name)

\* The primitives but char and bool have no name here.
paramTypeName(p) == IF p \in {"Int32", "String"} THEN None ELSE p

\* types is Missing when the caller gave none.
resolveMember(row, name, types) ==
    \E i \in DOMAIN Candidates(row, name) :
        LET m == Candidates(row, name)[i]
        IN \/ types = Missing
           \/ /\ Readable(m)
              /\ Len(m.params) = Len(types[1])
              /\ \A j \in DOMAIN m.params : paramTypeName(m.params[j]) \in {None, types[1][j]}

\* For as many parameters as a method has here.
DefaultNames == <<"arg0", "arg1", "arg2">>
\* Mutant: the rows are taken in their own order.
paramNamesByRow(m) ==
    [j \in DOMAIN m.params |-> IF j > Len(m.rows) THEN DefaultNames[j] ELSE m.rows[j][2]]
paramNamesFor(m) ==
    [j \in DOMAIN m.params |->
        IF NoneOf(m.rows, LAMBDA r : r[1] = j) THEN DefaultNames[j]
        ELSE m.rows[CHOOSE i \in DOMAIN m.rows : m.rows[i][1] = j /\ \A k \in (i + 1)..Len(m.rows) : m.rows[k][1] # j][2]]
resolveMemberParams(row, name) ==
    Collect(Candidates(row, name), Readable, LAMBDA m : [types |-> m.params, names |-> paramNamesFor(m)])
resolveMemberFlags(row, name) == Collect(Candidates(row, name), LAMBDA m : TRUE, LAMBDA m : m.flags)
resolveMethods(row) ==
    Collect(row.methods, LAMBDA m : m.name \notin {".ctor", ".cctor"}, LAMBDA m : m.name)

\* What a member object remembers: the type, the member, which overload.
MemberInfo(name, index) == [name |-> name, index |-> index]
typeGetConstructors(row) ==
    [i \in DOMAIN resolveMemberParams(row, ".ctor") |-> MemberInfo(".ctor", i)]
typeGetMethods(row) == [i \in DOMAIN resolveMethods(row) |-> MemberInfo(resolveMethods(row)[i], 1)]
typeGetMethod(row, name, types) == IF resolveMember(row, name, types) THEN <<MemberInfo(name, 1)>> ELSE <<>>
typeGetMember(row, name, wantsMethod) == IF wantsMethod THEN typeGetMethod(row, name, Missing) ELSE <<>>

methodBaseGetParameters(row, info) ==
    LET all == resolveMemberParams(row, info.name)
    IN IF info.index \notin DOMAIN all THEN <<>>
       ELSE [j \in DOMAIN all[info.index].types |->
                [type |-> all[info.index].types[j], name |-> all[info.index].names[j], position |-> j - 1]]
methodBaseFlags(row, info) ==
    LET all == resolveMemberFlags(row, info.name) IN IF info.index \in DOMAIN all THEN all[info.index] ELSE {}
Accessor(flags) ==
    [public |-> "public" \in flags, private |-> "private" \in flags, family |-> "family" \in flags, assembly |-> "assembly" \in flags,
     static |-> "static" \in flags, virtual |-> "virtual" \in flags,
     abstract |-> "abstract" \in flags, final |-> "final" \in flags]
Described(row, infos) ==
    [i \in DOMAIN infos |-> [name |-> infos[i].name, params |-> methodBaseGetParameters(row, infos[i]),
                             flags |-> Accessor(methodBaseFlags(row, infos[i]))]]

-----------------------------------------------------------------------------
\* Properties, fields, attributes.

\* get and set are the accessors' types, or None.
propertyTypeFullName(p) == IF p.get # None THEN p.get ELSE p.set
PropertyInfo(p) ==
    [name |-> p.name, canRead |-> p.get # None, canWrite |-> p.set # None, type |-> propertyTypeFullName(p)]
resolveProperties(row) == Collect(row.props, LAMBDA p : TRUE, PropertyInfo)
wellKnownBclPropertyInfos(type) ==
    CASE type = "CultureInfo" -> <<[name |-> "InvariantCulture", canRead |-> TRUE, canWrite |-> FALSE, type |-> "CultureInfo"]>>
      [] type = "DbDataReader" -> <<[name |-> "Item", canRead |-> TRUE, canWrite |-> FALSE, type |-> "Object"]>>
      [] OTHER -> <<>>
typeGetProperties(type, row) ==
    IF resolveProperties(row) = <<>> THEN wellKnownBclPropertyInfos(type) ELSE resolveProperties(row)
typeGetProperty(type, row, name) ==
    LET all == resolveProperties(row) \o wellKnownBclPropertyInfos(type)
    IN IF NoneOf(all, LAMBDA p : p.name = name) THEN <<>> ELSE <<all[FirstOf(all, LAMBDA p : p.name = name)]>>

\* A call is written [callee, args]; the empty result is the null MethodInfo.
CallTo(name, args) == <<[callee |-> name, args |-> args]>>
propertyInfoGetGetMethod(p) == IF p.canRead THEN <<<<"get_", p.name>>>> ELSE <<>>
propertyInfoGetSetMethod(p) == IF p.canWrite THEN <<<<"set_", p.name>>>> ELSE <<>>
propertyInfoGetValue(p, obj) == IF p.canRead THEN CallTo(<<"get_", p.name>>, <<obj>>) ELSE Raised
propertyInfoSetValue(p, obj, v) == IF p.canWrite THEN CallTo(<<"set_", p.name>>, <<obj, v>>) ELSE Raised
methodInfoInvoke(name, obj, args) == CallTo(name, IF obj = None THEN args ELSE <<obj>> \o args)

\* base: the instance fields of the base class, laid out before its own; a static field
\* belongs to the class the FieldInfo was asked of.
resolveFields(row) == row.fields
typeGetFields(row) == Collect(resolveFields(row), LAMBDA f : TRUE, LAMBDA f : [name |-> f.name, type |-> f.type])
InstanceFields(row) == SelectSeq(row.fields, LAMBDA f : ~f.static)
Layout(base, row) == [i \in DOMAIN base |-> base[i].name] \o Collect(InstanceFields(row), LAMBDA f : TRUE, LAMBDA f : f.name)
typeGetField(base, row, name) ==
    IF \A i \in DOMAIN (base \o row.fields) : (base \o row.fields)[i].name # name THEN <<>>
    ELSE <<[name |-> name, type |-> IF NoneOf(row.fields, LAMBDA f : f.name = name) THEN ""
                                     ELSE row.fields[FirstOf(row.fields, LAMBDA f : f.name = name)].type]>>
\* A value is where it lies: the class's statics, or a slot of the object.
fieldInfoGetValue(base, row, name, obj) ==
    IF \E i \in DOMAIN row.fields : row.fields[i].static /\ row.fields[i].name = name THEN <<"static", name>>
    ELSE IF obj = None THEN Raised
    ELSE <<"slot", FirstOf(Layout(base, row), LAMBDA n : n = name)>>
\* The bytes an array initialiser copies: those of the field of that name.
resolveFieldBytes(row, name) ==
    LET named == SelectSeq(row.fields, LAMBDA f : f.name = name)
    IN IF named = <<>> \/ named[1].bytes = <<>> THEN Missing ELSE <<named[1].bytes>>
\* Bytes have two bits here; elements of four and eight bytes are signed.
Little(bytes) == FoldRight(LAMBDA b, n : b + 4 * n, bytes, 0)
Signed(n, bits) == IF n >= 2 ^ (bits - 1) THEN n - 2 ^ bits ELSE n
runtimeHelpersInitializeArray(raw, n) ==
    IF n = 0 THEN <<>>
    ELSE IF Len(raw) % n # 0 \/ Len(raw) \div n \notin {1, 2, 4, 8} THEN Raised
    ELSE LET size == Len(raw) \div n
             Elem(i) == Little(SubSeq(raw, (i - 1) * size + 1, i * size))
         IN [i \in 1..n |-> IF size < 4 THEN Elem(i) ELSE Signed(Elem(i), 2 * size)]

\* An attribute is on the type ("") or on a property; its constructor is a
\* method or a reference to one, with arguments [kind, v, null].
Narrow(v) == Signed(v % 256, 8)
decodedAttrArgToValue(a) ==
    IF a.kind \in {"String", "Type"} /\ a.null THEN <<"null">>
    ELSE CASE a.kind \in {"Bool", "I4", "U4"} -> <<"Int32", Narrow(a.v)>>
           [] a.kind = "I8" -> <<"Int64", a.v>>
           [] a.kind \in {"String", "Type", "R4"} -> <<a.kind, a.v>>
           [] OTHER -> <<"null">>
decodeCustomAttribute(a) ==
    IF a.ctor \notin {"MethodDef", "MemberRef"} \/ a.damaged THEN Missing
    ELSE [class |-> a.class, args |-> [i \in DOMAIN a.args |-> decodedAttrArgToValue(a.args[i])]]
\* Members other than types and properties have none.
resolveCustomAttributes(row, kind, name) ==
    IF kind = "method" \/ (kind = "property" /\ NoneOf(row.props, LAMBDA p : p.name = name)) THEN <<>>
    ELSE Collect(row.attrs, LAMBDA a : a.on = (IF kind = "type" THEN "" ELSE name) /\ decodeCustomAttribute(a) # Missing,
                 decodeCustomAttribute)
\* What is constructed: an attribute whose constructor fails is left out.
customAttributesGetAll(attrs, failing) == SelectSeq(attrs, LAMBDA a : a.class \notin failing)
customAttributesIsDefined(attrs, class) == \E i \in DOMAIN attrs : attrs[i].class = class
attributeGetCustomAttribute(attrs, class) ==
    IF customAttributesIsDefined(attrs, class) THEN <<attrs[FirstOf(attrs, LAMBDA a : a.class = class)]>> ELSE <<>>
\* The value's kind is all there is to tell the argument's type by.
runtimeValueBclTypeName(v) ==
    CASE v[1] \in {"Int32", "Int64", "String"} -> v[1] [] v[1] = "R4" -> "Single" [] v[1] = "Type" -> v[2] [] OTHER -> "Object"
customAttributesGetData(attrs) ==
    [i \in DOMAIN attrs |-> [type |-> attrs[i].class,
        args |-> [j \in DOMAIN attrs[i].args |-> <<runtimeValueBclTypeName(attrs[i].args[j]), attrs[i].args[j]>>]]]

\* A resource is a length of four bytes (two are told apart) and its bytes, at
\* an offset of the section.
resolveManifestResource(section, rows, name) ==
    IF NoneOf(rows, LAMBDA r : r.name = name) THEN Missing
    ELSE LET r == rows[FirstOf(rows, LAMBDA x : x.name = name)]
             length == Little(SubSeq(section, r.offset + 1, r.offset + 4))
         IN IF r.elsewhere \/ r.offset + 4 > Len(section) THEN Missing
            ELSE IF r.offset + 4 + length > Len(section) THEN Missing
            ELSE <<SubSeq(section, r.offset + 5, r.offset + 4 + length)>>

-----------------------------------------------------------------------------
\* Enums: the members in order, [name, value]; a text is <<form, content>>,
\* in the member's spelling, in capitals, or a numeral with or without blanks.

SameText(member, text, ignoreCase) ==
    (text[1] = "exact" \/ (ignoreCase /\ text[1] = "capitals")) /\ text[2] = member
matchEnumMember(members, text, ignoreCase) ==
    LET Match(e) == SameText(e.name, text, ignoreCase)
    IN IF NoneOf(members, Match) THEN Missing ELSE <<Narrow(members[FirstOf(members, Match)].value)>>
enumParse(members, text, ignoreCase) ==
    LET found == matchEnumMember(members, text, ignoreCase)
    IN IF found # Missing THEN found
       ELSE IF text[1] \in {"numeral", "blanks"} THEN <<Narrow(text[2])>> ELSE Raised
\* The result is <<answer, out parameter>>.
enumTryParseGeneric(members, text, ignoreCase) ==
    LET found == matchEnumMember(members, text, ignoreCase)
    IN IF found # Missing THEN <<TRUE, found[1]>> ELSE <<FALSE, 0>>
enumIsDefined(members, arg) ==
    ~NoneOf(members, LAMBDA e : IF arg[1] = "exact" THEN e.name = arg[2] ELSE arg[1] = "numeral" /\ e.value = arg[2])
enumGetNames(members) == [i \in DOMAIN members |-> members[i].name]
enumGetValues(members) == [i \in DOMAIN members |-> Narrow(members[i].value)]
enumToObject(v) == Narrow(v)

-----------------------------------------------------------------------------
\* Types.  A type's text is <<open name, arguments>>; an argument "!0" stands
\* for the first argument of the class it is written in.

Row(is, base, args, interfaces) == [is |-> is, base |-> base, args |-> args, interfaces |-> interfaces]
Tree == [Base |-> Row("class", "", <<>>, {"IA"}), Derived |-> Row("class", "Base", <<>>, {}),
         Last |-> Row("class", "Derived", <<>>, {"IC"}), IA |-> Row("interface", "", <<>>, {"IB"}),
         IB |-> Row("interface", "", <<>>, {}), IC |-> Row("interface", "", <<>>, {"IComparable"}),
         Pair |-> Row("class", "", <<>>, {}), Swapped |-> Row("class", "Pair", <<"!1", "!0">>, {}),
         OfInt |-> Row("class", "Pair", <<"Int32", "!0">>, {}), Fixed |-> Row("class", "Pair", <<"Int32", "String">>, {}),
         Point |-> Row("struct", "", <<>>, {"IB"}), Color |-> Row("enum", "", <<>>, {}),
         Shape |-> Row("abstract", "Base", <<>>, {}), MyStream |-> Row("class", "Stream", <<>>, {})]
NativeBase == [MemoryStream |-> "Stream", MethodInfo |-> "MethodBase", MethodBase |-> "MemberInfo"]
Primitives == {"Int32", "Boolean"}
KnownInterfaces == {"IComparable"}
NativeStructs == {"TimeSpan"}
Natives == {"MemoryStream", "Stream", "MethodInfo", "MethodBase", "MemberInfo", "Object"}
AllNames == DOMAIN Tree \cup Primitives \cup KnownInterfaces \cup NativeStructs \cup Natives

Class(valueType, enum, interface, abstract) ==
    [valueType |-> valueType, enum |-> enum, interface |-> interface, abstract |-> abstract]
classifyTypeByName(t) ==
    LET open == t[1]
    IN CASE open \in Primitives -> Class(TRUE, FALSE, FALSE, FALSE)
         [] open \in KnownInterfaces -> Class(FALSE, FALSE, TRUE, TRUE)
         [] open \in NativeStructs -> Class(TRUE, FALSE, FALSE, FALSE)
         [] open \in DOMAIN Tree -> Class(Tree[open].is \in {"struct", "enum"}, Tree[open].is = "enum",
                                          Tree[open].is = "interface", Tree[open].is \in {"interface", "abstract"})
         [] OTHER -> Class(FALSE, FALSE, FALSE, FALSE)
typeGetIsClass(t) == ~classifyTypeByName(t).valueType /\ ~classifyTypeByName(t).interface
typeGetIsPrimitive(t) == t[1] \in Primitives
typeStaticGetType(t) == t[1] \in NativeStructs \cup DOMAIN Tree

closedBaseTypeFullName(t) ==
    LET row == Tree[t[1]]
        sentinel == [i \in 1..2 |-> <<"!0", "!1">>[i]]
    IN IF row.args = <<>> \/ t[2] = <<>> THEN <<row.base, <<>>>>
       ELSE <<row.base, [i \in DOMAIN row.args |->
                IF \E k \in DOMAIN t[2] : sentinel[k] = row.args[i] THEN t[2][CHOOSE k \in DOMAIN t[2] : sentinel[k] = row.args[i]]
                ELSE row.args[i]]>>
typeGetBaseType(t) ==
    LET c == classifyTypeByName(t)
    IN CASE t = <<"Object", <<>>>> \/ c.interface -> <<>>
         [] c.enum -> <<"Enum", <<>>>>
         [] c.valueType /\ ~c.enum -> <<"ValueType", <<>>>>
         [] OTHER -> IF t[1] \in DOMAIN Tree /\ Tree[t[1]].base # "" THEN closedBaseTypeFullName(t) ELSE <<"Object", <<>>>>
typeGetInterfaces(t) == IF t[1] \in DOMAIN Tree THEN Tree[t[1]].interfaces ELSE {}

RECURSIVE typeMatches(_, _)
typeMatches(name, target) ==
    \/ name = target
    \/ /\ name \in DOMAIN Tree
       /\ \/ \E i \in Tree[name].interfaces : i = target \/ typeMatches(i, target)
          \/ Tree[name].base \in DOMAIN Tree /\ typeMatches(Tree[name].base, target)
RECURSIVE nativeMatches(_, _)
nativeMatches(name, target) == name = target \/ (name \in DOMAIN NativeBase /\ nativeMatches(NativeBase[name], target))
typeIsAssignableFrom(target, candidate) ==
    \/ target = candidate \/ target = <<"Object", <<>>>>
    \/ target[2] = <<>> /\ candidate[2] = <<>> /\ nativeMatches(candidate[1], target[1])
    \/ candidate[2] = <<>> /\ candidate[1] \in DOMAIN Tree /\ target[2] = <<>> /\ typeMatches(candidate[1], target[1])
RECURSIVE typeIsSubclassOf(_, _)
typeIsSubclassOf(receiver, ancestor) ==
    /\ receiver \in DOMAIN Tree
    /\ LET base == Tree[receiver].base
       IN \/ base # "" /\ base = ancestor
          \/ base \in DOMAIN Tree /\ typeIsSubclassOf(base, ancestor)
          \/ base # "" /\ base \notin DOMAIN Tree /\ ancestor = "Object"

-----------------------------------------------------------------------------
\* Tasks.

Method(name, params, rows, flags) == [name |-> name, params |-> params, rows |-> rows, flags |-> flags]
MethodRows == {Method(".ctor", <<>>, <<>>, {"public"}), Method(".ctor", <<"Int32">>, <<<<0, "ret">>, <<1, "x">>>>, {"private"}),
               Method(".ctor", <<"Char">>, <<>>, {"family"}), Method(".ctor", <<"A", "Int32">>, <<<<2, "b">>, <<1, "a">>>>, {"assembly"}),
               Method(".ctor", <<"unreadable">>, <<>>, {"public"}), Method(".cctor", <<>>, <<>>, {"private", "static"}),
               Method("M", <<"String">>, <<<<1, "s">>>>, {"public", "static"}), Method("N", <<>>, <<>>, {"public", "virtual", "abstract"}),
               Method("M", <<"A", "Char">>, <<<<2, "c">>, <<3, "none">>>>, {"public", "virtual", "final"})}
Distinct(seq) == IsInjective(seq)
Rows(of, n) == {s \in UNION {[1..k -> of] : k \in 0..n} : Distinct(s)}
Property(name, get, set) == [name |-> name, get |-> get, set |-> set]
PropRows == {Property("P", "Int32", "Int32"), Property("Q", "A", None), Property("R", None, "A"), Property("InvariantCulture", "B", None)}
Field(name, type, static, bytes) == [name |-> name, type |-> type, static |-> static, bytes |-> bytes]
FieldRows == {Field("x", "Int32", FALSE, <<>>), Field("y", "A", TRUE, <<>>), Field("z", "A", FALSE, <<>>), Field("w", "B", TRUE, <<3, 1, 0, 3>>)}
Attr(on, ctor, class, args, damaged) == [on |-> on, ctor |-> ctor, class |-> class, args |-> args, damaged |-> damaged]
Arg(kind, v, null) == [kind |-> kind, v |-> v, null |-> null]
AttrRows == {Attr("", "MethodDef", "K", <<Arg("I4", 3, FALSE), Arg("String", "s", FALSE)>>, FALSE),
             Attr("", "MemberRef", "L", <<Arg("String", "", TRUE), Arg("I8", 200, FALSE)>>, FALSE), Attr("", "MethodDef", "F", <<>>, FALSE),
             Attr("", "MethodDef", "L", <<Arg("I4", 1, FALSE)>>, TRUE), Attr("P", "MethodDef", "K", <<Arg("U4", 200, FALSE)>>, FALSE)}
Members == {[name |-> n, value |-> v] : n \in {"A", "B", "C"}, v \in {-1, 0, 1, 2}}
Texts == ({"exact", "capitals"} \X {"A", "B", "D"}) \cup ({"numeral", "blanks"} \X {-1, 1, 7}) \cup {<<"junk", 0>>}
TypeLists == {<<>>, <<"Int32">>, <<"Char">>, <<"A", "Int32">>, <<"A", "Char">>}
ClosedTypes == {<<n, <<>>>> : n \in AllNames} \cup {<<n, <<"A", "B">>>> : n \in {"Pair", "Swapped"}} \cup {<<"OfInt", <<"A">>>>}

AskMembers == ({"ctors", "methods"} \X {None} \X {Missing}) \cup ({"ctor"} \X {".ctor"} \X {<<l>> : l \in TypeLists})
              \cup ({"method", "member"} \X {"M", "N"} \X ({Missing} \cup {<<l>> : l \in TypeLists}))
IsReflectionTask(t) ==
    \/ \E at \in Places, ask \in AskMembers : \E ms \in Rows(MethodRows, 3) :
           t = [op |-> "members", at |-> at, row |-> [methods |-> ms], ask |-> ask]
    \/ \E at \in Places, type \in {"T", "CultureInfo", "DbDataReader"}, name \in {"P", "Q", "R", "Item", "InvariantCulture"} :
           \E ps \in Rows(PropRows, 3) : t = [op |-> "properties", at |-> at, row |-> [props |-> ps], ask |-> <<type, name>>]
    \/ \E at \in Places, name \in {"x", "y", "z", "w", "none"}, obj \in {None, "obj"}, base \in Rows({Field("a", "A", FALSE, <<>>), Field("x", "B", FALSE, <<>>)}, 2) :
           \E fs \in Rows(FieldRows, 3) : t = [op |-> "fields", at |-> at, row |-> [fields |-> fs], ask |-> <<base, name, obj>>]
    \/ \E at \in Places, kind \in {"type", "property", "method"}, name \in {"P", "Q"}, class \in {"K", "L", "F"} :
           \E as \in Rows(AttrRows, 3) :
               t = [op |-> "attributes", at |-> at, row |-> [attrs |-> as, props |-> <<Property("P", "A", "A")>>], ask |-> <<kind, name, class>>]
    \/ \E raw \in UNION {[1..k -> {0, 1, 3}] : k \in {0, 1, 2, 4, 6}} \cup [1..8 -> {0, 3}], n \in 0..4 :
           t = [op |-> "array", raw |-> raw, n |-> n]
    \/ \E at \in 0..6, length \in 0..5, name \in {"r", "s"}, elsewhere \in BOOLEAN :
           t = [op |-> "resource", name |-> name, rows |-> <<[name |-> "r", offset |-> at, elsewhere |-> elsewhere]>>,
                section |-> [i \in 1..10 |-> IF i = at + 1 THEN length % 4 ELSE IF i = at + 2 THEN length \div 4
                                             ELSE IF i \in (at + 3)..(at + 4) THEN 0 ELSE (i * i) % 4]]
    \/ \E at \in Places, text \in Texts, ignoreCase \in BOOLEAN : \E es \in Rows(Members, 2) :
           t = [op |-> "enum", at |-> at, members |-> es, text |-> text, ignoreCase |-> ignoreCase]
    \/ \E a \in ClosedTypes, b \in ClosedTypes : t = [op |-> "types", a |-> a, b |-> b]

Failing == {"F"}
Constructs(class) == class \notin Failing
RunMembers(row, ask) ==
    CASE ask[1] = "ctors" -> Described(row, typeGetConstructors(row))
      [] ask[1] = "methods" -> Described(row, typeGetMethods(row))
      [] ask[1] = "member" -> typeGetMember(row, ask[2], TRUE)
      [] OTHER -> typeGetMethod(row, ask[2], ask[3])
RunProperty(type, row, name) ==
    [all |-> typeGetProperties(type, row),
     one |-> LET found == typeGetProperty(type, row, name)
             IN IF found = <<>> THEN <<>>
                ELSE LET p == found[1]
                     IN <<p, propertyInfoGetGetMethod(p), propertyInfoGetSetMethod(p),
                          propertyInfoGetValue(p, "obj"), propertyInfoSetValue(p, "obj", "v"),
                          IF p.canRead THEN methodInfoInvoke(propertyInfoGetGetMethod(p)[1], "obj", <<>>) ELSE Raised>>]
RunField(row, ask) ==
    [all |-> typeGetFields(row), one |-> typeGetField(ask[1], row, ask[2]), bytes |-> resolveFieldBytes(row, ask[2]),
     value |-> IF typeGetField(ask[1], row, ask[2]) = <<>> THEN Missing ELSE fieldInfoGetValue(ask[1], row, ask[2], ask[3])]
RunAttributes(row, ask) ==
    LET attrs == resolveCustomAttributes(row, ask[1], ask[2])
    IN [all |-> customAttributesGetAll(attrs, Failing), data |-> customAttributesGetData(attrs),
        defined |-> customAttributesIsDefined(attrs, ask[3]), one |-> attributeGetCustomAttribute(attrs, ask[3])]
RunEnum(members, text, ignoreCase) ==
    [parse |-> enumParse(members, text, ignoreCase), try |-> enumTryParseGeneric(members, text, ignoreCase),
     defined |-> enumIsDefined(members, text), names |-> enumGetNames(members), values |-> enumGetValues(members)]
RunTypes(a, b) ==
    [class |-> classifyTypeByName(a), isClass |-> typeGetIsClass(a), primitive |-> typeGetIsPrimitive(a),
     found |-> typeStaticGetType(a), base |-> typeGetBaseType(a), interfaces |-> typeGetInterfaces(a),
     assignable |-> typeIsAssignableFrom(a, b), subclass |-> b[2] = <<>> /\ a[2] = <<>> /\ typeIsSubclassOf(b[1], a[1])]
\* What a type without a declaration has.
EmptyRow == [methods |-> <<>>, props |-> <<>>, fields |-> <<>>, attrs |-> <<>>]
RowSeen(t) == IF Finds("main", t.at, TRUE) THEN t.row ELSE EmptyRow
RunReflection(t) ==
    CASE t.op = "members" -> RunMembers(RowSeen(t), t.ask)
      [] t.op = "properties" -> RunProperty(t.ask[1], RowSeen(t), t.ask[2])
      [] t.op = "fields" -> RunField(RowSeen(t), <<IF t.at = "none" THEN <<>> ELSE t.ask[1], t.ask[2], t.ask[3]>>)
      [] t.op = "attributes" -> RunAttributes(RowSeen(t), t.ask)
      [] t.op = "array" -> runtimeHelpersInitializeArray(t.raw, t.n)
      [] t.op = "resource" -> resolveManifestResource(t.section, t.rows, t.name)
      [] t.op = "enum" -> IF Finds("main", t.at, FALSE) THEN RunEnum(t.members, t.text, t.ignoreCase) ELSE Raised
      [] t.op = "types" -> RunTypes(t.a, t.b)

-----------------------------------------------------------------------------
\* What reflection must say: what the declaration says.

Declared(t, of) == IF t.at = "none" THEN <<>> ELSE of
IsMethod(m) == m.name \notin {".ctor", ".cctor"}
Named(m, j) == LET named == {r[2] : r \in {m.rows[i] : i \in {k \in DOMAIN m.rows : m.rows[k][1] = j}}}
               IN IF named = {} THEN DefaultNames[j] ELSE CHOOSE n \in named : TRUE
Describes(d, m) ==
    /\ d.name = m.name
    /\ [j \in DOMAIN d.params |-> d.params[j].type] = m.params
    /\ \A j \in DOMAIN d.params : d.params[j].position = j - 1 /\ d.params[j].name = Named(m, j)
    /\ \A k \in DOMAIN d.flags : d.flags[k] = (k \in m.flags)
DescribesAll(ds, ms) == Len(ds) = Len(ms) /\ \A i \in DOMAIN ms : Describes(ds[i], ms[i])

\* A primitive parameter other than a char or a bool passes for any type: two
\* such lists are not told apart, and an unreadable one is no candidate.
Blurred(m, types) ==
    /\ Len(m.params) = Len(types) /\ m.params # types
    /\ \A j \in DOMAIN types : m.params[j] = types[j] \/ m.params[j] \in {"Int32", "String"}
MembersAreDeclared(t, answer) ==
    LET ms == Declared(t, t.row.methods)
        ctors == SelectSeq(ms, LAMBDA m : m.name = ".ctor")
        methods == SelectSeq(ms, IsMethod)
        own == {ms[i] : i \in {k \in DOMAIN ms : ms[k].name = t.ask[2]}}
    IN CASE t.ask[1] = "ctors" -> (\A i \in DOMAIN ctors : Readable(ctors[i])) => DescribesAll(answer, ctors)
         [] t.ask[1] = "methods" -> IsInjective([i \in DOMAIN methods |-> methods[i].name]) => DescribesAll(answer, methods)
         [] t.ask[1] = "member" \/ t.ask[3] = Missing -> (answer # <<>>) <=> (own # {})
         [] OTHER -> (\A m \in own : ~Blurred(m, t.ask[3][1])) =>
                        ((answer # <<>>) <=> \E m \in own : m.params = t.ask[3][1])

\* A property read or written through its PropertyInfo is the accessor's call.
PropertiesAreDeclared(t, answer) ==
    LET ps == Declared(t, t.row.props)
        mine == {ps[i] : i \in {k \in DOMAIN ps : ps[k].name = t.ask[2]}}
        Infos == [i \in DOMAIN ps |-> [name |-> ps[i].name, canRead |-> ps[i].get # None, canWrite |-> ps[i].set # None,
                                       type |-> IF ps[i].get # None THEN ps[i].get ELSE ps[i].set]]
        Known == t.at = "none" \/ ps = <<>>
    IN /\ (~Known \/ t.ask[1] = "T") => answer.all = Infos
       /\ Known /\ t.ask[1] # "T" => Len(answer.all) = 1 /\ answer.all[1].canRead /\ ~answer.all[1].canWrite
       /\ mine = {} /\ t.ask[1] = "T" => answer.one = <<>>
       /\ \A p \in mine :
             /\ Len(answer.one) = 6 /\ answer.one[1].name = p.name
             /\ answer.one[4] = (IF p.get = None THEN Raised ELSE <<[callee |-> <<"get_", p.name>>, args |-> <<"obj">>]>>)
             /\ answer.one[5] = (IF p.set = None THEN Raised ELSE <<[callee |-> <<"set_", p.name>>, args |-> <<"obj", "v">>]>>)
             /\ (answer.one[2] = <<>>) <=> (p.get = None)
             /\ (answer.one[3] = <<>>) <=> (p.set = None)
             /\ answer.one[6] = answer.one[4]

\* A class that hides a base's field is another matter: both have one slot.
Hides(base, fs) == \E i \in DOMAIN base, j \in DOMAIN fs : base[i].name = fs[j].name
FieldsAreDeclared(t, answer) ==
    LET fs == Declared(t, t.row.fields)
        base == IF t.at = "none" THEN <<>> ELSE t.ask[1]
        at == {i \in DOMAIN fs : fs[i].name = t.ask[2]}
        Slot(i) == Len(base) + Cardinality({k \in 1..i : ~fs[k].static})
    IN /\ answer.all = [i \in DOMAIN fs |-> [name |-> fs[i].name, type |-> fs[i].type]]
       /\ ~Hides(base, fs) => \A i \in at :
             /\ answer.one = <<[name |-> t.ask[2], type |-> fs[i].type]>>
             /\ answer.bytes = (IF fs[i].bytes = <<>> THEN Missing ELSE <<fs[i].bytes>>)
             /\ answer.value = (CASE fs[i].static -> <<"static", t.ask[2]>>
                                  [] ~fs[i].static /\ t.ask[3] = None -> Raised
                                  [] OTHER -> <<"slot", Slot(i)>>)

\* Arguments keep their value (as 32 or 64 bits) and the attributes their
\* order; one whose argument list cannot be read is not there.
AttributesAreDeclared(t, answer) ==
    LET seen == CASE t.at = "none" \/ t.ask[1] = "method" -> <<>>
                  [] t.ask[1] = "type" -> SelectSeq(t.row.attrs, LAMBDA a : a.on = "" /\ ~a.damaged)
                  [] OTHER -> SelectSeq(t.row.attrs, LAMBDA a : a.on = t.ask[2] /\ ~a.damaged)
        Same(v, a) == CASE a.null -> v = <<"null">>
                        [] a.kind \in {"I4", "U4"} -> v[1] = "Int32" /\ (v[2] - a.v) % 256 = 0 /\ v[2] \in -128..127
                        [] a.kind = "I8" -> v = <<"Int64", a.v>>
                        [] OTHER -> v = <<a.kind, a.v>>
        Is(got, a) == got.class = a.class /\ Len(got.args) = Len(a.args) /\ \A j \in DOMAIN a.args : Same(got.args[j], a.args[j])
        built == SelectSeq(seen, LAMBDA a : Constructs(a.class))
        those == SelectSeq(seen, LAMBDA a : a.class = t.ask[3])
    IN /\ Len(answer.all) = Len(built) /\ \A i \in DOMAIN built : Is(answer.all[i], built[i])
       /\ Len(answer.data) = Len(seen)
       /\ \A i \in DOMAIN seen : /\ answer.data[i].type = seen[i].class
                                 /\ \A j \in DOMAIN seen[i].args : ~seen[i].args[j].null =>
                                        answer.data[i].args[j][1] = [I4 |-> "Int32", U4 |-> "Int32", I8 |-> "Int64", String |-> "String"][seen[i].args[j].kind]
       /\ answer.defined <=> (those # <<>>)
       /\ IF those = <<>> THEN answer.one = <<>> ELSE Len(answer.one) = 1 /\ Is(answer.one[1], those[1])

\* Element i of the array is bytes i*size .. of the literal.
ArrayIsTheLiteral(t, answer) ==
    t.n > 0 /\ Len(t.raw) % t.n = 0 /\ Len(t.raw) \div t.n \in {1, 2, 4, 8} =>
        LET size == Len(t.raw) \div t.n
        IN /\ Len(answer) = t.n
           /\ \A i \in 1..t.n, k \in 0..(size - 1) : (answer[i] \div 4 ^ k) % 4 = t.raw[(i - 1) * size + k + 1]
ResourceIsItsBytes(t, answer) ==
    LET r == t.rows[1]
        length == t.section[r.offset + 1] + 4 * t.section[r.offset + 2]
    IN answer = IF t.name # r.name \/ r.elsewhere \/ r.offset + 4 + length > Len(t.section) THEN Missing
                ELSE <<[k \in 1..length |-> t.section[r.offset + 4 + k]]>>

\* A member's name and its value are the same member; without one, a numeral
\* is itself (TryParse takes names alone).
EnumsAreTheirMembers(t, answer) ==
    LET es == t.members
        Reads(e) == t.text[2] = e.name /\ (t.text[1] = "exact" \/ (t.text[1] = "capitals" /\ t.ignoreCase))
        numeral == t.text[1] \in {"numeral", "blanks"}
        read == IF numeral \/ t.text[1] = "junk" THEN {} ELSE {i \in DOMAIN es : Reads(es[i])}
        one == {es[i].value : i \in read}
    IN IF t.at \in {"none", "far"} THEN answer = Raised
       ELSE /\ [i \in DOMAIN es |-> [name |-> answer.names[i], value |-> answer.values[i]]] = es /\ Len(answer.names) = Len(es)
            /\ one # {} => \E v \in one : answer.parse = <<v>> /\ answer.try = <<TRUE, v>>
            /\ one = {} => ~answer.try[1] /\ answer.parse = (IF numeral THEN <<t.text[2]>> ELSE Raised)
            /\ t.text[1] = "exact" => (answer.defined <=> \E i \in DOMAIN es : es[i].name = t.text[2])
            /\ t.text[1] = "numeral" => (answer.defined <=> \E i \in DOMAIN es : es[i].value = t.text[2])

\* Supertypes by the declarations alone.
RECURSIVE Supertypes(_)
Supertypes(n) ==
    {n, "Object"} \cup (IF n \in DOMAIN NativeBase THEN Supertypes(NativeBase[n]) ELSE {})
    \cup (IF n \notin DOMAIN Tree THEN {}
          ELSE UNION {Supertypes(i) : i \in Tree[n].interfaces} \cup (IF Tree[n].base = "" THEN {} ELSE Supertypes(Tree[n].base)))
RECURSIVE Classes(_)
Classes(n) == IF n \notin DOMAIN Tree \/ Tree[n].base = "" THEN {} ELSE {Tree[n].base} \cup Classes(Tree[n].base)
Argument(a, args) == CASE a = "!0" -> args[1] [] a = "!1" -> args[2] [] OTHER -> a
TypesAreDeclared(t, answer) ==
    LET n == t.a[1]
        is == IF n \in DOMAIN Tree THEN Tree[n].is ELSE IF n \in Primitives \cup NativeStructs THEN "struct"
              ELSE IF n \in KnownInterfaces THEN "interface" ELSE "class"
        generic == {"Pair", "Swapped", "OfInt", "Fixed"}
    IN /\ answer.class = [valueType |-> is \in {"struct", "enum"}, enum |-> is = "enum", interface |-> is = "interface",
                          abstract |-> is \in {"abstract", "interface"}]
       /\ answer.isClass = (is \in {"class", "abstract"})
       /\ n \in DOMAIN Tree => answer.found /\ \A i \in answer.interfaces : i \in Supertypes(n)
       /\ CASE n = "Object" \/ is = "interface" -> answer.base = <<>>
            [] is = "enum" -> answer.base = <<"Enum", <<>>>>
            [] is = "struct" -> answer.base = <<"ValueType", <<>>>>
            [] n \in {"Swapped", "OfInt"} /\ t.a[2] # <<>> ->
                   answer.base = <<"Pair", [i \in 1..2 |-> Argument(Tree[n].args[i], t.a[2])]>>
            [] n \in DOMAIN Tree \ generic -> answer.base = <<IF Tree[n].base = "" THEN "Object" ELSE Tree[n].base, <<>>>>
            [] OTHER -> TRUE
       /\ n \notin generic /\ t.b[1] \notin generic /\ ~(n = "Stream" /\ t.b[1] = "MyStream") => (answer.assignable <=> n \in Supertypes(t.b[1]))
       /\ n \notin generic \cup Natives /\ t.b[1] \notin generic => (answer.subclass <=> n \in Classes(t.b[1]))
       /\ t.a = t.b => answer.assignable

ReflectionStandard(t, answer) ==
    CASE t.op = "members" -> MembersAreDeclared(t, answer)
      [] t.op = "properties" -> PropertiesAreDeclared(t, answer)
      [] t.op = "fields" -> FieldsAreDeclared(t, answer)
      [] t.op = "attributes" -> AttributesAreDeclared(t, answer)
      [] t.op = "array" -> ArrayIsTheLiteral(t, answer)
      [] t.op = "resource" -> ResourceIsItsBytes(t, answer)
      [] t.op = "enum" -> EnumsAreTheirMembers(t, answer)
      [] t.op = "types" -> TypesAreDeclared(t, answer)
=============================================================================
