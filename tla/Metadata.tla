------------------------------ MODULE Metadata ------------------------------
(***************************************************************************)
(* Reading an assembly: PE sections, the metadata tables and heaps,        *)
(* signatures, constants and attribute blobs (internal/pe and              *)
(* internal/metadata).  The code finds everything by position, so a width  *)
(* or a size one unit off makes everything after it something else.        *)
(*                                                                         *)
(* The reference is a writer: the layout rules of ECMA-335 II.24.2.6, the  *)
(* encodings of II.23.2, and a compiler's numbering of members.            *)
(***************************************************************************)
EXTENDS Integers, Sequences, FiniteSets, TLC

CONSTANTS Byte   \* how many values a byte has: 256, or 16 in a small instance

ASSUME MetadataAssumption == Byte \in {16, 256}

Total(s) == LET upTo[i \in 0..Len(s)] == IF i = 0 THEN 0 ELSE upTo[i - 1] + s[i] IN upTo[Len(s)]
Before(s, i) == Total(SubSeq(s, 1, i - 1))

-----------------------------------------------------------------------------
\* The tables, in the order of their numbers, and the columns of each.

U16 == "u16"
U32 == "u32"
Tables == <<"Module", "TypeRef", "TypeDef", "FieldPtr", "Field", "MethodPtr", "MethodDef", "ParamPtr", "Param",
            "InterfaceImpl", "MemberRef", "Constant", "CustomAttribute", "FieldMarshal", "DeclSecurity", "ClassLayout",
            "FieldLayout", "StandAloneSig", "EventMap", "EventPtr", "Event", "PropertyMap", "PropertyPtr", "Property",
            "MethodSemantics", "MethodImpl", "ModuleRef", "TypeSpec", "ImplMap", "FieldRVA", "ENCLog", "ENCMap",
            "Assembly", "AssemblyProcessor", "AssemblyOS", "AssemblyRef", "AssemblyRefProcessor", "AssemblyRefOS", "File",
            "ExportedType", "ManifestResource", "NestedClass", "GenericParam", "MethodSpec", "GenericParamConstraint">>
codedIndexTargets ==
    [TypeDefOrRef |-> <<"TypeDef", "TypeRef", "TypeSpec">>,
     HasConstant |-> <<"Field", "Param", "Property">>,
     HasCustomAttribute |-> <<"MethodDef", "Field", "TypeRef", "TypeDef", "Param", "InterfaceImpl", "MemberRef", "Module",
                              "DeclSecurity", "Property", "Event", "StandAloneSig", "ModuleRef", "TypeSpec", "Assembly",
                              "AssemblyRef", "File", "ExportedType", "ManifestResource", "GenericParam",
                              "GenericParamConstraint", "MethodSpec">>,
     HasFieldMarshal |-> <<"Field", "Param">>,
     HasDeclSecurity |-> <<"TypeDef", "MethodDef", "Assembly">>,
     MemberRefParent |-> <<"TypeDef", "TypeRef", "ModuleRef", "MethodDef", "TypeSpec">>,
     HasSemantics |-> <<"Event", "Property">>,
     MethodDefOrRef |-> <<"MethodDef", "MemberRef">>,
     MemberForwarded |-> <<"Field", "MethodDef">>,
     Implementation |-> <<"File", "AssemblyRef", "ExportedType">>,
     CustomAttributeType |-> <<"none", "none", "MethodDef", "MemberRef", "none">>,
     ResolutionScope |-> <<"Module", "ModuleRef", "AssemblyRef", "TypeRef">>,
     TypeOrMethodDef |-> <<"TypeDef", "MethodDef">>]
Heaps == {"#Strings", "#GUID", "#Blob"}
tableSchemas ==
    [Module |-> <<U16, "#Strings", "#GUID", "#GUID", "#GUID">>,
     TypeRef |-> <<"ResolutionScope", "#Strings", "#Strings">>,
     TypeDef |-> <<U32, "#Strings", "#Strings", "TypeDefOrRef", "Field", "MethodDef">>,
     FieldPtr |-> <<"Field">>, Field |-> <<U16, "#Strings", "#Blob">>,
     MethodPtr |-> <<"MethodDef">>, MethodDef |-> <<U32, U16, U16, "#Strings", "#Blob", "Param">>,
     ParamPtr |-> <<"Param">>, Param |-> <<U16, U16, "#Strings">>,
     InterfaceImpl |-> <<"TypeDef", "TypeDefOrRef">>,
     MemberRef |-> <<"MemberRefParent", "#Strings", "#Blob">>,
     Constant |-> <<U16, "HasConstant", "#Blob">>,
     CustomAttribute |-> <<"HasCustomAttribute", "CustomAttributeType", "#Blob">>,
     FieldMarshal |-> <<"HasFieldMarshal", "#Blob">>,
     DeclSecurity |-> <<U16, "HasDeclSecurity", "#Blob">>,
     ClassLayout |-> <<U16, U32, "TypeDef">>, FieldLayout |-> <<U32, "Field">>,
     StandAloneSig |-> <<"#Blob">>,
     EventMap |-> <<"TypeDef", "Event">>, EventPtr |-> <<"Event">>, Event |-> <<U16, "#Strings", "TypeDefOrRef">>,
     PropertyMap |-> <<"TypeDef", "Property">>, PropertyPtr |-> <<"Property">>, Property |-> <<U16, "#Strings", "#Blob">>,
     MethodSemantics |-> <<U16, "MethodDef", "HasSemantics">>,
     MethodImpl |-> <<"TypeDef", "MethodDefOrRef", "MethodDefOrRef">>,
     ModuleRef |-> <<"#Strings">>, TypeSpec |-> <<"#Blob">>,
     ImplMap |-> <<U16, "MemberForwarded", "#Strings", "ModuleRef">>,
     FieldRVA |-> <<U32, "Field">>, ENCLog |-> <<U32, U32>>, ENCMap |-> <<U32>>,
     Assembly |-> <<U32, U16, U16, U16, U16, U32, "#Blob", "#Strings", "#Strings">>,
     AssemblyProcessor |-> <<U32>>, AssemblyOS |-> <<U32, U32, U32>>,
     AssemblyRef |-> <<U16, U16, U16, U16, U32, "#Blob", "#Strings", "#Strings", "#Blob">>,
     AssemblyRefProcessor |-> <<U32, "AssemblyRef">>, AssemblyRefOS |-> <<U32, U32, U32, "AssemblyRef">>,
     File |-> <<U32, "#Strings", "#Blob">>,
     ExportedType |-> <<U32, U32, "#Strings", "#Strings", "Implementation">>,
     ManifestResource |-> <<U32, U32, "#Strings", "Implementation">>,
     NestedClass |-> <<"TypeDef", "TypeDef">>,
     GenericParam |-> <<U16, U16, "TypeOrMethodDef", "#Strings">>,
     MethodSpec |-> <<"MethodDefOrRef", "#Blob">>,
     GenericParamConstraint |-> <<"GenericParam", "TypeDefOrRef">>]

\* Mutant: one bit more than needed when the tables fill the tags.
codedIndexTagBitsOver(kind) ==
    LET n == Len(codedIndexTargets[kind])
    IN CHOOSE bits \in 0..5 : 2^bits > n /\ \A fewer \in 0..(bits - 1) : 2^fewer <= n
\* The fewest bits that number the targets.
codedIndexTagBits(kind) ==
    LET n == Len(codedIndexTargets[kind])
    IN CHOOSE bits \in 0..5 : 2^bits >= n /\ \A fewer \in 0..(bits - 1) : 2^fewer < n
codedIndexMaxRows(kind, rowCounts) ==
    LET counts == {rowCounts[t] : t \in {codedIndexTargets[kind][i] : i \in DOMAIN codedIndexTargets[kind]} \ {"none"}}
    IN CHOOSE c \in counts : \A d \in counts : c >= d
\* <<table, row>>, or no token when the tag names no table.
NoToken == <<"none", 0>>
decodeCodedIndex(kind, raw) ==
    LET tags == 2^codedIndexTagBits(kind)
        tag == raw % tags
    IN IF tag >= Len(codedIndexTargets[kind]) \/ codedIndexTargets[kind][tag + 1] = "none" THEN NoToken
       ELSE <<codedIndexTargets[kind][tag + 1], raw \div tags>>
columnWidth(column, wide, rowCounts) ==
    LET isWide == CASE column = U16 -> FALSE [] column = U32 -> TRUE
                    [] column \in Heaps -> column \in wide
                    [] column \in DOMAIN tableSchemas -> rowCounts[column] > 2^16 - 1
                    [] OTHER -> codedIndexMaxRows(column, rowCounts) >= 2^(16 - codedIndexTagBits(column))
    IN IF isWide THEN 4 ELSE 2
\* The stream's header is 24 bytes and a count per table that has rows; the
\* rows follow, table by table.
parseTables(rowCounts, wide) ==
    LET present == {t \in DOMAIN rowCounts : rowCounts[t] > 0}
        widths == [t \in DOMAIN rowCounts |->
                      [i \in DOMAIN tableSchemas[t] |-> columnWidth(tableSchemas[t][i], wide, rowCounts)]]
        sizes == [i \in DOMAIN Tables |-> rowCounts[Tables[i]] * Total(widths[Tables[i]])]
    IN [i \in DOMAIN Tables |-> [at |-> 24 + 4 * Cardinality(present) + Before(sizes, i), widths |-> widths[Tables[i]]]]
\* Where a cell is and how long (Table.col); rows and columns from 1.
col(layout, row, i) == [at |-> layout.at + (row - 1) * Total(layout.widths) + Before(layout.widths, i), width |-> layout.widths[i]]

\* A token fits two bytes when its largest value does (II.24.2.6), and a row
\* with narrow columns has so many bytes.
TagBits == [TypeDefOrRef |-> 2, HasConstant |-> 2, HasCustomAttribute |-> 5, HasFieldMarshal |-> 1, HasDeclSecurity |-> 2,
            MemberRefParent |-> 3, HasSemantics |-> 1, MethodDefOrRef |-> 1, MemberForwarded |-> 1, Implementation |-> 2,
            CustomAttributeType |-> 3, ResolutionScope |-> 2, TypeOrMethodDef |-> 1]
NarrowRows == <<10, 6, 14, 2, 6, 2, 14, 2, 6, 4, 6, 6, 6, 4, 6, 8, 6, 2, 4, 2, 6, 4, 2, 6, 6, 6, 2, 2, 8, 6, 8, 4,
                22, 4, 12, 20, 6, 14, 8, 14, 12, 4, 8, 4, 4>>
LargestValue(column, rowCounts) ==
    IF column \in DOMAIN TagBits
    THEN LET targets == codedIndexTargets[column]
             tokens == {rowCounts[targets[i]] * 2^TagBits[column] + i - 1 : i \in {j \in DOMAIN targets : targets[j] # "none"}}
         IN CHOOSE v \in tokens : \A w \in tokens : v >= w
    ELSE rowCounts[column]
WrittenWidth(column, wide, rowCounts) ==
    IF column \in {U16, U32} \cup Heaps THEN (IF column = U32 \/ column \in wide THEN 4 ELSE 2)
    ELSE IF LargestValue(column, rowCounts) < 2^16 THEN 2 ELSE 4


-----------------------------------------------------------------------------
\* PE sections.  A section: [VirtualAddress, VirtualSize, SizeOfRawData, PointerToRawData].

NoOffset == -1
Holds(s, rva) == LET size == IF s.SizeOfRawData > s.VirtualSize THEN s.SizeOfRawData ELSE s.VirtualSize
                 IN s.VirtualAddress <= rva /\ rva < s.VirtualAddress + size
rvaToOffset(sections, rva) ==
    LET first == {i \in DOMAIN sections : Holds(sections[i], rva) /\ \A k \in 1..(i - 1) : ~Holds(sections[k], rva)}
    IN IF first = {} THEN NoOffset
       ELSE LET s == sections[CHOOSE i \in first : TRUE] IN s.PointerToRawData + rva - s.VirtualAddress
\* The file keeps only as many data directories as the optional header is long.
DirectoryCount(magic, size) ==
    LET fixed == IF magic = "PE32+" THEN 112 ELSE 96
    IN IF size < fixed THEN 0 ELSE IF (size - fixed) \div 8 > 16 THEN 16 ELSE (size - fixed) \div 8
\* The metadata's [from, to) in the file, or why there is none.  The CLI header
\* is 72 bytes and says where the metadata is.
PEParse(f) ==
    LET cliAt == rvaToOffset(f.sections, f.cli)
        metaAt == rvaToOffset(f.sections, f.meta)
    IN IF f.optional = 0 \/ f.magic \notin {"PE32", "PE32+"} THEN <<"ErrInvalidPE">>
       ELSE IF DirectoryCount(f.magic, f.optional) < 15 \/ f.cli = 0 \/ cliAt = NoOffset \/ cliAt + 72 > f.length
       THEN <<"ErrMissingCLIHeader">>
       ELSE IF f.meta = 0 \/ f.metaSize = 0 \/ metaAt = NoOffset \/ metaAt + f.metaSize > f.length
       THEN <<"ErrInvalidMetadataRoot">>
       ELSE <<"ok", metaAt, metaAt + f.metaSize>>
\* A stream's part of the metadata, cut at its end.
sliceStream(length, offset, size) ==
    LET end == IF offset + size > length THEN length ELSE offset + size IN IF offset > end THEN <<0, 0>> ELSE <<offset, end>>

-----------------------------------------------------------------------------
\* Heaps: a sequence of bytes, indexed from 0.  Truncated stands for an error.

Truncated == -1
Half == Byte \div 2
At(b, i) == b[i + 1]
Slice(b, from, to) == SubSeq(b, from + 1, to)
\* A length in 1, 2 or 4 bytes, told apart by the first one's leading bits: the
\* value, Truncated if there is none, and its size.
decodeCompressed(b, i) ==
    IF i >= Len(b) THEN [value |-> Truncated, size |-> 0]
    ELSE LET first == At(b, i)
         IN IF first < Half THEN [value |-> first, size |-> 1]
            ELSE IF first < Half + Byte \div 4
            THEN IF i + 2 > Len(b) THEN [value |-> Truncated, size |-> 0]
                 ELSE [value |-> (first - Half) * Byte + At(b, i + 1), size |-> 2]
            ELSE IF first < Half + Byte \div 4 + Byte \div 8
            THEN IF i + 4 > Len(b) THEN [value |-> Truncated, size |-> 0]
                 ELSE [value |-> (first - Half - Byte \div 4) * Byte^3 + At(b, i + 1) * Byte^2 + At(b, i + 2) * Byte + At(b, i + 3),
                       size |-> 4]
            ELSE [value |-> Truncated, size |-> 0]
NoBytes == <<Truncated>>
StringHeap(b, index) ==
    IF index = 0 THEN <<>>
    ELSE IF index >= Len(b) THEN NoBytes
    ELSE LET ends == {e \in index..Len(b) : e = Len(b) \/ At(b, e) = 0}
         IN Slice(b, index, CHOOSE e \in ends : \A o \in ends : e <= o)
GUIDHeap(b, index) ==
    IF index = 0 THEN [i \in 1..16 |-> 0]
    ELSE IF index * 16 > Len(b) THEN NoBytes ELSE Slice(b, (index - 1) * 16, index * 16)
BlobHeap(b, index) ==
    LET n == decodeCompressed(b, index)
    IN IF index = 0 THEN <<>>
       ELSE IF n.value = Truncated \/ index + n.size + n.value > Len(b) THEN NoBytes
       ELSE Slice(b, index + n.size, index + n.size + n.value)
\* Two bytes a character, low byte first, and one that says whether any is special.
usHeap(b, index) ==
    LET n == decodeCompressed(b, index)
        raw == Slice(b, index + n.size, index + n.size + n.value - 1)
    IN IF index = 0 \/ n.value = 0 THEN <<>>
       ELSE IF n.value = Truncated \/ index + n.size + n.value - 1 > Len(b) THEN NoBytes
       ELSE [i \in 1..(Len(raw) \div 2) |-> raw[2 * i - 1] + Byte * raw[2 * i]]

\* The shortest form that holds the number (II.23.2), and the heap's entry.
Compressed(n) ==
    IF n < Half THEN <<n>>
    ELSE IF n < Byte^2 \div 4 THEN <<Half + n \div Byte, n % Byte>>
    ELSE <<Half + Byte \div 4 + n \div Byte^3, (n \div Byte^2) % Byte, (n \div Byte) % Byte, n % Byte>>
Units(chars) == [i \in 1..(2 * Len(chars)) |-> IF i % 2 = 1 THEN chars[(i + 1) \div 2] % Byte ELSE chars[i \div 2] \div Byte]
Entry(heap, content) ==
    CASE heap = "#Strings" -> content \o <<0>>
      [] heap = "#GUID" -> content
      [] heap = "#Blob" -> Compressed(Len(content)) \o content
      [] heap = "#US" -> Compressed(2 * Len(content) + 1) \o Units(content) \o <<0>>
ReadEntry(heap, b, index) ==
    CASE heap = "#Strings" -> StringHeap(b, index) [] heap = "#GUID" -> GUIDHeap(b, index)
      [] heap = "#Blob" -> BlobHeap(b, index) [] heap = "#US" -> usHeap(b, index)

-----------------------------------------------------------------------------
\* Signatures.

NamedElements == [void |-> 1, bool |-> 2, char |-> 3, I1 |-> 4, U1 |-> 5, I2 |-> 6, U2 |-> 7, I4 |-> 8, U4 |-> 9, I8 |-> 10,
                  U8 |-> 11, R4 |-> 12, R8 |-> 13, string |-> 14, I |-> 24, U |-> 25, object |-> 28]
elementPtr == 15
elementByRef == 16
elementValueType == 17
elementClass == 18
elementVar == 19
elementArray == 20
elementGenericInst == 21
elementSZArray == 29
elementMVar == 30
elementCModReqd == 31
elementCModOpt == 32
elementPinned == 69
\* A type: of what kind, its token, the number of a type parameter, the types in it.
SigType(kind, token, index, args) == [kind |-> kind, token |-> token, index |-> index, args |-> args]
BareType(kind) == SigType(kind, NoToken, 0, <<>>)
Unread == [at |-> Truncated, type |-> BareType("error")]
decodeTypeDefOrRefEncoded(b, i) ==
    LET v == decodeCompressed(b, i)
    IN [token |-> IF v.value = Truncated THEN NoToken ELSE decodeCodedIndex("TypeDefOrRef", v.value), size |-> v.size]
RECURSIVE SkipModifiers(_, _), parseType(_, _), parseTypes(_, _, _)
PastModifier(b, i, t) == IF t.token = NoToken THEN Truncated ELSE SkipModifiers(b, i + 1 + t.size)
SkipModifiers(b, i) ==
    IF i < Len(b) /\ At(b, i) \in {elementCModReqd, elementCModOpt}
    THEN PastModifier(b, i, decodeTypeDefOrRefEncoded(b, i + 1))
    ELSE i
\* The types from i on, as many as are counted there and one more if the count
\* leaves one out; and where they end.
NoTypes == [at |-> Truncated, types |-> <<>>]
TypesAfter(b, i, count, more) ==
    IF count.value = Truncated THEN NoTypes ELSE parseTypes(b, i + count.size, count.value + more)
CountedTypes(b, i, more) == TypesAfter(b, i, decodeCompressed(b, i), more)
\* What follows the byte that says the kind of a type: a token, a number, a
\* type, or the open type and the types it is closed over.
NamedBy(code, i, t) ==
    IF t.token = NoToken THEN Unread
    ELSE [at |-> i + 1 + t.size, type |-> SigType(IF code = elementClass THEN "class" ELSE "valuetype", t.token, 0, <<>>)]
Numbered(code, i, n) ==
    IF n.value = Truncated THEN Unread
    ELSE [at |-> i + 1 + n.size, type |-> SigType(IF code = elementVar THEN "var" ELSE "mvar", NoToken, n.value, <<>>)]
ElementOf(code, elem) ==
    IF elem.at = Truncated THEN Unread
    ELSE [at |-> elem.at,
          type |-> CASE code = elementSZArray -> SigType("szarray", NoToken, 0, <<elem.type>>)
                     [] code = elementPtr -> BareType("pointer") [] code = elementByRef -> BareType("byref")]
ClosedOver(marker, open, args) ==
    IF args.at = Truncated THEN Unread
    ELSE [at |-> args.at,
          type |-> SigType(IF marker = elementValueType THEN "geninst valuetype" ELSE "geninst class", open.token, 0, args.types)]
Instantiation(b, i, open) ==
    IF open.token = NoToken THEN Unread ELSE ClosedOver(At(b, i + 1), open, CountedTypes(b, i + 2 + open.size, 0))
\* The type whose first byte is at i.  Of a pointer or a reference only that it
\* is one is kept; multidimensional arrays are refused.
TypeAt(b, i, code) ==
    IF \E n \in DOMAIN NamedElements : NamedElements[n] = code
    THEN [at |-> i + 1, type |-> BareType(CHOOSE n \in DOMAIN NamedElements : NamedElements[n] = code)]
    ELSE CASE code \in {elementClass, elementValueType} -> NamedBy(code, i, decodeTypeDefOrRefEncoded(b, i + 1))
           [] code \in {elementSZArray, elementPtr, elementByRef} -> ElementOf(code, parseType(b, i + 1))
           [] code \in {elementVar, elementMVar} -> Numbered(code, i, decodeCompressed(b, i + 1))
           [] code = elementGenericInst /\ i + 1 < Len(b) -> Instantiation(b, i, decodeTypeDefOrRefEncoded(b, i + 2))
           [] OTHER -> Unread
ParseAt(b, i) == IF i = Truncated \/ i >= Len(b) THEN Unread ELSE TypeAt(b, i, At(b, i))
\* The type that starts at i and where it ends.
parseType(b, i) == ParseAt(b, SkipModifiers(b, i))
Joined(first, rest) ==
    IF rest.at = Truncated THEN NoTypes ELSE [at |-> rest.at, types |-> <<first.type>> \o rest.types]
FirstAndRest(b, first, n) ==
    IF first.at = Truncated THEN NoTypes ELSE Joined(first, parseTypes(b, first.at, n - 1))
parseTypes(b, i, n) == IF n = 0 THEN [at |-> i, types |-> <<>>] ELSE FirstAndRest(b, parseType(b, i), n)
\* Each kind of signature: the types, in front of them the return type's; or
\* none.  Only a method's says more: whether it has a this, its type parameters.
Sig(this, generics, types) == [this |-> this, generics |-> generics, types |-> types]
NoSig == Sig(FALSE, Truncated, <<>>)
SigOf(this, generics, parsed) == IF parsed.at = Truncated THEN NoSig ELSE Sig(this, generics, parsed.types)
\* The return type is not counted.
MethodSig(b, conv, arity) ==
    IF arity.value = Truncated THEN NoSig
    ELSE SigOf((conv \div 32) % 2 = 1, arity.value, CountedTypes(b, 1 + arity.size, 1))
ParseMethodSig(b) ==
    IF b = <<>> THEN NoSig
    ELSE MethodSig(b, At(b, 0), IF (At(b, 0) \div 16) % 2 = 1 THEN decodeCompressed(b, 1) ELSE [value |-> 0, size |-> 0])
One(t) == IF t.at = Truncated THEN NoSig ELSE Sig(FALSE, 0, <<t.type>>)
ParseFieldSig(b) == IF b = <<>> \/ At(b, 0) # 6 THEN NoSig ELSE One(parseType(b, 1))
ParseTypeSpec(b) == One(parseType(b, 0))
ParseMethodSpec(b) == IF b = <<>> \/ At(b, 0) # 10 THEN NoSig ELSE SigOf(FALSE, 0, CountedTypes(b, 1, 0))
\* A local may be pinned.
RECURSIVE parseLocals(_, _, _)
Unpinned(b, i) ==
    CHOOSE e \in i..Len(b) : (e = Len(b) \/ At(b, e) # elementPinned) /\ \A k \in i..(e - 1) : At(b, k) = elementPinned
FirstLocalAndRest(b, first, n) ==
    IF first.at = Truncated THEN NoTypes ELSE Joined(first, parseLocals(b, first.at, n - 1))
parseLocals(b, i, n) ==
    IF n = 0 THEN [at |-> i, types |-> <<>>] ELSE FirstLocalAndRest(b, parseType(b, Unpinned(b, i)), n)
LocalsAfter(b, count) == IF count.value = Truncated THEN NoTypes ELSE parseLocals(b, 1 + count.size, count.value)
ParseLocalVarSig(b) ==
    IF b = <<>> \/ At(b, 0) # 7 THEN NoSig ELSE SigOf(FALSE, 0, LocalsAfter(b, decodeCompressed(b, 1)))
ParseSig(of, b) ==
    CASE of = "method" -> ParseMethodSig(b) [] of = "field" -> ParseFieldSig(b) [] of = "typespec" -> ParseTypeSpec(b)
      [] of = "methodspec" -> ParseMethodSpec(b) [] of = "locals" -> ParseLocalVarSig(b)

\* How a signature is written (II.23.2).
RECURSIVE WriteType(_), WriteTypes(_)
CodedToken(t) == Compressed((CASE t[1] = "TypeDef" -> 0 [] t[1] = "TypeRef" -> 1 [] t[1] = "TypeSpec" -> 2) + 4 * t[2])
WriteType(t) ==
    CASE t.kind \in DOMAIN NamedElements -> <<NamedElements[t.kind]>>
      [] t.kind = "class" -> <<elementClass>> \o CodedToken(t.token)
      [] t.kind = "valuetype" -> <<elementValueType>> \o CodedToken(t.token)
      [] t.kind \in {"var", "mvar"} -> <<IF t.kind = "var" THEN elementVar ELSE elementMVar>> \o Compressed(t.index)
      [] t.kind = "szarray" -> <<elementSZArray>> \o WriteTypes(t.args)
      [] t.kind = "pointer" -> <<elementPtr>> \o WriteTypes(t.args)
      [] t.kind = "byref" -> <<elementByRef>> \o WriteTypes(t.args)
      [] t.kind = "array" -> <<elementArray>> \o WriteTypes(t.args) \o <<2, 0, 0>>
      [] t.kind = "modified" -> <<elementCModReqd>> \o CodedToken(t.token) \o WriteTypes(t.args)
      [] t.kind = "pinned" -> <<elementPinned>> \o WriteTypes(t.args)
      [] t.kind \in {"geninst class", "geninst valuetype"} ->
           <<elementGenericInst, IF t.kind = "geninst class" THEN elementClass ELSE elementValueType>>
           \o CodedToken(t.token) \o Compressed(Len(t.args)) \o WriteTypes(t.args)
WriteTypes(types) == IF types = <<>> THEN <<>> ELSE WriteType(Head(types)) \o WriteTypes(Tail(types))
WriteSig(of, sig) ==
    LET n == Len(sig.types)
    IN CASE of = "method" -> <<(IF sig.this THEN 32 ELSE 0) + (IF sig.generics > 0 THEN 16 ELSE 0)>>
                             \o (IF sig.generics > 0 THEN Compressed(sig.generics) ELSE <<>>)
                             \o Compressed(n - 1) \o WriteTypes(sig.types)
         [] of = "field" -> <<6>> \o WriteTypes(sig.types)
         [] of = "typespec" -> WriteTypes(sig.types)
         [] of = "methodspec" -> <<10>> \o Compressed(n) \o WriteTypes(sig.types)
         [] of = "locals" -> <<7>> \o Compressed(n) \o WriteTypes(sig.types)
\* What is kept of a type: no modifiers, nothing behind a pointer, no type at
\* all for an array of several dimensions.
RECURSIVE Kept(_)
Kept(t) ==
    CASE t.kind \in {"modified", "pinned"} -> Kept(t.args[1])
      [] t.kind \in {"pointer", "byref"} -> IF Kept(t.args[1]) = BareType("error") THEN BareType("error") ELSE BareType(t.kind)
      [] t.kind = "array" -> BareType("error")
      [] OTHER -> LET args == [i \in DOMAIN t.args |-> Kept(t.args[i])]
                  IN IF \E i \in DOMAIN args : args[i] = BareType("error") THEN BareType("error") ELSE [t EXCEPT !.args = args]

-----------------------------------------------------------------------------
\* Constants and attribute arguments: numbers in bytes, the low one first.

Size == [bool |-> 1, char |-> 2, I1 |-> 1, U1 |-> 1, I2 |-> 2, U2 |-> 2, I4 |-> 4, U4 |-> 4, I8 |-> 8, U8 |-> 8, R4 |-> 4, R8 |-> 8]
Unsigned(b) == LET upTo[i \in 0..Len(b)] == IF i = 0 THEN 0 ELSE upTo[i - 1] * Byte + b[Len(b) - i + 1] IN upTo[Len(b)]
Signed(b) ==
    LET top == IF b[Len(b)] >= Half THEN b[Len(b)] - Byte ELSE b[Len(b)]
        upTo[i \in 1..Len(b)] == IF i = 1 THEN top ELSE upTo[i - 1] * Byte + b[Len(b) - i + 1]
    IN upTo[Len(b)]
\* A field's constant: [is, number, text]; null and strings by their tag.
Constant(is, number, text) == [is |-> is, number |-> number, text |-> text]
decodeConstantInt64(tag, b) == IF tag \in {"U1", "U2", "U4"} THEN Unsigned(b) ELSE Signed(b)
ConstantForField(tag, b) ==
    CASE tag = "string" -> Constant("string", 0, [i \in 1..(Len(b) \div 2) |-> b[2 * i - 1] + Byte * b[2 * i]])
      [] tag = "class" -> Constant("null", 0, <<>>)
      [] OTHER -> IF Len(b) < Size[tag] THEN Constant("error", 0, <<>>)
                  ELSE IF tag \in {"R4", "R8"} THEN Constant("float", 0, SubSeq(b, 1, Size[tag]))
                  ELSE Constant(IF tag \in {"I8", "U8"} THEN "int64" ELSE "int32",
                                decodeConstantInt64(tag, SubSeq(b, 1, Size[tag])), <<>>)

\* An argument: [kind, number, text, size], size Truncated if it is not read.
Arg(kind, number, text, size) == [kind |-> kind, number |-> number, text |-> text, size |-> size]
NoArg == Arg("unsupported", 0, <<>>, Truncated)
decodeSerString(b, i, kind) ==
    LET n == decodeCompressed(b, i)
    IN IF i < Len(b) /\ At(b, i) = Byte - 1 THEN Arg("null " \o kind, 0, <<>>, 1)
       ELSE IF n.value = Truncated \/ i + n.size + n.value > Len(b) THEN NoArg
       ELSE Arg(kind, 0, Slice(b, i + n.size, i + n.size + n.value), n.size + n.value)
\* An enum is read as its usual four bytes.
decodeFixedArg(kind, b, i) ==
    LET read == IF kind = "valuetype" THEN "I4" ELSE kind
        size == Size[read]
        bytes == Slice(b, i, i + size)
    IN IF kind \in {"string", "class"} THEN decodeSerString(b, i, IF kind = "class" THEN "type" ELSE kind)
       ELSE IF read \notin DOMAIN Size \/ i + size > Len(b) THEN NoArg
       ELSE CASE read = "bool" -> Arg(read, IF bytes[1] # 0 THEN 1 ELSE 0, <<>>, 1)
              [] read \in {"R4", "R8"} -> Arg(read, 0, bytes, size)
              [] read \in {"char", "U1", "U2", "U4"} -> Arg(read, Unsigned(bytes), <<>>, size)
              [] OTHER -> Arg(read, Signed(bytes), <<>>, size)
\* The fixed arguments, after a prolog of 1.  What follows, the named ones, is
\* passed over and kept by nobody.
RECURSIVE FixedArgs(_, _, _)
FixedArgs(kinds, b, i) ==
    IF kinds = <<>> THEN <<>>
    ELSE LET first == decodeFixedArg(Head(kinds), b, i)
         IN IF first.size = Truncated THEN <<NoArg>> ELSE <<first>> \o FixedArgs(Tail(kinds), b, i + first.size)
DecodeCustomAttributeArgs(kinds, b) ==
    LET args == FixedArgs(kinds, b, 2)
    IN IF Len(b) < 2 \/ SubSeq(b, 1, 2) # <<1, 0>> \/ \E i \in DOMAIN args : args[i] = NoArg THEN <<NoArg>> ELSE args

NumberBytes(n, size) == [i \in 1..size |-> (n \div Byte^(i - 1)) % Byte]
WriteArg(arg) ==
    CASE arg.kind = "null string" -> <<Byte - 1>>
      [] arg.kind = "string" -> Compressed(Len(arg.text)) \o arg.text
      [] arg.kind \in {"R4", "R8"} -> arg.text
      [] OTHER -> NumberBytes(arg.number, Size[arg.kind])

-----------------------------------------------------------------------------
\* Finding members: an image [typeDefs, fields, methods, ...] with a sequence
\* of rows a table, and the lists of a type's members, which end where the next
\* one's start.

RangeOf(rows, list, i, all) == <<rows[i][list], IF i < Len(rows) THEN rows[i + 1][list] ELSE Len(all) + 1>>
TypeDefMethodRange(img, rid) == RangeOf(img.typeDefs, "MethodList", rid, img.methods)
TypeDefFieldRange(img, rid) == RangeOf(img.typeDefs, "FieldList", rid, img.fields)
MethodDefParamRange(img, rid) == RangeOf(img.methods, "ParamList", rid, img.params)
First(hits) == IF hits = {} THEN 0 ELSE CHOOSE i \in hits : \A j \in hits : i <= j
TypeDefPropertyRange(img, rid) ==
    LET i == First({k \in DOMAIN img.propertyMap : img.propertyMap[k].Parent = rid})
    IN IF i = 0 THEN <<0, 0>> ELSE RangeOf(img.propertyMap, "PropertyList", i, img.properties)
Inside(range, rid) == range[1] <= rid /\ rid < range[2]
FieldDefOwner(img, rid) == First({i \in DOMAIN img.typeDefs : Inside(TypeDefFieldRange(img, i), rid)})
MethodDefOwner(img, rid) == First({i \in DOMAIN img.typeDefs : Inside(TypeDefMethodRange(img, i), rid)})
\* The last row of each: a getter's bit is 2, a setter's 1.
PropertyAccessors(img, rid) ==
    LET rows(bits) == {i \in DOMAIN img.semantics : img.semantics[i].Association = <<"Property", rid>>
                                                     /\ img.semantics[i].Semantics \in bits}
        last(is) == IF is = {} THEN 0 ELSE img.semantics[CHOOSE i \in is : \A j \in is : i >= j].Method
    IN <<last(rows({2, 3})), last(rows({1}))>>
EnclosingClass(img, rid) ==
    LET i == First({k \in DOMAIN img.nested : img.nested[k][1] = rid}) IN IF i = 0 THEN 0 ELSE img.nested[i][2]
InterfaceImpls(img, rid) ==
    LET mine(r) == r[1] = rid IN [i \in DOMAIN SelectSeq(img.interfaces, mine) |-> SelectSeq(img.interfaces, mine)[i][2]]
RECURSIVE typeDefMatchesPath(_, _, _, _)
typeDefMatchesPath(img, rid, namespace, parts) ==
    LET enclosing == EnclosingClass(img, rid)
    IN IF enclosing = 0 THEN Len(parts) = 1 /\ img.typeDefs[rid].Namespace = namespace
       ELSE /\ Len(parts) >= 2 /\ img.typeDefs[enclosing].Name = parts[Len(parts) - 1]
            /\ typeDefMatchesPath(img, enclosing, namespace, SubSeq(parts, 1, Len(parts) - 1))
FindTypeDef(img, namespace, parts) ==
    First({i \in DOMAIN img.typeDefs : /\ img.typeDefs[i].Name = parts[Len(parts)]
                                      /\ typeDefMatchesPath(img, i, namespace, parts)})
FindMethodDefCandidates(img, rid, name) ==
    LET range == TypeDefMethodRange(img, rid) IN {m \in range[1]..(range[2] - 1) : img.methods[m].Name = name}
\* The literal fields with a constant, in order.
EnumMembers(img, rid) ==
    LET range == TypeDefFieldRange(img, rid)
        constantOf(f) == First({c \in DOMAIN img.constants : img.constants[c].Parent = <<"Field", f>>})
        named == SelectSeq([i \in 1..(range[2] - range[1]) |-> range[1] + i - 1],
                           LAMBDA f : img.fields[f].literal /\ constantOf(f) # 0)
    IN [i \in DOMAIN named |->
           <<img.fields[named[i]].Name, img.constants[constantOf(named[i])].Value>>]

\* Rows: the cells by column, the indices looked up in their heap.
Text(cell) == <<"#Strings", cell>>
Bytes(cell) == <<"#Blob", cell>>
Token(kind, cell) == decodeCodedIndex(kind, cell)
Property(c) == [Flags |-> c[1], Name |-> Text(c[2]), Type |-> Bytes(c[3])]
Module(c) == [Name |-> Text(c[2])]
TypeRef(c) == [ResolutionScope |-> Token("ResolutionScope", c[1]), Name |-> Text(c[2]), Namespace |-> Text(c[3])]
TypeDef(c) == [Flags |-> c[1], Name |-> Text(c[2]), Namespace |-> Text(c[3]), Extends |-> Token("TypeDefOrRef", c[4]),
               FieldList |-> c[5], MethodList |-> c[6]]
Field(c) == [Flags |-> c[1], Name |-> Text(c[2]), Signature |-> Bytes(c[3])]
MethodDef(c) == [RVA |-> c[1], ImplFlags |-> c[2], Flags |-> c[3], Name |-> Text(c[4]), Signature |-> Bytes(c[5]), ParamList |-> c[6]]
Param(c) == [Flags |-> c[1], Sequence |-> c[2], Name |-> Text(c[3])]
MemberRef(c) == [Class |-> Token("MemberRefParent", c[1]), Name |-> Text(c[2]), Signature |-> Bytes(c[3])]
ConstantRow(c) == [Type |-> c[1], Parent |-> Token("HasConstant", c[2]), Value |-> Bytes(c[3])]
ManifestResource(c) == [Offset |-> c[1], Flags |-> c[2], Name |-> Text(c[3]), Implementation |-> Token("Implementation", c[4])]
TypeSpec(c) == [Signature |-> Bytes(c[1])]
MethodSpec(c) == [Method |-> Token("MethodDefOrRef", c[1]), Instantiation |-> Bytes(c[2])]
StandAloneSig(c) == [Signature |-> Bytes(c[1])]
Versioned(c, from) == [MajorVersion |-> c[from], MinorVersion |-> c[from + 1], BuildNumber |-> c[from + 2], RevisionNumber |-> c[from + 3]]
Assembly(c) == Versioned(c, 2) @@ [HashAlgId |-> c[1], Flags |-> c[6], PublicKey |-> Bytes(c[7]), Name |-> Text(c[8]), Culture |-> Text(c[9])]
AssemblyRef(c) == Versioned(c, 1) @@ [Flags |-> c[5], PublicKeyOrToken |-> Bytes(c[6]), Name |-> Text(c[7]), Culture |-> Text(c[8]),
                                      HashValue |-> Bytes(c[9])]
CustomAttributeRow(c) == [Parent |-> Token("HasCustomAttribute", c[1]), Ctor |-> Token("CustomAttributeType", c[2]), Value |-> Bytes(c[3])]
MethodImplRow(c) == [MethodBody |-> Token("MethodDefOrRef", c[2]), MethodDeclaration |-> Token("MethodDefOrRef", c[3])]
ReadRow(table, c) ==
    CASE table = "Property" -> Property(c) [] table = "Module" -> Module(c) [] table = "TypeRef" -> TypeRef(c)
      [] table = "TypeDef" -> TypeDef(c) [] table = "Field" -> Field(c) [] table = "MethodDef" -> MethodDef(c)
      [] table = "Param" -> Param(c) [] table = "MemberRef" -> MemberRef(c) [] table = "Constant" -> ConstantRow(c)
      [] table = "ManifestResource" -> ManifestResource(c) [] table = "TypeSpec" -> TypeSpec(c) [] table = "MethodSpec" -> MethodSpec(c)
      [] table = "StandAloneSig" -> StandAloneSig(c) [] table = "Assembly" -> Assembly(c) [] table = "AssemblyRef" -> AssemblyRef(c)
      [] table = "CustomAttribute" -> CustomAttributeRow(c) [] table = "MethodImpl" -> MethodImplRow(c)
\* The columns' names (II.22).
ColumnNames ==
    [Property |-> <<"Flags", "Name", "Type">>, Module |-> <<"Generation", "Name", "Mvid", "EncId", "EncBaseId">>,
     TypeRef |-> <<"ResolutionScope", "Name", "Namespace">>,
     TypeDef |-> <<"Flags", "Name", "Namespace", "Extends", "FieldList", "MethodList">>, Field |-> <<"Flags", "Name", "Signature">>,
     MethodDef |-> <<"RVA", "ImplFlags", "Flags", "Name", "Signature", "ParamList">>, Param |-> <<"Flags", "Sequence", "Name">>,
     MemberRef |-> <<"Class", "Name", "Signature">>, Constant |-> <<"Type", "Parent", "Value">>,
     ManifestResource |-> <<"Offset", "Flags", "Name", "Implementation">>, TypeSpec |-> <<"Signature">>,
     MethodSpec |-> <<"Method", "Instantiation">>, StandAloneSig |-> <<"Signature">>,
     Assembly |-> <<"HashAlgId", "MajorVersion", "MinorVersion", "BuildNumber", "RevisionNumber", "Flags", "PublicKey", "Name", "Culture">>,
     AssemblyRef |-> <<"MajorVersion", "MinorVersion", "BuildNumber", "RevisionNumber", "Flags", "PublicKeyOrToken", "Name", "Culture", "HashValue">>,
     CustomAttribute |-> <<"Parent", "Ctor", "Value">>, MethodImpl |-> <<"Class", "MethodBody", "MethodDeclaration">>]
RowStandard(table, c, r) ==
    \A i \in DOMAIN c : ColumnNames[table][i] \in DOMAIN r =>
        LET column == tableSchemas[table][i]
        IN r[ColumnNames[table][i]] = IF column \in Heaps THEN <<column, c[i]>>
                                      ELSE IF column \in DOMAIN TagBits THEN Token(column, c[i]) ELSE c[i]

\* A program: a sequence of types [Namespace, Name, enclosing, fields, methods,
\* properties, interfaces]; a compiler numbers what is in them, type by type.
\* A field is [Name, value], value 0 of one without a constant; a method
\* [Name, params]; a property [Name, get, set] with accessors among the type's methods.
Flat(prog, Of(_)) ==
    LET upTo[i \in 0..Len(prog)] == IF i = 0 THEN <<>> ELSE upTo[i - 1] \o Of(prog[i]) IN upTo[Len(prog)]
CountBefore(prog, i, Of(_)) == Len(Flat(SubSeq(prog, 1, i - 1), Of))
FieldsOf(t) == t.fields
MethodsOf(t) == t.methods
PropertiesOf(t) == t.properties
Number(prog, i, k, Of(_)) == CountBefore(prog, i, Of) + k
Indexed(prog, Of(_)) == Flat([i \in DOMAIN prog |-> [k \in DOMAIN Of(prog[i]) |-> <<i, Of(prog[i])[k], k>>]], LAMBDA x : x)
Compile(prog) ==
    LET methods == Flat(prog, MethodsOf)
        fields == Flat(prog, FieldsOf)
        owners == SelectSeq([i \in DOMAIN prog |-> i], LAMBDA i : prog[i].properties # <<>>)
        inner == SelectSeq([i \in DOMAIN prog |-> i], LAMBDA i : prog[i].enclosing # 0)
        props == Indexed(prog, PropertiesOf)
        accessors == Flat([k \in DOMAIN props |->
                              LET entry(bits, m) == [Semantics |-> bits, Method |-> Number(prog, props[k][1], m, MethodsOf),
                                                     Association |-> <<"Property", k>>]
                              IN (IF props[k][2].set = 0 THEN <<>> ELSE <<entry(1, props[k][2].set)>>)
                                 \o (IF props[k][2].get = 0 THEN <<>> ELSE <<entry(2, props[k][2].get)>>)], LAMBDA x : x)
        literals == SelectSeq([f \in DOMAIN fields |-> f], LAMBDA f : fields[f].value # 0)
    IN [typeDefs |-> [i \in DOMAIN prog |->
                         [Name |-> prog[i].Name, Namespace |-> prog[i].Namespace,
                          FieldList |-> Number(prog, i, 1, FieldsOf), MethodList |-> Number(prog, i, 1, MethodsOf)]],
        fields |-> [f \in DOMAIN fields |-> [Name |-> fields[f].Name, literal |-> fields[f].value # 0]],
        methods |-> [m \in DOMAIN methods |->
                        [Name |-> methods[m].Name, ParamList |-> 1 + Total([k \in 1..(m - 1) |-> methods[k].params])]],
        params |-> [k \in 1..Total([m \in DOMAIN methods |-> methods[m].params]) |-> k],
        properties |-> [k \in DOMAIN props |-> props[k][2].Name],
        propertyMap |-> [k \in DOMAIN owners |-> [Parent |-> owners[k], PropertyList |-> Number(prog, owners[k], 1, PropertiesOf)]],
        semantics |-> accessors,
        nested |-> [k \in DOMAIN inner |-> <<inner[k], prog[inner[k]].enclosing>>],
        interfaces |-> Flat([i \in DOMAIN prog |-> [k \in DOMAIN prog[i].interfaces |-> <<i, prog[i].interfaces[k]>>]], LAMBDA x : x),
        constants |-> [k \in DOMAIN literals |-> [Parent |-> <<"Field", literals[k]>>, Value |-> fields[literals[k]].value]]]
RECURSIVE PathOf(_, _)
PathOf(prog, i) ==
    IF prog[i].enclosing = 0 THEN [namespace |-> prog[i].Namespace, parts |-> <<prog[i].Name>>]
    ELSE LET outer == PathOf(prog, prog[i].enclosing) IN [outer EXCEPT !.parts = Append(@, prog[i].Name)]
\* Everything the image says of type i, and what the program says.
Found(img, path, i, names) ==
    LET properties == TypeDefPropertyRange(img, i)
        methods == TypeDefMethodRange(img, i)
        fields == TypeDefFieldRange(img, i)
    IN [type |-> FindTypeDef(img, path.namespace, path.parts),
        owned |-> <<{f \in DOMAIN img.fields : FieldDefOwner(img, f) = i}, {m \in DOMAIN img.methods : MethodDefOwner(img, m) = i}>>,
        overloads |-> [n \in names |-> FindMethodDefCandidates(img, i, n)],
        params |-> [k \in 1..(methods[2] - methods[1]) |->
                       LET r == MethodDefParamRange(img, methods[1] + k - 1) IN r[2] - r[1]],
        accessors |-> [k \in 1..(properties[2] - properties[1]) |->
                          LET a == PropertyAccessors(img, properties[1] + k - 1)
                          IN <<img.properties[properties[1] + k - 1], IF a[1] = 0 THEN "" ELSE img.methods[a[1]].Name,
                               IF a[2] = 0 THEN "" ELSE img.methods[a[2]].Name>>],
        enclosing |-> EnclosingClass(img, i), interfaces |-> InterfaceImpls(img, i), members |-> EnumMembers(img, i)]
Meant(prog, i, names) ==
    LET t == prog[i]
        method(k) == IF k = 0 THEN "" ELSE t.methods[k].Name
        literals == SelectSeq(t.fields, LAMBDA f : f.value # 0)
    IN [type |-> i,
        owned |-> <<{Number(prog, i, k, FieldsOf) : k \in DOMAIN t.fields}, {Number(prog, i, k, MethodsOf) : k \in DOMAIN t.methods}>>,
        overloads |-> [n \in names |-> {Number(prog, i, k, MethodsOf) : k \in {j \in DOMAIN t.methods : t.methods[j].Name = n}}],
        params |-> [k \in DOMAIN t.methods |-> t.methods[k].params],
        accessors |-> [k \in DOMAIN t.properties |->
                          <<t.properties[k].Name, method(t.properties[k].get), method(t.properties[k].set)>>],
        enclosing |-> t.enclosing, interfaces |-> t.interfaces,
        members |-> [k \in DOMAIN literals |-> <<literals[k].Name, literals[k].value>>]]

-----------------------------------------------------------------------------
\* Tasks.

Boundaries == {0, 2, 65535, 65536} \cup UNION {{2^(16 - TagBits[k]) - 1, 2^(16 - TagBits[k])} : k \in DOMAIN TagBits}
Section(at, virtual, raw, pointer) == [VirtualAddress |-> at, VirtualSize |-> virtual, SizeOfRawData |-> raw, PointerToRawData |-> pointer]
Leaf == {BareType("I4"), BareType("string"), SigType("class", <<"TypeRef", 2>>, 0, <<>>), SigType("valuetype", <<"TypeDef", 17>>, 0, <<>>),
         SigType("var", NoToken, 0, <<>>), SigType("mvar", NoToken, 9, <<>>)}
Nest(types) == {SigType(k, NoToken, 0, <<t>>) : k \in {"szarray", "pointer", "byref", "array"}, t \in types}
               \cup {SigType("modified", <<"TypeRef", 1>>, 0, <<t>>) : t \in types}
               \cup {SigType(k, <<"TypeSpec", 1>>, 0, <<t, u>>) : k \in {"geninst class", "geninst valuetype"}, t \in types, u \in Leaf}
SigsOf(of) ==
    LET types == Leaf \cup Nest(Leaf)
    IN CASE of = "method" -> {Sig(this, g, <<r, p>>) : this \in BOOLEAN, g \in {0, 1, 20}, r \in Leaf \cup {BareType("void")}, p \in types}
                             \cup {Sig(TRUE, 0, <<p>>) : p \in types}
         [] of \in {"field", "typespec"} -> {Sig(FALSE, 0, <<t>>) : t \in types \cup Nest(types)}
         [] of = "methodspec" -> {Sig(FALSE, 0, <<t, u>>) : t \in types, u \in Leaf}
         [] of = "locals" -> {Sig(FALSE, 0, <<>>)} \cup {Sig(FALSE, 0, <<t, SigType("pinned", NoToken, 0, <<u>>), t>>) : t \in Leaf, u \in types}
NumbersOf(kind) ==
    LET bits == IF Byte = 16 THEN 4 * Size[kind] ELSE 8 * Size[kind]
    IN IF kind = "bool" THEN {0, 1}
       ELSE IF kind \in {"char", "U1", "U2", "U4"} THEN {0, 1, 2^(bits - 1) - 1, 2^(bits - 1), 2^bits - 1}
       ELSE {0, 1, -1, 2^(bits - 2), -(2^(bits - 2)) - 1}
Arguments == UNION {{Arg(k, n, <<>>, Size[k]) : n \in NumbersOf(k)} : k \in {"bool", "char", "I1", "U1", "I2", "U2", "I4", "U4", "I8"}}
             \cup {Arg("R8", 0, <<1, 2, 3, 4, 5, 6, 7, 8>>, 8), Arg("null string", 0, <<>>, 1), Arg("string", 0, <<>>, 1),
                   Arg("string", 0, <<5, 6>>, 3), Arg("string", 0, [i \in 1..9 |-> i], 11)}
Shape(Namespace, Name, enclosing, fields, methods, properties, interfaces) ==
    [Namespace |-> Namespace, Name |-> Name, enclosing |-> enclosing, fields |-> fields, methods |-> methods,
     properties |-> properties, interfaces |-> interfaces]
Fields == {<<>>, <<[Name |-> "f", value |-> 0]>>, <<[Name |-> "f", value |-> 0], [Name |-> "g", value |-> 7], [Name |-> "h", value |-> 9]>>}
Members == {<<<<>>, <<>>>>,
            <<<<[Name |-> "m", params |-> 2], [Name |-> "m", params |-> 0]>>, <<>>>>,
            <<<<[Name |-> "get", params |-> 0], [Name |-> "m", params |-> 1], [Name |-> "set", params |-> 1]>>,
              <<[Name |-> "P", get |-> 1, set |-> 3], [Name |-> "R", get |-> 0, set |-> 3]>>>>}
\* Cut drops so many bytes at the end.
Task(of, what) == [of |-> of, what |-> what]
IsMetadataTask(t) ==
    \/ \E table \in DOMAIN tableSchemas, n \in Boundaries, other \in {0, 1} :
          t = Task("layout", <<table, n, other, IF other = 0 THEN Heaps ELSE {}>>)
    \/ \E wide \in SUBSET Heaps, table \in {"Module", "Field"} : t = Task("layout", <<table, 2, 1, wide>>)
    \/ \E kind \in DOMAIN TagBits, raw \in 0..100 : t = Task("token", <<kind, raw>>)
    \/ \E table \in DOMAIN ColumnNames, k \in 0..7 :
          t = Task("row", <<table, [i \in DOMAIN ColumnNames[table] |-> 8 * i + k]>>)
    \/ \E rva \in 0..40, virtual \in {3, 8}, raw \in {4, 8}, optional \in {0, 100, 215, 216, 224}, metaSize \in {0, 4, 9} :
          t = Task("section", [sections |-> <<Section(8, virtual, raw, 100), Section(16, raw, virtual, 108), Section(24, 8, 8, 116)>>,
                               cli |-> 24, meta |-> rva, metaSize |-> metaSize, optional |-> optional, magic |-> "PE32", length |-> 200])
    \/ \E heap \in {"#Strings", "#GUID", "#Blob", "#US"} :
          \E n \in (IF heap = "#GUID" THEN {16} ELSE {0, 1, 3, 4, 7, 8, 31, 32}), m \in (IF heap = "#GUID" THEN {16} ELSE {0, 2, 9}), cut \in 0..2 :
          t = Task("heap", <<heap, [i \in 1..n |-> 1 + (i % 13)], [i \in 1..m |-> 2 + (i % 11)], cut>>)
    \/ \E of \in {"method", "field", "typespec", "methodspec", "locals"}, cut \in 0..1 : \E sig \in SigsOf(of) :
          t = Task("signature", <<of, sig, cut>>)
    \/ \E kind \in {"bool", "I1", "U1", "I2", "U2", "I4", "U4", "I8"}, cut \in 0..1 : \E n \in NumbersOf(kind) :
          t = Task("constant", <<kind, n, cut>>)
    \/ \E a, b \in Arguments, cut \in 0..1 : t = Task("attribute", <<a, b, cut>>)
    \/ \E f, g \in Fields, m, n \in Members, o \in {0, 1}, i \in 1..3 :
          t = Task("members", <<<<Shape("N", "A", 0, f, m[1], <<>>, <<"I">>), Shape(IF o = 0 THEN "N" ELSE "", "B", o, g, n[1], n[2], <<"I", "J">>),
                                  Shape("", "A", 2, f, m[1], m[2], <<>>)>>, i>>)

Short(b, n) == SubSeq(b, 1, Len(b) - n)
WrittenConstant(kind, n) == NumberBytes(n, Size[kind])
RowCounts(w) == [t \in DOMAIN tableSchemas |-> IF t = w[1] THEN w[2] ELSE w[3]]
HeapOf(w) == <<0>> \o Entry(w[1], w[2]) \o Entry(w[1], w[3])
GUIDs(w) == Entry(w[1], w[2]) \o Entry(w[1], w[3])
MemberNames == {"m", "get", "none"}
Kind(arg) == IF arg.kind = "null string" THEN "string" ELSE arg.kind
\* Two named arguments' bytes follow the fixed ones, or none do.
AttributeBlob(w) == <<1, 0>> \o WriteArg(w[1]) \o WriteArg(w[2])
RunMetadata(t) ==
    LET w == t.what
    IN CASE t.of = "layout" -> parseTables(RowCounts(w), w[4])
         [] t.of = "token" -> decodeCodedIndex(w[1], w[2])
         [] t.of = "section" -> PEParse(w)
         [] t.of = "heap" ->
              (IF w[1] = "#GUID" THEN LET b == Short(GUIDs(w), w[4]) IN <<GUIDHeap(b, 0), GUIDHeap(b, 1), GUIDHeap(b, 2)>>
               ELSE LET b == Short(HeapOf(w), w[4])
                    IN <<ReadEntry(w[1], b, 0), ReadEntry(w[1], b, 1), ReadEntry(w[1], b, 1 + Len(Entry(w[1], w[2])))>>)
         [] t.of = "signature" -> ParseSig(w[1], Short(WriteSig(w[1], w[2]), w[3]))
         [] t.of = "constant" -> ConstantForField(w[1], Short(WrittenConstant(w[1], w[2]), w[3]))
         [] t.of = "attribute" -> DecodeCustomAttributeArgs(<<Kind(w[1]), Kind(w[2])>>, Short(AttributeBlob(w), w[3]))
         [] t.of = "row" -> ReadRow(w[1], w[2])
         [] t.of = "members" -> Found(Compile(w[1]), PathOf(w[1], w[2]), w[2], MemberNames)

LayoutStandard(w, r) ==
    LET counts == RowCounts(w)
    IN \A i \in DOMAIN Tables :
         LET columns == tableSchemas[Tables[i]]
             widths == [j \in DOMAIN columns |-> WrittenWidth(columns[j], w[4], counts)]
         IN /\ r[i].widths = widths
            /\ w[4] = {} /\ w[2] <= 2 => Total(widths) = NarrowRows[i]
            /\ i > 1 => r[i].at = r[i - 1].at + counts[Tables[i - 1]] * Total(r[i - 1].widths)
            /\ \A j \in DOMAIN columns \ {1} : \A row \in {1, 2} :
                  col(r[i], row, j).at = col(r[i], row, j - 1).at + col(r[i], row, j - 1).width
            /\ col(r[i], 2, 1).at = col(r[i], 1, Len(columns)).at + col(r[i], 1, Len(columns)).width
TokenStandard(w, r) == r # NoToken => /\ \E i \in DOMAIN codedIndexTargets[w[1]] : codedIndexTargets[w[1]][i] = r[1]
                                                                              /\ w[2] = r[2] * 2^TagBits[w[1]] + i - 1
\* What is read is where the section was put, as far as the file has it.
SectionStandard(w, r) ==
    LET inside == {i \in DOMAIN w.sections :
                      LET s == w.sections[i] IN s.VirtualAddress <= w.meta /\ w.meta < s.VirtualAddress + s.VirtualSize}
    IN /\ r[1] = "ok" => w.optional >= 96 + 8 * 15 /\ r[3] = r[2] + w.metaSize /\ r[3] <= w.length
       /\ r[1] = "ok" => \A i \in inside : r[2] - w.sections[i].PointerToRawData = w.meta - w.sections[i].VirtualAddress
       /\ inside # {} /\ w.metaSize > 0 /\ w.optional >= 216 => r[1] = "ok"
HeapStandard(w, r) ==
    LET whole == Len(Entry(w[1], w[3])) > w[4]
    IN /\ w[1] # "#GUID" => r[1] = <<>>
       /\ r[2] = w[2] \/ ~whole
       /\ w[4] = 0 => r[3] = w[3]
       /\ w[4] > 0 /\ w[1] \in {"#Blob", "#GUID"} => r[3] = NoBytes \/ w[3] = <<>>
SignatureStandard(w, r) ==
    LET kept == [i \in DOMAIN w[2].types |-> Kept(w[2].types[i])]
        readable == \A i \in DOMAIN kept : kept[i] # BareType("error")
    IN r = IF w[3] = 0 /\ readable THEN [w[2] EXCEPT !.types = kept] ELSE NoSig
ConstantStandard(w, r) ==
    IF w[3] > 0 THEN r.is = "error" ELSE r.number = w[2] /\ r.is = (IF w[1] \in {"I8", "U8"} THEN "int64" ELSE "int32")
AttributeStandard(w, r) == r = IF w[3] > 0 THEN <<NoArg>> ELSE <<w[1], w[2]>>
MetadataStandard(t, r) ==
    CASE t.of = "layout" -> LayoutStandard(t.what, r) [] t.of = "token" -> TokenStandard(t.what, r)
      [] t.of = "section" -> SectionStandard(t.what, r) [] t.of = "heap" -> HeapStandard(t.what, r)
      [] t.of = "signature" -> SignatureStandard(t.what, r) [] t.of = "constant" -> ConstantStandard(t.what, r)
      [] t.of = "attribute" -> AttributeStandard(t.what, r)
      [] t.of = "row" -> RowStandard(t.what[1], t.what[2], r)
      [] t.of = "members" -> r = Meant(t.what[1], t.what[2], MemberNames)
=============================================================================
