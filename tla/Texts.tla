-------------------------------- MODULE Texts --------------------------------
(***************************************************************************)
(* Strings, StringBuilder, Span and arrays (bcl/system_string.go,          *)
(* system_stringbuilder.go, system_span.go, system_array.go).  A text is   *)
(* the sequence of its code points: the code counts positions in runes.    *)
(* Positions start at 0, as in the code.  "plain" is a Go error.           *)
(*                                                                         *)
(* TextStandard(t, r) relates an answer to the arguments, and operations   *)
(* to each other, in the way a program relies on them.                     *)
(***************************************************************************)
EXTENDS Integers, Sequences, SequencesExt, FiniteSets

CONSTANTS MaxFormatAlignment,
          Width  \* hexadecimal digits of an "I4" and of an "I8"

Answer(v) == [out |-> "value", val |-> v]
Raised(name) == [out |-> name, val |-> <<>>]
OutOfRange == Raised("ArgumentOutOfRange")
Plain == Raised("plain")
Rest == -99   \* of an optional argument that is not given
Lowest(S) == CHOOSE i \in S : \A j \in S : i <= j
Highest(S) == CHOOSE i \in S : \A j \in S : i >= j
Part(s, start, end) == SubSeq(s, start + 1, end)

-----------------------------------------------------------------------------
\* Characters.

Blank == 32
Surrogate == 55357     \* a char that is half of a pair
Replacement == 65533
string(c) == <<IF c = Surrogate THEN Replacement ELSE c>>
IsSpace(c) == c \in {9, 10, 13, 32, 160}
IsAsciiSpace(c) == c \in {9, 10, 13, 32}
Lower(s) == [i \in DOMAIN s |-> IF s[i] \in 65..90 THEN s[i] + 32 ELSE s[i]]
Upper(s) == [i \in DOMAIN s |-> IF s[i] \in 97..122 THEN s[i] - 32 ELSE s[i]]

-----------------------------------------------------------------------------
\* Strings.

\* The places from start to the end the caller asks for; a missing count is
\* all that is left.
Slice(s, start, count) ==
    LET end == IF count = Rest THEN Len(s) ELSE start + count
    IN [fits |-> 0 <= start /\ start <= end /\ end <= Len(s), end |-> end]

stringSubstring(s, start, count) ==
    IF Slice(s, start, count).fits THEN Answer(Part(s, start, Slice(s, start, count).end)) ELSE OutOfRange
stringRemove(s, start, count) ==
    IF Slice(s, start, count).fits
    THEN Answer(Part(s, 0, start) \o Part(s, Slice(s, start, count).end, Len(s))) ELSE OutOfRange
stringInsert(s, start, t) ==
    IF start \in 0..Len(s) THEN Answer(Part(s, 0, start) \o t \o Part(s, start, Len(s))) ELSE OutOfRange
stringGetChars(s, i) == IF i \in 0..(Len(s) - 1) THEN Answer(s[i + 1]) ELSE Raised("IndexOutOfRange")

At(s, t, i) == Part(s, i, i + Len(t)) = t
PlacesFrom(s, t, start) == {i \in start..(Len(s) - Len(t)) : At(s, t, i)}
\* An integer third argument is a start, also when it is a StringComparison.
stringIndexOf(s, t, start) ==
    IF start \notin 0..Len(s) THEN OutOfRange
    ELSE Answer(IF PlacesFrom(s, t, start) = {} THEN -1 ELSE Lowest(PlacesFrom(s, t, start)))
stringLastIndexOf(s, t) == Answer(IF PlacesFrom(s, t, 0) = {} THEN -1 ELSE Highest(PlacesFrom(s, t, 0)))
stringContains(s, t) == PlacesFrom(s, t, 0) # {}
stringStartsWith(s, t) == IsPrefix(t, s)
stringEndsWith(s, t) == IsSuffix(t, s)

\* strings.ReplaceAll: an empty old is found around every character.
stringReplace(s, old, new) ==
    LET from[i \in 0..Len(s)] ==
            IF old = <<>> THEN new \o (IF i = Len(s) THEN <<>> ELSE <<s[i + 1]>> \o from[i + 1])
            ELSE IF i + Len(old) <= Len(s) /\ At(s, old, i) THEN new \o from[i + Len(old)]
            ELSE IF i = Len(s) THEN <<>> ELSE <<s[i + 1]>> \o from[i + 1]
    IN Answer(from[0])

\* cutset <<>> means blanks: all of Unicode's to Trim, ASCII's to the others.
Trimmed(s, Cut(_), atStart, atEnd) ==
    LET kept == {i \in DOMAIN s : ~Cut(s[i])}
        first == IF atStart THEN (IF kept = {} THEN Len(s) + 1 ELSE Lowest(kept)) ELSE 1
        last == IF atEnd THEN (IF kept = {} THEN first - 1 ELSE Highest(kept)) ELSE Len(s)
    IN SubSeq(s, first, last)
stringTrim(s, cutset) == Answer(Trimmed(s, LAMBDA c : IF cutset = <<>> THEN IsSpace(c) ELSE Contains(cutset, c), TRUE, TRUE))
trimCutset(cutset, c) == IF cutset = <<>> THEN IsAsciiSpace(c) ELSE Contains(cutset, c)
stringTrimStart(s, cutset) == Answer(Trimmed(s, LAMBDA c : trimCutset(cutset, c), TRUE, FALSE))
stringTrimEnd(s, cutset) == Answer(Trimmed(s, LAMBDA c : trimCutset(cutset, c), FALSE, TRUE))

\* The fill character is cut to a byte.
Fill(s, width, c) == IF Len(s) >= width THEN <<>> ELSE [i \in 1..(width - Len(s)) |-> c % 256]
stringPadLeft(s, width, c) == Answer(Fill(s, width, c) \o s)
stringPadRight(s, width, c) == Answer(s \o Fill(s, width, c))

\* A separator of several characters separates nothing; with none, blanks do.
stringSplit(s, seps, removeEmpty) ==
    LET given == {string(p[1]) : p \in {q \in seps : Len(q) = 1}} \cup {q \in seps : Len(q) > 1}
        isSep(c) == IF given = {} THEN IsSpace(c) ELSE <<c>> \in given
        at == {i \in DOMAIN s : isSep(s[i])}
        ends == SetToSortSeq(at, <) \o <<Len(s) + 1>>
        parts == [k \in DOMAIN ends |-> SubSeq(s, IF k = 1 THEN 1 ELSE ends[k - 1] + 1, ends[k] - 1)]
    IN Answer(IF removeEmpty THEN SelectSeq(parts, LAMBDA p : p # <<>>) ELSE parts)

\* The order of code points, which UTF-8 keeps.
stringCompare(a, b, ignoreCase) ==
    LET x == IF ignoreCase THEN Lower(a) ELSE a
        y == IF ignoreCase THEN Lower(b) ELSE b
        differ == {i \in DOMAIN x \cap DOMAIN y : x[i] # y[i]}
    IN IF differ # {} THEN (IF x[Lowest(differ)] < y[Lowest(differ)] THEN -1 ELSE 1)
       ELSE IF Len(x) < Len(y) THEN -1 ELSE IF Len(x) > Len(y) THEN 1 ELSE 0
\* comparison is the number of the StringComparison.
stringEquals(a, b, comparison) == IF comparison \in {1, 3, 5} THEN Lower(a) = Lower(b) ELSE a = b

NewStringFromCtor(chars, start, count) ==
    LET n == IF count = Rest THEN Len(chars) ELSE count
        runes == [i \in DOMAIN chars |-> string(chars[i])[1]]
    IN IF start < 0 \/ n < 0 \/ start + n > Len(chars) THEN OutOfRange ELSE Answer(Part(runes, start, start + n))
NewStringRepeat(c, count) == IF count < 0 THEN OutOfRange ELSE Answer([i \in 1..count |-> string(c)[1]])

-----------------------------------------------------------------------------
\* Composite formats.  A value is a text or a number, and a number's texts are
\* decimal and hexadecimal.

Number(kind, n) == [kind |-> kind, n |-> n, text |-> <<>>]
Text(s) == [kind |-> "String", n |-> 0, text |-> s]
DigitsOf(n, base) ==
    LET up[k \in 0..n] == IF k < base THEN <<k>> ELSE up[k \div base] \o <<k % base>> IN up[n]
Numerals(ds) == [i \in DOMAIN ds |-> IF ds[i] < 10 THEN 48 + ds[i] ELSE 55 + ds[i]]
Magnitude(n) == IF n < 0 THEN -n ELSE n
ZerosBefore(s, least) == [i \in 1..(IF Len(s) < least THEN least - Len(s) ELSE 0) |-> 48] \o s
Minus(n, s) == IF n < 0 THEN <<45>> \o s ELSE s
displayString(v) == IF v.kind = "String" THEN v.text ELSE Minus(v.n, Numerals(DigitsOf(Magnitude(v.n), 10)))

\* A comma before every third digit from the right.
groupThousands(digits) ==
    LET from[i \in 1..(Len(digits) + 1)] ==
            IF i > Len(digits) THEN <<>>
            ELSE (IF i > 1 /\ (Len(digits) - i + 1) % 3 = 0 THEN <<44>> ELSE <<>>) \o <<digits[i]>> \o from[i + 1]
    IN from[1]
Zeros(n) == [i \in 1..n |-> 48]
Fraction(n) == IF n = 0 THEN <<>> ELSE <<46>> \o Zeros(n)

\* The bit pattern has the width of the number's kind.
ToHex(v) == Numerals(DigitsOf(IF v.n < 0 THEN 16^Width[v.kind] + v.n ELSE v.n, 16))
\* spec is <<letter, precision>>, the precision -1 if there is none.
formatValue(v, spec) ==
    LET digits(n) == Numerals(DigitsOf(Magnitude(n), 10))
        decimals == Fraction(IF spec[2] < 0 THEN 2 ELSE spec[2])
    IN IF spec = <<>> \/ spec[1] = "G" THEN Answer(displayString(v))
       ELSE IF v.kind = "String" THEN Plain
       ELSE CASE spec[1] = "D" -> Answer(Minus(v.n, ZerosBefore(digits(v.n), spec[2])))
              [] spec[1] = "F" -> Answer(Minus(v.n, digits(v.n) \o decimals))
              [] spec[1] = "N" -> Answer(Minus(v.n, groupThousands(digits(v.n)) \o decimals))
              [] spec[1] = "C" -> Answer(Minus(v.n, <<36>> \o groupThousands(digits(v.n)) \o decimals))
              [] spec[1] = "P" -> Answer(Minus(v.n, groupThousands(digits(100 * v.n)) \o decimals \o <<37>>))
              [] spec[1] = "X" -> Answer(ZerosBefore(ToHex(v), spec[2]))
              [] OTHER -> Plain
\* A custom format: the digits it asks for, whether it has a comma, the places
\* behind the point (0 or #), whether it is a percentage.
formatCustomNumeric(v, least, grouped, places, percent) ==
    LET digits == ZerosBefore(Numerals(DigitsOf(Magnitude(IF percent THEN 100 * v.n ELSE v.n), 10)), least)
    IN IF v.kind = "String" THEN Plain
       ELSE Answer(Minus(v.n, (IF grouped THEN groupThousands(digits) ELSE digits) \o Fraction(Len(places))
                              \o (IF percent THEN <<37>> ELSE <<>>)))

\* What is between braces: [index, alignment, spec].
formatSpec(item, values) ==
    LET shown == formatValue(values[item.index + 1], item.spec)
        pad == Zeros(Magnitude(item.alignment) - Len(shown.val))
        blanks == [i \in DOMAIN pad |-> Blank]
    IN IF Magnitude(item.alignment) > MaxFormatAlignment \/ item.index \notin 0..(Len(values) - 1) THEN Plain
       ELSE IF shown.out # "value" THEN shown
       ELSE Answer(IF item.alignment < 0 THEN shown.val \o blanks ELSE blanks \o shown.val)
\* A format is a sequence of code points and of items, which are the texts
\* between a { and the next }.
formatComposite(format, values) ==
    LET open == 123
        close == 125
        is(i, c) == i <= Len(format) /\ format[i] = Number("I4", c)
        then(s, more) == IF more.out = "value" THEN Answer(s \o more.val) ELSE more
        from[i \in 1..(Len(format) + 2)] ==
            IF i > Len(format) THEN Answer(<<>>)
            ELSE IF is(i, open) THEN (IF is(i + 1, open) THEN then(<<open>>, from[i + 2])
                                      ELSE IF i + 2 <= Len(format) /\ format[i + 1].kind = "item" /\ is(i + 2, close)
                                      THEN LET piece == formatSpec(format[i + 1], values)
                                           IN IF piece.out = "value" THEN then(piece.val, from[i + 3]) ELSE piece
                                      ELSE Plain)
            ELSE IF is(i, close) THEN (IF is(i + 1, close) THEN then(<<close>>, from[i + 2]) ELSE Plain)
            ELSE IF format[i].kind = "item" THEN Plain
            ELSE then(<<format[i].n>>, from[i + 1])
    IN from[1]


-----------------------------------------------------------------------------
\* StringBuilder: its text, and an operation's text or failure.

Within(s, start, count) == IF count < 0 THEN OutOfRange ELSE stringSubstring(s, start, count)
sbAppend(b, s, start, count) ==
    IF Within(s, start, count).out = "value" THEN Answer(b \o Within(s, start, count).val) ELSE OutOfRange
sbInsert(b, i, s) == stringInsert(b, i, s)
sbAppendFormat(b, format, values) ==
    LET out == formatComposite(format, values) IN IF out.out = "value" THEN Answer(b \o out.val) ELSE out
sbToString(b, start, count) == Within(b, start, count)
sbGetChars(b, i) == IF i \in 0..(Len(b) - 1) THEN Answer(b[i + 1]) ELSE OutOfRange
\* It grows with zeros.
sbSetLength(b, n) ==
    IF n < 0 THEN OutOfRange ELSE Answer([i \in 1..n |-> IF i <= Len(b) THEN b[i] ELSE 0])
sbSetCapacity(b, n) == IF n < Len(b) THEN OutOfRange ELSE Answer(b)

-----------------------------------------------------------------------------
\* Arrays: mem has the elements of each.  A Span or a Memory is a view of one.

View(of, start, length) == [of |-> of, start |-> start, length |-> length]
\* What three numbers of an array or a view select, checked.
Selects(size, start, length) == start >= 0 /\ length >= 0 /\ start + length <= size
newSpanFrom(mem, of, start, count) ==
    LET length == IF count = Rest THEN Len(mem[of]) - start ELSE count
    IN IF Selects(Len(mem[of]), start, length) THEN Answer(View(of, start, length)) ELSE OutOfRange
\* The constructor takes them as they are.
spanCtorAs(of, start, length) == View(of, start, length)
\* Mutant: the new start is counted in the array.
spanSliceAbsolute(v, start, count) ==
    LET length == IF count = Rest THEN v.length - start ELSE count
    IN IF Selects(v.length, start, length) THEN Answer(View(v.of, start, length)) ELSE OutOfRange
spanSlice(v, start, count) ==
    LET length == IF count = Rest THEN v.length - start ELSE count
    IN IF Selects(v.length, start, length) THEN Answer(View(v.of, v.start + start, length)) ELSE OutOfRange
memoryGetSpan(m) == View(m.of, m.start, m.length)

spanElemAt(mem, v, i) == mem[v.of][v.start + i + 1]
\* The place of the array an index stands for; the array checks it again.
spanGetItem(mem, v, i) ==
    IF i \notin 0..(v.length - 1) THEN Raised("IndexOutOfRange")
    ELSE IF v.start + i \notin 0..(Len(mem[v.of]) - 1) THEN Plain ELSE Answer(v.start + i)
spanToArray(mem, v) ==
    IF v.length = 0 THEN Answer(<<>>)
    ELSE IF Selects(Len(mem[v.of]), v.start, v.length) THEN Answer(Part(mem[v.of], v.start, v.start + v.length)) ELSE Plain
spanContainsElem(mem, v, x) == \E i \in 0..(v.length - 1) : spanElemAt(mem, v, i) = x
memoryExtensionsIndexOf(mem, v, s) ==
    LET all == spanToArray(mem, v).val
    IN IF PlacesFrom(all, s, 0) = {} THEN -1 ELSE Lowest(PlacesFrom(all, s, 0))
memoryExtensionsSequenceEqual(mem, v, w) == spanToArray(mem, v).val = spanToArray(mem, w).val
\* The view without the elements of cut at its ends.
spanTrim(mem, v, cut, atStart, atEnd) ==
    LET kept == {i \in 0..(v.length - 1) : spanElemAt(mem, v, i) \notin cut}
        lo == IF ~atStart THEN 0 ELSE IF kept = {} THEN v.length ELSE Lowest(kept)
        hi == IF ~atEnd THEN v.length ELSE IF kept = {} THEN lo ELSE Highest(kept) + 1
    IN View(v.of, v.start + lo, hi - lo)

\* s over the elements from a place on.
Written(elems, at, s) == [i \in DOMAIN elems |-> IF i - at \in DOMAIN s THEN s[i - at] ELSE elems[i]]
Store(mem, of, at, s) == [mem EXCEPT ![of] = Written(@, at, s)]
spanSetItem(mem, v, i, x) ==
    IF spanGetItem(mem, v, i).out = "value" THEN Answer(Store(mem, v.of, v.start + i, <<x>>)) ELSE spanGetItem(mem, v, i)
spanClear(mem, v) == Store(mem, v.of, v.start, [i \in 1..v.length |-> 0])
\* All of src or nothing; the elements are read before any is written.
spanCopyElements(mem, dst, src) ==
    IF src.length > dst.length THEN [done |-> FALSE, mem |-> mem]
    ELSE [done |-> TRUE, mem |-> Store(mem, dst.of, dst.start, spanToArray(mem, src).val)]
spanCopyTo(mem, src, dst) ==
    LET copy == spanCopyElements(mem, dst, src) IN IF copy.done THEN Answer(copy.mem) ELSE Raised("Argument")
spanTryCopyTo(mem, src, dst) == spanCopyElements(mem, dst, src)

arrayCopy(mem, src, at, dst, to, count) ==
    IF Selects(Len(mem[src]), at, count) /\ Selects(Len(mem[dst]), to, count)
    THEN Answer(Store(mem, dst, to, Part(mem[src], at, at + count))) ELSE OutOfRange
\* It counts elements, not bytes.
bufferBlockCopy(mem, src, at, dst, to, count) ==
    IF count = 0 THEN Answer(mem) ELSE arrayCopy(mem, src, at, dst, to, count)
arrayCopyTo(mem, src, dst, to) == arrayCopy(mem, src, 0, dst, to, Len(mem[src]))
arrayClone(elems) == elems
NoElement == -98   \* null
arrayCreateInstance(n) == IF n < 0 THEN OutOfRange ELSE Answer([i \in 1..n |-> NoElement])
\* New elements are null whatever the type.
arrayResize(elems, n) ==
    IF n < 0 THEN OutOfRange
    ELSE Answer([i \in 1..n |-> IF i <= Len(elems) THEN elems[i] ELSE NoElement])
arrayClear(mem, of, start, count) ==
    IF Selects(Len(mem[of]), start, count) THEN Answer(Store(mem, of, start, [i \in 1..count |-> 0])) ELSE OutOfRange
arrayIndexOf(elems, x, start, count) ==
    LET end == IF count = Rest THEN Len(elems) ELSE start + count
        places == {i \in start..(end - 1) : elems[i + 1] = x}
    IN IF start < 0 \/ end > Len(elems) \/ end < start THEN OutOfRange
       ELSE Answer(IF places = {} THEN -1 ELSE Lowest(places))
arrayGetValue(elems, i) == IF i \in 0..(Len(elems) - 1) THEN Answer(elems[i + 1]) ELSE Raised("IndexOutOfRange")
arraySetValue(elems, i, x) ==
    IF i \in 0..(Len(elems) - 1) THEN Answer(Written(elems, i, <<x>>)) ELSE Raised("IndexOutOfRange")
\* What foreach over an array sees when visit[k] is written into it after its
\* k-th step, as <<place, element>>, or <<>> for no write.
arrayEnumeratorMoveNext(index, elems) == [index |-> index + 1, more |-> index + 1 < Len(elems)]
arrayEnumeratorGetCurrent(index, elems) == IF index \in 0..(Len(elems) - 1) THEN Answer(elems[index + 1]) ELSE Plain
Enumerated(elems, visit) ==
    LET at[k \in 0..Len(elems)] ==
            IF k = 0 THEN [index |-> -1, elems |-> elems, seen |-> <<>>]
            ELSE LET before == at[k - 1]
                     moved == arrayEnumeratorMoveNext(before.index, before.elems)
                     seen == Append(before.seen, arrayEnumeratorGetCurrent(moved.index, before.elems).val)
                 IN [index |-> moved.index, seen |-> seen,
                     elems |-> IF visit[k] = <<>> THEN before.elems ELSE Written(before.elems, visit[k][1], <<visit[k][2]>>)]
    IN at[Len(elems)].seen

-----------------------------------------------------------------------------
\* The tasks.  A StringBuilder and an array are tried by the programs that
\* people write with them: take a part out and put it back, search, split and
\* join, format, shift elements within one array.

Over(chars, n) == UNION {[1..k -> chars] : k \in 0..n}
ab == {97, 98}
Values == <<Number("I4", 26), Text(<<97, 66>>), Number("I4", -3), Number("I8", -3)>>
Item(i, alignment, spec) == [kind |-> "item", index |-> i, alignment |-> alignment, spec |-> spec]
Piece(is, format) == [is |-> is, format |-> format]
InBraces(item) == Piece("item", <<Number("I4", 123), item, Number("I4", 125)>>)
Pieces ==
    {Piece("text", <<Number("I4", 97)>>), Piece("{", <<Number("I4", 123), Number("I4", 123)>>),
     Piece("}", <<Number("I4", 125), Number("I4", 125)>>)}
    \cup {InBraces(Item(i, a, <<>>)) : i \in {0, 1}, a \in {0, 3, -3, 4}}
    \cup {InBraces(Item(i, 0, spec)) : i \in 0..4, spec \in {<<"X", 2>>, <<"D", 3>>, <<"N", 0>>}}
Broken == {Piece("broken", <<Number("I4", 123)>>), Piece("broken", <<Number("I4", 125)>>),
           Piece("broken", <<Number("I4", 123), Item(0, 0, <<>>)>>)}
Numbers == {0, 7, -7, 10, 99, -100, 999, 1000, -1001, 1234}
Mem == [x |-> <<1, 2, 3, 2>>, y |-> <<7, 8>>]
Views == UNION {{View(of, start, n) : n \in 0..(Len(Mem[of]) - start)} : of \in {"x", "y"}, start \in 0..2}
Cuts == {<<start, n>> : start \in -1..4, n \in {Rest} \cup -1..4}

IsTextTask(t) ==
    \/ \E s \in Over(ab, 3), c \in Cuts : t = [op |-> "cut", s |-> s, cut |-> c]
    \/ \E s \in Over(ab, 4), u \in Over(ab, 2), start \in -1..5 : t = [op |-> "find", s |-> s, t |-> u, start |-> start]
    \/ \E s \in Over(ab, 4), old \in Over(ab, 2) \ {<<>>}, new \in Over({97, 99}, 2) :
           t = [op |-> "replace", s |-> s, old |-> old, new |-> new]
    \/ \E s \in Over({97, 98, Blank}, 4), seps \in SUBSET {<<97>>, <<98>>}, remove \in BOOLEAN :
           t = [op |-> "split", s |-> s, seps |-> seps, remove |-> remove]
    \/ \E s \in Over({97, Blank, 160}, 4), cutset \in {<<>>, <<97>>} : t = [op |-> "trim", s |-> s, cutset |-> cutset]
    \/ \E s \in Over(ab, 3), width \in 0..5 : t = [op |-> "pad", s |-> s, width |-> width]
    \/ \E a \in Over({97, 65, 98}, 2), b \in Over({97, 65, 98}, 2), c \in Over({97, 65, 98}, 2), ignore \in BOOLEAN :
           t = [op |-> "order", a |-> a, b |-> b, c |-> c, ignore |-> ignore]
    \/ \E chars \in Over({97, 128512, Surrogate}, 3), c \in {k \in Cuts : k[2] # Rest} : t = [op |-> "make", chars |-> chars, cut |-> c]
    \/ \E ps \in Over(Pieces, 2), last \in {{}} \cup {{b} : b \in Broken} :
           t = [op |-> "format", pieces |-> ps \o SetToSeq(last)]
    \/ \E n \in Numbers, places \in 0..4 : t = [op |-> "digits", v |-> Number("I8", n), places |-> places]
    \/ \E kind \in {"I4", "I8"}, n \in -12..12, places \in 0..5 :
           t = [op |-> "hex", v |-> Number(kind, n), places |-> places]
    \/ \E b \in Over(ab, 3), s \in Over({98, 99}, 1), i \in -1..4, n \in -1..5 :
           t = [op |-> "build", b |-> b, s |-> s, i |-> i, n |-> n]
    \/ \E v \in Views, c \in Cuts, i \in -1..4 : t = [op |-> "view", v |-> v, cut |-> c, i |-> i]
    \/ \E v \in Views, w \in Views : t = [op |-> "copy", v |-> v, w |-> w]
    \/ \E v \in Views, cut \in SUBSET {1, 2, 3} : t = [op |-> "edges", v |-> v, cut |-> cut]
    \/ \E from \in -1..4, to \in -1..4, n \in -1..4, of \in {"x", "y"} :
           t = [op |-> "move", from |-> from, of |-> of, to |-> to, n |-> n]
    \/ \E n \in -1..6, c \in Cuts, x \in 1..3 : t = [op |-> "array", n |-> n, cut |-> c, x |-> x]
    \/ \E visit \in [1..3 -> {<<>>, <<0, 9>>, <<1, 8>>, <<2, 7>>}] : t = [op |-> "foreach", visit |-> visit]

FormatOf(pieces) == FlattenSeq([i \in DOMAIN pieces |-> pieces[i].format])
RunText(t) ==
    CASE t.op = "cut" ->
           LET taken == stringSubstring(t.s, t.cut[1], t.cut[2])
               left == stringRemove(t.s, t.cut[1], t.cut[2])
           IN [taken |-> taken, left |-> left, back |-> stringInsert(left.val, t.cut[1], taken.val)]
      [] t.op = "find" ->
           [first |-> stringIndexOf(t.s, t.t, t.start), last |-> stringLastIndexOf(t.s, t.t),
            contains |-> stringContains(t.s, t.t), starts |-> stringStartsWith(t.s, t.t), ends |-> stringEndsWith(t.s, t.t)]
      [] t.op = "replace" ->
           [marked |-> stringReplace(t.s, t.old, <<0>>).val, all |-> stringReplace(t.s, t.old, t.new).val]
      [] t.op = "split" -> stringSplit(t.s, t.seps, t.remove)
      [] t.op = "trim" -> [both |-> stringTrim(t.s, t.cutset).val, start |-> stringTrimStart(t.s, t.cutset).val,
                           end |-> stringTrimEnd(t.s, t.cutset).val]
      [] t.op = "pad" -> [left |-> stringPadLeft(t.s, t.width, Blank).val, right |-> stringPadRight(t.s, t.width, Blank).val]
      [] t.op = "order" -> [ab |-> stringCompare(t.a, t.b, t.ignore), ba |-> stringCompare(t.b, t.a, t.ignore),
                            bc |-> stringCompare(t.b, t.c, t.ignore), ac |-> stringCompare(t.a, t.c, t.ignore),
                            equal |-> stringEquals(t.a, t.b, IF t.ignore THEN 5 ELSE 4)]
      [] t.op = "make" -> [some |-> NewStringFromCtor(t.chars, t.cut[1], t.cut[2]), all |-> NewStringFromCtor(t.chars, 0, Rest).val,
                           repeated |-> NewStringRepeat(97, t.cut[1])]
      [] t.op = "format" -> formatComposite(FormatOf(t.pieces), Values)
      [] t.op = "digits" -> [plain |-> displayString(t.v), d |-> formatValue(t.v, <<"D", t.places>>).val,
                             n |-> formatValue(t.v, <<"N", t.places>>).val, f |-> formatValue(t.v, <<"F", t.places>>).val,
                             custom |-> formatCustomNumeric(t.v, t.places, TRUE, <<>>, FALSE).val,
                             c |-> formatValue(t.v, <<"C", t.places>>).val, p |-> formatValue(t.v, <<"P", t.places>>).val,
                             percent |-> formatCustomNumeric(t.v, 1, TRUE, Zeros(t.places), TRUE).val]
      [] t.op = "hex" -> formatValue(t.v, <<"X", t.places>>).val
      [] t.op = "build" -> [put |-> sbInsert(t.b, t.i, t.s), at |-> sbGetChars(t.b, t.i), sized |-> sbSetLength(t.b, t.n),
                            part |-> sbToString(t.b, t.i, t.n), added |-> sbAppend(t.s, t.b, t.i, t.n),
                            room |-> sbSetCapacity(t.b, t.n)]
      [] t.op = "view" ->
           LET sub == spanSlice(t.v, t.cut[1], t.cut[2])
               w == IF sub.out = "value" THEN memoryGetSpan(sub.val) ELSE t.v
           IN [sub |-> sub, elems |-> spanToArray(Mem, w), at |-> spanGetItem(Mem, w, t.i),
               set |-> spanSetItem(Mem, w, t.i, 9), clear |-> spanClear(Mem, w)]
      [] t.op = "copy" -> [copy |-> spanCopyTo(Mem, t.v, t.w), try |-> spanTryCopyTo(Mem, t.w, t.v),
                           equal |-> memoryExtensionsSequenceEqual(Mem, t.v, t.w),
                           at |-> memoryExtensionsIndexOf(Mem, t.v, spanToArray(Mem, t.w).val)]
      [] t.op = "edges" -> [left |-> spanTrim(Mem, t.v, t.cut, TRUE, FALSE), right |-> spanTrim(Mem, t.v, t.cut, FALSE, TRUE),
                            both |-> spanTrim(Mem, t.v, t.cut, TRUE, TRUE),
                            contains |-> {x \in 1..9 : spanContainsElem(Mem, t.v, x)}]
      [] t.op = "move" -> [copy |-> arrayCopy(Mem, "x", t.from, t.of, t.to, t.n), block |-> bufferBlockCopy(Mem, "x", t.from, t.of, t.to, t.n),
                           whole |-> arrayCopyTo(Mem, "y", "x", t.to), view |-> newSpanFrom(Mem, t.of, t.from, t.n)]
      [] t.op = "array" -> [resized |-> arrayResize(Mem.x, t.n), made |-> arrayCreateInstance(t.n),
                            cleared |-> arrayClear(Mem, "x", t.cut[1], t.cut[2]), at |-> arrayIndexOf(Mem.x, t.x, t.cut[1], t.cut[2]),
                            set |-> arraySetValue(arrayClone(Mem.x), t.n, t.x), got |-> arrayGetValue(Mem.x, t.n)]
      [] OTHER -> Enumerated(<<1, 2, 3>>, t.visit)

-----------------------------------------------------------------------------
\* What a program relies on.

Occurs(s, t, i) == i >= 0 /\ s = SubSeq(s, 1, i) \o t \o SubSeq(s, i + Len(t) + 1, Len(s))
IsFirst(i, s, t, start) ==
    /\ i = -1 \/ (i >= start /\ Occurs(s, t, i))
    /\ \A j \in start..Len(s) : Occurs(s, t, j) => i # -1 /\ i <= j
\* start and count (or all that is left) name a part of size.
Fits(size, start, count) == start \in 0..size /\ (count = Rest \/ count \in 0..(size - start))
SizeOf(size, start, count) == IF count = Rest THEN size - start ELSE count
TrimmedOf(r, s, cut, atStart, atEnd) ==
    \E i, j \in 0..Len(s) : /\ i + j <= Len(s) /\ r = SubSeq(s, i + 1, Len(s) - j)
                            /\ \A k \in 1..i : atStart /\ s[k] \in cut
                            /\ \A k \in (Len(s) - j + 1)..Len(s) : atEnd /\ s[k] \in cut
                            /\ r = <<>> \/ ((atStart => r[1] \notin cut) /\ (atEnd => r[Len(r)] \notin cut))
ValueOf(numerals, base) ==
    LET digit(c) == IF c < 58 THEN c - 48 ELSE c - 55
    IN FoldLeft(LAMBDA n, c : base * n + digit(c), 0, numerals)
Unsigned(s) == IF s # <<>> /\ s[1] = 45 THEN Tail(s) ELSE s
NoCommas(s) == SelectSeq(s, LAMBDA c : c # 44)
\* Nothing but the elements of arrays of from place start on differs.
OnlyChanges(before, after, of, start, length) ==
    /\ DOMAIN after = DOMAIN before
    /\ \A a \in DOMAIN before :
          /\ Len(after[a]) = Len(before[a])
          /\ \A i \in DOMAIN before[a] : (a # of \/ i - 1 \notin start..(start + length - 1)) => after[a][i] = before[a][i]
ElemsOf(mem, v) == SubSeq(mem[v.of], v.start + 1, v.start + v.length)
Copied(after, dst, to, elems) ==
    OnlyChanges(Mem, after, dst, to, Len(elems)) /\ SubSeq(after[dst], to + 1, to + Len(elems)) = elems

\* The texts of Values by format.
Shown == [plain |-> <<<<50, 54>>, <<97, 66>>, <<45, 51>>, <<45, 51>>>>,
          X |-> <<<<49, 65>>, <<>>, <<70, 68>>, <<70, 70, 70, 68>>>>,
          D |-> <<<<48, 50, 54>>, <<>>, <<45, 48, 48, 51>>, <<45, 48, 48, 51>>>>,
          N |-> <<<<50, 54>>, <<>>, <<45, 51>>, <<45, 51>>>>]
Aligned(s, n) ==
    LET blanks == [i \in 1..(IF Magnitude(n) > Len(s) THEN Magnitude(n) - Len(s) ELSE 0) |-> Blank]
    IN IF n < 0 THEN s \o blanks ELSE blanks \o s
Meaningless(p) ==
    p.is = "broken" \/ (p.is = "item" /\ LET i == p.format[2]
                                         IN i.index > 3 \/ Magnitude(i.alignment) > 3 \/ (i.index = 1 /\ i.spec # <<>>))
Meaning(p) ==
    CASE p.is = "text" -> <<97>>
      [] p.is = "{" -> <<123>>
      [] p.is = "}" -> <<125>>
      [] OTHER -> LET i == p.format[2]
                  IN Aligned(IF i.spec = <<>> THEN Shown.plain[i.index + 1] ELSE Shown[i.spec[1]][i.index + 1], i.alignment)

TextStandard(t, r) ==
    CASE t.op = "cut" ->
           IF Fits(Len(t.s), t.cut[1], t.cut[2])
           THEN /\ Len(r.taken.val) = SizeOf(Len(t.s), t.cut[1], t.cut[2])
                /\ Len(r.left.val) = Len(t.s) - Len(r.taken.val)
                /\ r.back = Answer(t.s)
           ELSE r.taken = OutOfRange /\ r.left = OutOfRange
      [] t.op = "find" ->
           /\ IF t.start \in 0..Len(t.s) THEN IsFirst(r.first.val, t.s, t.t, t.start) ELSE r.first = OutOfRange
           /\ r.last.val = -1 \/ Occurs(t.s, t.t, r.last.val)
           /\ \A j \in 0..Len(t.s) : Occurs(t.s, t.t, j) => r.last.val >= j
           /\ r.contains <=> r.last.val # -1
           /\ r.starts <=> Occurs(t.s, t.t, 0)
           /\ r.ends <=> Occurs(t.s, t.t, Len(t.s) - Len(t.t))
      [] t.op = "replace" ->
           LET expanded(w) == FlattenSeq([i \in DOMAIN r.marked |-> IF r.marked[i] = 0 THEN w ELSE <<r.marked[i]>>])
           IN /\ expanded(t.old) = t.s
              /\ expanded(t.new) = r.all
              /\ \A i \in 0..Len(r.marked) : ~Occurs(r.marked, t.old, i)
      [] t.op = "split" ->
           LET separates(c) == IF t.seps = {} THEN c = Blank ELSE <<c>> \in t.seps
               seps == SelectSeq(t.s, separates)
               starts == {i \in DOMAIN t.s : ~separates(t.s[i]) /\ (i = 1 \/ separates(t.s[i - 1]))}
           IN /\ \A k \in DOMAIN r.val : \A i \in DOMAIN r.val[k] : ~separates(r.val[k][i])
              /\ IF t.remove
                 THEN /\ Len(r.val) = Cardinality(starts) /\ <<>> \notin Range(r.val)
                      /\ FlattenSeq(r.val) = SelectSeq(t.s, LAMBDA c : ~separates(c))
                 ELSE t.s = FlattenSeq([k \in DOMAIN r.val |-> IF k = 1 THEN r.val[1] ELSE <<seps[k - 1]>> \o r.val[k]])
      [] t.op = "trim" ->
           LET cut == IF t.cutset = <<>> THEN {Blank} ELSE Range(t.cutset)
           IN /\ TrimmedOf(r.both, t.s, IF t.cutset = <<>> THEN {Blank, 160} ELSE cut, TRUE, TRUE)
              /\ TrimmedOf(r.start, t.s, cut, TRUE, FALSE) /\ TrimmedOf(r.end, t.s, cut, FALSE, TRUE)
      [] t.op = "pad" ->
           /\ IsSuffix(t.s, r.left) /\ IsPrefix(t.s, r.right) /\ Len(r.left) = Len(r.right)
           /\ Len(r.left) = t.width \/ (Len(t.s) > t.width /\ r.left = t.s)
           /\ \A i \in 1..(Len(r.left) - Len(t.s)) : r.left[i] = Blank /\ r.right[Len(t.s) + i] = Blank
      [] t.op = "order" ->
           /\ r.ab = -r.ba /\ (r.ab = 0 <=> r.equal)
           /\ r.ab <= 0 /\ r.bc <= 0 => r.ac <= 0
           /\ r.equal <=> IF t.ignore THEN Upper(t.a) = Upper(t.b) ELSE t.a = t.b
      [] t.op = "make" ->
           /\ IF Fits(Len(t.chars), t.cut[1], t.cut[2])
              THEN r.some = stringSubstring(r.all, t.cut[1], t.cut[2]) ELSE r.some = OutOfRange
           /\ \A i \in DOMAIN t.chars : r.all[i] = t.chars[i] \/ t.chars[i] = Surrogate
           /\ IF t.cut[1] < 0 THEN r.repeated = OutOfRange ELSE Len(r.repeated.val) = t.cut[1]
      [] t.op = "format" ->
           IF \E i \in DOMAIN t.pieces : Meaningless(t.pieces[i]) THEN r = Plain
           ELSE r = Answer(FlattenSeq([i \in DOMAIN t.pieces |-> Meaning(t.pieces[i])]))
      [] t.op = "digits" ->
           LET whole == SubSeq(r.n, 1, Len(r.n) - (IF t.places = 0 THEN 0 ELSE t.places + 1))
               grouped == Unsigned(whole)
           IN /\ ValueOf(Unsigned(r.plain), 10) = Magnitude(t.v.n) /\ (r.plain[1] = 45 <=> t.v.n < 0)
              /\ ValueOf(Unsigned(r.d), 10) = Magnitude(t.v.n) /\ (r.d[1] = 45 <=> t.v.n < 0)
              /\ Len(Unsigned(r.d)) = t.places \/ (Len(r.d) = Len(r.plain) /\ Len(Unsigned(r.d)) > t.places)
              /\ NoCommas(r.n) = r.f /\ NoCommas(r.custom) = r.d /\ NoCommas(whole) = r.plain
              /\ SelectSeq(r.c, LAMBDA c : c # 36) = r.n /\ r.p = r.percent
              /\ ValueOf(Unsigned(NoCommas(SelectSeq(r.p, LAMBDA c : c \notin {37, 46}))), 10) = 100 * Magnitude(t.v.n) * 10^t.places
              /\ \A i \in DOMAIN grouped : grouped[i] = 44 <=> (Len(grouped) - i + 1) % 4 = 0
              /\ grouped[1] # 44
      [] t.op = "hex" ->
           /\ ValueOf(r, 16) = t.v.n % 16^Width[t.v.kind]
           /\ Len(r) >= t.places /\ (Len(r) > t.places /\ Len(r) > 1 => r[1] # 48)
      [] t.op = "build" ->
           /\ IF t.i \in 0..Len(t.b)
              THEN stringRemove(r.put.val, t.i, Len(t.s)) = Answer(t.b) /\ Occurs(r.put.val, t.s, t.i)
              ELSE r.put = OutOfRange
           /\ IF t.i \in 0..(Len(t.b) - 1) THEN Occurs(t.b, <<r.at.val>>, t.i) ELSE r.at = OutOfRange
           /\ IF t.n < 0 THEN r.sized = OutOfRange
              ELSE /\ Len(r.sized.val) = t.n /\ (IsPrefix(t.b, r.sized.val) \/ IsPrefix(r.sized.val, t.b))
                   /\ \A k \in (Len(t.b) + 1)..t.n : r.sized.val[k] = 0
           /\ IF Fits(Len(t.b), t.i, t.n)
              THEN r.added.val = t.s \o r.part.val /\ Occurs(t.b, r.part.val, t.i) /\ Len(r.part.val) = t.n
              ELSE r.added = OutOfRange /\ r.part = OutOfRange
           /\ r.room = OutOfRange <=> t.n < Len(t.b)
      [] t.op = "view" ->
           LET old == ElemsOf(Mem, t.v)
               fits == Fits(Len(old), t.cut[1], t.cut[2])
               start == IF fits THEN t.cut[1] ELSE 0
               n == IF fits THEN SizeOf(Len(old), start, t.cut[2]) ELSE Len(old)
           IN /\ fits <=> r.sub.out = "value"
              /\ r.elems.val = SubSeq(old, start + 1, start + n)
              /\ Copied(r.clear, t.v.of, t.v.start + start, [i \in 1..n |-> 0])
              /\ IF t.i \in 0..(n - 1)
                 THEN Mem[t.v.of][r.at.val + 1] = r.elems.val[t.i + 1] /\ Copied(r.set.val, t.v.of, t.v.start + start + t.i, <<9>>)
                 ELSE r.at = Raised("IndexOutOfRange") /\ r.set = r.at
      [] t.op = "copy" ->
           LET x == ElemsOf(Mem, t.v)
               y == ElemsOf(Mem, t.w)
           IN /\ IF Len(x) <= Len(y) THEN Copied(r.copy.val, t.w.of, t.w.start, x) ELSE r.copy = Raised("Argument")
              /\ IF Len(y) <= Len(x) THEN r.try.done /\ Copied(r.try.mem, t.v.of, t.v.start, y)
                 ELSE ~r.try.done /\ r.try.mem = Mem
              /\ r.equal <=> x = y
              /\ IsFirst(r.at, x, y, 0)
      [] t.op = "edges" ->
           LET x == ElemsOf(Mem, t.v)
           IN /\ TrimmedOf(ElemsOf(Mem, r.left), x, t.cut, TRUE, FALSE)
              /\ TrimmedOf(ElemsOf(Mem, r.right), x, t.cut, FALSE, TRUE)
              /\ TrimmedOf(ElemsOf(Mem, r.both), x, t.cut, TRUE, TRUE)
              /\ r.contains = Range(x)
      [] t.op = "move" ->
           /\ IF Fits(4, t.from, t.n) /\ Fits(Len(Mem[t.of]), t.to, t.n)
              THEN Copied(r.copy.val, t.of, t.to, SubSeq(Mem.x, t.from + 1, t.from + t.n)) ELSE r.copy = OutOfRange
           /\ r.block = IF t.n = 0 THEN Answer(Mem) ELSE r.copy
           /\ IF Fits(4, t.to, 2) THEN Copied(r.whole.val, "x", t.to, Mem.y) ELSE r.whole = OutOfRange
           /\ r.view.out = "value" <=> Fits(Len(Mem[t.of]), t.from, t.n)
      [] t.op = "array" ->
           LET fits == Fits(4, t.cut[1], t.cut[2])
               n == SizeOf(4, t.cut[1], t.cut[2])
           IN /\ IF t.n < 0 THEN r.resized = OutOfRange /\ r.made = OutOfRange
                 ELSE /\ Len(r.resized.val) = t.n /\ Len(r.made.val) = t.n
                      /\ IsPrefix(Mem.x, r.resized.val) \/ IsPrefix(r.resized.val, Mem.x)
              /\ IF fits /\ t.cut[2] # Rest THEN Copied(r.cleared.val, "x", t.cut[1], [i \in 1..n |-> 0]) ELSE r.cleared = OutOfRange
              /\ IF fits THEN IsFirst(r.at.val, SubSeq(Mem.x, 1, t.cut[1] + n), <<t.x>>, t.cut[1]) ELSE r.at = OutOfRange
              /\ IF t.n \in 0..3
                 THEN /\ \A i \in 1..4 : r.set.val[i] = IF i = t.n + 1 THEN t.x ELSE Mem.x[i]
                      /\ Occurs(Mem.x, <<r.got.val>>, t.n)
                 ELSE r.set = Raised("IndexOutOfRange") /\ r.got = r.set
      [] OTHER ->
           \A k \in 1..3 :
               LET writes == {j \in 1..(k - 1) : t.visit[j] # <<>> /\ t.visit[j][1] = k - 1}
               IN r[k] = IF writes = {} THEN k ELSE t.visit[Highest(writes)][2]
=============================================================================
