----------------------------- MODULE Arithmetic -----------------------------
(***************************************************************************)
(* How the interpreter computes the arithmetic, comparison and conversion  *)
(* opcodes (interpreter/arithmetic.go), with the number natives that do    *)
(* the same on boxed values (bcl/system_math.go, system_numeric.go).       *)
(*                                                                         *)
(* Integers have Bits[k] bits.  A float is a number of halves below        *)
(* Infinity, an infinity or NaN, and holds integers of Mantissa bits; zero *)
(* has no sign, and single and double precision are not told apart.        *)
(* Standard says what the instruction set promises, in exact arithmetic.   *)
(***************************************************************************)
EXTENDS ILOpcodes, Integers, FiniteSets

CONSTANTS Bits,       \* of "I1", "I2", "I4" and "I8"
          Mantissa,   \* the bits of a float64's integers
          NaN,        \* a float that is not a number of halves
          Infinity,   \* a float, from which on there are no numbers of halves
          Objects     \* identities of objects, arrays, fields, and contents of strings

Val(k, n) == [kind |-> k, v |-> n, fields |-> <<>>]
StructVal(values) == [kind |-> "Struct", v |-> 0, fields |-> values]
I4(n) == Val("I4", n)
Ints == {"I4", "I8"}
Floats == {"R4", "R8"}
Nil == 0
Null == Val("Null", Nil)
Bool(b) == I4(IF b THEN 1 ELSE 0)
Error == Val("error", 0)

\* Two's complement: the number of w bits congruent to n, as Go's int32, int64
\* (Signed) and uint32, uint64 (Unsigned) hold it.
Unsigned(n, w) == n % 2^w
Signed(n, w) == ((n + 2^(w - 1)) % 2^w) - 2^(w - 1)
Magnitude(n) == IF n < 0 THEN -n ELSE n
\* Go's / and % on integers go toward zero.
Quotient(a, b) == IF (a < 0) = (b < 0) THEN Magnitude(a) \div Magnitude(b)
                  ELSE -(Magnitude(a) \div Magnitude(b))
Remainder(a, b) == a - b * Quotient(a, b)
Bit(n, w, i) == (Unsigned(n, w) \div 2^i) % 2
Bitwise(a, b, w, f) ==
    LET weight[i \in 0..w] == IF i = w THEN 0
                              ELSE f[Bit(a, w, i)][Bit(b, w, i)] * 2^i + weight[i + 1]
    IN Signed(weight[0], w)
Both == [x \in 0..1 |-> [y \in 0..1 |-> IF x = 1 /\ y = 1 THEN 1 ELSE 0]]
Either == [x \in 0..1 |-> [y \in 0..1 |-> IF x = 1 \/ y = 1 THEN 1 ELSE 0]]
Unlike == [x \in 0..1 |-> [y \in 0..1 |-> IF x # y THEN 1 ELSE 0]]
\* The bits of n that float64(n) has no room for.
Excess(n) == CHOOSE k \in 0..Bits["I8"] : /\ Magnitude(n) < 2^(Mantissa + k)
                                          /\ k > 0 => Magnitude(n) >= 2^(Mantissa + k - 1)
\* float64(n): the nearest number of Mantissa bits, ties to the even one.
Float64(n) ==
    LET unit == 2^Excess(n)
        low == n \div unit
        rest == 2 * (n - low * unit)
    IN IF rest < unit \/ (rest = unit /\ low % 2 = 0) THEN low * unit ELSE (low + 1) * unit
Less(a, b) == a # NaN /\ b # NaN /\ a < b
Same(a, b) == a # NaN /\ b # NaN /\ a = b

-----------------------------------------------------------------------------
\* References.

isReferenceShaped(a) == a.kind \in {"Null", "Object", "Array", "Ref", "Struct", "String"}
isPrimitiveValueKind(a) == a.kind \in Ints \cup Floats
isNullish(a) == a.kind = "Null" \/ (a.kind \in {"Object", "Array", "Ref"} /\ a.v = Nil)

\* Objects by identity, strings by their contents, structs field by field.
refEqual(a, b) ==
    IF isNullish(a) \/ isNullish(b) THEN isNullish(a) /\ isNullish(b)
    ELSE /\ a.kind = b.kind
         /\ IF a.kind # "Struct" THEN a.v = b.v
            ELSE /\ DOMAIN a.fields = DOMAIN b.fields
                 /\ \A i \in DOMAIN a.fields :
                       LET x == a.fields[i]
                           y == b.fields[i]
                       IN IF isReferenceShaped(x) /\ isReferenceShaped(y)
                          THEN isNullish(x) = isNullish(y) /\ (isNullish(x) \/ x = y)
                          ELSE x.kind = y.kind /\ Same(x.v, y.v)
refGreater(a, b) == ~isNullish(a) /\ isNullish(b)

-----------------------------------------------------------------------------
\* The opcodes.  wrap makes the result a value again.
evalBinOpInt(op, a, b, k) ==
    LET w == Bits[k]
        wrap(n) == Val(k, Signed(n, w))
        count == IF b < 0 THEN w ELSE IF b > w THEN w ELSE b    \* Go shifts every bit out
    IN CASE op = "add" -> wrap(a + b) [] op = "sub" -> wrap(a - b) [] op = "mul" -> wrap(a * b)
         [] op = "div" -> IF b = 0 THEN Error ELSE wrap(Quotient(a, b))
         [] op = "rem" -> IF b = 0 THEN Error ELSE wrap(Remainder(a, b))
         [] op = "and" -> Val(k, Bitwise(a, b, w, Both))
         [] op = "or" -> Val(k, Bitwise(a, b, w, Either))
         [] op = "xor" -> Val(k, Bitwise(a, b, w, Unlike))
         [] op = "shl" -> wrap(a * 2^count)
         [] op = "shr" -> wrap(a \div 2^count)
         [] op = "ceq" -> Bool(a = b) [] op = "cgt" -> Bool(a > b) [] op = "clt" -> Bool(a < b)

\* Mutant: the operands are not taken as unsigned.
evalBinOpUintSigned(op, a, b, k) == evalBinOpInt(op, a, b, k)
evalBinOpUint(op, a, b, k) ==
    LET w == Bits[k]
        x == Unsigned(a, w)
        y == Unsigned(b, w)
        wrap(n) == Val(k, Signed(n, w))
    IN CASE op = "div" -> IF y = 0 THEN Error ELSE wrap(x \div y)
         [] op = "rem" -> IF y = 0 THEN Error ELSE wrap(x % y)
         [] op = "shr" -> wrap(x \div 2^(IF y > w THEN w ELSE y))
         [] op = "cgt" -> Bool(x > y) [] op = "clt" -> Bool(x < y)
         [] OTHER -> Error

\* Go's arithmetic on floats, that of IEEE 754.  Of the exact n / d halves: the
\* nearest number, ties to the even one, or an infinity.
Nearest(n, d) ==
    LET low == n \div d
        rest == 2 * (n - low * d)
    IN IF rest < d \/ (rest = d /\ low % 2 = 0) THEN low ELSE low + 1
Rounded(n, d) ==
    LET f == Nearest(n, d)
    IN IF f >= Infinity THEN Infinity ELSE IF f <= -Infinity THEN -Infinity ELSE f
Sign(f) == IF f < 0 THEN -1 ELSE 1
Infinite(f) == Magnitude(f) = Infinity
floatAdd(a, b) ==
    IF Infinite(a) /\ b = -a THEN NaN
    ELSE IF Infinite(a) THEN a ELSE IF Infinite(b) THEN b ELSE Rounded(a + b, 1)
floatMul(a, b) ==
    IF ~Infinite(a) /\ ~Infinite(b) THEN Rounded(a * b, 2)
    ELSE IF a = 0 \/ b = 0 THEN NaN ELSE Sign(a) * Sign(b) * Infinity
floatDiv(a, b) ==
    IF Infinite(b) THEN (IF Infinite(a) THEN NaN ELSE 0)
    ELSE IF Infinite(a) THEN Sign(a) * Sign(b) * Infinity
    ELSE IF b = 0 THEN (IF a = 0 THEN NaN ELSE Sign(a) * Infinity)
    ELSE Rounded(2 * a * Sign(b), Magnitude(b))
\* math.Mod.
floatMod(a, b) ==
    IF Infinite(a) \/ b = 0 THEN NaN ELSE IF Infinite(b) THEN a ELSE Remainder(a, b)

\* The comparisons are ordered ones, whether or not the opcode is.
evalBinOpFloat(op, a, b, k) ==
    LET wrap(f) == Val(k, IF NaN \in {a, b} THEN NaN ELSE f)
    IN CASE op = "add" -> wrap(floatAdd(a, b)) [] op = "sub" -> wrap(floatAdd(a, -b))
         [] op = "mul" -> wrap(floatMul(a, b)) [] op = "div" -> wrap(floatDiv(a, b))
         [] op = "rem" -> wrap(floatMod(a, b))
         [] op = "ceq" -> Bool(Same(a, b)) [] op = "cgt" -> Bool(Less(b, a)) [] op = "clt" -> Bool(Less(a, b))
         [] OTHER -> Error

evalBinOp(in, a, b) ==
    LET run(k, y) == IF in.Unsigned THEN evalBinOpUint(in.Op, a.v, y, k)
                     ELSE evalBinOpInt(in.Op, a.v, y, k)
        compares == in.Op \in {"ceq", "cgt", "clt"}
    IN IF isReferenceShaped(a) /\ isReferenceShaped(b) /\ compares
       THEN Bool(\/ in.Op = "ceq" /\ refEqual(a, b)
                 \/ in.Op = "cgt" /\ refGreater(a, b)
                 \/ in.Op = "clt" /\ refGreater(b, a))
       ELSE IF isPrimitiveValueKind(a) /\ b.kind = "Null" /\ compares THEN Bool(in.Op = "cgt")
       ELSE IF isPrimitiveValueKind(b) /\ a.kind = "Null" /\ compares THEN Bool(in.Op = "clt")
       ELSE IF in.Op \in {"shl", "shr"} /\ a.kind = "I8" /\ b.kind = "I4" THEN run("I8", b.v)
       ELSE IF a.kind # b.kind THEN Error
       ELSE IF a.kind \in Ints THEN run(a.kind, b.v)
       ELSE IF a.kind \in Floats THEN evalBinOpFloat(in.Op, a.v, b.v, a.kind)
       ELSE Error

evalNeg(a) == IF a.kind \in Ints THEN Val(a.kind, Signed(-a.v, Bits[a.kind]))
              ELSE IF a.kind \in Floats THEN Val(a.kind, IF a.v = NaN THEN NaN ELSE -a.v)
              ELSE Error
evalNot(a) == IF a.kind \in Ints THEN Val(a.kind, -a.v - 1) ELSE Error

compareOrdered(op, a, b) ==
    \/ op = "beq" /\ Same(a, b)
    \/ op = "bne" /\ ~Same(a, b)
    \/ op = "bgt" /\ Less(b, a)
    \/ op = "blt" /\ Less(a, b)
    \/ op = "bge" /\ (Less(b, a) \/ Same(a, b))
    \/ op = "ble" /\ (Less(a, b) \/ Same(a, b))
compareReferences(op, a, b) ==
    \/ op = "beq" /\ refEqual(a, b)
    \/ op = "bne" /\ ~refEqual(a, b)
    \/ op = "bgt" /\ refGreater(a, b)
    \/ op = "blt" /\ refGreater(b, a)
    \/ op = "bge" /\ ~refGreater(b, a)
    \/ op = "ble" /\ ~refGreater(a, b)
evalCompare(in, a, b) ==
    LET x == IF in.Unsigned /\ a.kind \in Ints THEN Unsigned(a.v, Bits[a.kind]) ELSE a.v
        y == IF in.Unsigned /\ b.kind \in Ints THEN Unsigned(b.v, Bits[b.kind]) ELSE b.v
    IN IF isReferenceShaped(a) /\ isReferenceShaped(b)
       THEN Bool(compareReferences(in.Op, a, b))
       ELSE IF a.kind # b.kind \/ ~isPrimitiveValueKind(a) THEN Error
       ELSE Bool(compareOrdered(in.Op, x, y))

\* int64(f) drops the half; of NaN it is some number.
toInt64(a) == IF a.kind \in Ints THEN a.v ELSE Quotient(a.v, 2)
toFloat64(a) == IF a.kind \in Ints THEN 2 * Float64(a.v) ELSE a.v
evalConv(kind, a) ==
    IF kind \in {"r4", "r8"}
    THEN IF isPrimitiveValueKind(a) THEN Val(IF kind = "r4" THEN "R4" ELSE "R8", toFloat64(a)) ELSE Error
    ELSE IF a.kind = "Ref" /\ kind \in {"i4", "u4", "i8", "u8"} THEN a
    ELSE IF kind = "u8" /\ a.kind = "I4" THEN Val("I8", Unsigned(a.v, Bits["I4"]))
    ELSE IF ~isPrimitiveValueKind(a) THEN Error
    ELSE LET n == toInt64(a)
         IN CASE kind = "i1" -> I4(Signed(n, Bits["I1"])) [] kind = "u1" -> I4(Unsigned(n, Bits["I1"]))
              [] kind = "i2" -> I4(Signed(n, Bits["I2"])) [] kind = "u2" -> I4(Unsigned(n, Bits["I2"]))
              [] kind \in {"i4", "u4"} -> I4(Signed(n, Bits["I4"]))
              [] kind \in {"i8", "u8"} -> Val("I8", Signed(n, Bits["I8"]))

-----------------------------------------------------------------------------
\* The natives of Math and of the number types.

mathMinMax(a, b, wantMax) ==
    IF a.kind # b.kind \/ ~isPrimitiveValueKind(a) THEN Error
    ELSE IF Less(b.v, a.v) = wantMax THEN a ELSE b
mathSign(a) == IF ~isPrimitiveValueKind(a) THEN Error
               ELSE LET f == toFloat64(a) IN I4(IF Less(0, f) THEN 1 ELSE IF Less(f, 0) THEN -1 ELSE 0)
\* Through float64; of the least int, what the hardware makes of a number that
\* does not fit.
mathAbs(a) == IF a.kind \in Ints THEN Val(a.kind, Signed(Magnitude(Float64(a.v)), Bits[a.kind]))
              ELSE IF a.kind \in Floats THEN Val(a.kind, IF a.v = NaN THEN NaN ELSE Magnitude(a.v))
              ELSE Error
mathFloor(a) == IF a.kind # "R8" THEN Error ELSE IF a.v = NaN THEN a ELSE Val("R8", 2 * (a.v \div 2))
mathCeiling(a) == IF a.kind # "R8" THEN Error ELSE IF a.v = NaN THEN a ELSE Val("R8", -2 * ((-a.v) \div 2))
mathTruncate(a) == IF a.kind # "R8" THEN Error ELSE IF a.v = NaN THEN a ELSE Val("R8", 2 * Quotient(a.v, 2))
\* To an integer, ties to the even one.
mathRound(a) ==
    IF a.kind # "R8" THEN Error
    ELSE IF a.v = NaN \/ a.v % 2 = 0 THEN a
    ELSE Val("R8", IF (a.v - 1) % 4 = 0 THEN a.v - 1 ELSE a.v + 1)
doubleIsNaN(a) == IF a.kind \in Floats THEN Bool(a.v = NaN) ELSE Error
comparableCompareTo(a, b) ==
    IF a.kind = "Object" /\ b.kind = "Object" THEN I4(IF a.v = b.v THEN 0 ELSE -1)
    ELSE IF ~isPrimitiveValueKind(a) THEN Error
    ELSE I4(IF Less(a.v, b.v) THEN -1 ELSE IF Less(b.v, a.v) THEN 1 ELSE 0)
\* A uint64 of 32 bits at a time, made a float64.
decimalFromBits(lo, mid, hi, isNegative) ==
    LET w == Bits["I4"]
        n == 2 * (Unsigned(hi, w) * 2^(2 * w) + Unsigned(mid, w) * 2^w + Unsigned(lo, w))
    IN Val("R8", IF isNegative THEN -n ELSE n)

-----------------------------------------------------------------------------
\* What the opcodes are tried on, and what the instruction set says of them.

\* The least and greatest numbers of a kind, and those next to a boundary.
Edges(k) == {n \in (-(2^(Bits[k] - 1)))..(2^(Bits[k] - 1) - 1) :
                \E p \in 0..Bits[k] : \E d \in {-1, 0, 1} : n = 2^p + d \/ n = -(2^p) + d}
Numbers == {Val(k, n) : k \in {"I4"}, n \in Edges("I4")} \cup {Val("I8", n) : n \in Edges("I8")}
           \cup {Val(k, f) : k \in Floats, f \in -5..5 \cup {NaN} \cup {i - Infinity : i \in 0..2} \cup {Infinity - i : i \in 0..2}}
References == {Null} \cup {Val(k, o) : k \in {"Object", "Array", "Ref"}, o \in Objects \cup {Nil}}
              \cup {Val("String", o) : o \in Objects}
              \cup {StructVal(<<I4(n), r>>) : n \in {0, 1}, r \in {Null} \cup {Val("Object", o) : o \in Objects}}
Operation(of, op, a, b) == [of |-> of, op |-> op, a |-> a, b |-> b]
Native(n) == Opcode(n, FALSE, FALSE)
IsTaskOn(numbers, references, t) ==
    \/ \E p \in {q \in numbers \X numbers : q[1].kind = q[2].kind \/ (q[1].kind = "I8" /\ q[2].kind = "I4")}
                \cup (references \X references) \cup ({Null} \X numbers) \cup (numbers \X {Null}) :
         \/ \E op \in BinaryOpcodes : t = Operation("binary", op, p[1], p[2])
         \/ \E op \in BranchOpcodes : t = Operation("branch", op, p[1], p[2])
         \/ \E n \in {"min", "max", "compareTo"} : t = Operation("math", Native(n), p[1], p[2])
    \/ \E a \in numbers :
         \/ \E op \in ConvOpcodes : t = Operation("conv", op, a, Null)
         \/ \E n \in {"neg", "not", "sign", "abs", "floor", "ceiling", "truncate", "round", "isNaN"} :
                t = Operation("math", Native(n), a, Null)
         \/ a.kind = "I4" /\ \E b \in numbers : b.kind = "I4" /\ t = Operation("math", Native("decimal"), a, b)
    \/ \E op \in ConvOpcodes, a \in references : a.kind = "Ref" /\ t = Operation("conv", op, a, Null)
IsTask(t) == IsTaskOn(Numbers, References, t)

RunNative(name, a, b) ==
    CASE name = "neg" -> evalNeg(a) [] name = "not" -> evalNot(a)
      [] name = "sign" -> mathSign(a) [] name = "abs" -> mathAbs(a)
      [] name = "floor" -> mathFloor(a) [] name = "ceiling" -> mathCeiling(a)
      [] name = "truncate" -> mathTruncate(a) [] name = "round" -> mathRound(a)
      [] name = "isNaN" -> doubleIsNaN(a)
      [] name = "min" -> mathMinMax(a, b, FALSE) [] name = "max" -> mathMinMax(a, b, TRUE)
      [] name = "compareTo" -> comparableCompareTo(a, b)
      [] name = "decimal" -> decimalFromBits(a.v, b.v, 0, FALSE)
Run(t) ==
    CASE t.of = "binary" -> evalBinOp(BuildBinOp(t.op), t.a, t.b)
      [] t.of = "branch" -> evalCompare(BuildBranch(t.op), t.a, t.b)
      [] t.of = "conv" -> evalConv(BuildConv(t.op), t.a)
      [] t.of = "math" -> RunNative(t.op.name, t.a, t.b)

Fits(n, k) == n \in (-(2^(Bits[k] - 1)))..(2^(Bits[k] - 1) - 1)
\* r is the number of kind k that is n, as far as its bits go.
Holds(r, k, n) == r.kind = k /\ Fits(r.v, k) /\ (r.v - n) % 2^Bits[k] = 0
Unordered(a, b) == a.kind \in Floats /\ NaN \in {a.v, b.v}
SameReference(a, b) == (isNullish(a) /\ isNullish(b)) \/ a = b

\* The comparison by that name: of unsigned opcodes on the unsigned numbers, and
\* of floats true if they are unordered.
Compares(name, un, a, b) ==
    LET x == IF un /\ a.kind \in Ints THEN Unsigned(a.v, Bits[a.kind]) ELSE a.v
        y == IF un /\ b.kind \in Ints THEN Unsigned(b.v, Bits[b.kind]) ELSE b.v
    IN IF Unordered(a, b) THEN un
       ELSE IF isReferenceShaped(a)
       THEN \/ name = "eq" /\ SameReference(a, b)
            \/ name = "ne" /\ ~SameReference(a, b)
            \/ name = "gt" /\ ~isNullish(a)
            \/ name = "lt" /\ ~isNullish(b)
       ELSE \/ name = "eq" /\ x = y
            \/ name = "ne" /\ x # y
            \/ name = "gt" /\ x > y
            \/ name = "lt" /\ x < y
            \/ name = "ge" /\ x >= y
            \/ name = "le" /\ x <= y
CompareName == [ceq |-> "eq", cgt |-> "gt", clt |-> "lt", beq |-> "eq", bne |-> "ne",
                bgt |-> "gt", blt |-> "lt", bge |-> "ge", ble |-> "le"]

CompareStandard(t, r) ==
    LET name == CompareName[t.op.name]
    IN (t.a.kind = t.b.kind /\ ~isReferenceShaped(t.a))
         \/ (isReferenceShaped(t.a) /\ isReferenceShaped(t.b)
               /\ (name \in {"eq", "ne"} \/ (name = "gt" /\ isNullish(t.b)) \/ (name = "lt" /\ isNullish(t.a))))
       => r = Bool(Compares(name, t.op.un, t.a, t.b))
\* A boxed number is never null, and the null check of a generic says so.
NullCheckStandard(t, r) ==
    /\ isPrimitiveValueKind(t.a) /\ t.b = Null => r = Bool(t.op.name = "cgt")
    /\ isPrimitiveValueKind(t.b) /\ t.a = Null => r = Bool(t.op.name = "clt")

\* r is the quotient or the rest of x and y; the rest has the sign of x.
DividesTo(r, k, name, x, y) ==
    IF y = 0 THEN r = Error
    ELSE \E m \in (1 - Magnitude(y))..(Magnitude(y) - 1) :
            /\ m = 0 \/ (m < 0 <=> x < 0)
            /\ (x - m) % Magnitude(y) = 0
            /\ \E q \in {Magnitude(x - m) \div Magnitude(y)} :
                  Holds(r, k, IF name = "rem" THEN m ELSE IF x < 0 <=> y < 0 THEN q ELSE -q)
\* The bits of r are those of f of the bits of a and b.
HasBits(r, k, a, b, f) ==
    /\ Fits(r.v, k)
    /\ \A i \in 0..(Bits[k] - 1) : Bit(r.v, Bits[k], i) = f[Bit(a, Bits[k], i)][Bit(b, Bits[k], i)]

\* The instruction set raises an exception, the code wraps.
NoQuotient(op, k, a, b) == op.name = "div" /\ ~op.un /\ b = -1 /\ a = -(2^(Bits[k] - 1))

IntegerStandard(op, k, a, b, r) ==
    LET w == Bits[k]
        x == IF op.un THEN Unsigned(a, w) ELSE a
        y == IF op.un THEN Unsigned(b, w) ELSE b
    IN /\ op.name = "add" => Holds(r, k, a + b)
       /\ op.name = "sub" => Holds(r, k, a - b)
       /\ op.name = "mul" => Holds(r, k, a * b)
       /\ op.name \in {"div", "rem"} /\ ~NoQuotient(op, k, a, b) => DividesTo(r, k, op.name, x, y)
       /\ op.name = "and" => HasBits(r, k, a, b, [i \in 0..1 |-> [j \in 0..1 |-> i * j]])
       /\ op.name = "or" => HasBits(r, k, a, b, [i \in 0..1 |-> [j \in 0..1 |-> i + j - i * j]])
       /\ op.name = "xor" => HasBits(r, k, a, b, [i \in 0..1 |-> [j \in 0..1 |-> (i + j) % 2]])
       /\ op.name = "shl" /\ b \in 0..(w - 1) => Holds(r, k, a * 2^b)
       /\ op.name = "shr" /\ b \in 0..(w - 1) => Holds(r, k, x \div 2^b)

\* r is the number nearest to n / d halves, the even one of two as near; infinite
\* from halfway between the last number and the next on.
RoundsTo(r, n, d) ==
    LET off == 2 * Magnitude(r * d - n)
    IN \/ Magnitude(r) < Infinity /\ (off < d \/ (off = d /\ r % 2 = 0))
       \/ r = Infinity /\ 2 * n >= (2 * Infinity - 1) * d
       \/ r = -Infinity /\ 2 * n <= -((2 * Infinity - 1) * d)
\* The operations of IEEE 754 that have no result.
Undefined(name, a, b) ==
    \/ NaN \in {a, b}
    \/ name = "add" /\ Infinite(a) /\ a + b = 0
    \/ name = "sub" /\ Infinite(a) /\ a = b
    \/ name = "mul" /\ {a, b} \in {{0, Infinity}, {0, -Infinity}}
    \/ name = "div" /\ ((a = 0 /\ b = 0) \/ (Infinite(a) /\ Infinite(b)))
    \/ name = "rem" /\ (Infinite(a) \/ b = 0)
FloatStandard(name, a, b, r) ==
    LET finite == ~Infinite(a) /\ ~Infinite(b)
    IN IF Undefined(name, a, b) THEN r = NaN
       ELSE /\ name = "add" => IF finite THEN RoundsTo(r, a + b, 1) ELSE r \in {a, b} /\ Infinite(r)
            /\ name = "sub" => IF finite THEN RoundsTo(r, a - b, 1) ELSE r \in {a, -b} /\ Infinite(r)
            /\ name = "mul" => IF finite THEN RoundsTo(r, a * b, 2)
                                ELSE Infinite(r) /\ (r < 0 <=> (a < 0) # (b < 0))
            /\ name = "div" =>
                  IF Infinite(b) THEN r = 0
                  ELSE IF Infinite(a) \/ b = 0 THEN Infinite(r) /\ (r < 0 <=> (a < 0) # (b < 0))
                  ELSE RoundsTo(r, IF b < 0 THEN -(2 * a) ELSE 2 * a, Magnitude(b))
            /\ name = "rem" =>
                  IF Infinite(b) THEN r = a
                  ELSE /\ Magnitude(r) < Magnitude(b) /\ (r # 0 => (r < 0 <=> a < 0))
                       /\ (a - r) % Magnitude(b) = 0

Narrow == [i1 |-> "I1", u1 |-> "I1", i2 |-> "I2", u2 |-> "I2", i4 |-> "I4", u4 |-> "I4",
           i |-> "I4", u |-> "I4", i8 |-> "I8", u8 |-> "I8"]
ConvStandard(name, a, r) ==
    LET k == Narrow[name]
        n == IF a.kind = "I4" /\ name = "u8" THEN Unsigned(a.v, Bits["I4"])
             ELSE IF a.kind \in Ints THEN a.v ELSE Quotient(a.v, 2)
    IN IF name \in {"r4", "r8", "r"}
       THEN (a.kind \in Floats => r.v = a.v)
            /\ (a.kind \in Ints /\ (name = "r" => a.v >= 0) =>
                  IF Magnitude(a.v) < 2^Mantissa THEN r.v = 2 * a.v
                  ELSE 2 * Magnitude(r.v - 2 * a.v) <= 2^(1 + Bits["I8"] - Mantissa))
       ELSE IF a.kind = "Ref" THEN name \in {"i", "u", "i4", "u4", "i8", "u8"} => r = a
       ELSE a.v = NaN \/ (a.kind \in Floats /\ ~Fits(n, k))
            \/ /\ r.kind = (IF k = "I8" THEN "I8" ELSE "I4")
               /\ (r.v - n) % 2^Bits[k] = 0
               /\ IF name \in {"u1", "u2"} THEN r.v \in 0..(2^Bits[k] - 1) ELSE Fits(r.v, k)

\* Of a number, or of two of a kind.
MathStandard(name, a, b, r) ==
    LET exact == a.v # NaN
        double == a.kind = "R8" /\ exact
        ordered == isPrimitiveValueKind(a) /\ a.kind = b.kind /\ ~Unordered(a, b)
        whole == r.v % 2 = 0
    IN /\ name = "neg" /\ a.kind \in Ints => Holds(r, a.kind, -a.v)
       /\ name = "neg" /\ a.kind \in Floats /\ exact => r.v + a.v = 0
       /\ name = "not" /\ a.kind \in Ints => Holds(r, a.kind, -1 - a.v)
       /\ name = "sign" /\ exact => r.v \in {-1, 0, 1} /\ (r.v > 0 <=> a.v > 0) /\ (r.v < 0 <=> a.v < 0)
       /\ name = "abs" /\ exact /\ (a.kind \in Ints => Magnitude(a.v) < 2^Mantissa /\ Fits(-a.v, a.kind))
             => r = Val(a.kind, Magnitude(a.v))
       /\ name = "floor" /\ double => whole /\ a.v - r.v \in 0..1
       /\ name = "ceiling" /\ double => whole /\ r.v - a.v \in 0..1
       /\ name = "truncate" /\ double => whole /\ Magnitude(a.v) - Magnitude(r.v) \in 0..1 /\ r.v * a.v >= 0
       /\ name = "round" /\ double => whole /\ (r.v = a.v \/ (Magnitude(r.v - a.v) = 1 /\ r.v % 4 = 0))
       /\ name = "isNaN" /\ a.kind \in Floats => r = Bool(~exact)
       /\ name \in {"min", "max"} /\ ordered => r \in {a, b}
       /\ name = "max" /\ ordered => r.v >= a.v /\ r.v >= b.v
       /\ name = "min" /\ ordered => r.v <= a.v /\ r.v <= b.v
       /\ name = "compareTo" /\ ordered => (r.v < 0 <=> a.v < b.v) /\ (r.v > 0 <=> a.v > b.v)
       /\ name = "decimal" => r.v >= 0 /\ Holds(a, "I4", r.v \div 2) /\ Holds(b, "I4", (r.v \div 2) \div 2^Bits["I4"])

\* Of the unordered comparisons the code has only the ordered ones.
HasOrderedForm(t) == ~(t.op.un /\ Unordered(t.a, t.b)) \/ t.op.name = "bne"
Standard(t, r) ==
    LET integers == /\ t.a.kind \in Ints
                    /\ t.a.kind = t.b.kind \/ (t.b.kind = "I4" /\ t.op.name \in {"shl", "shr"})
        floats == t.a.kind \in Floats /\ t.a.kind = t.b.kind
        compares == t.op.name \in {"ceq", "cgt", "clt"}
    IN /\ (t.of = "branch" \/ (t.of = "binary" /\ compares)) /\ HasOrderedForm(t) => CompareStandard(t, r)
       /\ t.of = "binary" /\ compares => NullCheckStandard(t, r)
       /\ t.of = "binary" /\ ~compares /\ integers => IntegerStandard(t.op, t.a.kind, t.a.v, t.b.v, r)
       /\ t.of = "binary" /\ ~compares /\ floats =>
             IF t.op.name \in {"add", "sub", "mul", "div", "rem"}
             THEN r.kind = t.a.kind /\ FloatStandard(t.op.name, t.a.v, t.b.v, r.v)
             ELSE r = Error
       /\ t.of = "conv" => ConvStandard(t.op.name, t.a, r)
       /\ t.of = "math" => MathStandard(t.op.name, t.a, t.b, r)
=============================================================================
