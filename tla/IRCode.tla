------------------------------- MODULE IRCode -------------------------------
(***************************************************************************)
(* From the bytes of a method body to its execution: the header, the       *)
(* instructions and the exception sections (il/decoder.go,                 *)
(* il/exceptions.go), their translation with branch targets and protected     *)
(* regions from byte offsets to indices (ir/builder.go), and the           *)
(* interpreter's loop over one frame (interpreter/eval.go, runFrame).      *)
(*                                                                         *)
(* The reference is a small language of statements: Emit is what a C#      *)
(* compiler makes of them, Means what they mean.  What the methods they    *)
(* call do, and the unwinding of exceptions, are other modules.            *)
(***************************************************************************)
EXTENDS Arithmetic, Sequences, SequencesExt, TLC

CONSTANTS Table, CodeOf,    \* Opcodes and Codes of ILOpcodes
          MaxArrayLength,   \* Limits.MaxArrayLength, 0 for none
          MaxSteps          \* bound: instructions of a run

Ok(v) == [ok |-> TRUE, val |-> v]
Fail == [ok |-> FALSE]

\* n bytes at pos (from 0), the low one first.
UintAt(data, pos, n) ==
    LET from[i \in 0..n] == IF i = n THEN 0 ELSE data[pos + i + 1] * 256^i + from[i + 1] IN from[0]
IntAt(data, pos, n) ==
    LET high == data[pos + n]
    IN UintAt(data, pos, n - 1) + 256^(n - 1) * (IF high >= 128 THEN high - 256 ELSE high)

\* The instruction at pos, and the offset after it.
DecodeOne(code, pos) ==
    LET wide == code[pos + 1] = 254
        at == IF wide THEN pos + 2 ELSE pos + 1
        op == IF wide THEN 65024 + code[at] ELSE code[at]
        kind == Table[op].operand
        past == at + OperandSize(kind)
        count == UintAt(code, at, 4)
        base == past + 4 * count
        operand == CASE kind = "none" -> 0
                     [] kind \in {"int8", "int32"} -> IntAt(code, at, OperandSize(kind))
                     [] kind \in {"short", "long"} -> past + IntAt(code, at, OperandSize(kind))
                     [] OTHER -> UintAt(code, at, IF kind = "int64" THEN 2 ELSE OperandSize(kind))
    IN IF at > Len(code) \/ (at <= Len(code) /\ op \notin DOMAIN Table) \/ past > Len(code) THEN Fail
       ELSE IF kind # "switch"
       THEN Ok([next |-> past, instr |-> [offset |-> pos, op |-> op, operand |-> operand, targets |-> <<>>]])
       ELSE IF base > Len(code) THEN Fail
       ELSE Ok([next |-> base,
                instr |-> [offset |-> pos, op |-> op, operand |-> 0,
                           targets |-> [i \in 1..count |-> base + IntAt(code, past + 4 * (i - 1), 4)]]])
RECURSIVE DecodeFrom(_, _, _)
DecodeFrom(code, pos, out) ==
    IF pos >= Len(code) THEN Ok(out)
    ELSE LET one == DecodeOne(code, pos)
         IN IF one.ok THEN DecodeFrom(code, one.val.next, Append(out, one.val.instr)) ELSE Fail
Decode(code) == DecodeFrom(code, 0, <<>>)

-----------------------------------------------------------------------------
\* The header and the exception sections.

ReadMethodBody(data) ==
    IF data = <<>> THEN Fail
    ELSE LET size == data[1] \div 4
             codeSize == UintAt(data, 4, 4)
         IN CASE data[1] % 4 = 2 ->
                   IF 1 + size > Len(data) THEN Fail
                   ELSE Ok([code |-> SubSeq(data, 2, 1 + size), end |-> 1 + size, more |-> FALSE])
              [] data[1] % 4 = 3 ->
                   IF Len(data) < 12 THEN Fail
                   ELSE IF data[2] \div 16 # 3 \/ 12 + codeSize > Len(data) THEN Fail
                   ELSE Ok([code |-> SubSeq(data, 13, 12 + codeSize), end |-> 12 + codeSize,
                            more |-> (data[1] \div 8) % 2 = 1])
              [] OTHER -> Fail

HandlerKinds == (0 :> "catch") @@ (1 :> "filter") @@ (2 :> "finally") @@ (4 :> "fault")
\* A small clause has two bytes for an offset and one for a length.
parseExceptionClause(c, fat) ==
    LET flags == UintAt(c, 0, IF fat THEN 4 ELSE 2)
        part(small, n, big) == IF fat THEN UintAt(c, big, 4) ELSE UintAt(c, small, n)
    IN IF flags \notin DOMAIN HandlerKinds THEN Fail
       ELSE Ok([kind |-> HandlerKinds[flags],
                tryOffset |-> part(2, 2, 4), tryLength |-> part(4, 1, 8),
                handlerOffset |-> part(5, 2, 12), handlerLength |-> part(7, 1, 16),
                extra |-> IF flags \in {0, 1} THEN part(8, 4, 20) ELSE 0])
RECURSIVE Sections(_, _, _)
Sections(data, pos, out) ==
    IF pos + 4 > Len(data) THEN Fail
    ELSE LET kind == data[pos + 1]
             fat == (kind \div 64) % 2 = 1
             size == IF fat THEN UintAt(data, pos + 1, 3) ELSE UintAt(data, pos + 1, 1)
             clauseSize == IF fat THEN 24 ELSE 12
             clauses == [i \in 1..((size - 4) \div clauseSize) |->
                            parseExceptionClause(SubSeq(data, pos + 5 + (i - 1) * clauseSize, pos + 4 + i * clauseSize), fat)]
             read == IF kind % 2 = 1 THEN clauses ELSE <<>>
             all == out \o [i \in DOMAIN read |-> read[i].val]
         IN IF size < 4 \/ pos + size > Len(data) THEN Fail
            ELSE IF \E i \in DOMAIN read : ~read[i].ok THEN Fail
            ELSE IF kind \div 128 = 1 THEN Sections(data, pos + size, all) ELSE Ok(all)
ReadExceptionHandlers(data, body) ==
    IF body.more THEN Sections(data, ((body.end + 3) \div 4) * 4, <<>>) ELSE Ok(<<>>)

-----------------------------------------------------------------------------
\* ir.Build.

Translated(i) ==
    LET t == Table[i.op]
    IN [i |-> t.i, in |-> t.in, x |-> IF t.fixed = FromOperand THEN i.operand ELSE t.fixed,
        targets |-> IF t.operand \in {"short", "long"} THEN <<i.operand>> ELSE i.targets]
\* Targets become indices of instructions; a target between two is refused.
Build(instrs) ==
    LET offsets == {instrs[i].offset : i \in DOMAIN instrs}
        indexOf(o) == CHOOSE i \in DOMAIN instrs : instrs[i].offset = o
        out == [i \in DOMAIN instrs |-> Translated(instrs[i])]
    IN IF \E i \in DOMAIN out : \E k \in DOMAIN out[i].targets : out[i].targets[k] \notin offsets THEN Fail
       ELSE Ok([i \in DOMAIN out |->
                  [out[i] EXCEPT !.targets = [k \in DOMAIN @ |-> indexOf(@[k])]]])

\* Mutant: a region that ends with the code is refused.
resolveEndWithin(o, instrs) ==
    IF \E i \in DOMAIN instrs : instrs[i].offset = o
    THEN CHOOSE i \in DOMAIN instrs : instrs[i].offset = o ELSE 0
\* The index of the instruction at o, or of the place after the last one; 0 when
\* o is inside an instruction.
resolveEnd(o, instrs) ==
    IF \E i \in DOMAIN instrs : instrs[i].offset = o
    THEN CHOOSE i \in DOMAIN instrs : instrs[i].offset = o
    ELSE IF \A i \in DOMAIN instrs : o > instrs[i].offset THEN Len(instrs) + 1 ELSE 0
\* Regions start at instructions.
buildHandlers(clauses, instrs) ==
    LET offsets == {instrs[i].offset : i \in DOMAIN instrs}
        indexOf(o) == CHOOSE i \in DOMAIN instrs : instrs[i].offset = o
        endOf(start, length) == resolveEnd(start + length, instrs)
        good(c) == /\ {c.tryOffset, c.handlerOffset} \subseteq offsets
                   /\ c.kind = "filter" => c.extra \in offsets
                   /\ endOf(c.tryOffset, c.tryLength) # 0 /\ endOf(c.handlerOffset, c.handlerLength) # 0
    IN IF \E k \in DOMAIN clauses : ~good(clauses[k]) THEN Fail
       ELSE Ok([k \in DOMAIN clauses |->
                  LET c == clauses[k]
                  IN [kind |-> c.kind,
                      tryStart |-> indexOf(c.tryOffset), tryEnd |-> endOf(c.tryOffset, c.tryLength),
                      handlerStart |-> indexOf(c.handlerOffset),
                      handlerEnd |-> endOf(c.handlerOffset, c.handlerLength),
                      filterStart |-> IF c.kind = "filter" THEN indexOf(c.extra) ELSE 0]])

-----------------------------------------------------------------------------
\* runFrame, one instruction.  A pointer is a Ref to a local, an argument or an
\* element of an array; arrays are numbered in the order they were made.

PointerTo(base, index) == [kind |-> "Ref", v |-> 1, fields |-> <<I4(base), I4(index)>>]
LocalBase == -1
ArgBase == -2
ReadFrom(f, p) ==
    LET base == p.fields[1].v
        index == p.fields[2].v
    IN IF base = LocalBase THEN f.locals[index] ELSE IF base = ArgBase THEN f.args[index] ELSE f.heap[base][index]
Written(f, p, v) ==
    LET base == p.fields[1].v
        index == p.fields[2].v
    IN IF base = LocalBase THEN [f EXCEPT !.locals[index] = v]
       ELSE IF base = ArgBase THEN [f EXCEPT !.args[index] = v] ELSE [f EXCEPT !.heap[base][index] = v]

Top(f, n) == f.stack[Len(f.stack) + 1 - n]
Dropped(f, n) == [f EXCEPT !.stack = SubSeq(@, 1, Len(@) - n)]
Pushed(f, v) == [f EXCEPT !.stack = Append(@, v)]
Ends(f, how, v) == [f EXCEPT !.out = [how |-> how, v |-> v]]
Raised(f, name) == Ends(f, name, Null)
Result(f, n, v) == IF v = Error THEN Ends(f, "error", Null) ELSE Pushed(Dropped(f, n), v)
Truthy(v) == IF v.kind = "Null" THEN FALSE ELSE v.v # 0

arrayIndex(f, arr, idx) ==
    IF arr.kind # "Array" THEN "NullReference"
    ELSE IF idx.v \notin 0..(Len(f.heap[arr.v]) - 1) THEN "IndexOutOfRange" ELSE "within"
WithElement(f, arr, idx, Then(_)) ==
    IF arrayIndex(f, arr, idx) = "within" THEN Then(PointerTo(arr.v, idx.v + 1)) ELSE Raised(f, arrayIndex(f, arr, idx))
NewArr(f, n) ==
    IF n.v < 0 THEN Raised(f, "Overflow")
    ELSE IF MaxArrayLength > 0 /\ n.v > MaxArrayLength THEN Ends(f, "ArrayTooLarge", Null)
    ELSE Pushed([Dropped(f, 1) EXCEPT !.heap = Append(@, [i \in 1..n.v |-> I4(0)])],
                Val("Array", Len(f.heap) + 1))
\* A call takes its arguments from the stack, the first the deepest; the method
\* these programs call gives their difference.
Callee(a, b) == evalBinOp(BuildBinOp(Opcode("sub", FALSE, FALSE)), a, b)
CallTo(f) == Pushed(Dropped(f, 2), Callee(Top(f, 2), Top(f, 1)))

MemoryInstructions == {"ldlen", "LoadElem", "StoreElem", "ldelema", "LoadIndirect", "StoreIndirect"}
ExecuteMemory(in, f) ==
    CASE in.i = "ldlen" -> IF Top(f, 1).kind # "Array" THEN Raised(f, "NullReference")
                           ELSE Pushed(Dropped(f, 1), I4(Len(f.heap[Top(f, 1).v])))
      [] in.i = "LoadElem" ->
           WithElement(f, Top(f, 2), Top(f, 1), LAMBDA p : Pushed(Dropped(f, 2), ReadFrom(f, p)))
      [] in.i = "StoreElem" ->
           WithElement(f, Top(f, 3), Top(f, 2), LAMBDA p : Written(Dropped(f, 3), p, Top(f, 1)))
      [] in.i = "ldelema" -> WithElement(f, Top(f, 2), Top(f, 1), LAMBDA p : Pushed(Dropped(f, 2), p))
      [] in.i = "LoadIndirect" ->
           IF Top(f, 1).kind # "Ref" THEN Raised(f, "NullReference")
           ELSE Pushed(Dropped(f, 1), ReadFrom(f, Top(f, 1)))
      [] in.i = "StoreIndirect" ->
           IF Top(f, 2).kind # "Ref" THEN Raised(f, "NullReference")
           ELSE Written(Dropped(f, 2), Top(f, 2), Top(f, 1))

\* After it, the next instruction or the target.
Execute(in, f) ==
    CASE in.i = "Nop" -> f
      [] in.i = "dup" -> Pushed(f, Top(f, 1))
      [] in.i = "pop" -> Dropped(f, 1)
      [] in.i = "LoadArg" -> Pushed(f, f.args[in.x + 1])
      [] in.i = "StoreArg" -> [Dropped(f, 1) EXCEPT !.args[in.x + 1] = Top(f, 1)]
      [] in.i = "LoadArgAddr" -> Pushed(f, PointerTo(ArgBase, in.x + 1))
      [] in.i = "LoadLocal" -> Pushed(f, f.locals[in.x + 1])
      [] in.i = "StoreLocal" -> [Dropped(f, 1) EXCEPT !.locals[in.x + 1] = Top(f, 1)]
      [] in.i = "LoadLocalAddr" -> Pushed(f, PointerTo(LocalBase, in.x + 1))
      [] in.i = "LoadConstI4" -> Pushed(f, I4(in.x))
      [] in.i = "ldnull" -> Pushed(f, Null)
      [] in.i = "BinOp" -> Result(f, 2, evalBinOp(in.in, Top(f, 2), Top(f, 1)))
      [] in.i = "neg" -> Result(f, 1, evalNeg(Top(f, 1)))
      [] in.i = "not" -> Result(f, 1, evalNot(Top(f, 1)))
      [] in.i = "Conv" -> Result(f, 1, evalConv(in.in.Op, Top(f, 1)))
      [] in.i = "BranchCompare" -> Dropped(f, 2)
      [] in.i \in {"brtrue", "brfalse", "switch"} -> Dropped(f, 1)
      [] in.i = "br" -> f
      [] in.i = "call" -> CallTo(f)
      [] in.i = "newarr" -> NewArr(f, Top(f, 1))
      [] in.i \in MemoryInstructions -> ExecuteMemory(in, f)
      [] in.i = "ret" -> Ends(f, "return", Top(f, 1))

NextIP(in, f) ==
    LET goes == CASE in.i = "br" -> TRUE
                  [] in.i = "brtrue" -> Truthy(Top(f, 1))
                  [] in.i = "brfalse" -> ~Truthy(Top(f, 1))
                  [] in.i = "BranchCompare" -> evalCompare(in.in, Top(f, 2), Top(f, 1)) = Bool(TRUE)
                  [] OTHER -> FALSE
    IN IF goes THEN in.targets[1]
       ELSE IF in.i = "switch" /\ Top(f, 1).v \in 0..(Len(in.targets) - 1) THEN in.targets[Top(f, 1).v + 1]
       ELSE f.ip + 1

RECURSIVE runFrame(_, _, _)
runFrame(code, f, fuel) ==
    IF f.out.how # "" THEN f
    ELSE IF f.ip > Len(code) \/ fuel = 0 THEN Ends(f, "error", Null)
    ELSE LET in == code[f.ip]
         IN runFrame(code, [Execute(in, f) EXCEPT !.ip = NextIP(in, f)], fuel - 1)
NewFrame(args, locals) ==
    [ip |-> 1, stack |-> <<>>, args |-> args, locals |-> locals, heap |-> <<>>, out |-> [how |-> "", v |-> Null]]

-----------------------------------------------------------------------------
\* What a compiler emits, and what the source means.  Local 0 and 1 are numbers
\* (they start as the arguments), local 2 an array.

Bytes(n, k) == [i \in 1..k |-> IF i > 4 THEN 0 ELSE (n \div 256^(i - 1)) % 256]
Emit1(name) == IF CodeOf[name] >= 65024 THEN <<254, CodeOf[name] - 65024>> ELSE <<CodeOf[name]>>
Emit2(name, operand) == Emit1(name) \o Bytes(operand, OperandSize(Table[CodeOf[name]].operand))
\* A branch over the code between, forward, or back over the code before and
\* the branch itself.
Jump(name, long, distance) == Emit2(IF long THEN name ELSE name \o ".s", distance)
JumpSize(long) == IF long THEN 5 ELSE 2
Push(n) == IF n \in 0..8 THEN Emit1("ldc.i4." \o ToString(n)) ELSE Emit2("ldc.i4.s", n)

Num(n) == [e |-> "num", n |-> n, sub |-> <<>>]
Local(i) == [e |-> "local", n |-> i, sub |-> <<>>]
Arg(i) == [e |-> "arg", n |-> i, sub |-> <<>>]
Apply(op, a, b) == [e |-> op, n |-> 0, sub |-> <<a, b>>]
RECURSIVE Emit(_)
Emit(e) == CASE e.e = "num" -> Push(e.n)
             [] e.e = "local" -> IF e.n < 4 THEN Emit1("ldloc." \o ToString(e.n)) ELSE Emit2("ldloc.s", e.n)
             [] e.e = "arg" -> Emit2("ldarg", e.n)
             [] e.e = "call" -> Emit(e.sub[1]) \o Emit(e.sub[2]) \o Emit2("call", 1)
             [] e.e = "elem" -> Emit2("ldloc.s", 2) \o Emit(e.sub[1]) \o Emit1("ldelem.i4")
             [] e.e = "length" -> Emit1("ldloc.2") \o Emit1("ldlen")
             [] OTHER -> Emit(e.sub[1]) \o Emit(e.sub[2]) \o Emit1(e.e)

Set(i, e) == [s |-> "set", n |-> i, e |-> <<e>>, sub |-> <<>>]
If(cmp, a, b, then, else) == [s |-> cmp, n |-> 0, e |-> <<a, b>>, sub |-> <<then, else>>]
While(cond, body) == [s |-> "while", n |-> 0, e |-> <<cond>>, sub |-> <<body>>]
Switch(e, cases) == [s |-> "switch", n |-> 0, e |-> <<e>>, sub |-> cases]
NewArray(e) == [s |-> "new", n |-> 0, e |-> <<e>>, sub |-> <<>>]
SetElem(i, e) == [s |-> "elem", n |-> 0, e |-> <<i, e>>, sub |-> <<>>]
AddTo(i, n) == [s |-> "inc", n |-> n, e |-> <<i>>, sub |-> <<>>]
Block(parts) == [s |-> "block", n |-> 0, e |-> <<>>, sub |-> parts]
Skip == Block(<<>>)
\* A conditional jumps over its body when the opposite comparison holds.
Opposite == ("blt" :> "bge") @@ ("bgt" :> "ble") @@ ("beq" :> "bne.un") @@ ("blt.un" :> "bge.un")
            @@ ("bge" :> "blt") @@ ("ble" :> "bgt")
RECURSIVE EmitS(_, _)
EmitS(s, long) ==
    CASE s.s = "set" -> Emit(s.e[1]) \o Emit1("stloc." \o ToString(s.n))
      [] s.s = "new" -> Emit(s.e[1]) \o Emit2("newarr", 1) \o Emit2("stloc", 2)
      [] s.s = "elem" -> Emit1("ldloc.2") \o Emit(s.e[1]) \o Emit(s.e[2]) \o Emit1("stelem.i4")
      [] s.s = "inc" -> Emit1("ldloc.2") \o Emit(s.e[1]) \o Emit2("ldelema", 1) \o Emit1("dup")
                        \o Emit1("ldind.i4") \o Push(s.n) \o Emit1("add") \o Emit1("stind.i4")
      [] s.s = "block" -> FoldLeft(LAMBDA code, part : code \o EmitS(part, long), <<>>, s.sub)
      [] s.s = "while" ->
           LET body == EmitS(s.sub[1], long)
               cond == Emit(s.e[1])
           IN Jump("br", long, Len(body)) \o body \o cond
              \o Jump("brtrue", long, -(Len(body) + Len(cond) + JumpSize(long)))
      [] s.s = "switch" ->
           LET codes == [i \in DOMAIN s.sub |-> EmitS(s.sub[i], long)]
               size(i) == Len(codes[i]) + JumpSize(long)
               all == FoldFunctionOnSet(LAMBDA a, b : a + b, 0, [i \in DOMAIN codes |-> size(i)], DOMAIN codes)
               start(i) == FoldFunctionOnSet(LAMBDA a, b : a + b, 0, [j \in DOMAIN codes |-> size(j)], 1..(i - 1))
               rest(i) == all - start(i) - size(i)
               targets == [i \in DOMAIN codes |-> Bytes(JumpSize(long) + start(i), 4)]
           IN Emit(s.e[1]) \o Emit1("switch") \o Bytes(Len(s.sub), 4) \o FlattenSeq(targets)
              \o Jump("br", long, all)
              \o FlattenSeq([i \in DOMAIN codes |-> codes[i] \o Jump("br", long, rest(i))])
      [] OTHER ->
           LET then == EmitS(s.sub[1], long)
               else == EmitS(s.sub[2], long)
           IN Emit(s.e[1]) \o Emit(s.e[2]) \o Jump(Opposite[s.s], long, Len(then) + JumpSize(long))
              \o then \o Jump("br", long, Len(else)) \o else

\* A state of the source program: the numbers, the array, what was raised.
Meaning(x, y) == [vars |-> [i \in 0..1 |-> IF i = 0 THEN x ELSE y], args |-> <<x, y>>, arr |-> <<>>, raised |-> ""]
Within(n) == Signed(n, Bits["I4"])
RECURSIVE ValueOf(_, _)
ValueOf(e, m) ==
    LET a == ValueOf(e.sub[1], m)
        b == ValueOf(e.sub[2], m)
    IN CASE e.e = "num" -> e.n [] e.e = "local" -> m.vars[e.n] [] e.e = "arg" -> m.args[e.n + 1]
         [] e.e \in {"call", "sub"} -> Within(a - b) [] e.e = "add" -> Within(a + b)
         [] e.e = "clt" -> IF a < b THEN 1 ELSE 0
         [] e.e = "elem" -> m.arr[a + 1]
         [] e.e = "length" -> Len(m.arr)
Truth(cmp, a, b) == CASE cmp = "blt" -> a < b [] cmp = "bgt" -> a > b [] cmp = "beq" -> a = b
                      [] cmp = "bge" -> a >= b [] cmp = "ble" -> a <= b
                      [] cmp = "blt.un" -> Unsigned(a, Bits["I4"]) < Unsigned(b, Bits["I4"])
Outside(e, m) == ValueOf(e, m) \notin 0..(Len(m.arr) - 1)
RECURSIVE Means(_, _, _)
Means(s, m, fuel) ==
    IF m.raised # "" THEN m
    ELSE IF fuel = 0 THEN [m EXCEPT !.raised = "endless"]
    ELSE CASE s.s = "set" -> IF s.e[1].e = "elem" /\ Outside(s.e[1].sub[1], m)
                             THEN [m EXCEPT !.raised = "IndexOutOfRange"]
                             ELSE [m EXCEPT !.vars[s.n] = ValueOf(s.e[1], m)]
           [] s.s = "new" -> LET n == ValueOf(s.e[1], m)
                             IN IF n < 0 THEN [m EXCEPT !.raised = "Overflow"]
                                ELSE IF MaxArrayLength > 0 /\ n > MaxArrayLength
                                THEN [m EXCEPT !.raised = "ArrayTooLarge"]
                                ELSE [m EXCEPT !.arr = [i \in 1..n |-> 0]]
           [] s.s \in {"elem", "inc"} ->
                IF Outside(s.e[1], m) THEN [m EXCEPT !.raised = "IndexOutOfRange"]
                ELSE [m EXCEPT !.arr[ValueOf(s.e[1], m) + 1] =
                                  IF s.s = "elem" THEN ValueOf(s.e[2], m) ELSE Within(@ + s.n)]
           [] s.s = "block" -> FoldLeft(LAMBDA acc, part : Means(part, acc, fuel), m, s.sub)
           [] s.s = "while" -> IF ValueOf(s.e[1], m) = 0 THEN m
                               ELSE Means(s, Means(s.sub[1], m, fuel - 1), fuel - 1)
           [] s.s = "switch" -> LET n == ValueOf(s.e[1], m)
                                IN IF n \in 0..(Len(s.sub) - 1) THEN Means(s.sub[n + 1], m, fuel) ELSE m
           [] OTHER -> Means(IF Truth(s.s, ValueOf(s.e[1], m), ValueOf(s.e[2], m)) THEN s.sub[1] ELSE s.sub[2], m, fuel)

-----------------------------------------------------------------------------
\* The tasks: a program to run, a jump or a protected region to translate, a
\* pair of opcodes to tell apart, a body to cut short.

Header(code, more) ==
    IF ~more /\ Len(code) < 64 THEN <<4 * Len(code) + 2>> \o code
    ELSE <<IF more THEN 11 ELSE 3, 48>> \o Bytes(8, 2) \o Bytes(Len(code), 4) \o Bytes(0, 4) \o code
KindCode(kind) == CHOOSE k \in DOMAIN HandlerKinds : HandlerKinds[k] = kind
ClauseBytes(c, fat) ==
    Bytes(KindCode(c.kind), IF fat THEN 4 ELSE 2)
    \o Bytes(c.tryOffset, IF fat THEN 4 ELSE 2) \o Bytes(c.tryLength, IF fat THEN 4 ELSE 1)
    \o Bytes(c.handlerOffset, IF fat THEN 4 ELSE 2) \o Bytes(c.handlerLength, IF fat THEN 4 ELSE 1)
    \o Bytes(c.extra, 4)
Section(c, fat, more) ==
    LET size == 4 + Len(ClauseBytes(c, fat))
    IN <<1 + (IF fat THEN 64 ELSE 0) + (IF more THEN 128 ELSE 0)>> \o Bytes(size, 3) \o ClauseBytes(c, fat)
Padded(data) == data \o [i \in 1..((4 - (Len(data) % 4)) % 4) |-> 0]
\* Two sections, one clause each.
Body(code, c, d, fat) == Padded(Header(code, TRUE)) \o Section(c, fat, TRUE) \o Section(d, ~fat, FALSE)

x == Local(0)
y == Local(1)
Ret(e) == Emit(e) \o Emit1("ret")
Programs(c) ==
    {<<While(Apply("clt", x, Num(c)), Block(<<Set(1, Apply(op, y, x)), Set(0, Apply("add", x, Num(1)))>>)), y>> :
        op \in {"add", "sub", "call"}}
    \cup {<<If(cmp, x, y, Set(0, Num(c)), If("beq", y, Num(c), Set(1, x), Skip)), Apply("sub", x, Apply("call", y, Arg(0)))>> :
        cmp \in DOMAIN Opposite}
    \cup {<<Switch(Apply("sub", x, Num(1)), <<Set(0, Num(c)), Set(1, x), If("blt", x, y, Set(0, y), Skip)>>),
             Apply("add", x, y)>>}
    \cup {<<Block(<<NewArray(Num(c)), SetElem(x, y), AddTo(y, 3), Set(0, Apply("elem", y, Num(0))),
                    While(Apply("clt", x, Apply("length", x, x)), Set(0, Apply("add", x, Num(1))))>>),
             Apply("add", x, Arg(1))>>}
Sample == <<Emit1("nop"), Emit2("ldc.i4.s", 7), Emit1("ceq"), Emit2("ldc.i4", 300), Emit1("pop"), Emit2("ldstr", 9)>>
SampleCode == FlattenSeq(Sample)
SampleOffsets == {Len(FlattenSeq(SubSeq(Sample, 1, i - 1))) : i \in DOMAIN Sample}
Clause(kind, a, m, b, n, extra) ==
    [kind |-> kind, tryOffset |-> a, tryLength |-> m, handlerOffset |-> b, handlerLength |-> n, extra |-> extra]
Whole == Clause("catch", 0, 1, 3, 2, 5)
Task(of, prog, arg, long, clause, name) ==
    [of |-> of, prog |-> prog, arg |-> arg, long |-> long, clause |-> clause, name |-> name]
IsCodeTask(t) ==
    \/ \E c \in {-1, 2, 3} : \E prog \in Programs(c), a \in -1..4, b \in {-2, 0, 1, 2, 3}, long \in BOOLEAN :
            t = Task("program", prog, <<a, b>>, long, Whole, "")
    \/ \E d \in -12..20, name \in {"br", "beq"}, long \in BOOLEAN : t = Task("jump", <<>>, <<d>>, long, Whole, name)
    \/ \E kind \in {"catch", "filter", "finally", "fault"}, a, b \in 0..(Len(SampleCode) + 1), m \in 0..6, long \in BOOLEAN :
            t = Task("region", <<>>, <<>>, long, Clause(kind, a, m, b, 2, IF kind \in {"catch", "filter"} THEN a ELSE 0), "")
    \/ \E n \in DOMAIN CodeOf : t = Task("opcodes", <<>>, <<>>, FALSE, Whole, n)
    \/ \E n \in 0..(Len(Body(SampleCode, Whole, Whole, TRUE)) - 1), long \in BOOLEAN :
            t = Task("cut", <<>>, <<n>>, long, Whole, "")

\* A branch at the end of the sample, over d bytes.
JumpCode(t) == SampleCode \o Jump(t.name, t.long, t.arg[1])
ProgramCode(t) == EmitS(t.prog[1], t.long) \o Ret(t.prog[2])
\* Each opcode, with an operand of its size, between two others.
OpcodeCode(name) ==
    Emit2("ldc.i4", 70000) \o Emit1(name)
    \o (IF name = "switch" THEN Bytes(1, 4) \o Bytes(0, 4) ELSE Bytes(3, OperandSize(Table[CodeOf[name]].operand)))
    \o Emit1("ceq")
RunCode(t) ==
    CASE t.of = "program" ->
           LET body == ReadMethodBody(Header(ProgramCode(t), FALSE))
               code == Build(Decode(body.val.code).val)
               f == runFrame(code.val, NewFrame(<<I4(t.arg[1]), I4(t.arg[2])>>, <<I4(t.arg[1]), I4(t.arg[2]), Null>>), MaxSteps)
           IN f.out
      [] t.of = "jump" -> Build(Decode(JumpCode(t)).val)
      [] t.of = "region" ->
           LET data == Body(SampleCode, t.clause, Whole, t.long)
               body == ReadMethodBody(data)
               clauses == ReadExceptionHandlers(data, body.val)
           IN <<clauses, buildHandlers(clauses.val, Decode(body.val.code).val)>>
      [] t.of = "opcodes" -> Decode(OpcodeCode(t.name))
      [] t.of = "cut" ->
           LET data == SubSeq(Body(SampleCode, Whole, Whole, t.long), 1, t.arg[1])
               body == ReadMethodBody(data)
           IN IF body.ok THEN ReadExceptionHandlers(data, body.val) ELSE Fail

\* A program has the outcome of its source.
ProgramStandard(t, out) ==
    LET m == Means(t.prog[1], Meaning(t.arg[1], t.arg[2]), MaxSteps)
    IN IF m.raised = "" THEN out = [how |-> "return", v |-> I4(ValueOf(t.prog[2], m))]
       ELSE out.how = m.raised
\* A jump goes to the instruction at its target; there has to be one.
JumpStandard(t, r) ==
    LET past == Len(SampleCode) + JumpSize(t.long)
        target == past + t.arg[1]
        offsets == SampleOffsets \cup {Len(SampleCode)}
    IN IF target \notin offsets THEN r = Fail
       ELSE r.ok /\ r.val[Len(Sample) + 1].targets[1] = Cardinality({o \in offsets : o <= target})
\* An instruction is in the region of indices if its offset is in the region of
\* bytes: the region that is empty, that ends with the code, that the next joins.
RegionStandard(t, clauses, r) ==
    LET offset(i) == Len(FlattenSeq(SubSeq(Sample, 1, i - 1)))
        inside(i, from, length) == offset(i) \in from..(from + length - 1)
        c == t.clause
    IN /\ clauses = Ok(<<c, Whole>>)
       /\ r.ok => \A i \in DOMAIN Sample :
             /\ inside(i, c.tryOffset, c.tryLength) <=> i \in r.val[1].tryStart..(r.val[1].tryEnd - 1)
             /\ inside(i, c.handlerOffset, c.handlerLength)
                  <=> i \in r.val[1].handlerStart..(r.val[1].handlerEnd - 1)
             /\ c.kind = "filter" => (i = r.val[1].filterStart <=> offset(i) = c.extra)
       /\ ({c.tryOffset, c.handlerOffset} \subseteq SampleOffsets
            /\ {c.tryOffset + c.tryLength, c.handlerOffset + c.handlerLength} \subseteq SampleOffsets \cup {Len(SampleCode)})
          => r.ok
OpcodesStandard(t, r) ==
    /\ r.ok /\ [i \in DOMAIN r.val |-> Table[r.val[i].op].name] = <<"ldc.i4", t.name, "ceq">>
    /\ r.val[1].operand = 70000 /\ r.val[2].offset = 5
    /\ Table[CodeOf[t.name]].operand \notin {"none", "short", "long", "switch"} => r.val[2].operand = 3
CodeStandard(t, r) ==
    CASE t.of = "program" -> ProgramStandard(t, r)
      [] t.of = "jump" -> JumpStandard(t, r)
      [] t.of = "region" -> RegionStandard(t, r[1], r[2])
      [] t.of = "opcodes" -> OpcodesStandard(t, r)
      [] t.of = "cut" -> ~r.ok
=============================================================================
