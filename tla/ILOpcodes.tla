------------------------------ MODULE ILOpcodes ------------------------------
(***************************************************************************)
(* The opcodes of IL: their bytes and operands (il/opcode.go), and the     *)
(* instruction of the interpreter each becomes (ir/builder.go, Build).     *)
(* An arithmetic opcode is its name, whether it checks for overflow, and   *)
(* whether it is an unsigned one.                                          *)
(***************************************************************************)
EXTENDS Naturals, Integers, Sequences, TLC

Row(from, names) == [b \in from..(from + Len(names) - 1) |-> names[b - from + 1]]
OpTable ==
    Row(0, <<"nop", "break", "ldarg.0", "ldarg.1", "ldarg.2", "ldarg.3", "ldloc.0", "ldloc.1",
        "ldloc.2", "ldloc.3", "stloc.0", "stloc.1", "stloc.2", "stloc.3", "ldarg.s", "ldarga.s", "starg.s",
        "ldloc.s", "ldloca.s", "stloc.s", "ldnull", "ldc.i4.m1", "ldc.i4.0", "ldc.i4.1", "ldc.i4.2",
        "ldc.i4.3", "ldc.i4.4", "ldc.i4.5", "ldc.i4.6", "ldc.i4.7", "ldc.i4.8", "ldc.i4.s", "ldc.i4",
        "ldc.i8", "ldc.r4", "ldc.r8">>)
    @@ Row(37, <<"dup", "pop", "jmp", "call", "calli", "ret", "br.s", "brfalse.s", "brtrue.s", "beq.s",
        "bge.s", "bgt.s", "ble.s", "blt.s", "bne.un.s", "bge.un.s", "bgt.un.s", "ble.un.s", "blt.un.s",
        "br", "brfalse", "brtrue", "beq", "bge", "bgt", "ble", "blt", "bne.un", "bge.un", "bgt.un",
        "ble.un", "blt.un", "switch", "ldind.i1", "ldind.u1", "ldind.i2", "ldind.u2", "ldind.i4",
        "ldind.u4", "ldind.i8", "ldind.i", "ldind.r4", "ldind.r8", "ldind.ref", "stind.ref", "stind.i1",
        "stind.i2", "stind.i4", "stind.i8", "stind.r4", "stind.r8", "add", "sub", "mul", "div", "div.un",
        "rem", "rem.un", "and", "or", "xor", "shl", "shr", "shr.un", "neg", "not", "conv.i1", "conv.i2",
        "conv.i4", "conv.i8", "conv.r4", "conv.r8", "conv.u4", "conv.u8", "callvirt", "cpobj", "ldobj",
        "ldstr", "newobj", "castclass", "isinst", "conv.r.un">>)
    @@ Row(121, <<"unbox", "throw", "ldfld", "ldflda", "stfld", "ldsfld", "ldsflda", "stsfld", "stobj",
        "conv.ovf.i1.un", "conv.ovf.i2.un", "conv.ovf.i4.un", "conv.ovf.i8.un", "conv.ovf.u1.un",
        "conv.ovf.u2.un", "conv.ovf.u4.un", "conv.ovf.u8.un", "conv.ovf.i.un", "conv.ovf.u.un", "box",
        "newarr", "ldlen", "ldelema", "ldelem.i1", "ldelem.u1", "ldelem.i2", "ldelem.u2", "ldelem.i4",
        "ldelem.u4", "ldelem.i8", "ldelem.i", "ldelem.r4", "ldelem.r8", "ldelem.ref", "stelem.i",
        "stelem.i1", "stelem.i2", "stelem.i4", "stelem.i8", "stelem.r4", "stelem.r8", "stelem.ref",
        "ldelem", "stelem", "unbox.any">>)
    @@ Row(179, <<"conv.ovf.i1", "conv.ovf.u1", "conv.ovf.i2", "conv.ovf.u2", "conv.ovf.i4", "conv.ovf.u4",
        "conv.ovf.i8", "conv.ovf.u8">>)
    @@ Row(194, <<"refanyval", "ckfinite">>) @@ Row(198, <<"mkrefany">>)
    @@ Row(208, <<"ldtoken", "conv.u2", "conv.u1", "conv.i", "conv.ovf.i", "conv.ovf.u", "add.ovf",
        "add.ovf.un", "mul.ovf", "mul.ovf.un", "sub.ovf", "sub.ovf.un", "endfinally", "leave", "leave.s",
        "stind.i", "conv.u">>)
    @@ Row(65024, <<"arglist", "ceq", "cgt", "cgt.un", "clt", "clt.un", "ldftn", "ldvirtftn">>)
    @@ Row(65033, <<"ldarg", "ldarga", "starg", "ldloc", "ldloca", "stloc", "localloc">>)
    @@ Row(65041, <<"endfilter", "unaligned.", "volatile.", "tail.", "initobj", "constrained.", "cpblk",
        "initblk", "no.", "rethrow">>)
    @@ Row(65052, <<"sizeof", "refanytype", "readonly.">>)
Comparisons == {"eq", "ge", "gt", "le", "lt", "ne.un", "ge.un", "gt.un", "le.un", "lt.un"}
Branches == {"br", "brfalse", "brtrue", "leave"} \cup {"b" \o c : c \in Comparisons}
ShortBranches == {b \o ".s" : b \in Branches}
OperandOf(name) ==
    CASE name \in {"ldarg.s", "ldarga.s", "starg.s", "ldloc.s", "ldloca.s", "stloc.s", "unaligned.", "no."} -> "uint8"
      [] name = "ldc.i4.s" -> "int8"
      [] name \in {"ldc.i4", "ldc.r4"} -> "int32"
      [] name \in {"ldc.i8", "ldc.r8"} -> "int64"
      [] name \in {"ldarg", "ldarga", "starg", "ldloc", "ldloca", "stloc"} -> "uint16"
      [] name \in {"jmp", "call", "calli", "callvirt", "cpobj", "ldobj", "newobj", "castclass", "isinst", "unbox",
                   "ldfld", "ldflda", "stfld", "ldsfld", "ldsflda", "stsfld", "stobj", "box", "newarr", "ldelema",
                   "ldelem", "stelem", "unbox.any", "refanyval", "mkrefany", "ldtoken", "ldftn", "ldvirtftn",
                   "initobj", "constrained.", "sizeof", "ldstr"} -> "token"
      [] name \in ShortBranches -> "short"
      [] name \in Branches -> "long"
      [] name = "switch" -> "switch"
      [] OTHER -> "none"

OperandSize(kind) == CASE kind = "none" -> 0 [] kind \in {"uint8", "int8", "short"} -> 1 [] kind = "uint16" -> 2
                       [] kind = "int64" -> 8 [] OTHER -> 4

-----------------------------------------------------------------------------
\* What ir.Build makes of them: add.ovf and add.ovf.un are add, and only five
\* opcodes tell an unsigned form from the signed one.

Opcode(name, ovf, un) == [name |-> name, ovf |-> ovf, un |-> un]
BinaryOpcodes ==
    {op \in [name : {"add", "sub", "mul", "div", "rem", "shr", "cgt", "clt", "and", "or", "xor", "shl", "ceq"},
             ovf : BOOLEAN, un : BOOLEAN] :
        /\ op.ovf => op.name \in {"add", "sub", "mul"}
        /\ op.un => op.name \notin {"and", "or", "xor", "shl", "ceq"}}
BranchOpcodes ==
    {op \in [name : {"bge", "bgt", "ble", "blt", "beq", "bne"}, ovf : {FALSE}, un : BOOLEAN] :
        /\ op.name = "beq" => ~op.un
        /\ op.name = "bne" => op.un}
ConvOpcodes ==
    {op \in [name : {"i1", "u1", "i2", "u2", "i4", "u4", "i8", "u8", "i", "u", "r4", "r8", "r"},
             ovf : BOOLEAN, un : BOOLEAN] :
        op.name \in {"r4", "r8", "r"} => ~op.ovf /\ (op.un <=> op.name = "r")}
BuildBinOp(op) == [Op |-> op.name, Unsigned |-> op.un /\ op.name \in {"div", "rem", "shr", "cgt", "clt"}]
BuildBranch(op) == [Op |-> op.name, Unsigned |-> op.un]
BuildConv(op) == CASE op.name = "i" -> "i4" [] op.name = "u" -> "u4" [] op.name = "r" -> "r8"
                   [] OTHER -> op.name

Spelled(prefix, op) == prefix \o (IF prefix = "conv." /\ op.ovf THEN "ovf." ELSE "") \o op.name
                       \o (IF prefix = "" /\ op.ovf THEN ".ovf" ELSE "") \o (IF op.un THEN ".un" ELSE "")
ByName(prefix, ops) == [n \in {Spelled(prefix, op) : op \in ops} |-> CHOOSE op \in ops : Spelled(prefix, op) = n]
BinaryNames == ByName("", BinaryOpcodes)
ConvNames == ByName("conv.", ConvOpcodes)
BranchNames == ByName("", BranchOpcodes)
Long(name) == IF name \in ShortBranches THEN CHOOSE b \in Branches : b \o ".s" = name ELSE name
Digits(p) == {p \o "." \o ToString(d) : d \in 0..8}
Forms(p) == {p, p \o ".s"} \cup Digits(p)

\* The instruction for a name; fixed is the index or constant the name holds, if
\* it holds one, and in the operation of an arithmetic one.
FromOperand == -99
None == [Op |-> "", Unsigned |-> FALSE]
Translation(full) ==
    LET name == Long(full)
        instr(n) == [i |-> n, fixed |-> FromOperand, in |-> None]
        indexed(n, p) == [instr(n) EXCEPT !.fixed = IF name \in Digits(p)
                                                   THEN CHOOSE d \in 0..8 : name = p \o "." \o ToString(d)
                                                   ELSE FromOperand]
    IN CASE name \in {"nop", "break", "box", "unbox.any", "constrained.", "volatile.", "readonly.", "unaligned."} ->
              instr("Nop")
         [] name \in Forms("ldarg") -> indexed("LoadArg", "ldarg")
         [] name \in Forms("starg") -> instr("StoreArg")
         [] name \in Forms("ldarga") -> instr("LoadArgAddr")
         [] name \in Forms("ldloc") -> indexed("LoadLocal", "ldloc")
         [] name \in Forms("stloc") -> indexed("StoreLocal", "stloc")
         [] name \in Forms("ldloca") -> instr("LoadLocalAddr")
         [] name \in Forms("ldc.i4") -> indexed("LoadConstI4", "ldc.i4")
         [] name = "ldc.i4.m1" -> [instr("LoadConstI4") EXCEPT !.fixed = -1]
         [] name \in DOMAIN BinaryNames -> [instr("BinOp") EXCEPT !.in = BuildBinOp(BinaryNames[name])]
         [] name \in DOMAIN BranchNames -> [instr("BranchCompare") EXCEPT !.in = BuildBranch(BranchNames[name])]
         [] name \in DOMAIN ConvNames -> [instr("Conv") EXCEPT !.in.Op = BuildConv(ConvNames[name])]
         [] name \in {"ldelem.i4", "ldelem.ref", "ldelem"} -> instr("LoadElem")
         [] name \in {"stelem.i4", "stelem.ref", "stelem"} -> instr("StoreElem")
         [] name \in {"ldind.i4", "ldind.ref", "ldobj"} -> instr("LoadIndirect")
         [] name \in {"stind.i4", "stind.ref", "stobj"} -> instr("StoreIndirect")
         [] OTHER -> instr(name)

\* Both together, and the other way round.
Opcodes == [b \in DOMAIN OpTable |->
               LET t == Translation(OpTable[b])
               IN [name |-> OpTable[b], operand |-> OperandOf(OpTable[b]), i |-> t.i, fixed |-> t.fixed, in |-> t.in]]
Codes == [n \in {OpTable[b] : b \in DOMAIN OpTable} |-> CHOOSE b \in DOMAIN OpTable : OpTable[b] = n]
=============================================================================
