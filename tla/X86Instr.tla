------------------------------ MODULE X86Instr ------------------------------
(* The instruction classes of lasm (tools/lasm/Encoder/x86/<group>): what    *)
(* the constructor of each class makes of a mnemonic and its operands, and   *)
(* what its optimizeS makes of it once the values are known.                 *)
(*                                                                           *)
(* An instruction is [bits, mn, ops]; an operand is [k |-> "reg", r], a      *)
(* memory operand of module X86, or [k |-> "imm", e].                        *)
EXTENDS X86

Reg(r) == [k |-> "reg", r |-> r]
IsReg(op) == op.k = "reg"
IsMem(op) == op.k = "mem"
IsImm(op) == op.k = "imm"

\* A register or memory operand in the r/m field.
Rm(f, op, expectSize) ==
    IF IsReg(op) THEN parseRegister(f, op.r, FALSE) ELSE parseMemory(f, op, expectSize)

SizeOf(f, op) == IF IsReg(op) THEN getRegSize(op.r, f.bits) ELSE op.size

\* A memory operand without a size takes the size of the other operand.
Agreed(s, t) == IF s = 0 THEN t ELSE IF t = 0 \/ s = t THEN s ELSE -1
CommonSize(f, a, b) == Agreed(SizeOf(f, a), SizeOf(f, b))

\* The two operands of the "r/m, r" (rmFirst) or "r, r/m" form.
RmReg(f, a, b, rmFirst) ==
    Rm(parseRegister(f, (IF rmFirst THEN b ELSE a).r, TRUE), IF rmFirst THEN a ELSE b, FALSE)

GPROnly(f, ops) == Require(f, \A op \in ops : IsReg(op) => op.r \in isGPR)

\* AH, CH, DH and BH cannot be named together with a REX prefix.
NoHighWithREX(f, ops) ==
    Require(f, "use" \in f.rex => \A op \in ops : IsReg(op) => op.r \notin Elems(High8))

\* The operand size s, and the opcode for 8 bits or, one above it, for more.
Sized(f, s, opcode) == Opcode(OperandSize(f, s), opcode + flag(s # 8))

Accumulators == {"AL", "AX", "EAX", "RAX"}

-----------------------------------------------------------------------------
(* Instructions without operands, and with one immediate *)

Plain == [NOP |-> 144, HLT |-> 244, CLC |-> 248, STC |-> 249, CMC |-> 245, CLD |-> 252,
          STD |-> 253, CLI |-> 250, STI |-> 251, LAHF |-> 159, SAHF |-> 158,
          INT3 |-> 204, INT1 |-> 241]
Simple(f, i) == Opcode(f, Plain[i.mn])

Simple_Interrupt(f, i) ==
    CASE i.mn = "INTO"  -> Require(Opcode(f, 206), f.bits # 64)
      [] i.mn = "IRET"  -> IF f.bits # 64 THEN Opcode(f, 207)
                           ELSE Rex(Opcode(f, 207), {"use", "w"})
      [] i.mn = "IRETQ" -> Require(Rex(Opcode(f, 207), {"use", "w"}), f.bits = 64)
      [] i.mn = "IRETD" -> IF f.bits = 16 THEN Prefix(Opcode(f, 207), "66") ELSE Opcode(f, 207)
      [] OTHER -> LET second == [SYSCALL |-> 5, SYSRET |-> 7, SYSENTER |-> 52, SYSEXIT |-> 53]
                  IN  Escape(Opcode(f, second[i.mn]), <<15>>)

Argument_Interrupt(f, i) == Imm(Opcode(f, 205), i.ops[1].e, 8)

ASCII(f, i) ==
    LET g == Require(f, f.bits # 64)
    IN  CASE i.mn = "AAA" -> Opcode(g, 55)
          [] i.mn = "AAS" -> Opcode(g, 63)
          [] OTHER -> Imm(Opcode(g, IF i.mn = "AAD" THEN 213 ELSE 212), i.ops[1].e, 8)

RET(f, i) == IF i.ops = <<>> THEN Opcode(f, 195) ELSE Imm(Opcode(f, 194), i.ops[1].e, 16)

StackOps == [PUSHA |-> 96, POPA |-> 97, PUSHAD |-> 96, POPAD |-> 97, PUSHF |-> 156,
             POPF |-> 157, PUSHFD |-> 156, POPFD |-> 157, PUSHFQ |-> 156, POPFQ |-> 157]
Simple_Stack(f, i) ==
    LET double == i.mn \in {"PUSHAD", "POPAD", "PUSHFD", "POPFD"}
        g == Require(Opcode(f, StackOps[i.mn]),
                     CASE i.mn \in {"PUSHFQ", "POPFQ"} -> f.bits = 64
                       [] i.mn \in {"PUSHF", "POPF"} -> TRUE
                       [] OTHER -> f.bits # 64)
    IN  IF double /\ f.bits = 16 THEN Prefix(g, "66") ELSE g

-----------------------------------------------------------------------------
(* Jumps, calls and the stack *)

\* The prefix of an indirect target, and the sizes each mode refuses.
Target(f, s) ==
    LET g == Require(f, s # 8 /\ (f.bits = 64 => s \notin {16, 32}) /\ (f.bits # 64 => s # 64))
    IN  IF (s = 16 /\ f.bits = 32) \/ (s = 32 /\ f.bits = 16) THEN Prefix(g, "66") ELSE g

Relative(f, e) ==
    [Signed(Imm(f, e, IF f.bits = 16 THEN 16 ELSE 32), TRUE) EXCEPT !.imm.ripRelative = TRUE]

CC == [JE |-> 4, JNE |-> 5, JG |-> 15, JGE |-> 13, JL |-> 12, JLE |-> 14, JA |-> 7, JAE |-> 3,
       JB |-> 2, JBE |-> 6, JO |-> 0, JNO |-> 1, JS |-> 8, JNS |-> 9, JP |-> 10, JNP |-> 11,
       JC |-> 2, JNC |-> 3]

\* jmp through a register does not go through parseRegister and its checks.
JmpReg(f, r) ==
    Digit(Opcode(RegisterField(Require(Target(f, getRegSize(r, f.bits)), r \in isGPR),
                               getReg[r], FALSE), 255), 4)

JMP(f, i) ==
    LET op == i.ops[1]
        g  == CanOptimize(Relative(f, op.e), TRUE)
    IN  CASE i.mn = "JMP" /\ IsReg(op) -> JmpReg(f, op.r)
          [] i.mn = "JMP" /\ IsMem(op) ->
                 Digit(Opcode(Target(parseMemory(f, op, FALSE), op.size), 255), 4)
          [] i.mn = "JMP" /\ IsImm(op) -> Opcode(g, 233)
          [] OTHER -> IF IsImm(op) THEN Escape(Opcode(g, 128 + CC[i.mn]), <<15>>)
                      ELSE Require(f, FALSE)

CALL(f, i) ==
    LET op == i.ops[1]
    IN  IF IsImm(op) THEN Opcode(Relative(f, op.e), 232)
        ELSE Digit(Opcode(Target(GPROnly(Rm(f, op, FALSE), {op}), SizeOf(f, op)), 255), 2)

\* push and pop of a register skip parseRegister as well.
StackSize(f, s) ==
    Require(IF s \in {16, 32} THEN OperandSize(f, s) ELSE f,
            s \in {16, 32, 64} /\ (f.bits = 64 => s # 32) /\ (f.bits # 64 => s # 64))

StackReg(f, g, opcode) ==
    Opcode(Rex(f, {x \in {"use", "b"} : IF x = "use" THEN g.setREX ELSE g.useREX}), opcode + g.index)

Normal_Stack(f, i) ==
    LET op == i.ops[1]
        push == i.mn = "PUSH"
    IN  CASE IsImm(op) ->
                 CanOptimize(Signed(Imm(Opcode(Require(f, push), 104), op.e, IF f.bits = 16 THEN 16 ELSE 32),
                                    f.bits = 64), TRUE)
          [] IsReg(op) ->
                 StackReg(GPROnly(StackSize(f, SizeOf(f, op)), {op}), getReg[op.r],
                          IF push THEN 80 ELSE 88)
          [] IsMem(op) -> Digit(Opcode(StackSize(parseMemory(f, op, TRUE), op.size),
                                       IF push THEN 255 ELSE 143), IF push THEN 6 ELSE 0)

-----------------------------------------------------------------------------
(* Arithmetic *)

ALU == [ADD |-> 0, OR |-> 1, ADC |-> 2, SBB |-> 3, AND |-> 4, SUB |-> 5, XOR |-> 6, CMP |-> 7]

\* An immediate as wide as the operand, of at most 32 bits.
ImmOf(f, e, s) == Imm(f, e, IF s = 64 THEN 32 ELSE s)

\* al, ax, eax, rax with an immediate: the short form without a ModR/M byte.
AccumulatorImm(f, i, s) ==
    IF i.mn = "TEST" THEN ImmOf(Sized(f, s, 168), i.ops[2].e, s)
    ELSE [CanOptimize(ImmOf(Sized(f, s, 8 * ALU[i.mn] + 4), i.ops[2].e, s), s # 8)
             EXCEPT !.target = i.ops[1].r]

\* f holds the operand.
RmImm(f, i, s) ==
    IF i.mn = "TEST" THEN ImmOf(Sized(f, s, 246), i.ops[2].e, s)
    ELSE CanOptimize(ImmOf(Digit(Sized(f, s, 128), ALU[i.mn]), i.ops[2].e, s), s # 8)

Two_Argument_ALU(f, i) ==
    LET a == i.ops[1]
        b == i.ops[2]
    IN  CASE IsImm(b) /\ IsReg(a) /\ a.r \in Accumulators ->
                 AccumulatorImm(f, i, getRegSize(a.r, f.bits))
          [] IsImm(b) /\ ~(IsReg(a) /\ a.r \in Accumulators) ->
                 RmImm(GPROnly(Rm(f, a, TRUE), {a}), i, SizeOf(f, a))
          [] IsMem(a) /\ IsMem(b) -> Require(f, FALSE)
          [] OTHER ->
                 NoHighWithREX(
                     Sized(GPROnly(RmReg(f, a, b, IsReg(b)), {a, b}), CommonSize(f, a, b),
                           IF i.mn = "TEST" THEN 132 ELSE 8 * ALU[i.mn] + (IF IsReg(b) THEN 0 ELSE 2)),
                     {a, b})

\* The size is 32 or 64 bits, whatever the mode.
SizedADX(f, s) ==
    Opcode(Escape(IF s = 64 THEN Rex(f, {"use", "w"}) ELSE Require(f, s = 32), <<15, 56>>), 246)

ADX(f, i) ==
    LET a == i.ops[1]
        b == i.ops[2]
    IN  SizedADX(GPROnly(RmReg(Prefix(f, IF i.mn = "ADCX" THEN "66op" ELSE "F3op"), a, b, FALSE),
                         {a, b}),
                 CommonSize(f, a, b))

One_Argument(f, op, opcode8, digit) ==
    Digit(Sized(GPROnly(Rm(f, op, TRUE), {op}), SizeOf(f, op), opcode8), digit)

\* imul with a destination register: r, r/m and r, r/m, imm.
ImulSized(f, i, s) ==
    IF Len(i.ops) = 2 THEN Escape(Opcode(f, 175), <<15>>)
    ELSE CanOptimize(ImmOf(Opcode(f, 105), i.ops[3].e, s), TRUE)

ImulReg(f, i, s) ==
    ImulSized(Require(OperandSize(GPROnly(RmReg(f, i.ops[1], i.ops[2], FALSE), {i.ops[1], i.ops[2]}), s),
                      s # 8),
              i, s)

Mul_Div(f, i) ==
    LET digits == [MUL |-> 4, IMUL |-> 5, DIV |-> 6, IDIV |-> 7]
    IN  IF Len(i.ops) > 1
        THEN IF IsReg(i.ops[1]) /\ ~IsImm(i.ops[2])
             THEN ImulReg(f, i, CommonSize(f, i.ops[1], i.ops[2])) ELSE Require(f, FALSE)
        ELSE One_Argument(f, i.ops[1], 246, digits[i.mn])

Shift_Rotate(f, i) ==
    LET digits == [ROL |-> 0, ROR |-> 1, RCL |-> 2, RCR |-> 3, SHL |-> 4, SAL |-> 4,
                   SHR |-> 5, SAR |-> 7]
        count == i.ops[2]
        g == IF IsReg(count) THEN Require(f, count.r = "CL")
             ELSE CanOptimize(Imm(f, count.e, 8), TRUE)
    IN  One_Argument(g, i.ops[1], IF IsReg(count) THEN 210 ELSE 192, digits[i.mn])

\* inc and dec of a register have a one-byte form outside 64-bit mode.
ShortForm(f, i) ==
    LET op == i.ops[1]
    IN  IF IsReg(op) /\ f.bits # 64 /\ SizeOf(f, op) # 8 /\ i.mn \in {"INC", "DEC"}
        THEN [Opcode(f, (IF i.mn = "INC" THEN 64 ELSE 72) + getReg[op.r].index)
                 EXCEPT !.modrm.use = FALSE]
        ELSE f

Argument_ALU(f, i) ==
    LET forms == [NOT |-> <<246, 2>>, NEG |-> <<246, 3>>, INC |-> <<254, 0>>, DEC |-> <<254, 1>>]
    IN  ShortForm(One_Argument(f, i.ops[1], forms[i.mn][1], forms[i.mn][2]), i)

-----------------------------------------------------------------------------
(* mov *)

\* crX and drX: the other register is the r/m, whichever way the value goes.
\* s is the special register, r the other one.
SpecialFields(f, s, r, toSpecial) ==
    Escape(Opcode(Digit(RegisterField(RexFor(f, [useREX |-> s \in Only64, setREX |-> s \in Only64], "r"),
                                      getReg[r], FALSE),
                        getReg[s].index),
                  32 + flag(s \in DebugRegs) + 2 * flag(toSpecial)),
           <<15>>)

MovSpecial(f, a, b) ==
    LET special == ControlRegs \cup DebugRegs
        toSpecial == a.r \in special
    IN  SpecialFields(Require(checkReg(checkReg(f, a.r), b.r),
                              /\ ~({a.r, b.r} \subseteq special)
                              /\ getRegSize(a.r, f.bits) = getRegSize(b.r, f.bits)),
                      IF toSpecial THEN a.r ELSE b.r, IF toSpecial THEN b.r ELSE a.r, toSpecial)

SizedSegment(f, s, store) == IF s = 16 /\ store /\ f.bits # 16 THEN Prefix(f, "66") ELSE f

MovSegment(f, a, b) ==
    LET rmFirst == IsReg(b) /\ b.r \in isSegment
        both == rmFirst /\ IsReg(a) /\ a.r \in isSegment
        oneMem == IsMem(a) \/ IsMem(b)
        s == IF SizeOf(f, a) = 0 THEN SizeOf(f, b) ELSE SizeOf(f, a)
    IN  SizedSegment(Require(Opcode(RmReg(f, a, b, rmFirst), IF rmFirst THEN 140 ELSE 142),
                             /\ ~both
                             /\ oneMem => CommonSize(f, a, b) # -1
                             /\ s \in {16, 32, 64}),
                     s, ~oneMem /\ rmFirst)

\* An immediate into a register: the register is not checked against the mode.
MovRegImm(f, r, e, s) ==
    [CanOptimize(Opcode(RexFor(Imm(OperandSize(f, s), e, s), getReg[r], "b"),
                        (IF s = 8 THEN 176 ELSE 184) + getReg[r].index), s = 64)
        EXCEPT !.target = r]

MovMemImm(f, m, e) ==
    ImmOf(Sized(parseMemory(f, m, FALSE), m.size, 198), e, m.size)

\* The accumulator and an address without registers, outside 64-bit mode.
IsMoffs(f, a, b) ==
    /\ f.bits # 64
    /\ \E m, r \in {a, b} : /\ IsMem(m) /\ m.r1 = "none" /\ m.r2 = "none" /\ m.disp # NoExpr
                            /\ IsReg(r) /\ r.r \in Accumulators
MovMoffs(f, a, b) ==
    [Displaced(Opcode(f, 160 + 2 * flag(IsMem(a))), IF IsMem(a) THEN a ELSE b, FALSE) EXCEPT !.am = f.bits]

MovPlain(f, a, b) ==
    IF IsMoffs(f, a, b) THEN MovMoffs(f, a, b)
    ELSE Opcode(RmReg(f, a, b, IsReg(b)), 136 + 2 * flag(~IsReg(b)))

MovSized(f, s) == checkSize(Sized(f, s, f.opcode), s)

Mov(f, i) ==
    LET a == i.ops[1]
        b == i.ops[2]
        has(regs) == (IsReg(a) /\ a.r \in regs) \/ (IsReg(b) /\ b.r \in regs)
    IN  CASE has(isSegment) ->
                IF IsImm(a) \/ IsImm(b) THEN Require(f, FALSE) ELSE MovSegment(f, a, b)
          [] has(ControlRegs \cup DebugRegs) /\ ~has(isSegment) ->
                IF IsReg(a) /\ IsReg(b) THEN MovSpecial(f, a, b) ELSE Require(f, FALSE)
          [] OTHER ->
                CASE IsImm(b) /\ IsReg(a) -> MovRegImm(f, a.r, b.e, getRegSize(a.r, f.bits))
                  [] IsImm(b) /\ IsMem(a) -> MovMemImm(f, a, b.e)
                  [] IsMem(a) /\ IsMem(b) -> Require(f, FALSE)
                  [] OTHER -> NoHighWithREX(MovSized(MovPlain(f, a, b), CommonSize(f, a, b)), {a, b})

-----------------------------------------------------------------------------
(* GetInstruction and the second half of optimize() *)

JumpOps == DOMAIN CC \cup {"JMP"}
ShiftOps == {"ROL", "ROR", "RCL", "RCR", "SHL", "SAL", "SHR", "SAR"}
TwoArgumentOps == DOMAIN ALU \cup {"TEST"}

Mnemonics == DOMAIN Plain \cup DOMAIN StackOps \cup JumpOps \cup TwoArgumentOps \cup ShiftOps
             \cup {"AAA", "AAD", "AAM", "AAS", "INTO", "IRET", "IRETQ", "IRETD", "SYSCALL", "SYSRET",
                   "SYSENTER", "SYSEXIT", "INT", "CALL", "RET", "PUSH", "POP", "MOV", "ADCX", "ADOX",
                   "MUL", "IMUL", "DIV", "IDIV", "NOT", "NEG", "INC", "DEC"}

\* The constructor a mnemonic stands for.
Operation(f, i) ==
    CASE i.mn \in JumpOps -> JMP(f, i)
      [] i.mn \in {"PUSH", "POP"} -> Normal_Stack(f, i)
      [] i.mn = "MOV" -> Mov(f, i)
      [] i.mn \in TwoArgumentOps -> Two_Argument_ALU(f, i)
      [] i.mn \in {"ADCX", "ADOX"} -> ADX(f, i)
      [] i.mn \in {"MUL", "IMUL", "DIV", "IDIV"} -> Mul_Div(f, i)
      [] i.mn \in ShiftOps -> Shift_Rotate(f, i)
      [] i.mn \in {"NOT", "NEG", "INC", "DEC"} -> Argument_ALU(f, i)

Constructed(f, i) ==
    CASE i.mn \in DOMAIN Plain -> Simple(f, i)
      [] i.mn \in DOMAIN StackOps -> Simple_Stack(f, i)
      [] i.mn \in {"AAA", "AAD", "AAM", "AAS"} -> ASCII(f, i)
      [] i.mn \in {"INTO", "IRET", "IRETQ", "IRETD", "SYSCALL", "SYSRET", "SYSENTER",
                   "SYSEXIT"} -> Simple_Interrupt(f, i)
      [] i.mn = "INT" -> Argument_Interrupt(f, i)
      [] i.mn = "CALL" -> CALL(f, i)
      [] i.mn = "RET" -> RET(f, i)
      [] OTHER -> Operation(f, i)

GetInstruction(i) == Constructed([Blank(i.bits) EXCEPT !.mn = i.mn], i)

Known(f) == f.imm.use /\ f.imm.reloc = NoReloc

\* The opcode n, with an immediate of one byte.
ByteImm(f, n) == [f EXCEPT !.canOptimize = FALSE, !.opcode = n, !.imm.size = 8]

\* A short jump: the displacement was measured from the end of the long form.
OptimizeJump(f) ==
    Escape(ByteImm(f, IF f.mn = "JMP" THEN 235 ELSE 112 + CC[f.mn]), <<>>)

\* The accumulator form has no ModR/M byte yet; its digit stays 0.
\* Only now parseRegister refuses a register of 64 bits in another mode.
OptimizeALU(f) ==
    IF f.target = "none" THEN ByteImm(f, 131) ELSE parseRegister(ByteImm(f, 131), f.target, FALSE)

\* A 64-bit constant: zero-extended by a 32-bit mov, or sign-extended by C7.
OptimizeMov(f) ==
    LET v == f.imm.value
        small == [f EXCEPT !.canOptimize = FALSE, !.imm.size = 32]
        rex == (f.rex \ {"w"}) \ (IF getReg[f.target].useREX THEN {} ELSE {"use"})
    IN  CASE \A k \in 5..8 : v[k] = 0 -> [small EXCEPT !.rex = rex]
          [] v[4] >= 128 /\ \A k \in 5..8 : v[k] = 255 ->
                 [small EXCEPT !.opcode = 199,
                               !.modrm = [use |-> TRUE, mod |-> 3, reg |-> 0,
                                          rm |-> getReg[f.target].index]]
          [] OTHER -> f

\* A shift by one loses its immediate, and the method still returns false.
OptimizeShift(f) ==
    IF f.imm.value[1] = 1
    THEN [f EXCEPT !.canOptimize = FALSE, !.opcode = @ + 16, !.imm.use = FALSE]
    ELSE f

optimizeS(f) ==
    LET v == f.imm.value
    IN  CASE ~(f.canOptimize /\ Known(f)) -> f
          [] f.canOptimize /\ Known(f) /\ f.mn \in JumpOps ->
                 IF FitsInt8(v, IF f.imm.size = 16 THEN 2 ELSE 4) THEN OptimizeJump(f) ELSE f
          [] f.canOptimize /\ Known(f) /\ f.mn \in TwoArgumentOps ->
                 IF FitsInt8(v, 4) THEN OptimizeALU(f) ELSE f
          [] f.canOptimize /\ Known(f) /\ f.mn = "IMUL" ->
                 IF FitsInt8(v, 4) THEN ByteImm(f, 107) ELSE f
          [] f.canOptimize /\ Known(f) /\ f.mn = "PUSH" ->
                 IF FitsInt8(v, IF f.bits = 16 THEN 2 ELSE 4) THEN ByteImm(f, 106) ELSE f
          [] f.canOptimize /\ Known(f) /\ f.mn = "MOV" -> OptimizeMov(f)
          [] f.canOptimize /\ Known(f) /\ f.mn \in ShiftOps -> OptimizeShift(f)

optimize(f) == optimizeS(shortenDisplacement(f))

\* What optimize() returns.
changed(f) ==
    LET d == shortenDisplacement(f)
    IN  d # f \/ (optimizeS(d) # d /\ f.mn \notin ShiftOps)
=============================================================================
