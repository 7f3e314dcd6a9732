----------------------------- MODULE X86Decode -----------------------------
(* The instruction set as the processor reads it, for the opcodes lasm       *)
(* emits: what a sequence of bytes means in a mode of 16, 32 or 64 bits.     *)
(* Nothing here is taken from the encoder except the names of the registers; *)
(* it is what the bytes of module X86Instr are measured against.             *)
(*                                                                           *)
(* Decode returns [mn, ops, len].  An operand is one of                      *)
(*   [k |-> "reg", r]            a register,                                 *)
(*   [k |-> "mem", regs, disp, size]  regs: the set of <<register, factor>>, *)
(*                               disp as wide as the address,                *)
(*   [k |-> "imm", v]            a value as wide as the operation,           *)
(*   [k |-> "rel", v]            a distance from the end of the instruction. *)
EXTENDS X86, FiniteSets, SequencesExt

Extend(b, n) == [k \in 1..n |-> IF k <= Len(b) THEN b[k] ELSE SignByte(b[Len(b)])]
Zeroes(n) == [k \in 1..n |-> 0]

\* Operands in the processor manual's notation: E is the r/m field, G the reg
\* field, Z the register in the opcode; b, v, w are the widths byte, operand
\* size and word,
\* n the width of the stack, y 32 or 64 bits, Es 16 bits in memory; Iz is at most 32 bits wide,
\* Is one sign-extended byte.
ALUNames == <<"ADD", "OR", "ADC", "SBB", "AND", "SUB", "XOR", "CMP">>
ShiftNames == <<"ROL", "ROR", "RCL", "RCR", "SHL", "SHR", "bad", "SAR">>
Conditions == <<"JO", "JNO", "JB", "JAE", "JE", "JNE", "JBE", "JA",
                "JS", "JNS", "JP", "JNP", "JL", "JGE", "JLE", "JG">>
OneByte ==
    ( 55 :> <<"AAA">> @@  63 :> <<"AAS">> @@  96 :> <<"PUSHA">> @@  97 :> <<"POPA">> @@
     104 :> <<"PUSH", "Iz">> @@ 105 :> <<"IMUL", "Gv", "Ev", "Iz">> @@
     106 :> <<"PUSH", "Is">> @@ 107 :> <<"IMUL", "Gv", "Ev", "Is">> @@
     132 :> <<"TEST", "Eb", "Gb">> @@ 133 :> <<"TEST", "Ev", "Gv">> @@
     136 :> <<"MOV", "Eb", "Gb">> @@ 137 :> <<"MOV", "Ev", "Gv">> @@
     138 :> <<"MOV", "Gb", "Eb">> @@ 139 :> <<"MOV", "Gv", "Ev">> @@
     140 :> <<"MOV", "Es", "S">> @@ 142 :> <<"MOV", "S", "Ew">> @@ 144 :> <<"NOP">> @@
     156 :> <<"PUSHF">> @@ 157 :> <<"POPF">> @@ 158 :> <<"SAHF">> @@ 159 :> <<"LAHF">> @@
     160 :> <<"MOV", "Ab", "Ob">> @@ 161 :> <<"MOV", "Av", "Ov">> @@
     162 :> <<"MOV", "Ob", "Ab">> @@ 163 :> <<"MOV", "Ov", "Av">> @@
     168 :> <<"TEST", "Ab", "Ib">> @@ 169 :> <<"TEST", "Av", "Iz">> @@
     194 :> <<"RET", "Iw">> @@ 195 :> <<"RET">> @@ 204 :> <<"INT3">> @@ 205 :> <<"INT", "Ib">> @@
     206 :> <<"INTO">> @@ 207 :> <<"IRET">> @@ 212 :> <<"AAM", "Ib">> @@ 213 :> <<"AAD", "Ib">> @@
     232 :> <<"CALL", "Jz">> @@ 233 :> <<"JMP", "Jz">> @@ 235 :> <<"JMP", "Jb">> @@
     241 :> <<"INT1">> @@ 244 :> <<"HLT">> @@ 245 :> <<"CMC">> @@ 248 :> <<"CLC">> @@
     249 :> <<"STC">> @@ 250 :> <<"CLI">> @@ 251 :> <<"STI">> @@ 252 :> <<"CLD">> @@ 253 :> <<"STD">>)

\* The digit of the opcodes whose reg field extends them.
Groups ==
    LET alu(a, b) == [d \in 0..7 |-> <<ALUNames[d + 1], a, b>>]
        shift(a, b) == [d \in {0, 1, 2, 3, 4, 5, 7} |-> <<ShiftNames[d + 1], a, b>>]
        unary(a, i) == (0 :> <<"TEST", a, i>>) @@ 2 :> <<"NOT", a>> @@ 3 :> <<"NEG", a>> @@ 4 :> <<"MUL", a>>
                       @@ 5 :> <<"IMUL", a>> @@ 6 :> <<"DIV", a>> @@ 7 :> <<"IDIV", a>>
        step(a) == 0 :> <<"INC", a>> @@ 1 :> <<"DEC", a>>
    IN  128 :> alu("Eb", "Ib") @@ 129 :> alu("Ev", "Iz") @@ 131 :> alu("Ev", "Is") @@
        192 :> shift("Eb", "Ib") @@ 193 :> shift("Ev", "Ib") @@ 208 :> shift("Eb", "1") @@
        209 :> shift("Ev", "1") @@ 210 :> shift("Eb", "CL") @@ 211 :> shift("Ev", "CL") @@
        246 :> unary("Eb", "Ib") @@ 247 :> unary("Ev", "Iz") @@ 254 :> step("Eb") @@
        255 :> (step("Ev") @@ 2 :> <<"CALL", "En">> @@ 4 :> <<"JMP", "En">> @@ 6 :> <<"PUSH", "En">>) @@
        143 :> (0 :> <<"POP", "En">>) @@
        198 :> (0 :> <<"MOV", "Eb", "Ib">>) @@ 199 :> (0 :> <<"MOV", "Ev", "Iz">>)

Invalid == <<"(bad)">>
ALUForms == << <<"Eb", "Gb">>, <<"Ev", "Gv">>, <<"Gb", "Eb">>, <<"Gv", "Ev">>, <<"Ab", "Ib">>, <<"Av", "Iz">> >>
Only32 == {"AAA", "AAS", "AAD", "AAM", "PUSHA", "POPA", "INTO"}

Instruction1(op, digit, bits) ==
    CASE op < 64 /\ op % 8 <= 5 -> <<ALUNames[op \div 8 + 1]>> \o ALUForms[(op % 8) + 1]
      [] op \in 64..71 /\ bits # 64 -> <<"INC", "Zv">>
      [] op \in 72..79 /\ bits # 64 -> <<"DEC", "Zv">>
      [] op \in 80..87 -> <<"PUSH", "Zn">>
      [] op \in 88..95 -> <<"POP", "Zn">>
      [] op \in 112..127 -> <<Conditions[op - 111], "Jb">>
      [] op \in 176..183 -> <<"MOV", "Zb", "Ib">>
      [] op \in 184..191 -> <<"MOV", "Zv", "Iv">>
      [] op \in DOMAIN Groups -> IF digit \in DOMAIN Groups[op] THEN Groups[op][digit] ELSE Invalid
      [] op \in DOMAIN OneByte ->
             IF bits = 64 /\ OneByte[op][1] \in Only32 THEN Invalid ELSE OneByte[op]
      [] OTHER -> Invalid

Instruction2(op) ==
    CASE op = 5 -> <<"SYSCALL">> [] op = 7 -> <<"SYSRET">>
      [] op = 52 -> <<"SYSENTER">> [] op = 53 -> <<"SYSEXIT">>
      [] op = 32 -> <<"MOV", "R", "C">> [] op = 34 -> <<"MOV", "C", "R">>
      [] op = 33 -> <<"MOV", "R", "D">> [] op = 35 -> <<"MOV", "D", "R">>
      [] op \in 128..143 -> <<Conditions[op - 127], "Jz">>
      [] op = 175 -> <<"IMUL", "Gv", "Ev">>
      [] OTHER -> Invalid

NeedsModRM == {"Eb", "Ev", "Ew", "En", "Es", "Ey", "Gb", "Gv", "Gy", "S", "R", "C", "D"}

\* The registers of a width, and of eight bits with and without a REX byte.
RegFile(w, rex) ==
    CASE w = 8 -> IF rex THEN Low8 \o New8 \o Ext8 ELSE Low8 \o High8
      [] w = 16 -> Old16 \o Ext16 [] w = 32 -> Old32 \o Ext32 [] w = 64 -> Old64 \o Ext64

-----------------------------------------------------------------------------
ByteAt(b, k) == IF k \in DOMAIN b THEN b[k] ELSE 0
Bit(n, k) == (n \div 2^k) % 2
Legacy == {102, 103, 243}

\* What precedes the opcode: [legacy, rex, at]; at is the opcode's position.
Prelude(b, bits) ==
    LET n == CHOOSE j \in 0..Len(b) : /\ \A k \in 1..j : b[k] \in Legacy
                                      /\ ByteAt(b, j + 1) \notin Legacy
        rex == IF bits = 64 /\ ByteAt(b, n + 1) \in 64..79 THEN ByteAt(b, n + 1) ELSE 0
    IN  [legacy |-> {b[k] : k \in 1..n}, rex |-> rex, at |-> n + 1 + flag(rex # 0)]

\* The memory operand of a ModR/M byte: registers, bytes of displacement, length.
Sum(pairs) == {<<r, FoldLeft(+, 0, [k \in DOMAIN pairs |-> IF pairs[k][1] = r THEN pairs[k][2] ELSE 0])>> :
                  r \in {pairs[k][1] : k \in DOMAIN pairs} \ {"none"}}

Address16(mod, rm) ==
    LET base == << <<"BX", "SI">>, <<"BX", "DI">>, <<"BP", "SI">>, <<"BP", "DI">>,
                   <<"SI">>, <<"DI">>, <<"BP">>, <<"BX">> >>[rm + 1]
        direct == mod = 0 /\ rm = 6
    IN  [regs |-> IF direct THEN {} ELSE {<<r, 1>> : r \in Elems(base)},
         disp |-> IF direct \/ mod = 2 THEN 2 ELSE mod, skip |-> 1]

Address32(mod, rm, sib, rex, file) ==
    LET hasSIB == rm = 4
        low  == IF hasSIB THEN sib % 8 ELSE rm
        idx  == ((sib \div 8) % 8) + 8 * Bit(rex, 1)
        nobase == mod = 0 /\ low = 5
        base == IF nobase THEN IF file = Old64 \o Ext64 /\ ~hasSIB THEN "RIP" ELSE "none"
                ELSE file[low + 8 * Bit(rex, 0) + 1]
        index == IF hasSIB /\ idx # 4 THEN file[idx + 1] ELSE "none"
    IN  [regs |-> Sum(<< <<base, 1>>, <<index, 2^(sib \div 64)>> >>),
         disp |-> IF mod = 2 \/ nobase THEN 4 ELSE mod, skip |-> 1 + flag(hasSIB)]

-----------------------------------------------------------------------------
(* What is known of the instruction at the front of b grows from operator to *)
(* operator, as the record d.                                                *)

Opened(b, bits, pre) ==
    LET map == IF ByteAt(b, pre.at) # 15 THEN 1 ELSE IF ByteAt(b, pre.at + 1) = 56 THEN 3 ELSE 2
    IN  [b |-> b, bits |-> bits, rex |-> pre.rex, legacy |-> pre.legacy, map |-> map,
         at |-> pre.at + map - 1]

\* The fields of the ModR/M byte, and the sizes the prefixes ask for.
Fields(d) ==
    LET m == ByteAt(d.b, d.at + 1)
        is66 == 102 \in d.legacy /\ d.map # 3
        other == 103 \in d.legacy
    IN  [mod |-> m \div 64, reg |-> (m \div 8) % 8, rm |-> m % 8,
         osize |-> IF Bit(d.rex, 3) = 1 THEN 64 ELSE IF (d.bits = 16) = is66 THEN 32 ELSE 16,
         asize |-> CASE d.bits = 64 -> IF other THEN 32 ELSE 64
                     [] d.bits = 32 -> IF other THEN 16 ELSE 32
                     [] d.bits = 16 -> IF other THEN 32 ELSE 16] @@ d

Instruction3(legacy) == IF 102 \in legacy THEN <<"ADCX", "Gy", "Ey">>
                        ELSE IF 243 \in legacy THEN <<"ADOX", "Gy", "Ey">> ELSE Invalid

\* The name and the codes of the operands.  Push, pop and near branches are 64
\* bits wide in 64-bit mode (nsize).
Formed(d) ==
    [form |-> CASE d.map = 1 -> Instruction1(ByteAt(d.b, d.at), d.reg, d.bits)
                [] d.map = 2 -> Instruction2(ByteAt(d.b, d.at))
                [] d.map = 3 -> IF ByteAt(d.b, d.at) = 246 THEN Instruction3(d.legacy) ELSE Invalid,
     nsize |-> IF d.bits = 64 /\ d.osize = 32 THEN 64 ELSE d.osize] @@ d

Memory(d) ==
    LET codes == Elems(Tail(d.form))
        hasModRM == codes \cap NeedsModRM # {}
    IN  [hasModRM |-> hasModRM,
         isMem |-> hasModRM /\ d.mod # 3 /\ codes \cap {"R", "C", "D"} = {},
         addr |-> IF d.asize = 16 THEN Address16(d.mod, d.rm)
                  ELSE Address32(d.mod, d.rm, ByteAt(d.b, d.at + 2), d.rex, RegFile(d.asize, TRUE))] @@ d

immAt(d) == d.at + 1 + (IF d.isMem THEN d.addr.skip + d.addr.disp ELSE flag(d.hasModRM))

CodeWidth(d, c) ==
    CASE c \in {"Eb", "Gb", "Zb", "Ab", "Ob", "Ib", "Is", "Jb"} -> 8
      [] c \in {"Ew", "S", "Iw"} -> 16
      [] c \in {"En", "Zn"} -> d.nsize
      [] c = "Es" -> IF d.isMem THEN 16 ELSE d.osize
      [] c \in {"R", "C", "D"} -> IF d.bits = 64 THEN 64 ELSE 32
      [] c \in {"Ey", "Gy"} -> IF d.osize = 64 THEN 64 ELSE 32
      [] c = "Jz" -> IF d.bits = 64 THEN 32 ELSE d.osize
      [] c = "Iz" -> IF d.osize = 64 THEN 32 ELSE d.osize
      [] OTHER -> d.osize

Take(d, from, n) == [k \in 1..n |-> ByteAt(d.b, from + k - 1)]

\* The registers n names, with the bit of the REX byte that extends it.
Named(file, n, extension) == [k |-> "reg", r |-> file[n + 8 * extension + 1]]

MemoryOperand(d, w) ==
    [k |-> "mem", regs |-> d.addr.regs, size |-> w,
     disp |-> Extend(IF d.addr.disp = 0 THEN <<0>> ELSE Take(d, d.at + 1 + d.addr.skip, d.addr.disp),
                     d.asize \div 8)]

\* An operand of code c and width w; a pushed immediate is as wide as the slot.
OperandOf(d, c, w, file) ==
    CASE c \in {"Eb", "Ev", "Ew", "En", "Es", "Ey", "R"} ->
            IF d.isMem THEN MemoryOperand(d, w) ELSE Named(file, d.rm, Bit(d.rex, 0))
      [] c \in {"Gb", "Gv", "Gy"} -> Named(file, d.reg, Bit(d.rex, 2))
      [] c \in {"Zb", "Zv", "Zn"} -> Named(file, ByteAt(d.b, d.at) % 8, Bit(d.rex, 0))
      [] c \in {"Ab", "Av"} -> Named(file, 0, 0)
      [] c = "CL" -> [k |-> "reg", r |-> "CL"]
      [] c = "S" -> Named(Segs \o <<"(bad)", "(bad)">>, d.reg, 0)
      [] c = "C" -> Named(OldCR \o ExtCR, d.reg, Bit(d.rex, 2))
      [] c = "D" -> Named(OldDR \o ExtDR, d.reg, Bit(d.rex, 2))
      [] c \in {"Ob", "Ov"} ->
            [k |-> "mem", regs |-> {}, size |-> w, disp |-> Take(d, d.at + 1, d.asize \div 8)]
      [] c = "1" -> [k |-> "imm", v |-> <<1>>]
      [] c \in {"Ib", "Iw"} -> [k |-> "imm", v |-> Take(d, immAt(d), w \div 8)]
      [] c \in {"Is", "Iz", "Iv"} ->
            [k |-> "imm", v |-> Extend(Take(d, immAt(d), w \div 8),
                                      (IF d.form[1] = "PUSH" THEN d.nsize ELSE d.osize) \div 8)]
      [] c \in {"Jb", "Jz"} -> [k |-> "rel", v |-> Extend(Take(d, immAt(d), w \div 8), d.bits \div 8)]

\* How many bytes behind the address an operand takes.
TailOf(d, c, w) == CASE c \in {"Ib", "Is", "Iz", "Iv", "Iw", "Jb", "Jz"} -> w \div 8
                     [] c \in {"Ob", "Ov"} -> d.asize \div 8
                     [] OTHER -> 0

\* The names that tell the operand size.
SizedNames == [PUSHA |-> (16 :> "PUSHA" @@ 32 :> "PUSHAD"), POPA |-> (16 :> "POPA" @@ 32 :> "POPAD"),
               PUSHF |-> (16 :> "PUSHF" @@ 32 :> "PUSHFD" @@ 64 :> "PUSHFQ"),
               POPF |-> (16 :> "POPF" @@ 32 :> "POPFD" @@ 64 :> "POPFQ"),
               IRET |-> (16 :> "IRET" @@ 32 :> "IRETD" @@ 64 :> "IRETQ")]

Decoded(d) ==
    LET name == d.form[1]
        codes == Tail(d.form)
    IN  [mn |-> CASE name \in {"PUSHA", "POPA", "IRET"} -> SizedNames[name][d.osize]
                  [] name \in {"PUSHF", "POPF"} -> SizedNames[name][d.nsize]
                  [] OTHER -> name,
         ops |-> [j \in DOMAIN codes |-> OperandOf(d, codes[j], CodeWidth(d, codes[j]),
                                                  RegFile(CodeWidth(d, codes[j]), d.rex # 0))],
         len |-> immAt(d) - 1 + FoldLeft(+, 0, [j \in DOMAIN codes |-> TailOf(d, codes[j], CodeWidth(d, codes[j]))])]

Decode(b, bits) == Decoded(Memory(Formed(Fields(Opened(b, bits, Prelude(b, bits))))))
=============================================================================
