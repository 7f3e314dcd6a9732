----------------------------- MODULE AsmMeaning -----------------------------
(* What an assembled program has to mean.  The lines of the program are      *)
(* given addresses (the bytes of each section from a base on), expressions   *)
(* are read as arithmetic on those addresses, and the finished file, linked  *)
(* to the same bases, must decode to the instructions that were written.     *)
(* Nothing here uses what the parser or the encoder made of a line, except   *)
(* the place at which its bytes lie.                                         *)
EXTENDS ObjectFile, X86Decode

-----------------------------------------------------------------------------
(* Lines *)

BitsOf(n) == LET m == Before(n, Lines({"bits"})) IN IF m = 0 THEN prog.bits ELSE prog.lines[m].bits

\* A name with a dot is local to the last label without one.
Main(n) == LET m == Before(n, {l \in Lines({"label"}) : prog.lines[l].name.t = "str"})
           IN  IF m = 0 THEN "" ELSE prog.lines[m].name.name
Full(o, n) == IF o.t = "loc" THEN Name(Main(n) \o o.name) ELSE o
FullExpr(e, n) == [k \in DOMAIN e |-> Full(e[k], n)]
DeclaredName(n) == Full(prog.lines[n].name, n).name

FirstNames(kind) == {prog.lines[n].names[1].name : n \in Lines({kind})}
ListedNames(kind) == UNION {{o.name : o \in Elems(prog.lines[n].names)} : n \in Lines({kind})}

\* The names that the processor manual has for one instruction.
OtherNames == ("JZ" :> "JE" @@ "JNZ" :> "JNE" @@ "JC" :> "JB" @@ "JNAE" :> "JB" @@ "JNC" :> "JAE" @@ "JNB" :> "JAE" @@
               "JNA" :> "JBE" @@ "JNBE" :> "JA" @@ "JNGE" :> "JL" @@ "JNL" :> "JGE" @@ "JNG" :> "JLE" @@
               "JNLE" :> "JG" @@ "JPE" :> "JP" @@ "JPO" :> "JNP" @@ "SAL" :> "SHL" @@ "ICEBP" :> "INT1")

\* The instruction of line n, with full names.
Instruction(n) ==
    LET line == prog.lines[n]
        term(x) == IF x.t = "const" THEN [x EXCEPT !.o = Full(@, n)] ELSE x
        operand(op) == CASE op.k = "imm" -> [op EXCEPT !.e = FullExpr(@, n)]
                         [] op.k = "mem" -> [op EXCEPT !.terms = [k \in DOMAIN @ |-> term(@[k])]]
                         [] OTHER -> op
    IN  [bits |-> BitsOf(n),
         mn |-> IF line.mn \in DOMAIN OtherNames THEN OtherNames[line.mn] ELSE line.mn,
         ops |-> IF line.mn \in {"AAD", "AAM"} /\ line.ops = <<>> THEN << [k |-> "imm", e |-> <<Num(10)>>] >>
                 ELSE [k \in DOMAIN line.ops |-> operand(line.ops[k])]]

\* Registers with their factors, and the rest of an address.
Factors(m) ==
    LET regs == SelectSeq(m.terms, LAMBDA x : x.t \in {"reg", "scaled"})
    IN  Sum([k \in DOMAIN regs |-> <<regs[k].r, regs[k].sign * (IF regs[k].t = "reg" THEN 1 ELSE regs[k].by)>>])
AddressRegs(m) == {p[1] : p \in Factors(m)}
Offsets(m) == SelectSeq(m.terms, LAMBDA x : x.t = "const")

-----------------------------------------------------------------------------
(* Arithmetic on the infix operands *)

Depth(t, k) == Cardinality({j \in 1..k : t[j].t = "op" /\ t[j].op = "("})
               - Cardinality({j \in 1..k : t[j].t = "op" /\ t[j].op = ")"})

\* Operators that stand between two operands outside all parentheses.
Infix(t, ops) == {k \in 2..Len(t) : /\ t[k].t = "op" /\ t[k].op \in ops /\ Depth(t, k) = 0
                                    /\ t[k-1].t = "op" => t[k-1].op = ")"}

\* The value of an expression at address "here", in the section that starts at
\* "start": env has the addresses of the labels and the written constants.
RECURSIVE Arithmetic(_, _, _, _)
Arithmetic(t, env, here, start) ==
    LET value(s) == Arithmetic(s, env, here, start)
        sums == Infix(t, {"+", "-"})
        products == Infix(t, {"*", "/", "%"})
        last == Max(IF sums # {} THEN sums ELSE products)
        a == value(SubSeq(t, 1, last - 1))
        b == value(SubSeq(t, last + 1, Len(t)))
        named(n) == IF n \in DOMAIN env.address THEN env.address[n]
                    ELSE Arithmetic(env.equ[n].expr, env, env.equ[n].here, env.equ[n].start)
    IN  CASE sums \cup products # {} ->
                CASE t[last].op = "+" -> a + b [] t[last].op = "-" -> a - b [] t[last].op = "*" -> a * b
                  [] t[last].op = "/" -> Quotient(a, b) [] OTHER -> a - b * Quotient(a, b)
          [] sums \cup products = {} ->
                CASE t[1].t = "num" -> t[1].n
                  [] t[1].t = "str" -> named(t[1].name)
                  [] t[1].t = "pos" -> IF t[1].start THEN start ELSE here
                  [] t[1].t = "op" /\ t[1].op = "-" -> -value(Tail(t))
                  [] t[1].t = "op" /\ t[1].op = "(" -> value(SubSeq(t, 2, Len(t) - 1))

Word(t, env, here, start) == IF t[1].t = "big" THEN t[1].w ELSE Bytes(Arithmetic(t, env, here, start))

-----------------------------------------------------------------------------
(* Addresses *)

\* The linker's choice for an object file; a binary is loaded at 0.
LinkBase(j) == 4096 * j
ExternAddress == 65536

Base(j) == IF prog.format = "bin" THEN file.offsets[sections[j].name] ELSE LinkBase(j)

\* The address of an entry counts the bytes before it, not their sizes.
Address(j, k) == Base(j) + Total([i \in 1..k-1 |-> Len(entryBytes(sections[j].entries[i]))])

PlaceOf(n) == CHOOSE p \in Places(sections) : Entry(sections, p).line = n

Environment ==
    LET names(kind) == {DeclaredName(n) : n \in Lines({kind})}
        line(name, kind) == CHOOSE n \in Lines({kind}) : DeclaredName(n) = name
        at(n) == LET p == PlaceOf(n) IN [here |-> Address(p[1], p[2]), start |-> Base(p[1])]
    IN  [address |-> [l \in names("label") |-> at(line(l, "label")).here]
                     @@ [l \in FirstNames("extern") |-> ExternAddress],
         equ |-> [c \in names("equ") |->
                     LET n == line(c, "equ") IN [expr |-> FullExpr(prog.lines[n].value, n)] @@ at(n)]]

-----------------------------------------------------------------------------
(* The linker: S + A - P in the field an entry names.  Without an addend in  *)
(* the entry, A is what the field holds.                                     *)

Field(bytes, at, w) == SubSeq(bytes, at + 1, at + w)
SignedInt(b) == Total([k \in 1..IF Len(b) < 4 THEN Len(b) ELSE 4 |->
                        IF k < 4 THEN b[k] * 256^(k-1)
                        ELSE (IF b[4] >= 128 THEN b[4] - 256 ELSE b[4]) * 16777216])
                - (IF Len(b) < 4 /\ b[Len(b)] >= 128 THEN 256^Len(b) ELSE 0)

SymbolAddress(k) ==
    LET s == file.symtab[k + 1]
    IN  IF s.shndx = UNDEF THEN ExternAddress ELSE LinkBase(s.shndx) + s.value

Linked(j) ==
    LET of == {k \in DOMAIN relocated : relocated[k] = j}
        entries == IF of = {} THEN <<>> ELSE file.relocation[CHOOSE k \in of : TRUE]
        apply(b, r) ==
            LET A == IF wide THEN r.addend ELSE SignedInt(Field(b, r.offset, r.type.width))
                n == SymbolAddress(r.symbol) + A - (IF r.type.pc THEN LinkBase(j) + r.offset ELSE 0)
            IN  Patch(b, r.offset, LowBytes(n, r.type.width))
    IN  FoldLeft(apply, file.code[j], entries)

\* The bytes of section j in memory.
Image(j) == CASE ~sections[j].isInitialized -> <<>>
              [] sections[j].isInitialized /\ prog.format = "elf" -> Linked(j)
              [] OTHER -> Field(file.bytes, Base(j), Len(sections[j].buffer))
EntryImage(j, k) == Field(Image(j), Address(j, k) - Base(j), Len(entryBytes(sections[j].entries[k])))

-----------------------------------------------------------------------------
(* What a written instruction means at an address *)

Synonyms(i) == CASE i.mn = "IRET" /\ i.bits = 32 -> "IRETD" [] i.mn = "IRET" /\ i.bits = 64 -> "IRETQ"
                 [] i.mn = "PUSHA" /\ i.bits = 32 -> "PUSHAD" [] i.mn = "POPA" /\ i.bits = 32 -> "POPAD"
                 [] i.mn = "PUSHF" /\ i.bits = 32 -> "PUSHFD" [] i.mn = "PUSHF" /\ i.bits = 64 -> "PUSHFQ"
                 [] i.mn = "POPF" /\ i.bits = 32 -> "POPFD" [] i.mn = "POPF" /\ i.bits = 64 -> "POPFQ"
                 [] OTHER -> i.mn

\* How wide the operation is: the first size that an operand has.
Width(i) ==
    LET sizes == [k \in DOMAIN i.ops |-> CASE i.ops[k].k = "reg" -> getRegSize(i.ops[k].r, i.bits)
                                           [] i.ops[k].k = "mem" -> i.ops[k].size [] OTHER -> 0]
        known == SelectSeq(sizes, LAMBDA s : s # 0)
    IN  IF i.mn \in ShiftOps THEN sizes[1] ELSE IF known = <<>> THEN i.bits ELSE known[1]

ImmediateWidth(i) == CASE i.mn \in ShiftOps \cup {"INT", "AAD", "AAM"} -> 8
                       [] i.mn = "RET" -> 16
                       [] OTHER -> Width(i)

AddressSize(bits, m) == IF AddressRegs(m) = {} THEN bits ELSE getRegSize(CHOOSE r \in AddressRegs(m) : TRUE, bits)

Means(i, here, start, len, env) ==
    LET word(e) == Word(e, env, here, start)
        relative == i.mn \in JumpOps \cup {"CALL"}
        operand(op) ==
            CASE op.k = "reg" -> op
              [] op.k = "mem" ->
                    [k |-> "mem", regs |-> Factors(op),
                     size |-> IF \E o \in Elems(i.ops) : o.k = "reg" /\ o.r \in isSegment THEN 16 ELSE Width(i),
                     disp |-> LET parts == Offsets(op)
                                  value(x) == x.sign * Arithmetic(<<x.o>>, env, here, start)
                              IN  LowBytes(Total([n \in DOMAIN parts |-> value(parts[n])]), AddressSize(i.bits, op) \div 8)]
              [] op.k = "imm" /\ relative ->
                    [k |-> "rel", v |-> LowBytes(Arithmetic(op.e, env, here, start) - here - len, i.bits \div 8)]
              [] op.k = "imm" /\ ~relative ->
                    [k |-> "imm", v |-> SubSeq(word(op.e), 1, ImmediateWidth(i) \div 8)]
    IN  [mn |-> Synonyms(i), ops |-> [k \in DOMAIN i.ops |-> operand(i.ops[k])]]

\* Two instructions that do the same: test does not tell its operands apart, a
\* 32-bit result is zero-extended, a segment register takes 16 bits.
Resize(op, from, to) ==
    IF op.k = "reg" /\ op.r \in Elems(from)
    THEN [op EXCEPT !.r = to[CHOOSE n \in DOMAIN from : from[n] = op.r]] ELSE op
Canonical(d, bits) ==
    LET isSeg(n) == d.ops[n].k = "reg" /\ d.ops[n].r \in isSegment
        isImm(n) == d.ops[n].k = "imm"
        to64(op) == Resize(op, Old32 \o Ext32, Old64 \o Ext64)
        to16(op) == Resize(Resize(op, Old64 \o Ext64, Old16 \o Ext16), Old32 \o Ext32, Old16 \o Ext16)
        ops == CASE d.mn = "MOV" /\ isSeg(1) -> <<d.ops[1], to16(d.ops[2])>>
                 [] d.mn = "MOV" /\ isSeg(2) /\ bits = 64 -> <<to64(d.ops[1]), d.ops[2]>>
                 [] d.mn = "MOV" /\ isImm(2) /\ bits = 64 /\ to64(d.ops[1]) # d.ops[1] ->
                        <<to64(d.ops[1]), [k |-> "imm", v |-> d.ops[2].v \o Zeroes(4)]>>
                 [] OTHER -> d.ops
    IN  [mn |-> d.mn, ops |-> IF d.mn = "TEST" THEN Elems(ops) ELSE ops]

\* The values of a data line: a text is its bytes, padded to whole values.
DataBytes(n, env, here, start) ==
    LET line == prog.lines[n]
        text(b) == b \o Zeroes((line.width - (Len(b) % line.width)) % line.width)
        bytes(v) == IF v[1].t = "text" THEN text(v[1].b)
                    ELSE SubSeq(Word(FullExpr(v, n), env, here, start), 1, line.width)
    IN  FlattenSeq([m \in DOMAIN line.values |-> bytes(line.values[m])])

\* d is what the processor makes of the bytes of instruction i, which is to lie
\* at address here.
SameEffect(d, bytes, i, here, start, env) ==
    /\ d.len = Len(bytes)
    /\ Canonical(d, i.bits) = Canonical(Means(i, here, start, d.len, env), i.bits)

FaithfulInstruction(bytes, i, here, start, env) ==
    SameEffect(Decode(bytes, i.bits), bytes, i, here, start, env)

\* The bytes of an entry e do what its line says.
FaithfulEntry(e, bytes, here, start, env) ==
    LET line == prog.lines[e.line]
    IN  CASE line.d = "instr" -> FaithfulInstruction(bytes, Instruction(e.line), here, start, env)
          [] line.d = "data" -> bytes = DataBytes(e.line, env, here, start)
          [] line.d = "res" -> e.bytes = line.width * Arithmetic(FullExpr(line.count, e.line), env, here, start)
          [] OTHER -> TRUE

Faithful(j, k) ==
    FaithfulEntry(sections[j].entries[k], EntryImage(j, k), Address(j, k), Base(j), Environment)
=============================================================================
