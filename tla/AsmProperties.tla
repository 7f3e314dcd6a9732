--------------------------- MODULE AsmProperties ---------------------------
(* What has to hold of the assembler: which programs it may refuse, what the *)
(* file it leaves has to mean, and how the layout gets there.  The cases in  *)
(* which the code is known to go wrong are named one by one; everything else *)
(* is claimed.                                                               *)
EXTENDS AsmMeaning

-----------------------------------------------------------------------------
(* Legal instructions, from the processor's side *)

Registers(i) == {i.ops[k].r : k \in {k \in DOMAIN i.ops : IsReg(i.ops[k])}}
Memories(i)  == {i.ops[k] : k \in {k \in DOMAIN i.ops : IsMem(i.ops[k])}}
AllRegisters(i) == Registers(i) \cup UNION {AddressRegs(m) : m \in Memories(i)}

LegalAddress(m, bits) ==
    LET regs == AddressRegs(m)
        factor(r) == (CHOOSE p \in Factors(m) : p[1] = r)[2]
        am == AddressSize(bits, m)
        index == regs \ {"ESP", "RSP"}
    IN  /\ regs \subseteq isGPR /\ \A r \in regs : getRegSize(r, bits) = am
        /\ CASE am = 16 -> /\ bits # 64 /\ regs \subseteq {"BX", "BP", "SI", "DI"}
                           /\ \A r \in regs : factor(r) = 1
                           /\ ~({"BX", "BP"} \subseteq regs) /\ ~({"SI", "DI"} \subseteq regs)
             [] am \in {32, 64} /\ Cardinality(regs) <= 1 ->
                    \A r \in regs : factor(r) \in (IF r \in index THEN {1, 2, 3, 4, 5, 8, 9} ELSE {1})
             [] am \in {32, 64} /\ Cardinality(regs) = 2 ->
                    \E r \in regs, x \in index : r # x /\ factor(r) = 1 /\ factor(x) \in {1, 2, 4, 8}
             [] OTHER -> FALSE

\* The widths of the operands that have one agree, and at least one has.
Sizes(i) == {SizeOf(Blank(i.bits), i.ops[k]) : k \in {k \in DOMAIN i.ops : ~IsImm(i.ops[k])}}
OneSize(i, allowed) == \E s \in allowed : s \in Sizes(i) /\ Sizes(i) \subseteq {0, s}
Shape(i) == [k \in DOMAIN i.ops |-> i.ops[k].k]

NoOperand == DOMAIN Plain \cup DOMAIN StackOps \cup {"AAA", "AAS", "INTO", "IRET", "IRETQ", "IRETD",
                "SYSCALL", "SYSRET", "SYSENTER", "SYSEXIT"}
Outside64 == {"AAA", "AAD", "AAM", "AAS", "INTO", "PUSHA", "POPA", "PUSHAD", "POPAD", "PUSHFD", "POPFD"}
Inside64 == {"IRETQ", "PUSHFQ", "POPFQ"}

Legal(i) ==
    LET widths == IF i.bits = 64 THEN {8, 16, 32, 64} ELSE {8, 16, 32}
        full == widths \ {8}
        gpr == Registers(i) \subseteq isGPR
        branch == IF i.bits = 64 THEN {64} ELSE {16, 32}
        special == Registers(i) \cap (ControlRegs \cup DebugRegs)
        segment == Registers(i) \cap isSegment
        binary == {<<"reg", "reg">>, <<"reg", "mem">>, <<"mem", "reg">>}
        rex == i.bits = 64 /\ (64 \in Sizes(i) \/ AllRegisters(i) \cap (ExtendedGPR \cup Elems(New8)) # {})
    IN  /\ i.bits # 64 => AllRegisters(i) \cap Only64 = {}
        /\ \A m \in Memories(i) : LegalAddress(m, i.bits)
        /\ rex => Registers(i) \cap Elems(High8) = {}
        /\ i.mn \in Outside64 => i.bits # 64
        /\ i.mn \in Inside64 => i.bits = 64
        /\ CASE i.mn \in NoOperand -> i.ops = <<>>
             [] i.mn = "RET" -> Shape(i) \in {<<>>, <<"imm">>}
             [] i.mn \in {"AAD", "AAM", "INT"} \cup DOMAIN CC -> Shape(i) = <<"imm">>
             [] i.mn \in {"JMP", "CALL"} ->
                    \/ Shape(i) = <<"imm">>
                    \/ Len(i.ops) = 1 /\ gpr /\ Sizes(i) \subseteq branch \cup {0}
             [] i.mn \in {"PUSH", "POP"} ->
                    \/ Shape(i) = <<"imm">> /\ i.mn = "PUSH"
                    \/ Shape(i) \in {<<"reg">>, <<"mem">>} /\ gpr
                         /\ Sizes(i) \subseteq (IF i.bits = 64 THEN {16, 64} ELSE {16, 32})
             [] i.mn = "MOV" /\ segment # {} ->
                    /\ Shape(i) \in binary /\ Cardinality(segment) = 1 /\ special = {}
                    /\ Cardinality(Registers(i)) = 2 \/ Memories(i) # {}
                    /\ IF Memories(i) = {} THEN Sizes(i) \subseteq full
                       ELSE Sizes(i) \subseteq {0, 16}
             [] i.mn = "MOV" /\ segment = {} /\ special # {} ->
                    /\ Shape(i) = <<"reg", "reg">> /\ Cardinality(special) = 1
                    /\ Cardinality(Registers(i)) = 2
                    /\ Sizes(i) = {IF i.bits = 64 THEN 64 ELSE 32}
             [] i.mn \in {"MOV"} \cup TwoArgumentOps /\ segment \cup special = {} ->
                    Shape(i) \in binary \cup {<<"reg", "imm">>, <<"mem", "imm">>} /\ OneSize(i, widths)
             [] i.mn \in {"ADCX", "ADOX"} ->
                    Shape(i) \in {<<"reg", "reg">>, <<"reg", "mem">>} /\ gpr /\ OneSize(i, {32, 64} \cap widths)
             [] i.mn \in {"MUL", "IMUL", "DIV", "IDIV", "NOT", "NEG", "INC", "DEC"} ->
                    \/ Shape(i) \in {<<"reg">>, <<"mem">>} /\ gpr /\ OneSize(i, widths)
                    \/ /\ i.mn = "IMUL" /\ gpr /\ OneSize(i, full)
                       /\ Shape(i) \in {<<"reg", "reg">>, <<"reg", "mem">>, <<"reg", "reg", "imm">>,
                                        <<"reg", "mem", "imm">>}
             [] i.mn \in ShiftOps ->
                    LET target == [i EXCEPT !.ops = <<i.ops[1]>>]
                    IN  /\ Shape(i) \in {<<"reg", "imm">>, <<"mem", "imm">>}
                              \/ (Shape(i) \in {<<"reg", "reg">>, <<"mem", "reg">>} /\ i.ops[2].r = "CL")
                        /\ gpr /\ OneSize(target, widths)
             [] OTHER -> FALSE

-----------------------------------------------------------------------------
(* Legal programs *)

\* The expressions of a line.
Expressions(n) ==
    LET line == prog.lines[n]
        i == Instruction(n)
        parts(m) == {<<x.o>> : x \in Elems(Offsets(m))}
    IN  CASE line.d = "instr" -> {i.ops[k].e : k \in {k \in DOMAIN i.ops : IsImm(i.ops[k])}}
                                 \cup UNION {parts(m) : m \in Memories(i)}
          [] line.d = "data" -> {FullExpr(v, n) : v \in Elems(line.values)}
          [] line.d = "equ" -> {FullExpr(line.value, n)}
          [] line.d = "res" -> {FullExpr(line.count, n)}
          [] OTHER -> {}
Mentions(expr) == getDependencies(expr)
MentionedBy(n) == UNION {Mentions(x) : x \in Expressions(n)}
Used == UNION {MentionedBy(n) : n \in DOMAIN prog.lines}

\* No file can hold a multiple of an address.
Scales(n) == \E x \in Expressions(n) : \E k \in 1..Len(x)-1 :
                /\ x[k].t = "str" /\ x[k].name \in {DeclaredName(m) : m \in Lines({"label"})}
                /\ x[k+1] = Oper("*")

LegalProgram ==
    LET declarations == Lines({"label", "equ"})
        names == {DeclaredName(n) : n \in declarations}
        externs == ListedNames("extern")
    IN  /\ \A n \in Lines({"bits"}) : prog.lines[n].bits \in {16, 32, 64}
        /\ \A n \in Lines({"instr"}) : Legal(Instruction(n))
        /\ Cardinality(names) = Cardinality(declarations) /\ names \cap externs = {}
        /\ Used \subseteq names \cup externs
        /\ \A n \in Lines({"equ"}) : DeclaredName(n) \notin MentionedBy(n)
        /\ \A n \in DOMAIN prog.lines : ~Scales(n)
        /\ prog.format = "bin" => Used \cap externs = {}

-----------------------------------------------------------------------------
(* What the assembler does not take, legal or not *)

\* A constant whose name has a dot is not local to a label, and neither is
\* such a name in an address.
DottedEqu == {n \in Lines({"equ"}) : prog.lines[n].name.t = "loc" /\ Main(n) # ""}
DottedAddress(n) ==
    LET ops == prog.lines[n].ops
    IN  /\ prog.lines[n].d = "instr" /\ Main(n) # ""
        /\ \E k \in DOMAIN ops : IsMem(ops[k]) /\ \E x \in Elems(Offsets(ops[k])) : x.o.t = "loc"

\* A product in an address is one of a register and added.
OddTerm(n) == /\ prog.lines[n].d = "instr"
              /\ \E m \in Memories(Instruction(n)) : \E x \in Elems(m.terms) :
                    x.t = "product" \/ (x.t = "scaled" /\ x.sign = -1)

\* A reservation is counted before any name has a value: constants are refused
\* and all distances are 0.
EarlyCount(n) == prog.lines[n].d = "res" /\ MentionedBy(n) # {}

Unsupported ==
    \/ Lines({"align", "times"}) # {}
    \/ \E n \in Lines({"data"}) : prog.lines[n].width > 8
    \/ DottedEqu # {}
    \/ Used \cap (ListedNames("extern") \ FirstNames("extern")) # {}
    \/ \E n \in DOMAIN prog.lines : DottedAddress(n) \/ OddTerm(n) \/ EarlyCount(n)
    \/ prog.format = "elf" /\ homeless

-----------------------------------------------------------------------------
(* Where the assembler is known to go wrong.  e is an entry after the        *)
(* encoder has run, so e.f tells which form it chose; i is the instruction   *)
(* that was written.                                                         *)

\* adc, or, and, ... with the accumulator and a small number: the short form
\* is encoded without the digit that tells them apart.
LosesDigit(e) == e.f.target # "none" /\ e.f.mn \in DOMAIN ALU \ {"ADD"} /\ e.f.opcode = 131

\* An address of a scaled index alone always has a 32-bit displacement; one of
\* si or di alone is encoded with a one-byte displacement of two bytes, and the
\* factor of a single 16-bit register is dropped.
LosesBase(e, i) ==
    \E m \in Memories(i) : \E p \in Factors(m) :
       /\ Cardinality(Factors(m)) = 1
       /\ \/ AddressSize(i.bits, m) # 16 /\ p[2] \in {4, 8} /\ (Offsets(m) = <<>> \/ e.f.disp.short)
          \/ p[1] \in {"SI", "DI"} /\ Offsets(m) # <<>> /\ ~e.f.disp.short
          \/ AddressSize(i.bits, m) = 16 /\ p[2] # 1

\* Registers that only 64-bit mode has are taken in other modes where the
\* constructor does not call checkReg.
UncheckedRegister(i) == i.bits # 64 /\ AllRegisters(i) \cap Only64 # {}

\* Segment registers: an 8-bit partner, a control register, and a 32-bit
\* destination in 16-bit code.
OddSegment(i) ==
    /\ i.mn = "MOV" /\ Registers(i) \cap isSegment # {}
    /\ \/ 8 \in Sizes(i)
       \/ Registers(i) \cap (ControlRegs \cup DebugRegs) # {}
       \/ i.bits = 16 /\ SizeOf(Blank(i.bits), i.ops[1]) = 32

\* A distance to another section is measured from the wrong place; the number
\* added to an external label is dropped, and in an ELF32 file, where the linker
\* takes the addend from the field, so is the width of the field.
LosesDistance(e) ==
    LET relocation == e.f.imm.reloc
    IN  /\ e.f.imm.ripRelative /\ relocation # NoReloc
        /\ relocation.extern => Len(e.f.imm.expr) > 1 \/ ~wide

\* A value that grows while code shrinks may outgrow its shortened field.
Outgrows(n) ==
    LET antitone(x) == \E k \in 1..Len(x)-1 : x[k] = Oper("-") /\ x[k+1] = Oper("(")
        antitoneOffset(m) == /\ \E x \in Elems(Offsets(m)) : x.o.t = "num" /\ x.sign = 1
                             /\ \E x \in Elems(Offsets(m)) : x.o.t = "str" /\ x.sign = -1
    IN  \/ \E x \in Expressions(n) : antitone(x)
        \/ prog.lines[n].d = "instr" /\ \E m \in Memories(Instruction(n)) : antitoneOffset(m)

ShrunkIn == {sections[p[1]].name : p \in {p \in Places(sections) :
                LET e == Entry(sections, p) IN e.k = "instr" /\ size(e.f) # size(GetInstruction(e.i))}}

\* A constant keeps the value the first layout gave it, and one that is a
\* distance hides the section of the label it is added to.
PlacedIn(c) == LET expr == constants[c].expr
               IN  (IF constants[c].hasPos THEN {constants[c].section} ELSE {})
                   \cup {labels[n].section : n \in Mentions(expr) \cap DOMAIN labels}
StaleConstant(n) ==
    \E x \in Expressions(n), c \in DOMAIN constants :
       /\ c \in Mentions(x)
       /\ \/ PlacedIn(c) \cap ShrunkIn # {}
          \/ constants[c].hasPos /\ ~constants[c].useOffset /\ Mentions(x) \cap DOMAIN labels # {}

\* The relocations of data pile up with every pass; a linker that finds the
\* addend in the field adds the symbol each time.
RelocatedTwice(e) == prog.format = "elf" /\ ~wide /\ \E m, n \in DOMAIN e.relocs : m # n /\ e.relocs[m].at = e.relocs[n].at

\* The cases together.  A multiple of an address is not refused but computed
\* as if the sections followed each other in memory.
KnownWrong(e) ==
    LET i == Instruction(e.line)
    IN  CASE e.k = "instr" -> \/ LosesDigit(e) \/ LosesBase(e, i) \/ LosesDistance(e)
                              \/ UncheckedRegister(i) \/ OddSegment(i)
                              \/ Outgrows(e.line) \/ StaleConstant(e.line) \/ DottedAddress(e.line)
          [] e.k = "data" -> RelocatedTwice(e) \/ StaleConstant(e.line) \/ Scales(e.line)
          [] e.k = "res" -> EarlyCount(e.line)
          [] OTHER -> FALSE

\* The last pass may shorten a shift without measuring again, and adcx and adox
\* are one byte longer than they are counted.
Miscounted == /\ labels # Nothing
              /\ \E p \in Places(sections) :
                    LET e == Entry(sections, p)
                    IN  e.k = "instr" /\ (e.i.mn \in {"ADCX", "ADOX"} \/ (e.i.mn \in ShiftOps /\ IsImm(e.i.ops[2]) /\ ~e.f.imm.use))

-----------------------------------------------------------------------------
(* Properties *)

\* A program is refused only for a reason: every legal program reaches a file,
\* but for the forms that the parser and the writers do not take.
RefusesOnlyIllegal == phase = "Error" => ~LegalProgram \/ Unsupported

\* The file, linked and read by the processor, does what the program says:
\* instruction for instruction and byte for byte of data, whatever forms were
\* chosen, however often the layout changed, whoever resolved the addresses.
MeansProgram ==
    phase = "Done" /\ ~Miscounted =>
        \A p \in Places(sections) : KnownWrong(Entry(sections, p)) \/ Faithful(p[1], p[2])

\* Symbols of an object file: every label once, in its section and behind the
\* bytes that precede it, every constant with its value, every external label
\* that is used and no other; the linker finds the local ones in front.
SymbolMeans(s) ==
    LET p == CHOOSE q \in Places(sections) : Entry(sections, q).k \in {"label", "const"}
                                           /\ Entry(sections, q).name = s.name
        line == prog.lines[Entry(sections, p).line]
        value(e) == Arithmetic(FullExpr(e, Entry(sections, p).line), Environment, Address(p[1], p[2]), Base(p[1]))
    IN  CASE line.d = "equ" -> \/ StaleConstant(Entry(sections, p).line) \/ PlacedIn(s.name) \cap ShrunkIn # {}
                               \/ value(line.value) = s.value + (IF s.shndx = XINDEX THEN 0 ELSE LinkBase(s.shndx))
          [] line.d = "extern" -> s.shndx = UNDEF /\ s.bind = "GLOBAL" /\ s.name \in Used
          [] line.d = "label" ->
                /\ LinkBase(s.shndx) + s.value = Address(p[1], p[2]) /\ s.shndx = p[1]
                /\ (s.bind = "GLOBAL") = (s.name \in FirstNames("global"))
SymbolsExact ==
    phase = "Done" /\ prog.format = "elf" /\ ~Miscounted =>
        LET named == {k \in DOMAIN file.symtab : file.symtab[k].name \notin {"", "file"}}
            table == CHOOSE h \in Elems(file.headers) : h.type = "SYMTAB"
            declared == {DeclaredName(n) : n \in Lines({"label", "equ"}) \ DottedEqu}
                        \cup (FirstNames("extern") \cap Used)
            all(n) == {k \in named : file.symtab[k].name = n}
        IN  /\ \A k \in named : SymbolMeans(file.symtab[k])
            /\ \A n \in declared : Cardinality(all(n)) = 1
            /\ \A n \in FirstNames("extern") \ Used : all(n) = {}
            /\ \A k \in DOMAIN file.symtab : (file.symtab[k].bind = "LOCAL") = (k <= table.info)
            /\ table.size = table.entsize * Len(file.symtab)

\* Where the parts of a file lie: aligned, apart from each other, behind the
\* headers, and where the headers or the relocations say; each relocation
\* section names the symbol table and the section it is for.
Apart(places) == \A a, b \in places : a.k # b.k => a.from + a.size <= b.from \/ b.from + b.size <= a.from
SectionsPlaced ==
    LET inBinary == {[k |-> j, from |-> file.offsets[sections[j].name], size |-> contentSize(sections[j])] :
                        j \in DOMAIN sections}
        stored == {h \in DOMAIN file.headers : fileSize(file.headers[h]) > 0}
        inObject == {[k |-> h, from |-> file.headers[h].offset, size |-> file.headers[h].size] : h \in stored}
    IN  /\ phase = "Done" /\ prog.format = "bin" =>
               /\ Apart({a \in inBinary : a.size > 0})
               /\ \A j \in DOMAIN sections :
                     /\ file.offsets[sections[j].name] % sections[j].align = 0
                     /\ sections[j].name = ".text" => file.offsets[".text"] = 0
                     /\ ~sections[j].isInitialized => file.offsets[sections[j].name] >= Len(file.bytes)
        /\ phase = "Done" /\ prog.format = "elf" =>
               /\ Apart(inObject)
               /\ \A a \in inObject : /\ a.from >= 64 + headerSize * Len(file.headers)
                                     /\ a.from = file.headers[a.k].position
                                     /\ a.from % file.headers[a.k].align = 0
               /\ \A h \in Elems(file.headers) : h.type \in {"REL", "RELA"} =>
                     /\ file.headers[h.link + 1].type = "SYMTAB"
                     /\ h.name = (IF wide THEN ".rela" ELSE ".rel") \o file.headers[h.info + 1].name
               /\ file.headers[file.shstrndx + 1].name = ".shstrtab"

\* What the writers say about a file is so: its symbols and its sections are
\* where a linker or a loader will look for them.
FileExact == SymbolsExact /\ SectionsPlaced
=============================================================================
