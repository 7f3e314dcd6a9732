------------------------------- MODULE MCLasm -------------------------------
(* Programs for TLC: one instruction each, for every constructor and every   *)
(* kind of operand (Forms), and small programs whose layout matters.         *)
EXTENDS AsmProperties

Numeral(n) == IF n < 0 THEN <<Oper("-"), Num(-n)>> ELSE <<Num(n)>>
Operand(n) == [k |-> "imm", e |-> Numeral(n)]
To(l) == [k |-> "imm", e |-> <<Name(l)>>]
Term(r, s) == CASE r = "none" -> <<>>
                [] r # "none" /\ s = 1 -> <<[t |-> "reg", r |-> r, sign |-> 1]>>
                [] OTHER -> <<[t |-> "scaled", r |-> r, by |-> s, sign |-> 1]>>
Offset(o, sign) == <<[t |-> "const", o |-> o, sign |-> sign]>>
Displacement(n) == IF n < 0 THEN Offset(Num(-n), -1) ELSE Offset(Num(n), 1)
Addressed(terms, width) == [k |-> "mem", terms |-> terms, size |-> width]
Mem(r1, s1, r2, s2, disp, width) == Addressed(Term(r1, s1) \o Term(r2, s2) \o disp, width)

Instr(mn, ops) == [d |-> "instr", mn |-> mn, ops |-> ops]
Program(bits, format, lines) == [bits |-> bits, format |-> format, lines |-> lines]
Section(name, lines) == <<[d |-> "section", name |-> name]>> \o lines

-----------------------------------------------------------------------------
(* Operands *)

RegsOf(w) == CASE w = 0 -> {} [] w = 8 -> {"AL", "BL", "AH", "SPL", "R9B"} [] w = 16 -> {"AX", "BP", "R9W"}
               [] w = 32 -> {"EAX", "EBP", "ESP", "R12D"} [] w = 64 -> {"RAX", "RBX", "RSP", "R13"}
RegOps(ws) == {Reg(r) : r \in UNION {RegsOf(w) : w \in ws}}

Numbers(w) == {1, -5, 127, 128} \cup (IF w = 8 THEN {} ELSE {1000}) \cup (IF w <= 16 THEN {} ELSE {-129, 70000})

\* Address registers with their factors, and displacements.
Addresses == { <<"none", 0, "none", 0>>,
               <<"BX", 1, "SI", 1>>, <<"DI", 1, "BP", 1>>, <<"SI", 1, "none", 0>>, <<"BP", 1, "none", 0>>,
               <<"BX", 1, "none", 0>>, <<"BX", 1, "BP", 1>>,
               <<"EAX", 1, "none", 0>>, <<"EBP", 1, "none", 0>>, <<"ESP", 1, "none", 0>>,
               <<"EBX", 1, "ECX", 4>>, <<"EBP", 1, "ESI", 1>>, <<"EAX", 1, "ESP", 1>>, <<"ESP", 1, "EAX", 2>>,
               <<"EDX", 8, "EAX", 1>>, <<"ECX", 2, "none", 0>>, <<"EBP", 3, "none", 0>>,
               <<"ECX", 4, "none", 0>>, <<"EAX", 2, "ESP", 8>>, <<"none", 0, "EDI", 9>>, <<"EBX", 6, "none", 0>>,
               <<"R8D", 1, "R13D", 2>>, <<"EAX", 1, "RAX", 1>>,
               <<"RAX", 1, "none", 0>>, <<"RBP", 1, "none", 0>>, <<"RSP", 1, "R12", 8>>, <<"R12", 1, "none", 0>>,
               <<"R13", 1, "none", 0>>, <<"R13", 1, "R12", 2>>, <<"R9", 8, "none", 0>>, <<"R13", 5, "none", 0>>,
               <<"BX", 2, "none", 0>>, <<"EAX", 1, "EAX", 1>>, <<"EAX", 1, "EBX", -1>> }
Displacements == {<<>>, Displacement(5), Displacement(-128), Displacement(300)}
AllAddresses(width) == {Mem(a[1], a[2], a[3], a[4], d, width) : a \in Addresses, d \in Displacements}
                         \ {Addressed(<<>>, width)}
\* A few addresses for the instructions that treat every address alike.
FewAddresses(width) == {Mem("BX", 1, "SI", 1, Displacement(5), width), Mem("EBX", 1, "ECX", 4, <<>>, width),
                        Addressed(Displacement(300), width), Mem("R12", 1, "R13", 1, Displacement(5), width)}

Widths == {8, 16, 32, 64}
Same(w) == {<<a, b>> : a, b \in RegOps({w})}
WithMem(w) == {<<a, m>> : a \in RegOps({w}), m \in FewAddresses(0)}
Binary(w) == Same(w) \cup WithMem(w) \cup {<<p[2], p[1]>> : p \in WithMem(w)}
WithNumber(w) == {<<a, Operand(n)>> : a \in RegOps({w}) \cup FewAddresses(w), n \in Numbers(w)}
Unary(w) == {<<a>> : a \in RegOps({w}) \cup FewAddresses(w)}
Mixed == {<<Reg("AX"), Reg("EBX")>>, <<Reg("BL"), Mem("EBX", 1, "none", 0, <<>>, 16)>>}

\* The operands of each group of mnemonics.
OperandsOf(mn) ==
    CASE mn \in NoOperand -> {<<>>}
      [] mn = "RET" -> {<<>>, <<Operand(8)>>}
      [] mn = "ICEBP" -> {<<>>}
      [] mn \in {"AAD", "AAM"} -> {<<>>, <<Operand(16)>>}
      [] mn = "INT" -> {<<Reg("AL")>>, <<Operand(10)>>, <<Operand(200)>>}
      [] Mnemonic(mn) \in DOMAIN CC -> {<<Operand(16)>>, <<Operand(1000)>>, <<Reg("EAX")>>}
      [] mn \in {"JMP", "CALL"} -> {<<Operand(16)>>, <<Operand(-1000)>>} \cup UNION {Unary(w) : w \in {0} \cup Widths}
      [] mn = "PUSH" -> {<<Operand(n)>> : n \in {5, -128, 128, -1000}} \cup UNION {Unary(w) : w \in Widths}
      [] mn = "POP" -> {<<Operand(5)>>} \cup UNION {Unary(w) : w \in Widths}
      [] mn \in {"MUL", "IDIV", "NOT", "NEG", "INC", "DEC"} -> UNION {Unary(w) : w \in Widths}
      [] mn = "IMUL" -> UNION {Unary(w) \cup Same(w) \cup WithMem(w)
                               \cup {<<p[1], p[2], Operand(n)>> : p \in WithMem(w), n \in {5, -129}} : w \in Widths}
      [] mn \in {"ADCX", "ADOX"} -> UNION {Same(w) \cup WithMem(w) : w \in Widths}
      [] mn \in ShiftOps -> {p \o <<c>> : p \in UNION {Unary(w) : w \in Widths},
                                          c \in {Operand(1), Operand(7), Reg("CL"), Reg("BL")}}
      [] mn \in TwoArgumentOps -> Mixed \cup UNION {Binary(w) \cup WithNumber(w) : w \in Widths}
      [] OTHER -> {}

\* 64-bit literals: no sign, a sign, neither.
Literals == {<<0, 0, 0, 128, 0, 0, 0, 0>>, <<0, 0, 0, 128, 255, 255, 255, 255>>, <<1, 2, 3, 4, 5, 6, 7, 8>>}
Moves ==
    LET segments == {Reg(r) : r \in {"ES", "DS", "GS"}}
        specials == {Reg(r) : r \in {"CR0", "CR3", "CR8", "DR7"}}
        partners == RegOps(Widths) \cup {Mem("BX", 1, "none", 0, <<>>, 0), Mem("ECX", 1, "none", 0, <<>>, 16)}
        both(S, T) == {<<a, b>> : a \in S, b \in T} \cup {<<b, a>> : a \in S, b \in T}
    IN  Mixed \cup UNION {Binary(w) \cup WithNumber(w) : w \in Widths}
        \cup both({Reg("CX")}, AllAddresses(0))
        \cup {<<Reg(r), [k |-> "imm", e |-> <<[t |-> "big", w |-> v]>>]>> : r \in {"RAX", "R13"}, v \in Literals}
        \cup both(segments, partners) \cup both(specials, RegOps({32, 64}) \cup specials) \cup both(segments, {Reg("CR0"), Operand(5)})

\* Every mnemonic once for the groups that differ in a digit only.
AllOf == {"ADC", "TEST", "SHL", "RCR"}
FewOf(mn) == IF mn \in AllOf \cup {"IMUL"} \/ mn \notin TwoArgumentOps \cup ShiftOps THEN OperandsOf(mn)
             ELSE IF mn \in ShiftOps THEN {<<Reg("BL"), Operand(7)>>, <<Reg("EBX"), Reg("CL")>>}
             ELSE {<<Reg("BL"), Operand(7)>>, <<Reg("EAX"), Operand(1000)>>, <<Reg("EBX"), Operand(5)>>,
                   <<Reg("EAX"), Operand(5)>>, <<Reg("BL"), Mem("EBX", 1, "none", 0, <<>>, 0)>>,
                   <<Mem("EBX", 1, "none", 0, <<>>, 32), Reg("EDX")>>, <<Reg("AX"), Reg("BX")>>}

Alone(b, mn, ops) == Program(b, "bin", <<Instr(mn, ops)>>)
Forms == {Alone(b, "MOV", ops) : b \in {16, 32, 64}, ops \in Moves}
         \cup UNION {{Alone(b, mn, ops) : b \in {16, 32, 64}, ops \in FewOf(mn)} : mn \in Mnemonics \cup DOMAIN Aliases}

-----------------------------------------------------------------------------
(* Programs whose layout matters *)

Label(n)  == [d |-> "label", name |-> Name(n)]
Dotted(n) == [d |-> "label", name |-> Local(n)]
Global(ns) == [d |-> "global", names |-> [k \in DOMAIN ns |-> Name(ns[k])]]
Extern(ns) == [d |-> "extern", names |-> [k \in DOMAIN ns |-> Name(ns[k])]]
Equ(n, e) == [d |-> "equ", name |-> Name(n), value |-> e]
Data(width, es) == [d |-> "data", width |-> width, values |-> es]
Text(bytes) == << [t |-> "text", b |-> bytes] >>
Space(width, e) == [d |-> "res", width |-> width, count |-> e]
Gap(n) == Space(1, <<Num(n)>>)
Bits(b) == [d |-> "bits", bits |-> b]
Plus(l, n) == <<Name(l), Oper("+"), Num(n)>>
Minus(l, m) == <<Name(l), Oper("-"), Name(m)>>
As(e) == [k |-> "imm", e |-> e]
ToDotted(l) == As(<<Local(l)>>)

Acc(b) == Reg(CASE b = 16 -> "AX" [] b = 32 -> "EAX" [] b = 64 -> "RAX")
Base0(b) == Term(CASE b = 16 -> "BX" [] b = 32 -> "EBX" [] b = 64 -> "RBX", 1)
NameAndNumber(l, n) == Addressed(Offset(Name(l), 1) \o Displacement(n), 0)

\* A jump over a gap at the limit of its short form, another jump inside the
\* gap that shrinks first, and the same backwards.
Jumps(b, f, n, mn) ==
    Program(b, f, Section(".text",
        << Label("top"), Instr(mn, <<To("end")>>), Gap(n), Instr("JMP", <<To("in")>>), Label("in"),
           Label("end"), Instr("NOP", <<>>), Gap(n), Instr(mn, <<To("end")>>), Instr("JMP", <<To("top")>>) >>))

\* Each jump fits only after the one inside has shrunk.
Nested(b, f) ==
    Program(b, f, Section(".text",
        << Instr("JMP", <<To("a")>>), Gap(60), Instr("JE", <<To("b")>>), Gap(60), Label("c"),
           Instr("JNE", <<To("c")>>), Label("a"), Gap(60), Label("b"), Instr("CALL", <<To("a")>>) >>))

\* Code, data and reserved bytes that name each other, in every order.
Three(b, f, order, mid) ==
    LET text == Section(".text",
            << Global(<<"start">>), Label("start"), Instr("MOV", <<Acc(b), To("d")>>), Instr("JMP", <<To("start")>>),
               Instr("MOV", <<Reg("CX"), NameAndNumber("v", 2)>>), Instr("ADD", <<Reg("CX"), As(Minus("w", "v"))>>),
               Label("t"), Instr("PUSH", <<To("t")>>), Instr("JE", <<As(<<Here, Oper("+"), Num(40)>>)>>) >>)
        data == Section(".data", << Label("d"), Data(b \div 8, << Plus("t", 1), Minus("t", "start") >>), Gap(mid),
                                    Label("s"), Data(2, <<Minus("s", "d")>>) >>)
        bss == Section(".bss", << Label("v"), Gap(5), Label("w"), Gap(3) >>)
        part == <<text, data, bss>>
    IN  Program(b, f, part[order[1]] \o part[order[2]] \o part[order[3]])

\* External and global names, with and without a use.
Linking(b, f, more) ==
    Program(b, f, Section(".text",
        << Extern(<<"puts">>), Extern(<<"unused">>), Global(<<"main">>), Label("l"), Label("main"),
           Instr("CALL", <<To("puts")>>), Instr("MOV", <<Acc(b), To("puts")>>), Instr("JMP", <<To("l")>>) >>)
      \o Section(".data", << Label("p"), Data(b \div 8, << <<Name("puts")>>, <<Name("main")>> >>) >> \o more))

\* Constants, in code that does not shrink and in code that does.
Constants(b, f, shrinks) ==
    Program(b, f, Section(".data",
        << Label("msg"), Gap(9), Equ("len", <<Here, Oper("-"), Name("msg")>>), Equ("twice", <<Name("len"), Oper("*"), Num(2)>>),
           Equ("last", <<Name("msg"), Oper("+"), Name("twice")>>),
           Data(4, << <<Name("twice")>>, <<Name("msg"), Oper("+"), Name("len")>>, <<Name("len"), Oper("+"), Name("msg")>> >>) >>)
      \o Section(".text", << Label("a") >> \o When(shrinks, <<Instr("JMP", <<To("a")>>)>>) \o
        << Instr("MOV", <<Acc(b), To("last")>>), Label("z"), Equ("here", <<Name("z")>>), Equ("size", Minus("z", "a")), Equ("double", <<Name("size"), Oper("*"), Num(2)>>),
           Instr("MOV", <<Reg("BL"), To("size")>>), Instr("JMP", <<To("here")>>) >>))

\* A field that shrank keeps its width when its value grows afterwards.
Growing(b, f, n) ==
    LET distance == <<Oper("-"), Oper("("), Name("z"), Oper("-"), Name("a"), Oper(")")>>
    IN  Program(b, f, Section(".text",
            << Label("a"), Instr("ADD", <<Reg("BX"), As(<<Num(n)>> \o distance)>>),
               Instr("MOV", <<Reg("CX"), Addressed(Base0(b) \o Displacement(n) \o Offset(Name("a"), 1) \o Offset(Name("z"), -1), 0)>>),
               Instr("JMP", <<As(Plus("a", n + 6) \o distance)>>),
               Instr("JMP", <<To("z")>>), Instr("JMP", <<To("a")>>), Label("z") >>))

\* Instructions that are miscounted, and distances that are lost.
Odd(b, f, mn) ==
    LET ops == CASE mn = "ADCX" -> <<Reg("EAX"), Reg("EBX")>> [] mn = "SHL" -> <<Reg("EAX"), Operand(1)>>
                 [] mn = "CALL" -> <<To("d")>>
    IN  Program(b, f, Section(".data", <<Label("d"), Gap(4)>>)
                   \o Section(".text", << Label("a"), Instr("JMP", <<To("z")>>), Instr(mn, ops), Label("z"),
                                          Instr("JMP", <<To("a")>>) >>))

\* Nothing shrinks but a shift.
Shifted(b, f) == Program(b, f, << Instr("SHL", <<Reg("EAX"), Operand(1)>>), Label("z"), Instr("MOV", <<Acc(b), To("z")>>) >>)

-----------------------------------------------------------------------------
(* Programs whose lines matter *)

\* Lines in front of the first section, sections that are opened again, code
\* for another mode, text, and a distance in an address.
Scattered(b, other, f, sections1) ==
    Program(b, f, << Instr("JMP", <<To("main")>>), [d |-> "org"], Label("early") >>
        \o Section(sections1, << Label("s"), Data(2, << Text(<<72, 105, 33>>), <<Num(7)>>, Minus("e", "s") >>), Space(4, <<Num(3)>>) >>)
        \o Section(".text", << Label("main"), Bits(other), Instr("MOV", <<Acc(other), Operand(5)>>), Instr("JE", <<To("main")>>),
                               Bits(b), Instr("AAM", <<>>),
                               Instr("MOV", <<Reg("CX"), Addressed(Base0(b) \o Offset(Name("e"), 1) \o Offset(Name("s"), -1), 0)>>) >>)
        \o Section(sections1, << Label("e"), Data(1, <<Text(<<111, 107>>)>>) >>)
        \o Section(".text", << Instr("JMP", <<To("early")>>) >>))

\* The same dotted name behind two labels, and in front of all labels.
Dots(b, f, more) ==
    Program(b, f, << Dotted(".x"), Instr("JMP", <<ToDotted(".x")>>), Instr("MOV", <<Reg("CX"), Addressed(Offset(Local(".x"), 1), 0)>>),
                     Label("f"), Dotted(".x"), Instr("JE", <<ToDotted(".x")>>), Instr("JMP", <<To("g.x")>>),
                     Label("g"), Instr("NOP", <<>>), Dotted(".x"), Instr("JMP", <<ToDotted(".x")>>) >> \o more)
AddressOfDot(n) == <<Dotted(n), Instr("MOV", <<Reg("CX"), Addressed(Offset(Local(n), 1), 0)>>)>>
DottedConstant == << [d |-> "equ", name |-> Local(".k"), value |-> <<Num(3)>>], Instr("MOV", <<Reg("BL"), ToDotted(".k")>>) >>

\* Lists of names, of which the first counts.
Lists(b, used) ==
    Program(b, "elf", << Extern(<<"p", "q">>), Global(<<"f", "g">>), Label("f"), Label("g"), Instr("CALL", <<To(used)>>) >>)

\* One line that is refused, or read for less than it says.
Extra(b, f, line) == Program(b, f, << Label("a"), Instr("NOP", <<>>), Label("z"), line, Instr("JMP", <<To("a")>>) >>)
ExtraLines == { Bits(8), [d |-> "align"], [d |-> "times"], Space(1, Minus("z", "a")), Space(2, <<Name("z")>>), Space(1, <<Name("nowhere")>>),
                Equ("k", <<Name("nowhere")>>), Label("a"), Equ("k", <<Name("k")>>), Data(10, << <<Num(1)>> >>), Data(4, << <<Name("z"), Oper("*"), Num(2)>> >>),
                Instr("MOV", <<Reg("CX"), Addressed(<< [t |-> "product"] >>, 0)>>),
                Instr("MOV", <<Reg("CX"), Addressed(Term("EAX", 1) \o Term("EBX", 1) \o Term("ECX", 1), 0)>>),
                Instr("MOV", <<Reg("CX"), Addressed(Term("EAX", 1) \o <<[t |-> "scaled", r |-> "EBX", by |-> 2, sign |-> -1]>>, 0)>>),
                Instr("MOV", <<Reg("CX"), Addressed(Term("EAX", 1) \o <<[t |-> "reg", r |-> "EBX", sign |-> -1]>>, 0)>>),
                Instr("MOV", <<Operand(5), Reg("CX")>>) }

Layouts ==
    LET modes == {16, 32, 64}
        formats == {"bin", "elf"}
        orders == {<<1, 2, 3>>, <<3, 2, 1>>, <<2, 1, 3>>}
    IN  {Jumps(b, f, n, mn) : b \in modes, f \in formats, n \in 122..130, mn \in {"JMP", "JNE"}}
        \cup {Nested(b, f) : b \in modes, f \in formats}
        \cup {Three(b, f, o, n) : b \in modes \ {16}, f \in formats, o \in orders, n \in {0, 3}}
        \cup {Three(16, "bin", <<1, 2, 3>>, 1)}
        \cup {Linking(b, f, m) : b \in {32, 64}, f \in formats, m \in {<<>>, <<Equ("q", <<Name("puts")>>)>>, <<Label("main")>>, <<Instr("CALL", <<As(Plus("puts", 4))>>)>>}}
        \cup {Constants(b, f, j) : b \in {32, 64}, f \in formats, j \in BOOLEAN}
        \cup {Growing(b, f, n) : b \in modes, f \in formats, n \in 138..148}
        \cup {Odd(b, "elf", odd) : b \in {32, 64}, odd \in {"ADCX", "SHL", "CALL"}}
        \cup {Shifted(b, f) : b \in modes \ {16}, f \in formats}
        \cup {Scattered(b, other, f, s) : b \in {16, 32}, other \in modes, f \in formats, s \in {".data", ".bss2"}}
        \cup {Dots(b, f, m) : b \in {32, 64}, f \in formats, m \in {<<>>, Tail(AddressOfDot(".x")), AddressOfDot(".y"), DottedConstant,
                                                                  SubSeq(DottedConstant, 1, 1)}}
        \cup {Lists(b, u) : b \in {32, 64}, u \in {"f", "g", "p", "q"}}
        \cup {Extra(32, f, l) : f \in formats, l \in ExtraLines}

All == Forms \cup Layouts
=============================================================================
