----------------------------- MODULE AsmParser -----------------------------
(* The parser of lasm (tools/lasm/Parser): lines become the entries of       *)
(* sections, with the mode, the local labels and the global names that are   *)
(* in force where they stand, and the operands of instructions become        *)
(* registers, numbers and addresses.                                         *)
(*                                                                           *)
(* A program is [bits, format, lines]; a line is one of                      *)
(*   [d |-> "section", name], [d |-> "bits", bits], [d |-> "org"],           *)
(*   [d |-> "global", names], [d |-> "extern", names],                       *)
(*   [d |-> "label", name], [d |-> "equ", name, value],                      *)
(*   [d |-> "data", width, values], [d |-> "res", width, count],             *)
(*   [d |-> "align"], [d |-> "times"], [d |-> "instr", mn, ops].             *)
(* Names are [t |-> "str", name] or, with a dot in front, [t |-> "loc",      *)
(* name].  A memory operand is [k |-> "mem", terms, size]; its terms are     *)
(*   [t |-> "reg", r, sign], [t |-> "scaled", r, by, sign],                  *)
(*   [t |-> "const", o, sign], [t |-> "product"].                            *)
(* Characters, and the tokens they make, are left out.                       *)
EXTENDS X86Instr, AsmExpr

CONSTANT Programs

Aliases == [JZ |-> "JE", JNZ |-> "JNE", JNLE |-> "JG", JNL |-> "JGE", JNGE |-> "JL", JNG |-> "JLE",
            JNBE |-> "JA", JNB |-> "JAE", JNAE |-> "JB", JNA |-> "JBE", JPE |-> "JP", JPO |-> "JNP",
            ICEBP |-> "INT1"]
Mnemonic(mn) == IF mn \in DOMAIN Aliases THEN Aliases[mn] ELSE mn

\* Lines come one behind the other, and an instruction has a name that lasm knows.
ASSUME ProgramAssumption ==
    \A p \in Programs :
        /\ p.lines \in Seq(Elems(p.lines))
        /\ \A n \in DOMAIN p.lines : p.lines[n].d = "instr" => p.lines[n].mn \in Mnemonics \cup DOMAIN Aliases

VARIABLES prog, phase, parser

Local(s) == [t |-> "loc", name |-> s]

-----------------------------------------------------------------------------
(* Operands *)

\* A name with a dot belongs to the last label without one.
getOperand(o, lastMainLabel) == IF o.t = "loc" THEN Name(lastMainLabel \o o.name) ELSE o
Immediate(e, lastMainLabel) == [n \in DOMAIN e |-> getOperand(e[n], lastMainLabel)]

Parenthesized(e) == <<Oper("(")>> \o e \o <<Oper(")")>>

\* extractAddressingMode: two registers at most, and a product is one of a
\* register, not to be subtracted.
termsAllowed(terms) ==
    /\ Cardinality({terms[n].r : n \in {m \in DOMAIN terms : terms[m].t \in {"reg", "scaled"}}}) <= 2
    /\ \A n \in DOMAIN terms : terms[n].t # "product" /\ (terms[n].t = "scaled" => terms[n].sign = 1)

\* The registers in the order they appear, with the sum of their factors.
registerTerms(terms) ==
    LET regTerms == SelectSeq(terms, LAMBDA x : x.t \in {"reg", "scaled"})
        regs == FoldLeft(LAMBDA s, x : IF x.r \in Elems(s) THEN s ELSE Append(s, x.r), <<>>, regTerms)
        factor(x) == IF x.t = "scaled" THEN x.by ELSE x.sign
    IN  [n \in DOMAIN regs |->
            <<regs[n], FoldLeft(LAMBDA sum, x : IF x.r = regs[n] THEN sum + factor(x) ELSE sum, 0, regTerms)>>]

\* A name is taken as it is written, without its label.
constTerm(x) ==
    LET token == IF x.o.t = "loc" THEN Name(x.o.name) ELSE x.o
    IN  IF x.sign = 1 THEN <<token>> ELSE Parenthesized(<<Num(-1), Oper("*"), token>>)
displacement(terms) ==
    LET sum(e, x) == IF e = <<>> THEN constTerm(x) ELSE Parenthesized(e \o <<Oper("+")>> \o constTerm(x))
    IN  FoldLeft(sum, NoExpr, SelectSeq(terms, LAMBDA x : x.t = "const"))

parseMemoryOperand(m) ==
    LET regs == registerTerms(m.terms) \o << <<"none", 0>>, <<"none", 0>> >>
        ok == termsAllowed(m.terms)
    IN  [ok |-> ok,
         op |-> IF ~ok THEN m
                ELSE [k |-> "mem", r1 |-> regs[1][1], s1 |-> regs[1][2], r2 |-> regs[2][1], s2 |-> regs[2][2],
                      disp |-> displacement(m.terms), size |-> m.size]]

\* The operands each group of mnemonics is read with.
oneOperand == {<<"reg">>, <<"mem">>}
destination == {<<"reg", "reg">>, <<"reg", "mem">>}
twoOperands == destination \cup {<<"mem", "reg">>, <<"mem", "mem">>, <<"reg", "imm">>, <<"mem", "imm">>}

controlOperands(mn) == CASE mn = "RET" -> {<<>>, <<"imm">>}
                         [] mn \in DOMAIN CC -> {<<"imm">>, <<"reg">>}
                         [] mn \in {"JMP", "CALL"} -> oneOperand \cup {<<"imm">>}
                         [] OTHER -> {<<>>}
interruptOperands(mn) == IF mn = "INT" THEN {<<"imm">>, <<"reg">>} ELSE {<<>>}
asciiOperands(mn) == IF mn \in {"AAD", "AAM"} THEN {<<>>, <<"imm">>} ELSE {<<>>}
stackOperands(mn) == IF mn \in {"PUSH", "POP"} THEN oneOperand \cup {<<"imm">>} ELSE {<<>>}
shiftOperands == twoOperands \ {<<"reg", "mem">>, <<"mem", "mem">>}
imulOperands == oneOperand \cup destination \cup {<<"reg", "reg", "imm">>, <<"reg", "mem", "imm">>}

Grammar(mn) ==
    CASE mn \in DOMAIN CC \cup {"JMP", "CALL", "RET", "NOP", "HLT"} -> controlOperands(mn)
      [] mn \in {"INT", "INT1", "INT3", "INTO"} -> interruptOperands(mn)
      [] mn \in {"AAA", "AAD", "AAM", "AAS"} -> asciiOperands(mn)
      [] mn \in DOMAIN StackOps \cup {"PUSH", "POP"} -> stackOperands(mn)
      [] mn = "MOV" \/ mn \in TwoArgumentOps -> twoOperands
      [] mn \in {"ADCX", "ADOX"} -> destination
      [] mn = "IMUL" -> imulOperands
      [] mn \in {"MUL", "DIV", "IDIV", "NOT", "NEG", "INC", "DEC"} -> oneOperand
      [] mn \in ShiftOps -> shiftOperands
      [] OTHER -> {<<>>}

\* Where only a number can stand, a register is read as a name.
parseOperand(mn, op, lastMainLabel) ==
    CASE op.k = "reg" -> [ok |-> TRUE, op |-> IF mn = "INT" \/ mn \in DOMAIN CC
                                              THEN [k |-> "imm", e |-> <<Name(op.r)>>] ELSE op]
      [] op.k = "imm" -> [ok |-> TRUE, op |-> [k |-> "imm", e |-> Immediate(op.e, lastMainLabel)]]
      [] op.k = "mem" -> parseMemoryOperand(op)

\* The instruction that operands, which are what was read, make.
InstructionOf(line, bits, mn, operands) ==
    LET shape == [n \in DOMAIN line.ops |-> line.ops[n].k]
        ops == [n \in DOMAIN operands |-> operands[n].op]
    IN  [ok |-> /\ shape \in Grammar(mn) /\ \A n \in DOMAIN operands : operands[n].ok
                /\ mn \in ShiftOps /\ shape[2] = "reg" => ops[2].r = "CL",
         i |-> [bits |-> bits, mn |-> mn,
                ops |-> IF mn \in {"AAD", "AAM"} /\ ops = <<>> THEN << [k |-> "imm", e |-> <<Num(10)>>] >> ELSE ops]]

parseInstruction(line, bits, lastMainLabel) ==
    InstructionOf(line, bits, Mnemonic(line.mn),
                [n \in DOMAIN line.ops |-> parseOperand(Mnemonic(line.mn), line.ops[n], lastMainLabel)])

\* A string is cut into values as wide as the definition.
parseValue(v, width, lastMainLabel) ==
    IF v[1].t # "text" THEN <<Immediate(v, lastMainLabel)>>
    ELSE LET text == v[1].b
             byte(n, k) == LET at == (n - 1) * width + k
                           IN  IF k <= width /\ at <= Len(text) THEN text[at] ELSE 0
         IN  [n \in 1..((Len(text) + width - 1) \div width) |->
                 << [t |-> "big", w |-> [k \in 1..8 |-> byte(n, k)]] >>]

-----------------------------------------------------------------------------
(* Lines *)

Line == prog.lines[parser.next]

\* An entry with the line it stands for.
Numbered(entry, n) == [x \in DOMAIN entry \cup {"line"} |-> IF x = "line" THEN n ELSE entry[x]]

\* current is 0 in front of the first section directive.
AddEntry(p, entry) ==
    LET e == Numbered(entry, p.next)
    IN  IF p.current = 0 THEN [p EXCEPT !.implicit = Append(@, e), !.next = @ + 1]
        ELSE [p EXCEPT !.sections[p.current].entries = Append(@, e), !.next = @ + 1]

Become(ok, p) == /\ phase' = IF ok THEN "Parse" ELSE "Error"
                 /\ parser' = p
                 /\ UNCHANGED prog

AtLine(kinds) == phase = "Parse" /\ parser.next \in DOMAIN prog.lines /\ Line.d \in kinds

\* The first pass takes one name from each list; the rest of the line is lost.
CollectNames ==
    /\ phase = "Names"
    /\ Become(TRUE, [parser EXCEPT !.globals = {l.names[1].name : l \in {prog.lines[n] : n \in
                                                  {m \in DOMAIN prog.lines : prog.lines[m].d = "global"}}}])

ParseSection ==
    LET named == {j \in DOMAIN parser.sections : parser.sections[j].name = Line.name}
        here == [parser EXCEPT !.next = @ + 1]
    IN  /\ AtLine({"section"})
        /\ Become(TRUE, IF named # {} THEN [here EXCEPT !.current = CHOOSE j \in named : TRUE]
                        ELSE [here EXCEPT !.current = Len(parser.sections) + 1,
                                          !.sections = Append(@, [name |-> Line.name, entries |-> <<>>])])

ParseBits == AtLine({"bits"}) /\ Become(Line.bits \in {16, 32, 64}, [parser EXCEPT !.bits = Line.bits, !.next = @ + 1])

ParseExtern ==
    /\ AtLine({"extern"})
    /\ Become(TRUE, AddEntry(parser, [k |-> "label", name |-> Line.names[1].name, isGlobal |-> FALSE, isExtern |-> TRUE]))

\* The name org gives is kept but never used.
ParseNothing == AtLine({"global", "org"}) /\ Become(TRUE, [parser EXCEPT !.next = @ + 1])

ParseLabel ==
    LET main == IF Line.name.t = "loc" THEN parser.lastMainLabel ELSE Line.name.name
    IN  /\ AtLine({"label"})
        /\ Become(TRUE, [AddEntry(parser, [k |-> "label", name |-> getOperand(Line.name, main).name,
                                      isGlobal |-> Line.name.name \in parser.globals, isExtern |-> FALSE])
                            EXCEPT !.lastMainLabel = main])

\* The name of a constant is taken as it is written.
ParseEqu ==
    /\ AtLine({"equ"})
    /\ Become(TRUE, AddEntry(parser, [k |-> "const", name |-> Line.name.name,
                                 value |-> Immediate(Line.value, parser.lastMainLabel),
                                 hasPos |-> \E n \in DOMAIN Line.value : Line.value[n].t = "pos",
                                 isGlobal |-> Line.name.name \in parser.globals]))

ParseData ==
    LET value(n) == parseValue(Line.values[n], Line.width, parser.lastMainLabel)
    IN  \/ /\ AtLine({"data"})
           /\ Become(TRUE, AddEntry(parser, [k |-> "data", width |-> Line.width,
                                        values |-> FlattenSeq([n \in DOMAIN Line.values |-> value(n)])]))
        \/ /\ AtLine({"res"})
           /\ Become(TRUE, AddEntry(parser, [k |-> "res", width |-> Line.width,
                                        count |-> Immediate(Line.count, parser.lastMainLabel)]))

ParseRepetition == AtLine({"align", "times"}) /\ Become(TRUE, AddEntry(parser, [k |-> Line.d]))

AddInstructionEntry(read) ==
    Become(read.ok, IF read.ok THEN AddEntry(parser, [k |-> "instr", i |-> read.i]) ELSE parser)

ParseInstruction ==
    /\ AtLine({"instr"})
    /\ AddInstructionEntry(parseInstruction(Line, parser.bits, parser.lastMainLabel))

\* Mutated: behind the lines of the section.
withImplicitBehind(section) == [section EXCEPT !.entries = @ \o parser.implicit]

\* What stands in front of the first section is the beginning of .text.
withImplicit(section) == [section EXCEPT !.entries = parser.implicit \o @]

ParseEnd ==
    LET text == {j \in DOMAIN parser.sections : parser.sections[j].name = ".text"}
        implicit == parser.implicit
        joined == [j \in DOMAIN parser.sections |->
                      IF j \in text THEN withImplicit(parser.sections[j]) ELSE parser.sections[j]]
    IN  /\ phase = "Parse" /\ parser.next > Len(prog.lines)
        /\ phase' = "Initialize"
        /\ parser' = [parser EXCEPT !.sections =
                         IF implicit = <<>> \/ text # {} THEN joined
                         ELSE <<[name |-> ".text", entries |-> implicit]>> \o joined]
        /\ UNCHANGED prog

ParserInit ==
    /\ prog \in Programs
    /\ phase = "Names"
    /\ parser = [next |-> 1, globals |-> {}, sections |-> <<>>, current |-> 0, implicit |-> <<>>,
                 lastMainLabel |-> "", bits |-> prog.bits]

Parse == \/ CollectNames
         \/ ParseSection
         \/ ParseBits
         \/ ParseExtern
         \/ ParseNothing
         \/ ParseLabel
         \/ ParseEqu
         \/ ParseData
         \/ ParseRepetition
         \/ ParseInstruction
         \/ ParseEnd

-----------------------------------------------------------------------------
(* What the parser promises *)

Lines(kinds) == {n \in DOMAIN prog.lines : prog.lines[n].d \in kinds}

\* The last line of a kind in front of line n, 0 if there is none.
Before(n, lines) == Max({0} \cup {m \in lines : m < n})

SectionOf(n) == LET m == Before(n, Lines({"section"})) IN IF m = 0 THEN ".text" ELSE prog.lines[m].name

Statements == Lines({"label", "extern", "equ", "data", "res", "align", "times", "instr"})

\* s has each number of S once, in ascending order.
InOrder(s, S) == Elems(s) = S /\ \A k, l \in DOMAIN s : k < l => s[k] < s[l]

\* Every line that stands for bytes or a name is in the section that is open
\* where it stands, behind the lines in front of it: whether the section was
\* opened before, is opened by nothing, or is .text in front of all the others.
StatementsInOrder ==
    phase = "Initialize" =>
        LET parsed == parser.sections
            lines(j) == [k \in DOMAIN parsed[j].entries |-> parsed[j].entries[k].line]
        IN  /\ \A j \in DOMAIN parsed : InOrder(lines(j), {n \in Statements : SectionOf(n) = parsed[j].name})
            /\ \A j, l \in DOMAIN parsed : parsed[j].name = parsed[l].name => j = l
            /\ \A n \in Statements : \E j \in DOMAIN parsed : parsed[j].name = SectionOf(n)
=============================================================================
