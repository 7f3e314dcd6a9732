----------------------------- MODULE Assembler -----------------------------
(* The encoder of lasm (tools/lasm/Encoder): it lays the sections of a       *)
(* parsed program out with every instruction in its longest form, then       *)
(* measures, evaluates and shortens until nothing shrinks any more, and      *)
(* writes the bytes and the relocations.                                     *)
(*                                                                           *)
(* It reads the sections of module AsmParser.  Each phase of Encode() is an  *)
(* action; a throw ends in phase "Error".                                    *)
EXTENDS AsmParser

VARIABLES sections, labels, constants, symbols, sectionStarts, relocs

encoder == <<sections, labels, constants, symbols, sectionStarts, relocs>>

Nothing == [x \in {} |-> x]
Total(numbers) == FoldLeft(+, 0, numbers)

entrySize(e) == CASE e.k = "instr" -> size(e.f)
                  [] e.k = "data" -> e.width * Len(e.values)
                  [] e.k = "res" -> e.bytes
                  [] OTHER -> 0

sectionSize(s) == Total([k \in DOMAIN s.entries |-> entrySize(s.entries[k])])

\* Where entry k of section j lies: bytesWritten counts all sections as one.
Start(secs, j) == Total([i \in 1..j-1 |-> sectionSize(secs[i])])
At(secs, j, k) ==
    LET offset == Total([i \in 1..k-1 |-> entrySize(secs[j].entries[i])])
    IN  [section |-> secs[j].name, offset |-> offset, written |-> Start(secs, j) + offset]

Places(secs) == UNION {{j} \X DOMAIN secs[j].entries : j \in DOMAIN secs}
Entry(secs, p) == secs[p[1]].entries[p[2]]

Starts(secs) == [n \in {secs[j].name : j \in DOMAIN secs} |->
                    Start(secs, CHOOSE j \in DOMAIN secs : secs[j].name = n)]

-----------------------------------------------------------------------------
(* Initialize() *)

\* A reservation is evaluated in its constructor, when no offset is known yet.
Reservation(e, v) ==
    [entry |-> [k |-> "res", bytes |-> e.width * v.n], ok |-> v.ok /\ ~v.useOffset /\ v.n >= 0]
Reserved(e, at, lbls, consts, starts) ==
    Reservation(e, Evaluate(e.count, at, lbls, consts, starts, FALSE, 0))

newLabel(e, section) == [section |-> section, offset |-> 0, isGlobal |-> e.isGlobal,
                         isExtern |-> e.isExtern, externUsed |-> FALSE, resolved |-> FALSE]
newConstant(e, section) ==
    [section |-> section, expr |-> e.value, value |-> 0, off |-> 0, usedSection |-> "none",
     hasPos |-> e.hasPos,
     useOffset |-> FALSE, offset |-> 0, written |-> 0, isGlobal |-> e.isGlobal,
     resolved |-> FALSE, relocationPossible |-> FALSE]

\* One entry of the parsed section: s is the encoder built so far, j the
\* section.  Alignments and repetitions are not implemented.
Add(s, j, e, entry, ok) ==
    [s EXCEPT !.sections[j].entries = Append(@, Numbered(entry, e.line)), !.ok = @ /\ ok]

AddInstruction(s, j, e, f) == Add(s, j, e, [k |-> "instr", i |-> e.i, f |-> f], f.ok)
AddReservation(s, j, e, r) == Add(s, j, e, r.entry, r.ok)

\* A label or a constant, which is a symbol too.
AddSymbol(s, j, e, known) ==
    [Add(s, j, e, [k |-> e.k, name |-> e.name], e.name \notin known)
        EXCEPT !.symbols = Append(@, [k |-> e.k, name |-> e.name])]

Read(s, j, e) ==
    CASE e.k = "instr" -> AddInstruction(s, j, e, GetInstruction(e.i))
      [] e.k = "data" ->
            Add(s, j, e, [k |-> "data", width |-> e.width, values |-> e.values,
                          bytes |-> <<>>, relocs |-> <<>>],
                e.width \in {1, 2, 4, 8} /\ <<>> \notin Elems(e.values))
      [] e.k = "res" ->
            AddReservation(s, j, e, Reserved(e, At(s.sections, j, Len(s.sections[j].entries) + 1),
                                             s.labels, s.constants, Starts(s.sections)))
      [] e.k = "label" ->
            [AddSymbol(s, j, e, DOMAIN s.labels)
                EXCEPT !.labels = (e.name :> newLabel(e, s.sections[j].name)) @@ @]
      [] e.k = "const" ->
            [AddSymbol(s, j, e, DOMAIN s.constants)
                EXCEPT !.constants = (e.name :> newConstant(e, s.sections[j].name)) @@ @]
      [] e.k \in {"align", "times"} -> [s EXCEPT !.ok = FALSE]

ReadSection(s, parsed) ==
    FoldLeft(LAMBDA t, e : IF t.ok THEN Read(t, Len(t.sections), e) ELSE t,
             [s EXCEPT !.sections = Append(@, [name |-> parsed.name, align |-> 0,
                                               isInitialized |-> parsed.name # ".bss",
                                               entries |-> <<>>, buffer |-> <<>>,
                                               reservedSize |-> 0])],
             parsed.entries)

Initialized(new) ==
    /\ phase' = IF new.ok THEN "Calculate" ELSE "Error"
    /\ sections' = new.sections
    /\ labels' = new.labels
    /\ constants' = new.constants
    /\ symbols' = new.symbols
    /\ sectionStarts' = Starts(new.sections)

Initialize ==
    /\ phase = "Initialize"
    /\ Initialized(FoldLeft(LAMBDA s, parsed : IF s.ok THEN ReadSection(s, parsed) ELSE s,
                            [ok |-> TRUE, sections |-> <<>>, labels |-> Nothing,
                             constants |-> Nothing, symbols |-> <<>>], parser.sections))
    /\ UNCHANGED <<prog, parser, relocs>>

-----------------------------------------------------------------------------
(* CalculationPhase() and resolveConstants() *)

MarkExterns(lbls, names) ==
    [l \in DOMAIN lbls |-> [lbls[l] EXCEPT !.externUsed = @ \/ l \in names]]

getDependencies(expr) == {expr[k].name : k \in {k \in DOMAIN expr : expr[k].t = "str"}}

resolve(c, v) ==
    [c EXCEPT !.relocationPossible = v.relocationPossible, !.useOffset = v.useOffset,
              !.off = IF v.useOffset THEN v.n ELSE @,
              !.value = IF v.useOffset THEN @ ELSE v.n,
              !.usedSection = IF v.useOffset THEN v.usedSection ELSE @, !.resolved = TRUE]

\* One layer of resolveConstantWithPos: the constants whose constants are
\* known; new is what they evaluate to.
Ready(s) ==
    {n \in DOMAIN s.constants :
        /\ ~s.constants[n].resolved
        /\ \A d \in getDependencies(s.constants[n].expr) \ DOMAIN s.labels :
              d \in DOMAIN s.constants /\ s.constants[d].resolved}

Resolved(s, new) ==
    [labels |-> MarkExterns(s.labels, {new[n].usedSection : n \in {m \in DOMAIN new : new[m].isExtern}}),
     constants |-> [n \in DOMAIN new |-> resolve(s.constants[n], new[n])] @@ s.constants,
     ok |-> s.ok /\ \A n \in DOMAIN new : new[n].ok]

ResolveLayer(s, starts) ==
    Resolved(s, [n \in Ready(s) |->
                    LET c == s.constants[n]
                    IN  Evaluate(c.expr, [section |-> c.section, offset |-> c.offset, written |-> c.written],
                                 s.labels, s.constants, starts, FALSE, 0)])

resolveConstants(lbls, consts, starts) ==
    FoldLeft(LAMBDA s, k : IF s.ok THEN ResolveLayer(s, starts) ELSE s,
             [labels |-> lbls, constants |-> consts, ok |-> TRUE],
             [k \in 1..Cardinality(DOMAIN consts) |-> k])

\* Where the label or constant of that name is defined.
DefinedAt(kind, name) ==
    LET p == CHOOSE q \in Places(sections) :
                Entry(sections, q).k = kind /\ Entry(sections, q).name = name
    IN  At(sections, p[1], p[2])

Placed(l) == [labels[l] EXCEPT !.offset = DefinedAt("label", l).offset, !.resolved = TRUE]
Located(c, at) == [constants[c] EXCEPT !.offset = at.offset, !.written = at.written]

Calculated(new) ==
    /\ phase' = IF new.ok /\ \A c \in DOMAIN constants : new.constants[c].resolved
                THEN "Evaluate" ELSE "Error"
    /\ labels' = new.labels
    /\ constants' = new.constants

CalculationPhase ==
    /\ phase = "Calculate"
    /\ sectionStarts' = Starts(sections)
    /\ Calculated(resolveConstants([l \in DOMAIN labels |-> Placed(l)],
                                   [c \in DOMAIN constants |-> Located(c, DefinedAt("const", c))],
                                   Starts(sections)))
    /\ UNCHANGED <<prog, parser, sections, symbols, relocs>>

-----------------------------------------------------------------------------
(* EvaluationPhase() *)

\* A use of an expression that once needed a relocation keeps it.
keepReloc(old, v) ==
    CASE v.useOffset -> [section |-> v.usedSection, extern |-> v.isExtern, offset |-> v.n]
      [] ~v.useOffset /\ old # NoReloc -> [old EXCEPT !.offset = v.n]
      [] OTHER -> NoReloc

evaluateDisp(f, v) ==
    [f EXCEPT !.disp.value = v.word, !.disp.reloc = keepReloc(@, v),
              !.disp.canOptimize = @ /\ ~v.useOffset]
evaluateImm(f, v) == [f EXCEPT !.imm.value = v.word, !.imm.reloc = keepReloc(@, v)]

\* What an entry evaluates, in order.
Asks(e) ==
    CASE e.k = "instr" ->
            When(e.f.disp.use, <<[expr |-> e.f.disp.expr, rip |-> FALSE, extra |-> 0]>>)
            \o When(e.f.imm.use, <<[expr |-> e.f.imm.expr, rip |-> e.f.imm.ripRelative,
                                    extra |-> getImmediateOffset(e.f) + e.f.imm.size \div 8]>>)
      [] e.k = "data" -> [n \in DOMAIN e.values |-> [expr |-> e.values[n], rip |-> FALSE, extra |-> 0]]
      [] OTHER -> <<>>

Answers(asks, at) ==
    [n \in DOMAIN asks |-> Evaluate(asks[n].expr, at, labels, constants, sectionStarts,
                                    asks[n].rip, asks[n].extra)]

\* The bytes of a data definition are new, its relocations are added to those
\* of the passes before.
evaluateData(e, vs) ==
    LET reloc(n) == When(vs[n].useOffset,
                         <<[at |-> (n - 1) * e.width, width |-> e.width, addend |-> vs[n].n,
                            section |-> vs[n].usedSection, extern |-> vs[n].isExtern,
                            type |-> "Absolute", signed |-> FALSE]>>)
    IN  [e EXCEPT !.bytes = FlattenSeq([n \in DOMAIN vs |-> SubSeq(vs[n].word, 1, e.width)]),
                  !.relocs = @ \o FlattenSeq([n \in DOMAIN vs |-> reloc(n)])]

\* vs are the answers, the displacement's in front of the immediate's.
evaluateFields(f, vs) ==
    LET d == IF f.disp.use THEN evaluateDisp(f, vs[1]) ELSE f
    IN  IF f.imm.use THEN evaluateImm(d, vs[Len(vs)]) ELSE d

evaluateEntry(e, vs) ==
    CASE e.k = "instr" -> [e EXCEPT !.f = evaluateFields(@, vs)]
      [] e.k = "data" -> evaluateData(e, vs)
      [] OTHER -> e

\* values[j][k] are the answers for entry k of section j.
Evaluated(values) ==
    LET all == UNION {Elems(values[p[1]][p[2]]) : p \in Places(sections)}
        ok == \A v \in all : v.ok
    IN  /\ phase' = IF ok THEN "Optimize" ELSE "Error"
        /\ sections' = IF ~ok THEN sections
                       ELSE [j \in DOMAIN sections |->
                               [sections[j] EXCEPT !.entries =
                                   [k \in DOMAIN @ |-> evaluateEntry(@[k], values[j][k])]]]
        /\ labels' = MarkExterns(labels, {v.usedSection : v \in {w \in all : w.isExtern}})

EvaluationPhase ==
    /\ phase = "Evaluate"
    /\ Evaluated([j \in DOMAIN sections |->
                     [k \in DOMAIN sections[j].entries |->
                         Answers(Asks(sections[j].entries[k]), At(sections, j, k))]])
    /\ UNCHANGED <<prog, parser, constants, symbols, sectionStarts, relocs>>

-----------------------------------------------------------------------------
(* OptimizationPhase() *)

\* An accumulator's register is looked at only when its form is shortened, and
\* may be refused there.
OptimizationPhase ==
    LET short(e) == IF e.k = "instr" THEN [e EXCEPT !.f = optimize(@)] ELSE e
        new == [j \in DOMAIN sections |->
                  [sections[j] EXCEPT !.entries = [k \in DOMAIN @ |-> short(@[k])]]]
        instrs == {Entry(sections, p).f : p \in {q \in Places(sections) : Entry(sections, q).k = "instr"}}
        ok == \A f \in instrs : optimize(f).ok
        again == \E f \in instrs : changed(f)
    IN  /\ phase = "Optimize"
        /\ phase' = IF ~ok THEN "Error" ELSE IF again THEN "Calculate" ELSE "Generate"
        /\ sections' = IF ok THEN new ELSE sections
        /\ sectionStarts' = IF ok THEN Starts(new) ELSE sectionStarts
        /\ UNCHANGED <<prog, parser, labels, constants, symbols, relocs>>

-----------------------------------------------------------------------------
(* GenerateCode() and, from main, Optimize() *)

entryBytes(e) == CASE e.k = "instr" -> encode(e.f)
                   [] e.k = "data" -> e.bytes
                   [] e.k = "res" -> [n \in 1..e.bytes |-> 0]
                   [] OTHER -> <<>>

entryRelocations(e) == CASE e.k = "instr" -> relocations(e.f)
                         [] e.k = "data" -> e.relocs
                         [] OTHER -> <<>>

\* A relocation lies at sectionOffset, which adds up size(), not the bytes.
sectionRelocations(j) ==
    LET s == sections[j]
        lift(k) == LET found == entryRelocations(s.entries[k])
                   IN  [n \in DOMAIN found |->
                           [found[n] EXCEPT !.at = @ + At(sections, j, k).offset]
                               @@ [in |-> s.name]]
    IN  IF s.isInitialized THEN FlattenSeq([k \in DOMAIN s.entries |-> lift(k)]) ELSE <<>>

GenerateCode ==
    /\ phase = "Generate"
    /\ phase' = "Align"
    /\ sections' = [j \in DOMAIN sections |->
                       IF sections[j].isInitialized
                       THEN [sections[j] EXCEPT !.buffer =
                                FlattenSeq([k \in DOMAIN sections[j].entries |->
                                               entryBytes(sections[j].entries[k])])]
                       ELSE [sections[j] EXCEPT !.reservedSize = sectionSize(sections[j])]]
    /\ relocs' = FlattenSeq([j \in DOMAIN sections |-> sectionRelocations(j)])
    /\ UNCHANGED <<prog, parser, labels, constants, symbols, sectionStarts>>

\* Section::setAlignments.
setAlignments ==
    LET natural(name) == CASE name = ".text" -> 16
                           [] name \in {".data", ".rodata", ".tdata", ".bss"} -> 4
                           [] OTHER -> 1
    IN  /\ phase = "Align"
        /\ phase' = "Write"
        /\ sections' = [j \in DOMAIN sections |->
                           [sections[j] EXCEPT !.align = IF @ = 0 THEN natural(sections[j].name) ELSE @]]
        /\ UNCHANGED <<prog, parser, labels, constants, symbols, sectionStarts, relocs>>

EncoderInit ==
    /\ sections = <<>>
    /\ labels = Nothing
    /\ constants = Nothing
    /\ symbols = <<>>
    /\ sectionStarts = Nothing
    /\ relocs = <<>>

Encode == \/ Initialize
          \/ CalculationPhase
          \/ EvaluationPhase
          \/ OptimizationPhase
          \/ GenerateCode
          \/ setAlignments
=============================================================================
