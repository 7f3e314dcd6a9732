----------------------------- MODULE ObjectFile -----------------------------
(* The output of lasm (tools/lasm/OutputWriter): the encoder's sections and  *)
(* relocations become a flat binary, with every relocation applied, or an    *)
(* ELF object file, with a symbol table and relocation sections for the      *)
(* linker.  Composed with module Assembler: Write follows GenerateCode.      *)
EXTENDS Assembler

VARIABLE file

NoFile == [k |-> "none"]

AlignUp(n, a) == ((n + a - 1) \div a) * a

\* A section's place by name.
Index(secs, name) == CHOOSE j \in DOMAIN secs : secs[j].name = name

contentSize(sec) == IF sec.isInitialized THEN Len(sec.buffer) ELSE sec.reservedSize

\* n as the lowest w bytes of its two's complement.
LowBytes(n, w) == SubSeq(Bytes(n), 1, w)
Patch(buffer, at, bytes) == [k \in DOMAIN buffer |-> IF k - at \in DOMAIN bytes THEN bytes[k - at] ELSE buffer[k]]

-----------------------------------------------------------------------------
(* Binary::Writer *)

\* .text comes first, the others keep their order.
rotated == LET isText(s) == s.name = ".text"
           IN  SelectSeq(sections, isText) \o SelectSeq(sections, LAMBDA s : ~isText(s))

minAlign(sec) == IF sec.align < 4 THEN 4 ELSE sec.align

\* sectionOffsets: initialized sections in order, then the uninitialized ones.
sectionOffsets ==
    LET place(s, sec, initialized) ==
            LET a == AlignUp(s.off, minAlign(sec))
            IN  IF sec.isInitialized # initialized
                THEN IF initialized THEN [s EXCEPT !.off = a] ELSE s
                ELSE [off |-> a + contentSize(sec), at |-> (sec.name :> a) @@ s.at]
        first == FoldLeft(LAMBDA s, sec : place(s, sec, TRUE), [off |-> 0, at |-> Nothing], rotated)
    IN  FoldLeft(LAMBDA s, sec : place(s, sec, FALSE), first, rotated).at

\* The value a relocation writes, and the fields too narrow for a distance.
binaryValue(r, offsets) ==
    offsets[r.section] + r.addend - (IF r.type = "PC_Relative" THEN offsets[r.in] + r.at ELSE 0)
overflows(r, n) == \/ r.type = "PC_Relative" /\ r.width = 1 /\ n \notin -128..127
                   \/ r.type = "PC_Relative" /\ r.width = 2 /\ n \notin -32768..32767

\* The sections of the binary after all relocations, in the order of the file.
patched(offsets) ==
    LET apply(secs, r) == [secs EXCEPT ![Index(secs, r.in)].buffer =
                              Patch(@, r.at, LowBytes(binaryValue(r, offsets), r.width))]
    IN  FoldLeft(apply, rotated, relocs)

\* Only what has bytes is written, each section behind its padding.
binaryBytes(secs) ==
    FoldLeft(LAMBDA bytes, sec :
                 IF sec.buffer = <<>> \/ ~sec.isInitialized THEN bytes
                 ELSE bytes \o [k \in 1..(AlignUp(Len(bytes), minAlign(sec)) - Len(bytes)) |-> 0] \o sec.buffer,
             <<>>, secs)

WriteBinary ==
    LET offsets == sectionOffsets
        ok == \A k \in DOMAIN relocs : /\ ~relocs[k].extern
                                       /\ ~overflows(relocs[k], binaryValue(relocs[k], offsets))
    IN  /\ phase = "Write" /\ prog.format = "bin"
        /\ phase' = IF ok THEN "Done" ELSE "Error"
        /\ file' = IF ok THEN [k |-> "bin", bytes |-> binaryBytes(patched(offsets)), offsets |-> offsets]
                   ELSE NoFile
        /\ UNCHANGED <<prog, parser, encoder>>

-----------------------------------------------------------------------------
(* ELF::Writer.  Names stand for their offsets in the string tables.         *)

wide == prog.bits = 64
UNDEF == 0
XINDEX == 65521

symbolEntry(name, bind, type, shndx, value) ==
    [name |-> name, bind |-> bind, type |-> type, shndx |-> shndx, value |-> value]

bindOf(global) == IF global THEN "GLOBAL" ELSE "LOCAL"

labelSymbol(name) ==
    LET l == labels[name]
    IN  IF l.isExtern THEN symbolEntry(name, "GLOBAL", "NONE", UNDEF, 0)
        ELSE symbolEntry(name, bindOf(l.isGlobal), "NONE", Index(sections, l.section), l.offset)

constantSymbol(name) ==
    LET c == constants[name]
    IN  symbolEntry(name, bindOf(c.isGlobal), "NONE",
                    IF c.useOffset THEN Index(sections, c.usedSection) ELSE XINDEX,
                    IF c.useOffset THEN c.off ELSE c.value)

\* Mutated: also the external labels nothing refers to.
writtenAll == symbols

\* Every label and constant but the external labels nothing refers to.
written == LET used(s) == s.k = "const" \/ ~labels[s.name].isExtern \/ labels[s.name].externUsed
           IN  SelectSeq(symbols, used)
namedSymbols == [k \in DOMAIN written |-> IF written[k].k = "label" THEN labelSymbol(written[k].name)
                                          ELSE constantSymbol(written[k].name)]

\* The null symbol, the file, a symbol per section, then the local names.
localSymbols ==
    <<symbolEntry("", "LOCAL", "NONE", UNDEF, 0), symbolEntry("file", "LOCAL", "FILE", XINDEX, 0)>>
    \o [j \in DOMAIN sections |-> symbolEntry("", "LOCAL", "SECTION", j, 0)]
    \o SelectSeq(namedSymbols, LAMBDA e : e.bind = "LOCAL")
globalSymbols == SelectSeq(namedSymbols, LAMBDA e : e.bind = "GLOBAL")
symtab == localSymbols \o globalSymbols

\* Indexes into the symbol table count from 0.
externLabelIndex(name) ==
    Len(localSymbols) + (CHOOSE k \in DOMAIN globalSymbols :
                            globalSymbols[k].name = name /\ globalSymbols[k].shndx = UNDEF) - 1
sectionSymbolIndex(name) == 1 + Index(sections, name)

\* getType32 and getType64: a 32-bit file has no 64-bit relocation.
getType(r) == [pc |-> r.type = "PC_Relative",
               width |-> IF r.width = 8 /\ (~wide \/ r.type = "PC_Relative") THEN 4 ELSE r.width,
               signed |-> wide /\ r.signed /\ r.type = "Absolute"]

relocationEntry(r) ==
    [offset |-> r.at, symbol |-> IF r.extern THEN externLabelIndex(r.section) ELSE sectionSymbolIndex(r.section),
     type |-> getType(r), addend |-> IF wide THEN r.addend ELSE 0]

relocationsOf(sec) == SelectSeq(relocs, LAMBDA r : r.in = sec.name)
relocated == SelectSeq([j \in DOMAIN sections |-> j], LAMBDA j : relocationsOf(sections[j]) # <<>>)

\* With the addend in the entry, the field in the code is cleared.
elfBuffer(sec) ==
    IF ~wide THEN sec.buffer
    ELSE FoldLeft(LAMBDA b, r : Patch(b, r.at, LowBytes(0, r.width)), sec.buffer, relocationsOf(sec))

header(name, type, bytes, link, info, align, entsize) ==
    [name |-> name, type |-> type, size |-> bytes, link |-> link, info |-> info,
     align |-> align, entsize |-> entsize]

symbolSize == IF wide THEN 24 ELSE 16
entrySizeOf == IF wide THEN 24 ELSE 8

\* The strings of a table: each with its terminator, behind an empty one.
tableSize(names) == 1 + Total([k \in DOMAIN names |-> Len(names[k]) + 1])
relocName(j) == (IF wide THEN ".rela" ELSE ".rel") \o sections[j].name
shstrtabNames == [j \in DOMAIN sections |-> sections[j].name] \o <<".shstrtab", ".symtab", ".strtab">>
                 \o [k \in DOMAIN relocated |-> relocName(relocated[k])]

shstrtabIndex == Len(sections) + 1
symtabIndex == Len(sections) + 2
strtabIndex == Len(sections) + 3

sectionHeaders ==
    LET own(sec) == header(sec.name, IF sec.name = ".bss" THEN "NOBITS" ELSE "PROGBITS",
                           contentSize(sec), 0, 0, sec.align, 0)
        rel(j) == header(relocName(j), IF wide THEN "RELA" ELSE "REL",
                         entrySizeOf * Len(relocationsOf(sections[j])), symtabIndex, j,
                         IF wide THEN 8 ELSE 4, entrySizeOf)
    IN  <<header("", "NULL", 0, 0, 0, 0, 0)>> \o [j \in DOMAIN sections |-> own(sections[j])]
        \o <<header(".shstrtab", "STRTAB", tableSize(shstrtabNames), 0, 0, 1, 0),
             header(".symtab", "SYMTAB", symbolSize * Len(symtab), strtabIndex, Len(localSymbols),
                    IF wide THEN 8 ELSE 4, symbolSize),
             header(".strtab", "STRTAB",
                    tableSize(<<"file">> \o [k \in DOMAIN written |-> written[k].name]), 0, 0, 1, 0)>>
        \o [k \in DOMAIN relocated |-> rel(relocated[k])]

\* The bytes a section takes in the file, and the Offset of its header: the
\* table of headers follows the file header, the sections follow the table.
fileSize(h) == IF h.type \in {"NULL", "NOBITS"} THEN 0 ELSE h.size
headerSize == IF wide THEN 64 ELSE 40
elfOffset(headers, k) ==
    FoldLeft(LAMBDA off, h : AlignUp(off + fileSize(h), 16),
             AlignUp(64 + headerSize * Len(headers), 16), SubSeq(headers, 1, k - 1))

\* Where the loop that writes the sections puts them: each is padded behind.
elfPosition(headers, k) ==
    FoldLeft(LAMBDA pos, h : AlignUp(pos + fileSize(h), 16),
             64 + headerSize * Len(headers), SubSeq(headers, 1, k - 1))

\* A constant that stands for an external label has no section.
homeless == \E c \in DOMAIN constants : constants[c].useOffset
                /\ constants[c].usedSection \notin {sections[j].name : j \in DOMAIN sections}

WriteELF ==
    /\ phase = "Write" /\ prog.format = "elf"
    /\ phase' = IF homeless THEN "Error" ELSE "Done"
    /\ file' = IF homeless THEN NoFile ELSE
               [k |-> "elf", headers |-> [h \in DOMAIN sectionHeaders |->
                                  [offset |-> IF h = 1 THEN 0 ELSE elfOffset(sectionHeaders, h),
                                   position |-> elfPosition(sectionHeaders, h)] @@ sectionHeaders[h]],
                shstrndx |-> shstrtabIndex, symtab |-> symtab,
                code |-> [j \in DOMAIN sections |-> elfBuffer(sections[j])],
                relocation |-> [k \in DOMAIN relocated |->
                                   LET rs == relocationsOf(sections[relocated[k]])
                                   IN  [n \in DOMAIN rs |-> relocationEntry(rs[n])]]]
    /\ UNCHANGED <<prog, parser, encoder>>

-----------------------------------------------------------------------------
vars == <<prog, phase, parser, encoder, file>>

Init == ParserInit /\ EncoderInit /\ file = NoFile

Halted == phase \in {"Done", "Error"}
Finished == Halted /\ UNCHANGED vars

Next == \/ Parse /\ UNCHANGED <<encoder, file>>
        \/ Encode /\ UNCHANGED file
        \/ WriteBinary
        \/ WriteELF
        \/ Finished

\* The assembler is one thread that runs to its end.  The formula is weak
\* fairness of a Next that is enabled, as the check for deadlocks shows, in
\* every state.
Fairness == []<>Halted \/ []<><<Next>>_vars

Spec == Init /\ [][Next]_vars /\ Fairness

Shrinks(old, new) == entrySize(new) # entrySize(old) => entrySize(new) < entrySize(old)

\* The layout only ever shrinks: whatever the values turn out to be, an entry
\* whose size a pass changes gets shorter, so distances measured by an earlier
\* pass in one direction stay within what was assumed.
NeverGrows ==
    [][\A p \in Places(sections) : Shrinks(Entry(sections, p), Entry(sections', p))]_vars

\* Every program is assembled or refused after finitely many passes.
Ends == <>Halted

\* The fields stay within the bits that encode() gives them, and a relocation
\* names a field of a section's bytes.
FieldsOK(f) ==
    /\ f.prefixes \subseteq {"66", "67", "rep", "66op", "F3op"} /\ f.rex \subseteq {"use", "w", "r", "x", "b"}
    /\ f.opcode \in 0..255 /\ f.escape \in {<<>>, <<15>>, <<15, 56>>}
    /\ f.modrm.mod \in 0..3 /\ f.modrm.reg \in 0..7 /\ f.modrm.rm \in 0..7
    /\ f.sib.index \in 0..7 /\ f.sib.scale \in 0..3
    /\ f.disp.value \in Word8 /\ f.imm.value \in Word8 /\ f.imm.size \in {0, 8, 16, 32, 64}
    /\ f.bits # 64 => f.imm.size # 64 \/ f.target \in Elems(Old64) \cup Elems(Ext64)

TypeOK ==
    /\ phase \in {"Names", "Parse", "Initialize", "Calculate", "Evaluate", "Optimize", "Generate", "Align", "Write", "Done", "Error"}
    /\ phase # "Error" => \A p \in Places(sections) :
          LET e == Entry(sections, p)
          IN  /\ e.k \in {"instr", "data", "res", "label", "const"}
              /\ e.k = "instr" => FieldsOK(e.f)
              /\ e.k = "res" => e.bytes \in Nat
    /\ \A l \in DOMAIN labels : labels[l].offset \in Nat
    /\ \A k \in DOMAIN relocs : LET sec == sections[Index(sections, relocs[k].in)]
                                IN  relocs[k].at + relocs[k].width <= Len(sec.buffer)
    /\ file.k \in {"none", "bin", "elf"} /\ (file # NoFile <=> phase = "Done")
=============================================================================
