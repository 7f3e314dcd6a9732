-------------------------------- MODULE X86 --------------------------------
(* What every x86 instruction of lasm is made of (tools/lasm/Encoder/x86):   *)
(* the registers, the fields an instruction object fills in its constructor, *)
(* the memory and register operands (parseMemory, parseRegister), the bytes  *)
(* the fields stand for, and the size the layout counts with before those    *)
(* bytes exist.                                                              *)
(*                                                                           *)
(* A 64-bit number is the sequence of its eight bytes, lowest first, so that *)
(* a cast is a prefix and a test against a narrow range looks at the bytes   *)
(* that a cast would drop.  An instruction object is a record; "ok" turns    *)
(* FALSE where the code throws.                                              *)
EXTENDS Integers, Sequences

Word8 == [1..8 -> 0..255]

\* The eight bytes of an integer of at most 32 bits.
Bytes(n) == [k \in 1..8 |-> IF k <= 4 THEN (n \div 256^(k-1)) % 256
                                      ELSE IF n < 0 THEN 255 ELSE 0]

SignByte(b) == IF b >= 128 THEN 255 ELSE 0

\* The lowest w bytes, read as a signed number, lie in -128..127.
FitsInt8(v, w) == \A k \in 2..w : v[k] = SignByte(v[1])

When(c, s) == IF c THEN s ELSE <<>>
flag(c) == IF c THEN 1 ELSE 0

-----------------------------------------------------------------------------
(* Registers *)

\* "-" stands for a number without a register.
Low8   == <<"AL", "CL", "DL", "BL">>
High8  == <<"AH", "CH", "DH", "BH">>
New8   == <<"SPL", "BPL", "SIL", "DIL">>
Ext8   == <<"R8B", "R9B", "R10B", "R11B", "R12B", "R13B", "R14B", "R15B">>
Old16  == <<"AX", "CX", "DX", "BX", "SP", "BP", "SI", "DI">>
Ext16  == <<"R8W", "R9W", "R10W", "R11W", "R12W", "R13W", "R14W", "R15W">>
Old32  == <<"EAX", "ECX", "EDX", "EBX", "ESP", "EBP", "ESI", "EDI">>
Ext32  == <<"R8D", "R9D", "R10D", "R11D", "R12D", "R13D", "R14D", "R15D">>
Old64  == <<"RAX", "RCX", "RDX", "RBX", "RSP", "RBP", "RSI", "RDI">>
Ext64  == <<"R8", "R9", "R10", "R11", "R12", "R13", "R14", "R15">>
Segs   == <<"ES", "CS", "SS", "DS", "FS", "GS">>
OldCR  == <<"CR0", "-", "CR2", "CR3", "CR4", "CR5", "CR6", "CR7">>
ExtCR  == <<"CR8", "CR9", "CR10", "CR11", "CR12", "CR13", "CR14", "CR15">>
OldDR  == <<"DR0", "DR1", "DR2", "DR3", "-", "-", "DR6", "DR7">>
ExtDR  == <<"DR8", "DR9", "DR10", "DR11", "DR12", "DR13", "DR14", "DR15">>

Elems(s) == {s[i] : i \in DOMAIN s}

ControlRegs == (Elems(OldCR) \ {"-"}) \cup Elems(ExtCR)
DebugRegs   == (Elems(OldDR) \ {"-"}) \cup Elems(ExtDR)
ExtendedGPR == Elems(Ext8) \cup Elems(Ext16) \cup Elems(Ext32) \cup Elems(Ext64)
Only64 == ExtendedGPR \cup Elems(New8) \cup Elems(Old64) \cup Elems(ExtCR) \cup Elems(ExtDR)

isGPR == ExtendedGPR \cup Elems(Low8) \cup Elems(High8) \cup Elems(New8)
           \cup Elems(Old16) \cup Elems(Old32) \cup Elems(Old64)

isSegment == Elems(Segs)

\* The three bits of a register, whether it needs a REX byte at all, and
\* whether it sets the extension bit there.
registerFiles ==
    {<<Low8, 0>>, <<High8, 4>>, <<New8, 4>>, <<Segs, 0>>} \cup
    {<<s, 0>> : s \in {Old16, Old32, Old64, OldCR, ExtCR, OldDR, ExtDR, Ext8, Ext16, Ext32, Ext64}}

getReg ==
    [r \in isGPR \cup isSegment \cup ControlRegs \cup DebugRegs |->
        [index |-> CHOOSE n \in 0..7 : \E f \in registerFiles :
                      \E i \in DOMAIN f[1] : f[1][i] = r /\ n = f[2] + i - 1,
         useREX |-> r \in ExtendedGPR \cup Elems(New8),
         setREX |-> r \in ExtendedGPR]]

getRegSize(r, bits) ==
    CASE r \in Elems(Low8) \cup Elems(High8) \cup Elems(New8) \cup Elems(Ext8) -> 8
      [] r \in Elems(Old16) \cup Elems(Ext16) \cup isSegment -> 16
      [] r \in Elems(Old32) \cup Elems(Ext32) -> 32
      [] r \in Elems(Old64) \cup Elems(Ext64) -> 64
      [] OTHER -> IF bits = 64 THEN 64 ELSE 32

-----------------------------------------------------------------------------
(* The fields of an instruction object *)

\* No expression, and no relocation.
NoExpr == <<>>
NoReloc == [section |-> "none", extern |-> FALSE, offset |-> 0]

\* Prefixes and REX are sets of flags; rex holds "use" beside W, R, X and B.
\* am is addressMode, which nothing sets before a memory operand is parsed.
Blank(bits) ==
    [ok |-> TRUE, bits |-> bits, prefixes |-> {}, am |-> 0, rex |-> {},
     escape |-> <<>>, opcode |-> 0,
     modrm |-> [use |-> FALSE, mod |-> 3, reg |-> 0, rm |-> 0],
     sib |-> [use |-> FALSE, index |-> 0, scale |-> 0],
     disp |-> [use |-> FALSE, short |-> FALSE, canOptimize |-> TRUE, expr |-> NoExpr,
               value |-> Bytes(0), reloc |-> NoReloc],
     imm |-> [use |-> FALSE, size |-> 0, expr |-> NoExpr, value |-> Bytes(0),
              reloc |-> NoReloc, ripRelative |-> FALSE, signed |-> FALSE],
     canOptimize |-> FALSE, mn |-> "none", target |-> "none"]

Require(f, c) == [f EXCEPT !.ok = @ /\ c]
Prefix(f, p)  == [f EXCEPT !.prefixes = @ \cup {p}]
Rex(f, flags) == [f EXCEPT !.rex = @ \cup flags]
Opcode(f, n)  == [f EXCEPT !.opcode = n]
Digit(f, n)   == [f EXCEPT !.modrm.reg = n]
Escape(f, bytes)  == [f EXCEPT !.escape = bytes]
Imm(f, e, size) == [f EXCEPT !.imm.use = TRUE, !.imm.expr = e, !.imm.size = size]
Signed(f, c)    == [f EXCEPT !.imm.signed = c]
CanOptimize(f, c) == [f EXCEPT !.canOptimize = c]

\* Mutated: also where the mode has the register.
checkRegAlways(f, r) == Require(f, r \notin Only64)

checkReg(f, r) == Require(f, f.bits = 64 \/ r \notin Only64)
checkSize(f, size) == Require(f, f.bits = 64 \/ size # 64)

\* The prefix or the REX.W an operand size asks for in the current mode.
OperandSize(f, size) ==
    CASE size = 8  -> f
      [] size = 16 -> IF f.bits # 16 THEN Prefix(f, "66") ELSE f
      [] size = 32 -> IF f.bits = 16 THEN Prefix(f, "66") ELSE f
      [] size = 64 -> Rex(f, {"use", "w"})
      [] OTHER -> Require(f, FALSE)

\* A register in the field the extension bit x belongs to.
RexFor(f, g, x) == Rex(f, {y \in {"use", x} : IF y = "use" THEN g.useREX ELSE g.setREX})

RegisterField(f, g, isReg) ==
    IF isReg THEN [RexFor(f, g, "r") EXCEPT !.modrm.use = TRUE, !.modrm.reg = g.index]
             ELSE [RexFor(f, g, "b") EXCEPT !.modrm.use = TRUE, !.modrm.rm = g.index]

parseRegister(f, r, isReg) ==
    RegisterField(checkSize(checkReg(f, r), getRegSize(r, f.bits)), getReg[r], isReg)

-----------------------------------------------------------------------------
(* Memory operands: [k, r1, s1, r2, s2, disp, size] with "none" for a        *)
(* register that is absent, NoExpr for no displacement, 0 for no size.       *)

\* Which register is the base and which the scaled index.
Pair(m) ==
    LET stack == {"ESP", "RSP"}
        first == [base |-> m.r1, index |-> m.r2, scale |-> m.s2]
        second == [base |-> m.r2, index |-> m.r1, scale |-> m.s1]
    IN  CASE m.s1 = 1 /\ m.s2 = 1 ->
                IF \/ m.r1 \in stack
                   \/ (m.r2 \notin stack /\ m.r1 \in {"BX", "BP"})
                   \/ ({m.r1, m.r2} \cap stack = {} /\ m.r2 \notin {"BX", "BP"})
                THEN first ELSE second
          [] m.s1 = 1 /\ m.s2 # 1 -> first
          [] m.s1 # 1 /\ m.s2 = 1 -> second
          [] OTHER -> [base |-> "bad", index |-> "bad", scale |-> 0]

\* One register with a factor: 3, 5 and 9 use it as base and as index.
Single(r, s, am) ==
    IF am = 16
    THEN IF r \in {"BX", "BP"} THEN [base |-> r, index |-> "none", scale |-> s]
                               ELSE [base |-> "none", index |-> r, scale |-> s]
    ELSE CASE s = 1 -> [base |-> r, index |-> "none", scale |-> 0]
           [] s \in {2, 3, 5, 9} -> [base |-> r, index |-> r, scale |-> s - 1]
           [] s \in {4, 8} -> [base |-> "none", index |-> r, scale |-> s]
           [] OTHER -> [base |-> "bad", index |-> "bad", scale |-> 0]

\* canOptimize says whether the displacement has a form of one byte.
Displaced(f, m, canOptimize) ==
    [f EXCEPT !.disp = [@ EXCEPT !.use = m.disp # NoExpr, !.expr = m.disp, !.canOptimize = canOptimize]]

\* The fields every form of address has.
AddressForm(f, ok, prefixes, rm, mod) ==
    [f EXCEPT !.ok = @ /\ ok, !.prefixes = @ \cup prefixes, !.modrm = [@ EXCEPT !.rm = rm, !.mod = mod]]

\* The byte behind ModRM.
IndexForm(f, use, index, scale) == [f EXCEPT !.sib = [use |-> use, index |-> index, scale |-> scale]]

\* parseMemory for bx, bp, si and di.
Forms16 == [BX |-> [SI |-> 0, DI |-> 1, none |-> 7],
            BP |-> [SI |-> 2, DI |-> 3, none |-> 6],
            none |-> [SI |-> 4, DI |-> 5, none |-> 6]]

Memory16(f, m, a) ==
    LET valid == a.base \in DOMAIN Forms16 /\ a.index \in {"SI", "DI", "none"}
        direct == a.base = "none" /\ a.index = "none"
        rm == IF valid THEN Forms16[a.base][a.index] ELSE 0
        mod == CASE m.disp = NoExpr -> flag(rm = 6)
                 [] m.disp # NoExpr /\ direct -> 0
                 [] OTHER -> IF a.base = "none" THEN 1 ELSE 2
    IN  Displaced(AddressForm(f, valid /\ f.bits # 64 /\ (a.index = "none" \/ a.scale = 1),
                              {p \in {"67"} : f.bits = 32}, rm, mod),
                  m, ~direct)

\* parseMemory for 32-bit and 64-bit addresses; b and i are the codes of base
\* and index, or those that stand for none.
NoRegister(code) == [index |-> code, useREX |-> FALSE, setREX |-> FALSE]

Mode32(m, a, b) ==
    CASE a.base = "none" -> 0
      [] a.base # "none" /\ m.disp # NoExpr -> 2
      [] OTHER -> flag(b.index = 5)
ScaleBits(a) == CASE a.scale = 2 /\ a.index # "none" -> 1 [] a.scale = 4 -> 2 [] a.scale = 8 -> 3 [] OTHER -> 0
Indexable(f, a, i) ==
    /\ f.am = 64 => f.bits = 64
    /\ a.index # "none" => (i.index # 4 \/ i.setREX) /\ a.scale \in {1, 2, 4, 8}

Fields32(f, m, a, b, i) ==
    LET hasBase  == a.base # "none"
        hasIndex == a.index # "none"
    IN  Displaced(IndexForm(AddressForm(RexFor(RexFor(f, b, "b"), i, "x"), Indexable(f, a, i),
                                        {p \in {"67"} : f.am = 32 /\ f.bits # 32}, b.index, Mode32(m, a, b)),
                            hasIndex \/ (hasBase /\ b.index = 4) \/ (~hasBase /\ f.am = 64),
                            i.index, ScaleBits(a)),
                  m, hasBase \/ hasIndex)

RegisterOr(r, code) == IF r = "none" THEN NoRegister(code) ELSE getReg[r]
Memory32(f, m, a) == Fields32(f, m, a, RegisterOr(a.base, 5), RegisterOr(a.index, 4))

addressMode(f, regs) ==
    IF regs = {} THEN f.bits ELSE getRegSize(CHOOSE r \in regs : TRUE, f.bits)

baseAndIndex(m, am) ==
    CASE m.r1 # "none" /\ m.r2 # "none" -> Pair(m)
      [] m.r1 # "none" /\ m.r2 = "none" -> Single(m.r1, m.s1, am)
      [] m.r1 = "none" /\ m.r2 # "none" -> Single(m.r2, m.s2, am)
      [] OTHER -> [base |-> "none", index |-> "none", scale |-> 0]

MemoryForm(f, m, a) ==
    IF ~f.ok THEN f ELSE IF f.am = 16 THEN Memory16(f, m, a) ELSE Memory32(f, m, a)

\* The checks on the registers regs of the operand, whose address is a.
MemoryChecked(f, m, expectSize, regs, a) ==
    MemoryForm(checkSize(Require(f, /\ expectSize => m.size # 0
                                    /\ \A r \in regs : getRegSize(r, f.bits) = f.am
                                    /\ f.am # 8 /\ {a.base, a.index} \subseteq isGPR \cup {"none"}),
                         m.size),
               m, a)

MemoryAt(f, m, expectSize, am) ==
    MemoryChecked([f EXCEPT !.modrm.use = TRUE, !.am = am], m, expectSize,
                  {m.r1, m.r2} \ {"none"}, baseAndIndex(m, am))

parseMemory(f, m, expectSize) ==
    MemoryAt(f, m, expectSize, addressMode(f, {m.r1, m.r2} \ {"none"}))

-----------------------------------------------------------------------------
(* Bytes and sizes *)

\* Mutated: no displacement that was not written, as [ebp] needs.
DispSizeWritten(f) == IF ~f.disp.use THEN 0 ELSE IF f.disp.short THEN 1 ELSE IF f.am = 16 THEN 2 ELSE 4

DispSize(f) ==
    LET wide == IF f.am = 16 THEN 2 ELSE 4
    IN  CASE f.disp.use -> IF f.disp.short THEN 1 ELSE wide
          [] ~f.disp.use /\ f.modrm.use /\ f.modrm.mod = 1 -> 1
          [] ~f.disp.use /\ f.modrm.use /\ f.modrm.mod = 2 -> wide
          [] OTHER -> 0

getDisplacementOffset(f) ==
    1 + flag("66" \in f.prefixes) + flag("67" \in f.prefixes) + flag("rep" \in f.prefixes)
      + flag("66op" \in f.prefixes) + flag("F3op" \in f.prefixes)
      + flag("use" \in f.rex) + Len(f.escape) + flag(f.modrm.use) + flag(f.sib.use)

\* Mutated: as if a displacement always took four bytes.
getImmediateOffsetWide(f) == getDisplacementOffset(f) + 4

getImmediateOffset(f) == getDisplacementOffset(f) + DispSize(f)

\* size() does not count the override prefixes of adcx and adox.
size(f) ==
    1 + flag("66" \in f.prefixes) + flag("67" \in f.prefixes) + flag("rep" \in f.prefixes)
      + flag("use" \in f.rex) + Len(f.escape) + flag(f.modrm.use) + flag(f.sib.use)
      + DispSize(f) + (IF f.imm.use THEN f.imm.size \div 8 ELSE 0)

getRex(rex) == 64 + 8 * flag("w" \in rex) + 4 * flag("r" \in rex)
                  + 2 * flag("x" \in rex) + flag("b" \in rex)

encode(f) ==
    LET p == f.prefixes
    IN  When("67" \in p, <<103>>) \o When("66" \in p, <<102>>) \o When("rep" \in p, <<243>>)
        \o When("66op" \in p, <<102>>) \o When("F3op" \in p, <<243>>)
        \o When("use" \in f.rex, <<getRex(f.rex)>>) \o f.escape \o <<f.opcode>>
        \o When(f.modrm.use, <<64 * f.modrm.mod + 8 * f.modrm.reg
                               + (IF f.sib.use THEN 4 ELSE f.modrm.rm)>>)
        \o When(f.sib.use, <<64 * f.sib.scale + 8 * f.sib.index + f.modrm.rm>>)
        \o SubSeq(IF f.disp.use THEN f.disp.value ELSE Bytes(0), 1, DispSize(f))
        \o When(f.imm.use, SubSeq(f.imm.value, 1, f.imm.size \div 8))

\* The relocations encode() leaves behind: offset in the instruction, size in
\* bytes, kind, section, the value left in the code and how it is extended.
relocations(f) ==
    LET disp == [at |-> getDisplacementOffset(f), width |-> DispSize(f), type |-> "Absolute",
                 signed |-> f.am = 64,
                 section |-> f.disp.reloc.section, extern |-> f.disp.reloc.extern,
                 addend |-> f.disp.reloc.offset]
        imm  == [at |-> getImmediateOffset(f), width |-> f.imm.size \div 8,
                 type |-> IF f.imm.ripRelative THEN "PC_Relative" ELSE "Absolute",
                 signed |-> f.imm.signed,
                 section |-> f.imm.reloc.section, extern |-> f.imm.reloc.extern,
                 addend |-> f.imm.reloc.offset
                            - (IF f.imm.ripRelative THEN f.imm.size \div 8 ELSE 0)]
    IN  When(f.disp.use /\ f.disp.reloc # NoReloc, <<disp>>)
        \o When(f.imm.use /\ f.imm.reloc # NoReloc, <<imm>>)

\* Mutated: a displacement that no longer fits gets its four bytes back.
shortenDisplacementAnew(f) ==
    IF ~(f.disp.use /\ f.disp.canOptimize) THEN f
    ELSE IF FitsInt8(f.disp.value, 8) THEN [f EXCEPT !.disp.short = TRUE, !.modrm.mod = 1]
    ELSE [f EXCEPT !.disp.short = FALSE, !.modrm.mod = 2]

\* The generic half of optimize(): a displacement that fits becomes one byte.
shortenDisplacement(f) ==
    IF f.disp.use /\ f.disp.canOptimize /\ ~f.disp.short /\ FitsInt8(f.disp.value, 8)
    THEN [f EXCEPT !.disp.short = TRUE, !.modrm.mod = 1]
    ELSE f
=============================================================================
