----------------------------- MODULE Lasm_proofs -----------------------------
(***************************************************************************)
(* What lasm makes of the lines of a program, for every program: each       *)
(* statement is in its section, in order, and no pass of the layout makes   *)
(* an instruction longer.                                                   *)
(***************************************************************************)
EXTENDS ObjectFile, Induction, FiniteSetTheorems, SequenceTheorems

-----------------------------------------------------------------------------
(* The fields of an instruction *)

\* f has the fields of an instruction object.
Formed(f) ==
    /\ DOMAIN f = DOMAIN Blank(16)
    /\ DOMAIN f.modrm = DOMAIN Blank(16).modrm
    /\ DOMAIN f.sib = DOMAIN Blank(16).sib
    /\ DOMAIN f.disp = DOMAIN Blank(16).disp
    /\ DOMAIN f.imm = DOMAIN Blank(16).imm
    /\ Len(f.escape) \in Nat

\* g differs from f in what neither the immediate nor optimizeS depend on.
Alike(f, g) ==
    /\ Formed(g)
    /\ g.imm = f.imm /\ g.canOptimize = f.canOptimize
    /\ g.mn = f.mn /\ g.target = f.target /\ g.bits = f.bits
    /\ g.ok => f.ok

LEMMA FormedIs ==
    ASSUME NEW f
    PROVE  Formed(f) <=>
             /\ DOMAIN f = {"ok", "bits", "prefixes", "am", "rex", "escape", "opcode", "modrm", "sib",
                            "disp", "imm", "canOptimize", "mn", "target"}
             /\ DOMAIN f.modrm = {"use", "mod", "reg", "rm"}
             /\ DOMAIN f.sib = {"use", "index", "scale"}
             /\ DOMAIN f.disp = {"use", "short", "canOptimize", "expr", "value", "reloc"}
             /\ DOMAIN f.imm = {"use", "size", "expr", "value", "reloc", "ripRelative", "signed"}
             /\ Len(f.escape) \in Nat
  BY DEF Formed, Blank

LEMMA Require_ ==
    ASSUME NEW f, Formed(f), NEW c
    PROVE  Alike(f, Require(f, c)) /\ (Require(f, c).ok => c)
  BY FormedIs DEF Alike, Require

LEMMA Prefix_ ==
    ASSUME NEW f, Formed(f), NEW p
    PROVE  Alike(f, Prefix(f, p))
  BY FormedIs DEF Alike, Prefix

LEMMA Rex_ ==
    ASSUME NEW f, Formed(f), NEW flags
    PROVE  Alike(f, Rex(f, flags))
  BY FormedIs DEF Alike, Rex

LEMMA Opcode_ ==
    ASSUME NEW f, Formed(f), NEW n
    PROVE  Alike(f, Opcode(f, n))
  BY FormedIs DEF Alike, Opcode

LEMMA Digit_ ==
    ASSUME NEW f, Formed(f), NEW n
    PROVE  Alike(f, Digit(f, n))
  BY FormedIs DEF Alike, Digit

LEMMA AlikeFormed ==
    ASSUME NEW f, NEW g, Alike(f, g)
    PROVE  Formed(g)
  BY DEF Alike

LEMMA AlikeSelf ==
    ASSUME NEW f, Formed(f)
    PROVE  Alike(f, f)
  BY DEF Alike

LEMMA AlikeTrans ==
    ASSUME NEW f, NEW g, NEW h, Alike(f, g), Alike(g, h)
    PROVE  Alike(f, h)
  BY DEF Alike

LEMMA checkReg_ ==
    ASSUME NEW f, Formed(f), NEW r
    PROVE  Alike(f, checkReg(f, r))
  BY Require_ DEF checkReg

LEMMA checkSize_ ==
    ASSUME NEW f, Formed(f), NEW s
    PROVE  Alike(f, checkSize(f, s))
  BY Require_ DEF checkSize

Sizes == {8, 16, 32, 64}

LEMMA OperandSize_ ==
    ASSUME NEW f, Formed(f), NEW s
    PROVE  Alike(f, OperandSize(f, s)) /\ (OperandSize(f, s).ok => s \in Sizes)
<1>1. CASE s \in Sizes
  BY <1>1, Prefix_, Rex_, AlikeSelf DEF OperandSize, Sizes
<1>2. CASE s \notin Sizes
  <2>1. OperandSize(f, s) = Require(f, FALSE)
    BY <1>2 DEF OperandSize, Sizes
  <2> QED
    BY <2>1, Require_
<1> QED
  BY <1>1, <1>2

LEMMA RexFor_ ==
    ASSUME NEW f, Formed(f), NEW g, NEW x
    PROVE  Alike(f, RexFor(f, g, x))
  BY Rex_ DEF RexFor

LEMMA RegisterField_ ==
    ASSUME NEW f, Formed(f), NEW g, NEW isReg
    PROVE  Alike(f, RegisterField(f, g, isReg))
<1>1. ASSUME NEW h, Formed(h), NEW n
      PROVE  /\ Alike(h, [h EXCEPT !.modrm.use = TRUE, !.modrm.reg = n])
             /\ Alike(h, [h EXCEPT !.modrm.use = TRUE, !.modrm.rm = n])
  BY <1>1, FormedIs DEF Alike
<1> QED
  BY <1>1, RexFor_, AlikeFormed, AlikeTrans DEF RegisterField

LEMMA parseRegister_ ==
    ASSUME NEW f, Formed(f), NEW r, NEW isReg
    PROVE  Alike(f, parseRegister(f, r, isReg))
  BY checkReg_, checkSize_, RegisterField_, AlikeFormed, AlikeTrans DEF parseRegister

LEMMA Displaced_ ==
    ASSUME NEW f, Formed(f), NEW m, NEW c
    PROVE  Alike(f, Displaced(f, m, c))
  BY FormedIs DEF Alike, Displaced

LEMMA AddressForm_ ==
    ASSUME NEW f, Formed(f), NEW ok, NEW p, NEW rm, NEW mod
    PROVE  Alike(f, AddressForm(f, ok, p, rm, mod))
  BY FormedIs DEF Alike, AddressForm

LEMMA Memory16_ ==
    ASSUME NEW f, Formed(f), NEW m, NEW a
    PROVE  Alike(f, Memory16(f, m, a))
<1>1. ASSUME NEW ok, NEW p, NEW rm, NEW mod, NEW c
      PROVE  Alike(f, Displaced(AddressForm(f, ok, p, rm, mod), m, c))
  BY AddressForm_, Displaced_, AlikeFormed, AlikeTrans
<1> QED
  BY <1>1, ZenonT(60) DEF Memory16

LEMMA IndexForm_ ==
    ASSUME NEW f, Formed(f), NEW use, NEW index, NEW scale
    PROVE  Alike(f, IndexForm(f, use, index, scale))
  BY FormedIs DEF Alike, IndexForm

LEMMA Fields32_ ==
    ASSUME NEW f, Formed(f), NEW m, NEW a, NEW b, NEW i
    PROVE  Alike(f, Fields32(f, m, a, b, i))
<1> DEFINE h == RexFor(RexFor(f, b, "b"), i, "x")
           form == AddressForm(h, Indexable(f, a, i), {p \in {"67"} : f.am = 32 /\ f.bits # 32},
                               b.index, Mode32(m, a, b))
<1>1. Alike(f, h)
  BY RexFor_, AlikeFormed, AlikeTrans
<1>2. Alike(f, form)
  <2> HIDE DEF h
  <2> QED
    BY <1>1, AddressForm_, AlikeFormed, AlikeTrans
<1> HIDE DEF form
<1>3. ASSUME NEW use, NEW index, NEW scale, NEW c
      PROVE  Alike(f, Displaced(IndexForm(form, use, index, scale), m, c))
  BY <1>2, IndexForm_, Displaced_, AlikeFormed, AlikeTrans
<1>4. \E use, index, scale, c : Fields32(f, m, a, b, i) = Displaced(IndexForm(form, use, index, scale), m, c)
  BY DEF Fields32, form, h
<1> QED
  BY <1>3, <1>4

LEMMA parseMemory_ ==
    ASSUME NEW f, Formed(f), NEW m, NEW expectSize
    PROVE  Alike(f, parseMemory(f, m, expectSize))
<1>1. ASSUME NEW h, Formed(h), NEW a
      PROVE  Alike(h, MemoryForm(h, m, a))
  BY <1>1, Memory16_, Fields32_, AlikeSelf DEF MemoryForm, Memory32
<1>2. ASSUME NEW h, Formed(h), NEW regs, NEW a
      PROVE  Alike(h, MemoryChecked(h, m, expectSize, regs, a))
  BY <1>1, <1>2, Require_, checkSize_, AlikeFormed, AlikeTrans DEF MemoryChecked
<1>3. ASSUME NEW am
      PROVE  Alike(f, [f EXCEPT !.modrm.use = TRUE, !.am = am])
  BY FormedIs DEF Alike
<1> QED
  BY <1>2, <1>3, AlikeFormed, AlikeTrans DEF parseMemory, MemoryAt

LEMMA Rm_ ==
    ASSUME NEW f, Formed(f), NEW op, NEW expectSize
    PROVE  Alike(f, Rm(f, op, expectSize))
  BY parseRegister_, parseMemory_ DEF Rm

LEMMA RmReg_ ==
    ASSUME NEW f, Formed(f), NEW a, NEW b, NEW rmFirst
    PROVE  Alike(f, RmReg(f, a, b, rmFirst))
<1>1. ASSUME NEW r, NEW op
      PROVE  Alike(f, Rm(parseRegister(f, r, TRUE), op, FALSE))
  BY parseRegister_, Rm_, AlikeFormed, AlikeTrans
<1> QED
  BY <1>1 DEF RmReg

LEMMA GPROnly_ ==
    ASSUME NEW f, Formed(f), NEW ops
    PROVE  Alike(f, GPROnly(f, ops))
<1>1. ASSUME NEW c
      PROVE  Alike(f, Require(f, c))
  BY Require_
<1> QED
  BY <1>1 DEF GPROnly

LEMMA NoHighWithREX_ ==
    ASSUME NEW f, Formed(f), NEW ops
    PROVE  Alike(f, NoHighWithREX(f, ops))
<1>1. ASSUME NEW c
      PROVE  Alike(f, Require(f, c))
  BY Require_
<1> QED
  BY <1>1 DEF NoHighWithREX

LEMMA Sized_ ==
    ASSUME NEW f, Formed(f), NEW s, NEW opcode
    PROVE  Alike(f, Sized(f, s, opcode)) /\ (Sized(f, s, opcode).ok => s \in Sizes)
<1>1. Alike(f, OperandSize(f, s)) /\ (OperandSize(f, s).ok => s \in Sizes)
  BY OperandSize_
<1>2. Alike(OperandSize(f, s), Sized(f, s, opcode))
  BY <1>1, Opcode_, AlikeFormed DEF Sized
<1>3. Sized(f, s, opcode).ok => OperandSize(f, s).ok
  BY <1>2 DEF Alike
<1> QED
  BY <1>1, <1>2, <1>3, AlikeTrans

LEMMA One_Argument_ ==
    ASSUME NEW f, Formed(f), NEW op, NEW opcode8, NEW digit
    PROVE  Alike(f, One_Argument(f, op, opcode8, digit))
<1>1. Alike(f, GPROnly(Rm(f, op, TRUE), {op}))
  BY Rm_, GPROnly_, AlikeFormed, AlikeTrans
<1>2. Alike(f, Sized(GPROnly(Rm(f, op, TRUE), {op}), SizeOf(f, op), opcode8))
  BY <1>1, Sized_, AlikeFormed, AlikeTrans
<1> QED
  BY <1>2, Digit_, AlikeFormed, AlikeTrans DEF One_Argument

LEMMA Escape_ ==
    ASSUME NEW f, Formed(f), NEW bytes, Len(bytes) \in Nat
    PROVE  Alike(f, Escape(f, bytes))
  BY FormedIs DEF Alike, Escape

LEMMA Escapes == Len(<<>>) \in Nat /\ Len(<<15>>) \in Nat /\ Len(<<15, 56>>) \in Nat
  OBVIOUS

\* g differs from f in what Alike objects may, and has an immediate of s bits.
Resized(f, g, s) ==
    /\ Formed(g) /\ g.imm.size = s
    /\ g.canOptimize = f.canOptimize
    /\ g.mn = f.mn /\ g.target = f.target /\ g.bits = f.bits
    /\ g.ok => f.ok

LEMMA ResizedFormed ==
    ASSUME NEW f, NEW g, NEW s, Resized(f, g, s)
    PROVE  Formed(g)
  BY DEF Resized

LEMMA ResizedAlike ==
    ASSUME NEW f, NEW g, NEW h, NEW s, Resized(f, g, s), Alike(g, h)
    PROVE  Resized(f, h, s)
  BY DEF Resized, Alike

LEMMA AlikeResized ==
    ASSUME NEW f, NEW g, NEW h, NEW s, Alike(f, g), Resized(g, h, s)
    PROVE  Resized(f, h, s)
  BY DEF Resized, Alike

LEMMA Imm_ ==
    ASSUME NEW f, Formed(f), NEW e, NEW s
    PROVE  Resized(f, Imm(f, e, s), s) /\ Imm(f, e, s).ok = f.ok
  BY FormedIs DEF Imm, Resized

LEMMA Signed_ ==
    ASSUME NEW f, NEW g, NEW s, Resized(f, g, s), NEW c
    PROVE  Resized(f, Signed(g, c), s) /\ Signed(g, c).ok = g.ok
<1>1. Formed(g)
  BY DEF Resized
<1> QED
  BY <1>1, FormedIs DEF Signed, Resized

\* What optimizeS is ready for.
Permits(mn, s, target) ==
    \/ mn \in JumpOps \cup {"PUSH"} /\ s \in {16, 32}
    \/ mn \in TwoArgumentOps /\ s \in {16, 32} /\ target \in {"none"} \cup Accumulators
    \/ mn = "IMUL" /\ s \in {8, 16, 32}
    \/ mn = "MOV" /\ s = 64
    \/ mn \in ShiftOps

\* f has no ModR/M byte that asks for a displacement.
Unaddressed(f) == f.modrm.mod = 3 /\ f.disp.use = FALSE

Encodable(f) ==
    /\ Formed(f)
    /\ f.imm.size \in {0} \cup Sizes
    /\ f.canOptimize => Permits(f.mn, f.imm.size, f.target)
    /\ f.target # "none" => Unaddressed(f)

\* No value is known that could shorten f.
Settled(f) == Formed(f) /\ f.canOptimize = FALSE /\ f.target = "none"

\* The object a constructor begins with.
Fresh(f) == Settled(f) /\ f.imm.size = 0 /\ Unaddressed(f)

LEMMA BlankIs ==
    ASSUME NEW bits, NEW mn
    PROVE  LET f == [Blank(bits) EXCEPT !.mn = mn]
           IN  Fresh(f) /\ f.mn = mn /\ f.bits = bits
  BY FormedIs DEF Fresh, Settled, Unaddressed, Blank, NoExpr

LEMMA SomeSizes == 8 \in Sizes /\ 16 \in Sizes /\ 32 \in Sizes /\ 64 \in Sizes
  BY DEF Sizes

LEMMA FreshFormed ==
    ASSUME NEW f, Fresh(f)
    PROVE  Formed(f) /\ Alike(f, f)
  BY AlikeSelf DEF Fresh, Settled

LEMMA FreshIs ==
    ASSUME NEW f, NEW g, Fresh(f), Alike(f, g)
    PROVE  Encodable(g)
  BY DEF Fresh, Settled, Alike, Encodable

LEMMA FreshResized ==
    ASSUME NEW f, NEW g, NEW s, Fresh(f), Resized(f, g, s), s \in Sizes
    PROVE  Encodable(g)
  BY DEF Fresh, Settled, Resized, Encodable

LEMMA CanOptimize_ ==
    ASSUME NEW f, NEW g, NEW s, Resized(f, g, s), NEW c
    PROVE  LET h == CanOptimize(g, c)
           IN  /\ Formed(h) /\ h.imm.size = s /\ h.canOptimize = c
               /\ h.mn = f.mn /\ h.target = f.target /\ h.bits = f.bits /\ h.ok = g.ok
<1>1. Formed(g)
  BY DEF Resized
<1> QED
  BY <1>1, FormedIs DEF CanOptimize, Resized

LEMMA FreshCanOptimize ==
    ASSUME NEW f, NEW g, NEW s, Fresh(f), Resized(f, g, s), s \in Sizes,
           NEW c, c => Permits(f.mn, s, "none")
    PROVE  Encodable(CanOptimize(g, c)) /\ CanOptimize(g, c).target = "none"
<1> DEFINE h == CanOptimize(g, c)
<1>1. /\ Formed(h) /\ h.imm.size = s /\ h.canOptimize = c
      /\ h.mn = f.mn /\ h.target = f.target
  BY CanOptimize_
<1> HIDE DEF h
<1>2. f.target = "none"
  BY DEF Fresh, Settled
<1>3. Encodable(h)
  BY <1>1, <1>2 DEF Encodable
<1> QED
  BY <1>1, <1>2, <1>3 DEF h

LEMMA AlikeEncodable ==
    ASSUME NEW f, NEW g, Encodable(f), f.target = "none", Alike(f, g)
    PROVE  Encodable(g) /\ g.target = "none"
  BY DEF Encodable, Alike

LEMMA WithOpcode ==
    ASSUME NEW f, NEW g, Alike(f, g), NEW n, NEW d
    PROVE  Alike(f, Opcode(g, n)) /\ Alike(f, Digit(Opcode(g, n), d))
<1>1. Alike(f, Opcode(g, n))
  BY Opcode_, AlikeFormed, AlikeTrans
<1> QED
  BY <1>1, Digit_, AlikeFormed, AlikeTrans

-----------------------------------------------------------------------------
(* What the constructors make *)

LEMMA Simple_ ==
    ASSUME NEW f, Fresh(f), NEW i
    PROVE  Encodable(Simple(f, i))
  BY FreshFormed, FreshIs, Opcode_ DEF Simple

LEMMA Simple_Interrupt_ ==
    ASSUME NEW f, Fresh(f), NEW i
    PROVE  Encodable(Simple_Interrupt(f, i))
<1>2. ASSUME NEW n
      PROVE  Alike(f, Opcode(f, n)) /\ Formed(Opcode(f, n))
  BY FreshFormed, Opcode_, AlikeFormed
<1>3. ASSUME NEW n, NEW c, NEW flags
      PROVE  /\ Alike(f, Require(Opcode(f, n), c)) /\ Alike(f, Rex(Opcode(f, n), flags))
             /\ Alike(f, Require(Rex(Opcode(f, n), flags), c)) /\ Alike(f, Prefix(Opcode(f, n), "66"))
  BY <1>2, Require_, Rex_, Prefix_, AlikeFormed, AlikeTrans
<1>4. ASSUME NEW n
      PROVE  Alike(f, Escape(Opcode(f, n), <<15>>))
  BY <1>2, Escapes, Escape_, AlikeTrans
<1>5. \/ Simple_Interrupt(f, i) = Require(Opcode(f, 206), f.bits # 64)
      \/ Simple_Interrupt(f, i) = Opcode(f, 207)
      \/ Simple_Interrupt(f, i) = Rex(Opcode(f, 207), {"use", "w"})
      \/ Simple_Interrupt(f, i) = Require(Rex(Opcode(f, 207), {"use", "w"}), f.bits = 64)
      \/ Simple_Interrupt(f, i) = Prefix(Opcode(f, 207), "66")
      \/ \E n : Simple_Interrupt(f, i) = Escape(Opcode(f, n), <<15>>)
  BY DEF Simple_Interrupt
<1> QED
  BY <1>2, <1>3, <1>4, <1>5, FreshIs

LEMMA FreshImm ==
    ASSUME NEW f, NEW g, Fresh(f), Alike(f, g), NEW e, NEW s, s \in Sizes
    PROVE  Encodable(Imm(g, e, s))
  BY Imm_, AlikeFormed, AlikeResized, FreshResized

LEMMA Argument_Interrupt_ ==
    ASSUME NEW f, Fresh(f), NEW i
    PROVE  Encodable(Argument_Interrupt(f, i))
  BY FreshFormed, FreshImm, Opcode_, SomeSizes DEF Argument_Interrupt

LEMMA ASCII_ ==
    ASSUME NEW f, Fresh(f), NEW i
    PROVE  Encodable(ASCII(f, i))
<1>1. ASSUME NEW n
      PROVE  Alike(f, Opcode(Require(f, f.bits # 64), n))
  BY FreshFormed, Require_, WithOpcode
<1>2. ASSUME NEW n, NEW e
      PROVE  Encodable(Opcode(Require(f, f.bits # 64), n)) /\ Encodable(Imm(Opcode(Require(f, f.bits # 64), n), e, 8))
  BY <1>1, FreshIs, FreshImm, SomeSizes
<1> QED
  BY <1>2 DEF ASCII

LEMMA RET_ ==
    ASSUME NEW f, Fresh(f), NEW i
    PROVE  Encodable(RET(f, i))
  BY FreshFormed, FreshIs, FreshImm, Opcode_, SomeSizes DEF RET

LEMMA Simple_Stack_ ==
    ASSUME NEW f, Fresh(f), NEW i
    PROVE  Encodable(Simple_Stack(f, i))
<1>1. ASSUME NEW n, NEW c
      PROVE  /\ Alike(f, Require(Opcode(f, n), c))
             /\ Alike(f, Prefix(Require(Opcode(f, n), c), "66"))
  BY FreshFormed, Opcode_, Require_, Prefix_, AlikeFormed, AlikeTrans
<1>2. Alike(f, Simple_Stack(f, i))
  BY <1>1 DEF Simple_Stack
<1> QED
  BY <1>2, FreshIs

LEMMA Target_ ==
    ASSUME NEW f, Formed(f), NEW s
    PROVE  Alike(f, Target(f, s))
<1>1. ASSUME NEW c
      PROVE  Alike(f, Require(f, c)) /\ Alike(f, Prefix(Require(f, c), "66"))
  BY Require_, Prefix_, AlikeFormed, AlikeTrans
<1> QED
  BY <1>1 DEF Target

LEMMA Relative_ ==
    ASSUME NEW f, Formed(f), NEW e
    PROVE  \E s \in {16, 32} : Resized(f, Relative(f, e), s)
<1> DEFINE s == IF f.bits = 16 THEN 16 ELSE 32
           g == Signed(Imm(f, e, s), TRUE)
<1>1. s \in {16, 32}
  OBVIOUS
<1> HIDE DEF s
<1>2. Resized(f, g, s)
  BY Imm_, Signed_
<1>3. Relative(f, e) = [g EXCEPT !.imm.ripRelative = TRUE]
  BY DEF Relative, s
<1> HIDE DEF g
<1>4. Formed(g)
  BY <1>2 DEF Resized
<1>5. Resized(f, Relative(f, e), s)
  BY <1>2, <1>3, <1>4, FormedIs DEF Resized
<1> QED
  BY <1>1, <1>5

LEMMA JmpReg_ ==
    ASSUME NEW f, Formed(f), NEW r
    PROVE  Alike(f, JmpReg(f, r))
<1>1. Alike(f, Require(Target(f, getRegSize(r, f.bits)), r \in isGPR))
  BY Target_, Require_, AlikeFormed, AlikeTrans
<1>2. Alike(f, RegisterField(Require(Target(f, getRegSize(r, f.bits)), r \in isGPR), getReg[r], FALSE))
  BY <1>1, RegisterField_, AlikeFormed, AlikeTrans
<1> QED
  BY <1>2, WithOpcode DEF JmpReg

LEMMA JMP_ ==
    ASSUME NEW f, Fresh(f), NEW i, i.mn \in JumpOps, f.mn = i.mn
    PROVE  Encodable(JMP(f, i))
<1>0. PICK op : op = i.ops[1]
  OBVIOUS
<1>1. Formed(f)
  BY FreshFormed
<1> DEFINE jump == CanOptimize(Relative(f, op.e), TRUE)
<1>2. Encodable(jump) /\ Formed(jump) /\ jump.target = "none"
  <2>1. PICK s \in {16, 32} : Resized(f, Relative(f, op.e), s)
    BY <1>1, Relative_
  <2>2. s \in Sizes /\ Permits(f.mn, s, "none")
    BY <2>1 DEF Sizes, Permits
  <2>3. Encodable(jump) /\ jump.target = "none"
    BY <2>1, <2>2, FreshCanOptimize
  <2> QED
    BY <2>3 DEF Encodable
<1> HIDE DEF jump
<1>3. CASE i.mn = "JMP" /\ IsReg(op)
  <2>1. JMP(f, i) = JmpReg(f, op.r)
    BY <1>0, <1>3 DEF JMP, IsMem, IsReg, IsImm
  <2> QED
    BY <1>1, <2>1, JmpReg_, FreshIs
<1>4. CASE i.mn = "JMP" /\ IsMem(op)
  <2>1. JMP(f, i) = Digit(Opcode(Target(parseMemory(f, op, FALSE), op.size), 255), 4)
    BY <1>0, <1>4 DEF JMP, IsMem, IsReg, IsImm
  <2>2. ASSUME NEW s
        PROVE  Alike(f, Target(parseMemory(f, op, FALSE), s))
    BY <1>1, parseMemory_, Target_, AlikeFormed, AlikeTrans
  <2>3. ASSUME NEW s
        PROVE  Encodable(Digit(Opcode(Target(parseMemory(f, op, FALSE), s), 255), 4))
    BY <2>2, WithOpcode, FreshIs, ZenonT(60)
  <2> QED
    BY <2>1, <2>3
<1>5. CASE IsImm(op)
  <2>1. ASSUME NEW n
        PROVE  /\ Encodable(Opcode(jump, n)) /\ Alike(jump, Opcode(jump, n))
               /\ Opcode(jump, n).target = "none"
    BY <1>2, Opcode_, AlikeEncodable
  <2>2. ASSUME NEW n
        PROVE  Encodable(Escape(Opcode(jump, n), <<15>>))
    BY <2>1, Escapes, Escape_, AlikeFormed, AlikeEncodable
  <2>3. \E n : JMP(f, i) = Opcode(jump, n) \/ JMP(f, i) = Escape(Opcode(jump, n), <<15>>)
    BY <1>0, <1>5 DEF JMP, IsMem, IsReg, IsImm, jump
  <2> QED
    BY <2>1, <2>2, <2>3
<1>6. CASE ~(i.mn = "JMP" /\ IsReg(op)) /\ ~(i.mn = "JMP" /\ IsMem(op)) /\ ~IsImm(op)
  <2>1. JMP(f, i) = Require(f, FALSE)
    BY <1>0, <1>6 DEF JMP
  <2> QED
    BY <1>1, <2>1, Require_, FreshIs
<1> QED
  BY <1>3, <1>4, <1>5, <1>6

LEMMA CALL_ ==
    ASSUME NEW f, Fresh(f), NEW i
    PROVE  Encodable(CALL(f, i))
<1>0. PICK op : op = i.ops[1]
  OBVIOUS
<1>1. ASSUME NEW n
      PROVE  Encodable(Opcode(Relative(f, op.e), n))
  <2>1. PICK s \in {16, 32} : Resized(f, Relative(f, op.e), s)
    BY FreshFormed, Relative_
  <2>2. Resized(f, Opcode(Relative(f, op.e), n), s)
    BY <2>1, Opcode_, ResizedFormed, ResizedAlike
  <2> QED
    BY <2>1, <2>2, SomeSizes, FreshResized
<1>2. ASSUME NEW s, NEW set
      PROVE  Encodable(Digit(Opcode(Target(GPROnly(Rm(f, op, FALSE), set), s), 255), 2))
  <2>1. Alike(f, GPROnly(Rm(f, op, FALSE), set))
    BY FreshFormed, Rm_, GPROnly_, AlikeFormed, AlikeTrans
  <2>2. Alike(f, Target(GPROnly(Rm(f, op, FALSE), set), s))
    BY <2>1, Target_, AlikeFormed, AlikeTrans
  <2>3. Alike(f, Digit(Opcode(Target(GPROnly(Rm(f, op, FALSE), set), s), 255), 2))
    BY <2>2, WithOpcode
  <2> QED
    BY <2>3, FreshIs
<1>3. \/ \E n : CALL(f, i) = Opcode(Relative(f, op.e), n)
      \/ \E s, set : CALL(f, i) = Digit(Opcode(Target(GPROnly(Rm(f, op, FALSE), set), s), 255), 2)
  BY <1>0, Zenon DEF CALL
<1> QED
  BY <1>1, <1>2, <1>3

LEMMA StackSize_ ==
    ASSUME NEW f, Formed(f), NEW s
    PROVE  Alike(f, StackSize(f, s))
<1>1. ASSUME NEW c
      PROVE  Alike(f, Require(f, c)) /\ Alike(f, Require(OperandSize(f, s), c))
  BY OperandSize_, Require_, AlikeFormed, AlikeTrans
<1>2. \E c : StackSize(f, s) = Require(f, c) \/ StackSize(f, s) = Require(OperandSize(f, s), c)
  BY Zenon DEF StackSize
<1> QED
  BY <1>1, <1>2

LEMMA StackReg_ ==
    ASSUME NEW f, Formed(f), NEW g, NEW opcode
    PROVE  Alike(f, StackReg(f, g, opcode))
  BY Rex_, Opcode_, AlikeFormed, AlikeTrans DEF StackReg

LEMMA Normal_Stack_ ==
    ASSUME NEW f, Fresh(f), NEW i, f.mn = i.mn, i.ops[1].k \in {"reg", "mem", "imm"}
    PROVE  Normal_Stack(f, i).ok => Encodable(Normal_Stack(f, i))
<1>0. PICK op : op = i.ops[1]
  OBVIOUS
<1>1. Formed(f)
  BY FreshFormed
<1>2. CASE IsImm(op)
  <2> DEFINE s == IF f.bits = 16 THEN 16 ELSE 32
             h == Opcode(Require(f, i.mn = "PUSH"), 104)
             g == Signed(Imm(h, op.e, s), f.bits = 64)
  <2>1. Alike(f, h) /\ (h.ok => i.mn = "PUSH")
    <3>1. Alike(f, Require(f, i.mn = "PUSH")) /\ (Require(f, i.mn = "PUSH").ok => i.mn = "PUSH")
      BY <1>1, Require_
    <3>2. Alike(Require(f, i.mn = "PUSH"), h)
      BY <3>1, Opcode_, AlikeFormed
    <3> QED
      BY <3>1, <3>2, AlikeTrans DEF Alike
  <2>2. Normal_Stack(f, i) = CanOptimize(g, TRUE)
    BY <1>0, <1>2 DEF Normal_Stack, IsMem, IsReg, IsImm
  <2>4. s \in {16, 32}
    OBVIOUS
  <2> HIDE DEF h, s
  <2>3. Resized(f, g, s) /\ g.ok = h.ok
    BY <2>1, Imm_, Signed_, AlikeFormed, AlikeResized
  <2> HIDE DEF g
  <2>5. Normal_Stack(f, i).ok = h.ok
    <3>1. CanOptimize(g, TRUE).ok = g.ok
      BY <2>3, FormedIs DEF CanOptimize, Resized
    <3> QED
      BY <2>2, <2>3, <3>1
  <2>6. s \in Sizes /\ (h.ok => Permits(f.mn, s, "none"))
    BY <2>1, <2>4 DEF Permits, Sizes
  <2> QED
    BY <2>2, <2>3, <2>5, <2>6, FreshCanOptimize
<1>3. CASE IsReg(op)
  <2>1. ASSUME NEW g, NEW n, NEW s, NEW set
        PROVE  Alike(f, StackReg(GPROnly(StackSize(f, s), set), g, n))
    BY <1>1, StackSize_, GPROnly_, StackReg_, AlikeFormed, AlikeTrans
  <2>2. \E n, g, s, set : Normal_Stack(f, i) = StackReg(GPROnly(StackSize(f, s), set), g, n)
    BY <1>0, <1>3 DEF Normal_Stack, IsImm, IsReg, IsMem
  <2> QED
    BY <2>1, <2>2, FreshIs
<1>4. CASE IsMem(op)
  <2>1. ASSUME NEW s
        PROVE  Alike(f, StackSize(parseMemory(f, op, TRUE), s))
    BY <1>1, parseMemory_, StackSize_, AlikeFormed, AlikeTrans
  <2>2. ASSUME NEW n, NEW d, NEW s
        PROVE  Alike(f, Digit(Opcode(StackSize(parseMemory(f, op, TRUE), s), n), d))
    BY <2>1, WithOpcode
  <2>3. \E n, d, s : Normal_Stack(f, i) = Digit(Opcode(StackSize(parseMemory(f, op, TRUE), s), n), d)
    BY <1>0, <1>4, ZenonT(60) DEF Normal_Stack, IsImm, IsReg, IsMem
  <2> QED
    BY <2>2, <2>3, FreshIs
<1> QED
  BY <1>0, <1>2, <1>3, <1>4 DEF IsImm, IsReg, IsMem

LEMMA ImmOf_ ==
    ASSUME NEW f, Formed(f), NEW e, NEW s, s \in Sizes
    PROVE  LET t == IF s = 64 THEN 32 ELSE s
           IN  Resized(f, ImmOf(f, e, s), t) /\ ImmOf(f, e, s).ok = f.ok /\ t \in Sizes /\ t # 64 /\ (s # 8 => t \in {16, 32})
<1>1. PICK t : t = (IF s = 64 THEN 32 ELSE s)
  OBVIOUS
<1>2. ImmOf(f, e, s) = Imm(f, e, t)
  BY <1>1 DEF ImmOf
<1>3. t \in Sizes /\ t # 64 /\ (s # 8 => t \in {16, 32})
  BY <1>1 DEF Sizes
<1>4. Resized(f, ImmOf(f, e, s), t) /\ ImmOf(f, e, s).ok = f.ok
  BY <1>2, Imm_
<1> QED
  BY <1>1, <1>3, <1>4

\* An operand size that is not one of the four is refused before the immediate.
LEMMA ImmOfOk ==
    ASSUME NEW f, Formed(f), NEW e, NEW s
    PROVE  Formed(ImmOf(f, e, s)) /\ ImmOf(f, e, s).ok = f.ok
<1>1. \E t : ImmOf(f, e, s) = Imm(f, e, t)
  BY DEF ImmOf
<1> QED
  BY <1>1, Imm_, ResizedFormed

LEMMA CanOptimizeOk ==
    ASSUME NEW f, Formed(f), NEW c
    PROVE  Formed(CanOptimize(f, c)) /\ CanOptimize(f, c).ok = f.ok
  BY FormedIs DEF CanOptimize

LEMMA RmImm_ ==
    ASSUME NEW f, NEW g, Fresh(f), Alike(f, g), NEW i, f.mn = i.mn, i.mn \in TwoArgumentOps, NEW s
    PROVE  RmImm(g, i, s).ok => Encodable(RmImm(g, i, s))
<1>0. PICK e : e = i.ops[2].e
  OBVIOUS
<1>1. ASSUME NEW n
      PROVE  /\ Alike(f, Sized(g, s, n)) /\ Formed(Sized(g, s, n))
             /\ Sized(g, s, n).ok => s \in Sizes
  BY Sized_, AlikeFormed, AlikeTrans
<1>2. CASE i.mn = "TEST"
  <2>1. RmImm(g, i, s) = ImmOf(Sized(g, s, 246), e, s)
    BY <1>0, <1>2 DEF RmImm
  <2>2. ASSUME NEW n
        PROVE  ImmOf(Sized(g, s, n), e, s).ok => Encodable(ImmOf(Sized(g, s, n), e, s))
    <3>1. ImmOf(Sized(g, s, n), e, s).ok => s \in Sizes
      BY <1>1, ImmOfOk
    <3>2. CASE s \in Sizes
      BY <1>1, <3>2, ImmOf_, AlikeResized, FreshResized
    <3> QED
      BY <3>1, <3>2
  <2> QED
    BY <2>1, <2>2
<1>3. CASE i.mn # "TEST"
  <2>1. PICK h, c : /\ h = Digit(Sized(g, s, 128), ALU[i.mn]) /\ c = (s # 8)
                    /\ RmImm(g, i, s) = CanOptimize(ImmOf(h, e, s), c)
    BY <1>0, <1>3 DEF RmImm
  <2>2. Alike(f, h) /\ Formed(h) /\ (h.ok => s \in Sizes)
    <3>1. ASSUME NEW n, NEW d
          PROVE  Alike(f, Digit(Sized(g, s, n), d)) /\ (Digit(Sized(g, s, n), d).ok => s \in Sizes)
      <4>1. Alike(Sized(g, s, n), Digit(Sized(g, s, n), d))
        BY <1>1, Digit_
      <4>2. Alike(f, Digit(Sized(g, s, n), d))
        BY <1>1, <4>1, AlikeTrans
      <4>3. Digit(Sized(g, s, n), d).ok => Sized(g, s, n).ok
        BY <4>1 DEF Alike
      <4> QED
        BY <1>1, <4>2, <4>3
    <3> QED
      BY <2>1, <3>1, AlikeFormed
  <2>3. RmImm(g, i, s).ok => s \in Sizes
    BY <2>1, <2>2, ImmOfOk, CanOptimizeOk
  <2>4. CASE s \in Sizes
    <3>1. PICK t : /\ Resized(f, ImmOf(h, e, s), t) /\ t \in Sizes
                   /\ s # 8 => t \in {16, 32}
      BY <2>2, <2>4, ImmOf_, AlikeResized
    <3>2. c => Permits(f.mn, t, "none")
      BY <2>1, <3>1 DEF Permits
    <3> QED
      BY <2>1, <3>1, <3>2, FreshCanOptimize
  <2> QED
    BY <2>3, <2>4
<1> QED
  BY <1>2, <1>3

LEMMA Unaddressed_ ==
    ASSUME NEW f, Formed(f), Unaddressed(f)
    PROVE  /\ \A n : Unaddressed(Opcode(f, n))
           /\ \A s : Unaddressed(OperandSize(f, s))
           /\ \A e, s : Unaddressed(Imm(f, e, s))
           /\ \A g, x : Unaddressed(RexFor(f, g, x))
           /\ \A c : Unaddressed(CanOptimize(f, c))
           /\ \A r : Unaddressed([f EXCEPT !.target = r])
<1>1. ASSUME NEW n
      PROVE  Unaddressed(Opcode(f, n))
  BY FormedIs DEF Unaddressed, Opcode
<1>2. ASSUME NEW p, NEW flags, NEW c
      PROVE  Unaddressed(Prefix(f, p)) /\ Unaddressed(Rex(f, flags)) /\ Unaddressed(Require(f, c))
  BY FormedIs DEF Unaddressed, Prefix, Rex, Require
<1>3. ASSUME NEW s
      PROVE  Unaddressed(OperandSize(f, s))
  <2>1. \E p, flags, c : OperandSize(f, s) \in {f, Prefix(f, p), Rex(f, flags), Require(f, c)}
    BY DEF OperandSize
  <2> QED
    BY <1>2, <2>1
<1>4. ASSUME NEW e, NEW s
      PROVE  Unaddressed(Imm(f, e, s))
  BY FormedIs DEF Unaddressed, Imm
<1>5. ASSUME NEW g, NEW x
      PROVE  Unaddressed(RexFor(f, g, x))
  BY <1>2 DEF RexFor
<1>6. ASSUME NEW c
      PROVE  Unaddressed(CanOptimize(f, c))
  BY FormedIs DEF Unaddressed, CanOptimize
<1>7. ASSUME NEW r
      PROVE  Unaddressed([f EXCEPT !.target = r])
  BY FormedIs DEF Unaddressed
<1> QED
  BY <1>1, <1>3, <1>4, <1>5, <1>6, <1>7

LEMMA AccumulatorImm_ ==
    ASSUME NEW f, Fresh(f), NEW i, f.mn = i.mn, i.mn \in TwoArgumentOps, i.ops[1].r \in Accumulators, NEW s
    PROVE  AccumulatorImm(f, i, s).ok => Encodable(AccumulatorImm(f, i, s))
<1>0. PICK e : e = i.ops[2].e
  OBVIOUS
<1>1. ASSUME NEW n
      PROVE  /\ Alike(f, Sized(f, s, n)) /\ Formed(Sized(f, s, n))
             /\ Sized(f, s, n).ok => s \in Sizes
  BY Sized_, FreshFormed, AlikeFormed
<1>2. CASE i.mn = "TEST"
  <2>1. AccumulatorImm(f, i, s) = ImmOf(Sized(f, s, 168), e, s)
    BY <1>0, <1>2 DEF AccumulatorImm
  <2>2. ASSUME NEW n
        PROVE  ImmOf(Sized(f, s, n), e, s).ok => Encodable(ImmOf(Sized(f, s, n), e, s))
    <3>1. ImmOf(Sized(f, s, n), e, s).ok => s \in Sizes
      BY <1>1, ImmOfOk
    <3>2. CASE s \in Sizes
      BY <1>1, <3>2, ImmOf_, AlikeResized, FreshResized
    <3> QED
      BY <3>1, <3>2
  <2> QED
    BY <2>1, <2>2
<1>3. CASE i.mn # "TEST"
  <2>1. PICK n, c, h, r : /\ c = (s # 8) /\ h = CanOptimize(ImmOf(Sized(f, s, n), e, s), c) /\ r = i.ops[1].r
                          /\ AccumulatorImm(f, i, s) = [h EXCEPT !.target = r]
    BY <1>0, <1>3 DEF AccumulatorImm
  <2>2. Formed(h) /\ (h.ok => s \in Sizes)
    BY <1>1, <2>1, ImmOfOk, CanOptimizeOk
  <2>3. AccumulatorImm(f, i, s).ok = h.ok
    BY <2>1, <2>2, FormedIs
  <2>4. CASE s \in Sizes
    <3>1. PICK t : /\ Resized(f, ImmOf(Sized(f, s, n), e, s), t) /\ t \in Sizes
                   /\ s # 8 => t \in {16, 32}
      BY <1>1, <2>4, ImmOf_, AlikeResized
    <3>2. h.imm.size = t /\ h.canOptimize = c /\ h.mn = i.mn
      BY <2>1, <3>1, CanOptimize_
    <3>3. LET g == [h EXCEPT !.target = r]
          IN  Formed(g) /\ g.imm.size = t /\ g.canOptimize = c /\ g.mn = i.mn /\ g.target = r
      BY <2>2, <3>2, FormedIs
    <3>4. c => Permits(i.mn, t, r)
      BY <2>1, <3>1 DEF Permits
    <3>5. Unaddressed([h EXCEPT !.target = r])
      <4>1. PICK g : g = Sized(f, s, n)
        OBVIOUS
      <4>2. Formed(f) /\ Formed(OperandSize(f, s)) /\ Unaddressed(f)
        BY FreshFormed, OperandSize_, AlikeFormed DEF Fresh
      <4>3. Formed(g) /\ Unaddressed(g)
        BY <1>1, <4>1, <4>2, Unaddressed_ DEF Sized
      <4>4. Formed(ImmOf(g, e, s)) /\ Unaddressed(ImmOf(g, e, s))
        BY <4>3, ImmOfOk, Unaddressed_ DEF ImmOf
      <4> QED
        BY <2>1, <2>2, <4>1, <4>4, Unaddressed_
    <3> QED
      BY <2>1, <3>1, <3>3, <3>4, <3>5 DEF Encodable
  <2> QED
    BY <2>2, <2>3, <2>4
<1> QED
  BY <1>2, <1>3

\* Refused, or an object without an immediate.
LEMMA Two_Argument_ALU_ ==
    ASSUME NEW f, Fresh(f), NEW i, f.mn = i.mn, i.mn \in TwoArgumentOps
    PROVE  Two_Argument_ALU(f, i).ok => Encodable(Two_Argument_ALU(f, i))
<1>0. PICK a, b : a = i.ops[1] /\ b = i.ops[2]
  OBVIOUS
<1>1. CASE IsImm(b) /\ IsReg(a) /\ a.r \in Accumulators
  <2>1. \E s : Two_Argument_ALU(f, i) = AccumulatorImm(f, i, s)
    BY <1>0, <1>1 DEF Two_Argument_ALU, IsImm, IsReg, IsMem
  <2> QED
    BY <1>0, <1>1, <2>1, AccumulatorImm_
<1>2. CASE IsImm(b) /\ ~(IsReg(a) /\ a.r \in Accumulators)
  <2>1. \E s, set : Two_Argument_ALU(f, i) = RmImm(GPROnly(Rm(f, a, TRUE), set), i, s)
    BY <1>0, <1>2 DEF Two_Argument_ALU, IsImm, IsMem
  <2>2. ASSUME NEW set
        PROVE  Alike(f, GPROnly(Rm(f, a, TRUE), set))
    BY FreshFormed, Rm_, GPROnly_, AlikeFormed, AlikeTrans
  <2> QED
    BY <2>1, <2>2, RmImm_
<1>3. CASE IsMem(a) /\ IsMem(b)
  <2>1. Two_Argument_ALU(f, i) = Require(f, FALSE)
    BY <1>0, <1>3 DEF Two_Argument_ALU, IsImm, IsReg, IsMem
  <2> QED
    BY <2>1, FreshFormed, Require_, FreshIs
<1>4. CASE ~IsImm(b) /\ ~(IsMem(a) /\ IsMem(b))
  <2>1. \E n, s, rmFirst, set : Two_Argument_ALU(f, i) =
                                   NoHighWithREX(Sized(GPROnly(RmReg(f, a, b, rmFirst), set), s, n), set)
    BY <1>0, <1>4 DEF Two_Argument_ALU
  <2>2. ASSUME NEW rmFirst, NEW set
        PROVE  Alike(f, GPROnly(RmReg(f, a, b, rmFirst), set))
    BY FreshFormed, RmReg_, GPROnly_, AlikeFormed, AlikeTrans
  <2>3. ASSUME NEW n, NEW s, NEW rmFirst, NEW set
        PROVE  Alike(f, NoHighWithREX(Sized(GPROnly(RmReg(f, a, b, rmFirst), set), s, n), set))
    BY <2>2, Sized_, NoHighWithREX_, AlikeFormed, AlikeTrans
  <2> QED
    BY <2>1, <2>3, FreshIs
<1> QED
  BY <1>1, <1>2, <1>3, <1>4

LEMMA ADX_ ==
    ASSUME NEW f, Fresh(f), NEW i
    PROVE  Encodable(ADX(f, i))
<1>0. PICK a, b : a = i.ops[1] /\ b = i.ops[2]
  OBVIOUS
<1>1. ASSUME NEW g, Alike(f, g), NEW s
      PROVE  Alike(f, SizedADX(g, s))
  <2>1. ASSUME NEW flags, NEW c
        PROVE  /\ Alike(f, Opcode(Escape(Rex(g, flags), <<15, 56>>), 246))
               /\ Alike(f, Opcode(Escape(Require(g, c), <<15, 56>>), 246))
    <3>1. Alike(f, Rex(g, flags)) /\ Alike(f, Require(g, c))
      BY <1>1, Rex_, Require_, AlikeFormed, AlikeTrans
    <3>2. Alike(f, Escape(Rex(g, flags), <<15, 56>>)) /\ Alike(f, Escape(Require(g, c), <<15, 56>>))
      BY <3>1, Escapes, Escape_, AlikeFormed, AlikeTrans
    <3> QED
      BY <3>2, WithOpcode
  <2> QED
    BY <2>1 DEF SizedADX
<1>2. ASSUME NEW p, NEW set
      PROVE  Alike(f, GPROnly(RmReg(Prefix(f, p), a, b, FALSE), set))
  BY FreshFormed, Prefix_, RmReg_, GPROnly_, AlikeFormed, AlikeTrans
<1>3. \E p, set, s : ADX(f, i) = SizedADX(GPROnly(RmReg(Prefix(f, p), a, b, FALSE), set), s)
  BY <1>0, Zenon DEF ADX
<1> QED
  BY <1>1, <1>2, <1>3, FreshIs

LEMMA ImulSized_ ==
    ASSUME NEW f, NEW g, Fresh(f), Alike(f, g), NEW i, f.mn = "IMUL", NEW s
    PROVE  (g.ok => s \in Sizes) => (ImulSized(g, i, s).ok => Encodable(ImulSized(g, i, s)))
<1>0. PICK e : e = i.ops[3].e
  OBVIOUS
<1>1. CASE Len(i.ops) = 2
  <2>1. Alike(f, Escape(Opcode(g, 175), <<15>>))
    BY WithOpcode, Escapes, Escape_, AlikeFormed, AlikeTrans
  <2> QED
    BY <1>1, <2>1, FreshIs DEF ImulSized
<1>2. CASE Len(i.ops) # 2
  <2>1. PICK h : h = Opcode(g, 105)
    OBVIOUS
  <2>2. Alike(f, h) /\ Formed(h) /\ (h.ok => g.ok)
    BY <2>1, Opcode_, WithOpcode, AlikeFormed DEF Alike
  <2>3. ImulSized(g, i, s) = CanOptimize(ImmOf(h, e, s), TRUE)
    BY <1>0, <1>2, <2>1 DEF ImulSized
  <2>4. ImulSized(g, i, s).ok => g.ok
    <3>1. PICK c : c = TRUE
      OBVIOUS
    <3>2. ImulSized(g, i, s) = CanOptimize(ImmOf(h, e, s), c)
      BY <2>3, <3>1
    <3> QED
      BY <2>2, <3>2, ImmOfOk, CanOptimizeOk
  <2>5. CASE s \in Sizes
    <3>1. PICK t : Resized(f, ImmOf(h, e, s), t) /\ t \in Sizes /\ t # 64
      BY <2>2, <2>5, ImmOf_, AlikeResized
    <3>2. Permits(f.mn, t, "none")
      BY <3>1 DEF Permits, Sizes
    <3> QED
      BY <2>3, <3>1, <3>2, FreshCanOptimize
  <2> QED
    BY <2>4, <2>5
<1> QED
  BY <1>1, <1>2

LEMMA Mul_Div_ ==
    ASSUME NEW f, Fresh(f), NEW i, f.mn = i.mn, i.mn # "IMUL" => ~(Len(i.ops) > 1)
    PROVE  Mul_Div(f, i).ok => Encodable(Mul_Div(f, i))
<1>0. PICK a, b : a = i.ops[1] /\ b = i.ops[2]
  OBVIOUS
<1>1. CASE Len(i.ops) > 1 /\ IsReg(a) /\ ~IsImm(b)
  <2>1. f.mn = "IMUL"
    BY <1>1
  <2>2. ASSUME NEW s, NEW set
        PROVE  ImulSized(Require(OperandSize(GPROnly(RmReg(f, a, b, FALSE), set), s), s # 8), i, s).ok =>
                 Encodable(ImulSized(Require(OperandSize(GPROnly(RmReg(f, a, b, FALSE), set), s), s # 8), i, s))
    <3>1. PICK g : g = GPROnly(RmReg(f, a, b, FALSE), set)
      OBVIOUS
    <3>2. Alike(f, g) /\ Formed(g)
      BY <3>1, FreshFormed, RmReg_, GPROnly_, AlikeFormed, AlikeTrans
    <3>3. PICK c : c = (s # 8)
      OBVIOUS
    <3>4. PICK o : o = OperandSize(g, s)
      OBVIOUS
    <3>5. Alike(f, o) /\ Formed(o) /\ (o.ok => s \in Sizes)
      BY <3>2, <3>4, OperandSize_, AlikeFormed, AlikeTrans
    <3>6. Alike(o, Require(o, c))
      BY <3>5, Require_
    <3>7. Alike(f, Require(o, c)) /\ (Require(o, c).ok => s \in Sizes)
      <4>1. Alike(f, Require(o, c))
        BY <3>5, <3>6, AlikeTrans
      <4>2. Require(o, c).ok => o.ok
        BY <3>6 DEF Alike
      <4> QED
        BY <3>5, <4>1, <4>2
    <3>8. ImulSized(Require(o, c), i, s).ok => Encodable(ImulSized(Require(o, c), i, s))
      BY <2>1, <3>7, ImulSized_
    <3> QED
      BY <3>1, <3>3, <3>4, <3>8
  <2>3. \E s, set : Mul_Div(f, i) = ImulSized(Require(OperandSize(GPROnly(RmReg(f, a, b, FALSE), set), s), s # 8), i, s)
    BY <1>0, <1>1, Zenon DEF Mul_Div, ImulReg
  <2> QED
    BY <2>2, <2>3
<1>2. CASE Len(i.ops) > 1 /\ ~(IsReg(a) /\ ~IsImm(b))
  <2>1. Mul_Div(f, i) = Require(f, FALSE)
    BY <1>0, <1>2, Zenon DEF Mul_Div
  <2> QED
    BY <2>1, FreshFormed, Require_, FreshIs
<1>3. CASE ~(Len(i.ops) > 1)
  <2>1. \E d : Mul_Div(f, i) = One_Argument(f, a, 246, d)
    BY <1>0, <1>3, Zenon DEF Mul_Div
  <2> QED
    BY <2>1, FreshFormed, One_Argument_, FreshIs
<1> QED
  BY <1>1, <1>2, <1>3

LEMMA Shift_Rotate_ ==
    ASSUME NEW f, Fresh(f), NEW i, f.mn = i.mn, i.mn \in ShiftOps
    PROVE  Encodable(Shift_Rotate(f, i))
<1>0. PICK a, b : a = i.ops[1] /\ b = i.ops[2]
  OBVIOUS
<1>1. CASE IsReg(b)
  <2>1. \E c, n, d : Shift_Rotate(f, i) = One_Argument(Require(f, c), a, n, d)
    BY <1>0, <1>1 DEF Shift_Rotate
  <2>2. ASSUME NEW c, NEW n, NEW d
        PROVE  Alike(f, One_Argument(Require(f, c), a, n, d))
    BY FreshFormed, Require_, One_Argument_, AlikeFormed, AlikeTrans
  <2> QED
    BY <2>1, <2>2, FreshIs
<1>2. CASE ~IsReg(b)
  <2>1. PICK g, n, d : /\ g = CanOptimize(Imm(f, b.e, 8), TRUE)
                       /\ Shift_Rotate(f, i) = One_Argument(g, a, n, d)
    BY <1>0, <1>2 DEF Shift_Rotate
  <2>2. Encodable(g) /\ g.target = "none"
    <3>1. Resized(f, Imm(f, b.e, 8), 8)
      BY FreshFormed, Imm_
    <3>2. Permits(f.mn, 8, "none")
      BY DEF Permits
    <3> QED
      BY <2>1, <3>1, <3>2, SomeSizes, FreshCanOptimize
  <2>3. Formed(g)
    BY <2>2 DEF Encodable
  <2> QED
    BY <2>1, <2>2, <2>3, One_Argument_, AlikeEncodable
<1> QED
  BY <1>1, <1>2

LEMMA Argument_ALU_ ==
    ASSUME NEW f, Fresh(f), NEW i
    PROVE  Encodable(Argument_ALU(f, i))
<1>0. PICK a : a = i.ops[1]
  OBVIOUS
<1>1. ASSUME NEW n, NEW d
      PROVE  Alike(f, One_Argument(f, a, n, d))
  BY FreshFormed, One_Argument_
<1>2. ASSUME NEW g, Alike(f, g)
      PROVE  Alike(f, ShortForm(g, i))
  <2>1. ASSUME NEW n
        PROVE  Alike(f, [Opcode(g, n) EXCEPT !.modrm.use = FALSE])
    <3>1. ASSUME NEW h, Formed(h)
          PROVE  Alike(h, [h EXCEPT !.modrm.use = FALSE])
      BY <3>1, FormedIs DEF Alike
    <3>2. Alike(f, Opcode(g, n))
      BY <1>2, WithOpcode
    <3> QED
      BY <3>1, <3>2, AlikeFormed, AlikeTrans
  <2>2. \/ ShortForm(g, i) = g
        \/ \E n : ShortForm(g, i) = [Opcode(g, n) EXCEPT !.modrm.use = FALSE]
    BY DEF ShortForm
  <2> QED
    BY <1>2, <2>1, <2>2
<1>3. \E n, d : Argument_ALU(f, i) = ShortForm(One_Argument(f, a, n, d), i)
  BY <1>0, ZenonT(60) DEF Argument_ALU
<1> QED
  BY <1>1, <1>2, <1>3, FreshIs

LEMMA MovSpecial_ ==
    ASSUME NEW f, Fresh(f), NEW a, NEW b
    PROVE  Encodable(MovSpecial(f, a, b))
<1>1. ASSUME NEW g, Alike(f, g), NEW s, NEW r, NEW c
      PROVE  Alike(f, SpecialFields(g, s, r, c))
  <2>1. PICK x, y, u, v, w : SpecialFields(g, s, r, c) =
                Escape(Opcode(Digit(RegisterField(RexFor(g, x, "r"), y, FALSE), u), v), w) /\ w = <<15>>
    BY DEF SpecialFields
  <2>2. Alike(f, RegisterField(RexFor(g, x, "r"), y, FALSE))
    BY <1>1, RexFor_, RegisterField_, AlikeFormed, AlikeTrans
  <2>3. Alike(f, Opcode(Digit(RegisterField(RexFor(g, x, "r"), y, FALSE), u), v))
    BY <2>2, Digit_, Opcode_, AlikeFormed, AlikeTrans
  <2> QED
    BY <2>1, <2>3, Escapes, Escape_, AlikeFormed, AlikeTrans
<1>2. ASSUME NEW c
      PROVE  Alike(f, Require(checkReg(checkReg(f, a.r), b.r), c))
  BY FreshFormed, checkReg_, Require_, AlikeFormed, AlikeTrans
<1>3. \E c, s, r, d : MovSpecial(f, a, b) = SpecialFields(Require(checkReg(checkReg(f, a.r), b.r), c), s, r, d)
  BY Zenon DEF MovSpecial
<1> QED
  BY <1>1, <1>2, <1>3, FreshIs

LEMMA MovSegment_ ==
    ASSUME NEW f, Fresh(f), NEW a, NEW b
    PROVE  Encodable(MovSegment(f, a, b))
<1>1. ASSUME NEW rmFirst, NEW n, NEW c
      PROVE  Alike(f, Require(Opcode(RmReg(f, a, b, rmFirst), n), c))
  BY FreshFormed, RmReg_, Opcode_, Require_, AlikeFormed, AlikeTrans
<1>2. ASSUME NEW g, Alike(f, g), NEW s, NEW store
      PROVE  Alike(f, SizedSegment(g, s, store))
  <2>1. Alike(f, Prefix(g, "66"))
    BY <1>2, Prefix_, AlikeFormed, AlikeTrans
  <2> QED
    BY <1>2, <2>1 DEF SizedSegment
<1>3. \E rmFirst, n, c, s, store :
         MovSegment(f, a, b) = SizedSegment(Require(Opcode(RmReg(f, a, b, rmFirst), n), c), s, store)
  <2> DEFINE rmFirst == IsReg(b) /\ b.r \in isSegment
             n == IF rmFirst THEN 140 ELSE 142
             oneMem == IsMem(a) \/ IsMem(b)
             s == IF SizeOf(f, a) = 0 THEN SizeOf(f, b) ELSE SizeOf(f, a)
             c == /\ ~(rmFirst /\ IsReg(a) /\ a.r \in isSegment)
                  /\ oneMem => CommonSize(f, a, b) # -1
                  /\ s \in {16, 32, 64}
             store == ~oneMem /\ rmFirst
  <2>1. MovSegment(f, a, b) = SizedSegment(Require(Opcode(RmReg(f, a, b, rmFirst), n), c), s, store)
    BY DEF MovSegment
  <2> HIDE DEF rmFirst, n, oneMem, s, c, store
  <2> QED
    BY <2>1
<1> QED
  BY <1>1, <1>2, <1>3, FreshIs

LEMMA MovRegImm_ ==
    ASSUME NEW f, Fresh(f), f.mn = "MOV", NEW r, NEW e, NEW s
    PROVE  MovRegImm(f, r, e, s).ok => Encodable(MovRegImm(f, r, e, s))
<1>1. PICK o, g, n, h, c : /\ o = Imm(OperandSize(f, s), e, s)
                           /\ h = Opcode(RexFor(o, g, "b"), n) /\ c = (s = 64)
                           /\ MovRegImm(f, r, e, s) = [CanOptimize(h, c) EXCEPT !.target = r]
  BY DEF MovRegImm
<1>2. Alike(f, OperandSize(f, s)) /\ (OperandSize(f, s).ok => s \in Sizes)
  BY FreshFormed, OperandSize_
<1>3. Resized(f, o, s) /\ o.ok = OperandSize(f, s).ok
  BY <1>1, <1>2, Imm_, AlikeFormed, AlikeResized
<1>4. Alike(o, h)
  <2>1. Alike(o, RexFor(o, g, "b"))
    BY <1>3, RexFor_, ResizedFormed
  <2> QED
    BY <1>1, <2>1, WithOpcode
<1>5. Resized(f, h, s) /\ (h.ok => o.ok)
  BY <1>3, <1>4, ResizedAlike DEF Alike
<1>6. PICK k : k = CanOptimize(h, c)
  OBVIOUS
<1>7. Formed(k) /\ k.imm.size = s /\ k.canOptimize = c /\ k.mn = "MOV" /\ k.ok = h.ok
  BY <1>5, <1>6, CanOptimize_
<1>8. LET m == [k EXCEPT !.target = r]
      IN  Formed(m) /\ m.imm.size = s /\ m.canOptimize = c /\ m.mn = "MOV" /\ m.ok = h.ok
  BY <1>7, FormedIs
<1>9. c => Permits("MOV", s, r)
  BY <1>1 DEF Permits
<1>10. ASSUME NEW m, Formed(m), m.imm.size = s, m.canOptimize = c, m.mn = "MOV", s \in Sizes, Unaddressed(m)
       PROVE  Encodable(m)
  BY <1>1, <1>10 DEF Permits, Encodable
<1>11. Unaddressed([k EXCEPT !.target = r])
  <2>1. Formed(f) /\ Formed(OperandSize(f, s)) /\ Unaddressed(f) /\ Unaddressed(OperandSize(f, s))
    BY FreshFormed, <1>2, AlikeFormed, Unaddressed_ DEF Fresh
  <2>2. Formed(o) /\ Unaddressed(o)
    BY <1>1, <1>3, <2>1, ResizedFormed, Unaddressed_
  <2>3. PICK q : q = RexFor(o, g, "b")
    OBVIOUS
  <2>4. Formed(q) /\ Unaddressed(q)
    BY <2>2, <2>3, RexFor_, AlikeFormed, Unaddressed_
  <2>5. Formed(h) /\ Unaddressed(h)
    BY <1>1, <1>4, <2>3, <2>4, AlikeFormed, Unaddressed_
  <2> QED
    BY <1>6, <1>7, <2>5, Unaddressed_
<1> QED
  BY <1>1, <1>2, <1>3, <1>5, <1>6, <1>8, <1>10, <1>11, ZenonT(60)

LEMMA MovMemImm_ ==
    ASSUME NEW f, Fresh(f), NEW m, NEW e
    PROVE  MovMemImm(f, m, e).ok => Encodable(MovMemImm(f, m, e))
<1>1. PICK s, h : /\ s = m.size /\ h = Sized(parseMemory(f, m, FALSE), s, 198)
                  /\ MovMemImm(f, m, e) = ImmOf(h, e, s)
  BY DEF MovMemImm
<1>2. ASSUME NEW n
      PROVE  /\ Alike(f, Sized(parseMemory(f, m, FALSE), s, n))
             /\ Sized(parseMemory(f, m, FALSE), s, n).ok => s \in Sizes
  BY FreshFormed, parseMemory_, Sized_, AlikeFormed, AlikeTrans
<1>3. Alike(f, h) /\ Formed(h) /\ (h.ok => s \in Sizes)
  BY <1>1, <1>2, AlikeFormed
<1>4. ImmOf(h, e, s).ok => s \in Sizes
  BY <1>3, ImmOfOk
<1>5. CASE s \in Sizes
  <2>1. PICK t : Resized(f, ImmOf(h, e, s), t) /\ t \in Sizes
    BY <1>3, <1>5, ImmOf_, AlikeResized
  <2> QED
    BY <1>1, <2>1, FreshResized
<1> QED
  BY <1>1, <1>4, <1>5

LEMMA MovPlain_ ==
    ASSUME NEW f, Fresh(f), NEW a, NEW b
    PROVE  Alike(f, MovPlain(f, a, b))
<1>1. ASSUME NEW rmFirst, NEW n
      PROVE  Alike(f, Opcode(RmReg(f, a, b, rmFirst), n))
  BY FreshFormed, RmReg_, WithOpcode
<1>2. Alike(f, MovMoffs(f, a, b))
  <2>1. PICK n, m, g, am : /\ g = Displaced(Opcode(f, n), m, FALSE)
                           /\ MovMoffs(f, a, b) = [g EXCEPT !.am = am]
    BY DEF MovMoffs
  <2>2. Alike(f, Displaced(Opcode(f, n), m, FALSE))
    BY FreshFormed, Opcode_, Displaced_, AlikeFormed, AlikeTrans
  <2>3. ASSUME NEW h, Formed(h)
        PROVE  Alike(h, [h EXCEPT !.am = am])
    BY <2>3, FormedIs DEF Alike
  <2> QED
    BY <2>1, <2>2, <2>3, AlikeFormed, AlikeTrans
<1>3. \/ MovPlain(f, a, b) = MovMoffs(f, a, b)
      \/ \E rmFirst, n : MovPlain(f, a, b) = Opcode(RmReg(f, a, b, rmFirst), n)
  BY Zenon DEF MovPlain
<1> QED
  BY <1>1, <1>2, <1>3

LEMMA Mov_ ==
    ASSUME NEW f, Fresh(f), NEW i, f.mn = "MOV"
    PROVE  Mov(f, i).ok => Encodable(Mov(f, i))
<1>0. PICK a, b : a = i.ops[1] /\ b = i.ops[2]
  OBVIOUS
<1> DEFINE plain(s) == NoHighWithREX(MovSized(MovPlain(f, a, b), s), {a, b})
<1>1. Encodable(Require(f, FALSE))
  BY FreshFormed, Require_, FreshIs
<1>2. Encodable(MovSegment(f, a, b)) /\ Encodable(MovSpecial(f, a, b))
  BY MovSegment_, MovSpecial_
<1>3. ASSUME NEW r, NEW e, NEW s
      PROVE  MovRegImm(f, r, e, s).ok => Encodable(MovRegImm(f, r, e, s))
  BY MovRegImm_
<1>4. ASSUME NEW e
      PROVE  MovMemImm(f, a, e).ok => Encodable(MovMemImm(f, a, e))
  BY MovMemImm_
<1>5. ASSUME NEW s
      PROVE  Encodable(plain(s))
  <2>1. PICK g : g = MovPlain(f, a, b)
    OBVIOUS
  <2>2. Alike(f, g)
    BY <2>1, MovPlain_
  <2>3. ASSUME NEW n
        PROVE  Alike(f, checkSize(Sized(g, s, n), s))
    BY <2>2, Sized_, checkSize_, AlikeFormed, AlikeTrans
  <2>4. Alike(f, MovSized(g, s))
    BY <2>3 DEF MovSized
  <2>5. ASSUME NEW set
        PROVE  Alike(f, NoHighWithREX(MovSized(g, s), set))
    BY <2>4, NoHighWithREX_, AlikeFormed, AlikeTrans
  <2> QED
    BY <2>1, <2>5, FreshIs
<1> DEFINE has(regs) == (IsReg(a) /\ a.r \in regs) \/ (IsReg(b) /\ b.r \in regs)
           special == ControlRegs \cup DebugRegs
<1>6. CASE has(isSegment)
  <2>1. Mov(f, i) = Require(f, FALSE) \/ Mov(f, i) = MovSegment(f, a, b)
    BY <1>0, <1>6 DEF Mov
  <2> QED
    BY <1>1, <1>2, <2>1
<1>7. CASE has(special) /\ ~has(isSegment)
  <2>1. Mov(f, i) = Require(f, FALSE) \/ Mov(f, i) = MovSpecial(f, a, b)
    BY <1>0, <1>7 DEF Mov
  <2> QED
    BY <1>1, <1>2, <2>1
<1>8. CASE ~has(special) /\ ~has(isSegment)
  <2>1. \/ \E s : Mov(f, i) = MovRegImm(f, a.r, b.e, s)
        \/ Mov(f, i) = MovMemImm(f, a, b.e)
        \/ Mov(f, i) = Require(f, FALSE)
        \/ \E s : Mov(f, i) = plain(s)
    BY <1>0, <1>8 DEF Mov, IsReg, IsMem, IsImm
  <2> QED
    BY <1>1, <1>3, <1>4, <1>5, <2>1
<1> QED
  BY <1>6, <1>7, <1>8

\* What the parser sees to before an instruction is made.
Wellformed(i) ==
    /\ i.mn \in Mnemonics
    /\ i.mn \in {"PUSH", "POP"} => i.ops[1].k \in {"reg", "mem", "imm"}
    /\ i.mn \in {"MUL", "DIV", "IDIV"} => ~(Len(i.ops) > 1)

LEMMA Constructed_ ==
    ASSUME NEW f, Fresh(f), NEW i, f.mn = i.mn, Wellformed(i)
    PROVE  Constructed(f, i).ok => Encodable(Constructed(f, i))
<1>0. PICK g : g = Constructed(f, i)
  OBVIOUS
<1>1. \/ i.mn \in DOMAIN Plain /\ g = Simple(f, i)
      \/ i.mn \in DOMAIN StackOps /\ g = Simple_Stack(f, i)
      \/ g = ASCII(f, i)
      \/ g = Simple_Interrupt(f, i)
      \/ g = Argument_Interrupt(f, i)
      \/ g = CALL(f, i)
      \/ g = RET(f, i)
      \/ i.mn \in JumpOps /\ g = JMP(f, i)
      \/ i.mn \in {"PUSH", "POP"} /\ g = Normal_Stack(f, i)
      \/ i.mn = "MOV" /\ g = Mov(f, i)
      \/ i.mn \in TwoArgumentOps /\ g = Two_Argument_ALU(f, i)
      \/ g = ADX(f, i)
      \/ i.mn \in {"MUL", "IMUL", "DIV", "IDIV"} /\ g = Mul_Div(f, i)
      \/ i.mn \in ShiftOps /\ g = Shift_Rotate(f, i)
      \/ g = Argument_ALU(f, i)
  <2>1. i.mn \in Mnemonics
    BY DEF Wellformed
  <2>2. PICK h : h = Operation(f, i)
    OBVIOUS
  <2>3. \/ i.mn \in DOMAIN Plain /\ g = Simple(f, i)
        \/ i.mn \in DOMAIN StackOps /\ g = Simple_Stack(f, i)
        \/ g = ASCII(f, i)
        \/ g = Simple_Interrupt(f, i)
        \/ g = Argument_Interrupt(f, i)
        \/ g = CALL(f, i)
        \/ g = RET(f, i)
        \/ /\ i.mn \in JumpOps \cup TwoArgumentOps \cup ShiftOps
                         \cup {"PUSH", "POP", "MOV", "ADCX", "ADOX", "MUL", "IMUL", "DIV", "IDIV", "NOT", "NEG", "INC", "DEC"}
           /\ g = h
    BY <1>0, <2>1, <2>2, SMT DEF Constructed, Mnemonics
  <2>4. CASE i.mn \in JumpOps \cup TwoArgumentOps \cup ShiftOps
                         \cup {"PUSH", "POP", "MOV", "ADCX", "ADOX", "MUL", "IMUL", "DIV", "IDIV", "NOT", "NEG", "INC", "DEC"}
    <3>1. \/ i.mn \in JumpOps /\ h = JMP(f, i)
          \/ i.mn \in {"PUSH", "POP"} /\ h = Normal_Stack(f, i)
          \/ i.mn = "MOV" /\ h = Mov(f, i)
          \/ i.mn \in TwoArgumentOps /\ h = Two_Argument_ALU(f, i)
          \/ h = ADX(f, i)
          \/ i.mn \in {"MUL", "IMUL", "DIV", "IDIV"} /\ h = Mul_Div(f, i)
          \/ i.mn \in ShiftOps /\ h = Shift_Rotate(f, i)
          \/ h = Argument_ALU(f, i)
      BY <2>2, <2>4, SMT DEF Operation
    <3> QED
      BY <2>3, <3>1
  <2> QED
    BY <2>3, <2>4
<1>2. Encodable(Simple(f, i)) /\ Encodable(Simple_Stack(f, i)) /\ Encodable(ASCII(f, i))
  BY Simple_, Simple_Stack_, ASCII_
<1>3. Encodable(Simple_Interrupt(f, i)) /\ Encodable(Argument_Interrupt(f, i))
  BY Simple_Interrupt_, Argument_Interrupt_
<1>4. (i.mn \in JumpOps => Encodable(JMP(f, i))) /\ Encodable(CALL(f, i)) /\ Encodable(RET(f, i))
  BY JMP_, CALL_, RET_
<1>5. i.mn \in {"PUSH", "POP"} => (Normal_Stack(f, i).ok => Encodable(Normal_Stack(f, i)))
  BY Normal_Stack_ DEF Wellformed
<1>6. i.mn = "MOV" => (Mov(f, i).ok => Encodable(Mov(f, i)))
  BY Mov_
<1>7. i.mn \in TwoArgumentOps => (Two_Argument_ALU(f, i).ok => Encodable(Two_Argument_ALU(f, i)))
  BY Two_Argument_ALU_
<1>8. i.mn \in {"MUL", "IMUL", "DIV", "IDIV"} => (Mul_Div(f, i).ok => Encodable(Mul_Div(f, i)))
  BY Mul_Div_ DEF Wellformed
<1>9. Encodable(ADX(f, i)) /\ (i.mn \in ShiftOps => Encodable(Shift_Rotate(f, i))) /\ Encodable(Argument_ALU(f, i))
  BY ADX_, Shift_Rotate_, Argument_ALU_
<1> QED
  BY <1>0, <1>1, <1>2, <1>3, <1>4, <1>5, <1>6, <1>7, <1>8, <1>9

LEMMA GetInstruction_ ==
    ASSUME NEW i, Wellformed(i)
    PROVE  GetInstruction(i).ok => Encodable(GetInstruction(i))
<1>1. PICK f : f = [Blank(i.bits) EXCEPT !.mn = i.mn]
  OBVIOUS
<1>2. Fresh(f) /\ f.mn = i.mn
  BY <1>1, BlankIs
<1> QED
  BY <1>1, <1>2, Constructed_ DEF GetInstruction

-----------------------------------------------------------------------------
(* What optimize() does *)

\* An optimization neither hides the object nor makes it longer.
Shorter(f, g) ==
    /\ Encodable(g)
    /\ size(g) # size(f) => size(g) < size(f)

ImmSize(f) == IF f.imm.use THEN f.imm.size \div 8 ELSE 0

LEMMA ImmSizeIs ==
    ASSUME NEW f, f.imm.size \in {0} \cup Sizes
    PROVE  ImmSize(f) \in 0..8 /\ (f.imm.use => ImmSize(f) = f.imm.size \div 8)
  BY DEF ImmSize, Sizes

LEMMA DispSizeIs ==
    ASSUME NEW f
    PROVE  DispSize(f) \in 0..4
  BY DEF DispSize

LEMMA flagIs ==
    ASSUME NEW c
    PROVE  flag(c) \in 0..1 /\ (c => flag(c) = 1) /\ (~c => flag(c) = 0)
  BY DEF flag

\* What the sizes of f and g are made of.
Measured(f, g, n, r, s, u, v) ==
    /\ r = flag("use" \in f.rex) /\ s = flag("use" \in g.rex)
    /\ u = flag(f.modrm.use) /\ v = flag(g.modrm.use)
    /\ size(f) = n + Len(f.escape) + r + u + DispSize(f) + ImmSize(f)
    /\ size(g) = n + Len(g.escape) + s + v + DispSize(g) + ImmSize(g)

\* Two objects that differ in no prefix and in no SIB byte.
LEMMA Sizing ==
    ASSUME NEW f, NEW g, Formed(f), Formed(g),
           f.imm.size \in {0} \cup Sizes, g.imm.size \in {0} \cup Sizes,
           g.prefixes = f.prefixes, g.sib = f.sib
    PROVE  \E n \in Nat, r, s, u, v \in 0..1 : Measured(f, g, n, r, s, u, v)
<1>1. PICK a \in 0..1 : a = flag("66" \in f.prefixes)
  BY DEF flag
<1>2. PICK b \in 0..1 : b = flag("67" \in f.prefixes)
  BY DEF flag
<1>3. PICK c \in 0..1 : c = flag("rep" \in f.prefixes)
  BY DEF flag
<1>4. PICK d \in 0..1 : d = flag(f.sib.use)
  BY DEF flag
<1>5. PICK r \in 0..1, s \in 0..1, u \in 0..1, v \in 0..1 :
              /\ r = flag("use" \in f.rex) /\ s = flag("use" \in g.rex)
              /\ u = flag(f.modrm.use) /\ v = flag(g.modrm.use)
  BY flagIs
<1>6. PICK lf \in Int, lg \in Int, df \in Int, dg \in Int, mf \in Int, mg \in Int :
              /\ lf = Len(f.escape) /\ df = DispSize(f) /\ mf = ImmSize(f)
              /\ lg = Len(g.escape) /\ dg = DispSize(g) /\ mg = ImmSize(g)
  <2>1. /\ Len(f.escape) \in Int /\ DispSize(f) \in Int /\ ImmSize(f) \in Int
        /\ Len(g.escape) \in Int /\ DispSize(g) \in Int /\ ImmSize(g) \in Int
    BY FormedIs, DispSizeIs, ImmSizeIs
  <2> QED
    BY <2>1
<1>7. size(f) = 1 + a + b + c + r + lf + u + d + df + mf
  BY <1>1, <1>2, <1>3, <1>4, <1>5, <1>6 DEF size, ImmSize
<1>8. size(g) = 1 + a + b + c + s + lg + v + d + dg + mg
  BY <1>1, <1>2, <1>3, <1>4, <1>5, <1>6 DEF size, ImmSize
<1>9. PICK n \in Nat : n = 1 + a + b + c + d
  OBVIOUS
<1>10. size(f) = n + lf + r + u + df + mf
  BY <1>7, <1>9
<1>11. size(g) = n + lg + s + v + dg + mg
  BY <1>8, <1>9
<1>12. size(f) = n + Len(f.escape) + r + u + DispSize(f) + ImmSize(f)
  BY <1>6, <1>10
<1>13. size(g) = n + Len(g.escape) + s + v + DispSize(g) + ImmSize(g)
  BY <1>6, <1>11
<1> QED
  BY <1>5, <1>12, <1>13, SMTT(30) DEF Measured

LEMMA shortenDisplacement_ ==
    ASSUME NEW f, Encodable(f)
    PROVE  Shorter(f, shortenDisplacement(f))
<1>1. CASE shortenDisplacement(f) = f
  BY <1>1 DEF Shorter
<1>2. CASE shortenDisplacement(f) # f
  <2>1. PICK g : g = shortenDisplacement(f)
    OBVIOUS
  <2>2. f.disp.use /\ ~f.disp.short /\ g = [f EXCEPT !.disp.short = TRUE, !.modrm.mod = 1]
    BY <1>2, <2>1 DEF shortenDisplacement
  <2>3. Formed(f) /\ f.imm.size \in {0} \cup Sizes
    BY DEF Encodable
  <2>4. /\ Formed(g) /\ g.imm = f.imm /\ g.canOptimize = f.canOptimize /\ g.mn = f.mn /\ g.target = f.target
        /\ g.prefixes = f.prefixes /\ g.rex = f.rex /\ g.escape = f.escape /\ g.sib = f.sib /\ g.am = f.am
        /\ g.modrm.use = f.modrm.use /\ g.disp.use = f.disp.use /\ g.disp.short
    BY <2>2, <2>3, FormedIs
  <2>5. DispSize(g) = 1 /\ DispSize(f) \in {2, 4}
    BY <2>2, <2>4 DEF DispSize
  <2>6. PICK n \in Nat, r, s, u, v \in 0..1 : Measured(f, g, n, r, s, u, v)
    BY <2>3, <2>4, Sizing
  <2>7. r = s /\ u = v /\ ImmSize(g) = ImmSize(f) /\ ImmSize(f) \in Int /\ Len(f.escape) \in Nat
    BY <2>3, <2>4, <2>6, ImmSizeIs, FormedIs DEF ImmSize, Measured
  <2>8. size(g) < size(f)
    BY <2>4, <2>5, <2>6, <2>7 DEF Measured
  <2>9. Encodable(g)
    BY <2>2, <2>4 DEF Encodable, Unaddressed
  <2> QED
    BY <2>1, <2>8, <2>9 DEF Shorter
<1> QED
  BY <1>1, <1>2

\* What no field of g makes longer.
LEMMA Reduced ==
    ASSUME NEW f, NEW g, Encodable(f), Formed(g), g.imm.size \in {0} \cup Sizes,
           g.canOptimize = FALSE, g.target # "none" => Unaddressed(g),
           g.prefixes = f.prefixes, g.sib = f.sib,
           "use" \in g.rex => "use" \in f.rex,
           Len(g.escape) <= Len(f.escape), DispSize(g) <= DispSize(f),
           flag(g.modrm.use) + ImmSize(g) <= flag(f.modrm.use) + ImmSize(f)
    PROVE  Shorter(f, g)
<1>1. Encodable(g)
  BY DEF Encodable
<1>2. Formed(f) /\ f.imm.size \in {0} \cup Sizes
  BY DEF Encodable
<1>3. PICK n \in Nat, r, s, u, v \in 0..1 : Measured(f, g, n, r, s, u, v)
  BY <1>2, Sizing, Zenon
<1>4. s <= r
  BY <1>3 DEF flag, Measured
<1>5. PICK lf \in Int, lg \in Int, df \in Int, dg \in Int, mf \in Int, mg \in Int :
              /\ lf = Len(f.escape) /\ df = DispSize(f) /\ mf = ImmSize(f)
              /\ lg = Len(g.escape) /\ dg = DispSize(g) /\ mg = ImmSize(g)
  <2>1. /\ Len(f.escape) \in Int /\ DispSize(f) \in Int /\ ImmSize(f) \in Int
        /\ Len(g.escape) \in Int /\ DispSize(g) \in Int /\ ImmSize(g) \in Int
    BY <1>2, FormedIs, DispSizeIs, ImmSizeIs
  <2> QED
    BY <2>1
<1>6. lg <= lf /\ dg <= df /\ v + mg <= u + mf
  BY <1>3, <1>5 DEF Measured
<1>7. size(f) = n + lf + r + u + df + mf /\ size(g) = n + lg + s + v + dg + mg
  BY <1>3, <1>5 DEF Measured
<1>8. PICK sf \in Int, sg \in Int : sf = n + lf + r + u + df + mf /\ sg = n + lg + s + v + dg + mg
  <2>1. n + lf + r + u + df + mf \in Int /\ n + lg + s + v + dg + mg \in Int
    BY ONLY n \in Nat, lf \in Int, r \in 0..1, u \in 0..1, df \in Int, mf \in Int,
            lg \in Int, s \in 0..1, v \in 0..1, dg \in Int, mg \in Int
  <2> QED
    BY <2>1, Zenon
<1>9. sg <= sf
  BY ONLY <1>4, <1>6, <1>8, n \in Nat, lf \in Int, r \in 0..1, u \in 0..1, df \in Int, mf \in Int,
          lg \in Int, s \in 0..1, v \in 0..1, dg \in Int, mg \in Int
<1>10. size(f) = sf /\ size(g) = sg
  BY <1>7, <1>8
<1> QED
  BY <1>1, <1>9, <1>10 DEF Shorter

LEMMA ImmSizes ==
    ASSUME NEW f, f.imm.use
    PROVE  /\ f.imm.size = 8 => ImmSize(f) = 1
           /\ f.imm.size = 16 => ImmSize(f) = 2
           /\ f.imm.size = 32 => ImmSize(f) = 4
           /\ f.imm.size = 64 => ImmSize(f) = 8
  BY DEF ImmSize

LEMMA DispSame ==
    ASSUME NEW f, NEW g, g.disp = f.disp, g.am = f.am,
           g.modrm = f.modrm \/ g.modrm.mod = 3
    PROVE  DispSize(g) <= DispSize(f)
<1>1. CASE g.modrm = f.modrm
  <2>1. DispSize(g) = DispSize(f)
    BY <1>1 DEF DispSize
  <2> QED
    BY <2>1, DispSizeIs
<1>2. CASE g.modrm.mod = 3
  <2>1. CASE g.disp.use
    <3>1. DispSize(g) = DispSize(f)
      BY <2>1 DEF DispSize
    <3> QED
      BY <3>1, DispSizeIs
  <2>2. CASE ~g.disp.use
    <3>1. DispSize(g) = 0
      BY <1>2, <2>2 DEF DispSize
    <3> QED
      BY <3>1, DispSizeIs
  <2> QED
    BY <2>1, <2>2
<1> QED
  BY <1>1, <1>2

\* The same fields but for the opcode, the immediate and what is named.
LEMMA Shortened ==
    ASSUME NEW f, NEW g, Encodable(f), Formed(g), f.imm.use,
           g.canOptimize = FALSE, g.target = f.target,
           g.prefixes = f.prefixes, g.sib = f.sib, g.disp = f.disp, g.am = f.am, g.modrm = f.modrm,
           "use" \in g.rex => "use" \in f.rex,
           Len(g.escape) <= Len(f.escape),
           g.imm.size \in {0} \cup Sizes, ImmSize(g) <= ImmSize(f)
    PROVE  Shorter(f, g)
<1>1. DispSize(g) <= DispSize(f)
  BY DispSame
<1>2. g.target # "none" => Unaddressed(g)
  BY DEF Encodable, Unaddressed
<1>3. f.imm.size \in {0} \cup Sizes
  BY DEF Encodable
<1>4. ImmSize(f) \in Int /\ ImmSize(g) \in Int /\ flag(f.modrm.use) \in Int
  BY <1>3, ImmSizeIs, flagIs
<1>5. flag(g.modrm.use) + ImmSize(g) <= flag(f.modrm.use) + ImmSize(f)
  BY <1>4
<1> QED
  BY <1>1, <1>2, <1>5, Reduced

LEMMA ShortImm ==
    ASSUME NEW f, Encodable(f), f.imm.use, f.imm.size \in {8, 16, 32}, NEW n
    PROVE  Shorter(f, ByteImm(f, n))
<1>1. PICK g : g = ByteImm(f, n)
  OBVIOUS
<1>2. Formed(f)
  BY DEF Encodable
<1>3. /\ Formed(g) /\ g.canOptimize = FALSE /\ g.target = f.target
      /\ g.prefixes = f.prefixes /\ g.sib = f.sib /\ g.disp = f.disp /\ g.am = f.am /\ g.modrm = f.modrm
      /\ g.rex = f.rex /\ g.escape = f.escape /\ g.imm.size = 8 /\ g.imm.use = f.imm.use
  BY <1>1, <1>2, FormedIs DEF ByteImm
<1>4. Len(g.escape) <= Len(f.escape)
  BY <1>2, <1>3, FormedIs
<1>5. ImmSize(g) = 1 /\ ImmSize(f) \in {1, 2, 4}
  BY <1>3, ImmSizes
<1>6. ImmSize(g) <= ImmSize(f)
  BY <1>5
<1> QED
  BY <1>1, <1>3, <1>4, <1>6, SomeSizes, Shortened

LEMMA OptimizeJump_ ==
    ASSUME NEW f, Encodable(f), f.imm.use, f.imm.size \in {16, 32}
    PROVE  Shorter(f, OptimizeJump(f))
<1>1. PICK n, h : h = ByteImm(f, n) /\ OptimizeJump(f) = Escape(h, <<>>)
  BY DEF OptimizeJump
<1>2. Formed(f)
  BY DEF Encodable
<1>3. /\ Formed(h) /\ h.canOptimize = FALSE /\ h.target = f.target
      /\ h.prefixes = f.prefixes /\ h.sib = f.sib /\ h.disp = f.disp /\ h.am = f.am /\ h.modrm = f.modrm
      /\ h.rex = f.rex /\ h.imm.size = 8 /\ h.imm.use = f.imm.use
  BY <1>1, <1>2, FormedIs DEF ByteImm
<1>4. PICK e, g : e = <<>> /\ Len(e) = 0 /\ g = Escape(h, e)
  OBVIOUS
<1>5. /\ Formed(g) /\ g.canOptimize = FALSE /\ g.target = f.target
      /\ g.prefixes = f.prefixes /\ g.sib = f.sib /\ g.disp = f.disp /\ g.am = f.am /\ g.modrm = f.modrm
      /\ g.rex = f.rex /\ g.escape = e /\ g.imm.size = 8 /\ g.imm.use = f.imm.use
  BY <1>3, <1>4, FormedIs DEF Escape
<1>6. Len(g.escape) <= Len(f.escape)
  BY <1>2, <1>4, <1>5, FormedIs
<1>7. ImmSize(g) = 1 /\ ImmSize(f) \in {2, 4}
  BY <1>5, ImmSizes
<1>8. ImmSize(g) <= ImmSize(f)
  BY <1>7
<1> QED
  BY <1>1, <1>4, <1>5, <1>6, <1>8, SomeSizes, Shortened

\* The accumulators, and the registers an extended or a new one is.
LEMMA ElemsOf ==
    ASSUME NEW s, NEW n \in Nat, DOMAIN s = 1..n, NEW k \in 1..n
    PROVE  s[k] \in Elems(s)
  BY DEF Elems

LEMMA AccumulatorIs ==
    ASSUME NEW r \in Accumulators
    PROVE  ~getReg[r].useREX /\ ~getReg[r].setREX
<1>1. r \in {"AL", "AX", "EAX", "RAX"}
  BY DEF Accumulators
<1>2. r \notin Elems(Ext8) /\ r \notin Elems(Ext16)
  BY <1>1 DEF Elems, Ext8, Ext16
<1>3. r \notin Elems(Ext32) /\ r \notin Elems(Ext64)
  BY <1>1 DEF Elems, Ext32, Ext64
<1>4. r \notin Elems(New8)
  BY <1>1 DEF Elems, New8
<1>5. r \notin ExtendedGPR
  BY <1>2, <1>3 DEF ExtendedGPR
<1>6. r \in isGPR
  <2>1. "AL" \in Elems(Low8)
    BY DEF Elems, Low8
  <2>2. "AX" \in Elems(Old16)
    BY DEF Elems, Old16
  <2>3. "EAX" \in Elems(Old32)
    BY DEF Elems, Old32
  <2>4. "RAX" \in Elems(Old64)
    BY DEF Elems, Old64
  <2> QED
    BY <1>1, <2>1, <2>2, <2>3, <2>4 DEF isGPR
<1> QED
  <2>1. PICK c : c = CHOOSE n \in 0..7 : \E f \in registerFiles : \E i \in DOMAIN f[1] : f[1][i] = r /\ n = f[2] + i - 1
    OBVIOUS
  <2>2. getReg[r] = [index |-> c, useREX |-> r \in ExtendedGPR \cup Elems(New8), setREX |-> r \in ExtendedGPR]
    BY <1>6, <2>1, Zenon DEF getReg
  <2>3. PICK u, v : u = (r \in ExtendedGPR \cup Elems(New8)) /\ v = (r \in ExtendedGPR)
    OBVIOUS
  <2>4. getReg[r] = [index |-> c, useREX |-> u, setREX |-> v]
    BY <2>2, <2>3, Zenon
  <2>5. getReg[r].useREX = u /\ getReg[r].setREX = v
    BY <2>4
  <2>6. r \notin ExtendedGPR \cup Elems(New8)
    BY <1>4, <1>5
  <2>7. ~u /\ ~v
    BY <1>5, <2>3, <2>6, Zenon
  <2> QED
    BY <2>5, <2>7, Zenon

LEMMA RexForAccumulator ==
    ASSUME NEW f, Formed(f), NEW r \in Accumulators, NEW x
    PROVE  LET g == RexFor(f, getReg[r], x)
           IN  /\ Formed(g) /\ g.rex = f.rex \cup {y \in {"use", x} : FALSE}
               /\ g.prefixes = f.prefixes /\ g.am = f.am /\ g.escape = f.escape /\ g.modrm = f.modrm
               /\ g.sib = f.sib /\ g.disp = f.disp /\ g.imm = f.imm
               /\ g.canOptimize = f.canOptimize /\ g.target = f.target
<1>1. PICK no : no = {y \in {"use", x} : FALSE}
  OBVIOUS
<1>2. {y \in {"use", x} : IF y = "use" THEN getReg[r].useREX ELSE getReg[r].setREX} = no
  BY <1>1, AccumulatorIs
<1>3. RexFor(f, getReg[r], x) = Rex(f, no)
  BY <1>2 DEF RexFor
<1> QED
  BY <1>1, <1>3, FormedIs DEF Rex

LEMMA RegisterAccumulator ==
    ASSUME NEW f, Formed(f), NEW r \in Accumulators
    PROVE  \E g : /\ g = parseRegister(f, r, FALSE)
                  /\ Formed(g) /\ ("use" \in g.rex => "use" \in f.rex)
                  /\ g.prefixes = f.prefixes /\ g.am = f.am /\ g.escape = f.escape
                  /\ g.modrm.mod = f.modrm.mod /\ g.sib = f.sib /\ g.disp = f.disp /\ g.imm = f.imm
                  /\ g.canOptimize = f.canOptimize /\ g.target = f.target
<1>1. PICK c, d, h : h = Require(Require(f, c), d) /\ parseRegister(f, r, FALSE) = RegisterField(h, getReg[r], FALSE)
  BY ZenonT(60) DEF parseRegister, checkReg, checkSize
<1>2. /\ Formed(h) /\ h.rex = f.rex
      /\ h.prefixes = f.prefixes /\ h.am = f.am /\ h.escape = f.escape
      /\ h.modrm = f.modrm /\ h.sib = f.sib /\ h.disp = f.disp /\ h.imm = f.imm
      /\ h.canOptimize = f.canOptimize /\ h.target = f.target
  <2>1. PICK k : k = Require(f, c)
    OBVIOUS
  <2>2. /\ Formed(k) /\ k.rex = f.rex
        /\ k.prefixes = f.prefixes /\ k.am = f.am /\ k.escape = f.escape
        /\ k.modrm = f.modrm /\ k.sib = f.sib /\ k.disp = f.disp /\ k.imm = f.imm
        /\ k.canOptimize = f.canOptimize /\ k.target = f.target
    BY <2>1, FormedIs DEF Require
  <2>3. h = Require(k, d)
    BY <1>1, <2>1
  <2> QED
    BY <2>2, <2>3, FormedIs DEF Require
<1>3. PICK k : k = RexFor(h, getReg[r], "b")
  OBVIOUS
<1>4. /\ Formed(k) /\ k.rex = h.rex \cup {y \in {"use", "b"} : FALSE}
      /\ k.prefixes = h.prefixes /\ k.am = h.am /\ k.escape = h.escape
      /\ k.modrm = h.modrm /\ k.sib = h.sib /\ k.disp = h.disp /\ k.imm = h.imm
      /\ k.canOptimize = h.canOptimize /\ k.target = h.target
  BY <1>2, <1>3, RexForAccumulator, ZenonT(60)
<1>5. PICK n, g : g = [k EXCEPT !.modrm.use = TRUE, !.modrm.rm = n] /\ g = parseRegister(f, r, FALSE)
  BY <1>1, <1>3 DEF RegisterField
<1>6. /\ Formed(g) /\ g.rex = k.rex
      /\ g.prefixes = k.prefixes /\ g.am = k.am /\ g.escape = k.escape
      /\ g.modrm.mod = k.modrm.mod /\ g.sib = k.sib /\ g.disp = k.disp /\ g.imm = k.imm
      /\ g.canOptimize = k.canOptimize /\ g.target = k.target
  BY <1>4, <1>5, FormedIs
<1>7. /\ g.prefixes = f.prefixes /\ g.am = f.am /\ g.escape = f.escape
      /\ g.modrm.mod = f.modrm.mod /\ g.sib = f.sib /\ g.disp = f.disp /\ g.imm = f.imm
      /\ g.canOptimize = f.canOptimize /\ g.target = f.target
  BY <1>2, <1>4, <1>6
<1>8. "use" \in g.rex => "use" \in f.rex
  BY <1>2, <1>4, <1>6
<1> QED
  BY <1>5, <1>6, <1>7, <1>8

\* An accumulator gets a ModR/M byte, at least one byte of the immediate goes.
LEMMA OptimizeALU_ ==
    ASSUME NEW f, Encodable(f), f.imm.use, f.imm.size \in {16, 32},
           f.target \in {"none"} \cup Accumulators
    PROVE  Shorter(f, OptimizeALU(f))
<1>1. PICK h : h = ByteImm(f, 131)
  OBVIOUS
<1>2. CASE f.target = "none"
  <2>1. OptimizeALU(f) = h
    BY <1>1, <1>2, Zenon DEF OptimizeALU
  <2>2. Shorter(f, h)
    BY <1>1, ShortImm
  <2> QED
    BY <2>1, <2>2
<1>3. CASE f.target # "none"
  <2>1. Formed(f) /\ Unaddressed(f) /\ f.target \in Accumulators
    BY <1>3 DEF Encodable
  <2>2. /\ Formed(h) /\ h.canOptimize = FALSE /\ h.target = f.target
        /\ h.prefixes = f.prefixes /\ h.sib = f.sib /\ h.disp = f.disp /\ h.am = f.am /\ h.modrm = f.modrm
        /\ h.rex = f.rex /\ h.escape = f.escape /\ h.imm.size = 8 /\ h.imm.use = f.imm.use
    BY <1>1, <2>1, FormedIs DEF ByteImm
  <2>3. PICK g : /\ g = parseRegister(h, f.target, FALSE)
                 /\ Formed(g) /\ ("use" \in g.rex => "use" \in h.rex)
                 /\ g.prefixes = h.prefixes /\ g.am = h.am /\ g.escape = h.escape
                 /\ g.modrm.mod = h.modrm.mod /\ g.sib = h.sib /\ g.disp = h.disp /\ g.imm = h.imm
                 /\ g.canOptimize = h.canOptimize /\ g.target = h.target
    BY <2>1, <2>2, RegisterAccumulator
  <2>4. /\ g.canOptimize = FALSE /\ g.modrm.mod = 3 /\ g.disp = f.disp /\ g.am = f.am
        /\ g.imm.size = 8 /\ g.imm.use = f.imm.use /\ g.escape = f.escape
        /\ g.prefixes = f.prefixes /\ g.sib = f.sib /\ ("use" \in g.rex => "use" \in f.rex)
    BY <2>1, <2>2, <2>3 DEF Unaddressed
  <2>5. DispSize(g) <= DispSize(f)
    BY <2>4, DispSame
  <2>6. ImmSize(g) = 1 /\ ImmSize(f) \in {2, 4}
    BY <2>4, ImmSizes
  <2>7. flag(g.modrm.use) + ImmSize(g) <= flag(f.modrm.use) + ImmSize(f)
    BY <2>6, flagIs
  <2>8. Unaddressed(g)
    BY <2>1, <2>4 DEF Unaddressed
  <2>9. Len(g.escape) <= Len(f.escape)
    BY <2>1, <2>4, FormedIs
  <2>10. g.imm.size \in {0} \cup Sizes
    BY <2>4, SomeSizes
  <2>11. Shorter(f, g)
    BY <2>3, <2>4, <2>5, <2>7, <2>8, <2>9, <2>10, Reduced
  <2>12. OptimizeALU(f) = g
    BY <1>1, <1>3, <2>3, Zenon DEF OptimizeALU
  <2> QED
    BY <2>11, <2>12
<1> QED
  BY <1>2, <1>3

LEMMA OptimizeMov_ ==
    ASSUME NEW f, Encodable(f), f.imm.use, f.imm.size = 64
    PROVE  Shorter(f, OptimizeMov(f))
<1>1. PICK small, rex, m : /\ small = [f EXCEPT !.canOptimize = FALSE, !.imm.size = 32]
                           /\ rex = (f.rex \ {"w"}) \ (IF getReg[f.target].useREX THEN {} ELSE {"use"})
                           /\ m = [use |-> TRUE, mod |-> 3, reg |-> 0, rm |-> getReg[f.target].index]
  OBVIOUS
<1>2. OptimizeMov(f) \in {f, [small EXCEPT !.rex = rex], [small EXCEPT !.opcode = 199, !.modrm = m]}
  BY <1>1 DEF OptimizeMov
<1>3. Formed(f)
  BY DEF Encodable
<1>4. /\ Formed(small) /\ small.canOptimize = FALSE /\ small.target = f.target
      /\ small.prefixes = f.prefixes /\ small.sib = f.sib /\ small.disp = f.disp /\ small.am = f.am
      /\ small.modrm = f.modrm /\ small.rex = f.rex /\ small.escape = f.escape
      /\ small.imm.size = 32 /\ small.imm.use = f.imm.use
  BY <1>1, <1>3, FormedIs
<1>5. CASE OptimizeMov(f) = f
  BY <1>5 DEF Shorter
<1>6. CASE OptimizeMov(f) = [small EXCEPT !.rex = rex]
  <2>1. PICK g : g = [small EXCEPT !.rex = rex]
    OBVIOUS
  <2>2. /\ Formed(g) /\ g.canOptimize = FALSE /\ g.target = f.target
        /\ g.prefixes = f.prefixes /\ g.sib = f.sib /\ g.disp = f.disp /\ g.am = f.am
        /\ g.modrm = f.modrm /\ g.rex = rex /\ g.escape = f.escape
        /\ g.imm.size = 32 /\ g.imm.use = f.imm.use
    BY <1>4, <2>1, FormedIs
  <2>3. "use" \in g.rex => "use" \in f.rex
    BY <1>1, <2>2
  <2>4. ImmSize(g) = 4 /\ ImmSize(f) = 8
    BY <2>2, ImmSizes
  <2>5. Len(g.escape) <= Len(f.escape)
    BY <1>3, <2>2, FormedIs
  <2>6. g.imm.size \in {0} \cup Sizes /\ ImmSize(g) <= ImmSize(f)
    BY <2>2, <2>4, SomeSizes
  <2> QED
    BY <1>6, <2>1, <2>2, <2>3, <2>5, <2>6, Shortened
<1>7. CASE OptimizeMov(f) = [small EXCEPT !.opcode = 199, !.modrm = m]
  <2>1. PICK g : g = [small EXCEPT !.opcode = 199, !.modrm = m]
    OBVIOUS
  <2>2. /\ Formed(g) /\ g.canOptimize = FALSE /\ g.target = f.target
        /\ g.prefixes = f.prefixes /\ g.sib = f.sib /\ g.disp = f.disp /\ g.am = f.am
        /\ g.modrm.mod = 3 /\ g.rex = f.rex /\ g.escape = f.escape
        /\ g.imm.size = 32 /\ g.imm.use = f.imm.use
    BY <1>1, <1>4, <2>1, FormedIs, ZenonT(60)
  <2>3. DispSize(g) <= DispSize(f)
    BY <2>2, DispSame
  <2>4. ImmSize(g) = 4 /\ ImmSize(f) = 8
    BY <2>2, ImmSizes
  <2>5. flag(g.modrm.use) + ImmSize(g) <= flag(f.modrm.use) + ImmSize(f)
    BY <2>4, flagIs
  <2>6. g.target # "none" => Unaddressed(g)
    BY <2>2 DEF Encodable, Unaddressed
  <2>7. Len(g.escape) <= Len(f.escape)
    BY <1>3, <2>2, FormedIs
  <2>8. g.imm.size \in {0} \cup Sizes
    BY <2>2, SomeSizes
  <2> QED
    BY <1>7, <2>1, <2>2, <2>3, <2>5, <2>6, <2>7, <2>8, Reduced
<1> QED
  BY <1>2, <1>5, <1>6, <1>7

LEMMA OptimizeShift_ ==
    ASSUME NEW f, Encodable(f), f.imm.use
    PROVE  Shorter(f, OptimizeShift(f))
<1>1. PICK n, g : /\ g = [f EXCEPT !.canOptimize = FALSE, !.opcode = n, !.imm.use = FALSE]
                  /\ OptimizeShift(f) = f \/ OptimizeShift(f) = g
  BY DEF OptimizeShift
<1>2. Formed(f) /\ f.imm.size \in {0} \cup Sizes
  BY DEF Encodable
<1>3. /\ Formed(g) /\ g.canOptimize = FALSE /\ g.target = f.target
      /\ g.prefixes = f.prefixes /\ g.sib = f.sib /\ g.disp = f.disp /\ g.am = f.am
      /\ g.modrm = f.modrm /\ g.rex = f.rex /\ g.escape = f.escape
      /\ g.imm.size = f.imm.size /\ g.imm.use = FALSE
  BY <1>1, <1>2, FormedIs
<1>4. ImmSize(g) = 0 /\ ImmSize(f) \in 0..8
  BY <1>2, <1>3, ImmSizeIs DEF ImmSize
<1>5. ImmSize(g) <= ImmSize(f)
  BY <1>4
<1>6. Len(g.escape) <= Len(f.escape)
  BY <1>2, <1>3, FormedIs
<1>7. Shorter(f, g)
  BY <1>2, <1>3, <1>5, <1>6, Shortened
<1>8. Shorter(f, f)
  BY DEF Shorter
<1> QED
  BY <1>1, <1>7, <1>8

\* No mnemonic is of two kinds.
LEMMA Kinds ==
    ASSUME NEW mn
    PROVE  /\ mn \in JumpOps => mn \notin TwoArgumentOps /\ mn \notin ShiftOps /\ mn \notin {"IMUL", "PUSH", "MOV"}
           /\ mn \in TwoArgumentOps => mn \notin ShiftOps /\ mn \notin {"IMUL", "PUSH", "MOV"}
           /\ mn \in ShiftOps => mn \notin {"IMUL", "PUSH", "MOV"}
<1>1. JumpOps = {"JMP", "JE", "JNE", "JG", "JGE", "JL", "JLE", "JA", "JAE", "JB", "JBE", "JO", "JNO", "JS", "JNS",
                 "JP", "JNP", "JC", "JNC"}
  BY DEF JumpOps, CC
<1>2. TwoArgumentOps = {"ADD", "OR", "ADC", "SBB", "AND", "SUB", "XOR", "CMP", "TEST"}
  BY DEF TwoArgumentOps, ALU
<1> QED
  BY <1>1, <1>2 DEF ShiftOps

LEMMA optimizeS_ ==
    ASSUME NEW f, Encodable(f)
    PROVE  Shorter(f, optimizeS(f))
<1>1. CASE ~(f.canOptimize /\ Known(f))
  <2>1. optimizeS(f) = f
    BY <1>1 DEF optimizeS
  <2> QED
    BY <2>1 DEF Shorter
<1>2. CASE f.canOptimize /\ Known(f)
  <2>0. Shorter(f, f)
    BY DEF Shorter
  <2>1. f.imm.use /\ Permits(f.mn, f.imm.size, f.target)
    BY <1>2 DEF Encodable, Known
  <2>2. PICK ready : (ready <=> f.canOptimize /\ Known(f)) /\ ready
    BY <1>2
  <2>3. CASE f.mn \in JumpOps
    <3>1. f.mn \notin TwoArgumentOps /\ f.mn \notin ShiftOps /\ f.mn \notin {"IMUL", "PUSH", "MOV"}
      BY <2>3, Kinds
    <3>2. optimizeS(f) = f \/ optimizeS(f) = OptimizeJump(f)
      BY <1>2, <2>3, <3>1 DEF optimizeS
    <3>3. f.imm.size \in {16, 32}
      BY <2>1, <3>1 DEF Permits
    <3> QED
      BY <2>0, <2>1, <3>2, <3>3, OptimizeJump_
  <2>4. CASE f.mn \in TwoArgumentOps
    <3>1. f.mn \notin JumpOps /\ f.mn \notin ShiftOps /\ f.mn \notin {"IMUL", "PUSH", "MOV"}
      BY <2>4, Kinds
    <3>2. optimizeS(f) = f \/ optimizeS(f) = OptimizeALU(f)
      BY <1>2, <2>4, <3>1 DEF optimizeS
    <3>3. f.imm.size \in {16, 32} /\ f.target \in {"none"} \cup Accumulators
      BY <2>1, <3>1 DEF Permits
    <3> QED
      BY <2>0, <2>1, <3>2, <3>3, OptimizeALU_
  <2>5. CASE f.mn = "IMUL"
    <3>1. f.mn \notin JumpOps /\ f.mn \notin TwoArgumentOps /\ f.mn \notin ShiftOps
      BY <2>5, Kinds
    <3>2. \E n : optimizeS(f) = f \/ optimizeS(f) = ByteImm(f, n)
      BY <1>2, <2>5, <3>1 DEF optimizeS
    <3>3. f.imm.size \in {8, 16, 32}
      BY <2>1, <2>5, <3>1 DEF Permits
    <3> QED
      BY <2>0, <2>1, <3>2, <3>3, ShortImm
  <2>6. CASE f.mn = "PUSH"
    <3>1. f.mn \notin JumpOps /\ f.mn \notin TwoArgumentOps /\ f.mn \notin ShiftOps
      BY <2>6, Kinds
    <3>2. \E n : optimizeS(f) = f \/ optimizeS(f) = ByteImm(f, n)
      BY <1>2, <2>6, <3>1 DEF optimizeS
    <3>3. f.imm.size \in {8, 16, 32}
      BY <2>1, <2>6, <3>1 DEF Permits
    <3> QED
      BY <2>0, <2>1, <3>2, <3>3, ShortImm
  <2>7. CASE f.mn = "MOV"
    <3>1. f.mn \notin JumpOps /\ f.mn \notin TwoArgumentOps /\ f.mn \notin ShiftOps
      BY <2>7, Kinds
    <3>2. optimizeS(f) = OptimizeMov(f)
      BY <1>2, <2>7, <3>1 DEF optimizeS
    <3>3. f.imm.size = 64
      BY <2>1, <2>7, <3>1 DEF Permits
    <3> QED
      BY <2>1, <3>2, <3>3, OptimizeMov_
  <2>8. CASE f.mn \in ShiftOps
    <3>1. f.mn \notin JumpOps /\ f.mn \notin TwoArgumentOps /\ f.mn \notin {"IMUL", "PUSH", "MOV"}
      BY <2>8, Kinds
    <3>2. optimizeS(f) = OptimizeShift(f)
      BY <1>2, <2>8, <3>1 DEF optimizeS
    <3> QED
      BY <2>1, <3>2, OptimizeShift_
  <2> QED
    BY <2>1, <2>3, <2>4, <2>5, <2>6, <2>7, <2>8 DEF Permits
<1> QED
  BY <1>1, <1>2

LEMMA ShorterTrans ==
    ASSUME NEW f, NEW g, NEW h, size(f) \in Int, size(g) \in Int, size(h) \in Int, Shorter(f, g), Shorter(g, h)
    PROVE  Shorter(f, h)
  BY DEF Shorter

LEMMA sizeIs ==
    ASSUME NEW f, Encodable(f)
    PROVE  size(f) \in Int
<1>1. Formed(f) /\ f.imm.size \in {0} \cup Sizes
  BY DEF Encodable
<1>2. PICK n \in Nat, r, s, u, v \in 0..1 : Measured(f, f, n, r, s, u, v)
  BY <1>1, Sizing
<1>3. PICK lf \in Int, df \in Int, mf \in Int : lf = Len(f.escape) /\ df = DispSize(f) /\ mf = ImmSize(f)
  <2>1. Len(f.escape) \in Int /\ DispSize(f) \in Int /\ ImmSize(f) \in Int
    BY <1>1, FormedIs, DispSizeIs, ImmSizeIs
  <2> QED
    BY <2>1
<1>4. size(f) = n + lf + r + u + df + mf
  BY <1>2, <1>3 DEF Measured
<1> QED
  BY <1>4

\* optimize() neither hides the object nor makes it longer.
LEMMA optimize_ ==
    ASSUME NEW f, Encodable(f)
    PROVE  Shorter(f, optimize(f))
<1>1. PICK g, h : g = shortenDisplacement(f) /\ h = optimizeS(g) /\ h = optimize(f)
  BY DEF optimize
<1>2. Shorter(f, g) /\ Encodable(g)
  BY <1>1, shortenDisplacement_ DEF Shorter
<1>3. Shorter(g, h) /\ Encodable(h)
  BY <1>1, <1>2, optimizeS_ DEF Shorter
<1>4. size(f) \in Int /\ size(g) \in Int /\ size(h) \in Int
  BY <1>2, <1>3, sizeIs
<1> QED
  BY <1>1, <1>2, <1>3, <1>4, ShorterTrans

\* A value that is filled in changes neither the size nor what may be shortened.
LEMMA evaluateFields_ ==
    ASSUME NEW f, Encodable(f), NEW vs
    PROVE  Encodable(evaluateFields(f, vs)) /\ size(evaluateFields(f, vs)) = size(f)
<1>1. ASSUME NEW g, Encodable(g), NEW v
      PROVE  /\ Encodable(evaluateDisp(g, v)) /\ size(evaluateDisp(g, v)) = size(g)
             /\ Encodable(evaluateImm(g, v)) /\ size(evaluateImm(g, v)) = size(g)
  <2>1. Formed(g)
    BY <1>1 DEF Encodable
  <2>2. Encodable(evaluateDisp(g, v)) /\ size(evaluateDisp(g, v)) = size(g)
    <3>1. PICK h : h = evaluateDisp(g, v)
      OBVIOUS
    <3>2. /\ Formed(h) /\ h.imm = g.imm /\ h.canOptimize = g.canOptimize /\ h.mn = g.mn /\ h.target = g.target
          /\ h.prefixes = g.prefixes /\ h.rex = g.rex /\ h.escape = g.escape /\ h.sib = g.sib /\ h.am = g.am
          /\ h.modrm = g.modrm /\ h.disp.use = g.disp.use /\ h.disp.short = g.disp.short
      BY <2>1, <3>1, FormedIs DEF evaluateDisp
    <3>3. Encodable(h)
      BY <1>1, <3>2 DEF Encodable, Unaddressed
    <3>4. DispSize(h) = DispSize(g)
      BY <3>2 DEF DispSize
    <3>5. size(h) = size(g)
      BY <3>2, <3>4 DEF size
    <3> QED
      BY <3>1, <3>3, <3>5
  <2>3. Encodable(evaluateImm(g, v)) /\ size(evaluateImm(g, v)) = size(g)
    <3>1. PICK h : h = evaluateImm(g, v)
      OBVIOUS
    <3>2. /\ Formed(h) /\ h.imm.use = g.imm.use /\ h.imm.size = g.imm.size
          /\ h.canOptimize = g.canOptimize /\ h.mn = g.mn /\ h.target = g.target
          /\ h.prefixes = g.prefixes /\ h.rex = g.rex /\ h.escape = g.escape /\ h.sib = g.sib /\ h.am = g.am
          /\ h.modrm = g.modrm /\ h.disp = g.disp
      BY <2>1, <3>1, FormedIs DEF evaluateImm
    <3>3. Encodable(h)
      BY <1>1, <3>2 DEF Encodable, Unaddressed
    <3>4. DispSize(h) = DispSize(g)
      BY <3>2 DEF DispSize
    <3>5. size(h) = size(g)
      BY <3>2, <3>4 DEF size
    <3> QED
      BY <3>1, <3>3, <3>5
  <2> QED
    BY <2>2, <2>3
<1>2. PICK d : d = IF f.disp.use THEN evaluateDisp(f, vs[1]) ELSE f
  OBVIOUS
<1>3. Encodable(d) /\ size(d) = size(f)
  BY <1>1, <1>2
<1>4. evaluateFields(f, vs) = d \/ \E v : evaluateFields(f, vs) = evaluateImm(d, v)
  BY <1>2 DEF evaluateFields
<1> QED
  BY <1>1, <1>3, <1>4

-----------------------------------------------------------------------------
(* Sequences of any elements *)

Row(s) == s \in Seq(Elems(s))

LEMMA RowIs ==
    ASSUME NEW s, Row(s)
    PROVE  Len(s) \in Nat /\ DOMAIN s = 1..Len(s)
  BY DEF Row

LEMMA EmptyRow == Row(<<>>) /\ Len(<<>>) = 0 /\ DOMAIN <<>> = {}
  BY DEF Row, Elems

LEMMA AppendRow ==
    ASSUME NEW s, Row(s), NEW e
    PROVE  LET t == Append(s, e)
           IN  /\ Row(t) /\ Len(t) = Len(s) + 1 /\ DOMAIN t = 1..Len(s) + 1
               /\ \A k \in 1..Len(s) : t[k] = s[k]
               /\ t[Len(s) + 1] = e
<1>1. PICK S : S = Elems(s) \cup {e}
  OBVIOUS
<1>2. s \in Seq(S) /\ e \in S
  <2>1. s \in [1..Len(s) -> Elems(s)] /\ Len(s) \in Nat
    BY DEF Row
  <2>2. s \in [1..Len(s) -> S]
    BY <1>1, <2>1
  <2> QED
    BY <1>1, <2>1, <2>2
<1>3. PICK t : t = Append(s, e)
  OBVIOUS
<1>4. /\ t \in Seq(S) /\ Len(t) = Len(s) + 1 /\ DOMAIN t = 1..Len(t)
      /\ \A k \in 1..Len(s) : t[k] = s[k]
      /\ t[Len(s) + 1] = e
  BY <1>2, <1>3
<1>5. t \in Seq(Elems(t))
  <2>1. t = [k \in 1..Len(t) |-> t[k]] /\ Len(t) \in Nat
    BY <1>4
  <2>2. \A k \in 1..Len(t) : t[k] \in Elems(t)
    BY <1>4 DEF Elems
  <2> QED
    BY <2>1, <2>2
<1> QED
  BY <1>3, <1>4, <1>5 DEF Row

LEMMA ConcatRow ==
    ASSUME NEW s, NEW t, Row(s), Row(t)
    PROVE  LET u == s \o t
           IN  /\ Row(u) /\ Len(u) = Len(s) + Len(t) /\ DOMAIN u = 1..(Len(s) + Len(t))
               /\ \A k \in 1..Len(s) : u[k] = s[k]
               /\ \A k \in 1..Len(t) : u[Len(s) + k] = t[k]
<1>1. PICK S : S = Elems(s) \cup Elems(t)
  OBVIOUS
<1>2. s \in Seq(S) /\ t \in Seq(S)
  <2>1. s \in [1..Len(s) -> Elems(s)] /\ Len(s) \in Nat /\ t \in [1..Len(t) -> Elems(t)] /\ Len(t) \in Nat
    BY DEF Row
  <2>2. s \in [1..Len(s) -> S] /\ t \in [1..Len(t) -> S]
    BY <1>1, <2>1
  <2> QED
    BY <2>1, <2>2
<1>3. PICK u : u = s \o t
  OBVIOUS
<1>4. /\ u \in Seq(S) /\ Len(u) = Len(s) + Len(t) /\ DOMAIN u = 1..Len(u)
      /\ Len(s) \in Nat /\ Len(t) \in Nat
  BY <1>2, <1>3
<1>5. \A k \in 1..Len(s) : u[k] = s[k]
  BY <1>2, <1>3
<1>6. ASSUME NEW k \in 1..Len(t)
      PROVE  u[Len(s) + k] = t[k]
  BY <1>2, <1>3, <1>4, <1>6, ConcatProperties
<1>7. u \in Seq(Elems(u))
  <2>1. u = [k \in 1..Len(u) |-> u[k]] /\ Len(u) \in Nat
    BY <1>4
  <2>2. \A k \in 1..Len(u) : u[k] \in Elems(u)
    BY <1>4 DEF Elems
  <2> QED
    BY <2>1, <2>2
<1> QED
  BY <1>3, <1>4, <1>5, <1>6, <1>7 DEF Row

-----------------------------------------------------------------------------
(* What Initialize() makes of the parsed sections *)

\* An entry of a section, whose instruction has its fields.
Laid(e) ==
    \/ e.k = "instr" /\ DOMAIN e = {"k", "i", "f", "line"} /\ Encodable(e.f)
    \/ e.k = "data" /\ DOMAIN e = {"k", "width", "values", "bytes", "relocs", "line"}
    \/ e.k \in {"res", "label", "const"}

SectionKept(sec) ==
    /\ DOMAIN sec = {"name", "align", "isInitialized", "entries", "buffer", "reservedSize"}
    /\ \A k \in DOMAIN sec.entries : Laid(sec.entries[k])

Kept(secs) == \A j \in DOMAIN secs : SectionKept(secs[j])

\* The encoder as far as it is built.
Built(s) ==
    /\ DOMAIN s = {"ok", "sections", "labels", "constants", "symbols"}
    /\ Row(s.sections)
    /\ \A j \in DOMAIN s.sections : SectionKept(s.sections[j]) /\ Row(s.sections[j].entries)

\* An entry as the parser hands it over.
Parsed(e) ==
    /\ e.k \in {"instr", "data", "res", "label", "const", "align", "times"}
    /\ e.k = "instr" => Wellformed(e.i)

LEMMA NumberedIs ==
    ASSUME NEW entry, NEW n
    PROVE  /\ DOMAIN Numbered(entry, n) = DOMAIN entry \cup {"line"}
           /\ Numbered(entry, n).line = n
           /\ \A x \in DOMAIN entry : x # "line" => Numbered(entry, n)[x] = entry[x]
  BY DEF Numbered

LEMMA Replaced ==
    ASSUME NEW s, Row(s), NEW j \in DOMAIN s, NEW x
    PROVE  LET t == [s EXCEPT ![j] = x]
           IN  /\ Row(t) /\ DOMAIN t = DOMAIN s /\ Len(t) = Len(s) /\ t[j] = x
               /\ \A k \in DOMAIN s : k # j => t[k] = s[k]
<1>1. PICK t : t = [s EXCEPT ![j] = x]
  OBVIOUS
<1>2. Len(s) \in Nat /\ DOMAIN s = 1..Len(s)
  BY RowIs
<1>3. DOMAIN t = 1..Len(s) /\ t[j] = x /\ \A k \in DOMAIN s : k # j => t[k] = s[k]
  BY <1>1, <1>2
<1>4. t \in [1..Len(s) -> Elems(t)]
  <2>1. t = [k \in 1..Len(s) |-> t[k]]
    BY <1>1, <1>2
  <2>2. \A k \in 1..Len(s) : t[k] \in Elems(t)
    BY <1>3 DEF Elems
  <2> QED
    BY <2>1, <2>2
<1>5. Row(t) /\ Len(t) = Len(s)
  <2>1. t \in Seq(Elems(t))
    BY <1>2, <1>4
  <2> QED
    BY <1>2, <1>3, <2>1, RowIs DEF Row
<1> QED
  BY <1>1, <1>2, <1>3, <1>5

LEMMA Add_ ==
    ASSUME NEW s, Built(s), NEW j \in DOMAIN s.sections, NEW e, NEW entry, NEW ok,
           ok => Laid(Numbered(entry, e.line))
    PROVE  LET t == Add(s, j, e, entry, ok)
           IN  t.ok => Built(t) /\ DOMAIN t.sections = DOMAIN s.sections /\ Len(t.sections) = Len(s.sections)
<1>1. PICK t : t = Add(s, j, e, entry, ok)
  OBVIOUS
<1>2. PICK l, es, sec, secs : /\ l = Numbered(entry, e.line) /\ es = Append(s.sections[j].entries, l)
                              /\ sec = [s.sections[j] EXCEPT !.entries = es]
                              /\ secs = [s.sections EXCEPT ![j] = sec]
  OBVIOUS
<1>3. DOMAIN t = DOMAIN s /\ t.sections = secs /\ (t.ok => ok)
  <2>1. DOMAIN s = {"ok", "sections", "labels", "constants", "symbols"}
    BY DEF Built
  <2>2. t = [s EXCEPT !.sections = secs, !.ok = @ /\ ok]
    BY <1>1, <1>2, Zenon DEF Add
  <2> QED
    BY <2>1, <2>2
<1>4. SUFFICES ASSUME t.ok PROVE Built(t) /\ DOMAIN secs = DOMAIN s.sections /\ Len(secs) = Len(s.sections)
  BY <1>1, <1>3
<1>5. Laid(l)
  BY <1>2, <1>3, <1>4
<1>6. SectionKept(s.sections[j]) /\ Row(s.sections[j].entries) /\ Row(s.sections)
  BY DEF Built
<1>7. /\ Row(es) /\ DOMAIN es = 1..Len(s.sections[j].entries) + 1
      /\ \A k \in 1..Len(s.sections[j].entries) : es[k] = s.sections[j].entries[k]
      /\ es[Len(s.sections[j].entries) + 1] = l
      /\ Len(s.sections[j].entries) \in Nat /\ DOMAIN s.sections[j].entries = 1..Len(s.sections[j].entries)
  BY <1>2, <1>6, AppendRow, RowIs
<1>8. \A k \in DOMAIN es : Laid(es[k])
  BY <1>5, <1>6, <1>7 DEF SectionKept
<1>9. DOMAIN sec = DOMAIN s.sections[j] /\ sec.entries = es
  BY <1>2, <1>6 DEF SectionKept
<1>10. SectionKept(sec) /\ Row(sec.entries)
  BY <1>6, <1>7, <1>8, <1>9 DEF SectionKept
<1>11. /\ Row(secs) /\ DOMAIN secs = DOMAIN s.sections /\ Len(secs) = Len(s.sections) /\ secs[j] = sec
       /\ \A k \in DOMAIN s.sections : k # j => secs[k] = s.sections[k]
  BY <1>2, <1>6, Replaced
<1> QED
  BY <1>3, <1>10, <1>11 DEF Built

\* t is s with one more entry at most, unless it is refused.
Grown(s, t) == t.ok => Built(t) /\ DOMAIN t.sections = DOMAIN s.sections /\ Len(t.sections) = Len(s.sections)

LEMMA Named ==
    ASSUME NEW s, Built(s), NEW j \in DOMAIN s.sections, NEW e, e.k \in {"label", "const"}, NEW known
    PROVE  LET t == AddSymbol(s, j, e, known)
           IN  DOMAIN t = DOMAIN s /\ Grown(s, t)
<1>1. PICK c : c = (e.name \notin known)
  OBVIOUS
<1>2. PICK entry : entry = [k |-> e.k, name |-> e.name]
  OBVIOUS
<1>3. PICK u : u = Add(s, j, e, entry, c)
  OBVIOUS
<1>4. Laid(Numbered(entry, e.line))
  <2>1. Numbered(entry, e.line).k = e.k
    BY <1>2 DEF Numbered
  <2> QED
    BY <2>1 DEF Laid
<1>5. DOMAIN u = DOMAIN s /\ Grown(s, u)
  <2>1. Grown(s, u)
    BY <1>3, <1>4, Add_ DEF Grown
  <2>2. DOMAIN u = DOMAIN s
    BY <1>3 DEF Add
  <2> QED
    BY <2>1, <2>2
<1>6. AddSymbol(s, j, e, known) = [u EXCEPT !.symbols = Append(@, entry)]
  BY <1>1, <1>2, <1>3, Zenon DEF AddSymbol
<1>7. PICK t : t = [u EXCEPT !.symbols = Append(@, entry)]
  OBVIOUS
<1>8. DOMAIN s = {"ok", "sections", "labels", "constants", "symbols"}
  BY DEF Built
<1>9. DOMAIN t = DOMAIN s /\ t.ok = u.ok /\ t.sections = u.sections
  BY <1>5, <1>7, <1>8
<1>10. Grown(s, t)
  BY <1>5, <1>8, <1>9 DEF Grown, Built
<1> QED
  BY <1>6, <1>7, <1>9, <1>10

LEMMA Read_ ==
    ASSUME NEW s, Built(s), NEW j \in DOMAIN s.sections, NEW e, Parsed(e)
    PROVE  Grown(s, Read(s, j, e))
<1>0. PICK l : l = e.line
  OBVIOUS
<1>1. CASE e.k = "instr"
  <2>1. PICK f, entry : f = GetInstruction(e.i) /\ entry = [k |-> "instr", i |-> e.i, f |-> f]
    OBVIOUS
  <2>2. Read(s, j, e) = Add(s, j, e, entry, f.ok)
    BY <1>1, <2>1 DEF Read, AddInstruction
  <2>3. f.ok => Encodable(f)
    BY <1>1, <2>1, GetInstruction_ DEF Parsed
  <2>4. PICK n : n = Numbered(entry, l)
    OBVIOUS
  <2>5. n.k = "instr" /\ n.f = f /\ DOMAIN n = {"k", "i", "f", "line"}
    BY <2>1, <2>4 DEF Numbered
  <2>6. f.ok => Laid(n)
    BY <2>3, <2>5 DEF Laid
  <2> QED
    BY <1>0, <2>2, <2>4, <2>6, Add_ DEF Grown
<1>2. CASE e.k = "data"
  <2>1. PICK entry, c : /\ entry = [k |-> "data", width |-> e.width, values |-> e.values, bytes |-> <<>>, relocs |-> <<>>]
                        /\ c = (e.width \in {1, 2, 4, 8} /\ <<>> \notin Elems(e.values))
    OBVIOUS
  <2>2. Read(s, j, e) = Add(s, j, e, entry, c)
    BY <1>2, <2>1 DEF Read
  <2>3. PICK n : n = Numbered(entry, l)
    OBVIOUS
  <2>4. n.k = "data" /\ DOMAIN n = {"k", "width", "values", "bytes", "relocs", "line"}
    BY <2>1, <2>3 DEF Numbered
  <2>5. Laid(n)
    BY <2>4 DEF Laid
  <2> QED
    BY <1>0, <2>2, <2>3, <2>5, Add_ DEF Grown
<1>3. CASE e.k = "res"
  <2>1. PICK v : Read(s, j, e) = AddReservation(s, j, e, Reservation(e, v))
    BY <1>3 DEF Read, Reserved
  <2>2. PICK r, c : r = [k |-> "res", bytes |-> e.width * v.n] /\ c = (v.ok /\ ~v.useOffset /\ v.n >= 0)
    OBVIOUS
  <2>3. Reservation(e, v) = [entry |-> r, ok |-> c]
    BY <2>2, Zenon DEF Reservation
  <2>4. Read(s, j, e) = Add(s, j, e, r, c)
    BY <2>1, <2>3 DEF AddReservation
  <2>5. Numbered(r, l).k = "res"
    BY <2>2 DEF Numbered
  <2>6. Laid(Numbered(r, l))
    BY <2>5 DEF Laid
  <2> QED
    BY <1>0, <2>4, <2>6, Add_ DEF Grown
<1>4. CASE e.k \in {"label", "const"}
  <2>1. PICK t, x : /\ DOMAIN t = DOMAIN s /\ Grown(s, t)
                    /\ \/ Read(s, j, e) = [t EXCEPT !.labels = x @@ @]
                       \/ Read(s, j, e) = [t EXCEPT !.constants = x @@ @]
    <3>1. CASE e.k = "label"
      <4>1. PICK t, x : t = AddSymbol(s, j, e, DOMAIN s.labels) /\ x = (e.name :> newLabel(e, s.sections[j].name))
        OBVIOUS
      <4>2. Read(s, j, e) = [t EXCEPT !.labels = x @@ @]
        BY <3>1, <4>1 DEF Read
      <4>3. DOMAIN t = DOMAIN s /\ Grown(s, t)
        BY <1>4, <4>1, Named
      <4> QED
        BY <4>2, <4>3
    <3>2. CASE e.k = "const"
      <4>1. PICK t, x : t = AddSymbol(s, j, e, DOMAIN s.constants) /\ x = (e.name :> newConstant(e, s.sections[j].name))
        OBVIOUS
      <4>2. Read(s, j, e) = [t EXCEPT !.constants = x @@ @]
        BY <3>2, <4>1 DEF Read
      <4>3. DOMAIN t = DOMAIN s /\ Grown(s, t)
        BY <1>4, <4>1, Named
      <4> QED
        BY <4>2, <4>3
    <3> QED
      BY <1>4, <3>1, <3>2
  <2>2. DOMAIN t = {"ok", "sections", "labels", "constants", "symbols"}
    BY <2>1 DEF Built
  <2>3. PICK u : u = Read(s, j, e)
    OBVIOUS
  <2>4. DOMAIN u = DOMAIN t /\ u.ok = t.ok /\ u.sections = t.sections
    BY <2>1, <2>2, <2>3
  <2> QED
    BY <2>1, <2>2, <2>3, <2>4 DEF Grown, Built
<1>5. CASE e.k \in {"align", "times"}
  <2>1. Read(s, j, e) = [s EXCEPT !.ok = FALSE]
    BY <1>5 DEF Read
  <2>2. ~[s EXCEPT !.ok = FALSE].ok
    BY DEF Built
  <2> QED
    BY <2>1, <2>2 DEF Grown
<1> QED
  BY <1>1, <1>2, <1>3, <1>4, <1>5 DEF Parsed

\* The fold over the entries of a section.
ReadNext(t, e) == IF t.ok THEN Read(t, Len(t.sections), e) ELSE t

\* The part of a set of places that FoldLeft has still to see.
Unseen(S) == S \ {Max(S)}

LEMMA MaxIs ==
    ASSUME NEW m \in Nat, NEW S, S \subseteq 1..m + 1, m + 1 \in S
    PROVE  Max(S) = m + 1
<1>1. \A y \in S : m + 1 >= y
  OBVIOUS
<1>2. \E x \in S : \A y \in S : x >= y
  BY <1>1
<1>3. PICK x \in S : x = Max(S) /\ \A y \in S : x >= y
  BY <1>2 DEF Max
<1>4. x \in Int /\ x >= m + 1 /\ m + 1 >= x
  BY <1>3
<1> QED
  BY <1>3, <1>4

LEMMA UnseenIs ==
    ASSUME NEW m \in Nat
    PROVE  /\ Max(1..m + 1) = m + 1
           /\ Unseen(1..m + 1) = 1..m
           /\ \A S \in SUBSET (1..m) : Unseen(S) \in SUBSET (1..m)
           /\ \A S \in SUBSET (1..m + 1) : m + 1 \in S => Unseen(S) \in SUBSET (1..m) /\ Max(S) = m + 1
<1>1. Max(1..m + 1) = m + 1
  BY MaxIs
<1>2. Unseen(1..m + 1) = 1..m
  BY <1>1 DEF Unseen
<1>3. ASSUME NEW S \in SUBSET (1..m + 1), m + 1 \in S
      PROVE  Unseen(S) \in SUBSET (1..m) /\ Max(S) = m + 1
  <2>1. Max(S) = m + 1
    BY <1>3, MaxIs
  <2> QED
    BY <2>1 DEF Unseen
<1>4. \A S \in SUBSET (1..m) : Unseen(S) \in SUBSET (1..m)
  BY DEF Unseen
<1> QED
  BY <1>1, <1>2, <1>3, <1>4

\* What the recursion of FoldLeft defines: the entries in S, read one by one.
ReadsEntries(f, D, base, seq) ==
    f = [S \in SUBSET D |-> IF S = {} THEN base ELSE ReadNext(f[Unseen(S)], seq[Max(S)])]

LEMMA EntriesReadable ==
    ASSUME NEW base, NEW seq, NEW n \in Nat
    PROVE  \E f : ReadsEntries(f, 1..n, base, seq)
<1> DEFINE T == {m \in Nat : \E f : ReadsEntries(f, 1..m, base, seq)}
<1>1. 0 \in T
  <2>1. PICK f : f = [S \in SUBSET (1..0) |-> base]
    OBVIOUS
  <2>2. \A S \in SUBSET (1..0) : S = {}
    OBVIOUS
  <2>3. f = [S \in SUBSET (1..0) |-> IF S = {} THEN base ELSE ReadNext(f[Unseen(S)], seq[Max(S)])]
    BY <2>1, <2>2
  <2> QED
    BY <2>3 DEF ReadsEntries
<1>2. ASSUME NEW m \in Nat, m \in T
      PROVE  m + 1 \in T
  <2>1. PICK f : ReadsEntries(f, 1..m, base, seq)
    BY <1>2
  <2>2. PICK g : g = [S \in SUBSET (1..m + 1) |->
                         IF m + 1 \in S THEN ReadNext(f[Unseen(S)], seq[m + 1]) ELSE f[S]]
    OBVIOUS
  <2>3. ASSUME NEW S \in SUBSET (1..m)
        PROVE  g[S] = f[S]
    BY <2>2
  <2>4. ASSUME NEW S \in SUBSET (1..m + 1)
        PROVE  g[S] = IF S = {} THEN base ELSE ReadNext(g[Unseen(S)], seq[Max(S)])
    <3>1. CASE m + 1 \in S
      <4>1. Unseen(S) \in SUBSET (1..m) /\ Max(S) = m + 1
        BY <3>1, UnseenIs
      <4>2. g[S] = ReadNext(f[Unseen(S)], seq[m + 1])
        BY <2>2, <3>1
      <4>3. g[Unseen(S)] = f[Unseen(S)]
        BY <2>3, <4>1
      <4> QED
        BY <3>1, <4>1, <4>2, <4>3
    <3>2. CASE m + 1 \notin S
      <4>1. S \in SUBSET (1..m) /\ g[S] = f[S]
        BY <2>3, <3>2
      <4>2. f[S] = IF S = {} THEN base ELSE ReadNext(f[Unseen(S)], seq[Max(S)])
        BY <2>1, <4>1, Zenon DEF ReadsEntries
      <4>3. Unseen(S) \in SUBSET (1..m)
        BY <4>1, UnseenIs
      <4>4. g[Unseen(S)] = f[Unseen(S)]
        BY <2>3, <4>3
      <4> QED
        BY <4>1, <4>2, <4>4
    <3> QED
      BY <3>1, <3>2
  <2>5. g = [S \in SUBSET (1..m + 1) |-> IF S = {} THEN base ELSE ReadNext(g[Unseen(S)], seq[Max(S)])]
    BY <2>2, <2>4
  <2> QED
    BY <2>5 DEF ReadsEntries
<1> QED
  <2>1. Nat \subseteq T
    <3> HIDE DEF T
    <3> QED
      BY <1>1, <1>2, SetInduction
  <2> QED
    BY <2>1

LEMMA EntriesRead ==
    ASSUME NEW base, NEW seq, Row(seq)
    PROVE  \E f : /\ ReadsEntries(f, 1..Len(seq), base, seq)
                  /\ FoldLeft(LAMBDA t, e : IF t.ok THEN Read(t, Len(t.sections), e) ELSE t, base, seq)
                       = f[1..Len(seq)]
<1>1. Len(seq) \in Nat /\ DOMAIN seq = 1..Len(seq)
  BY RowIs
<1>2. PICK f : f = CHOOSE g : g = [S \in SUBSET (DOMAIN seq) |->
                                      IF S = {} THEN base
                                      ELSE IF g[S \ {Max(S)}].ok
                                           THEN Read(g[S \ {Max(S)}], Len(g[S \ {Max(S)}].sections), seq[Max(S)])
                                           ELSE g[S \ {Max(S)}]]
  OBVIOUS
<1>3. f = CHOOSE g : ReadsEntries(g, DOMAIN seq, base, seq)
  BY <1>2, Zenon DEF ReadsEntries, ReadNext, Unseen
<1>4. ReadsEntries(f, 1..Len(seq), base, seq)
  BY <1>1, <1>3, EntriesReadable
<1>5. FoldLeft(LAMBDA t, e : IF t.ok THEN Read(t, Len(t.sections), e) ELSE t, base, seq) = f[DOMAIN seq]
  BY <1>2, Zenon DEF FoldLeft, MapThenFoldSet
<1> QED
  BY <1>1, <1>4, <1>5

\* A section as the parser hands it over.
ParsedEntries(es) == Row(es) /\ \A k \in DOMAIN es : Parsed(es[k])

Opening(parsed) ==
    [name |-> parsed.name, align |-> 0, isInitialized |-> parsed.name # ".bss",
     entries |-> <<>>, buffer |-> <<>>, reservedSize |-> 0]

LEMMA Opened_ ==
    ASSUME NEW s, Built(s), NEW parsed
    PROVE  LET t == [s EXCEPT !.sections = Append(@, Opening(parsed))]
           IN  Built(t) /\ Len(t.sections) > 0
<1>1. PICK o : o = Opening(parsed)
  OBVIOUS
<1>2. /\ DOMAIN o = {"name", "align", "isInitialized", "entries", "buffer", "reservedSize"}
      /\ o.entries = <<>>
  BY <1>1 DEF Opening
<1>3. SectionKept(o) /\ Row(o.entries)
  BY <1>2, EmptyRow DEF SectionKept
<1>4. PICK secs : secs = Append(s.sections, o)
  OBVIOUS
<1>5. /\ Row(s.sections) /\ Len(s.sections) \in Nat /\ DOMAIN s.sections = 1..Len(s.sections)
      /\ \A j \in DOMAIN s.sections : SectionKept(s.sections[j]) /\ Row(s.sections[j].entries)
  BY RowIs DEF Built
<1>6. /\ Row(secs) /\ Len(secs) = Len(s.sections) + 1 /\ DOMAIN secs = 1..Len(s.sections) + 1
      /\ \A k \in 1..Len(s.sections) : secs[k] = s.sections[k]
      /\ secs[Len(s.sections) + 1] = o
  BY <1>4, <1>5, AppendRow
<1>7. \A j \in DOMAIN secs : SectionKept(secs[j]) /\ Row(secs[j].entries)
  BY <1>3, <1>5, <1>6
<1>8. PICK t : t = [s EXCEPT !.sections = secs]
  OBVIOUS
<1>9. DOMAIN t = DOMAIN s /\ t.sections = secs
  BY <1>8 DEF Built
<1>10. Built(t) /\ Len(t.sections) > 0
  BY <1>5, <1>6, <1>7, <1>9 DEF Built
<1> QED
  BY <1>1, <1>4, <1>8, <1>10

LEMMA ReadSection_ ==
    ASSUME NEW s, Built(s), NEW parsed, ParsedEntries(parsed.entries)
    PROVE  ReadSection(s, parsed).ok => Built(ReadSection(s, parsed))
<1> DEFINE es == parsed.entries
           base == [s EXCEPT !.sections = Append(@, Opening(parsed))]
           Good(t) == t.ok => Built(t) /\ Len(t.sections) > 0
<1>1. Row(es) /\ Len(es) \in Nat /\ DOMAIN es = 1..Len(es) /\ \A k \in DOMAIN es : Parsed(es[k])
  BY RowIs DEF ParsedEntries
<1>2. PICK f : /\ ReadsEntries(f, 1..Len(es), base, es)
               /\ FoldLeft(LAMBDA t, e : IF t.ok THEN Read(t, Len(t.sections), e) ELSE t, base, es) = f[1..Len(es)]
  <2> HIDE DEF es, base
  <2> QED
    BY <1>1, EntriesRead
<1>3. ReadSection(s, parsed) = f[1..Len(es)]
  BY <1>2, Zenon DEF ReadSection, Opening
<1>4. Good(base)
  BY Opened_
<1> HIDE DEF base, es
<1>5. ASSUME NEW t, Good(t), NEW e, Parsed(e)
      PROVE  Good(ReadNext(t, e))
  <2>1. CASE ~t.ok
    BY <1>5, <2>1 DEF ReadNext
  <2>2. CASE t.ok
    <3>1. Built(t) /\ Len(t.sections) > 0
      BY <1>5, <2>2
    <3>2. Len(t.sections) \in DOMAIN t.sections
      BY <3>1, RowIs DEF Built
    <3>3. PICK u : u = Read(t, Len(t.sections), e) /\ ReadNext(t, e) = u
      BY <2>2 DEF ReadNext
    <3>4. Grown(t, u)
      BY <1>5, <3>1, <3>2, <3>3, Read_
    <3> QED
      BY <3>1, <3>3, <3>4 DEF Grown
  <2> QED
    BY <2>1, <2>2
<1> DEFINE T == {m \in Nat : m <= Len(es) => Good(f[1..m])}
<1>6. 0 \in T
  <2>1. 1..0 \in SUBSET (1..Len(es)) /\ 1..0 = {}
    BY <1>1
  <2>2. f[1..0] = base
    BY <1>2, <2>1 DEF ReadsEntries
  <2> QED
    BY <1>4, <2>2
<1>7. ASSUME NEW m \in Nat, m \in T
      PROVE  m + 1 \in T
  <2> SUFFICES ASSUME m + 1 <= Len(es) PROVE Good(f[1..m + 1])
    OBVIOUS
  <2>1. 1..m + 1 \in SUBSET (1..Len(es)) /\ 1..m + 1 # {} /\ m + 1 \in DOMAIN es
    BY <1>1
  <2>2. Unseen(1..m + 1) = 1..m /\ Max(1..m + 1) = m + 1
    BY UnseenIs
  <2>3. f[1..m + 1] = ReadNext(f[1..m], es[m + 1])
    BY <1>2, <2>1, <2>2 DEF ReadsEntries
  <2>4. Good(f[1..m]) /\ Parsed(es[m + 1])
    BY <1>1, <1>7, <2>1
  <2> HIDE DEF Good
  <2> QED
    BY <1>5, <2>3, <2>4
<1>8. Nat \subseteq T
  <2> HIDE DEF T
  <2> QED
    BY <1>6, <1>7, SetInduction
<1> QED
  BY <1>1, <1>3, <1>8

SectionNext(s, parsed) == IF s.ok THEN ReadSection(s, parsed) ELSE s

ReadsSections(f, D, base, seq) ==
    f = [S \in SUBSET D |-> IF S = {} THEN base ELSE SectionNext(f[Unseen(S)], seq[Max(S)])]

LEMMA SectionsReadable ==
    ASSUME NEW base, NEW seq, NEW n \in Nat
    PROVE  \E f : ReadsSections(f, 1..n, base, seq)
<1> DEFINE T == {m \in Nat : \E f : ReadsSections(f, 1..m, base, seq)}
<1>1. 0 \in T
  <2>1. PICK f : f = [S \in SUBSET (1..0) |-> base]
    OBVIOUS
  <2>2. \A S \in SUBSET (1..0) : S = {}
    OBVIOUS
  <2>3. f = [S \in SUBSET (1..0) |-> IF S = {} THEN base ELSE SectionNext(f[Unseen(S)], seq[Max(S)])]
    BY <2>1, <2>2
  <2> QED
    BY <2>3 DEF ReadsSections
<1>2. ASSUME NEW m \in Nat, m \in T
      PROVE  m + 1 \in T
  <2>1. PICK f : ReadsSections(f, 1..m, base, seq)
    BY <1>2
  <2>2. PICK g : g = [S \in SUBSET (1..m + 1) |->
                         IF m + 1 \in S THEN SectionNext(f[Unseen(S)], seq[m + 1]) ELSE f[S]]
    OBVIOUS
  <2>3. ASSUME NEW S \in SUBSET (1..m)
        PROVE  g[S] = f[S]
    BY <2>2
  <2>4. ASSUME NEW S \in SUBSET (1..m + 1)
        PROVE  g[S] = IF S = {} THEN base ELSE SectionNext(g[Unseen(S)], seq[Max(S)])
    <3>1. CASE m + 1 \in S
      <4>1. Unseen(S) \in SUBSET (1..m) /\ Max(S) = m + 1
        BY <3>1, UnseenIs
      <4>2. g[S] = SectionNext(f[Unseen(S)], seq[m + 1])
        BY <2>2, <3>1
      <4>3. g[Unseen(S)] = f[Unseen(S)]
        BY <2>3, <4>1
      <4> QED
        BY <3>1, <4>1, <4>2, <4>3
    <3>2. CASE m + 1 \notin S
      <4>1. S \in SUBSET (1..m) /\ g[S] = f[S]
        BY <2>3, <3>2
      <4>2. f[S] = IF S = {} THEN base ELSE SectionNext(f[Unseen(S)], seq[Max(S)])
        BY <2>1, <4>1, Zenon DEF ReadsSections
      <4>3. Unseen(S) \in SUBSET (1..m)
        BY <4>1, UnseenIs
      <4>4. g[Unseen(S)] = f[Unseen(S)]
        BY <2>3, <4>3
      <4> QED
        BY <4>1, <4>2, <4>4
    <3> QED
      BY <3>1, <3>2
  <2>5. g = [S \in SUBSET (1..m + 1) |-> IF S = {} THEN base ELSE SectionNext(g[Unseen(S)], seq[Max(S)])]
    BY <2>2, <2>4
  <2> QED
    BY <2>5 DEF ReadsSections
<1> QED
  <2>1. Nat \subseteq T
    <3> HIDE DEF T
    <3> QED
      BY <1>1, <1>2, SetInduction
  <2> QED
    BY <2>1

\* All sections are read into an encoder whose instructions have their fields.
LEMMA AllRead ==
    ASSUME NEW base, Built(base), NEW seq, Row(seq), \A j \in DOMAIN seq : ParsedEntries(seq[j].entries)
    PROVE  LET s == FoldLeft(LAMBDA s, parsed : IF s.ok THEN ReadSection(s, parsed) ELSE s, base, seq)
           IN  s.ok => Built(s)
<1>1. Len(seq) \in Nat /\ DOMAIN seq = 1..Len(seq)
  BY RowIs
<1>2. PICK f : f = CHOOSE g : g = [S \in SUBSET (DOMAIN seq) |->
                                      IF S = {} THEN base
                                      ELSE IF g[S \ {Max(S)}].ok THEN ReadSection(g[S \ {Max(S)}], seq[Max(S)])
                                           ELSE g[S \ {Max(S)}]]
  OBVIOUS
<1>3. f = CHOOSE g : ReadsSections(g, DOMAIN seq, base, seq)
  BY <1>2, Zenon DEF ReadsSections, SectionNext, Unseen
<1>4. ReadsSections(f, 1..Len(seq), base, seq)
  BY <1>1, <1>3, SectionsReadable
<1>5. FoldLeft(LAMBDA s, parsed : IF s.ok THEN ReadSection(s, parsed) ELSE s, base, seq) = f[DOMAIN seq]
  BY <1>2, Zenon DEF FoldLeft, MapThenFoldSet
<1> DEFINE Good(t) == t.ok => Built(t)
           T == {m \in Nat : m <= Len(seq) => Good(f[1..m])}
<1>6. ASSUME NEW t, Good(t), NEW parsed, ParsedEntries(parsed.entries)
      PROVE  Good(SectionNext(t, parsed))
  BY <1>6, ReadSection_ DEF SectionNext
<1>7. 0 \in T
  <2>1. 1..0 \in SUBSET (1..Len(seq)) /\ 1..0 = {}
    BY <1>1
  <2>2. f[1..0] = base
    BY <1>4, <2>1 DEF ReadsSections
  <2> QED
    BY <2>2
<1>8. ASSUME NEW m \in Nat, m \in T
      PROVE  m + 1 \in T
  <2> SUFFICES ASSUME m + 1 <= Len(seq) PROVE Good(f[1..m + 1])
    OBVIOUS
  <2>1. 1..m + 1 \in SUBSET (1..Len(seq)) /\ 1..m + 1 # {} /\ m + 1 \in DOMAIN seq
    BY <1>1
  <2>2. Unseen(1..m + 1) = 1..m /\ Max(1..m + 1) = m + 1
    BY UnseenIs
  <2>3. f[1..m + 1] = SectionNext(f[1..m], seq[m + 1])
    BY <1>4, <2>1, <2>2 DEF ReadsSections
  <2>4. Good(f[1..m]) /\ ParsedEntries(seq[m + 1].entries)
    BY <1>8, <2>1
  <2> HIDE DEF Good
  <2> QED
    BY <1>6, <2>3, <2>4
<1>9. Nat \subseteq T
  <2> HIDE DEF T
  <2> QED
    BY <1>7, <1>8, SetInduction
<1>10. Good(f[DOMAIN seq])
  BY <1>1, <1>9
<1> QED
  BY <1>5, <1>10, Zenon

-----------------------------------------------------------------------------
(* What the parser makes of a line *)

LEMMA Mnemonic_ ==
    ASSUME NEW mn, mn \in Mnemonics \cup DOMAIN Aliases
    PROVE  Mnemonic(mn) \in Mnemonics
<1>1. CASE mn \in DOMAIN Aliases
  <2>1. Aliases[mn] \in {"JE", "JNE", "JG", "JGE", "JL", "JLE", "JA", "JAE", "JB", "JBE", "JP", "JNP", "INT1"}
    BY <1>1 DEF Aliases
  <2>2. {"JE", "JNE", "JG", "JGE", "JL", "JLE", "JA", "JAE", "JB", "JBE", "JP", "JNP"} \subseteq JumpOps
    BY DEF JumpOps, CC
  <2>3. "INT1" \in DOMAIN Plain
    BY DEF Plain
  <2>4. Aliases[mn] \in JumpOps \/ Aliases[mn] \in DOMAIN Plain
    BY <2>1, <2>2, <2>3
  <2> QED
    BY <1>1, <2>4 DEF Mnemonic, Mnemonics
<1>2. CASE mn \notin DOMAIN Aliases
  BY <1>2 DEF Mnemonic
<1> QED
  BY <1>1, <1>2

LEMMA StackGrammar ==
    ASSUME NEW mn, mn \in {"PUSH", "POP"}
    PROVE  Grammar(mn) = {<<"reg">>, <<"mem">>} \cup {<<"imm">>}
<1>1. /\ mn \notin DOMAIN CC \cup {"JMP", "CALL", "RET", "NOP", "HLT"}
      /\ mn \notin {"INT", "INT1", "INT3", "INTO"} /\ mn \notin {"AAA", "AAD", "AAM", "AAS"}
  BY DEF CC
<1>2. mn # "MOV" /\ mn \notin TwoArgumentOps /\ mn \notin {"ADCX", "ADOX"} /\ mn # "IMUL"
      /\ mn \notin {"MUL", "DIV", "IDIV", "NOT", "NEG", "INC", "DEC"} /\ mn \notin ShiftOps
  BY DEF TwoArgumentOps, ALU, ShiftOps
<1>3. mn \in DOMAIN StackOps \cup {"PUSH", "POP"}
  OBVIOUS
<1>4. Grammar(mn) = stackOperands(mn)
  BY <1>1, <1>2, <1>3 DEF Grammar
<1> QED
  BY <1>4 DEF stackOperands, oneOperand

LEMMA DivideGrammar ==
    ASSUME NEW mn, mn \in {"MUL", "DIV", "IDIV"}
    PROVE  Grammar(mn) = {<<"reg">>, <<"mem">>}
<1>1. /\ mn \notin DOMAIN CC \cup {"JMP", "CALL", "RET", "NOP", "HLT"}
      /\ mn \notin {"INT", "INT1", "INT3", "INTO"} /\ mn \notin {"AAA", "AAD", "AAM", "AAS"}
  BY DEF CC
<1>2. mn \notin DOMAIN StackOps \cup {"PUSH", "POP"} /\ mn # "MOV" /\ mn \notin TwoArgumentOps
  BY DEF TwoArgumentOps, ALU, StackOps
<1>3. mn \notin {"ADCX", "ADOX"} /\ mn # "IMUL" /\ mn \notin ShiftOps
      /\ mn \in {"MUL", "DIV", "IDIV", "NOT", "NEG", "INC", "DEC"}
  BY DEF ShiftOps
<1>4. Grammar(mn) = oneOperand
  BY <1>1, <1>2, <1>3 DEF Grammar
<1> QED
  BY <1>4 DEF oneOperand

LEMMA parseOperand_ ==
    ASSUME NEW mn, mn \in {"PUSH", "POP"}, NEW op, op.k \in {"reg", "mem", "imm"}, NEW l
    PROVE  parseOperand(mn, op, l).op.k \in {"reg", "mem", "imm"}
<1>1. CASE op.k = "reg"
  <2>1. mn # "INT" /\ mn \notin DOMAIN CC
    BY DEF CC
  <2>2. parseOperand(mn, op, l) = [ok |-> TRUE, op |-> op]
    BY <1>1, <2>1 DEF parseOperand
  <2> QED
    BY <1>1, <2>2
<1>2. CASE op.k = "imm"
  <2>1. PICK o : o = [k |-> "imm", e |-> Immediate(op.e, l)]
    OBVIOUS
  <2>2. parseOperand(mn, op, l) = [ok |-> TRUE, op |-> o]
    BY <1>2, <2>1 DEF parseOperand
  <2> QED
    BY <2>1, <2>2
<1>3. CASE op.k = "mem"
  <2>1. parseOperand(mn, op, l) = parseMemoryOperand(op)
    BY <1>3 DEF parseOperand
  <2>2. PICK r1, s1, r2, s2, d, ok : parseMemoryOperand(op) =
          [ok |-> ok, op |-> IF ~ok THEN op ELSE [k |-> "mem", r1 |-> r1, s1 |-> s1, r2 |-> r2, s2 |-> s2,
                                                  disp |-> d, size |-> op.size]]
    <3>1. PICK regs, ok : /\ regs = registerTerms(op.terms) \o << <<"none", 0>>, <<"none", 0>> >>
                          /\ ok = termsAllowed(op.terms)
      OBVIOUS
    <3>2. parseMemoryOperand(op) =
             [ok |-> ok, op |-> IF ~ok THEN op ELSE [k |-> "mem", r1 |-> regs[1][1], s1 |-> regs[1][2],
                                                     r2 |-> regs[2][1], s2 |-> regs[2][2],
                                                     disp |-> displacement(op.terms), size |-> op.size]]
      BY <3>1, Zenon DEF parseMemoryOperand
    <3> QED
      BY <3>2
  <2> QED
    BY <1>3, <2>1, <2>2
<1> QED
  BY <1>1, <1>2, <1>3

LEMMA parseInstruction_ ==
    ASSUME NEW line, line.mn \in Mnemonics \cup DOMAIN Aliases, NEW bits, NEW l,
           parseInstruction(line, bits, l).ok
    PROVE  Wellformed(parseInstruction(line, bits, l).i)
<1>1. PICK mn, operands, shape, ops :
        /\ mn = Mnemonic(line.mn)
        /\ operands = [n \in DOMAIN line.ops |-> parseOperand(mn, line.ops[n], l)]
        /\ shape = [n \in DOMAIN line.ops |-> line.ops[n].k]
        /\ ops = [n \in DOMAIN operands |-> operands[n].op]
  OBVIOUS
<1>2. PICK i, ok : /\ i = [bits |-> bits, mn |-> mn,
                           ops |-> IF mn \in {"AAD", "AAM"} /\ ops = <<>> THEN << [k |-> "imm", e |-> <<Num(10)>>] >>
                                   ELSE ops]
                   /\ ok = (/\ shape \in Grammar(mn) /\ \A n \in DOMAIN operands : operands[n].ok
                            /\ mn \in ShiftOps /\ shape[2] = "reg" => ops[2].r = "CL")
  OBVIOUS
<1>3. parseInstruction(line, bits, l) = [ok |-> ok, i |-> i]
  BY <1>1, <1>2, Zenon DEF parseInstruction, InstructionOf
<1>4. parseInstruction(line, bits, l).ok = ok /\ parseInstruction(line, bits, l).i = i
  BY <1>3
<1>5. ok
  BY <1>4, Zenon
<1>6. shape \in Grammar(mn)
  BY <1>2, <1>5, Zenon
<1>7. i.mn = mn /\ mn \in Mnemonics
  BY <1>1, <1>2, Mnemonic_
<1>8. mn \in {"PUSH", "POP"} => i.ops[1].k \in {"reg", "mem", "imm"}
  <2> SUFFICES ASSUME mn \in {"PUSH", "POP"} PROVE i.ops[1].k \in {"reg", "mem", "imm"}
    OBVIOUS
  <2>1. shape \in {<<"reg">>, <<"mem">>} \cup {<<"imm">>}
    BY <1>6, StackGrammar
  <2>2. 1 \in DOMAIN shape /\ shape[1] \in {"reg", "mem", "imm"}
    BY <2>1
  <2>3. 1 \in DOMAIN line.ops /\ line.ops[1].k \in {"reg", "mem", "imm"}
    BY <1>1, <2>2
  <2>4. operands[1] = parseOperand(mn, line.ops[1], l) /\ ops[1] = operands[1].op
    BY <1>1, <2>3
  <2>5. i.ops = ops
    BY <1>2
  <2> QED
    BY <2>3, <2>4, <2>5, parseOperand_
<1>9. mn \in {"MUL", "DIV", "IDIV"} => ~(Len(i.ops) > 1)
  <2> SUFFICES ASSUME mn \in {"MUL", "DIV", "IDIV"} PROVE ~(Len(i.ops) > 1)
    OBVIOUS
  <2>1. shape \in {<<"reg">>, <<"mem">>}
    BY <1>6, DivideGrammar
  <2>2. DOMAIN shape = 1..1
    BY <2>1
  <2>3. DOMAIN ops = 1..1
    BY <1>1, <2>2
  <2>4. ops \in Seq({ops[1]})
    <3>1. ops = [n \in 1..1 |-> ops[n]]
      BY <1>1, <2>3
    <3>2. \A n \in 1..1 : ops[n] \in {ops[1]}
      OBVIOUS
    <3>3. PICK S : S = {ops[1]}
      OBVIOUS
    <3>4. PICK m \in Nat : m = 1
      OBVIOUS
    <3>5. ops \in [1..m -> S]
      BY <3>1, <3>2, <3>3, <3>4
    <3> QED
      BY <3>3, <3>5
  <2>5. Len(ops) = 1
    BY <2>3, <2>4
  <2>6. i.ops = ops
    BY <1>2
  <2> QED
    BY <2>5, <2>6
<1> QED
  BY <1>4, <1>7, <1>8, <1>9 DEF Wellformed

-----------------------------------------------------------------------------
(* What the passes make of an entry *)

\* A pass of the evaluation keeps an entry and its size.
LEMMA evaluateEntry_ ==
    ASSUME NEW e, Laid(e), NEW vs
    PROVE  /\ Laid(evaluateEntry(e, vs))
           /\ entrySize(evaluateEntry(e, vs)) = entrySize(e)
<1>1. CASE e.k = "instr"
  <2>1. PICK f, g : f = e.f /\ g = evaluateFields(f, vs)
    OBVIOUS
  <2>2. DOMAIN e = {"k", "i", "f", "line"} /\ Encodable(f)
    BY <1>1, <2>1 DEF Laid
  <2>3. Encodable(g) /\ size(g) = size(f)
    BY <2>1, <2>2, evaluateFields_
  <2>4. PICK n : n = [e EXCEPT !.f = g]
    OBVIOUS
  <2>5. evaluateEntry(e, vs) = n
    BY <1>1, <2>1, <2>4 DEF evaluateEntry
  <2>6. DOMAIN n = {"k", "i", "f", "line"} /\ n.k = "instr" /\ n.f = g
    BY <1>1, <2>2, <2>4
  <2>7. entrySize(n) = size(g) /\ entrySize(e) = size(f)
    BY <1>1, <2>1, <2>6 DEF entrySize
  <2> QED
    BY <2>3, <2>5, <2>6, <2>7 DEF Laid
<1>2. CASE e.k = "data"
  <2>1. DOMAIN e = {"k", "width", "values", "bytes", "relocs", "line"}
    BY <1>2 DEF Laid
  <2>2. PICK b, r : evaluateData(e, vs) = [e EXCEPT !.bytes = b, !.relocs = r]
    BY Zenon DEF evaluateData
  <2>3. PICK n : n = [e EXCEPT !.bytes = b, !.relocs = r]
    OBVIOUS
  <2>4. evaluateEntry(e, vs) = n
    BY <1>2, <2>2, <2>3 DEF evaluateEntry
  <2>5. DOMAIN n = DOMAIN e /\ n.k = "data" /\ n.width = e.width /\ n.values = e.values
    BY <1>2, <2>1, <2>3
  <2>6. entrySize(n) = n.width * Len(n.values) /\ entrySize(e) = e.width * Len(e.values)
    BY <1>2, <2>5 DEF entrySize
  <2>7. Laid(n)
    BY <2>1, <2>5 DEF Laid
  <2> QED
    BY <2>4, <2>5, <2>6, <2>7
<1>3. CASE e.k \in {"res", "label", "const"}
  <2>1. e.k # "instr" /\ e.k # "data"
    BY <1>3
  <2>2. evaluateEntry(e, vs) = e
    BY <2>1 DEF evaluateEntry
  <2> QED
    BY <2>2
<1> QED
  BY <1>1, <1>2, <1>3 DEF Laid

ShortEntry(e) == IF e.k = "instr" THEN [e EXCEPT !.f = optimize(@)] ELSE e

\* A pass of the optimization keeps an entry, which gets no longer.
LEMMA ShortEntry_ ==
    ASSUME NEW e, Laid(e)
    PROVE  Laid(ShortEntry(e)) /\ Shrinks(e, ShortEntry(e))
<1>1. CASE e.k = "instr"
  <2>1. PICK f, g : f = e.f /\ g = optimize(f)
    OBVIOUS
  <2>2. DOMAIN e = {"k", "i", "f", "line"} /\ Encodable(f)
    BY <1>1, <2>1 DEF Laid
  <2>3. Shorter(f, g)
    BY <2>1, <2>2, optimize_
  <2>4. PICK n : n = [e EXCEPT !.f = g]
    OBVIOUS
  <2>5. ShortEntry(e) = n
    BY <1>1, <2>1, <2>4 DEF ShortEntry
  <2>6. DOMAIN n = {"k", "i", "f", "line"} /\ n.k = "instr" /\ n.f = g
    BY <1>1, <2>2, <2>4
  <2>7. entrySize(n) = size(g) /\ entrySize(e) = size(f)
    BY <1>1, <2>1, <2>6 DEF entrySize
  <2> QED
    BY <2>3, <2>5, <2>6, <2>7 DEF Laid, Shrinks, Shorter
<1>2. CASE e.k # "instr"
  <2>1. ShortEntry(e) = e
    BY <1>2 DEF ShortEntry
  <2> QED
    BY <2>1 DEF Shrinks
<1> QED
  BY <1>1, <1>2

\* The entries of a section in another form.
LEMMA EntriesFor ==
    ASSUME NEW sec, SectionKept(sec), NEW es, DOMAIN es = DOMAIN sec.entries,
           \A k \in DOMAIN es : Laid(es[k])
    PROVE  LET s == [sec EXCEPT !.entries = es]
           IN  SectionKept(s) /\ s.entries = es
<1>1. PICK s : s = [sec EXCEPT !.entries = es]
  OBVIOUS
<1>2. DOMAIN s = DOMAIN sec /\ s.entries = es
  BY <1>1 DEF SectionKept
<1> QED
  BY <1>1, <1>2 DEF SectionKept

\* Sections whose entries are, one by one, no longer than they were.
Lessened(old, new) ==
    /\ Kept(new)
    /\ DOMAIN new = DOMAIN old
    /\ \A j \in DOMAIN old :
          /\ DOMAIN new[j].entries = DOMAIN old[j].entries
          /\ \A k \in DOMAIN old[j].entries : Shrinks(old[j].entries[k], new[j].entries[k])

LEMMA LessenedPlaces ==
    ASSUME NEW old, NEW new, Lessened(old, new)
    PROVE  \A p \in Places(old) : Shrinks(Entry(old, p), Entry(new, p))
<1> TAKE p \in Places(old)
<1>1. PICK j \in DOMAIN old : p \in {j} \X DOMAIN old[j].entries
  BY DEF Places
<1>2. p[1] = j /\ p[2] \in DOMAIN old[j].entries
  BY <1>1
<1> QED
  BY <1>2 DEF Lessened, Entry

LEMMA LessenedBy ==
    ASSUME NEW old, Kept(old), NEW new, DOMAIN new = DOMAIN old,
           \A j \in DOMAIN old :
              /\ DOMAIN new[j] = DOMAIN old[j]
              /\ DOMAIN new[j].entries = DOMAIN old[j].entries
              /\ \A k \in DOMAIN old[j].entries : /\ Laid(new[j].entries[k])
                                                  /\ Shrinks(old[j].entries[k], new[j].entries[k])
    PROVE  Lessened(old, new)
  BY DEF Lessened, Kept, SectionKept

-----------------------------------------------------------------------------
(* What the phases make of the sections *)

LEMMA EvaluationLessens ==
    ASSUME Kept(sections), EvaluationPhase
    PROVE  Lessened(sections, sections')
<1>1. PICK values : Evaluated(values)
  BY Zenon DEF EvaluationPhase
<1>2. PICK ok : sections' = IF ~ok THEN sections
                            ELSE [j \in DOMAIN sections |->
                                    [sections[j] EXCEPT !.entries =
                                        [k \in DOMAIN @ |-> evaluateEntry(@[k], values[j][k])]]]
  BY <1>1, Zenon DEF Evaluated
<1>3. CASE ~ok
  <2>1. sections' = sections
    BY <1>2, <1>3, Zenon
  <2> QED
    BY <2>1 DEF Lessened, Shrinks
<1>4. CASE ok
  <2>1. sections' = [j \in DOMAIN sections |->
                       [sections[j] EXCEPT !.entries =
                          [k \in DOMAIN @ |-> evaluateEntry(@[k], values[j][k])]]]
    BY <1>2, <1>4, Zenon
  <2>2. DOMAIN sections' = DOMAIN sections
    BY <2>1, Zenon
  <2>3. ASSUME NEW j \in DOMAIN sections
        PROVE  /\ DOMAIN sections'[j] = DOMAIN sections[j]
               /\ DOMAIN sections'[j].entries = DOMAIN sections[j].entries
               /\ \A k \in DOMAIN sections[j].entries : /\ Laid(sections'[j].entries[k])
                                                        /\ Shrinks(sections[j].entries[k], sections'[j].entries[k])
    <3>1. PICK sec : sec = sections[j]
      OBVIOUS
    <3>2. SectionKept(sec)
      BY <3>1 DEF Kept
    <3>3. PICK es : es = [k \in DOMAIN sec.entries |-> evaluateEntry(sec.entries[k], values[j][k])]
      OBVIOUS
    <3>4. DOMAIN es = DOMAIN sec.entries
      BY <3>3
    <3>5. \A k \in DOMAIN es : Laid(es[k]) /\ Shrinks(sec.entries[k], es[k])
      BY <3>2, <3>3, evaluateEntry_ DEF SectionKept, Shrinks
    <3>6. sections'[j] = [sec EXCEPT !.entries = es]
      BY <2>1, <3>1, <3>3, Zenon
    <3>7. DOMAIN sections'[j] = DOMAIN sec /\ sections'[j].entries = es
      BY <3>2, <3>6 DEF SectionKept
    <3> QED
      BY <3>1, <3>4, <3>5, <3>7
  <2> QED
    BY <2>2, <2>3, LessenedBy
<1> QED
  BY <1>3, <1>4

LEMMA OptimizationLessens ==
    ASSUME Kept(sections), OptimizationPhase
    PROVE  Lessened(sections, sections')
<1>1. PICK ok : sections' = IF ok THEN [j \in DOMAIN sections |->
                                          [sections[j] EXCEPT !.entries =
                                             [k \in DOMAIN @ |-> ShortEntry(@[k])]]]
                            ELSE sections
  BY Zenon DEF OptimizationPhase, ShortEntry
<1>2. CASE ~ok
  <2>1. sections' = sections
    BY <1>1, <1>2, Zenon
  <2> QED
    BY <2>1 DEF Lessened, Shrinks
<1>3. CASE ok
  <2>1. sections' = [j \in DOMAIN sections |->
                       [sections[j] EXCEPT !.entries =
                          [k \in DOMAIN @ |-> ShortEntry(@[k])]]]
    BY <1>1, <1>3, Zenon
  <2>2. DOMAIN sections' = DOMAIN sections
    BY <2>1, Zenon
  <2>3. ASSUME NEW j \in DOMAIN sections
        PROVE  /\ DOMAIN sections'[j] = DOMAIN sections[j]
               /\ DOMAIN sections'[j].entries = DOMAIN sections[j].entries
               /\ \A k \in DOMAIN sections[j].entries : /\ Laid(sections'[j].entries[k])
                                                        /\ Shrinks(sections[j].entries[k], sections'[j].entries[k])
    <3>1. PICK sec : sec = sections[j]
      OBVIOUS
    <3>2. SectionKept(sec)
      BY <3>1 DEF Kept
    <3>3. PICK es : es = [k \in DOMAIN sec.entries |-> ShortEntry(sec.entries[k])]
      OBVIOUS
    <3>4. DOMAIN es = DOMAIN sec.entries
      BY <3>3
    <3>5. \A k \in DOMAIN es : Laid(es[k]) /\ Shrinks(sec.entries[k], es[k])
      BY <3>2, <3>3, ShortEntry_ DEF SectionKept
    <3>6. sections'[j] = [sec EXCEPT !.entries = es]
      BY <2>1, <3>1, <3>3, Zenon DEF ShortEntry
    <3>7. DOMAIN sections'[j] = DOMAIN sec /\ sections'[j].entries = es
      BY <3>2, <3>6 DEF SectionKept
    <3> QED
      BY <3>1, <3>4, <3>5, <3>7
  <2> QED
    BY <2>2, <2>3, LessenedBy
<1> QED
  BY <1>2, <1>3

\* Buffers and alignments leave the entries alone.
LEMMA EntriesAlone ==
    ASSUME Kept(sections), DOMAIN sections' = DOMAIN sections,
           \A j \in DOMAIN sections : /\ DOMAIN sections'[j] = DOMAIN sections[j]
                                      /\ sections'[j].entries = sections[j].entries
    PROVE  Lessened(sections, sections')
<1>1. \A j \in DOMAIN sections : \A k : Shrinks(sections[j].entries[k], sections[j].entries[k])
  BY DEF Shrinks
<1>2. PICK old, new : old = sections /\ new = sections'
  OBVIOUS
<1>3. \A j \in DOMAIN old : \A k \in DOMAIN old[j].entries : Laid(old[j].entries[k])
  BY <1>2 DEF Kept, SectionKept
<1>4. \A j \in DOMAIN old :
        /\ DOMAIN new[j] = DOMAIN old[j]
        /\ DOMAIN new[j].entries = DOMAIN old[j].entries
        /\ \A k \in DOMAIN old[j].entries : /\ Laid(new[j].entries[k])
                                            /\ Shrinks(old[j].entries[k], new[j].entries[k])
  BY <1>1, <1>2, <1>3
<1>5. Kept(old) /\ DOMAIN new = DOMAIN old
  BY <1>2
<1> QED
  BY <1>2, <1>4, <1>5, LessenedBy

LEMMA GenerationLessens ==
    ASSUME Kept(sections), GenerateCode
    PROVE  Lessened(sections, sections')
<1>1. sections' = [j \in DOMAIN sections |->
                       IF sections[j].isInitialized
                       THEN [sections[j] EXCEPT !.buffer =
                                FlattenSeq([k \in DOMAIN sections[j].entries |->
                                               entryBytes(sections[j].entries[k])])]
                       ELSE [sections[j] EXCEPT !.reservedSize = sectionSize(sections[j])]]
  BY Zenon DEF GenerateCode
<1>2. DOMAIN sections' = DOMAIN sections
  BY <1>1, Zenon
<1>3. ASSUME NEW j \in DOMAIN sections
      PROVE  /\ DOMAIN sections'[j] = DOMAIN sections[j]
             /\ sections'[j].entries = sections[j].entries
  <2>1. SectionKept(sections[j])
    BY DEF Kept
  <2>2. PICK x, n : /\ x = FlattenSeq([k \in DOMAIN sections[j].entries |-> entryBytes(sections[j].entries[k])])
                    /\ n = sectionSize(sections[j])
    OBVIOUS
  <2>3. \/ sections'[j] = [sections[j] EXCEPT !.buffer = x]
        \/ sections'[j] = [sections[j] EXCEPT !.reservedSize = n]
    BY <1>1, <2>2, Zenon
  <2> QED
    BY <2>1, <2>3 DEF SectionKept
<1> QED
  BY <1>2, <1>3, EntriesAlone

LEMMA AlignmentLessens ==
    ASSUME Kept(sections), setAlignments
    PROVE  Lessened(sections, sections')
<1>1. /\ DOMAIN sections' = DOMAIN sections
      /\ \A j \in DOMAIN sections : \E x : sections'[j] = [sections[j] EXCEPT !.align = x]
  BY Zenon DEF setAlignments
<1>2. \A j \in DOMAIN sections : /\ DOMAIN sections'[j] = DOMAIN sections[j]
                                 /\ sections'[j].entries = sections[j].entries
  BY <1>1 DEF Kept, SectionKept
<1> QED
  BY <1>1, <1>2, EntriesAlone

-----------------------------------------------------------------------------
(* The order of the statements *)

\* The lines that the entries of a section stand for.
Tags(es) == [k \in DOMAIN es |-> es[k].line]

LEMMA InOrderEmpty == InOrder(Tags(<<>>), {})
  BY EmptyRow DEF InOrder, Tags, Elems

\* An entry that stands for a later line is put behind.
LEMMA InOrderAppend ==
    ASSUME NEW es, Row(es), NEW S, S \subseteq Nat, InOrder(Tags(es), S),
           NEW n \in Nat, \A m \in S : m < n, NEW e, e.line = n
    PROVE  InOrder(Tags(Append(es, e)), S \cup {n})
<1>1. PICK t, len : t = Append(es, e) /\ len = Len(es)
  OBVIOUS
<1>2. /\ len \in Nat /\ DOMAIN es = 1..len /\ DOMAIN t = 1..len + 1
      /\ \A k \in 1..len : t[k] = es[k]
      /\ t[len + 1] = e
  BY <1>1, AppendRow, RowIs
<1>3. PICK a, b : a = Tags(es) /\ b = Tags(t)
  OBVIOUS
<1>4. /\ DOMAIN a = 1..len /\ DOMAIN b = 1..len + 1
      /\ \A k \in 1..len : b[k] = a[k]
      /\ b[len + 1] = n
  BY <1>2, <1>3 DEF Tags
<1>5. Elems(a) = S /\ \A k, l \in DOMAIN a : k < l => a[k] < a[l]
  BY <1>3 DEF InOrder
<1>6. Elems(b) = S \cup {n}
  <2>1. \A k \in 1..len + 1 : k \in 1..len \/ k = len + 1
    BY <1>2
  <2>2. \A k \in 1..len : k \in 1..len + 1
    BY <1>2
  <2>3. len + 1 \in 1..len + 1
    BY <1>2
  <2> QED
    BY <1>4, <1>5, <2>1, <2>2, <2>3 DEF Elems
<1>7. ASSUME NEW k \in 1..len + 1, NEW l \in 1..len + 1, k < l
      PROVE  b[k] < b[l]
  <2>1. k \in 1..len /\ b[k] = a[k] /\ a[k] \in S
    BY <1>2, <1>4, <1>5, <1>7 DEF Elems
  <2>2. CASE l = len + 1
    BY <1>4, <2>1, <2>2
  <2>3. CASE l \in 1..len
    BY <1>4, <1>5, <1>7, <2>1, <2>3
  <2> QED
    BY <1>2, <2>2, <2>3
<1> QED
  BY <1>1, <1>3, <1>4, <1>6, <1>7 DEF InOrder

\* Entries that stand for later lines are put behind.
LEMMA InOrderConcat ==
    ASSUME NEW es, Row(es), NEW S, InOrder(Tags(es), S),
           NEW fs, Row(fs), NEW T, InOrder(Tags(fs), T),
           \A m \in S, n \in T : m < n
    PROVE  InOrder(Tags(es \o fs), S \cup T)
<1>1. PICK t, p, q : t = es \o fs /\ p = Len(es) /\ q = Len(fs)
  OBVIOUS
<1>2. /\ p \in Nat /\ DOMAIN es = 1..p /\ q \in Nat /\ DOMAIN fs = 1..q /\ DOMAIN t = 1..(p + q)
      /\ \A k \in 1..p : t[k] = es[k]
      /\ \A k \in 1..q : t[p + k] = fs[k]
  BY <1>1, ConcatRow, RowIs
<1>3. PICK a, b, c : a = Tags(es) /\ b = Tags(fs) /\ c = Tags(t)
  OBVIOUS
<1>4. /\ DOMAIN a = 1..p /\ DOMAIN b = 1..q /\ DOMAIN c = 1..(p + q)
      /\ \A k \in 1..p : c[k] = a[k]
  BY <1>2, <1>3 DEF Tags
<1>5. \A k \in 1..q : c[p + k] = b[k]
  <2> TAKE k \in 1..q
  <2>1. p + k \in 1..(p + q)
    BY <1>2
  <2> QED
    BY <1>2, <1>3, <2>1 DEF Tags
<1>6. /\ Elems(a) = S /\ \A k, l \in DOMAIN a : k < l => a[k] < a[l]
      /\ Elems(b) = T /\ \A k, l \in DOMAIN b : k < l => b[k] < b[l]
  BY <1>3 DEF InOrder
<1>7. \A k \in 1..(p + q) : k \in 1..p \/ \E l \in 1..q : k = p + l
  <2> TAKE k \in 1..(p + q)
  <2>1. k > p => k - p \in 1..q /\ k = p + (k - p)
    BY <1>2
  <2> QED
    BY <1>2, <2>1
<1>8. \A k \in 1..p : k \in 1..(p + q)
  BY <1>2
<1>9. \A k \in 1..q : p + k \in 1..(p + q)
  BY <1>2
<1>10. Elems(c) = S \cup T
  <2>1. \A x \in Elems(c) : x \in S \cup T
    BY <1>4, <1>5, <1>6, <1>7 DEF Elems
  <2>2. \A x \in S : x \in Elems(c)
    BY <1>4, <1>6, <1>8 DEF Elems
  <2>3. \A x \in T : x \in Elems(c)
    BY <1>4, <1>5, <1>6, <1>9 DEF Elems
  <2> QED
    BY <2>1, <2>2, <2>3
<1>11. ASSUME NEW k \in 1..(p + q), NEW l \in 1..(p + q), k < l
       PROVE  c[k] < c[l]
  <2>1. CASE k \in 1..p /\ l \in 1..p
    BY <1>4, <1>6, <1>11, <2>1
  <2>2. CASE k \in 1..p /\ \E m \in 1..q : l = p + m
    <3>1. PICK m \in 1..q : l = p + m
      BY <2>2
    <3>2. c[k] \in S /\ c[l] \in T
      BY <1>4, <1>5, <1>6, <2>2, <3>1 DEF Elems
    <3> QED
      BY <3>2
  <2>3. CASE \E m \in 1..q : k = p + m
    <3>1. PICK m \in 1..q : k = p + m
      BY <2>3
    <3>2. l \notin 1..p
      BY <1>2, <1>11, <3>1
    <3>3. PICK n \in 1..q : l = p + n
      BY <1>7, <3>2
    <3>4. m < n
      BY <1>2, <1>11, <3>1, <3>3
    <3>5. b[m] < b[n]
      BY <1>4, <1>6, <3>4
    <3> QED
      BY <1>5, <3>1, <3>3, <3>5
  <2> QED
    BY <1>7, <2>1, <2>2, <2>3
<1> QED
  BY <1>1, <1>3, <1>4, <1>10, <1>11 DEF InOrder

-----------------------------------------------------------------------------
(* The section that is open at a line *)

\* A section directive stands in front of line n.
Headed(n) == \E m \in Lines({"section"}) : m < n

LEMMA LinesAre ==
    ASSUME prog \in Programs
    PROVE  Len(prog.lines) \in Nat /\ DOMAIN prog.lines = 1..Len(prog.lines)
<1>1. prog.lines \in Seq(Elems(prog.lines))
  BY ProgramAssumption
<1> QED
  BY <1>1

LEMMA StatementsAre ==
    ASSUME prog \in Programs
    PROVE  /\ Statements \subseteq 1..Len(prog.lines)
           /\ Lines({"section"}) \subseteq 1..Len(prog.lines)
           /\ Statements \cap Lines({"section"}) = {}
           /\ \A kinds : \A n \in Lines(kinds) : n \in 1..Len(prog.lines)
<1>1. DOMAIN prog.lines = 1..Len(prog.lines)
  BY LinesAre
<1>2. \A kinds : \A n \in Lines(kinds) : n \in 1..Len(prog.lines) /\ prog.lines[n].d \in kinds
  BY <1>1 DEF Lines
<1>3. \A n \in Statements : prog.lines[n].d \in {"label", "extern", "equ", "data", "res", "align", "times", "instr"}
  BY <1>2 DEF Statements
<1>4. \A n \in Lines({"section"}) : prog.lines[n].d = "section"
  BY <1>2
<1>5. Statements \cap Lines({"section"}) = {}
  BY <1>3, <1>4
<1>6. \A n \in Statements : n \in 1..Len(prog.lines)
  BY <1>2 DEF Statements
<1> QED
  BY <1>2, <1>5, <1>6

\* No other line opens a section.
LEMMA PlainLine ==
    ASSUME prog \in Programs, NEW n \in DOMAIN prog.lines, prog.lines[n].d # "section"
    PROVE  (Headed(n + 1) <=> Headed(n)) /\ SectionOf(n + 1) = SectionOf(n)
<1>1. n \in Nat /\ Lines({"section"}) \subseteq Nat
  BY LinesAre, StatementsAre
<1>2. n \notin Lines({"section"})
  BY DEF Lines
<1>3. \A m \in Lines({"section"}) : m < n + 1 <=> m < n
  BY <1>1, <1>2
<1>4. {m \in Lines({"section"}) : m < n + 1} = {m \in Lines({"section"}) : m < n}
  BY <1>3
<1>5. Before(n + 1, Lines({"section"})) = Before(n, Lines({"section"}))
  BY <1>4 DEF Before
<1> QED
  BY <1>3, <1>5 DEF Headed, SectionOf

LEMMA SectionLine ==
    ASSUME prog \in Programs, NEW n \in DOMAIN prog.lines, prog.lines[n].d = "section"
    PROVE  Headed(n + 1) /\ SectionOf(n + 1) = prog.lines[n].name
<1>1. n \in Nat /\ n >= 1 /\ Lines({"section"}) \subseteq Nat
  BY LinesAre, StatementsAre
<1>2. n \in Lines({"section"})
  BY DEF Lines
<1>3. PICK S : S = {0} \cup {m \in Lines({"section"}) : m < n + 1}
  OBVIOUS
<1>4. n \in S /\ \A y \in S : y \in Int /\ n >= y
  BY <1>1, <1>2, <1>3
<1>5. \E x \in S : \A y \in S : x >= y
  BY <1>4
<1>6. Max(S) \in S /\ \A y \in S : Max(S) >= y
  BY <1>5 DEF Max
<1>7. Max(S) = n
  BY <1>1, <1>4, <1>6
<1>8. Before(n + 1, Lines({"section"})) = n
  BY <1>3, <1>7 DEF Before
<1>9. Headed(n + 1)
  BY <1>1, <1>2 DEF Headed
<1> QED
  BY <1>1, <1>8, <1>9 DEF SectionOf

\* Nothing but .text is open in front of the first directive.
LEMMA Unheaded ==
    ASSUME prog \in Programs, NEW n \in Nat, ~Headed(n)
    PROVE  /\ SectionOf(n) = ".text"
           /\ \A m \in Nat : Headed(m) => n < m
<1>1. Lines({"section"}) \subseteq Nat
  BY StatementsAre
<1>2. {m \in Lines({"section"}) : m < n} = {}
  BY DEF Headed
<1>3. Max({0}) = 0
  BY DEF Max
<1>4. Before(n, Lines({"section"})) = 0
  BY <1>2, <1>3 DEF Before
<1> QED
  BY <1>1, <1>4 DEF Headed, SectionOf

-----------------------------------------------------------------------------
(* The parser in front of a line *)

Sectioned(secs) ==
    /\ Row(secs)
    /\ \A j \in DOMAIN secs : DOMAIN secs[j] = {"name", "entries"} /\ ParsedEntries(secs[j].entries)
    /\ \A j, l \in DOMAIN secs : secs[j].name = secs[l].name => j = l

\* The statements in front of line n: in the section of that name, in none.
Within(n, name) == {m \in Statements : m < n /\ Headed(m) /\ SectionOf(m) = name}
Outside(n) == {m \in Statements : m < n /\ ~Headed(m)}

\* Lines in front of line n stand in the sections and in implicit.
Sorted(n, secs, implicit) ==
    /\ \A j \in DOMAIN secs : InOrder(Tags(secs[j].entries), Within(n, secs[j].name))
    /\ InOrder(Tags(implicit), Outside(n))
    /\ \A m \in Statements : m < n /\ Headed(m) => \E j \in DOMAIN secs : secs[j].name = SectionOf(m)

\* The section that is open at line n.
Current(n, secs, current) ==
    /\ current \in 0..Len(secs)
    /\ current = 0 => secs = <<>> /\ ~Headed(n)
    /\ current # 0 => Headed(n) /\ secs[current].name = SectionOf(n)

Reading(p) ==
    /\ DOMAIN p = {"next", "globals", "sections", "current", "implicit", "lastMainLabel", "bits"}
    /\ p.next \in 1..Len(prog.lines) + 1
    /\ Sectioned(p.sections) /\ ParsedEntries(p.implicit)
    /\ Sorted(p.next, p.sections, p.implicit)
    /\ Current(p.next, p.sections, p.current)

\* What no statement is read into does not change the order.
LEMMA SortedOn ==
    ASSUME prog \in Programs, NEW n \in DOMAIN prog.lines, n \notin Statements
    PROVE  Outside(n + 1) = Outside(n) /\ \A name : Within(n + 1, name) = Within(n, name)
<1>1. n \in Nat /\ Statements \subseteq Nat
  BY LinesAre, StatementsAre
<1>2. \A m \in Statements : m < n + 1 <=> m < n
  BY <1>1
<1> QED
  BY <1>2 DEF Outside, Within

\* A statement is read into the section that is open, or into none.
LEMMA SortedWith ==
    ASSUME prog \in Programs, NEW n \in DOMAIN prog.lines, n \in Statements
    PROVE  /\ Outside(n + 1) = IF Headed(n) THEN Outside(n) ELSE Outside(n) \cup {n}
           /\ \A name : Within(n + 1, name) = IF Headed(n) /\ SectionOf(n) = name THEN Within(n, name) \cup {n}
                                              ELSE Within(n, name)
           /\ Outside(n) \subseteq Nat /\ \A m \in Outside(n) : m < n
           /\ \A name : Within(n, name) \subseteq Nat /\ \A m \in Within(n, name) : m < n
<1>1. n \in Nat /\ Statements \subseteq Nat
  BY LinesAre, StatementsAre
<1>2. \A m \in Statements : m < n + 1 <=> m < n \/ m = n
  BY <1>1
<1> QED
  BY <1>1, <1>2 DEF Outside, Within

\* What the parser does with an entry: it stands in its section from then on.
LEMMA AddEntry_ ==
    ASSUME prog \in Programs, NEW p, Reading(p), p.next \in Statements,
           NEW entry, "k" \in DOMAIN entry, Parsed(entry),
           entry.k = "instr" => "i" \in DOMAIN entry
    PROVE  /\ Reading(AddEntry(p, entry))
           /\ AddEntry(p, entry).next = p.next + 1
<1>1. PICK n, e, q, secs, c : /\ n = p.next /\ e = Numbered(entry, n) /\ q = AddEntry(p, entry)
                              /\ secs = p.sections /\ c = p.current
  OBVIOUS
<1>2. Parsed(e) /\ e.line = n
  <2>1. e.k = entry.k /\ (entry.k = "instr" => e.i = entry.i) /\ e.line = n
    BY <1>1 DEF Numbered
  <2> QED
    BY <2>1 DEF Parsed
<1>3. /\ n \in DOMAIN prog.lines /\ n \in Nat /\ n + 1 \in 1..Len(prog.lines) + 1
      /\ prog.lines[n].d # "section"
  <2>1. n \in 1..Len(prog.lines) /\ n \notin Lines({"section"})
    BY <1>1, StatementsAre
  <2> QED
    BY <2>1, LinesAre DEF Lines
<1>4. /\ Sectioned(secs) /\ ParsedEntries(p.implicit) /\ Sorted(n, secs, p.implicit) /\ Current(n, secs, c)
      /\ DOMAIN p = {"next", "globals", "sections", "current", "implicit", "lastMainLabel", "bits"}
  BY <1>1 DEF Reading
<1>5. (Headed(n + 1) <=> Headed(n)) /\ SectionOf(n + 1) = SectionOf(n)
  BY <1>3, PlainLine
<1>6. /\ Outside(n + 1) = IF Headed(n) THEN Outside(n) ELSE Outside(n) \cup {n}
      /\ \A name : Within(n + 1, name) = IF Headed(n) /\ SectionOf(n) = name THEN Within(n, name) \cup {n}
                                         ELSE Within(n, name)
      /\ Outside(n) \subseteq Nat /\ \A m \in Outside(n) : m < n
      /\ \A name : Within(n, name) \subseteq Nat /\ \A m \in Within(n, name) : m < n
  <2>1. n \in Statements
    BY <1>1
  <2> QED
    BY <1>3, <2>1, SortedWith
<1>7. ASSUME NEW es, ParsedEntries(es)
      PROVE  ParsedEntries(Append(es, e))
  <2>1. PICK t, len : t = Append(es, e) /\ len = Len(es)
    OBVIOUS
  <2>2. /\ Row(t) /\ DOMAIN t = 1..len + 1 /\ t[len + 1] = e /\ \A k \in 1..len : t[k] = es[k]
        /\ len \in Nat /\ DOMAIN es = 1..len
    BY <1>7, <2>1, AppendRow, RowIs DEF ParsedEntries
  <2>3. \A k \in 1..len + 1 : k \in 1..len \/ k = len + 1
    BY <2>2
  <2> QED
    BY <1>2, <1>7, <2>1, <2>2, <2>3 DEF ParsedEntries
<1>8. \A m \in Statements : m < n + 1 <=> m < n \/ m = n
  <2>1. \A m \in Statements : m \in Nat
    BY StatementsAre
  <2> QED
    BY <1>3, <2>1
<1>9. CASE c = 0
  <2>1. ~Headed(n) /\ secs = <<>>
    BY <1>4, <1>9 DEF Current
  <2>2. PICK im : im = Append(p.implicit, e)
    OBVIOUS
  <2>3. q = [p EXCEPT !.implicit = im, !.next = n + 1]
    BY <1>1, <1>9, <2>2, Zenon DEF AddEntry
  <2>4. /\ q.next = n + 1 /\ q.implicit = im /\ q.sections = secs /\ q.current = c
        /\ DOMAIN q = DOMAIN p
    BY <1>1, <1>4, <2>3
  <2>5. ParsedEntries(im)
    BY <1>4, <1>7, <2>2
  <2>6. InOrder(Tags(im), Outside(n + 1))
    <3>1. Row(p.implicit) /\ InOrder(Tags(p.implicit), Outside(n))
      BY <1>4 DEF ParsedEntries, Sorted
    <3>2. PICK S : S = Outside(n)
      OBVIOUS
    <3>3. Outside(n + 1) = S \cup {n} /\ S \subseteq Nat /\ \A m \in S : m < n
      BY <1>6, <2>1, <3>2
    <3>4. InOrder(Tags(Append(p.implicit, e)), S \cup {n})
      BY <1>2, <1>3, <3>1, <3>2, <3>3, InOrderAppend
    <3> QED
      BY <2>2, <3>3, <3>4
  <2>7. Sorted(n + 1, secs, im)
    <3>1. DOMAIN secs = {}
      BY <2>1
    <3>2. \A m \in Statements : m < n + 1 /\ Headed(m) => m < n /\ Headed(m)
      BY <1>8, <2>1
    <3> QED
      BY <1>4, <2>6, <3>1, <3>2 DEF Sorted
  <2>8. Current(n + 1, secs, c)
    BY <1>4, <1>5, <1>9 DEF Current
  <2> QED
    BY <1>1, <1>3, <1>4, <2>4, <2>5, <2>7, <2>8 DEF Reading
<1>10. CASE c # 0
  <2>1. Headed(n) /\ secs[c].name = SectionOf(n) /\ Row(secs) /\ c \in DOMAIN secs
    <3>1. c \in 0..Len(secs) /\ Headed(n) /\ secs[c].name = SectionOf(n)
      BY <1>4, <1>10 DEF Current
    <3>2. Row(secs) /\ Len(secs) \in Nat /\ DOMAIN secs = 1..Len(secs)
      BY <1>4, RowIs DEF Sectioned
    <3> QED
      BY <1>10, <3>1, <3>2
  <2>2. PICK es, fs, sec, new : /\ es = secs[c].entries /\ fs = Append(es, e)
                                /\ sec = [secs[c] EXCEPT !.entries = fs] /\ new = [secs EXCEPT ![c] = sec]
    OBVIOUS
  <2>3. q = [p EXCEPT !.sections = new, !.next = n + 1]
    BY <1>1, <1>10, <2>2, Zenon DEF AddEntry
  <2>4. /\ q.next = n + 1 /\ q.implicit = p.implicit /\ q.sections = new /\ q.current = c
        /\ DOMAIN q = DOMAIN p
    BY <1>1, <1>4, <2>3
  <2>5. DOMAIN secs[c] = {"name", "entries"} /\ ParsedEntries(es)
    BY <1>4, <2>1, <2>2 DEF Sectioned
  <2>6. DOMAIN sec = {"name", "entries"} /\ sec.entries = fs /\ sec.name = SectionOf(n) /\ sec.name = secs[c].name
    BY <2>1, <2>2, <2>5
  <2>7. /\ Row(new) /\ DOMAIN new = DOMAIN secs /\ Len(new) = Len(secs) /\ new[c] = sec
        /\ \A j \in DOMAIN secs : j # c => new[j] = secs[j]
    <3>1. Row(secs) /\ c \in DOMAIN secs /\ new = [secs EXCEPT ![c] = sec]
      BY <2>1, <2>2
    <3> QED
      BY ONLY <3>1, Replaced
  <2>8. ParsedEntries(fs)
    BY <1>7, <2>2, <2>5
  <2>9. \A j \in DOMAIN secs : new[j].name = secs[j].name
    BY <2>6, <2>7
  <2>10. Sectioned(new)
    BY <1>4, <2>6, <2>7, <2>8, <2>9 DEF Sectioned
  <2>11. ASSUME NEW j \in DOMAIN secs
         PROVE  InOrder(Tags(new[j].entries), Within(n + 1, new[j].name))
    <3>1. InOrder(Tags(secs[j].entries), Within(n, secs[j].name))
      BY <1>4 DEF Sorted
    <3>2. CASE j = c
      <4>1. PICK S : S = Within(n, SectionOf(n))
        OBVIOUS
      <4>2. InOrder(Tags(es), S) /\ Row(es)
        BY <2>1, <2>2, <2>5, <3>1, <3>2, <4>1 DEF ParsedEntries
      <4>3. Within(n + 1, SectionOf(n)) = S \cup {n} /\ S \subseteq Nat /\ \A m \in S : m < n
        BY <1>6, <2>1, <4>1
      <4>4. InOrder(Tags(Append(es, e)), S \cup {n})
        BY <1>2, <1>3, <4>2, <4>3, InOrderAppend
      <4> QED
        BY <2>2, <2>6, <2>7, <3>2, <4>3, <4>4
    <3>3. CASE j # c
      <4>1. secs[j].name # SectionOf(n)
        BY <1>4, <2>1, <3>3 DEF Sectioned
      <4>2. Within(n + 1, secs[j].name) = Within(n, secs[j].name)
        BY <1>6, <4>1
      <4> QED
        BY <2>7, <3>1, <3>3, <4>2
    <3> QED
      BY <3>2, <3>3
  <2>12. InOrder(Tags(p.implicit), Outside(n + 1))
    BY <1>4, <1>6, <2>1 DEF Sorted
  <2>13. \A m \in Statements : m < n + 1 /\ Headed(m) => \E j \in DOMAIN new : new[j].name = SectionOf(m)
    <3> TAKE m \in Statements
    <3> HAVE m < n + 1 /\ Headed(m)
    <3>1. CASE m = n
      BY <2>6, <2>7, <2>1, <3>1
    <3>2. CASE m < n
      BY <1>4, <2>7, <2>9, <3>2 DEF Sorted
    <3> QED
      BY <1>8, <3>1, <3>2
  <2>14. Sorted(n + 1, new, p.implicit)
    BY <2>7, <2>11, <2>12, <2>13 DEF Sorted
  <2>15. Current(n + 1, new, c)
    BY <1>4, <1>5, <1>10, <2>6, <2>7 DEF Current
  <2> QED
    BY <1>1, <1>3, <1>4, <2>4, <2>10, <2>14, <2>15 DEF Reading
<1> QED
  BY <1>9, <1>10

-----------------------------------------------------------------------------
(* The steps of the parser *)

LEMMA SameReading ==
    ASSUME NEW p, Reading(p), NEW q, DOMAIN q = DOMAIN p, q.next = p.next, q.sections = p.sections,
           q.current = p.current, q.implicit = p.implicit
    PROVE  Reading(q)
  BY DEF Reading

\* A line that is no statement and opens no section.
LEMMA SkipLine ==
    ASSUME prog \in Programs, NEW p, Reading(p), p.next \in DOMAIN prog.lines,
           p.next \notin Statements, prog.lines[p.next].d # "section"
    PROVE  Reading([p EXCEPT !.next = @ + 1])
<1>1. PICK n, q : n = p.next /\ q = [p EXCEPT !.next = n + 1]
  OBVIOUS
<1>2. /\ q.next = n + 1 /\ q.sections = p.sections /\ q.current = p.current /\ q.implicit = p.implicit
      /\ DOMAIN q = DOMAIN p
  BY <1>1 DEF Reading
<1>3. n \in DOMAIN prog.lines /\ n \in Nat /\ n + 1 \in 1..Len(prog.lines) + 1
  BY <1>1, LinesAre
<1>4. (Headed(n + 1) <=> Headed(n)) /\ SectionOf(n + 1) = SectionOf(n)
  BY <1>1, PlainLine
<1>5. Outside(n + 1) = Outside(n) /\ \A name : Within(n + 1, name) = Within(n, name)
  BY <1>1, SortedOn
<1>6. \A m \in Statements : m < n + 1 => m < n
  BY <1>1, <1>3, StatementsAre
<1>7. Sorted(n, p.sections, p.implicit) /\ Current(n, p.sections, p.current)
  BY <1>1 DEF Reading
<1>8. Sorted(n + 1, p.sections, p.implicit)
  BY <1>5, <1>6, <1>7 DEF Sorted
<1>9. Current(n + 1, p.sections, p.current)
  BY <1>4, <1>7 DEF Current
<1>10. Reading(q)
  BY <1>2, <1>3, <1>8, <1>9 DEF Reading
<1> QED
  BY <1>1, <1>10

LEMMA ParseSection_ ==
    ASSUME prog \in Programs, Reading(parser), ParseSection
    PROVE  Reading(parser') /\ phase' = "Parse"
<1>1. PICK n, secs, name, named : /\ n = parser.next /\ secs = parser.sections /\ name = prog.lines[n].name
                                  /\ named = {j \in DOMAIN secs : secs[j].name = name}
  OBVIOUS
<1>2. /\ n \in DOMAIN prog.lines /\ prog.lines[n].d = "section" /\ phase' = "Parse"
  BY <1>1 DEF ParseSection, AtLine, Become, Line
<1>3. parser' = LET here == [parser EXCEPT !.next = @ + 1]
                IN  IF named # {} THEN [here EXCEPT !.current = CHOOSE j \in named : TRUE]
                    ELSE [here EXCEPT !.current = Len(secs) + 1,
                                      !.sections = Append(@, [name |-> name, entries |-> <<>>])]
  BY <1>1, Zenon DEF ParseSection, Become, Line
<1>4. n \in Nat /\ n + 1 \in 1..Len(prog.lines) + 1 /\ n \notin Statements
  <2>1. n \in Lines({"section"})
    BY <1>2 DEF Lines
  <2> QED
    BY <1>2, <2>1, LinesAre, StatementsAre
<1>5. Headed(n + 1) /\ SectionOf(n + 1) = name
  BY <1>1, <1>2, SectionLine
<1>6. Outside(n + 1) = Outside(n) /\ \A x : Within(n + 1, x) = Within(n, x)
  BY <1>2, <1>4, SortedOn
<1>7. \A m \in Statements : m < n + 1 <=> m < n
  BY <1>4, StatementsAre
<1>8. /\ Sectioned(secs) /\ ParsedEntries(parser.implicit) /\ Sorted(n, secs, parser.implicit)
      /\ DOMAIN parser = {"next", "globals", "sections", "current", "implicit", "lastMainLabel", "bits"}
      /\ Len(secs) \in Nat /\ DOMAIN secs = 1..Len(secs) /\ Row(secs)
  BY <1>1, RowIs DEF Reading, Sectioned
<1>9. Sorted(n + 1, secs, parser.implicit)
  BY <1>6, <1>7, <1>8 DEF Sorted
<1>10. CASE named # {}
  <2>1. PICK c \in named : c = CHOOSE j \in named : TRUE
    BY <1>10
  <2>2. parser' = [[parser EXCEPT !.next = n + 1] EXCEPT !.current = c]
    BY <1>1, <1>3, <1>10, <2>1
  <2>3. /\ parser'.next = n + 1 /\ parser'.sections = secs /\ parser'.current = c
        /\ parser'.implicit = parser.implicit /\ DOMAIN parser' = DOMAIN parser
    BY <1>1, <1>8, <2>2
  <2>4. Current(n + 1, secs, c)
    <3>1. c \in DOMAIN secs /\ secs[c].name = name
      BY <1>1, Zenon
    <3>2. c \in 0..Len(secs) /\ c # 0
      <4>1. Len(secs) \in Nat /\ c \in 1..Len(secs)
        BY <1>8, <3>1
      <4> QED
        BY ONLY <4>1
    <3> QED
      BY <1>5, <3>1, <3>2 DEF Current
  <2> QED
    BY <1>2, <1>4, <1>8, <1>9, <2>3, <2>4 DEF Reading
<1>11. CASE named = {}
  <2>1. PICK s, new, c : s = [name |-> name, entries |-> <<>>] /\ new = Append(secs, s) /\ c = Len(secs) + 1
    OBVIOUS
  <2>2. parser' = [[parser EXCEPT !.next = n + 1] EXCEPT !.current = c, !.sections = new]
    BY <1>1, <1>3, <1>8, <1>11, <2>1
  <2>3. /\ parser'.next = n + 1 /\ parser'.sections = new /\ parser'.current = c
        /\ parser'.implicit = parser.implicit /\ DOMAIN parser' = DOMAIN parser
    BY <1>8, <2>2
  <2>4. /\ Row(new) /\ Len(new) = c /\ DOMAIN new = 1..c /\ new[c] = s
        /\ \A j \in 1..Len(secs) : new[j] = secs[j]
    BY <1>8, <2>1, AppendRow
  <2>5. \A j \in 1..c : j \in DOMAIN secs \/ j = c
    BY <1>8, <2>1
  <2>6. DOMAIN s = {"name", "entries"} /\ ParsedEntries(s.entries) /\ s.name = name /\ s.entries = <<>>
    BY <2>1, EmptyRow DEF ParsedEntries
  <2>7. \A j \in DOMAIN secs : secs[j].name # name
    BY <1>1, <1>11
  <2>8. Sectioned(new)
    <3>1. \A j \in DOMAIN new : DOMAIN new[j] = {"name", "entries"} /\ ParsedEntries(new[j].entries)
      BY <1>8, <2>4, <2>5, <2>6 DEF Sectioned
    <3>2. \A j, l \in DOMAIN new : new[j].name = new[l].name => j = l
      <4> SUFFICES ASSUME NEW j \in DOMAIN new, NEW l \in DOMAIN new, new[j].name = new[l].name PROVE j = l
        OBVIOUS
      <4>1. CASE j = c
        BY <1>8, <2>4, <2>5, <2>6, <2>7, <4>1
      <4>2. CASE j \in DOMAIN secs
        BY <1>8, <2>4, <2>5, <2>6, <2>7, <4>2 DEF Sectioned
      <4> QED
        BY <2>4, <2>5, <4>1, <4>2
    <3> QED
      BY <2>4, <3>1, <3>2 DEF Sectioned
  <2>9. Within(n + 1, name) = {}
    <3>1. \A m \in Statements : m < n /\ Headed(m) => SectionOf(m) # name
      BY <1>8, <2>7 DEF Sorted
    <3> QED
      BY <1>7, <3>1 DEF Within
  <2>10. Sorted(n + 1, new, parser.implicit)
    <3>1. \A j \in DOMAIN new : InOrder(Tags(new[j].entries), Within(n + 1, new[j].name))
      BY <1>8, <1>9, <2>4, <2>5, <2>6, <2>9, InOrderEmpty DEF Sorted
    <3>2. \A j \in DOMAIN secs : j \in DOMAIN new /\ new[j].name = secs[j].name
      BY <1>8, <2>1, <2>4
    <3>3. \A m \in Statements : m < n + 1 /\ Headed(m) => \E j \in DOMAIN new : new[j].name = SectionOf(m)
      BY <1>9, <3>2 DEF Sorted
    <3> QED
      BY <1>9, <3>1, <3>3 DEF Sorted
  <2>11. Current(n + 1, new, c)
    BY <1>5, <1>8, <2>1, <2>4, <2>6 DEF Current
  <2> QED
    BY <1>2, <1>4, <1>8, <2>3, <2>8, <2>10, <2>11 DEF Reading
<1> QED
  BY <1>10, <1>11

StatementKinds == {"label", "extern", "equ", "data", "res", "align", "times", "instr"}

LEMMA AtStatement ==
    ASSUME NEW kinds, kinds \subseteq StatementKinds, AtLine(kinds)
    PROVE  parser.next \in Statements /\ Line.d \in kinds
  BY DEF AtLine, Line, Statements, Lines, StatementKinds

LEMMA ParseExtern_ ==
    ASSUME prog \in Programs, Reading(parser), ParseExtern
    PROVE  Reading(parser')
<1>1. PICK x : x = [k |-> "label", name |-> Line.names[1].name, isGlobal |-> FALSE, isExtern |-> TRUE]
  OBVIOUS
<1>2. parser' = AddEntry(parser, x) /\ AtLine({"extern"})
  BY <1>1, Zenon DEF ParseExtern, Become
<1>3. "k" \in DOMAIN x /\ x.k = "label"
  BY <1>1
<1>4. parser.next \in Statements
  BY <1>2, AtStatement DEF StatementKinds
<1>5. Parsed(x)
  BY <1>3 DEF Parsed
<1> QED
  BY <1>2, <1>3, <1>4, <1>5, AddEntry_

LEMMA ParseLabel_ ==
    ASSUME prog \in Programs, Reading(parser), ParseLabel
    PROVE  Reading(parser')
<1>1. PICK main : main = IF Line.name.t = "loc" THEN parser.lastMainLabel ELSE Line.name.name
  OBVIOUS
<1>2. PICK x : x = [k |-> "label", name |-> getOperand(Line.name, main).name,
                    isGlobal |-> Line.name.name \in parser.globals, isExtern |-> FALSE]
  OBVIOUS
<1>3. AtLine({"label"}) /\ parser' = [AddEntry(parser, x) EXCEPT !.lastMainLabel = main]
  BY <1>1, <1>2, Zenon DEF ParseLabel, Become
<1>4. "k" \in DOMAIN x /\ x.k = "label"
  BY <1>2
<1>5. parser.next \in Statements
  BY <1>3, AtStatement DEF StatementKinds
<1>6. Parsed(x)
  BY <1>4 DEF Parsed
<1>7. PICK p : p = AddEntry(parser, x) /\ Reading(p)
  BY <1>4, <1>5, <1>6, AddEntry_
<1>8. parser' = [p EXCEPT !.lastMainLabel = main]
  BY <1>3, <1>7
<1>9. DOMAIN p = {"next", "globals", "sections", "current", "implicit", "lastMainLabel", "bits"}
  BY <1>7 DEF Reading
<1> QED
  BY <1>7, <1>8, <1>9, SameReading

LEMMA ParseEqu_ ==
    ASSUME prog \in Programs, Reading(parser), ParseEqu
    PROVE  Reading(parser')
<1>1. PICK x : x = [k |-> "const", name |-> Line.name.name,
                    value |-> Immediate(Line.value, parser.lastMainLabel),
                    hasPos |-> \E n \in DOMAIN Line.value : Line.value[n].t = "pos",
                    isGlobal |-> Line.name.name \in parser.globals]
  OBVIOUS
<1>2. parser' = AddEntry(parser, x) /\ AtLine({"equ"})
  BY <1>1, Zenon DEF ParseEqu, Become
<1>3. "k" \in DOMAIN x /\ x.k = "const"
  BY <1>1
<1>4. parser.next \in Statements
  BY <1>2, AtStatement DEF StatementKinds
<1>5. Parsed(x)
  BY <1>3 DEF Parsed
<1> QED
  BY <1>2, <1>3, <1>4, <1>5, AddEntry_

LEMMA ParseData_ ==
    ASSUME prog \in Programs, Reading(parser), ParseData
    PROVE  Reading(parser')
<1>1. PICK values, count :
        /\ values = FlattenSeq([n \in DOMAIN Line.values |->
                                  parseValue(Line.values[n], Line.width, parser.lastMainLabel)])
        /\ count = Immediate(Line.count, parser.lastMainLabel)
  OBVIOUS
<1>2. \/ /\ AtLine({"data"})
         /\ parser' = AddEntry(parser, [k |-> "data", width |-> Line.width, values |-> values])
      \/ /\ AtLine({"res"})
         /\ parser' = AddEntry(parser, [k |-> "res", width |-> Line.width, count |-> count])
  BY <1>1, Zenon DEF ParseData, Become
<1>3. parser.next \in Statements
  BY <1>2, AtStatement DEF StatementKinds
<1>4. PICK x : /\ parser' = AddEntry(parser, x)
               /\ \/ x = [k |-> "data", width |-> Line.width, values |-> values]
                  \/ x = [k |-> "res", width |-> Line.width, count |-> count]
  BY <1>2
<1>5. "k" \in DOMAIN x /\ x.k \in {"data", "res"}
  BY <1>4
<1>6. Parsed(x) /\ x.k # "instr"
  BY <1>5 DEF Parsed
<1> QED
  BY <1>3, <1>4, <1>5, <1>6, AddEntry_

LEMMA ParseRepetition_ ==
    ASSUME prog \in Programs, Reading(parser), ParseRepetition
    PROVE  Reading(parser')
<1>1. PICK x : x = [k |-> Line.d]
  OBVIOUS
<1>2. parser' = AddEntry(parser, x) /\ AtLine({"align", "times"})
  BY <1>1, Zenon DEF ParseRepetition, Become
<1>3. parser.next \in Statements /\ Line.d \in {"align", "times"}
  BY <1>2, AtStatement DEF StatementKinds
<1>4. "k" \in DOMAIN x /\ x.k \in {"align", "times"}
  BY <1>1, <1>3
<1>5. Parsed(x) /\ x.k # "instr"
  BY <1>4 DEF Parsed
<1> QED
  BY <1>2, <1>3, <1>4, <1>5, AddEntry_

LEMMA ParseInstruction_ ==
    ASSUME prog \in Programs, Reading(parser), ParseInstruction, phase' = "Parse"
    PROVE  Reading(parser')
<1>1. PICK r, x : /\ r = parseInstruction(Line, parser.bits, parser.lastMainLabel)
                  /\ x = [k |-> "instr", i |-> r.i]
  OBVIOUS
<1>2. /\ AtLine({"instr"})
      /\ phase' = IF r.ok THEN "Parse" ELSE "Error"
      /\ parser' = IF r.ok THEN AddEntry(parser, x) ELSE parser
  BY <1>1, Zenon DEF ParseInstruction, AddInstructionEntry, Become
<1>3. parser.next \in Statements /\ Line.d = "instr"
  BY <1>2, AtStatement DEF StatementKinds
<1>4. CASE ~r.ok
  <2>1. parser' = parser
    BY <1>2, <1>4, Zenon
  <2> QED
    BY <2>1
<1>5. CASE r.ok
  <2>1. parser' = AddEntry(parser, x)
    BY <1>2, <1>5, Zenon
  <2>2. Line.mn \in Mnemonics \cup DOMAIN Aliases
    BY <1>2, <1>3, ProgramAssumption DEF AtLine, Line
  <2>3. Wellformed(r.i)
    BY <1>1, <1>5, <2>2, parseInstruction_
  <2>4. "k" \in DOMAIN x /\ "i" \in DOMAIN x /\ x.k = "instr" /\ x.i = r.i
    BY <1>1
  <2>5. Parsed(x)
    BY <2>3, <2>4 DEF Parsed
  <2> QED
    BY <1>3, <2>1, <2>4, <2>5, AddEntry_
<1> QED
  BY <1>4, <1>5

LEMMA ParsePlain_ ==
    ASSUME prog \in Programs, Reading(parser), ParseBits \/ ParseNothing
    PROVE  Reading(parser')
<1>1. AtLine({"bits", "global", "org"})
  BY DEF ParseBits, ParseNothing, AtLine
<1>2. parser.next \in DOMAIN prog.lines /\ prog.lines[parser.next].d \in {"bits", "global", "org"}
  BY <1>1 DEF AtLine, Line
<1>3. parser.next \notin Statements /\ prog.lines[parser.next].d # "section"
  BY <1>2 DEF Statements, Lines
<1>4. PICK p : p = [parser EXCEPT !.next = @ + 1] /\ Reading(p)
  BY <1>2, <1>3, SkipLine
<1>5. DOMAIN parser = {"next", "globals", "sections", "current", "implicit", "lastMainLabel", "bits"}
  BY DEF Reading
<1>6. PICK b : \/ parser' = [parser EXCEPT !.bits = b, !.next = @ + 1]
               \/ parser' = [parser EXCEPT !.next = @ + 1]
  BY Zenon DEF ParseBits, ParseNothing, Become
<1>7. /\ DOMAIN parser' = DOMAIN p /\ parser'.next = p.next /\ parser'.sections = p.sections
      /\ parser'.current = p.current /\ parser'.implicit = p.implicit
  BY <1>4, <1>5, <1>6
<1> QED
  BY <1>4, <1>7, SameReading

LEMMA CollectNames_ ==
    ASSUME prog \in Programs, Reading(parser), CollectNames
    PROVE  Reading(parser')
<1>1. PICK g : parser' = [parser EXCEPT !.globals = g]
  BY Zenon DEF CollectNames, Become
<1>2. DOMAIN parser = {"next", "globals", "sections", "current", "implicit", "lastMainLabel", "bits"}
  BY DEF Reading
<1> QED
  BY <1>1, <1>2, SameReading

-----------------------------------------------------------------------------
(* What is handed to the encoder *)

Whole(name) == {n \in Statements : SectionOf(n) = name}

\* A section with all that stands in it.
Filled(section) == ParsedEntries(section.entries) /\ InOrder(Tags(section.entries), Whole(section.name))

Complete(secs) ==
    /\ Row(secs)
    /\ \A j \in DOMAIN secs : Filled(secs[j])
    /\ \A j, l \in DOMAIN secs : secs[j].name = secs[l].name => j = l
    /\ \A n \in Statements : \E j \in DOMAIN secs : secs[j].name = SectionOf(n)

\* Lines of the first section, of no section, and of both.
LEMMA WholeIs ==
    ASSUME prog \in Programs
    PROVE  LET n == Len(prog.lines) + 1
           IN  /\ \A m \in Statements : m < n
               /\ Whole(".text") = Outside(n) \cup Within(n, ".text")
               /\ \A name : name # ".text" => Whole(name) = Within(n, name)
               /\ \A m \in Outside(n) : SectionOf(m) = ".text" /\ \A l : \A k \in Within(n, l) : m < k
<1>1. PICK n : n = Len(prog.lines) + 1
  OBVIOUS
<1>2. \A m \in Statements : m < n /\ m \in Nat
  <2>1. Statements \subseteq 1..Len(prog.lines) /\ Len(prog.lines) \in Nat
    BY LinesAre, StatementsAre
  <2> QED
    BY <1>1, <2>1
<1>3. \A m \in Statements : ~Headed(m) => SectionOf(m) = ".text"
  BY <1>2, Unheaded
<1>4. \A m \in Statements : ~Headed(m) => \A k \in Statements : Headed(k) => m < k
  BY <1>2, Unheaded
<1>5. Whole(".text") = Outside(n) \cup Within(n, ".text")
  BY <1>2, <1>3 DEF Whole, Outside, Within
<1>6. \A name : name # ".text" => Whole(name) = Within(n, name)
  BY <1>2, <1>3 DEF Whole, Within
<1>7. \A m \in Outside(n) : SectionOf(m) = ".text" /\ \A l : \A k \in Within(n, l) : m < k
  BY <1>3, <1>4 DEF Outside, Within
<1> QED
  BY <1>1, <1>2, <1>5, <1>6, <1>7

LEMMA ConcatParsed ==
    ASSUME NEW es, ParsedEntries(es), NEW fs, ParsedEntries(fs)
    PROVE  ParsedEntries(es \o fs)
<1>1. PICK t, p, q : t = es \o fs /\ p = Len(es) /\ q = Len(fs)
  OBVIOUS
<1>2. /\ p \in Nat /\ DOMAIN es = 1..p /\ q \in Nat /\ DOMAIN fs = 1..q /\ DOMAIN t = 1..(p + q)
      /\ \A k \in 1..p : t[k] = es[k]
      /\ \A k \in 1..q : t[p + k] = fs[k]
      /\ Row(t)
  BY <1>1, ConcatRow, RowIs DEF ParsedEntries
<1>3. \A k \in 1..(p + q) : k \in 1..p \/ \E l \in 1..q : k = p + l
  <2> TAKE k \in 1..(p + q)
  <2>1. k > p => k - p \in 1..q /\ k = p + (k - p)
    BY <1>2
  <2> QED
    BY <1>2, <2>1
<1> QED
  BY <1>1, <1>2, <1>3, SMTT(30) DEF ParsedEntries

\* The section behind what stands in no section.
LEMMA withImplicit_ ==
    ASSUME prog \in Programs, Reading(parser), parser.next = Len(prog.lines) + 1,
           NEW j \in DOMAIN parser.sections
    PROVE  LET s == IF parser.sections[j].name = ".text" THEN withImplicit(parser.sections[j])
                    ELSE parser.sections[j]
           IN  Filled(s) /\ s.name = parser.sections[j].name
<1>1. PICK n, sec, im, es : n = parser.next /\ sec = parser.sections[j] /\ im = parser.implicit /\ es = sec.entries
  OBVIOUS
<1>2. /\ DOMAIN sec = {"name", "entries"} /\ ParsedEntries(es) /\ ParsedEntries(im)
      /\ InOrder(Tags(es), Within(n, sec.name)) /\ InOrder(Tags(im), Outside(n))
  BY <1>1 DEF Reading, Sectioned, Sorted
<1>3. CASE sec.name # ".text"
  <2>1. Whole(sec.name) = Within(n, sec.name)
    BY <1>1, <1>3, WholeIs
  <2> QED
    BY <1>1, <1>2, <1>3, <2>1 DEF Filled
<1>4. CASE sec.name = ".text"
  <2>1. PICK s, fs : fs = im \o es /\ s = withImplicit(sec)
    OBVIOUS
  <2>2. s = [sec EXCEPT !.entries = fs]
    BY <1>1, <2>1 DEF withImplicit
  <2>3. s.name = ".text" /\ s.entries = fs
    BY <1>2, <1>4, <2>2
  <2>4. ParsedEntries(fs)
    BY <1>2, <2>1, ConcatParsed
  <2>5. PICK S, T : S = Outside(n) /\ T = Within(n, ".text")
    OBVIOUS
  <2>6. Whole(".text") = S \cup T /\ \A m \in S, k \in T : m < k
    BY <1>1, <2>5, WholeIs
  <2>7. InOrder(Tags(fs), S \cup T)
    <3>1. Row(im) /\ Row(es) /\ InOrder(Tags(im), S) /\ InOrder(Tags(es), T)
      BY <1>2, <1>4, <2>5 DEF ParsedEntries
    <3> QED
      BY <2>1, <2>6, <3>1, InOrderConcat
  <2>8. Filled(s)
    BY <2>3, <2>4, <2>6, <2>7 DEF Filled
  <2> QED
    BY <1>1, <1>4, <2>1, <2>3, <2>8
<1> QED
  BY <1>3, <1>4

LEMMA ParseEnd_ ==
    ASSUME prog \in Programs, Reading(parser), ParseEnd
    PROVE  Complete(parser'.sections)
<1>1. PICK n, secs, im, text : /\ n = parser.next /\ secs = parser.sections /\ im = parser.implicit
                               /\ text = {j \in DOMAIN secs : secs[j].name = ".text"}
  OBVIOUS
<1>2. PICK joined : joined = [j \in DOMAIN secs |-> IF j \in text THEN withImplicit(secs[j]) ELSE secs[j]]
  OBVIOUS
<1>3. /\ parser' = [parser EXCEPT !.sections = IF im = <<>> \/ text # {} THEN joined
                                               ELSE <<[name |-> ".text", entries |-> im]>> \o joined]
      /\ n > Len(prog.lines)
  BY <1>1, <1>2, Zenon DEF ParseEnd
<1>4. /\ DOMAIN parser = {"next", "globals", "sections", "current", "implicit", "lastMainLabel", "bits"}
      /\ n \in 1..Len(prog.lines) + 1 /\ Sectioned(secs) /\ ParsedEntries(im) /\ Sorted(n, secs, im)
  BY <1>1 DEF Reading
<1>5. n = Len(prog.lines) + 1
  BY <1>3, <1>4, LinesAre
<1>6. DOMAIN joined = DOMAIN secs /\ \A j \in DOMAIN secs : Filled(joined[j]) /\ joined[j].name = secs[j].name
  <2>1. \A j \in DOMAIN secs : joined[j] = IF secs[j].name = ".text" THEN withImplicit(secs[j]) ELSE secs[j]
    BY <1>1, <1>2
  <2>2. parser.next = Len(prog.lines) + 1
    BY <1>1, <1>5
  <2> QED
    BY <1>1, <1>2, <2>1, <2>2, withImplicit_
<1>7. PICK len : len = Len(secs) /\ len \in Nat /\ DOMAIN secs = 1..len /\ Row(secs)
  BY <1>4, RowIs DEF Sectioned
<1>8. Row(joined) /\ Len(joined) = len
  <2>1. PICK S : S = Elems(joined)
    OBVIOUS
  <2>2. joined \in [1..len -> S]
    <3>1. joined = [j \in 1..len |-> joined[j]]
      BY <1>2, <1>7
    <3>2. \A j \in 1..len : joined[j] \in S
      BY <1>6, <1>7, <2>1 DEF Elems
    <3> QED
      BY <3>1, <3>2
  <2>3. joined \in Seq(S) /\ Len(joined) = len
    BY <1>7, <2>2
  <2> QED
    BY <2>1, <2>3 DEF Row
<1>9. \A j, l \in DOMAIN secs : joined[j].name = joined[l].name => j = l
  BY <1>4, <1>6 DEF Sectioned
<1>10. /\ \A m \in Statements : m < n
       /\ Whole(".text") = Outside(n) \cup Within(n, ".text")
       /\ \A m \in Outside(n) : SectionOf(m) = ".text"
  BY <1>5, WholeIs
<1>11. \A m \in Statements : Headed(m) => \E j \in DOMAIN secs : joined[j].name = SectionOf(m)
  BY <1>4, <1>6, <1>10 DEF Sorted
<1>12. \A m \in Statements : ~Headed(m) => m \in Outside(n)
  BY <1>10 DEF Outside
<1>13. Elems(Tags(im)) = Outside(n)
  BY <1>4 DEF Sorted, InOrder
<1>14. CASE im = <<>> \/ text # {}
  <2>1. parser'.sections = joined
    BY <1>3, <1>4, <1>14
  <2>2. ASSUME NEW m \in Statements
        PROVE  \E j \in DOMAIN joined : joined[j].name = SectionOf(m)
    <3>1. CASE Headed(m)
      BY <1>6, <1>11, <3>1
    <3>2. CASE ~Headed(m)
      <4>1. m \in Elems(Tags(im)) /\ SectionOf(m) = ".text"
        BY <1>10, <1>12, <1>13, <3>2
      <4>2. im # <<>>
        BY <4>1, EmptyRow DEF Elems, Tags
      <4>3. PICK j : j \in text
        BY <1>14, <4>2
      <4> QED
        BY <1>1, <1>6, <4>1, <4>3
    <3> QED
      BY <3>1, <3>2
  <2> QED
    BY <1>6, <1>8, <1>9, <2>1, <2>2 DEF Complete
<1>15. CASE ~(im = <<>> \/ text # {})
  <2>1. PICK s, one, new : s = [name |-> ".text", entries |-> im] /\ one = <<s>> /\ new = one \o joined
    OBVIOUS
  <2>2. parser'.sections = new
    BY <1>3, <1>4, <1>15, <2>1
  <2>3. Row(one) /\ Len(one) = 1 /\ one[1] = s
    <3>1. one \in Seq({s}) /\ Len(one) = 1 /\ one[1] = s
      BY <2>1
    <3>2. Elems(one) = {s}
      BY <3>1 DEF Elems
    <3> QED
      BY <3>1, <3>2 DEF Row
  <2>4. /\ Row(new) /\ DOMAIN new = 1..(1 + len) /\ new[1] = s
        /\ \A j \in 1..len : new[1 + j] = joined[j]
    <3>1. /\ Row(new) /\ DOMAIN new = 1..(Len(one) + Len(joined))
          /\ \A k \in 1..Len(one) : new[k] = one[k]
          /\ \A k \in 1..Len(joined) : new[Len(one) + k] = joined[k]
      BY <1>8, <2>1, <2>3, ConcatRow
    <3> QED
      BY <1>8, <2>3, <3>1
  <2>5. \A j \in 1..(1 + len) : j = 1 \/ \E k \in 1..len : j = 1 + k
    <3> TAKE j \in 1..(1 + len)
    <3>1. j # 1 => j - 1 \in 1..len /\ j = 1 + (j - 1)
      BY <1>7
    <3> QED
      BY <3>1
  <2>6. \A j \in DOMAIN secs : secs[j].name # ".text"
    BY <1>1, <1>15
  <2>7. s.name = ".text" /\ s.entries = im
    BY <2>1
  <2>8. Filled(s)
    <3>1. Within(n, ".text") = {}
      BY <1>4, <2>6 DEF Within, Sorted
    <3>2. InOrder(Tags(im), Outside(n)) /\ ParsedEntries(im)
      BY <1>4 DEF Sorted
    <3>3. Whole(".text") = Outside(n)
      BY <1>10, <3>1
    <3> QED
      BY <2>7, <3>2, <3>3 DEF Filled
  <2>9. \A j \in DOMAIN new : Filled(new[j])
    BY <1>6, <1>7, <2>4, <2>5, <2>8
  <2>10. ASSUME NEW j \in DOMAIN new, NEW l \in DOMAIN new, new[j].name = new[l].name
         PROVE  j = l
    <3>1. \A k \in 1..len : new[1 + k].name # ".text"
      BY <1>6, <1>7, <2>4, <2>6
    <3>2. CASE j = 1 \/ l = 1
      BY <2>4, <2>5, <2>7, <2>10, <3>1, <3>2
    <3>3. CASE j # 1 /\ l # 1
      <4>1. PICK a, b \in 1..len : j = 1 + a /\ l = 1 + b
        BY <2>4, <2>5, <3>3
      <4>2. joined[a].name = joined[b].name
        BY <2>4, <2>10, <4>1
      <4>3. a = b
        BY <1>7, <1>9, <4>2
      <4> QED
        BY <4>1, <4>3
    <3> QED
      BY <3>2, <3>3
  <2>11. ASSUME NEW m \in Statements
         PROVE  \E j \in DOMAIN new : new[j].name = SectionOf(m)
    <3>1. CASE Headed(m)
      <4>1. PICK j \in 1..len : joined[j].name = SectionOf(m)
        BY <1>7, <1>11, <3>1
      <4>2. 1 + j \in 1..(1 + len)
        BY <1>7
      <4> QED
        BY <2>4, <4>1, <4>2
    <3>2. CASE ~Headed(m)
      <4>1. SectionOf(m) = ".text"
        BY <1>10, <1>12, <3>2
      <4>2. 1 \in 1..(1 + len)
        BY <1>7
      <4> QED
        BY <2>4, <2>7, <4>1, <4>2
    <3> QED
      BY <3>1, <3>2
  <2> QED
    BY <2>2, <2>4, <2>9, <2>10, <2>11 DEF Complete
<1> QED
  BY <1>14, <1>15

-----------------------------------------------------------------------------
(* The invariant *)

LEMMA SameLines ==
    ASSUME prog' = prog
    PROVE  /\ Statements' = Statements
           /\ \A n : (Headed(n)' <=> Headed(n)) /\ SectionOf(n)' = SectionOf(n)
           /\ \A n : Outside(n)' = Outside(n) /\ \A x : Within(n, x)' = Within(n, x)
           /\ \A x : Whole(x)' = Whole(x)
<1>1. \A kinds : Lines(kinds)' = Lines(kinds)
  BY Zenon DEF Lines
<1>2. Statements' = Statements
  BY <1>1, Zenon DEF Statements
<1>3. \A n : Headed(n)' <=> Headed(n)
  BY <1>1, Zenon DEF Headed
<1>4. \A n : SectionOf(n)' = SectionOf(n)
  BY <1>1, Zenon DEF SectionOf
<1>5. \A n : Outside(n)' = Outside(n)
  BY <1>2, <1>3 DEF Outside
<1>6. \A n, x : Within(n, x)' = Within(n, x)
  BY <1>2, <1>3, <1>4 DEF Within
<1>7. \A x : Whole(x)' = Whole(x)
  BY <1>2, <1>4 DEF Whole
<1> QED
  BY <1>2, <1>3, <1>4, <1>5, <1>6, <1>7

LEMMA ReadingNext ==
    ASSUME prog' = prog, Reading(parser')
    PROVE  Reading(parser)'
<1>1. PICK p : p = parser'
  OBVIOUS
<1>2. Reading(p)
  BY <1>1
<1>3. Sorted(p.next, p.sections, p.implicit) => Sorted(p.next, p.sections, p.implicit)'
  BY SameLines, Zenon DEF Sorted
<1>4. Current(p.next, p.sections, p.current) => Current(p.next, p.sections, p.current)'
  BY SameLines, Zenon DEF Current
<1> QED
  BY <1>1, <1>2, <1>3, <1>4, Zenon DEF Reading

LEMMA CompleteNext ==
    ASSUME prog' = prog, Complete(parser'.sections)
    PROVE  Complete(parser.sections)'
<1>1. PICK secs : secs = parser'.sections
  OBVIOUS
<1>2. Complete(secs)
  BY <1>1
<1>3. \A s : Filled(s)' <=> Filled(s)
  BY SameLines, Zenon DEF Filled
<1>4. Complete(secs)'
  <2>1. /\ Row(secs)
        /\ \A j \in DOMAIN secs : Filled(secs[j])
        /\ \A j, l \in DOMAIN secs : secs[j].name = secs[l].name => j = l
        /\ \A n \in Statements : \E j \in DOMAIN secs : secs[j].name = SectionOf(n)
    BY <1>2 DEF Complete
  <2>2. \A j \in DOMAIN secs : Filled(secs[j])'
    BY <1>3, <2>1, Zenon
  <2>3. Statements' = Statements /\ \A n : SectionOf(n)' = SectionOf(n)
    BY SameLines
  <2>4. \A n \in Statements' : \E j \in DOMAIN secs : secs[j].name = SectionOf(n)'
    BY <2>1, <2>3
  <2> QED
    BY <2>1, <2>2, <2>4, Zenon DEF Complete
<1> QED
  BY <1>1, <1>4, Zenon

\* The lines that were read stand where they belong, and what is laid out of
\* them is made of instructions whose fields say how long they are.
Orderly ==
    /\ prog \in Programs
    /\ phase \in {"Names", "Parse"} => Reading(parser)
    /\ phase = "Initialize" => Complete(parser.sections)
    /\ phase \in {"Names", "Parse", "Initialize"} => sections = <<>>
    /\ phase \in {"Calculate", "Evaluate", "Optimize", "Generate", "Align", "Write"} => Kept(sections)

LEMMA OrderlyInit ==
    ASSUME Init
    PROVE  Orderly
<1>1. /\ prog \in Programs /\ phase = "Names" /\ sections = <<>>
      /\ parser = [next |-> 1, globals |-> {}, sections |-> <<>>, current |-> 0, implicit |-> <<>>,
                   lastMainLabel |-> "", bits |-> prog.bits]
  BY DEF Init, ParserInit, EncoderInit
<1>2. Len(prog.lines) \in Nat /\ Statements \subseteq 1..Len(prog.lines) /\ Lines({"section"}) \subseteq 1..Len(prog.lines)
  BY <1>1, LinesAre, StatementsAre
<1>3. ~Headed(1) /\ \A m \in Statements : ~(m < 1)
  BY <1>2 DEF Headed
<1>4. Outside(1) = {}
  BY <1>3 DEF Outside
<1>5. Sectioned(<<>>) /\ ParsedEntries(<<>>)
  BY EmptyRow DEF Sectioned, ParsedEntries
<1>6. Sorted(1, <<>>, <<>>)
  BY <1>3, <1>4, EmptyRow, InOrderEmpty DEF Sorted
<1>7. Current(1, <<>>, 0)
  BY <1>3, EmptyRow DEF Current
<1>8. Reading(parser)
  <2>1. /\ DOMAIN parser = {"next", "globals", "sections", "current", "implicit", "lastMainLabel", "bits"}
        /\ parser.next = 1 /\ parser.sections = <<>> /\ parser.implicit = <<>> /\ parser.current = 0
    BY <1>1
  <2>2. 1 \in 1..Len(prog.lines) + 1
    BY <1>2
  <2> QED
    BY <1>5, <1>6, <1>7, <2>1, <2>2, Zenon DEF Reading
<1> QED
  BY <1>1, <1>8 DEF Orderly

\* What a step of the parser leads to.
LEMMA ParserStep ==
    ASSUME Orderly, Parse
    PROVE  /\ prog' = prog /\ phase \in {"Names", "Parse"}
           /\ phase' \in {"Parse", "Initialize", "Error"}
           /\ phase' = "Parse" => Reading(parser')
           /\ phase' = "Initialize" => Complete(parser'.sections)
<1>1. prog \in Programs
  BY DEF Orderly
<1>2. ASSUME ParseEnd
      PROVE  phase = "Parse" /\ phase' = "Initialize" /\ prog' = prog /\ Complete(parser'.sections)
  <2>1. phase = "Parse" /\ phase' = "Initialize" /\ prog' = prog
    BY <1>2 DEF ParseEnd
  <2>2. Reading(parser)
    BY <2>1 DEF Orderly
  <2> QED
    BY <1>1, <1>2, <2>1, <2>2, ParseEnd_
<1>3. ASSUME CollectNames
      PROVE  phase = "Names" /\ phase' = "Parse" /\ prog' = prog /\ Reading(parser')
  <2>1. phase = "Names" /\ phase' = "Parse" /\ prog' = prog
    BY <1>3 DEF CollectNames, Become
  <2>2. Reading(parser)
    BY <2>1 DEF Orderly
  <2> QED
    BY <1>1, <1>3, <2>1, <2>2, CollectNames_
<1>4. ASSUME \/ ParseSection \/ ParseBits \/ ParseExtern \/ ParseNothing \/ ParseLabel \/ ParseEqu
             \/ ParseData \/ ParseRepetition \/ ParseInstruction
      PROVE  /\ phase = "Parse" /\ prog' = prog /\ phase' \in {"Parse", "Error"}
             /\ phase' = "Parse" => Reading(parser')
  <2>1. phase = "Parse" /\ prog' = prog
    BY <1>4, Zenon DEF ParseSection, ParseBits, ParseExtern, ParseNothing, ParseLabel, ParseEqu, ParseData,
                       ParseRepetition, ParseInstruction, AddInstructionEntry, Become, AtLine
  <2>2. \E ok : phase' = IF ok THEN "Parse" ELSE "Error"
    BY <1>4, Zenon DEF ParseSection, ParseBits, ParseExtern, ParseNothing, ParseLabel, ParseEqu, ParseData,
                       ParseRepetition, ParseInstruction, AddInstructionEntry, Become
  <2>3. phase' \in {"Parse", "Error"}
    BY <2>2
  <2>4. Reading(parser)
    BY <2>1 DEF Orderly
  <2>5. phase' = "Parse" => Reading(parser')
    BY <1>1, <1>4, <2>4, ParseSection_, ParsePlain_, ParseExtern_, ParseLabel_, ParseEqu_, ParseData_,
       ParseRepetition_, ParseInstruction_, Zenon
  <2> QED
    BY <2>1, <2>3, <2>5
<1> QED
  BY <1>2, <1>3, <1>4 DEF Parse

LEMMA Initialize_ ==
    ASSUME Orderly, Initialize
    PROVE  /\ sections = <<>> /\ phase' \in {"Calculate", "Error"} /\ prog' = prog
           /\ phase' = "Calculate" => Kept(sections')
<1>1. PICK base : base = [ok |-> TRUE, sections |-> <<>>, labels |-> Nothing,
                          constants |-> Nothing, symbols |-> <<>>]
  OBVIOUS
<1>2. Built(base)
  BY <1>1, EmptyRow DEF Built
<1>3. Row(parser.sections) /\ \A j \in DOMAIN parser.sections : ParsedEntries(parser.sections[j].entries)
  BY DEF Orderly, Initialize, Complete, Filled
<1>4. PICK new : new = FoldLeft(LAMBDA s, parsed : IF s.ok THEN ReadSection(s, parsed) ELSE s, base, parser.sections)
  OBVIOUS
<1>5. new.ok => Built(new)
  BY <1>2, <1>3, <1>4, AllRead, Zenon
<1>6. Initialized(new) /\ prog' = prog /\ phase = "Initialize"
  BY <1>1, <1>4, Zenon DEF Initialize
<1>7. phase' = (IF new.ok THEN "Calculate" ELSE "Error") /\ sections' = new.sections
  BY <1>6, Zenon DEF Initialized
<1>8. phase' = "Calculate" => new.ok
  BY <1>7
<1>9. phase' = "Calculate" => Kept(sections')
  BY <1>5, <1>7, <1>8 DEF Built, Kept
<1> QED
  BY <1>6, <1>7, <1>9 DEF Orderly

\* What NeverGrows says of a step.
NoneLonger == \A p \in Places(sections) : Shrinks(Entry(sections, p), Entry(sections', p))

LEMMA SameSections ==
    ASSUME sections' = sections
    PROVE  NoneLonger
  BY DEF NoneLonger, Shrinks

\* A phase of the layout, from the phase it ends in.
LEMMA LayoutStep ==
    ASSUME Orderly, prog' = prog, Lessened(sections, sections'),
           phase' \in {"Calculate", "Evaluate", "Optimize", "Generate", "Align", "Write", "Error"}
    PROVE  Orderly' /\ NoneLonger
<1>1. NoneLonger
  BY LessenedPlaces DEF NoneLonger
<1>2. Kept(sections')
  BY DEF Lessened
<1>3. Kept(sections)'
  BY <1>2
<1>4. phase' \notin {"Names", "Parse", "Initialize"} /\ phase' # "Initialize"
  OBVIOUS
<1> QED
  BY <1>1, <1>3, <1>4 DEF Orderly

LEMMA OrderlyStep ==
    ASSUME Orderly, [Next]_vars
    PROVE  Orderly' /\ NoneLonger
<1>1. ASSUME UNCHANGED vars
      PROVE  Orderly' /\ NoneLonger
  <2>1. prog' = prog /\ phase' = phase /\ parser' = parser /\ sections' = sections
    BY <1>1 DEF vars, encoder
  <2>2. Reading(parser) => Reading(parser)'
    BY <2>1, ReadingNext
  <2>3. Complete(parser.sections) => Complete(parser.sections)'
    BY <2>1, CompleteNext
  <2>4. Kept(sections)' <=> Kept(sections)
    BY <2>1
  <2>5. NoneLonger
    BY <2>1, SameSections
  <2> QED
    BY <2>1, <2>2, <2>3, <2>4, <2>5 DEF Orderly
<1>2. ASSUME Parse /\ UNCHANGED <<encoder, file>>
      PROVE  Orderly' /\ NoneLonger
  <2>1. /\ prog' = prog /\ phase \in {"Names", "Parse"}
        /\ phase' \in {"Parse", "Initialize", "Error"}
        /\ phase' = "Parse" => Reading(parser')
        /\ phase' = "Initialize" => Complete(parser'.sections)
    BY <1>2, ParserStep
  <2>2. sections' = sections
    BY <1>2 DEF encoder
  <2>3. sections' = <<>>
    BY <2>1, <2>2 DEF Orderly
  <2>4. phase' = "Parse" => Reading(parser)'
    BY <2>1, ReadingNext
  <2>5. phase' = "Initialize" => Complete(parser.sections)'
    BY <2>1, CompleteNext
  <2>6. prog' \in Programs
    BY <2>1 DEF Orderly
  <2>7. NoneLonger
    BY <2>2, SameSections
  <2> QED
    BY <2>1, <2>3, <2>4, <2>5, <2>6, <2>7 DEF Orderly
<1>3. ASSUME Initialize
      PROVE  Orderly' /\ NoneLonger
  <2>1. /\ sections = <<>> /\ phase' \in {"Calculate", "Error"} /\ prog' = prog
        /\ phase' = "Calculate" => Kept(sections')
    BY <1>3, Initialize_
  <2>2. Places(sections) = {}
    BY <2>1, EmptyRow DEF Places
  <2>3. NoneLonger
    BY <2>2 DEF NoneLonger
  <2>4. phase' = "Calculate" => Kept(sections)'
    BY <2>1
  <2> QED
    BY <2>1, <2>3, <2>4 DEF Orderly
<1>4. ASSUME CalculationPhase
      PROVE  Orderly' /\ NoneLonger
  <2>1. phase = "Calculate" /\ prog' = prog /\ sections' = sections
    BY <1>4 DEF CalculationPhase
  <2>2. \E ok : phase' = IF ok THEN "Evaluate" ELSE "Error"
    BY <1>4, Zenon DEF CalculationPhase, Calculated
  <2>3. Kept(sections)' /\ NoneLonger
    BY <2>1, SameSections DEF Orderly
  <2>4. phase' \in {"Evaluate", "Error"}
    BY <2>2
  <2> QED
    BY <2>1, <2>3, <2>4 DEF Orderly
<1>5. ASSUME EvaluationPhase
      PROVE  Orderly' /\ NoneLonger
  <2>1. phase = "Evaluate" /\ prog' = prog
    BY <1>5 DEF EvaluationPhase
  <2>2. \E ok : phase' = IF ok THEN "Optimize" ELSE "Error"
    BY <1>5, Zenon DEF EvaluationPhase, Evaluated
  <2>3. Lessened(sections, sections')
    BY <1>5, <2>1, EvaluationLessens DEF Orderly
  <2> QED
    BY <2>1, <2>2, <2>3, LayoutStep
<1>6. ASSUME OptimizationPhase
      PROVE  Orderly' /\ NoneLonger
  <2>1. phase = "Optimize" /\ prog' = prog
    BY <1>6 DEF OptimizationPhase
  <2>2. \E ok, again : phase' = IF ~ok THEN "Error" ELSE IF again THEN "Calculate" ELSE "Generate"
    BY <1>6, Zenon DEF OptimizationPhase
  <2>3. phase' \in {"Error", "Calculate", "Generate"}
    BY <2>2
  <2>4. Lessened(sections, sections')
    BY <1>6, <2>1, OptimizationLessens DEF Orderly
  <2> QED
    BY <2>1, <2>3, <2>4, LayoutStep
<1>7. ASSUME GenerateCode
      PROVE  Orderly' /\ NoneLonger
  <2>1. phase = "Generate" /\ prog' = prog /\ phase' = "Align"
    BY <1>7 DEF GenerateCode
  <2>2. Lessened(sections, sections')
    BY <1>7, <2>1, GenerationLessens DEF Orderly
  <2> QED
    BY <2>1, <2>2, LayoutStep
<1>8. ASSUME setAlignments
      PROVE  Orderly' /\ NoneLonger
  <2>1. phase = "Align" /\ prog' = prog /\ phase' = "Write"
    BY <1>8, Zenon DEF setAlignments
  <2>2. Lessened(sections, sections')
    BY <1>8, <2>1, AlignmentLessens DEF Orderly
  <2> QED
    BY <2>1, <2>2, LayoutStep
<1>9. ASSUME WriteBinary \/ WriteELF
      PROVE  Orderly' /\ NoneLonger
  <2>1. prog' = prog /\ UNCHANGED encoder
    BY <1>9, Zenon DEF WriteBinary, WriteELF
  <2>2. \E ok : phase' = (IF ok THEN "Done" ELSE "Error") \/ phase' = (IF ok THEN "Error" ELSE "Done")
    BY <1>9, Zenon DEF WriteBinary, WriteELF
  <2>3. phase' \in {"Done", "Error"}
    BY <2>2
  <2>4. sections' = sections
    BY <2>1 DEF encoder
  <2>5. NoneLonger
    BY <2>4, SameSections
  <2> QED
    BY <2>1, <2>3, <2>5 DEF Orderly
<1>10. CASE UNCHANGED vars
  BY <1>1, <1>10
<1>11. CASE Next
  BY <1>1, <1>2, <1>3, <1>4, <1>5, <1>6, <1>7, <1>8, <1>9, <1>11 DEF Next, Encode, Finished
<1> QED
  BY <1>10, <1>11

-----------------------------------------------------------------------------
(* The theorems *)

LEMMA OrderlyAlways == Spec => []Orderly
<1>1. Init => Orderly
  BY OrderlyInit
<1>2. Orderly /\ [Next]_vars => Orderly'
  BY OrderlyStep
<1> QED
  BY <1>1, <1>2, PTL DEF Spec

\* Whatever lines a program has, when the parser (tools/lasm/Parser) is done
\* each section holds the statements that stand in it, each once and in the
\* order of the lines, no two sections have one name, and no statement is lost:
\* those in front of the first directive, and those of a section that is opened
\* again, included.
THEOREM ParserKeepsOrder == Spec => []StatementsInOrder
<1>1. Orderly => StatementsInOrder
  <2> SUFFICES ASSUME Orderly, phase = "Initialize" PROVE StatementsInOrder
    BY DEF StatementsInOrder
  <2>1. PICK secs : secs = parser.sections
    OBVIOUS
  <2>2. Complete(secs)
    BY <2>1 DEF Orderly
  <2>3. \A j \in DOMAIN secs :
          InOrder([k \in DOMAIN secs[j].entries |-> secs[j].entries[k].line],
                  {n \in Statements : SectionOf(n) = secs[j].name})
    BY <2>2 DEF Complete, Filled, Tags, Whole
  <2> QED
    BY <2>1, <2>2, <2>3, Zenon DEF StatementsInOrder, Complete
<1> QED
  BY <1>1, OrderlyAlways, PTL

\* Whatever lines a program has, no pass of the encoder makes an entry of a
\* section longer (Encoder::OptimizationPhase and the optimize of every
\* instruction), so the loop over the passes works its way down.
THEOREM LayoutShrinks == Spec => NeverGrows
<1>1. Orderly /\ [Next]_vars => NoneLonger
  BY OrderlyStep
<1>2. Orderly /\ [Next]_vars => [\A p \in Places(sections) : Shrinks(Entry(sections, p), Entry(sections', p))]_vars
  BY <1>1 DEF NoneLonger
<1> QED
  BY <1>2, OrderlyAlways, PTL DEF Spec, NeverGrows
=============================================================================
