------------------------------ MODULE AsmExpr ------------------------------
(* Expressions of the assembler (tools/lasm/Encoder/ShuntingYard.cpp and     *)
(* Evaluate.cpp): infix operands become postfix tokens, the tokens are       *)
(* evaluated for two different starts of the section they name, and the two  *)
(* results tell a number from a place the linker has to fill in.             *)
(*                                                                           *)
(* An expression is the sequence of its operands:                            *)
(*   [t |-> "num", n], [t |-> "op", op], [t |-> "str", name],                *)
(*   [t |-> "pos", start]  ("$$" when start, else "$"), and                  *)
(*   [t |-> "big", w]      a literal of more than 32 bits, only on its own.  *)
(* Left out: a unary minus before a label or "$", whose 64-bit wrap-around   *)
(* no number here can hold, and the operator "^", which evaluate() refuses.  *)
EXTENDS X86, SequencesExt

Num(n)  == [t |-> "num", n |-> n]
Oper(o) == [t |-> "op", op |-> o]
Name(s) == [t |-> "str", name |-> s]
Here    == [t |-> "pos", start |-> FALSE]

\* The two starts that the code tries are Step apart; Far stands for the
\* start of a section nobody knows (348234582348 in the code).
Far  == 100000
Step == 65536

precedence == ("+" :> 1 @@ "-" :> 1 @@ "*" :> 2 @@ "/" :> 2 @@ "%" :> 2)

Number(n) == [t |-> "num", n |-> n]
Position(offset) == [t |-> "pos", offset |-> offset]

\* The operators at the top of the stack that leave it before op is pushed:
\* everything down to an open parenthesis or to a weaker operator.
Keep(stack, stays(_)) ==
    LET kept == {k \in DOMAIN stack : stays(stack[k])}
    IN  IF kept = {} THEN 0 ELSE Max(kept)
Pop(s, n) == [s EXCEPT !.out = @ \o Reverse([k \in 1..(Len(s.stack) - n) |->
                                            [t |-> "op", op |-> s.stack[n + k]]]),
                       !.stack = SubSeq(@, 1, n)]

\* One value operand: which section it binds the expression to, and whether
\* it disagrees with an earlier one.
Bind(s, section, token) ==
    [s EXCEPT !.out = Append(@, token), !.minus = FALSE,
              !.relocationPossible = @ /\ (s.useSection => section = s.usedSection),
              !.usedSection = section, !.useSection = TRUE]

NameOperand(s, name, labels, constants) ==
    IF name \in DOMAIN labels
    THEN LET l == labels[name]
         IN  [IF l.isExtern THEN Bind(s, name, Position(0)) ELSE Bind(s, l.section, Position(l.offset))
                 EXCEPT !.isExtern = l.isExtern]
    ELSE IF name \notin DOMAIN constants THEN [s EXCEPT !.ok = FALSE]
    ELSE LET c == constants[name]
             blocked == \/ s.useSection /\ c.hasPos /\ c.usedSection # s.usedSection
                        \/ ~c.relocationPossible
             r == [s EXCEPT !.ok = @ /\ c.resolved, !.minus = FALSE,
                            !.relocationPossible = @ /\ ~blocked]
         IN  IF c.useOffset
             THEN [r EXCEPT !.out = Append(@, Position(c.off)),
                            !.usedSection = c.usedSection, !.useSection = TRUE]
             ELSE [r EXCEPT !.out = Append(@, Number(IF s.minus THEN -c.value ELSE c.value))]

OperatorOperand(s, op, first, afterOperator) ==
    CASE op = "-" /\ (first \/ afterOperator) -> [s EXCEPT !.minus = TRUE]
      [] op = "(" -> [s EXCEPT !.stack = Append(@, op)]
      [] op = ")" ->
            LET n == Keep(s.stack, LAMBDA o : o = "(")
            IN  IF n = 0 THEN [s EXCEPT !.ok = FALSE]
                ELSE [Pop(s, n) EXCEPT !.stack = SubSeq(s.stack, 1, n - 1)]
      [] OTHER ->
            LET n == Keep(s.stack, LAMBDA o : o = "(" \/ precedence[o] < precedence[op])
            IN  [Pop(s, n) EXCEPT !.stack = Append(@, op)]

ReadOperand(s, operands, k, labels, constants, secOffset, curSection) ==
    LET o == operands[k]
    IN  CASE ~s.ok -> s
          [] s.ok /\ o.t = "num" ->
                [s EXCEPT !.out = Append(@, Number(IF s.minus THEN -o.n ELSE o.n)), !.minus = FALSE]
          [] s.ok /\ o.t = "str" -> NameOperand(s, o.name, labels, constants)
          [] s.ok /\ o.t = "pos" -> Bind(s, curSection, Position(IF o.start THEN 0 ELSE secOffset))
          [] s.ok /\ o.t = "op" ->
                OperatorOperand(s, o.op, k = 1, k > 1 /\ operands[k-1].t = "op" /\ operands[k-1].op # ")")

\* What is left on the stack ends the postfix form.
Rest(s) == [Pop(s, 0) EXCEPT !.ok = @ /\ "(" \notin Elems(s.stack)]

prepareTokens(operands, labels, constants, secOffset, curSection) ==
    Rest(FoldLeft(LAMBDA s, k : ReadOperand(s, operands, k, labels, constants, secOffset, curSection),
                  [ok |-> TRUE, out |-> <<>>, stack |-> <<>>, minus |-> FALSE,
                   relocationPossible |-> TRUE, useSection |-> FALSE,
                   usedSection |-> curSection, isExtern |-> FALSE],
                  [k \in DOMAIN operands |-> k]))

\* Division of C++ cuts towards zero.
Quotient(a, b) == LET q == (IF a < 0 THEN -a ELSE a) \div (IF b < 0 THEN -b ELSE b)
                  IN  IF (a < 0) = (b < 0) THEN q ELSE -q

Apply(op, a, b) == CASE op = "+" -> a + b [] op = "-" -> a - b [] op = "*" -> a * b
                     [] op = "/" -> Quotient(a, b) [] op = "%" -> a - b * Quotient(a, b)

EvaluateToken(s, token, offset) ==
    LET n == Len(s.stack)
    IN  CASE ~s.ok -> s
          [] s.ok /\ token.t = "num" -> [s EXCEPT !.stack = Append(@, token.n)]
          [] s.ok /\ token.t = "pos" -> [s EXCEPT !.stack = Append(@, token.offset + offset)]
          [] s.ok /\ token.t = "op" ->
                IF n < 2 \/ (token.op \in {"/", "%"} /\ s.stack[n] = 0)
                THEN [s EXCEPT !.ok = FALSE]
                ELSE [s EXCEPT !.stack = Append(SubSeq(@, 1, n - 2), Apply(token.op, @[n - 1], @[n]))]

Outcome(end) == [ok |-> end.ok /\ Len(end.stack) = 1, n |-> IF end.stack = <<>> THEN 0 ELSE end.stack[1]]

\* The value of postfix tokens for a section that starts at offset.
evaluate(tokens, offset) ==
    Outcome(FoldLeft(LAMBDA s, token : EvaluateToken(s, token, offset), [ok |-> TRUE, stack |-> <<>>], tokens))

-----------------------------------------------------------------------------
(* Evaluate(): "word" is what the use of the expression keeps, the offset    *)
(* into a section (useOffset) or the number.                                 *)

Evaluation(useOffset, possible, n, tokens, ok) ==
    [ok |-> ok, useOffset |-> useOffset, relocationPossible |-> possible, n |-> n, word |-> Bytes(n),
     usedSection |-> tokens.usedSection, isExtern |-> possible /\ tokens.isExtern]

\* A literal of more than 32 bits.
EvaluateBig(operands, at) ==
    [Evaluation(FALSE, TRUE, 0, [usedSection |-> at.section, isExtern |-> FALSE], Len(operands) = 1)
        EXCEPT !.word = operands[1].w]

\* The values r1 and r2 for the two starts of the section, the first of them
\* base, tell what the expression is.
EvaluateRip(tokens, at, ripExtra, base, r1, r2) ==
    LET result(useOffset, n) == Evaluation(useOffset, TRUE, n, tokens, r1.ok /\ r2.ok)
    IN  CASE r2.n = r1.n + Step /\ tokens.useSection /\ tokens.usedSection = at.section ->
                result(FALSE, r1.n - at.written - ripExtra)
          [] ~tokens.useSection -> result(FALSE, r1.n - at.offset - ripExtra)
          [] OTHER -> result(TRUE, IF tokens.isExtern THEN 0 ELSE r1.n - at.written - base)

EvaluateAbsolute(tokens, base, r1, r2) ==
    LET result(useOffset, possible, n) == Evaluation(useOffset, possible, n, tokens, r1.ok /\ r2.ok)
    IN  CASE r1.n = r2.n -> result(FALSE, TRUE, r1.n)
          [] r2.n = r1.n + Step -> result(TRUE, TRUE, r1.n - base)
          [] OTHER -> result(FALSE, FALSE, r1.n)

EvaluateTwice(tokens, at, ripRelative, ripExtra, base, r1, r2) ==
    IF ripRelative THEN EvaluateRip(tokens, at, ripExtra, base, r1, r2)
    ELSE EvaluateAbsolute(tokens, base, r1, r2)

EvaluateFrom(tokens, at, ripRelative, ripExtra, base) ==
    EvaluateTwice(tokens, at, ripRelative, ripExtra, base,
                  evaluate(tokens.out, base), evaluate(tokens.out, base + Step))

\* An expression that mixes sections is a number all the same.
EvaluateHere(tokens, r) == Evaluation(FALSE, FALSE, r.n, tokens, r.ok)

EvaluateTokens(tokens, at, starts, ripRelative, ripExtra) ==
    LET known == tokens.useSection /\ ~tokens.isExtern
        lost == known /\ tokens.usedSection \notin DOMAIN starts
    IN  CASE ~tokens.ok \/ (tokens.relocationPossible /\ lost) -> Evaluation(FALSE, FALSE, 0, tokens, FALSE)
          [] tokens.ok /\ ~tokens.relocationPossible ->
                EvaluateHere(tokens, evaluate(tokens.out, at.written - at.offset))
          [] OTHER -> EvaluateFrom(tokens, at, ripRelative, ripExtra,
                                   IF known THEN starts[tokens.usedSection] ELSE Far)

Evaluate(operands, at, labels, constants, starts, ripRelative, ripExtra) ==
    IF \E k \in DOMAIN operands : operands[k].t = "big" THEN EvaluateBig(operands, at)
    ELSE EvaluateTokens(prepareTokens(operands, labels, constants, at.offset, at.section),
                        at, starts, ripRelative, ripExtra)
=============================================================================
