----------------------------- MODULE BfMachine -----------------------------
(***************************************************************************)
(* What lbf's language means: a machine that walks over the text of a      *)
(* program, with a tape of bytes that has a left end and no right one.     *)
(* A step executes any number of equal commands that stand in a row.       *)
(***************************************************************************)
EXTENDS BfText

CONSTANTS Byte,     \* the number of values of a cell
          LastCell  \* the tape is looked at up to this cell

VARIABLES text,   \* the commands of the program
          ip,     \* the command to execute next
          cell,   \* the values of the cells
          pos,    \* the cell of the head
          input,  \* what is left of the input
          output

vars == <<text, ip, cell, pos, input, output>>

-----------------------------------------------------------------------------
Started ==
    /\ ip = 1
    /\ cell = [p \in 0..LastCell |-> 0]
    /\ pos = 0
    /\ output = <<>>

Row(c) == {n \in 1..Len(text) : ip + n - 1 <= Len(text) /\ \A k \in 0..(n - 1) : text[ip + k] = c}

Put(v) == cell' = [cell EXCEPT ![pos] = v % Byte]

Right == \E n \in Row(">") :
    pos' = pos + n /\ ip' = ip + n /\ UNCHANGED <<text, cell, input, output>>

\* The tape ends at the left.
Left == \E n \in Row("<") :
    /\ pos' = IF n > pos THEN 0 ELSE pos - n
    /\ ip' = ip + n
    /\ UNCHANGED <<text, cell, input, output>>

Increase == \E n \in Row("+") :
    Put(cell[pos] + n) /\ ip' = ip + n /\ UNCHANGED <<text, pos, input, output>>

Decrease == \E n \in Row("-") :
    Put(cell[pos] - n) /\ ip' = ip + n /\ UNCHANGED <<text, pos, input, output>>

At(c) == ip <= Len(text) /\ text[ip] = c

\* "=" and all digits behind it.
Set ==
    /\ At("=")
    /\ \E n \in ip..Len(text) :
        /\ \A k \in (ip + 1)..n : text[k] \in DigitSet
        /\ n < Len(text) => text[n + 1] \notin DigitSet
        /\ Put(Number(text, ip + 1, n))
        /\ ip' = n + 1
    /\ UNCHANGED <<text, pos, input, output>>

Write ==
    /\ At(".")
    /\ output' = Append(output, cell[pos])
    /\ ip' = ip + 1
    /\ UNCHANGED <<text, cell, pos, input>>

\* The end of the input reads as the largest byte.
Read ==
    /\ At(",")
    /\ Put(IF input = <<>> THEN Byte - 1 ELSE Head(input))
    /\ input' = IF input = <<>> THEN <<>> ELSE Tail(input)
    /\ ip' = ip + 1
    /\ UNCHANGED <<text, pos, output>>

Open ==
    /\ At("[")
    /\ IF cell[pos] # 0 THEN ip' = ip + 1
       ELSE \E k \in 1..Len(text) : Matches(text, ip, k) /\ ip' = k + 1
    /\ UNCHANGED <<text, cell, pos, input, output>>

Close ==
    /\ At("]")
    /\ IF cell[pos] = 0 THEN ip' = ip + 1
       ELSE \E k \in 1..Len(text) : Matches(text, k, ip) /\ ip' = k + 1
    /\ UNCHANGED <<text, cell, pos, input, output>>

\* Another program is started.
Restart == Started'

Unspecified == Stray(text) /\ text' = text

Next == \/ Right \/ Left \/ Increase \/ Decrease \/ Set \/ Write \/ Read \/ Open \/ Close
        \/ Restart \/ Unspecified

Spec == Started /\ [][Next]_vars
=============================================================================
