------------------------------- MODULE BfText -------------------------------
(***************************************************************************)
(* The commands of lbf's language and how they belong together.            *)
(***************************************************************************)
EXTENDS Integers, Sequences

Moves == {">", "<", "+", "-"}
Digits == <<"0", "1", "2", "3", "4", "5", "6", "7", "8", "9">>
DigitSet == {Digits[d] : d \in DOMAIN Digits}
Commands == Moves \cup {".", ",", "[", "]", "="} \cup DigitSet

DigitValue(c) == (CHOOSE d \in DOMAIN Digits : Digits[d] = c) - 1

\* The number that the digits t[from..to] make.
Number(t, from, to) ==
    LET n[k \in (from - 1)..to] == IF k < from THEN 0 ELSE 10 * n[k - 1] + DigitValue(t[k])
    IN  n[to]

\* How deep t[k] lies in brackets, counted from from.
Depth(t, from, k) ==
    LET d[j \in (from - 1)..k] ==
            IF j < from THEN 0
            ELSE d[j - 1] + (CASE t[j] = "[" -> 1 [] t[j] = "]" -> -1 [] OTHER -> 0)
    IN  d[k]

\* t[open] and t[close] are brackets that belong together.
Matches(t, open, close) ==
    /\ t[open] = "[" /\ t[close] = "]" /\ open < close
    /\ Depth(t, open, close) = 0
    /\ \A k \in open..(close - 1) : Depth(t, open, k) > 0

Balanced(t) ==
    \A k \in 1..Len(t) :
        /\ t[k] = "[" => \E j \in 1..Len(t) : Matches(t, k, j)
        /\ t[k] = "]" => \E j \in 1..Len(t) : Matches(t, j, k)

\* Digits that belong to no "=" have no meaning: of a text with such digits
\* nothing is promised.
Stray(t) ==
    \E k \in 1..Len(t) :
        t[k] \in DigitSet /\ \A j \in 1..k : t[j] = "=" => \E m \in j..k : t[m] \notin DigitSet \cup {"="}

\* What is left of a file without comments and what is no command.
CommandsOf(source) ==
    LET commented(k) == \E j \in 1..k : source[j] = "#" /\ \A m \in j..k : source[m] # "newline"
        left[k \in 0..Len(source)] ==
            IF k = 0 THEN <<>>
            ELSE IF commented(k) \/ source[k] \notin Commands THEN left[k - 1]
            ELSE Append(left[k - 1], source[k])
    IN  left[Len(source)]
=============================================================================
