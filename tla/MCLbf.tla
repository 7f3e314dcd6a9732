------------------------------- MODULE MCLbf -------------------------------
(***************************************************************************)
(* Every text of up to three characters, and longer programs.              *)
(***************************************************************************)
EXTENDS Lbf

\* A character of each kind; cells have three values, so that "=9" wraps and
\* a row of three moves is one compile cuts.
Kinds == {">", "<", "+", "-", ".", ",", "[", "]", "=", "9", "#", "newline", "letter", "byte 255"}

Short == UNION {[1..n -> Kinds] : n \in 0..3}

Long ==
    { \* a loop in a loop, and one that is skipped
      <<"+", "+", "[", "-", ">", "=", "1", "[", "-", "]", "<", "]", "[", ".", "]", ".">>,
      \* the left end, and numbers over comments
      <<">", ">", "<", "<", "<", "+", ".", "=", "1", "#", "9", "newline", "1", ".">>,
      \* the tape grows twice, and what is new is empty
      <<"+", ">", ">", ".", "+", ">", ">", "<", "<", ".", "<", "<", ".">>,
      \* a number between commands that compile runs together with others
      <<"=", "2", "+", "+", ".", "-", "=", "0", "0", "-", "-", ".">>,
      \* copies input to output until it ends
      <<"+", "[", ",", ".", "+", "]">>,
      \* rows that are longer than a cell can count
      <<"+", "+", "+", "+", ".", ">", ">", ">", ">", "+", "<", "<", "<", ".">>,
      \* never ends
      <<"+", "[", ".", "[", "]">>, <<"+", "[", "]">>, <<"+", "[", ">", "+", "]">>,
      \* digits without a command
      <<"+", "1", "[", "1", "-", "]", "1", ".">>, <<"1", "2", "[", "]">> }

MCCharacters == Commands \cup Kinds
MCSources == Short \cup Long
MCInputs == {<<>>, <<1, 2>>}
=============================================================================
