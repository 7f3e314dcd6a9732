-------------------------------- MODULE Lbf --------------------------------
(***************************************************************************)
(* lbf: main.c reads a program and gathers its commands into operations    *)
(* with a number each, interpreter.c executes these on a growing tape, and *)
(* compiler.c writes them as a program without "=" and digits.  A behaviour*)
(* is three processes: the program is run, translated, and the translation *)
(* is run on the same input.                                               *)
(***************************************************************************)
EXTENDS BfText, SequencesExt

CONSTANTS Byte,        \* the number of values of TAPE_WIDTH and of an unsigned char
          InitialSize, \* INITIAL_SIZE_MIN
          MemorySize,  \* cells the system has
          Characters,  \* what a file holds, the commands among it
          Sources,     \* texts of programs: sequences of characters
          Inputs       \* what the user types

ASSUME SizeAssumption == /\ Byte \in Nat \ {0, 1}
                         /\ InitialSize \in Nat \ {0}
                         /\ MemorySize \in Nat /\ MemorySize >= InitialSize

\* What is typed is bytes.
ASSUME TextAssumption == /\ Commands \subseteq Characters
                         /\ Sources \subseteq Seq(Characters)
                         /\ Inputs \subseteq Seq(0..(Byte - 1))

VARIABLES source,     \* the characters of the file
          process,    \* 1: run, 2: translated with -c, 3: the translation is run
          phase,
          raw,        \* rawProgram
          inComment,
          i,          \* the place in the text that is being read: file, raw or program
          programSize, index, stack,
          program, meta,
          place,      \* where in raw an operation begins (history)
          tape, pos,
          typed,      \* all input
          input, output,
          compiled,   \* the file written with -c
          ranOutput,  \* what process 1 printed (history)
          faithful    \* a plain program of which compile cut no row of moves (history)

reading == <<source, process, raw, inComment>>
parsing == <<programSize, index, stack, program, meta, place>>
running == <<tape, pos, input, output>>
files   == <<typed, compiled, ranOutput, faithful>>
vars    == <<reading, phase, i, parsing, running, files>>

-----------------------------------------------------------------------------
\* Nothing is promised about digits without "=" and about files that read as
\* if they ended early.
Plain == ~Stray(CommandsOf(source)) /\ \A k \in DOMAIN source : source[k] # "byte 255"

Fresh ==
    /\ phase = "Read"
    /\ raw = <<>> /\ inComment = FALSE /\ i = 1
    /\ programSize = 0 /\ index = 1 /\ stack = <<>>
    /\ program = <<>> /\ meta = <<>> /\ place = <<>>
    /\ tape = [p \in 1..InitialSize |-> 0] /\ pos = 0
    /\ output = <<>>

Init ==
    /\ source \in Sources
    /\ process = 1
    /\ typed \in Inputs
    /\ input = typed
    /\ compiled = <<>> /\ ranOutput = <<>>
    /\ faithful = Plain
    /\ Fresh

\* Byte 255 looks like the end of the file, as fgetc's answer is kept in a char.
More == i <= Len(source) /\ source[i] # "byte 255"

ReadChar ==
    /\ phase = "Read"
    /\ More
    /\ LET c == source[i] IN
        /\ inComment' = (IF inComment THEN c # "newline" ELSE c = "#")
        /\ raw' = IF ~inComment /\ c \in Commands THEN Append(raw, c) ELSE raw
    /\ i' = i + 1
    /\ UNCHANGED <<source, process, phase, parsing, running, files>>

ReadEnd ==
    /\ phase = "Read"
    /\ ~More
    /\ phase' = "Count"
    /\ i' = 1
    /\ UNCHANGED <<reading, parsing, running, files>>

\* The commands raw[from..until - 1] belong to one operation.
RunEnd(from, chars) ==
    LET ends == {k \in (from + 1)..Len(raw) : raw[k] \notin chars}
    IN  IF ends = {} THEN Len(raw) + 1 ELSE CHOOSE k \in ends : \A j \in ends : k <= j

\* Mutated: brackets in a row are gathered like moves.
untilBrackets(from) ==
    IF raw[from] = "=" THEN RunEnd(from, DigitSet)
    ELSE IF raw[from] \in Moves \cup {"[", "]"} THEN RunEnd(from, {raw[from]}) ELSE from + 1

until(from) ==
    CASE raw[from] \in Moves -> RunEnd(from, {raw[from]})
      [] raw[from] = "="       -> RunEnd(from, DigitSet)
      [] OTHER                 -> from + 1

\* A digit alone is no operation.
Count ==
    /\ phase = "Count"
    /\ i <= Len(raw)
    /\ programSize' = programSize + (IF raw[i] \in DigitSet THEN 0 ELSE 1)
    /\ i' = until(i)
    /\ UNCHANGED <<reading, phase, index, stack, program, meta, place, running, files>>

Allocate ==
    /\ phase = "Count"
    /\ i > Len(raw)
    /\ program' = [k \in 1..programSize |-> "junk"]
    /\ meta' = [k \in 1..programSize |-> 0]
    /\ place' = [k \in 1..programSize |-> 0]
    /\ phase' = "Fill"
    /\ i' = 1
    /\ UNCHANGED <<reading, programSize, index, stack, running, files>>

\* Writing behind the end of an array is lost or ends the process.
Stored(array, k, v) == IF k \in DOMAIN array THEN [array EXCEPT ![k] = v] ELSE array
Beyond == index > programSize

metaOf(from) ==
    IF raw[from] = "=" THEN Number(raw, from + 1, until(from) - 1) ELSE until(from) - from

Fills(c, number) ==
    /\ program' = Stored(program, index, c)
    /\ meta' = Stored(number, index, metaOf(i))
    /\ place' = Stored(place, index, i)

FillOpen ==
    /\ program' = Stored(program, index, "[")
    /\ place' = Stored(place, index, i)
    /\ stack' = Append(stack, index)
    /\ UNCHANGED meta

FillClose ==
    /\ stack # <<>>
    /\ program' = Stored(program, index, "]")
    /\ place' = Stored(place, index, i)
    /\ meta' = Stored(Stored(meta, index, Last(stack)), Last(stack), index)
    /\ stack' = Front(stack)

\* What has a slot of its own although Count did not count it.
FillStray == raw[i] \in DigitSet /\ UNCHANGED <<program, meta, place, stack>>

Fill ==
    /\ phase = "Fill"
    /\ i <= Len(raw)
    /\ \/ raw[i] = "[" /\ FillOpen
       \/ raw[i] = "]" /\ FillClose
       \/ raw[i] \in {".", ","} \cup Moves \cup {"="} /\ Fills(raw[i], meta) /\ UNCHANGED stack
       \/ FillStray
    /\ index' = index + 1
    /\ i' = until(i)
    /\ phase' \in {"Fill"} \cup {p \in {"Crash"} : Beyond /\ raw[i] \notin DigitSet}
    /\ UNCHANGED <<reading, programSize, running, files>>

\* An unmatched "]" is met, or an unmatched "[" is left.
Unmatched ==
    /\ phase = "Fill"
    /\ \/ i <= Len(raw) /\ raw[i] = "]" /\ stack = <<>>
       \/ i > Len(raw) /\ stack # <<>>
    /\ phase' = "Error"
    /\ UNCHANGED <<reading, i, parsing, running, files>>

Parsed ==
    /\ phase = "Fill"
    /\ i > Len(raw) /\ stack = <<>>
    /\ phase' = IF process = 2 THEN "Compile" ELSE "Run"
    /\ i' = 1
    /\ UNCHANGED <<reading, parsing, running, files>>

-----------------------------------------------------------------------------
(* interpret *)

At(c) == phase = "Run" /\ i <= programSize /\ program[i] = c
Advance == i' = i + 1

Put(v) == tape' = [tape EXCEPT ![pos + 1] = v % Byte]

\* The new length of the tape so that it has a cell to: it doubles until then.
Doubled(to) ==
    LET length[k \in 0..to] == IF k = 0 THEN Len(tape) ELSE 2 * length[k - 1]
        enough == {n \in {length[k] : k \in 0..to} : n > to}
    IN  CHOOSE n \in enough : \A m \in enough : n <= m

\* Mutated: what realloc adds is not cleared.
EnsuredUncleared(to) == tape \o [p \in 1..(Doubled(to) - Len(tape)) |-> Byte - 1]

Ensured(to) == tape \o [p \in 1..(Doubled(to) - Len(tape)) |-> 0]

\* Nothing checks that the memory for a longer tape is there.
Tape_Right ==
    /\ At(">")
    /\ IF Doubled(pos + meta[i]) <= MemorySize
       THEN /\ pos' = pos + meta[i]
            /\ tape' = Ensured(pos + meta[i])
            /\ Advance /\ UNCHANGED phase
       ELSE phase' = "Exhausted" /\ UNCHANGED <<pos, tape, i>>
    /\ UNCHANGED <<reading, parsing, input, output, files>>

Tape_Left ==
    /\ At("<")
    /\ pos' = IF meta[i] > pos THEN 0 ELSE pos - meta[i]
    /\ Advance
    /\ UNCHANGED <<reading, phase, parsing, tape, input, output, files>>

Tape_Change ==
    /\ \/ At("+") /\ Put(tape[pos + 1] + (meta[i] % Byte))
       \/ At("-") /\ Put(tape[pos + 1] - (meta[i] % Byte))
       \/ At("=") /\ Put(meta[i] % Byte)
    /\ Advance
    /\ UNCHANGED <<reading, phase, parsing, pos, input, output, files>>

Tape_Get ==
    /\ At(".")
    /\ output' = Append(output, tape[pos + 1])
    /\ Advance
    /\ UNCHANGED <<reading, phase, parsing, tape, pos, input, files>>

\* getchar's EOF, cut to the width of a cell.
Tape_Set ==
    /\ At(",")
    /\ IF input = <<>> THEN Put(-1) /\ UNCHANGED input
       ELSE Put(Head(input)) /\ input' = Tail(input)
    /\ Advance
    /\ UNCHANGED <<reading, phase, parsing, pos, output, files>>

Loop ==
    /\ \/ At("[") /\ i' = (IF tape[pos + 1] = 0 THEN meta[i] ELSE i) + 1
       \/ At("]") /\ i' = (IF tape[pos + 1] # 0 THEN meta[i] ELSE i) + 1
    /\ UNCHANGED <<reading, phase, parsing, running, files>>

\* A slot that was never written is not a command, or ends the process.
Junk ==
    /\ At("junk")
    /\ Advance
    /\ phase' \in {"Run", "Crash"}
    /\ UNCHANGED <<reading, parsing, running, files>>

RunEnds ==
    /\ phase = "Run"
    /\ i > programSize
    /\ phase' = "Done"
    /\ UNCHANGED <<reading, i, parsing, running, files>>

-----------------------------------------------------------------------------
(* compile *)

Times(c, n) == [k \in 1..n |-> c]

\* Mutated: "=" adds to what the cell holds.
translationAdding(k) ==
    IF program[k] \in Moves \cup {"="}
    THEN Times(IF program[k] = "=" THEN "+" ELSE program[k], meta[k] % Byte)
    ELSE IF program[k] \in {".", ",", "[", "]"} THEN <<program[k]>> ELSE <<>>

\* Mutated: the loop that clears the cell is empty.
translationStuck(k) ==
    CASE program[k] \in Moves -> Times(program[k], meta[k] % Byte)
      [] program[k] \in {".", ",", "[", "]"} -> <<program[k]>>
      [] program[k] = "=" -> <<"[", "]">> \o Times("+", meta[k] % Byte)
      [] OTHER -> <<>>

\* The commands for operation k.
translation(k) ==
    CASE program[k] \in Moves -> Times(program[k], meta[k] % Byte)
      [] program[k] \in {".", ",", "[", "]"} -> <<program[k]>>
      [] program[k] = "=" -> <<"[", "-", "]">> \o Times("+", meta[k] % Byte)
      [] OTHER -> <<>>

Compile ==
    /\ phase = "Compile"
    /\ i <= programSize
    /\ compiled' = compiled \o translation(i)
    /\ faithful' = (faithful /\ (program[i] \in {"<", ">"} => meta[i] < Byte))
    /\ Advance
    /\ UNCHANGED <<reading, phase, parsing, running, typed, ranOutput>>

Compiled ==
    /\ phase = "Compile"
    /\ i > programSize
    /\ phase' = "Done"
    /\ UNCHANGED <<reading, i, parsing, running, files>>

-----------------------------------------------------------------------------
\* The next process: the same file with -c, then the translation.
NextProcess ==
    /\ phase = "Done" /\ process < 3
    /\ process' = process + 1
    /\ source' = IF process = 2 THEN compiled ELSE source
    /\ ranOutput' = IF process = 1 THEN output ELSE ranOutput
    /\ input' = typed
    /\ phase' = "Read"
    /\ raw' = <<>> /\ inComment' = FALSE /\ i' = 1
    /\ programSize' = 0 /\ index' = 1 /\ stack' = <<>>
    /\ program' = <<>> /\ meta' = <<>> /\ place' = <<>>
    /\ tape' = [p \in 1..InitialSize |-> 0] /\ pos' = 0
    /\ output' = <<>>
    /\ UNCHANGED <<typed, compiled, faithful>>

Over ==
    /\ phase \in {"Error", "Crash", "Exhausted"} \/ (phase = "Done" /\ process = 3)
    /\ UNCHANGED vars

Next == \/ ReadChar \/ ReadEnd \/ Count \/ Allocate \/ Fill \/ Unmatched \/ Parsed
        \/ Tape_Right \/ Tape_Left \/ Tape_Change \/ Tape_Get \/ Tape_Set \/ Loop \/ Junk \/ RunEnds
        \/ Compile \/ Compiled \/ NextProcess \/ Over

\* One process after the other, each of one thread.
Spec == Init /\ [][Next]_vars /\ WF_vars(Next)

-----------------------------------------------------------------------------
\* Each process that runs a program does, operation by operation, what the
\* machine does that walks over the text command by command.
Machine == INSTANCE BfMachine WITH
    LastCell <- MemorySize - 1,
    text <- IF Plain THEN CommandsOf(source) ELSE <<"0">>,
    ip <- IF Plain /\ phase \in {"Run", "Done", "Exhausted"} /\ process # 2
          THEN IF i <= programSize THEN place[i] ELSE Len(raw) + 1
          ELSE 1,
    cell <- [p \in 0..(MemorySize - 1) |-> IF p < Len(tape) THEN tape[p + 1] ELSE 0]

ImplementsMachine == Machine!Spec

\* A program is refused if and only if its brackets do not match.
RefusesOnlyUnbalanced ==
    /\ phase = "Error" => ~Balanced(CommandsOf(source))
    /\ phase \in {"Run", "Compile"} => Balanced(CommandsOf(source))

\* The second pass of main.c fills the slots that the first one counted, and
\* brackets know each other by these.
OperationsFilled ==
    phase \in {"Run", "Compile"} =>
        /\ index = programSize + 1
        /\ \A k \in 1..programSize :
             /\ program[k] \in Commands \ DigitSet
             /\ program[k] = "[" =>
                   (meta[k] \in (k + 1)..programSize /\ program[meta[k]] = "]" /\ meta[meta[k]] = k)

\* What main.c makes of a program without stray digits, which it never leaves
\* behind the end of an array.
ReadExact == Plain => /\ phase # "Crash"
                      /\ RefusesOnlyUnbalanced
                      /\ OperationsFilled

\* compile writes the number of moves modulo the width of a cell: a row of
\* that many moves or more loses some, which clears faithful.
\* The translation prints what the program prints: no more before it ends,
\* and all of it when it does.
CompiledAgrees ==
    (process = 3 /\ faithful) =>
        /\ IsPrefix(output, ranOutput)
        /\ phase = "Done" => output = ranOutput

\* The translation of a program that ended ends.
CompiledEnds == (process = 3 /\ faithful) ~> (phase \in {"Done", "Exhausted"})
=============================================================================
