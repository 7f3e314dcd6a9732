---------------------------- MODULE Preprocessor ----------------------------
(***************************************************************************)
(* lasmp: Preprocessor.cpp copies a file and those it includes to one text,*)
(* line by line, with the names of %define replaced and with %line where   *)
(* the next line is not the one that a reader would count.                 *)
(***************************************************************************)
EXTENDS Integers, Sequences, SequencesExt, Functions

CONSTANTS Projects,  \* functions from the names of files to their lines
          DepTypes,  \* what --deptype says, among "normal" and "msvc"
          MaxOpen,   \* files the system opens at once
          MaxLength  \* items of a line that use up the memory

ASSUME BoundAssumption == MaxOpen \in Nat \ {0} /\ MaxLength \in Nat \ {0}

VARIABLES files,        \* the project: "main" is the input
          depType,
          phase,
          stack,        \* calls of Process, the innermost last
          definitions,  \* a function from tokens to items
          dependencies, \* dependencyFiles
          output,       \* lines
          current, seen \* of ProcessLine: the line, and the lines it was

vars == <<files, depType, phase, stack, definitions, dependencies, output, current, seen>>

-----------------------------------------------------------------------------
(* Lines: blank, text, define, undef, include, or another that begins with *)
(* "%".  height is the number of lines of the file that backslashes join.  *)
(* The items of a text are words, strings in quotes and separators; words  *)
(* that no separator parts are one token.                                  *)

Word(w)   == [k |-> "word", v |-> w]
String(s) == [k |-> "string", v |-> s]
Space     == [k |-> "space", v |-> " "]

\* A line that is no %line.
Printed(items) == [k |-> "text", items |-> items]

\* INT64_MIN: no line of the output is where a reader would count.
Unsynced == -1000000

Call(file, indent) ==
    [file |-> file, next |-> 1, inputLine |-> 0, outputLine |-> Unsynced, indent |-> indent]

Dependency(file, indent) == [file |-> file, indent |-> indent]

\* Mutated: a file is named each time it is opened.
addDependencyAgain(list, file, indent) == Append(list, Dependency(file, indent))

\* A file is named once, for msvc every time it is opened.
addDependency(list, file, indent) ==
    IF depType = "msvc" \/ \A d \in DOMAIN list : list[d].file # file
    THEN Append(list, Dependency(file, indent)) ELSE list

Init ==
    /\ files \in Projects
    /\ depType \in DepTypes
    /\ phase = "Process"
    /\ stack = <<Call("main", 0)>>
    /\ definitions = <<>>
    /\ dependencies = <<Dependency("main", 0)>>
    /\ output = <<>>
    /\ current = <<>> /\ seen = {}

-----------------------------------------------------------------------------
(* Process *)

top == stack[Len(stack)]
lines == files[top.file]
line == lines[top.next]
inputLine == top.inputLine + 1

AtLine(kinds) == phase = "Process" /\ stack # <<>> /\ top.next <= Len(lines) /\ line.k \in kinds

\* The next line of the innermost file, with what a reader counts.
Consumed(outputLine) ==
    stack' = [stack EXCEPT ![Len(stack)] =
                 [@ EXCEPT !.next = @ + 1, !.inputLine = @ + line.height, !.outputLine = outputLine]]

\* What is written in front of a line that does not begin with "%".
synced == top.outputLine = inputLine
oneBehind == inputLine - top.outputLine = 1
sync ==
    IF synced THEN <<>>
    ELSE IF oneBehind THEN <<Printed(<<>>)>>
    ELSE <<[k |-> "%line", line |-> inputLine, file |-> top.file]>>

\* A blank line is printed when the reader counts it, and skipped otherwise.
BlankLine ==
    /\ AtLine({"blank"})
    /\ IF synced THEN output' = Append(output, Printed(<<>>)) /\ Consumed(inputLine + 1)
       ELSE Consumed(top.outputLine) /\ UNCHANGED output
    /\ UNCHANGED <<files, depType, phase, definitions, dependencies, current, seen>>

\* The names of a line are replaced until nothing changes.
TextLine ==
    /\ AtLine({"text"})
    /\ output' = output \o sync
    /\ Consumed(inputLine)
    /\ current' = line.items /\ seen' = {}
    /\ phase' = "ProcessLine"
    /\ UNCHANGED <<files, depType, definitions, dependencies>>

\* Other lines with "%" are printed where they are.
OtherLine ==
    /\ AtLine({"other"})
    /\ Consumed(top.outputLine)
    /\ current' = line.items /\ seen' = {}
    /\ phase' = "ProcessLine"
    /\ UNCHANGED <<files, depType, definitions, dependencies, output>>

\* An empty value is 1.
Define ==
    /\ AtLine({"define"})
    /\ definitions' = (line.name :> IF line.items = <<>> THEN <<Word("1")>> ELSE line.items) @@ definitions
    /\ Consumed(top.outputLine)
    /\ UNCHANGED <<files, depType, phase, dependencies, output, current, seen>>

Undef ==
    /\ AtLine({"undef"})
    /\ definitions' = Restrict(definitions, DOMAIN definitions \ {line.name})
    /\ Consumed(top.outputLine)
    /\ UNCHANGED <<files, depType, phase, dependencies, output, current, seen>>

\* Mutated: a file that was included is not opened again.
FoundFirst ==
    /\ ~line.angle /\ line.file \in DOMAIN files /\ Len(stack) < MaxOpen
    /\ \A d \in DOMAIN dependencies : dependencies[d].file # line.file

\* There are no include paths, so a name in angle brackets is never found.
Found == ~line.angle /\ line.file \in DOMAIN files /\ Len(stack) < MaxOpen

\* Mutated: the reader is thought to go on where the included file began.
afterIncludeKept == top.outputLine
afterInclude == Unsynced

Include ==
    /\ AtLine({"include"})
    /\ Found
    /\ stack' = Append([stack EXCEPT ![Len(stack)] =
                           [@ EXCEPT !.next = @ + 1, !.inputLine = @ + line.height, !.outputLine = afterInclude]],
                       Call(line.file, top.indent + 1))
    /\ dependencies' = addDependency(dependencies, line.file, top.indent + 1)
    /\ UNCHANGED <<files, depType, phase, definitions, output, current, seen>>

IncludeFails ==
    /\ AtLine({"include"})
    /\ ~Found
    /\ phase' = "Error"
    /\ UNCHANGED <<files, depType, stack, definitions, dependencies, output, current, seen>>

Return ==
    /\ phase = "Process"
    /\ stack # <<>> /\ top.next > Len(lines)
    /\ stack' = Front(stack)
    /\ UNCHANGED <<files, depType, phase, definitions, dependencies, output, current, seen>>

\* The dependencies are written when the whole text was.
Finish ==
    /\ phase = "Process"
    /\ stack = <<>>
    /\ phase' = "Done"
    /\ UNCHANGED <<files, depType, stack, definitions, dependencies, output, current, seen>>

-----------------------------------------------------------------------------
(* ProcessLine *)

replaced(token) == IF token \in DOMAIN definitions THEN definitions[token] ELSE [w \in DOMAIN token |-> Word(token[w])]

\* One pass: a token is printed when a separator follows, or the end; a string
\* in front of that comes before it.
pass(items) ==
    LET step(acc, item) ==
            CASE item.k = "word"   -> [acc EXCEPT !.token = Append(@, item.v)]
              [] item.k = "string" -> [acc EXCEPT !.result = Append(@, item)]
              [] OTHER -> [result |-> acc.result \o replaced(acc.token) \o <<item>>, token |-> <<>>]
        end == FoldLeft(step, [result |-> <<>>, token |-> <<>>], items)
    IN  end.result \o replaced(end.token)

\* Mutated: lines that come back are not noticed.
CycledNever == FALSE
Cycled == current \in seen

Replace ==
    /\ phase = "ProcessLine"
    /\ ~Cycled
    /\ pass(current) # current
    /\ Len(pass(current)) <= MaxLength
    /\ current' = pass(current)
    /\ seen' = seen \cup {current}
    /\ UNCHANGED <<files, depType, phase, stack, definitions, dependencies, output>>

Cyclic ==
    /\ phase = "ProcessLine"
    /\ Cycled
    /\ phase' = "Error"
    /\ UNCHANGED <<files, depType, stack, definitions, dependencies, output, current, seen>>

OutOfMemory ==
    /\ phase = "ProcessLine"
    /\ ~Cycled
    /\ Len(pass(current)) > MaxLength
    /\ phase' = "Exhausted"
    /\ UNCHANGED <<files, depType, stack, definitions, dependencies, output, current, seen>>

\* Mutated: the line is counted twice.
linesPrintedTwice(outputLine) == outputLine + 2
linesPrinted(outputLine) == outputLine + 1

PrintLine ==
    /\ phase = "ProcessLine"
    /\ ~Cycled
    /\ pass(current) = current
    /\ output' = Append(output, Printed(current))
    /\ stack' = [stack EXCEPT ![Len(stack)].outputLine = linesPrinted(@)]
    /\ phase' = "Process"
    /\ UNCHANGED <<files, depType, definitions, dependencies, current, seen>>

Over == phase \in {"Done", "Error", "Exhausted"} /\ UNCHANGED vars

Next == \/ BlankLine \/ TextLine \/ OtherLine \/ Define \/ Undef \/ Include \/ IncludeFails \/ Return \/ Finish
        \/ Replace \/ Cyclic \/ OutOfMemory \/ PrintLine \/ Over

\* One thread.
Spec == Init /\ [][Next]_vars /\ WF_vars(Next)
=============================================================================
