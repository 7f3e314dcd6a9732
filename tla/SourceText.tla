----------------------------- MODULE SourceText -----------------------------
(***************************************************************************)
(* What a project says, defined without lasmp's loops: its lines in order, *)
(* with those of included files in their places; names replaced by what    *)
(* they stand for where they are used; and the places in the files that a  *)
(* reader of lasmp's output gives to lines.                                *)
(***************************************************************************)
EXTENDS Preprocessor, FiniteSets

\* The place of line n of a file.
lineOf(text, n) == 1 + FoldLeft(LAMBDA sum, l : sum + l.height, 0, SubSeq(text, 1, n - 1))

\* The lines of a file, and of those it includes down to a depth.  What is
\* included deeper than there are files is included in itself.
Walk(project) ==
    LET event(f, n) == [file |-> f, line |-> lineOf(project[f], n), what |-> project[f][n]]
        entered(l, indent) == [file |-> l.file, indent |-> indent, what |-> [k |-> "entered"]]
        lost == [what |-> [k |-> "lost"]]
        depths == 0..(Cardinality(DOMAIN project) - 1)
        walk[left \in depths] ==
            [f \in DOMAIN project |->
                FlattenSeq([n \in DOMAIN project[f] |->
                    LET l == project[f][n] IN
                    IF l.k # "include" THEN <<event(f, n)>>
                    ELSE IF l.angle \/ l.file \notin DOMAIN project \/ left = 0 THEN <<lost>>
                    ELSE <<entered(l, Cardinality(DOMAIN project) - left)>> \o walk[left - 1][l.file]])]
    IN  walk[Cardinality(DOMAIN project) - 1]["main"]

\* The definitions in force at event n of those.
define(defs, e) ==
    IF e.what.k = "undef" THEN [t \in DOMAIN defs \ {e.what.name} |-> defs[t]]
    ELSE [t \in DOMAIN defs \cup {e.what.name} |->
             IF t # e.what.name THEN defs[t]
             ELSE IF e.what.items = <<>> THEN <<Word("1")>> ELSE e.what.items]
inForce(events, n) ==
    LET defs[m \in 0..(n - 1)] ==
            IF m = 0 THEN <<>>
            ELSE IF events[m].what.k \in {"define", "undef"} THEN define(defs[m - 1], events[m])
            ELSE defs[m - 1]
    IN  defs[n - 1]

IsWord(items, k) == k \in DOMAIN items /\ items[k].k = "word"

\* The places from..to of the tokens of a line.
tokenPlaces(items) ==
    {p \in (DOMAIN items) \X (DOMAIN items) :
        /\ \A k \in p[1]..p[2] : IsWord(items, k)
        /\ p[1] <= p[2] /\ ~IsWord(items, p[1] - 1) /\ ~IsWord(items, p[2] + 1)}
tokenAt(items, p) == [k \in 1..(p[2] - p[1] + 1) |-> items[p[1] + k - 1].v]
tokens(items) == {tokenAt(items, p) : p \in tokenPlaces(items)}

\* All tokens with a value replaced by it.
substituted(items, values) ==
    FlattenSeq([k \in DOMAIN items |->
        IF ~IsWord(items, k) THEN <<items[k]>>
        ELSE LET p == CHOOSE q \in tokenPlaces(items) : k \in q[1]..q[2]
             IN  IF tokenAt(items, p) \notin DOMAIN values THEN <<items[k]>>
                 ELSE IF k = p[1] THEN values[tokenAt(items, p)] ELSE <<>>])

\* What the names stand for when values are replaced as well.
final(defs) ==
    LET value[n \in 0..Cardinality(DOMAIN defs)] ==
            IF n = 0 THEN defs ELSE [t \in DOMAIN defs |-> substituted(defs[t], value[n - 1])]
    IN  value[Cardinality(DOMAIN defs)]

\* The names that a line uses, and that their values use.
used(items, defs) ==
    LET more[n \in 0..Cardinality(DOMAIN defs)] ==
            IF n = 0 THEN tokens(items)
            ELSE more[n - 1] \cup UNION {tokens(defs[t]) : t \in more[n - 1] \cap DOMAIN defs}
    IN  more[Cardinality(DOMAIN defs)] \cap DOMAIN defs

\* A name stands for something with itself in it.  That a name stands for
\* itself alone is no harm.
Recursive(t, defs) == t \in used(defs[t], defs) /\ tokens(defs[t]) # {t}
Embedding(t, defs) == t \in used(defs[t], defs) /\ Len(defs[t]) > 1

printed(events) == {n \in DOMAIN events : events[n].what.k \in {"text", "other"}}

Lost(events) == \E n \in DOMAIN events : events[n].what.k = "lost"
RecursiveIn(items, defs) == \E t \in used(items, defs) : Recursive(t, defs) \/ Embedding(t, defs)
EmbeddingIn(items, defs) == \E t \in used(items, defs) : Embedding(t, defs)

Legal(events) ==
    ~Lost(events) /\ \A n \in printed(events) : ~RecursiveIn(events[n].what.items, inForce(events, n))
Growing(events) == \E n \in printed(events) : EmbeddingIn(events[n].what.items, inForce(events, n))

\* A string right behind a word, or in front of one: lasmp moves it in front
\* of the word, as it prints words later.
Touches(items) ==
    \E k \in DOMAIN items : items[k].k = "string" /\ (IsWord(items, k - 1) \/ IsWord(items, k + 1))
Touching(events) ==
    \E n \in DOMAIN events : events[n].what.k \in {"text", "other", "define"} /\ Touches(events[n].what.items)

-----------------------------------------------------------------------------
\* Tokenizer::tokenize counts the lines it reads, and from a %line on as it
\* says there.
Reported(text) ==
    LET step(acc, l) ==
            IF l.k = "%line" THEN [acc EXCEPT !.line = l.line - 1, !.file = l.file]
            ELSE [acc EXCEPT !.line = @ + 1,
                             !.read = IF l.items = <<>> THEN @
                                      ELSE Append(@, [file |-> acc.file, line |-> acc.line + 1, items |-> l.items])]
    IN  FoldLeft(step, [line |-> 0, file |-> "-", read |-> <<>>], text).read

\* What a reader should read.
expected(events) ==
    LET places == SelectSeq([n \in DOMAIN events |-> n], LAMBDA n : n \in printed(events))
    IN  [k \in DOMAIN places |->
            LET n == places[k]
                e == events[n]
            IN  [file |-> e.file, line |-> e.line, counted |-> e.what.k = "text",
                 items |-> substituted(e.what.items, final(inForce(events, n)))]]

-----------------------------------------------------------------------------
\* What is typed: as many files are open as the system allows, and a reader
\* is never thought to be ahead of the file.
TypeOK ==
    /\ phase \in {"Process", "ProcessLine", "Done", "Error", "Exhausted"}
    /\ Len(stack) <= MaxOpen
    /\ \A d \in DOMAIN stack :
         LET c == stack[d] IN
         /\ c.file \in DOMAIN files /\ c.next \in 1..(Len(files[c.file]) + 1)
         /\ c.inputLine = lineOf(files[c.file], c.next) - 1
         /\ c.outputLine <= c.inputLine + 1
    /\ Len(current) <= MaxLength

\* The text has the lines of the project in order, with names replaced by what
\* they stand for at that place.
MeansSource ==
    phase = "Done" =>
        LET events == Walk(files)
            read == Reported(output)
            right == expected(events)
        IN  Touching(events) \/ (/\ Len(read) = Len(right)
                                 /\ \A n \in DOMAIN read : read[n].items = right[n].items)

\* lasm names the file and the line a line was read from, whatever was
\* included, joined or left out before it.  Other lines with "%" are printed
\* without looking at the count.
LinesKept ==
    phase = "Done" =>
        LET read == Reported(output)
            right == expected(Walk(files))
        IN  \A n \in DOMAIN read :
                right[n].counted => read[n].file = right[n].file /\ read[n].line = right[n].line

\* lasm reads from the output what it would read from the files: the same
\* statements, each at its place.
SourceKept == MeansSource /\ LinesKept

\* The dependencies are the files that were read, in order, each one once, or
\* for msvc each time it was included and how deep.
DependenciesExact ==
    phase = "Done" =>
        LET opened == SelectSeq(Walk(files), LAMBDA e : e.what.k = "entered")
            all == <<Dependency("main", 0)>> \o [n \in DOMAIN opened |-> Dependency(opened[n].file, opened[n].indent)]
            first == SelectSeq([n \in DOMAIN all |-> n], LAMBDA n : \A m \in 1..(n - 1) : all[m].file # all[n].file)
        IN  dependencies = (IF depType = "msvc" THEN all ELSE [n \in DOMAIN first |-> all[first[n]]])

\* A project is refused if and only if a file is missing or includes itself, or
\* a name stands for itself among others; memory is used up for names only.
RefusesOnlyIllegal ==
    phase \in {"Done", "Error", "Exhausted"} =>
        LET events == Walk(files) IN
        Touching(events) \/ (/\ phase = "Done" => Legal(events)
                             /\ phase = "Error" => ~Legal(events)
                             /\ phase = "Exhausted" => Growing(events))

\* Every project ends, those that are circular in files or in names as well.
Ends == <>(phase \in {"Done", "Error", "Exhausted"})
=============================================================================
