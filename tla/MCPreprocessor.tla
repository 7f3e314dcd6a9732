--------------------------- MODULE MCPreprocessor ---------------------------
(***************************************************************************)
(* All inputs of up to three lines of each kind, over files that include   *)
(* others, and longer inputs for the counting of lines.                    *)
(***************************************************************************)
EXTENDS SourceText

Blank            == [k |-> "blank", height |-> 1]
Text(items)      == [k |-> "text", items |-> items, height |-> 1]
Joined(items)    == [k |-> "text", items |-> items, height |-> 2]
Def(name, items) == [k |-> "define", name |-> <<name>>, items |-> items, height |-> 1]
Undefine(name)   == [k |-> "undef", name |-> <<name>>, height |-> 1]
Inc(file)        == [k |-> "include", file |-> file, angle |-> FALSE, height |-> 1]
Other(items)     == [k |-> "other", items |-> items, height |-> 1]

X == Word("X")
Y == Word("Y")
Z == Word("Z")
Use == Text(<<X, Space, String("X"), Space, Y>>)

Lines == { Blank, Use, Joined(<<Z>>), Def("X", <<Y>>), Def("X", <<>>), Def("Y", <<X>>), Def("Y", <<Y>>),
           Def("X", <<Y, Space, X>>), Undefine("X"), Inc("inner"), Inc("outer"), Inc("circle"),
           Inc("missing"), [Inc("inner") EXCEPT !.angle = TRUE], Other(<<Space, X>>), Text(<<X, String("X"), Z>>) }

Included ==
    [inner  |-> <<Blank, Use>>,
     outer  |-> <<Inc("inner"), Def("Y", <<Z, Space, Z>>), Inc("empty"), Use>>,
     empty  |-> <<>>,
     circle |-> <<Use, Inc("circle")>>]

Project(lines_) == [f \in DOMAIN Included \cup {"main"} |-> IF f = "main" THEN lines_ ELSE Included[f]]

Counting ==
    { <<Use, Def("X", <<Y>>), Use, Blank, Blank, Use, Joined(<<X>>), Use, Blank, Use>>,
      <<Joined(<<X>>), Blank, Def("X", <<Y>>), Blank, Joined(<<Y>>), Use>>,
      <<Use, Inc("outer"), Use, Blank, Use, Inc("outer"), Blank, Use>>,
      <<Use, Undefine("X"), Undefine("Y"), Use, Other(<<Space, X>>), Use>>,
      <<Def("X", <<Y>>), Def("Y", <<Z, Space, String("Y")>>), Use, Undefine("Y"), Use, Def("Z", <<X>>), Use>> }

MCProjects == {Project(l) : l \in Counting \cup UNION {[1..n -> Lines] : n \in 0..3}}
=============================================================================
