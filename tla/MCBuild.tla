------------------------------ MODULE MCBuild ------------------------------
(***************************************************************************)
(* Projects like those of tests/lbt/envs: objects from sources, a library   *)
(* and a program from objects, and the targets clean and run.  The texts of *)
(* a and of b at first and one of the two that are written later include    *)
(* the header.                                                             *)
(***************************************************************************)
EXTENDS Build, TLC

CONSTANTS a, b, h, a1, b1, h1, t1, t2

MCSources == {a, b}
MCHeaders == {h}
MCTexts == {<<a1>>, <<b1>>, <<h1>>, <<t1>>, <<t2>>}
FewTexts == MCTexts \ {<<t2>>}
MCFirstTexts == a :> <<a1>> @@ b :> <<b1>> @@ h :> <<h1>>
MCIncludes == [t \in MCTexts |-> IF t \in {<<a1>>, <<t1>>} THEN {h} ELSE {}]

Target == [before |-> <<>>, depends |-> <<>>, here |-> TRUE, files |-> <<>>,
           out |-> "undefined", forEach |-> Unset, outPath |-> Unset, run |-> Unset]
Compile(sources) ==
    [Target EXCEPT !.files = sources, !.out = "object",
                   !.outPath = [name |-> "o", perInput |-> TRUE]]
Link(needs) ==
    [Target EXCEPT !.depends = needs, !.out = "executable",
                   !.outPath = [name |-> "main", perInput |-> FALSE]]
Archive(needs) ==
    [Target EXCEPT !.depends = needs, !.out = "static-library",
                   !.outPath = [name |-> "lib", perInput |-> FALSE]]
Clean == [Target EXCEPT !.run = "delete"]
Run == [Target EXCEPT !.before = <<"build">>, !.run = "execute"]

\* One object and a program.
Small == [compile |-> Compile(<<a>>), build |-> Link(<<"compile">>), clean |-> Clean]
SmallRequests == {<<"build">>, <<"clean">>, <<"compile", "clean", "build">>}

\* Two objects in a library, which the program needs besides the objects.
Diamond == [compile |-> Compile(<<a, b>>), lib |-> Archive(<<"compile">>),
            build |-> Link(<<"compile", "lib", "other">>), run |-> Run,
            other |-> [Target EXCEPT !.here = FALSE, !.files = <<a>>]]
DiamondRequests == {<<"lib", "run">>}

BuildRequests == {<<"build">>}

\* What the targets give each other, for the theorems of Build_proofs.
Objects(sources) == [i \in DOMAIN sources |-> <<"o", sources[i]>>]
Nothing == (0 :> <<>>)
SmallGiven == [compile |-> Nothing, build |-> Nothing @@ 1 :> Objects(<<a>>), clean |-> Nothing]
DiamondGiven ==
    LET objects == Objects(<<a, b>>)
        all == objects \o <<<<"lib">>>>
    IN  [compile |-> Nothing, lib |-> Nothing @@ 1 :> objects, run |-> Nothing, other |-> Nothing,
         build |-> Nothing @@ 1 :> objects @@ 2 :> all @@ 3 :> all]
MCGiven == IF Config = Small THEN SmallGiven ELSE DiamondGiven
MCRank == [t \in Targets |-> CASE t = "compile" -> 1 [] t = "lib" -> 2 [] t = "build" -> 3
                             [] t = "run" -> 4 [] OTHER -> 0]

ASSUME PlanAssumption == Planned(MCGiven) /\ NoCircle(MCRank) /\ OneWriter(MCGiven)
ASSUME TraceAssumption == ~PartialOutputs => Traceable(MCGiven)
=============================================================================
