---------------------------- MODULE MCFatBuffer -----------------------------
(***************************************************************************)
(* Small volumes for FatBuffer: two values of a nibble, two written values  *)
(* that differ in every way two neighbouring packed entries can mix, and a  *)
(* window that holds some but not all of the entries.                       *)
(***************************************************************************)
EXTENDS FatBuffer

\* An empty FAT whose first entry is the media descriptor, and its copies.
MCImages ==
    {[n \in Places |->
        IF n < 2 * NumFats * FatBytes /\ n % (2 * FatBytes) \in 0 .. EntryNibbles - 1
        THEN 1 ELSE 0]}

Alternating(first) == [i \in 0 .. EntryNibbles - 1 |-> (i + first) % 2]
MCWritten == {Alternating(0), Alternating(1)}
=============================================================================
