------------------------- MODULE MCFatBufferFaults --------------------------
(* The small volumes of MCFatBuffer, on an image file that fails. *)
EXTENDS FatBufferFaults

MCImages ==
    {[n \in Places |->
        IF n < 2 * NumFats * FatBytes /\ n % (2 * FatBytes) \in 0 .. EntryNibbles - 1
        THEN 1 ELSE 0]}

MCWritten == {[i \in 0 .. EntryNibbles - 1 |-> 1]}
=============================================================================
