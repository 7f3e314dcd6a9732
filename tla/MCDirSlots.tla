----------------------------- MODULE MCDirSlots -----------------------------
(***************************************************************************)
(* A directory of one cluster that can grow by two.  One name has two       *)
(* pieces; no two share one, and each name has an alias of its own.         *)
(***************************************************************************)
EXTENDS DirSlots

CONSTANTS n1, n2, n3, p1, p2, p3, p4, A1, A2, A3

MCNames == {n1, n2, n3}
MCPieces == n1 :> <<p1, p2>> @@ n2 :> <<p3>> @@ n3 :> <<p4>>
Distinct == n1 :> A1 @@ n2 :> A2 @@ n3 :> A3
=============================================================================
