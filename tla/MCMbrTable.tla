----------------------------- MODULE MCMbrTable ------------------------------
(* A small disk and arguments that MbrTable_proofs' theorems are about. *)
EXTENDS MbrTable

ASSUME OrdinaryAssumption == Ordinary
=============================================================================
