---------------------------- MODULE MCFatOverrun ----------------------------
(***************************************************************************)
(* A volume of three clusters for FatOverrun, and files of two: two of them *)
(* do not fit.                                                             *)
(***************************************************************************)
EXTENDS FatOverrun, TLC

CONSTANTS f1, f2, a, b

MCFiles == {f1, f2}
MCDirs == {}
MCHosts == {<<a, b>>}
=============================================================================
