----------------------------- MODULE MCFatFiles -----------------------------
(***************************************************************************)
(* Small volumes for FatFiles.  The units of the two host files differ, so  *)
(* that an overwritten cluster shows, and the longer one needs more than    *)
(* one cluster.                                                            *)
(***************************************************************************)
EXTENDS FatFiles, TLC

CONSTANTS f1, f2, d1, a, b

MCFiles == {f1, f2}
Symmetry == Permutations(MCFiles)
MCDirs == {d1}
NoDirs == {}
MCHosts == {<<a>>, <<b, b>>}
LongHosts == {<<a>>, <<b, b, b>>}
=============================================================================
