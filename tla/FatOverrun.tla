----------------------------- MODULE FatOverrun -----------------------------
(***************************************************************************)
(* FatFiles where its model of the table ends: a volume without free        *)
(* clusters, whose FAT has fewer entries than its version has numbers for.  *)
(* FAT_FindNextFreeCluster goes on in the second copy of the FAT, and       *)
(* closing the file system overwrites what it put there with the first.     *)
(*                                                                         *)
(* Here the search ends in the second copy (SearchLast <= 2 * TableLast + 1, *)
(* with entries of two bytes that do not straddle the border), as it does   *)
(* for a FAT16 volume of two FATs with 128 to 255 sectors each; with smaller *)
(* ones it comes to the root directory and to data, which is not modelled.  *)
(***************************************************************************)
EXTENDS FatFiles

\* FAT_ReadFATEntry and FAT_WriteFATEntry compare a cluster with the last number of
\* the version only: to them the two copies are one table.
Wide == INSTANCE FatFiles WITH TableLast <- SearchLast

\* FAT_CopyFAT: the entries of the first FAT, and again in the second.
Copied(table) ==
    [c \in 0 .. SearchLast |-> IF c <= TableLast THEN table[c] ELSE table[c - TableLast - 1]]

\* FAT_CreateEmptyFilesystem copies the empty FAT as well.
OverrunInit ==
    /\ fat = Copied(Wide!EmptyFAT)
    /\ stable = fat
    /\ entry = [f \in Paths |-> NoEntry]
    /\ data = [c \in 2 .. VolumeLast |-> [u \in 0 .. ClusterSize - 1 |-> Zero]]
    /\ freeCount = Cardinality(FreeOnVolume(fat))
    /\ fsInfo = freeCount
    /\ session = "closed" /\ pc = "idle" /\ op = NoOp
    /\ outcome = "none" /\ crashed = FALSE
    /\ kept = [f \in Files |-> Absent]

CloseCopies ==
    /\ session = "closing"
    /\ session' = "closed"
    /\ fat' = Copied(fat)
    /\ stable' = fat'
    /\ kept' = [f \in Files |-> Wide!Extracted(fat', entry, data, f)]
    /\ UNCHANGED <<entry, data, freeCount, fsInfo, pc, op, outcome, crashed>>

OverrunNext ==
    \/ \E command \in {"insert", "remove"} : Wide!Open(command)
    \/ \E f \in Files, host \in Hosts : Wide!BeginInsert(f, host)
    \/ \E f \in Files : Wide!BeginRemove(f)
    \/ Wide!Step
    \/ Wide!CloseInfo
    \/ CloseCopies

OverrunSpec == OverrunInit /\ [][OverrunNext]_vars /\ WF_vars(Wide!Step)

-----------------------------------------------------------------------------
(* Properties *)

\* A file whose chain has the clusters of its size and ends there.
Whole(f) ==
    /\ entry[f].live
    /\ Wide!ChainOf(f, Clusters(entry[f].size))

\* main.c:36: remove removes a file from the image, the one it was given.  What it
\* frees next is no cluster of another file that is whole.
RemovesOnlyItsOwn ==
    pc = "free" =>
        \A f \in Files \ {op.path} : Whole(f) => op.cursor \notin Wide!Reached(fat, f)
=============================================================================
