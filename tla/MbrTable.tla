------------------------------ MODULE MbrTable ------------------------------
(***************************************************************************)
(* The partition table of a disk image (mbr/mbr.c, mbr/partition.c) and the *)
(* two commands that change it: "lfs create <image>:<n>" finds a free       *)
(* region and enters it, "lfs remove" clears an entry.  Each command is one *)
(* process, which reads the boot sector, changes its copy and writes it     *)
(* back when it closes the table, after a failure too.                     *)
(*                                                                         *)
(* Positions and sizes are bytes in machine words (mod Word), a sector is   *)
(* SectorSize of them, and the entries hold sectors in shorter words.       *)
(***************************************************************************)
EXTENDS Naturals

CONSTANTS
    SectorSize,
    DiskSize,       \* the bytes of the image
    DefaultStart,   \* where the search begins without --start (1 MiB)
    Word,           \* uint64_t wraps here
    LbaWord,        \* uint32_t wraps here
    StartArgs,      \* --start, 0 when it is not given
    SizeArgs        \* --size, 0 when it is not given

ASSUME DiskAssumption ==
    /\ SectorSize \in Nat \ {0} /\ DiskSize \in Nat /\ DefaultStart \in Nat
    /\ Word \in Nat /\ LbaWord \in Nat \ {0}
    /\ DiskSize < Word /\ DefaultStart < Word /\ SectorSize < Word
    /\ StartArgs \subseteq 0 .. Word - 1 /\ SizeArgs \subseteq 0 .. Word - 1

Slots == 1 .. 4

VARIABLES
    table,      \* the four entries of the boot sector
    result,     \* how the last command ended
    asked       \* where the last creation searched, and for how many bytes

vars == <<table, result, asked>>

Unused == [used |-> FALSE, bootable |-> FALSE, first |-> 0, size |-> 0]
NoSearch == [from |-> 0, size |-> 0]
Used == {i \in Slots : table[i].used}

TypeOK ==
    /\ table \in [Slots -> [used : BOOLEAN, bootable : BOOLEAN,
                            first : 0 .. LbaWord - 1, size : 0 .. LbaWord - 1]]
    /\ result \in {"none", "created", "exists", "no space", "failed", "removed", "missing"}
    /\ asked \in [from : 0 .. Word - 1, size : 0 .. Word - 1]

\* MBR_CreateDisk without a boot sector that is forced in.
Init ==
    /\ table = [i \in Slots |-> Unused]
    /\ result = "none"
    /\ asked = NoSearch

-----------------------------------------------------------------------------
(* The search for a free region *)

Start(i) == (table[i].first * SectorSize) % Word
End(i) == (Start(i) + table[i].size * SectorSize) % Word

\* What qsort may return: unused entries sort as regions at 0, and entries that
\* start at the same place come in any order.
Orders == {order \in [Slots -> Slots] : \A i, j \in Slots : order[i] = order[j] => i = j}
SortedOrders ==
    {order \in Orders : \A i \in 1 .. 3 : Start(order[i]) <= Start(order[i + 1])}

Later(a, b) == IF a < b THEN b ELSE a
Earlier(a, b) == IF a < b THEN a ELSE b
Minus(a, b) == (a + Word - b) % Word

GapFitsUnclipped(order, i, from, size) ==
    /\ Start(order[i + 1]) > End(order[i])
    /\ Minus(Start(order[i + 1]), End(order[i])) >= size

GapFitsStrictly(order, i, from, size) ==
    /\ Start(order[i + 1]) > End(order[i])
    /\ Minus(Start(order[i + 1]), Later(End(order[i]), from)) > size

\* The gap between two neighbours, as far as it lies behind from.
GapFits(order, i, from, size) ==
    /\ Start(order[i + 1]) > End(order[i])
    /\ Minus(Start(order[i + 1]), Later(End(order[i]), from)) >= size

NextFreeRegion(order, from, size) ==
    LET fitting == {i \in 1 .. 3 : GapFits(order, i, from, size)}
        gap == CHOOSE i \in fitting : \A j \in fitting : i <= j
    IN  IF Start(order[1]) > from /\ Start(order[1]) - from >= size THEN from
        ELSE IF fitting # {} THEN Later(End(order[gap]), from)
        ELSE Later(End(order[4]), from)

EndOfUsedRegion(from) ==
    LET ends == {End(i) : i \in Slots} \cup {from}
    IN  CHOOSE e \in ends : \A d \in ends : d <= e

-----------------------------------------------------------------------------
(* lfs create *)

SearchFrom(startArg) ==
    Later(IF startArg = 0 THEN DefaultStart ELSE startArg, SectorSize)

\* --size or the rest of the disk, in whole sectors.
SizeFor(from, sizeArg) ==
    LET size == IF sizeArg = 0 THEN Minus(DiskSize, EndOfUsedRegion(from)) ELSE sizeArg
        over == size % SectorSize
    IN  IF over = 0 THEN size ELSE (size + SectorSize - over) % Word

EnteredToEnd(start, size, bootable) ==
    [used |-> TRUE, bootable |-> bootable,
     first |-> start \div SectorSize, size |-> start + size]

Entered(start, size, bootable) ==
    [used |-> TRUE, bootable |-> bootable,
     first |-> (start \div SectorSize) % LbaWord,
     size |-> (size \div SectorSize) % LbaWord]

CreateExisting(i) ==
    /\ table[i].used
    /\ result' = "exists"
    /\ asked' = NoSearch
    /\ UNCHANGED table

Create(i, startArg, sizeArg, bootable) ==
    /\ ~table[i].used
    /\ \E order \in SortedOrders :
        LET from == SearchFrom(startArg)
            size == SizeFor(from, sizeArg)
            start == NextFreeRegion(order, from, size)
        IN  /\ asked' = [from |-> from, size |-> size]
            /\ \/ /\ (start + size) % Word > DiskSize
                  /\ result' = "no space"
                  /\ UNCHANGED table
               \/ /\ (start + size) % Word <= DiskSize
                  /\ start % SectorSize # 0
                  /\ table' = [table EXCEPT ![i].bootable = bootable]
                  /\ result' = "failed"
               \/ /\ (start + size) % Word <= DiskSize
                  /\ start % SectorSize = 0
                  /\ table' = [table EXCEPT ![i] = Entered(start, size, bootable)]
                  /\ result' = "created"

(* lfs remove *)
Remove(i) ==
    /\ table[i].used
    /\ table' = [table EXCEPT ![i] = Unused]
    /\ result' = "removed"
    /\ asked' = NoSearch

RemoveMissing(i) ==
    /\ ~table[i].used
    /\ result' = "missing"
    /\ asked' = NoSearch
    /\ UNCHANGED table

Next ==
    \/ \E i \in Slots : CreateExisting(i)
    \/ \E i \in Slots, startArg \in StartArgs, sizeArg \in SizeArgs, bootable \in BOOLEAN :
          Create(i, startArg, sizeArg, bootable)
    \/ \E i \in Slots : Remove(i)
    \/ \E i \in Slots : RemoveMissing(i)

Spec == Init /\ [][Next]_vars

-----------------------------------------------------------------------------
Bytes(i) == table[i].first * SectorSize .. (table[i].first + table[i].size) * SectorSize - 1

\* No two partitions have a byte in common (MBR_GetNextFreeRegion, mbr.c:103,
\* is to find a region that is free).
PartitionsDisjoint ==
    \A i, j \in Used : i # j => Bytes(i) \cap Bytes(j) = {}

\* Every partition is on the disk and behind the boot sector (main.c:321 refuses
\* one for which there is "Not enough space").
PartitionsOnDisk ==
    \A i \in Used : Bytes(i) \subseteq SectorSize .. DiskSize - 1

\* The region that mbr.c 103-136 finds and main.c:321 takes is the partition's
\* own.  This is for arguments that are Ordinary (below): at the default start, or
\* at one that is not a whole number of sectors.  At any other start that is a
\* whole number of sectors, in front of the default or behind it, the gap of
\* mbr.c:125 wraps and two partitions can begin at one place.
RegionsOwned == PartitionsDisjoint /\ PartitionsOnDisk

\* A region of that many bytes that a search from there should meet.
Room(from, size) ==
    \E s \in from .. DiskSize - size :
        /\ s % SectorSize = 0
        /\ \A i \in Used : (s .. s + size - 1) \cap Bytes(i) = {}

\* While there is a region of the size it looks for, in whichever gap, a creation
\* does not say that there is "Not enough space" (main.c:322); also for Ordinary
\* arguments.
RefusesOnlyWhenFull ==
    [][result' = "no space" => ~Room(asked'.from, asked'.size)]_vars

\* What users of lfs have to keep to: nothing checks it, and the properties fail
\* without it.  The entries can count the disk's sectors and no sum wraps, which
\* holds for a disk of up to 2 TiB and sizes of that order; a size is given; and
\* a search from anywhere but the default start is not aligned, so that nothing
\* is created there unless it is behind a partition.
Ordinary ==
    /\ DiskSize < LbaWord * SectorSize
    /\ 0 \notin SizeArgs
    /\ \A startArg \in StartArgs :
          \/ SearchFrom(startArg) = SearchFrom(0)
          \/ SearchFrom(startArg) % SectorSize # 0
    /\ \A startArg \in StartArgs, sizeArg \in SizeArgs :
          Later(SearchFrom(startArg), DiskSize) + sizeArg + SectorSize < Word
=============================================================================
