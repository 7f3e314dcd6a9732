------------------------------ MODULE FatFiles ------------------------------
(***************************************************************************)
(* How lfs stores files in the clusters of a FAT volume (fat/file.c, and    *)
(* FAT_RemoveFATEntries and FAT_FindFreeClusters of fat/fat.c), step by     *)
(* step as the image changes, so that the process may be killed between any *)
(* two of them.  Directory entries and data reach the image at once; the    *)
(* FAT is the table of FatTable, which reaches it later: at every access to *)
(* the table (Save) the image may be brought up to the table so far, and    *)
(* when the file system is closed it is.                                   *)
(*                                                                         *)
(* The table is the first FAT.  FAT_FindNextFreeCluster knows the numbers a *)
(* FAT version has, not the size of the FAT: on a full volume it leaves the *)
(* table, and this module stops there (Overrun; FatOverrun goes on).        *)
(*                                                                         *)
(* Sizes are counted in units of 512 bytes, the buffer in which             *)
(* Filesystem_SyncPathsToFS writes a file.  The places of the directory     *)
(* entries are those of the directory slots and not modelled here.          *)
(***************************************************************************)
EXTENDS Naturals, Sequences, FiniteSets

CONSTANTS
    Version,        \* 12, 16 or 32
    VolumeLast,     \* the last cluster the volume has room for
    TableLast,      \* the last cluster that the first FAT has an entry for
    SearchLast,     \* the last cluster that a search for a free one tries
    ClusterSize,    \* units in a cluster
    Files, Dirs,    \* the paths of the image that commands name
    Hosts,          \* the contents of the host's files
    DirSizes,       \* the units Filesystem_DirectoryReserve asks for
    Zero,           \* a unit of zeros
    CountMod,       \* free_cluster_count wraps here (2^32)
    Absent, Nobody

Paths == Files \cup Dirs

\* FAT values: 0 is free, 2 .. TableLast are clusters, and three classes of
\* values no cluster has.  BeyondLast is the 0xFFFFFFFF that FAT_ReadFATEntry
\* returns for a cluster past the last one.
Reserved == TableLast + 1
EOC == TableLast + 2
BeyondLast == TableLast + 3
Value == 0 .. EOC

Units == {Zero} \cup UNION {{host[i] : i \in DOMAIN host} : host \in Hosts}

ASSUME VolumeAssumption ==
    /\ Version \in {12, 16, 32}
    /\ VolumeLast \in Nat /\ TableLast \in Nat
    /\ 2 <= VolumeLast /\ VolumeLast <= TableLast
    /\ SearchLast \in Nat /\ TableLast <= SearchLast
    /\ ClusterSize \in Nat \ {0}
    /\ CountMod \in Nat /\ VolumeLast < CountMod

ASSUME CommandAssumption ==
    /\ Files \cap Dirs = {} /\ Nobody \notin Paths
    /\ \A host \in Hosts : host \in Seq(Units)
    /\ \A size \in DirSizes : size \in Nat \ {0}

\* What stands for no file and for no command is neither.
ASSUME StoreAssumption ==
    /\ Absent \notin Seq(Units)
    /\ Nobody \notin [file : Files, old : Seq(Units) \cup {Absent}, host : Hosts \cup {Absent}]

VARIABLES
    fat,            \* the table as FAT_ReadFATEntry sees it
    stable,         \* the table on the image
    entry,          \* the directory entry of each path, on the image
    data,           \* the units of each cluster, on the image
    freeCount,      \* fs_info.free_cluster_count
    fsInfo,         \* the same on the image
    session,        \* "closed", or the command the volume is open for
    pc,             \* what the command does next
    op,             \* the file it works on: handle, position, clusters
    outcome,        \* how the last insertion or removal ended
    crashed,        \* whether the process was ever killed
    kept            \* what files held at the last close, as long as no
                    \* command names them and they were closed unharmed

disks == <<stable, entry, data, fsInfo>>
vars == <<fat, stable, entry, data, freeCount, fsInfo, session, pc, op,
          outcome, crashed, kept>>

NoEntry == [live |-> FALSE, first |-> 0, size |-> 0]
NoOp == [path |-> Nobody, host |-> <<>>, pos |-> 0, first |-> 0, size |-> 0,
         clusters |-> <<>>, cursor |-> 0, grow |-> 0, old |-> Absent]

-----------------------------------------------------------------------------
(* Reading the table *)

ReadFAT(table, c) == IF c <= TableLast THEN table[c] ELSE BeyondLast

\* FAT_ClusterType; 0xFFFFFFFF is masked to 28 bits on FAT32 only.
IsEOC(v) == v = EOC \/ (Version = 32 /\ v = BeyondLast)
IsAllocated(v) == v \in 2 .. TableLast \/ (Version # 32 /\ v = BeyondLast)

\* The cluster that skipping n clusters of a chain arrives at.
Skip(table, first, n) ==
    LET at[k \in 0 .. n] == IF k = 0 THEN first ELSE ReadFAT(table, at[k - 1])
    IN  at[n]

\* Where FAT_ReadFromFileRaw and FAT_WriteToFileRaw find unit p of a file: no
\* cluster when the chain ends first or the cluster is not on the volume.
ClusterOf(table, first, p) ==
    LET c == Skip(table, first, p \div ClusterSize)
        ends == \E k \in 0 .. p \div ClusterSize : IsEOC(Skip(table, first, k))
    IN  IF first < 2 \/ ends \/ c \notin 2 .. VolumeLast THEN 0 ELSE c

\* What Filesystem_SyncPathsFromFS copies out: it stops at the first unit that
\* FAT_ReadFromFileRaw cannot read.
Extracted(table, entries, units, f) ==
    LET e == entries[f]
        Readable(p) == ClusterOf(table, e.first, p) # 0
        n == CHOOSE n \in 0 .. e.size :
               /\ \A p \in 0 .. n - 1 : Readable(p)
               /\ n = e.size \/ ~Readable(n)
    IN  IF ~e.live THEN Absent
        ELSE [i \in 1 .. n |->
                units[ClusterOf(table, e.first, i - 1)][(i - 1) % ClusterSize]]

\* FAT_GetEOF.
EndFree == 0
EndUnmasked == BeyondLast
ChainEnd == EOC

\* FAT_FindNextFreeCluster, and FAT_FindFreeClusters for the count-th time.
UnallocatedFrom(c) == {d \in c .. TableLast : d >= 2 /\ ~IsAllocated(fat[d])}
FreeFrom(c) == {d \in c .. TableLast : fat[d] = 0}
FreeClusters(count) ==
    LET found[i \in 1 .. count] ==
          LET from == IF i = 1 THEN 0 ELSE found[i - 1] + 1
          IN  CHOOSE c \in FreeFrom(from) : \A d \in FreeFrom(from) : c <= d
    IN  found

Clusters(size) == (size + ClusterSize - 1) \div ClusterSize

\* Any access to the table may first bring the image up to it.
Save == stable' \in {stable, fat}

-----------------------------------------------------------------------------
(* The invariant's types *)

TypeOK ==
    /\ fat \in [0 .. TableLast -> Value]
    /\ stable \in [0 .. TableLast -> Value]
    /\ entry \in [Paths -> [live : BOOLEAN, first : 0 .. TableLast, size : Nat]]
    /\ data \in [2 .. VolumeLast -> [0 .. ClusterSize - 1 -> Units]]
    /\ freeCount \in 0 .. CountMod - 1 /\ fsInfo \in 0 .. CountMod - 1
    /\ session \in {"closed", "insert", "remove", "closing"}
    /\ pc \in {"idle", "write", "walk", "link", "setentry", "data", "free", "overrun"}
    /\ op.path \in Paths \cup {Nobody}
    /\ op.first \in 0 .. TableLast
    /\ op.cursor \in 0 .. BeyondLast
    /\ \A i \in DOMAIN op.clusters : op.clusters[i] \in 0 .. TableLast
    /\ outcome \in {"none", "ok", "error", "overrun"}

\* FAT_CreateEmptyFilesystem: entries 0 and 1 hold the media descriptor and
\* ones, and the root directory of a FAT32 volume is the cluster 2.
RootClusters == IF Version = 32 THEN {2} ELSE {}
EmptyFAT ==
    [c \in 0 .. TableLast |->
        IF c = 0 THEN (IF Version = 12 THEN Reserved ELSE EOC)
        ELSE IF c = 1 \/ c \in RootClusters THEN EOC ELSE 0]
FreeOnVolume(table) == {c \in 2 .. VolumeLast : table[c] = 0}

Init ==
    /\ fat = EmptyFAT
    /\ stable = EmptyFAT
    /\ entry = [f \in Paths |-> NoEntry]
    /\ data = [c \in 2 .. VolumeLast |-> [u \in 0 .. ClusterSize - 1 |-> Zero]]
    /\ freeCount = Cardinality(FreeOnVolume(EmptyFAT))
    /\ fsInfo = freeCount
    /\ session = "closed"
    /\ pc = "idle"
    /\ op = NoOp
    /\ outcome = "none"
    /\ crashed = FALSE
    /\ kept = [f \in Files |-> Absent]

-----------------------------------------------------------------------------
(* A session: one process, one command *)

Open(command) ==
    /\ session = "closed"
    /\ session' = command
    /\ freeCount' = fsInfo
    /\ UNCHANGED <<fat, disks, pc, op, outcome, crashed, kept>>

\* FAT_CloseFilesystem writes the FSInfo sector and then the table.
CloseInfo ==
    /\ session \in {"insert", "remove"}
    /\ pc = "idle"
    /\ session' = "closing"
    /\ fsInfo' = freeCount
    /\ UNCHANGED <<fat, stable, entry, data, freeCount, pc, op, outcome, crashed, kept>>

CloseTable ==
    /\ session = "closing"
    /\ session' = "closed"
    /\ stable' = fat
    /\ kept' = [f \in Files |->
                  IF crashed THEN kept[f] ELSE Extracted(fat, entry, data, f)]
    /\ UNCHANGED <<fat, entry, data, freeCount, fsInfo, pc, op, outcome, crashed>>

\* The process is killed.  The next FAT_OpenFilesystem reads the image.
Crash ==
    /\ session # "closed"
    /\ pc # "overrun"
    /\ session' = "closed"
    /\ fat' = stable
    /\ freeCount' = fsInfo
    /\ pc' = "idle"
    /\ op' = NoOp
    /\ crashed' = TRUE
    /\ UNCHANGED <<disks, outcome, kept>>

Finish(result) ==
    /\ pc' = "idle"
    /\ op' = NoOp
    /\ outcome' = result

-----------------------------------------------------------------------------
(* Filesystem_SyncPathsToFS on a file *)

\* Filesystem_OpenPath with create_file: the entry found, or a new one, which
\* goes to the image at once.
BeginInsert(f, host) ==
    /\ session = "insert"
    /\ pc = "idle"
    /\ entry' = [entry EXCEPT ![f] = IF @.live THEN @ ELSE [NoEntry EXCEPT !.live = TRUE]]
    /\ op' = [NoOp EXCEPT !.path = f, !.host = host, !.first = entry'[f].first,
                          !.size = entry'[f].size,
                          !.old = Extracted(fat, entry', data, f)]
    /\ pc' = "write"
    /\ outcome' = "none"
    /\ kept' = [kept EXCEPT ![f] = Absent]
    /\ UNCHANGED <<fat, stable, data, freeCount, fsInfo, session, crashed>>

\* Filesystem_OpenPath for a directory that is not there: FAT_CreateEntry, and
\* FAT_AddDotsToDirectory makes it grow by its first entries.
BeginDirectory(d, size) ==
    /\ session = "insert"
    /\ pc = "idle"
    /\ ~entry[d].live
    /\ entry' = [entry EXCEPT ![d] = [NoEntry EXCEPT !.live = TRUE]]
    /\ op' = [NoOp EXCEPT !.path = d, !.pos = 1, !.grow = size]
    /\ pc' = "write"
    /\ UNCHANGED <<fat, stable, data, freeCount, fsInfo, session, outcome, crashed, kept>>

IsDirectory == op.path \in Dirs

\* The size FAT_ReserveSpace is to reach: one more unit of the file, or what
\* the directory needs.
Target == IF IsDirectory THEN op.pos ELSE op.pos + 1
NeededClusters == Clusters(Target) - Clusters(op.size)

EndOfHost == ~IsDirectory /\ op.pos = Len(op.host)

InsertDone ==
    /\ pc = "write"
    /\ EndOfHost
    /\ Save
    /\ Finish("ok")
    /\ UNCHANGED <<fat, entry, data, freeCount, fsInfo, session, crashed, kept>>

\* FAT_WriteToFileRaw inside the file: nothing to reserve.
Overwrite ==
    /\ pc = "write"
    /\ ~EndOfHost
    /\ Target <= op.size
    /\ ~IsDirectory
    /\ pc' = "data"
    /\ UNCHANGED <<fat, disks, freeCount, session, op, outcome, crashed, kept>>

\* FAT_ReserveSpace up to the point where it knows the new clusters.
Reserve ==
    /\ pc = "write"
    /\ ~EndOfHost
    /\ Target > op.size
    /\ NeededClusters <= Cardinality(FreeFrom(0))
    /\ NeededClusters > 0 => Save
    /\ NeededClusters = 0 => UNCHANGED stable
    /\ freeCount' = IF Version = 32
                    THEN (freeCount + CountMod - NeededClusters) % CountMod
                    ELSE freeCount
    /\ op' = [op EXCEPT !.clusters = FreeClusters(NeededClusters),
                        !.first = IF NeededClusters > 0 /\ @ = 0
                                  THEN FreeClusters(1)[1] ELSE @,
                        !.cursor = op.first]
    /\ pc' = IF NeededClusters = 0 THEN "setentry"
             ELSE IF op.first = 0 THEN "link" ELSE "walk"
    /\ UNCHANGED <<fat, entry, data, fsInfo, session, outcome, crashed, kept>>

\* The search for clusters comes to the end of the table without enough of them.
\* It fails there when the table has an entry for every number the version has.
TableFull ==
    /\ pc = "write"
    /\ ~EndOfHost
    /\ Target > op.size
    /\ NeededClusters > Cardinality(FreeFrom(0))

\* The failure of a directory to grow is ignored, that of a file is not.
ReserveFails ==
    /\ TableFull
    /\ SearchLast = TableLast
    /\ Save
    /\ Finish(IF IsDirectory THEN outcome ELSE "error")
    /\ UNCHANGED <<fat, entry, data, freeCount, fsInfo, session, crashed, kept>>

\* Otherwise it goes on behind the table, in the copy of the FAT, the root directory
\* and the data of files, and may take what it reads as 0 there for free clusters.
\* What becomes of the volume is not followed here.
Overrun ==
    /\ TableFull
    /\ SearchLast > TableLast
    /\ Save
    /\ pc' = "overrun"
    /\ outcome' = "overrun"
    /\ UNCHANGED <<fat, entry, data, freeCount, fsInfo, session, op, crashed, kept>>

StaysOverrun == pc = "overrun" /\ UNCHANGED vars

\* The walk to the end of the chain, and the link from there.
Walk ==
    /\ pc = "walk"
    /\ ~IsEOC(ReadFAT(fat, op.cursor))
    /\ op' = [op EXCEPT !.cursor = ReadFAT(fat, op.cursor)]
    /\ Save
    /\ UNCHANGED <<fat, entry, data, freeCount, fsInfo, session, pc, outcome, crashed, kept>>

\* FAT_WriteFATEntry refuses a cluster past the last one.
WrittenWide(c, v) ==
    [d \in 0 .. TableLast |-> IF d = c THEN v ELSE IF d = c + 1 THEN 0 ELSE fat[d]]
Written(c, v) == IF c <= TableLast THEN [fat EXCEPT ![c] = v] ELSE fat

LinkToLast ==
    /\ pc = "walk"
    /\ IsEOC(ReadFAT(fat, op.cursor))
    /\ fat' = Written(op.cursor, op.clusters[1])
    /\ Save
    /\ pc' = "link"
    /\ UNCHANGED <<entry, data, freeCount, fsInfo, session, op, outcome, crashed, kept>>

\* One turn of the loop over the new clusters; a directory's are cleared.
Link ==
    /\ pc = "link"
    /\ LET c == Head(op.clusters)
           rest == Tail(op.clusters)
       IN  /\ fat' = Written(c, IF rest = <<>> THEN ChainEnd ELSE Head(rest))
           /\ data' = IF IsDirectory /\ c \in DOMAIN data
                      THEN [data EXCEPT ![c] = [u \in 0 .. ClusterSize - 1 |-> Zero]]
                      ELSE data
           /\ op' = [op EXCEPT !.clusters = rest, !.cursor = 0]
           /\ pc' = IF rest = <<>> THEN "setentry" ELSE "link"
    /\ Save
    /\ UNCHANGED <<entry, freeCount, fsInfo, session, outcome, crashed, kept>>

\* FAT_SetDirectoryEntry, and f->size.  A directory that has its dots then
\* goes through Filesystem_DirectoryReserve, once.
SetEntry ==
    /\ pc = "setentry"
    /\ entry' = [entry EXCEPT ![op.path].first = op.first,
                              ![op.path].size = IF IsDirectory THEN @ ELSE Target]
    /\ IF ~IsDirectory
       THEN /\ op' = [op EXCEPT !.size = Target, !.cursor = 0]
            /\ pc' = "data"
       ELSE IF op.grow > Target
       THEN /\ op' = [op EXCEPT !.size = Target, !.pos = op.grow, !.cursor = 0]
            /\ pc' = "write"
       ELSE /\ op' = NoOp
            /\ pc' = "idle"
    /\ UNCHANGED <<fat, stable, data, freeCount, fsInfo, session, outcome, crashed, kept>>

\* FAT_WriteToFileRaw walks to the unit and writes it; a short write is what
\* the caller sees of a cluster that is not on the volume.
WriteData ==
    /\ pc = "data"
    /\ LET c == ClusterOf(fat, op.first, op.pos)
       IN  IF c # 0
           THEN /\ data' = [data EXCEPT ![c][op.pos % ClusterSize] = op.host[op.pos + 1]]
                /\ op' = [op EXCEPT !.pos = @ + 1]
                /\ pc' = "write"
                /\ UNCHANGED outcome
           ELSE /\ Finish("error")
                /\ UNCHANGED data
    /\ Save
    /\ UNCHANGED <<fat, entry, freeCount, fsInfo, session, crashed, kept>>

-----------------------------------------------------------------------------
(* FAT_DeleteEntry *)

BeginRemove(f) ==
    /\ session = "remove"
    /\ pc = "idle"
    /\ entry[f].live
    /\ op' = [NoOp EXCEPT !.path = f, !.cursor = entry[f].first, !.host = Absent,
                          !.old = IF f \in Files
                                  THEN Extracted(fat, entry, data, f) ELSE Absent]
    /\ pc' = "free"
    /\ outcome' = IF f \in Files THEN "none" ELSE outcome
    /\ kept' = [g \in Files |-> IF g = f THEN Absent ELSE kept[g]]
    /\ UNCHANGED <<fat, disks, freeCount, session, crashed>>

FreeUncounted ==
    /\ pc = "free"
    /\ IsAllocated(op.cursor)
    /\ fat' = Written(op.cursor, 0)
    /\ op' = [op EXCEPT !.cursor = ReadFAT(fat, op.cursor)]
    /\ Save
    /\ UNCHANGED <<entry, data, freeCount, fsInfo, session, pc, outcome, crashed, kept>>
\* One turn of FAT_RemoveFATEntries.
Free ==
    /\ pc = "free"
    /\ IsAllocated(op.cursor)
    /\ fat' = Written(op.cursor, 0)
    /\ freeCount' = IF Version = 32 THEN (freeCount + 1) % CountMod ELSE freeCount
    /\ op' = [op EXCEPT !.cursor = ReadFAT(fat, op.cursor)]
    /\ Save
    /\ UNCHANGED <<entry, data, fsInfo, session, pc, outcome, crashed, kept>>

\* FAT_RemoveDirectoryEntry.
Unname ==
    /\ pc = "free"
    /\ ~IsAllocated(op.cursor)
    /\ entry' = [entry EXCEPT ![op.path].live = FALSE]
    /\ Finish(IF op.path \in Files THEN "ok" ELSE outcome)
    /\ UNCHANGED <<fat, stable, data, freeCount, fsInfo, session, crashed, kept>>

-----------------------------------------------------------------------------
Step ==
    \/ InsertDone \/ Overwrite \/ Reserve \/ ReserveFails \/ Walk \/ LinkToLast
    \/ Link \/ SetEntry \/ WriteData \/ Free \/ Unname

CleanNext ==
    \/ \E command \in {"insert", "remove"} : Open(command)
    \/ \E f \in Files, host \in Hosts : BeginInsert(f, host)
    \/ \E d \in Dirs, size \in DirSizes : BeginDirectory(d, size)
    \/ \E f \in Paths : BeginRemove(f)
    \/ Step \/ Overrun \/ StaysOverrun
    \/ CloseInfo
    \/ CloseTable

Next == CleanNext \/ Crash

Spec == Init /\ [][Next]_vars

\* No process is killed, and one that works on a file goes on.
CleanSpec == Init /\ [][CleanNext]_vars /\ WF_vars(Step \/ Overrun)

-----------------------------------------------------------------------------
(* What a volume is when no process that wrote it was killed *)

Reached(table, f) ==
    {Skip(table, entry[f].first, n) : n \in 0 .. TableLast} \cap 2 .. TableLast

\* No two paths have a cluster in common, in the table and in what is on the
\* image: a process killed for the first time leaves entries whose chains are
\* cut off, never two that meet (file.c:157-206 puts the links in the table
\* before it puts the entry on the image).  It holds up to where a search leaves
\* the table.
NoSharedClusters ==
    ~crashed /\ pc # "overrun" =>
        \A table \in {fat, stable} : \A f, g \in Paths :
            f # g /\ entry[f].live /\ entry[g].live
               => Reached(table, f) \cap Reached(table, g) = {}

\* Between two steps of a command, the chain of every file that no removal is
\* taking apart has the clusters its size needs and ends there.
ChainOf(f, n) ==
    /\ n > 0
    /\ Skip(fat, entry[f].first, n) = EOC
ChainsFitSizes ==
    ~crashed /\ pc \in {"idle", "write", "data", "walk"} =>
        \A f \in Paths :
            entry[f].live =>
                \/ entry[f].first = 0 /\ entry[f].size = 0
                \/ f \in Files /\ ChainOf(f, Clusters(entry[f].size))
                \/ f \in Dirs /\ \E n \in 1 .. TableLast : ChainOf(f, n)

\* No cluster is lost: what is not free belongs to a path or to the root.
NoLostClusters ==
    ~crashed /\ pc = "idle" =>
        {c \in 2 .. TableLast : fat[c] # 0} =
            RootClusters \cup UNION {Reached(fat, f) : f \in {g \in Paths : entry[g].live}}

\* The FSInfo count of a FAT32 volume is the number of its free clusters, less
\* those past its end that were handed out.
FreeCountExact ==
    Version = 32 /\ ~crashed /\ pc = "idle" =>
        (freeCount + Cardinality({c \in 2 .. TableLast : fat[c] # 0})) % CountMod
            = (VolumeLast - 1) % CountMod

\* file.c and fat.c keep entries, chains and the free count by hand: between
\* commands without kills, of which none left the table, the three agree on every
\* cluster of the volume.
VolumeConsistent == ChainsFitSizes /\ NoLostClusters /\ FreeCountExact

\* A file that was on the volume when it was last closed unharmed, and that no
\* command has named since, can be extracted as it was: whatever is killed,
\* and whatever later commands do to the files a killed one left behind, up to
\* where a search leaves the table.
KeptFilesSurvive ==
    \A f \in Files :
        kept[f] # Absent /\ pc # "overrun" =>
            \A table \in {fat, stable} : Extracted(table, entry, data, f) = kept[f]

\* The files, as commands see them, are the files of FileStore.
Store == INSTANCE FileStore WITH
    content <- [f \in Files |-> Extracted(fat, entry, data, f)],
    MayOverrun <- SearchLast > TableLast,
    busy    <- IF pc = "idle" \/ op.path \in Dirs THEN Nobody
               ELSE [file |-> op.path, old |-> op.old, host |-> op.host]
ImplementsStore == Store!Spec

\* A command that works on a file comes to an end (file.c:173-177 walks the
\* chain until it finds its end), or to where its search leaves the table.
CommandsEnd == (pc # "idle") ~> (pc \in {"idle", "overrun"})
=============================================================================
