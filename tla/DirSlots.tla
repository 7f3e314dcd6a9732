------------------------------ MODULE DirSlots ------------------------------
(***************************************************************************)
(* lfs: one directory of a FAT volume as slots of 32 bytes (fat/directory.c, *)
(* fat/lfn.c, fat/file.c).  An entry is a run of slots, the pieces of its   *)
(* long name from the last to the first and the short entry with the 8.3    *)
(* alias.  Slots are written one by one, and the process may be killed      *)
(* between any two, also while a cluster is added.                         *)
(*                                                                         *)
(* The directory lies in clusters of the volume, which other files take     *)
(* from as well, so that its clusters need not follow each other.           *)
(***************************************************************************)
EXTENDS Integers, Sequences, FiniteSets, FiniteSetsExt, SequencesExt, TLC

CONSTANTS
    Names,
    Pieces,         \* the pieces of 13 characters a name consists of
    Alias,          \* the 8.3 name that FAT_ParseName makes of a name
    ClusterSlots,   \* the slots of a cluster
    First,          \* the cluster of the directory at first
    Pool,           \* the other clusters of the volume
    DataLooksLong,  \* whether the data of a file may have 0x0F for an attribute
    MaxKills,       \* bound on kills
    Dots, Nobody, NoText

ASSUME SlotsAssumption ==
    /\ ClusterSlots \in Nat \ {0, 1}
    /\ First \in Nat \ {0} /\ Pool \subseteq Nat \ (0 .. First) /\ IsFiniteSet(Pool)
    /\ Pieces \in [Names -> Seq(UNION {Range(Pieces[n]) : n \in Names}) \ {<<>>}]
    /\ DOMAIN Alias = Names /\ NoText \notin Range(Alias)
    /\ Dots \notin Names /\ Nobody \notin Names
    /\ DataLooksLong \in BOOLEAN /\ MaxKills \in Nat

VARIABLES
    image,      \* the slots of the volume by address
    chain,      \* the clusters of the directory
    saved,      \* the clusters it had when the command began
    taken,      \* the clusters of other files
    pc,         \* what the process does next: nothing, add, clear the cluster
                \* it adds, or remove; "torn" when a kill left that cluster
                \* linked but without an end
    target,     \* the name of the current or the last command
    at,         \* the slot of the directory, or the address, it does next
    todo,       \* the slots it has still to write
    entry,      \* the address of the short entry it removes
    result,     \* of the last command
    lost,       \* whether there was no room for an entry
    kills

vars == <<image, chain, saved, taken, pc, target, at, todo, entry, result, lost, kills>>
command == <<saved, at, todo, entry>>
past == <<lost, kills>>

-----------------------------------------------------------------------------
(* Slots.  owner is for the properties: the name the slot was written for.   *)

Marks == {"zero", "deleted", "used"}
ZeroSlot == [first |-> "zero", long |-> FALSE, order |-> 0, text |-> NoText, owner |-> Nobody]
DotSlot == [ZeroSlot EXCEPT !.first = "used", !.owner = Dots]
DataSlot(long) == [ZeroSlot EXCEPT !.first = "used", !.long = long]
LongSlot(n, i) ==
    [first |-> "used", long |-> TRUE, order |-> i, text |-> Pieces[n][i], owner |-> n]
ShortSlot(n) ==
    [first |-> "used", long |-> FALSE, order |-> 0, text |-> Alias[n], owner |-> n]

\* Only the first byte changes, but of what remains nothing but the attribute is
\* ever read again.
Deleted(slot) == [ZeroSlot EXCEPT !.first = "deleted", !.long = slot.long]

\* The slots FAT_AddDirectoryEntry writes, in this order.
SlotsOf(n) ==
    [i \in 1 .. Len(Pieces[n]) |-> LongSlot(n, Len(Pieces[n]) + 1 - i)] \o <<ShortSlot(n)>>

Volume == Pool \cup {First}
ClusterAddresses(c) == c * ClusterSlots .. (c + 1) * ClusterSlots - 1
Addresses == 0 .. (Max(Volume) + 1) * ClusterSlots - 1

Count == Len(chain) * ClusterSlots
Indices == 0 .. Count - 1

\* FAT_GetAbsoluteOffset, and the walk to a cluster in reads and writes.
AddressOf(i) == chain[i \div ClusterSlots + 1] * ClusterSlots + (i % ClusterSlots)
Slot(i) == image[AddressOf(i)]

-----------------------------------------------------------------------------
(* Looking up and listing *)

\* A lookup or a listing ends at the first zero slot.
EndOf == Min({i \in Indices : Slot(i).first = "zero"} \cup {Count})

Used(i) == Slot(i).first = "used"
IsShort(i) == Used(i) /\ ~Slot(i).long
Shorts == LET end == EndOf IN {i \in 0 .. end - 1 : IsShort(i)}

\* The long-name slots since the last short entry: deleted ones are passed over.
LongRun(i) ==
    LET since == Max({j \in 0 .. i - 1 : IsShort(j)} \cup {-1})
    IN  {j \in since + 1 .. i - 1 : Used(j)}

\* FAT_CombineLFN: the texts of a run in the order of its slots.
InFront(run, k) ==
    {j \in run : \/ Slot(j).order < Slot(k).order
                 \/ Slot(j).order = Slot(k).order /\ j < k}
Combined(run) ==
    [p \in 1 .. Cardinality(run) |->
        Slot(CHOOSE k \in run : Cardinality(InFront(run, k)) = p - 1).text]

ByLongNameStart(i, n) ==
    LET run == LongRun(i) IN run # {} /\ IsPrefix(Pieces[n], Combined(run))
ByLongName(i, n) ==
    LET run == LongRun(i) IN Cardinality(run) = Len(Pieces[n]) /\ Combined(run) = Pieces[n]
Matches(i, n) == Slot(i).text = Alias[n] \/ ByLongName(i, n)

\* FAT_FindEntry: the first short entry that has the long name or the alias.
Matching(n) == {i \in Shorts : Matches(i, n)}
Found(n) == Matching(n) # {}
Find(n) == Min(Matching(n))

\* lfn_offset counts back from the address of the short entry; an entry found
\* by its alias is taken to have no long-name slots.
NoLongName(n) == AddressOf(Find(n))
LongNameFrom(n) ==
    AddressOf(Find(n)) - (IF ByLongName(Find(n), n) THEN Cardinality(LongRun(Find(n))) ELSE 0)

\* FAT_ListDir
Listed(i) ==
    IF LongRun(i) # {} THEN Combined(LongRun(i)) ELSE <<Slot(i).text>>

-----------------------------------------------------------------------------

\* directory.c 40-77 with file.c 181-198: a lookup ends at the first zero slot, so
\* no slot behind one may be in use, whatever runs of deleted and unused slots
\* entries were put in and however clusters were added.
NothingBehindEnd == \A i \in Indices : i > EndOf => Slot(i).first = "zero"

\* A kill tears the directory when the image has the link to a new cluster but not
\* its end: the cluster is in the chain and free in the table.
Torn == pc = "torn"

\* What is typed: the image and the clusters of the directory, and between two
\* slots of a command the place it has come to.  Nothing behind the end is in use
\* wherever it was killed, unless that tore the directory.
TypeOK ==
    /\ ~Torn => NothingBehindEnd
    /\ DOMAIN image = Addresses
    /\ \A a \in Addresses : image[a].first \in Marks /\ image[a].long \in BOOLEAN
    /\ IsInjective(chain) /\ Range(chain) \subseteq Volume /\ chain[1] = First
    /\ taken \subseteq Volume \ Range(chain)
    /\ pc \in {"idle", "add", "clear", "remove", "torn"}
    /\ saved = SubSeq(chain, 1, Len(saved))
    /\ pc \in {"add", "clear"} => at <= Count /\ todo # <<>>
    /\ pc = "idle" => saved = chain
    /\ pc = "remove" => at <= entry /\ ~image[entry].long
    /\ kills \in 0 .. MaxKills

\* A directory with its two dots; the rest of the volume holds data of files
\* that are or once were there.
Init ==
    /\ chain = <<First>> /\ saved = chain /\ taken = {}
    /\ image = [a \in Addresses |->
                    IF a \notin ClusterAddresses(First) THEN DataSlot(DataLooksLong)
                    ELSE IF a - First * ClusterSlots < 2 THEN DotSlot ELSE ZeroSlot]
    /\ pc = "idle" /\ target = Nobody /\ at = 0 /\ todo = <<>> /\ entry = 0
    /\ result = "none" /\ lost = FALSE /\ kills = 0

-----------------------------------------------------------------------------
(* Adding an entry *)

IsFree(i) == ~Used(i)
FitsLong(i, needed) == i + needed <= Count /\ \A j \in i .. i + needed - 2 : IsFree(j)
Fits(i, needed) == i + needed <= Count /\ \A j \in i .. i + needed - 1 : IsFree(j)

\* The slots that are free behind the last one in use.
FreeTail == Count - 1 - Max({i \in Indices : Used(i)})

\* base: the first run that is long enough, or the free slots at the end.
BaseBehindFree(needed) ==
    LET fits == {i \in Indices : Fits(i, needed)}
    IN  IF fits # {} THEN Min(fits) ELSE Count - Max({FreeTail - 1, 0})
Base(needed) ==
    LET fits == {i \in Indices : Fits(i, needed)}
    IN  IF fits # {} THEN Min(fits) ELSE Count - FreeTail

Ends(r) ==
    /\ pc' = "idle" /\ result' = r
    /\ at' = 0 /\ todo' = <<>> /\ entry' = 0

\* Filesystem_OpenEntry finds the name or creates it.
OpenThere(n) ==
    /\ pc = "idle" /\ Found(n)
    /\ target' = Nobody /\ result' = "none"
    /\ UNCHANGED <<image, chain, taken, pc, command, past>>

Create(n) ==
    /\ pc = "idle" /\ ~Found(n)
    /\ pc' = "add" /\ target' = n /\ result' = "none"
    /\ todo' = SlotsOf(n) /\ at' = Base(Len(todo'))
    /\ UNCHANGED <<image, chain, saved, taken, entry, past>>

AddSlot ==
    /\ pc = "add" /\ at < Count
    /\ image' = [image EXCEPT ![AddressOf(at)] = Head(todo)]
    /\ IF Len(todo) = 1 THEN Ends("created") /\ saved' = chain
       ELSE /\ todo' = Tail(todo) /\ at' = at + 1
            /\ UNCHANGED <<saved, pc, entry, result>>
    /\ UNCHANGED <<chain, taken, target, past>>

\* FAT_FindFreeCluster
FreeClusters == Pool \ (Range(chain) \cup taken)

\* A write behind the last cluster has FAT_ReserveSpace add one.  First the table in
\* memory gets the link to it, then its end; a kill between the two leaves the image
\* as one before them does.
Grow ==
    /\ pc = "add" /\ at = Count /\ FreeClusters # {}
    /\ pc' = "clear"
    /\ UNCHANGED <<image, chain, taken, target, command, result, past>>

\* Then the cluster on the image is filled with zeros.
Zeroed(c) == [a \in Addresses |-> IF a \in ClusterAddresses(c) THEN ZeroSlot ELSE image[a]]
Clear ==
    /\ pc = "clear" /\ pc' = "add"
    /\ LET c == Min(FreeClusters)
       IN  chain' = Append(chain, c) /\ image' = Zeroed(c)
    /\ UNCHANGED <<taken, target, command, result, past>>

\* It fails when the search finds no cluster (in FatOverrun the search goes on behind
\* the FAT), and always for the roots of FAT12 and FAT16 and for the root of FAT32,
\* whose size is one cluster too large: the caller goes on with a handle whose entry
\* is at offset 0.
AddFails ==
    /\ pc = "add" /\ at = Count /\ FreeClusters = {}
    /\ Ends("lost") /\ saved' = chain /\ lost' = TRUE
    /\ UNCHANGED <<image, chain, taken, target, kills>>

-----------------------------------------------------------------------------
(* Removing an entry *)

RemoveFound(n) ==
    /\ pc = "idle" /\ Found(n)
    /\ pc' = "remove" /\ target' = n /\ result' = "none"
    /\ entry' = AddressOf(Find(n)) /\ at' = LongNameFrom(n)
    /\ UNCHANGED <<image, chain, saved, taken, todo, past>>

RemoveMissing(n) ==
    /\ pc = "idle" /\ ~Found(n)
    /\ target' = Nobody /\ result' = "none"
    /\ UNCHANGED <<image, chain, taken, pc, command, past>>

\* Every slot from lfn_offset on that has the attribute of a long name.
RemoveLong ==
    /\ pc = "remove" /\ image[at].long
    /\ image' = [image EXCEPT ![at] = Deleted(@)]
    /\ at' = at + 1
    /\ UNCHANGED <<chain, saved, taken, pc, target, todo, entry, result, past>>

KeptShort == image
DeletedShort == [image EXCEPT ![entry] = Deleted(@)]
RemoveShort ==
    /\ pc = "remove" /\ ~image[at].long
    /\ image' = DeletedShort
    /\ Ends("removed")
    /\ UNCHANGED <<chain, saved, taken, target, past>>

-----------------------------------------------------------------------------
(* The rest of the volume *)

\* Another file takes a cluster.
OtherTakes ==
    /\ pc = "idle" /\ FreeClusters # {}
    /\ LET c == Min(FreeClusters)
       IN  /\ taken' = taken \cup {c}
           /\ image' = [a \in Addresses |->
                          IF a \in ClusterAddresses(c) THEN DataSlot(DataLooksLong) ELSE image[a]]
    /\ UNCHANGED <<chain, pc, target, command, result, past>>

OtherFrees ==
    /\ pc = "idle"
    /\ \E c \in taken : taken' = taken \ {c}
    /\ UNCHANGED <<image, chain, pc, target, command, result, past>>

Killed(status, clusters) ==
    /\ pc \notin {"idle", "torn"} /\ kills < MaxKills /\ kills' = kills + 1
    /\ pc' = status /\ result' = "killed"
    /\ at' = 0 /\ todo' = <<>> /\ entry' = 0
    /\ chain' = clusters /\ saved' = clusters
    /\ UNCHANGED <<image, taken, target, lost>>

\* The slots are on the image; the table there is an earlier one, without some of
\* the clusters that this command added.
Crash == \E k \in Len(saved) .. Len(chain) : Killed("idle", SubSeq(chain, 1, k))

\* Writing a cluster's end may bring the image up to the table with the link to it
\* (file.c:178 and 183).  Killed before the image has the end as well, the cluster is
\* in the chain, free in the table and, if it was not cleared, full of old slots.
Growing == IF pc = "clear" THEN Append(chain, Min(FreeClusters)) ELSE chain
CrashTorn == \E k \in Len(saved) + 1 .. Len(Growing) : Killed("torn", SubSeq(Growing, 1, k))

\* A torn directory runs on into whatever file takes its last cluster next; what
\* commands make of it is not followed.
StaysTorn == Torn /\ UNCHANGED vars

-----------------------------------------------------------------------------
Next ==
    \/ \E n \in Names : OpenThere(n) \/ Create(n) \/ RemoveFound(n) \/ RemoveMissing(n)
    \/ AddSlot \/ Grow \/ Clear \/ AddFails \/ RemoveLong \/ RemoveShort
    \/ OtherTakes \/ OtherFrees \/ Crash \/ CrashTorn \/ StaysTorn

Spec == Init /\ [][Next]_vars

-----------------------------------------------------------------------------
(* Properties *)

Owner(n) == Slot(Find(n)).owner

Contiguous == \A i \in 1 .. Len(chain) - 1 : chain[i + 1] = chain[i] + 1

\* Long-name slots without their entry are left by a kill, by an entry there was
\* no room for, and by a removal where clusters do not follow each other.  A kill
\* may also leave a short entry without its long-name slots.
Harmless == kills = 0 \/ (~lost /\ Contiguous)

\* file.c 377-513: a name that is found is found at the entry that was made for
\* it, also behind long-name slots without their entry.  (Between commands: a
\* name whose slots are being written may be in front of such a short entry.)
FoundIsOwn == pc = "idle" /\ Harmless => \A n \in Names : Found(n) => Owner(n) = n

EntriesOf(n) == {i \in Indices : IsShort(i) /\ Slot(i).owner = n}

\* What was created is there and what was removed is not found.
LastCommandHolds ==
    /\ result = "created" => EntriesOf(target) # {}
    /\ result = "removed" /\ Harmless => ~Found(target)

\* A command, and a kill in the middle of one that does not tear the directory, makes
\* or removes entries only for the name it was given.
OthersStay ==
    [][Harmless /\ ~Torn' => \A n \in Names \ {target'} : EntriesOf(n)' = EntriesOf(n)]_vars

\* file.c 421-471: long-name slots in front of an entry that are not its own hide
\* its long name, but it is always found by its alias, also after kills that did not
\* tear the directory.
EntriesFound == ~Torn => \A n \in Names : EntriesOf(n) # {} => Found(n)

\* Between commands a lookup is exact: what was made is found, and nothing else
\* is in its place.
LookupExact == FoundIsOwn /\ EntriesFound

\* Nothing has left long-name slots without their entry.
Orderly == kills = 0 /\ ~lost /\ Contiguous

\* directory.c 122-213: as long as the clusters follow each other, nothing was
\* killed and no entry lost, a listing between commands names what is there, each
\* once and by its long name, and no long-name slot is left without its entry.
ListingExact ==
    pc = "idle" /\ Orderly =>
        /\ \A i \in Shorts : Slot(i).owner # Dots => Listed(i) = Pieces[Slot(i).owner]
        /\ \A i, j \in Shorts : Slot(i).owner = Slot(j).owner /\ Slot(i).owner # Dots => i = j
        /\ \A i \in Indices : Used(i) /\ Slot(i).long =>
              i + 1 \in Indices /\ Used(i + 1) /\ Slot(i + 1).owner = Slot(i).owner
=============================================================================
