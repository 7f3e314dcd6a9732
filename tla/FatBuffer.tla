----------------------------- MODULE FatBuffer ------------------------------
(***************************************************************************)
(* lfs's access to the file allocation table (fat/fat.c): one write-back    *)
(* window of FAT_BUFFER_SIZE bytes over the table of the open volume.       *)
(* FAT_ReadFATEntry and FAT_WriteFATEntry work in the window; an entry that *)
(* is not wholly in it first writes the window back and then loads it again *)
(* from the first byte of that entry, wherever that byte is.                *)
(*                                                                         *)
(* The image is seen from fat_offset on, in nibbles, nibble 2b being the    *)
(* low and 2b+1 the high half of byte b: FAT12 packs an entry in three      *)
(* nibbles, FAT16 in four, FAT32 in eight of which the last is not touched. *)
(* A value is the function from the places of an entry to nibbles, the      *)
(* least significant first.                                                *)
(***************************************************************************)
EXTENDS Integers

CONSTANTS
    Stride,         \* nibbles from one entry to the next: 3, 4 or 8
    N,              \* the volume's entries are those of clusters 0..N-1
    FatBytes,       \* the size of one FAT
    NumFats,        \* the number of FATs on the volume
    ImageBytes,     \* the size of the partition from fat_offset on
    BufferSize,     \* FAT_BUFFER_SIZE
    ChunkSize,      \* CHUNK_SIZE, the unit in which one FAT is copied
    Nibble,         \* the values of half a byte
    Images,         \* the volumes there may be when the first command runs
    Written,        \* the values callers write into an entry
    NoResult, Done, Refused, BadRead

Cluster == 0 .. N - 1
EntryNibbles == IF Stride = 8 THEN 7 ELSE Stride
Value == [0 .. EntryNibbles - 1 -> Nibble]
Places == 0 .. 2 * ImageBytes - 1
Other == 2 * NumFats * FatBytes .. 2 * ImageBytes - 1

ASSUME StrideAssumption == Stride \in {3, 4, 8}

\* Every entry of the volume lies in the first FAT (the fixpoint of
\* FAT12_FAT16_WriteBootsector and FAT32_WriteBootsector), and a window that
\* starts in the first FAT ends before the last one does.
\* A window holds at least one entry.
ASSUME GeometryAssumption ==
    /\ N \in Nat \ {0} /\ FatBytes \in Nat /\ ImageBytes \in Nat
    /\ BufferSize \in Nat \ {0} /\ ChunkSize \in Nat \ {0}
    /\ NumFats \in Nat \ {0, 1}
    /\ BufferSize >= (IF Stride = 8 THEN 4 ELSE 2)
    /\ Stride * N <= 2 * FatBytes
    /\ BufferSize <= 2 * FatBytes
    /\ 2 * FatBytes <= NumFats * FatBytes
    /\ NumFats * FatBytes <= ImageBytes

ASSUME ValueAssumption ==
    /\ Written \subseteq Value
    /\ Images \subseteq [Places -> Nibble]

\* What a call returns tells success from failure.
ASSUME ResultAssumption ==
    /\ Done \notin {Refused, BadRead}
    /\ NoResult \notin {Refused, BadRead}

VARIABLES
    disk,           \* the image, nibble by nibble
    buffer,         \* fat_buffer
    start,          \* fat_buffer_start, in bytes from fat_offset
    mode,           \* "closed", "rw", "ro", or "copying" inside FAT_CloseFilesystem
    copying,        \* FAT_CopyFAT: the copy being written and the bytes done
    ret             \* the result of the last call

vars == <<disk, buffer, start, mode, copying, ret>>

Entry(image, c) == [i \in 0 .. EntryNibbles - 1 |-> image[Stride * c + i]]
InWindow(n) == 2 * start <= n /\ n < 2 * (start + BufferSize)

\* The image as the open file system sees it: the window over the disk.
View == [n \in Places |-> IF InWindow(n) THEN buffer[n - 2 * start] ELSE disk[n]]

TypeOK ==
    /\ disk \in [Places -> Nibble]
    /\ buffer \in [0 .. 2 * BufferSize - 1 -> Nibble]
    /\ start \in Nat /\ start + BufferSize <= 2 * FatBytes
    /\ mode \in {"closed", "rw", "ro", "copying"}
    /\ copying \in [dst : 1 .. NumFats, done : 0 .. FatBytes]
    /\ ret \in Value \cup {NoResult, Done, Refused, BadRead}

Load(image, off) == [k \in 0 .. 2 * BufferSize - 1 |-> image[2 * off + k]]

Init ==
    /\ disk \in Images
    /\ buffer = Load(disk, 0)
    /\ start = 0
    /\ mode = "closed"
    /\ copying = [dst |-> 1, done |-> 0]
    /\ ret = NoResult

-----------------------------------------------------------------------------
\* FAT_OpenFilesystem ends by loading the first window.
FirstWindow ==
    /\ buffer' = Load(disk', 0)
    /\ start' = 0

Open(m) ==
    /\ mode = "closed"
    /\ mode' = m
    /\ ret' = NoResult
    /\ UNCHANGED <<disk, copying>>
    /\ FirstWindow

Offset(c) == (Stride * c) \div 2
LastByte(c) == Offset(c) + (IF Stride = 8 THEN 3 ELSE 1)
Miss(c) == Offset(c) < start \/ LastByte(c) >= start + BufferSize

\* FAT_FlushFATBuffer writes the whole window, and nothing when read-only.
FlushedNot == disk
FlushedToCopy ==
    [n \in Places |->
        IF InWindow(n) THEN buffer[n - 2 * start]
        ELSE IF InWindow(n - 2 * FatBytes) THEN buffer[n - 2 * FatBytes - 2 * start]
        ELSE disk[n]]
Flushed == IF mode = "ro" THEN disk ELSE View

\* The disk, the window's start and the window once entry c is in it.
DiskFor(c) == IF Miss(c) THEN Flushed ELSE disk
StartFor(c) == IF Miss(c) THEN Offset(c) ELSE start
BufferFor(c) == IF Miss(c) THEN Load(DiskFor(c), Offset(c)) ELSE buffer

Read(c) ==
    /\ mode \in {"rw", "ro"}
    /\ disk' = DiskFor(c)
    /\ start' = StartFor(c)
    /\ buffer' = BufferFor(c)
    /\ ret' = [i \in 0 .. EntryNibbles - 1 |->
                 BufferFor(c)[Stride * c + i - 2 * StartFor(c)]]
    /\ UNCHANGED <<mode, copying>>

\* The window with value v in the entry of c.
PatchedWhole(c, v) ==
    [k \in 0 .. 2 * BufferSize - 1 |->
        LET i == k + 2 * StartFor(c) - Stride * c
        IN  IF i \in 0 .. Stride - 1
            THEN (IF i < EntryNibbles THEN v[i] ELSE 1) ELSE BufferFor(c)[k]]
Patched(c, v) ==
    [k \in 0 .. 2 * BufferSize - 1 |->
        LET i == k + 2 * StartFor(c) - Stride * c
        IN  IF i \in 0 .. EntryNibbles - 1 THEN v[i] ELSE BufferFor(c)[k]]

Write(c, v) ==
    /\ mode = "rw"
    /\ disk' = DiskFor(c)
    /\ start' = StartFor(c)
    /\ buffer' = Patched(c, v)
    /\ ret' = Done
    /\ UNCHANGED <<mode, copying>>

\* The early returns of the two calls, which leave the window as it is.
ReadBeyondLast ==
    /\ mode \in {"rw", "ro"}
    /\ ret' = BadRead
    /\ UNCHANGED <<disk, buffer, start, mode, copying>>

WriteRefused ==
    /\ mode \in {"rw", "ro"}
    /\ ret' = Refused
    /\ UNCHANGED <<disk, buffer, start, mode, copying>>

\* Directory entries, file data and the root directory go to the image at
\* once, behind the window's back (Partition_Write from file.c, directory.c).
WriteOther(n, x) ==
    /\ mode = "rw"
    /\ disk' = [disk EXCEPT ![n] = x]
    /\ UNCHANGED <<buffer, start, mode, copying, ret>>

-----------------------------------------------------------------------------
\* FAT_CloseFilesystem: write the window back, then copy the first FAT over
\* the others chunk by chunk.
CloseFlush ==
    /\ mode = "rw"
    /\ disk' = Flushed
    /\ mode' = "copying"
    /\ copying' = [dst |-> 1, done |-> 0]
    /\ ret' = NoResult
    /\ UNCHANGED <<buffer, start>>

ToCopyWhole == ChunkSize
ToCopy == IF FatBytes - copying.done < ChunkSize
          THEN FatBytes - copying.done ELSE ChunkSize

CopyFrom == 2 * copying.done
CopyTo == 2 * FatBytes * copying.dst + 2 * copying.done

CopyChunk ==
    /\ mode = "copying"
    /\ copying.dst < NumFats
    /\ copying.done < FatBytes
    /\ disk' = [n \in Places |-> IF CopyTo <= n /\ n < CopyTo + 2 * ToCopy
                                 THEN disk[n - CopyTo + CopyFrom] ELSE disk[n]]
    /\ copying' = [copying EXCEPT !.done = @ + ToCopy]
    /\ UNCHANGED <<buffer, start, mode, ret>>

NextCopy ==
    /\ mode = "copying"
    /\ copying.dst < NumFats
    /\ copying.done = FatBytes
    /\ copying' = [dst |-> copying.dst + 1, done |-> 0]
    /\ UNCHANGED <<disk, buffer, start, mode, ret>>

\* The process ends and its window with it; until the next FAT_OpenFilesystem
\* loads one, the variables hold what it will load.
CloseDone ==
    /\ mode = "copying"
    /\ copying.dst = NumFats
    /\ mode' = "closed"
    /\ copying' = [dst |-> 1, done |-> 0]
    /\ UNCHANGED <<disk, ret>>
    /\ FirstWindow

CloseReadOnly ==
    /\ mode = "ro"
    /\ mode' = "closed"
    /\ ret' = NoResult
    /\ UNCHANGED <<disk, copying>>
    /\ FirstWindow

\* The process is killed: what was written stays, the window is gone.
Crash ==
    /\ mode # "closed"
    /\ mode' = "closed"
    /\ ret' = NoResult
    /\ copying' = [dst |-> 1, done |-> 0]
    /\ UNCHANGED disk
    /\ FirstWindow

Next ==
    \/ \E m \in {"rw", "ro"} : Open(m)
    \/ \E c \in Cluster : Read(c)
    \/ \E c \in Cluster, v \in Written : Write(c, v)
    \/ ReadBeyondLast
    \/ WriteRefused
    \/ \E n \in Other, x \in Nibble : WriteOther(n, x)
    \/ CloseFlush
    \/ CopyChunk
    \/ NextCopy
    \/ CloseDone
    \/ CloseReadOnly
    \/ Crash

Spec == Init /\ [][Next]_vars

-----------------------------------------------------------------------------
\* What the code promises its callers, with the table read through the window.
Table == INSTANCE FatTable WITH
    table  <- [c \in Cluster |-> Entry(View, c)],
    stable <- [c \in Cluster |-> Entry(disk, c)],
    other  <- [n \in Other |-> disk[n]],
    mode   <- IF mode = "copying" THEN "closed" ELSE mode,
    ret    <- ret,
    Content <- Nibble

\* FAT_ReadFATEntry, FAT_WriteFATEntry and the window together are a table
\* whose image lags behind but never mixes two tables (fat.c:47-455).
ImplementsTable == Table!Spec

\* While FAT_CloseFilesystem copies, what it has copied agrees with the first
\* FAT, so when it is done all FATs are the same.
FatCopy(i, n) == disk[2 * FatBytes * i + n]
CopiesAgree ==
    mode = "copying" =>
        \A i \in 1 .. NumFats - 1 :
            \A n \in 0 .. 2 * FatBytes - 1 :
                (i < copying.dst \/ (i = copying.dst /\ n < 2 * copying.done))
                    => FatCopy(i, n) = FatCopy(0, n)

\* Until then no write-back of the window changes a copy, though the window
\* may reach into it: the copies stay the FAT of the last complete close.
SameCopies ==
    \A i \in 1 .. NumFats - 1 : \A n \in 0 .. 2 * FatBytes - 1 :
        FatCopy(i, n)' = FatCopy(i, n)
CopiesWaitForClose == [][(mode \in {"rw", "ro"}) => SameCopies]_vars

\* Together: the copies are written by FAT_CloseFilesystem only, and by it whole.
CopiesExact == []CopiesAgree /\ CopiesWaitForClose

\* The four reserved bits above a FAT32 entry are never changed while the file
\* system is open.
SameReserved == \A c \in Cluster : View'[8 * c + 7] = View[8 * c + 7]
ReservedBitsKept == [][Stride = 8 /\ mode' \in {"rw", "ro"} => SameReserved]_vars
=============================================================================
