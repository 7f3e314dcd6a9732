-------------------------- MODULE FatBufferFaults ---------------------------
(***************************************************************************)
(* FatBuffer with an image file that fails: a Partition_Write or            *)
(* Partition_Read of a window moves fewer bytes than were asked for         *)
(* (fat.c:47-61).  FAT_FlushFATBuffer and FAT_LoadFATBuffer then return 1   *)
(* and the entry access returns its error, but what was moved is moved: a   *)
(* short load has already overwritten the front of fat_buffer, while        *)
(* fat_buffer_start still names the old window.                            *)
(***************************************************************************)
EXTENDS FatBuffer

Front(bytes, new, old) ==
    [k \in 0 .. 2 * BufferSize - 1 |-> IF k < 2 * bytes THEN new[k] ELSE old[k]]

\* The write-back ahead of a load stops after some bytes.
FlushFails(c, bytes) ==
    /\ mode = "rw"
    /\ Miss(c)
    /\ disk' = [n \in Places |->
                  IF InWindow(n) /\ n < 2 * (start + bytes) THEN View[n] ELSE disk[n]]
    /\ ret' \in {BadRead, Refused}
    /\ UNCHANGED <<buffer, start, mode, copying>>

\* The write-back succeeds and the load after it stops after some bytes.
LoadFailsMoved(c, bytes) ==
    /\ mode \in {"rw", "ro"}
    /\ Miss(c)
    /\ disk' = Flushed
    /\ buffer' = Front(bytes, Load(disk', Offset(c)), buffer)
    /\ start' = Offset(c)
    /\ ret' \in {BadRead, Refused}
    /\ UNCHANGED <<mode, copying>>
LoadFails(c, bytes) ==
    /\ mode \in {"rw", "ro"}
    /\ Miss(c)
    /\ disk' = Flushed
    /\ buffer' = Front(bytes, Load(disk', Offset(c)), buffer)
    /\ ret' \in {BadRead, Refused}
    /\ UNCHANGED <<start, mode, copying>>

FaultyNext ==
    \/ Next
    \/ \E c \in Cluster, bytes \in 0 .. BufferSize - 1 : FlushFails(c, bytes)
    \/ \E c \in Cluster, bytes \in 0 .. BufferSize - 1 : LoadFails(c, bytes)

FaultySpec == Init /\ [][FaultyNext]_vars

\* An entry access that reports a failure leaves every entry outside the
\* window as it was: the damage a short load does to fat_buffer stays within
\* the BufferSize bytes that the window covers (fat.c:55-61, 324-325).
KeptOutside == \A n \in Places \ Other : ~InWindow(n) => View'[n] = View[n]
FailureConfined ==
    [][(ret' \in {BadRead, Refused} /\ mode # "closed") => KeptOutside]_vars
=============================================================================
