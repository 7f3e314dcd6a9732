------------------------------ MODULE FatTable ------------------------------
(***************************************************************************)
(* What lfs's file allocation table promises to the code that uses it       *)
(* through FAT_ReadFATEntry and FAT_WriteFATEntry: one value per cluster,   *)
(* reads that see the last write, and, because only the table on the image  *)
(* outlives the process, an image that always holds some EARLIER table as a *)
(* whole.  A process that is killed loses the last writes, never a write    *)
(* older than one that survives.  FatBuffer shows how the code does it.     *)
(***************************************************************************)
CONSTANTS
    Cluster,    \* the clusters that have an entry
    Value,      \* the values an entry can hold
    Written,    \* the values callers write
    Other,      \* the places of the image behind the FATs
    Content,    \* what one such place holds
    NoResult, Done, Refused, BadRead

VARIABLES
    table,      \* the table as the open file system sees it
    stable,     \* the table on the image
    other,      \* the image behind the FATs, written directly
    mode,       \* "closed", or opened read-write ("rw") or read-only ("ro")
    ret         \* the result of the last call

vars == <<table, stable, other, mode, ret>>

TypeOK ==
    /\ table \in [Cluster -> Value]
    /\ stable \in [Cluster -> Value]
    /\ other \in [Other -> Content]
    /\ mode \in {"closed", "rw", "ro"}
    /\ ret \in Value \cup {NoResult, Done, Refused, BadRead}

Init ==
    /\ table \in [Cluster -> Value]
    /\ stable = table
    /\ other \in [Other -> Content]
    /\ mode = "closed"
    /\ ret = NoResult

\* Any call may bring the image up to the table as it was before the call.
MaySave == stable' \in {stable, table}

Open(m) ==
    /\ mode = "closed"
    /\ mode' = m
    /\ ret' = NoResult
    /\ UNCHANGED <<table, stable, other>>

Read(c) ==
    /\ mode # "closed"
    /\ ret' = table[c]
    /\ MaySave
    /\ UNCHANGED <<table, other, mode>>

Write(c, v) ==
    /\ mode = "rw"
    /\ table' = [table EXCEPT ![c] = v]
    /\ MaySave
    /\ ret' = Done
    /\ UNCHANGED <<other, mode>>

\* A read past the last cluster, or a write that is not allowed.
Reject(r) ==
    /\ mode # "closed"
    /\ ret' = r
    /\ UNCHANGED <<table, stable, other, mode>>

\* The directory and data code writes the image behind the FATs directly.
WriteOther(n, x) ==
    /\ mode = "rw"
    /\ other' = [other EXCEPT ![n] = x]
    /\ UNCHANGED <<table, stable, mode, ret>>

Close ==
    /\ mode # "closed"
    /\ mode' = "closed"
    /\ stable' = table
    /\ ret' = NoResult
    /\ UNCHANGED <<table, other>>

Crash ==
    /\ mode # "closed"
    /\ mode' = "closed"
    /\ table' = stable
    /\ ret' = NoResult
    /\ UNCHANGED <<stable, other>>

Next ==
    \/ \E m \in {"rw", "ro"} : Open(m)
    \/ \E c \in Cluster : Read(c)
    \/ \E c \in Cluster, v \in Written : Write(c, v)
    \/ \E r \in {BadRead, Refused} : Reject(r)
    \/ \E n \in Other, x \in Content : WriteOther(n, x)
    \/ Close
    \/ Crash

Spec == Init /\ [][Next]_vars
=============================================================================
