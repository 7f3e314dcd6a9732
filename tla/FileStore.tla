----------------------------- MODULE FileStore ------------------------------
(***************************************************************************)
(* What lfs insert and lfs remove promise about the files of a volume: a    *)
(* command works on one file at a time and disturbs no other; an insertion  *)
(* that reports success leaves the host file's bytes at the front of the    *)
(* image's file, and a removal leaves no file.  All of it ends where a full *)
(* volume has lfs look for free clusters behind its FAT.                    *)
(***************************************************************************)
EXTENDS Naturals, Sequences

CONSTANTS
    Files,      \* the paths of the image that commands name
    Hosts,      \* the contents of the host's files, sequences of units
    Absent,     \* the content of a file that does not exist
    MayOverrun, \* whether the FAT holds fewer clusters than are looked for
    Nobody      \* no command is working

VARIABLES
    content,    \* what extracting each file would give
    busy,       \* the file a command works on, what it held and what goes in
    outcome     \* how the last command ended

vars == <<content, busy, outcome>>

Init ==
    /\ content = [f \in Files |-> Absent]
    /\ busy = Nobody
    /\ outcome = "none"

\* The bytes of host over the front of old.
Overlay(host, old) ==
    host \o (IF Len(old) > Len(host) THEN SubSeq(old, Len(host) + 1, Len(old)) ELSE <<>>)

OthersKept(f) ==
    /\ DOMAIN content' = Files
    /\ \A g \in Files \ {f} : content'[g] = content[g]

BeginInsert(f, host) ==
    /\ busy = Nobody
    /\ content' = [content EXCEPT ![f] = IF @ = Absent THEN <<>> ELSE @]
    /\ busy' = [file |-> f, old |-> content'[f], host |-> host]
    /\ outcome' = "none"

BeginRemove(f) ==
    /\ busy = Nobody
    /\ content[f] # Absent
    /\ busy' = [file |-> f, old |-> content[f], host |-> Absent]
    /\ outcome' = "none"
    /\ UNCHANGED content

\* In between, the file the command works on may look like anything.
Work ==
    /\ busy # Nobody
    /\ OthersKept(busy.file)
    /\ UNCHANGED <<busy, outcome>>

Succeed ==
    /\ busy # Nobody
    /\ busy' = Nobody
    /\ outcome' = "ok"
    /\ content' = [content EXCEPT ![busy.file] =
                     IF busy.host = Absent THEN Absent
                     ELSE Overlay(busy.host, busy.old)]

\* A failed insertion leaves a file, with what was written of it.
Fail ==
    /\ busy # Nobody
    /\ busy.host # Absent
    /\ busy' = Nobody
    /\ outcome' = "error"
    /\ OthersKept(busy.file)
    /\ content'[busy.file] # Absent

Overrun ==
    /\ MayOverrun
    /\ outcome' = "overrun"
    /\ UNCHANGED <<content, busy>>

\* Nothing is promised from there on.
Unknown == outcome = "overrun" /\ outcome' = outcome

Next ==
    \/ \E f \in Files, host \in Hosts : BeginInsert(f, host)
    \/ \E f \in Files : BeginRemove(f)
    \/ Work
    \/ Succeed
    \/ Fail
    \/ Overrun
    \/ Unknown

Spec == Init /\ [][Next]_vars
=============================================================================
