-------------------------------- MODULE Build --------------------------------
(***************************************************************************)
(* lbt: how a run walks the targets of build.toml (main.rs, target.rs),     *)
(* decides for each output whether it is built already (execute.rs,         *)
(* cache/cache.rs) and keeps the fingerprints of what it built in           *)
(* __lbtcache__/cache.dat (libs/core/buildtool/cache.c), against a user who *)
(* edits files and tools that fail, with the process killed anywhere.       *)
(*                                                                         *)
(* A text is a sequence of letters, so that two texts may be one another's  *)
(* continuation as the bytes of two files may.  What a tool writes is a     *)
(* letter of its own, which holds what it read.                            *)
(***************************************************************************)
EXTENDS Naturals, Sequences, FiniteSets, SequencesExt

CONSTANTS
    Sources, Headers,
    Texts,          \* what the user may write into a source or a header
    FirstTexts,     \* what they hold at first
    Includes,       \* the headers a source with this text includes
    FirstLine,      \* the headers that the first line of a dep file names
    Config,         \* the targets of build.toml
    Requests,       \* the lists of targets a run is started with
    MaxKills, MaxFailures,      \* bounds on kills and on failures of tools
    Reverts,        \* whether texts come back
    EditsUnderTool, \* whether files change between a tool and its record
    PartialOutputs, \* whether a tool that ends early leaves part of its output
    KillsInWrite,   \* whether a kill may fall into the writing of the cache
    Absent, Torn, Unset, Partial

Targets == DOMAIN Config

\* default_out_path: there is no $ in front of the brace, so it is a plain name.
DefaultOutPath == [name |-> "{INPUT}", perInput |-> FALSE]
OutPath(t) == IF Config[t].outPath = Unset THEN DefaultOutPath ELSE Config[t].outPath

\* replace_placeholders of the input's path in out_path.
Replaced(template, input) ==
    IF template.perInput THEN <<template.name, input>> ELSE <<template.name>>

ForEach(t) ==
    IF Config[t].forEach # Unset THEN Config[t].forEach
    ELSE Config[t].out \notin {"executable", "static-library"}

\* What execute is called for with these inputs: one output for each of them,
\* or one for all, named after the first.
Jobs(t, inputs) ==
    IF inputs = <<>> THEN <<>>
    ELSE IF ForEach(t)
         THEN [i \in DOMAIN inputs |-> [tool |-> Config[t].out, inputs |-> <<inputs[i]>>,
                                        output |-> Replaced(OutPath(t), inputs[i])]]
         ELSE <<[tool |-> Config[t].out, inputs |-> inputs,
                 output |-> Replaced(OutPath(t), inputs[1])]>>

\* What a target's patterns match are sources: they may change, and stay.
Listed(list) == list \in Seq(ToSet(list))
ASSUME BuildAssumption ==
    /\ FirstTexts \in [Sources \cup Headers -> Texts]
    /\ \A t \in Texts : Listed(t) /\ Includes[t] \subseteq Headers
    /\ IsFiniteSet(Headers) /\ Sources \cap Headers = {}
    /\ \A t \in Targets : /\ Listed(Config[t].before) /\ Listed(Config[t].depends)
                          /\ Config[t].files \in Seq(Sources)
    /\ \A request \in Requests : Listed(request)
    /\ MaxKills \in Nat /\ MaxFailures \in Nat

VARIABLES
    disk,           \* the contents of the files that exist
    deps,           \* the headers in the dep file of an output
    cacheFile,      \* cache.dat: Absent, torn, or fingerprints by output
    header,         \* headerBuffer of the CacheBuffer: valid, null or wild
    entries,        \* the fingerprints in the CacheBuffer
    pc,             \* what the run does next
    queue,          \* the targets it has still to execute
    stack,          \* the calls of execute_target
    executed,       \* the outputs of the targets that are done
    failed,         \* whether the run ended, or will end, with an error
    jobs,           \* what this or the last run found or made built
    built,          \* how often it called the tool for an output
    quiet,          \* whether no file changed and nothing was killed since it began
    seen,           \* the texts there have been
    kills, failures

cache == <<cacheFile, header, entries>>
walk == <<pc, queue, stack, executed, failed>>
past == <<jobs, built, quiet>>
world == <<seen, kills, failures>>
vars == <<disk, deps, cacheFile, header, entries, pc, queue, stack, executed,
          failed, jobs, built, quiet, seen, kills, failures>>

None == [p \in {} |-> Absent]
With(f, p, value) == [q \in DOMAIN f \cup {p} |-> IF q = p THEN value ELSE f[q]]
Without(f, drop) == [p \in DOMAIN f \ drop |-> f[p]]

-----------------------------------------------------------------------------
(* What tools make, and the fingerprint of what they made it from *)

Content(p) == IF p \in DOMAIN disk THEN disk[p] ELSE Absent
Exists(p) == p \in DOMAIN disk

Contents(paths) == [i \in DOMAIN paths |-> disk[paths[i]]]

\* The headers that inputs with these contents include, but for some.
IncludedBy(inputs, contents, but) ==
    FlattenSeq([i \in DOMAIN inputs |->
        IF inputs[i] \in Sources THEN SetToSeq(Includes[contents[i]] \ but) ELSE <<>>])
Read(job) == job.inputs \o IncludedBy(job.inputs, Contents(job.inputs), {})

\* External: a compiler reads the source and the headers it includes, a linker
\* or an archiver its inputs, and each fails when one is missing.
Made(job, contents) == <<[tool |-> job.tool, from |-> contents]>>
Result(job) ==
    IF /\ \A i \in DOMAIN job.inputs : Exists(job.inputs[i])
       /\ \A i \in DOMAIN Read(job) : Exists(Read(job)[i])
    THEN Made(job, Contents(Read(job)))
    ELSE Absent

\* External: gcc -MMD -MF.  The format of the dep file skips its first line.
HasDeps(job) == job.tool = "object"
DepFile(job) == IncludedBy(job.inputs, Contents(job.inputs), FirstLine)

\* compute_fingerprint of cache_inputs, the inputs and those in the dep file
\* that exist: the digest of the contents one after the other, with nothing
\* between them.  Digests of different bytes are taken to differ.
CacheDeps(job) ==
    IF HasDeps(job) /\ job.output \in DOMAIN deps THEN deps[job.output] ELSE <<>>
FingerprintWithoutDeps(job) == FlattenSeq(Contents(job.inputs))
Fingerprint(job) ==
    LET dep == CacheDeps(job)
    IN  FingerprintWithoutDeps(job)
        \o FlattenSeq([i \in DOMAIN dep |-> IF Exists(dep[i]) THEN disk[dep[i]] ELSE <<>>])

\* ReadFromCache finds nothing in a buffer that readBuffer gave up on: its hash
\* table is empty.
CheckKnown(known, job) == job.output \in DOMAIN known
CheckBuilt(known, job) ==
    /\ job.output \in DOMAIN known
    /\ known[job.output] = Fingerprint(job)

-----------------------------------------------------------------------------

TypeOK ==
    /\ \A p \in Sources : Exists(p)
    /\ \A p \in DOMAIN disk \cap (Sources \cup Headers) : disk[p] \in Texts
    /\ header \in {"valid", "null", "wild"}
    /\ header # "valid" => cacheFile = Torn
    /\ pc \in {"idle", "walk", "tool", "record", "write", "writing"}
    /\ pc \in {"tool", "record"} => stack # <<>> /\ stack[Len(stack)].phase = "each"
    /\ DOMAIN executed \subseteq Targets
    /\ \A i, j \in DOMAIN stack : stack[i].target = stack[j].target => i = j
    /\ \A i \in DOMAIN stack : stack[i].target \notin DOMAIN executed
    /\ failed \in BOOLEAN /\ quiet \in BOOLEAN
    /\ kills \in 0 .. MaxKills /\ failures \in 0 .. MaxFailures

Init ==
    /\ disk = FirstTexts /\ deps = None
    /\ cacheFile = Absent /\ header = "valid" /\ entries = None
    /\ pc = "idle" /\ queue = <<>> /\ stack = <<>> /\ executed = None
    /\ failed = FALSE /\ jobs = {} /\ built = None /\ quiet = FALSE
    /\ seen = {FirstTexts[p] : p \in DOMAIN FirstTexts}
    /\ kills = 0 /\ failures = 0

-----------------------------------------------------------------------------
(* A run *)

\* When readBuffer fails on a torn file, headerBuffer is what malloc returned.
ParseCacheFile ==
    IF cacheFile = Torn
    THEN header' \in {"null", "wild"} /\ entries' = None
    ELSE header' = "valid" /\ entries' = IF cacheFile = Absent THEN None ELSE cacheFile

Start(request) ==
    /\ pc = "idle"
    /\ ParseCacheFile
    /\ pc' = "walk" /\ queue' = request /\ executed' = None /\ failed' = FALSE
    /\ jobs' = {} /\ built' = None /\ quiet' = TRUE
    /\ UNCHANGED <<disk, deps, cacheFile, stack, world>>

Top == stack[Len(stack)]
SetTop(frame) == ReplaceAt(stack, Len(stack), frame)

NewFrame(t) == [target |-> t, phase |-> "before", next |-> 1,
                inputs |-> <<>>, outputs |-> <<>>]

\* execute_target for t: the outputs of a target that is done, none for one of
\* another system or one that is unknown, or a call.
IsElsewhere(t) == t \notin Targets \/ ~Config[t].here
IsDone(t) == t \in DOMAIN executed \/ t \notin Targets \/ ~Config[t].here
OutputsOf(t) == IF t \in DOMAIN executed THEN executed[t] ELSE <<>>

NextTarget ==
    /\ pc = "walk" /\ stack = <<>> /\ queue # <<>>
    /\ queue' = Tail(queue)
    /\ stack' = IF IsDone(Head(queue)) THEN <<>> ELSE <<NewFrame(Head(queue))>>
    /\ UNCHANGED <<disk, deps, cache, pc, executed, failed, past, world>>

\* One of the targets in "before" or "depends"; only the outputs of the latter
\* become inputs.
Require(phase, list, after) ==
    /\ pc = "walk" /\ stack # <<>> /\ Top.phase = phase
    /\ stack' =
        IF Top.next > Len(list)
        THEN SetTop([Top EXCEPT !.phase = after, !.next = 1])
        ELSE LET t == list[Top.next]
                 given == IF phase = "depends" /\ IsDone(t) THEN OutputsOf(t) ELSE <<>>
                 called == SetTop([Top EXCEPT !.next = @ + 1, !.inputs = @ \o given])
             IN  IF IsDone(t) THEN called ELSE Append(called, NewFrame(t))
    /\ UNCHANGED <<disk, deps, cache, pc, queue, executed, failed, past, world>>

Before == stack # <<>> /\ Require("before", Config[Top.target].before, "depends")
Depends == stack # <<>> /\ Require("depends", Config[Top.target].depends, "files")

\* The files of the target's path that match its patterns.
Files ==
    /\ pc = "walk" /\ stack # <<>> /\ Top.phase = "files"
    /\ stack' = SetTop([Top EXCEPT !.phase = "each",
                            !.inputs = @ \o Config[Top.target].files])
    /\ UNCHANGED <<disk, deps, cache, pc, queue, executed, failed, past, world>>

Job == Jobs(Top.target, Top.inputs)[Top.next]
HasJob == stack # <<>> /\ Top.phase = "each"
              /\ Top.next <= Len(Jobs(Top.target, Top.inputs))
JobDone == SetTop([Top EXCEPT !.next = @ + 1, !.outputs = Append(@, Job.output)])

\* An error of execute or of a command goes up to main.
Fails ==
    /\ pc' = "write" /\ failed' = TRUE /\ stack' = <<>>
    /\ UNCHANGED <<queue, executed>>

\* check_built holds for an output that exists.
Skip ==
    /\ pc = "walk" /\ HasJob
    /\ Exists(Job.output) /\ CheckBuilt(entries, Job)
    /\ stack' = JobDone /\ jobs' = jobs \cup {Job}
    /\ UNCHANGED <<disk, deps, cache, pc, queue, executed, failed, built, quiet, world>>

NeedsTool ==
    /\ pc = "walk" /\ HasJob
    /\ ~(Exists(Job.output) /\ CheckBuilt(entries, Job))
    /\ pc' = "tool"
    /\ UNCHANGED <<disk, deps, cache, queue, stack, executed, failed, past, world>>

ToolRuns ==
    /\ pc = "tool" /\ Result(Job) # Absent
    /\ disk' = With(disk, Job.output, Result(Job))
    /\ deps' = IF HasDeps(Job) THEN With(deps, Job.output, DepFile(Job)) ELSE deps
    /\ built' = With(built, Job.output, 1 + (IF Job.output \in DOMAIN built THEN built[Job.output] ELSE 0))
    /\ pc' = "record"
    /\ UNCHANGED <<cache, queue, stack, executed, failed, jobs, quiet, world>>

\* A tool that fails or is killed leaves the output as it was, none, the new
\* one, or a part of it, and the old dep file or the new one.
Leftover ==
    /\ \/ UNCHANGED disk
       \/ disk' = Without(disk, {Job.output})
       \/ Result(Job) # Absent /\ disk' = With(disk, Job.output, Result(Job))
       \/ PartialOutputs /\ disk' = With(disk, Job.output, <<Partial>>)
    /\ \/ UNCHANGED deps
       \/ HasDeps(Job) /\ Result(Job) # Absent /\ deps' = With(deps, Job.output, DepFile(Job))

ToolFails ==
    /\ pc = "tool" /\ Leftover /\ Fails
    /\ IF Result(Job) = Absent THEN UNCHANGED failures
       ELSE failures < MaxFailures /\ failures' = failures + 1
    /\ UNCHANGED <<cache, past, seen, kills>>

\* The process is gone, with what it had in memory.
Dies ==
    /\ pc' = "idle" /\ queue' = <<>> /\ stack' = <<>> /\ executed' = None
    /\ failed' = TRUE /\ header' = "valid" /\ entries' = None

\* write_built after the tool: the dep file and all inputs are read again.
RecordedBefore == With(entries, Job.output, FingerprintWithoutDeps(Job))
Recorded == With(entries, Job.output, Fingerprint(Job))
Record ==
    /\ pc = "record" /\ header # "null"
    /\ entries' \in IF header = "valid" THEN {Recorded} ELSE {entries, Recorded}
    /\ pc' = "walk" /\ stack' = JobDone /\ jobs' = jobs \cup {Job}
    /\ UNCHANGED <<disk, deps, cacheFile, header, queue, executed, failed,
                   built, quiet, world>>

\* AddToCache reads headerBuffer->CacheHeaderEntryCount without a check.
RecordDies ==
    /\ pc = "record" /\ header # "valid"
    /\ Dies
    /\ UNCHANGED <<disk, deps, cacheFile, jobs, built, quiet, world>>

EachDone ==
    /\ pc = "walk" /\ stack # <<>> /\ Top.phase = "each" /\ ~HasJob
    /\ stack' = SetTop([Top EXCEPT !.phase = "run"])
    /\ UNCHANGED <<disk, deps, cache, pc, queue, executed, failed, past, world>>

\* The outputs of the target at the top go to the caller that depends on it.
Return(outputs) ==
    LET below == Front(stack)
        caller == below[Len(below)]
    IN  IF below # <<>> /\ caller.phase = "depends"
        THEN ReplaceAt(below, Len(below), [caller EXCEPT !.inputs = @ \o outputs])
        ELSE below

Memo(t, outputs) == With(executed, t, outputs)

\* "run": nothing, a program, or the removal of the build directory.
Leave ==
    /\ pc = "walk" /\ stack # <<>> /\ Top.phase = "run"
    /\ IF Config[Top.target].run = "delete"
       THEN /\ disk' = Without(disk, DOMAIN disk \ (Sources \cup Headers))
            /\ deps' = None /\ jobs' = {}
       ELSE UNCHANGED <<disk, deps, jobs>>
    /\ executed' = Memo(Top.target, Top.outputs)
    /\ stack' = Return(Top.outputs)
    /\ UNCHANGED <<cache, pc, queue, failed, built, quiet, world>>

CommandFails ==
    /\ pc = "walk" /\ stack # <<>> /\ Top.phase = "run"
    /\ Config[Top.target].run # Unset
    /\ failures < MaxFailures /\ failures' = failures + 1
    /\ Fails
    /\ UNCHANGED <<disk, deps, cache, past, seen, kills>>

TargetsDone ==
    /\ pc = "walk" /\ stack = <<>> /\ queue = <<>>
    /\ pc' = "write"
    /\ UNCHANGED <<disk, deps, cache, queue, stack, executed, failed, past, world>>

\* WriteCacheFile: fopen truncates the file, fclose leaves it whole.
OpenCacheFile ==
    /\ pc = "write" /\ header # "null"
    /\ cacheFile' = Torn
    /\ pc' = "writing"
    /\ UNCHANGED <<disk, deps, header, entries, queue, stack, executed, failed, past, world>>

Ends ==
    /\ pc' = "idle" /\ queue' = <<>> /\ header' = "valid" /\ entries' = None
    /\ executed' = None
    /\ UNCHANGED <<disk, deps, stack, failed, past, world>>

CloseCacheFile == pc = "writing" /\ header = "valid" /\ cacheFile' = entries /\ Ends
WriteWild == pc = "writing" /\ header = "wild" /\ UNCHANGED cacheFile /\ Ends
WriteNothing == pc = "write" /\ header = "null" /\ UNCHANGED cacheFile /\ Ends

-----------------------------------------------------------------------------
(* The world *)

Kill ==
    /\ pc # "idle" /\ kills < MaxKills /\ kills' = kills + 1
    /\ pc = "writing" => KillsInWrite
    /\ IF pc = "tool" THEN Leftover ELSE UNCHANGED <<disk, deps>>
    /\ Dies
    /\ quiet' = FALSE
    /\ UNCHANGED <<cacheFile, jobs, built, seen, failures>>

CanEdit == pc = "record" => EditsUnderTool

Edit ==
    /\ CanEdit
    /\ \E p \in Sources \cup Headers, t \in (IF Reverts THEN Texts ELSE Texts \ seen) :
          /\ t # Content(p)
          /\ disk' = With(disk, p, t)
          /\ seen' = seen \cup {t}
    /\ quiet' = FALSE
    /\ UNCHANGED <<deps, cache, walk, jobs, built, kills, failures>>

RemoveHeader ==
    /\ CanEdit
    /\ \E h \in Headers \cap DOMAIN disk : disk' = Without(disk, {h})
    /\ quiet' = FALSE
    /\ UNCHANGED <<deps, cache, walk, jobs, built, world>>

-----------------------------------------------------------------------------

Step ==
    \/ NextTarget \/ Before \/ Depends \/ Files
    \/ Skip \/ NeedsTool \/ ToolRuns \/ ToolFails \/ Record \/ RecordDies
    \/ EachDone \/ Leave \/ CommandFails \/ TargetsDone
    \/ OpenCacheFile \/ CloseCacheFile \/ WriteWild \/ WriteNothing

Next ==
    \/ \E request \in Requests : Start(request)
    \/ Step \/ Kill \/ Edit \/ RemoveHeader

Spec == Init /\ [][Next]_vars

\* The process runs on, and the user runs lbt again.
LiveSpec == Spec /\ WF_vars(Step) /\ WF_vars(\E request \in Requests : Start(request))

-----------------------------------------------------------------------------
(* Properties *)

Fresh(job) == Exists(job.output) /\ disk[job.output] = Result(job)
Succeeded == pc = "idle" /\ quiet /\ ~failed

\* execute.rs 228-230: an output that is found built holds what its tool would
\* make now of the inputs and the headers they include, whatever was edited and
\* however earlier runs, tools and the writing of the cache ended.
SkippedIsFresh == [][Skip => Fresh(Job)]_vars

\* target.rs 145-201: after a run without an error, during which nothing was
\* edited, every output is what its tool makes of its own inputs.
BuiltIsFresh == Succeeded => \A job \in jobs : Fresh(job)

\* execute.rs 154-230 against 291-365: the fingerprint recorded after the tool
\* is the one that the next run computes before it, so a run after a run
\* without an error calls no tool.
NothingLeftToDo ==
    Succeeded /\ cacheFile \notin {Absent, Torn} =>
        \A job \in jobs : CheckBuilt(cacheFile, job)

\* target.rs 69-71, 274: however many targets depend on one, and however the
\* files change, a run calls no tool twice for an output.
BuiltOnce == \A p \in DOMAIN built : built[p] = 1

\* Neither a run (the memo of target.rs) nor the one after it (the cache of
\* execute.rs) does again what was done.
NoNeedlessWork == NothingLeftToDo /\ BuiltOnce

\* Every run ends; and when the user stops editing, tools stop failing and the
\* process is no longer killed, runs succeed and make everything, as long as
\* the headers that are included exist.
EventuallyBuilt ==
    /\ []<>(pc = "idle")
    /\ <>[](pc = "idle" /\ (\A p \in Sources : Includes[disk[p]] \subseteq DOMAIN disk)
              => Succeeded /\ \A job \in jobs : Fresh(job))
-----------------------------------------------------------------------------
(* Projects *)

Here == {t \in Targets : Config[t].here}

\* given[t][k] is what the first k targets that t depends on give it.
InputsOf(given, t) == given[t][Len(Config[t].depends)] \o Config[t].files
JobsOf(given, t) == Jobs(t, InputsOf(given, t))
OutputsMade(given, t) == [i \in DOMAIN JobsOf(given, t) |-> JobsOf(given, t)[i].output]
AllJobs(given) == UNION {ToSet(JobsOf(given, t)) : t \in Here}

\* given is what the targets of build.toml give each other, and a tool writes a
\* file of its own.
Planned(given) ==
    /\ \A t \in Here : LET needs == Config[t].depends IN
          /\ given[t][0] = <<>> /\ \A k \in 0 .. Len(needs) : Listed(given[t][k])
          /\ \A k \in 1 .. Len(needs) :
                given[t][k] = given[t][k - 1] \o (IF IsElsewhere(needs[k]) THEN <<>>
                                                 ELSE OutputsMade(given, needs[k]))
    /\ \A job \in AllJobs(given) : job.output \notin Sources \cup Headers \cup ToSet(job.inputs)

\* No target waits for itself.
NoCircle(rank) ==
    /\ rank \in [Targets -> Nat]
    /\ \A t \in Here :
          \A d \in (ToSet(Config[t].before) \cup ToSet(Config[t].depends)) \cap Targets : rank[d] < rank[t]

\* No output is given twice.
OneWriter(given) ==
    \A t, u \in Here :
        \A i \in DOMAIN OutputsMade(given, t), k \in DOMAIN OutputsMade(given, u) :
            OutputsMade(given, t)[i] = OutputsMade(given, u)[k] => t = u /\ i = k

\* A fingerprint says which contents it was made from, and no content returns:
\* one job for each output, dep files that name each header, texts that do not
\* run into one another, and what the constants exclude.
Traceable(given) ==
    /\ \A x, y \in AllJobs(given) : x.output = y.output => x = y
    /\ \A job \in AllJobs(given) : HasDeps(job) \/ ToSet(job.inputs) \cap Sources = {}
    /\ FirstLine = {} /\ \A t \in Texts : Len(t) = 1
    /\ ~Reverts /\ ~EditsUnderTool /\ ~PartialOutputs
==============================================================================
