# LCT in TLA+

LCT is a collection of command-line tools: `lfs` makes and edits disk images,
`lbt` builds projects, `lasm`, `lasmp` and `lnk` are an assembler, its
preprocessor and a linker to be, `lbf` runs and compiles brainfuck, `lhoho` and
`ljoke` are toys, and `libs/core` is what they share. This directory holds TLA+
models of the parts whose correctness depends on sequences of steps, the TLC
configurations that check them, and proofs for TLAPS. Paths below are relative
to the repository's `src/`.

To run it: `tlc -config X.cfg M` for each run of `PROJECT.json`, and `tlapm M.tla`
for `Induction` and each module whose name ends with `_proofs`.

## 1. The system

### lfs

One process per command. It opens an image, does one thing and closes it; there
are no threads, so what is hard is the order in which the image changes and what
is left when the process fails or is killed in between.

| part | code | state | operations | correct when |
|---|---|---|---|---|
| disk and partition I/O | `disk/disk.c`, `partition/partition.c` | file position, size | clipped read and write, flushed at once | a transfer says how much it moved |
| partition table | `mbr/`, `partition/table.c`, `main.c` 275-346, 760-822 | four entries, written back at close | create, remove | partitions are disjoint and on the disk |
| access to the FAT | `fat/fat.c` 47-61, 184-455, 844-866 | a window of 1024 bytes over the table, dirty until it moves | read, write an entry; close | it is a table: reads see the last write, the image never mixes two tables |
| files in clusters | `fat/file.c`, `fat/fat.c` 457-504 | entries, chains, the free count | reserve, write, read, delete | chains fit sizes, no cluster is shared or lost |
| directory entries | `fat/directory.c`, `fat/lfn.c`, `fat/file.c` 247-513 | slots of 32 bytes, runs of long-name slots | add, find, list, remove | what was added is found, and nothing else is |
| creating a volume | `fat/fat.c` 63-182, 508-884 | boot sector, empty FATs | create | the FAT covers every cluster |
| paths and host files | `filesystem/filesystem.c`, `native/` | | insert, extract, delete, recursively | host and image hold the same tree |
| command line | `main.c`, `args.c`, `fat/dump.c` | | | |

Directory entries and file data are written to the image immediately
(`disk.c:66` flushes every write); entries of the FAT sit in the window until an
access moves it or the volume is closed. The two meet in `FAT_ReserveSpace`,
which links clusters in the window and then writes the entry that names them.

### lbt

| part | code | state | correct when |
|---|---|---|---|
| cache and execution | `execute.rs`, `cache/cache.rs`, `libs/core/buildtool/cache.c` | fingerprints by output, in memory and in a file | an output that is skipped was built from what its inputs hold |
| targets | `target.rs`, `main.rs` | the outputs of executed targets | each target is executed once, after what it depends on |
| configuration | `config.rs`, `tools/`, `init.rs` | parsed once | |

Hard here: inputs edited while a tool runs, tools that fail after writing their
output, a kill between an output and the cache file, a torn cache file, cycles.

### lasm, lasmp, lbf and the rest

Each is one thread from its arguments to its result; what is hard is that later
steps rely on what earlier ones measured.

| part | code | state | operations | correct when |
|---|---|---|---|---|
| lasmp | `lasmp/Preprocessor.cpp` | the calls of `Process`, definitions, dependencies | one line at a time: include, define, undef, copy with names replaced | the text means what the files say, and `%line` says where each line is from |
| lasm: parser | `Parser/Parser.cpp`, `Parser/x86/` | sections and their entries, the current section, mode and label, names declared global or external | one line at a time | every statement is in its section, in order |
| lasm: layout | `Encoder/Encoder.cpp`, `constants.cpp`, `Evaluate.cpp` | sections of encoded instructions, labels, constants, section starts | measure, evaluate, shorten, again until nothing changes | it ends, and nothing grows again |
| lasm: instructions | `Encoder/x86/` | opcode, prefixes, REX, ModRM, SIB, fields | built from operands, shortened when values are known | the processor reads what the source says |
| lasm: output | `OutputWriter/` | | flat binary, ELF | sections do not overlap, symbols and relocations name what they should |
| lbf | `lbf/` | commands, operations with their numbers, a growing tape | read, count, fill, run or translate | both back ends do what the commands say |

The output of `lasmp` is the input of `lasm`, which counts its lines
(`Parser/Tokenizer.cpp`). Hard: whether the loop of the layout settles and on what; values that
were computed before the code shrank; circles of includes and of definitions. `lnk`
parses arguments only; `lhoho` and `ljoke` print text.

`PROJECT.json` lists every component with its status and every hazard with its
line and the properties that watch it.

## 2. The plan

1. `FatTable`, `FatBuffer`, `FatBufferFaults`: the FAT behind its window (done, proved).
2. `FileStore`, `FatFiles`: files over the table, with kills (done, proved up to where
   a search leaves the FAT); `FatOverrun`: what happens there (in the second copy).
3. `MbrTable`: the partition table (done, proved).
4. `DirSlots`: the entries of a directory as runs of slots (done, proved for
   directories whose clusters follow each other, and in part for all).
5. `Build`: lbt's walk over targets and its cache, against edits, failures and
   kills (done, proved for projects without circles).
6. `X86`, `X86Instr`, `AsmExpr`, `AsmParser`, `Assembler`, `ObjectFile`: lasm from
   lines to files, against `X86Decode` and `AsmMeaning` (done; the order of statements
   and the shrinking of the layout proved).
7. `BfMachine`, `Lbf`: lbf's two back ends against one machine (done; reading and
   the steps of the interpreter proved).
8. `Preprocessor`, `SourceText`: lasmp, with the counting of lasm's tokenizer (done).
9. The fixpoint of the FAT's size at creation; recursion over directories.

Theorems: those of lfs, of lbf's reading and running, of lasm's parser and layout,
and lbt's walk and cache are there (section 5). What is left is the typing of
`SourceText` and of `ObjectFile`. `AsmMeaning` and `AsmProperties` reach a RECURSIVE operator and hold no theorems.

`FatFiles` composes with `FatBuffer` through `FatTable`: `FatBuffer` is proved to
implement `FatTable` for the entries of the first FAT, and `FatFiles` uses these as
`FatTable` offers them, its `Save` being `FatTable`'s `MaySave`. The code also goes to
entries behind the first FAT, on a full volume: there neither holds (see `FatFiles`).

## 3. The modules

### FatBuffer implements FatTable

`FatBuffer` keeps the image from `fat_offset` on as a function from nibbles, so
that FAT12 entries, of three nibbles, share bytes as they do in the code. `start`
is `fat_buffer_start`, `buffer` is `fat_buffer`. `Read(c)` and `Write(c, v)` are
whole calls: on a miss (`Miss`, the `if` of every case of the `switch`) the
window is written back (`Flushed`) and loaded again from the entry's first byte.
`WriteOther` is everything that other code writes behind the FATs. Closing is
split where the image changes: `CloseFlush`, `CopyChunk` and `NextCopy`
(`FAT_CopyFAT` for each further FAT), `CloseDone`. `Crash` keeps the image and
drops the window. `FatTable` is the same for a caller: one value per cluster, an
image (`stable`) that is an earlier table, brought up to date by any access or
by none, and always when closed. The mapping reads the table through the window
(`View`).

The assumption `GeometryAssumption` states what is modelled: accesses to entries
that lie in the first FAT, through a window that ends before the last FAT
does, so that it never covers the root directory. lfs makes two
FATs (`main.c:572`), which gives the second part for any FAT of 1024 bytes; a
volume from elsewhere with a single FAT would not have it. Nothing in the code
compares a cluster with the size of the FAT, so on a full volume the search for a free
cluster makes accesses that the assumption excludes. `FAT_FlushFATBuffer` always writes the
window back, changed or not, so that a window over the root directory or data would also
undo what was written there directly in the meantime.

`FatBufferFaults` adds transfers that stop in the middle of a window.

### FatFiles implements FileStore

`FatFiles` has the table (`fat`) and the table on the image (`stable`), the
directory entry of each path, the units of each cluster, the free count and its
copy in the FSInfo sector, and one process with a program counter: `pc` names
the next thing `FAT_WriteToFileRaw`, `FAT_ReserveSpace` or
`FAT_RemoveFATEntries` does, and each action is a stretch of code with at most
one change to the image, so `Crash` can fall between any two.

| action | code |
|---|---|
| `Open`, `CloseInfo`, `CloseTable` | `FAT_OpenFilesystem`, `FAT_CloseFilesystem` |
| `BeginInsert`, `InsertDone` | `Filesystem_SyncPathsToFS` on a file, one 512-byte unit at a time |
| `BeginDirectory` | `FAT_CreateEntry` of a directory with `FAT_AddDotsToDirectory` and `FAT_ReserveDirectorySpace` |
| `Overwrite`, `Reserve`, `ReserveFails`, `Walk`, `LinkToLast`, `Link`, `SetEntry`, `WriteData` | `FAT_WriteToFileRaw` and `FAT_ReserveSpace` |
| `BeginRemove`, `Free`, `Unname` | `FAT_DeleteEntry` |

The clusters have three bounds: `VolumeLast` is the last one with data, `TableLast` the last
one with an entry in the first FAT, which has whole sectors, and `SearchLast` the last number
of the FAT version, which is all that `FAT_FindNextFreeCluster`, `FAT_ReadFATEntry` and
`FAT_WriteFATEntry` compare a cluster with. Up to `TableLast` a full volume
shows only as a short write. When the table has no free entry left, the search fails if
it ends there (`ReserveFails`; a FAT12 volume of nearly all the clusters there are has such a
table). Otherwise it goes on in the second copy of the FAT, in the root directory and in data, where it
takes every word that is 0 for a free cluster (`Overrun`). The model stops there: what is on the
volume then is whatever these words overwrite. All properties of `FatFiles`, and the
store that it implements, are about what happens before.

Kept: that the free count is changed before the links;
that 0xFFFFFFFF, the answer for a cluster past the table, counts as allocated on
FAT12 and FAT16 and as the end on FAT32; the three values of FAT entry 0.
Abstracted: FAT values past the clusters to three classes; the walk to a unit in
the read and write loops to one step; attributes and times; and the place of an
entry in its directory. A directory is a path with a chain but no content, and
inserting into one that exists is left out.

`FileStore` is what a user may rely on: a command works on one file and disturbs
no other; success of an insertion leaves the host's bytes over the front of what
was there, success of a removal leaves nothing, and a failure leaves some file. From an
`Overrun` on it promises nothing (`Unknown`).

### FatOverrun

`FatOverrun` follows the search into the second copy of the FAT. It has the actions of
`FatFiles` over a table of `SearchLast` entries (`Wide`), of which those behind `TableLast`
are the words of the second copy, and a close (`CloseCopies`) that makes the copies:
what was linked to an entry there is then linked to what the first FAT says of the cluster at the same
place. For FAT16 with 128 to 255 sectors in each of two FATs the
search ends in the second copy, so this is all there is; with smaller ones it goes on in the
root directory and in data. Kills are left out.

### DirSlots

One directory and the volume it lies in: `image` is the slots of 32 bytes by
their address, `chain` the clusters of the directory, `taken` those of other
files. A slot is never used, deleted or in use; a long-name slot holds one piece
of 13 characters and its order, a short one the 8.3 alias. `owner`, the name a
slot was written for, is a history variable for the properties.

| action | code |
|---|---|
| `OpenThere`, `Create` | `Filesystem_OpenEntry`: found, or `FAT_CreateEntry` |
| `AddSlot`, `AddFails` | `FAT_AddDirectoryEntry`, one slot at a time |
| `Grow`, `Clear` | `FAT_ReserveSpace` behind the last cluster: the link and the end in the table, and the zeros on the image |
| `RemoveFound`, `RemoveMissing`, `RemoveLong`, `RemoveShort` | `FAT_DeleteEntry` with `FAT_RemoveDirectoryEntry`, one slot at a time |
| `OtherTakes`, `OtherFrees` | insertions and removals elsewhere, which make clusters that do not follow each other |
| `Crash`, `CrashTorn` | the process is killed between two writes |

Kept: that a deleted slot does not end a run of long-name slots; that a name is
looked up by its long name and then by its alias, at each short entry; that the
long-name slots of an entry are found by counting back on the image, across
whatever lies there; that nothing checks the checksum of a long name; that a
lookup ends at the first unused slot; that a new cluster may be lost from the
table by a kill while the slots written into it stay; and that a kill may leave the image with
the link to a new cluster and without its end, when writing the end moves the window
(`file.c` 178 and 183). Such a directory is torn: its last cluster is free in the
table, another file will take it, and if it was not cleared, old slots in it are in use
behind a zero one. The model stops there (`StaysTorn`), and the properties are about
directories that no kill has torn.
Abstracted: characters to pieces, case, attributes, times, and the file behind
an entry, which is `FatFiles`'s. Left out: entries made with `--no-lfn`.

`LongRun` is what the loop of a lookup has collected when it comes to a short
entry: the slots in use behind the last short entry. `InFront` is the order in
which `FAT_CombineLFN` puts them, by their order and then by their place.

The runs take names that share no piece. A name that begins with the pieces of
another adds a way to be found by left-over slots. `FoundIsOwn`, `OthersStay`
and the second half of `LastCommandHolds` are stated under `Harmless`: a kill on
top of left-over long-name slots, which a removal across clusters that do not
follow each other and an entry without room leave behind, can put these in front
of an entry without its own, which is then found by another's name.

### MbrTable

The entries, the result of the last command and where the last creation searched
(a history variable for a property). Bytes are machine words (`Word`), the
entries' fields shorter ones (`LbaWord`); differences wrap where the code's
do. `qsort` of entries with equal starts may return any order (`SortedOrders`).
Left out: CHS addresses, the type a later format writes into the entry (an entry
is used or not), and the data that `remove` clears.

### Build

The world is `disk` (the contents of the files that exist), `deps` (the dep file
of each output) and `cacheFile`; the process is `pc`, the `stack` of
`execute_target`'s calls, the memo `executed` and the cache in memory
(`entries`, `header`). A text is a sequence of letters; what a tool writes is a
letter that holds what it read, so an output is up to date when it is what its
tool would write now.

| action | code |
|---|---|
| `Start`, `NextTarget`, `TargetsDone` | `main`: the cache file is parsed, then the requested targets one by one |
| `Before`, `Depends`, `Files`, `EachDone`, `Leave`, `CommandFails` | `execute_target` for the target at the top of the stack |
| `Skip`, `NeedsTool`, `ToolRuns`, `ToolFails`, `Record`, `RecordDies` | `execute` for one output |
| `OpenCacheFile`, `CloseCacheFile`, `WriteWild`, `WriteNothing` | `WriteCacheFile` |
| `Kill`, `Edit`, `RemoveHeader` | the world |

Kept: that the fingerprint is computed twice, before the tool from the old dep
file and after it from the new one; that dep files name headers that may be gone;
that a failed run still writes the cache; that a torn cache file leaves
`headerBuffer` uninitialised, so that recording dies and writing does nothing or
writes rubbish; that only the outputs of `depends` become inputs; the memo.
Abstracted: a digest is the sequence of letters it was made from, so digests of
different bytes differ but boundaries between files are lost, as in the code;
the hash table and the layout of the cache file; the choice of a tool (one fits
each output); the commands of `run` but "execute" and "delete".

The constants name what the code relies on. `SkippedIsFresh` holds only when each
of these is false, and TLC finds it violated when one is true: `EditsUnderTool`
(a file changes between the tool and the record), `Reverts` (a text comes back
while outputs are newer than the cache file: a killed run had built the other
one), `PartialOutputs` together with a target that deletes the outputs, and a
header on the dep file's first line (`FirstLine`), which the default format
drops. `EventuallyBuilt` holds only when no kill falls into the writing of the
cache file (`KillsInWrite`): after one, every run that has something to build
dies in `AddToCache` before it gets to write the file again.

What the targets give each other is not a constant but follows from `Config`. For
theorems, `Planned(given)` says that `given` is that: what each target has from the
first k it depends on (`InputsOf`, `JobsOf`, `AllJobs`). `NoCircle` excludes targets
that wait for themselves, `OneWriter` says that no output is given twice, and `Traceable`
that a fingerprint says which contents it was made from. `MCBuild` has TLC evaluate them for the
projects of the runs (`Traceable` for `BuildCrash`, where no tool leaves a part of an output).

### lasm

`AsmParser`, `Assembler` and `ObjectFile` each add the variables of their part
of `main`; `ObjectFile` has the whole behaviour. `X86` is `x86::Instruction`
(`Encoder/x86/Encoder.cpp`, `parse.cpp`), `X86Instr` the constructors and
`optimizeS` of its subclasses, `AsmExpr` the evaluation of expressions. These three have
no state of their own: an instruction is a record, and a constructor that throws gives an error.
`ProgramAssumption` says what a program is: a sequence of lines, in which what stands as an
instruction has a mnemonic or an alias of one that the parser knows (`Mnemonics`, `Aliases`);
other words never become instructions in `Parse`. `Lasm_proofs` proves two properties of these modules.

| action | code |
|---|---|
| `CollectNames` | `Parser::Parse`, the loop that takes `global` and `extern` out of the text |
| `ParseSection`, `ParseBits`, `ParseExtern`, `ParseNothing` (`global`, `org`), `ParseLabel`, `ParseEqu`, `ParseData`, `ParseRepetition` (`align`, `times`), `ParseInstruction`, `ParseEnd` | the branches of the loop over lines, and the lines in front of the first section |
| `Initialize` | the constructor calls for every entry |
| `CalculationPhase`, `EvaluationPhase`, `OptimizationPhase` | the three parts of a pass of `Encode` |
| `GenerateCode` | bytes and relocations of every instruction |
| `setAlignments`, `WriteBinary`, `WriteELF` | the output writers |

`X86Decode` is the processor: from bytes and a mode to an operation with its
operands, written from the formats of the architecture and not from the
encoder. `AsmMeaning` says what a program means without any encoding: which
statements lie in which section, where labels lie given the places of the
instructions in the file, what expressions are worth there, and what a linker
makes of relocations. `MeansProgram` compares the two: decoded, the linked file
is the program.

The code has cases in which this is not so. `AsmProperties` names each of them,
and the properties are stated for the rest:

| name | what the code does | at |
|---|---|---|
| `LosesDigit` | adc, or, sbb, and, sub, xor, cmp with the accumulator and a small number become add | `alu/two_argument.cpp:356` |
| `LosesBase` | an index alone with a factor of 4 or 8 loses its displacement or gains ebp; [si], [di] with a large displacement lose a byte | `parse.cpp:400`, `parse.cpp:329` |
| `UncheckedRegister` | registers of 64-bit mode are taken elsewhere in mov, push, pop, jmp and in memory operands | `data/mov.cpp`, `stack/normal.cpp` |
| `OddSegment` | mov of a segment register from 8 bits is taken; mov of eax from one lacks a prefix in 16-bit mode; mov of a control register from one is another instruction | `data/mov.cpp` |
| `LosesDistance` | distances to other sections, or to external names with an addend, or in ELF32 | `Evaluate.cpp:56-62` |
| `Scales` | a multiple of an address is computed as if the sections followed each other | `Evaluate.cpp:87` |
| `Outgrows` | a value that grows while code shrinks outgrows a field that was shortened for it | `control/jmp.cpp:164` |
| `StaleConstant`, `EarlyCount` | a constant, or the count of reserved bytes, is evaluated before the code has shrunk, or before it was laid out | `constants.cpp:10`, `data.cpp:110` |
| `RelocatedTwice` | the relocations of data are added in every pass | `data.cpp:60` |
| `DottedAddress`, `DottedEqu` | local names in memory operands, and local constants, are not prefixed with their label | `Parser/x86/expression.cpp` |
| `Miscounted` | adcx and adox are one byte longer than `size()` says; a shift by 1 shrinks without saying so | `Encoder.cpp:122`, `alu/shift_rotate.cpp:118` |
| `Unsupported` | what is refused although it is legal: `align` and `times`, data wider than 8 bytes, products and negated scaled registers in an address, names behind the first one of an `extern`, constants with an external name in an ELF file | `Parser/x86/Parser.cpp`, `Encoder.cpp` |

Kept: how ModRM, SIB and REX come about for every kind of memory operand; that
`size`, `encodeS` and the offsets of fields are three computations; that values
are signed or not by the width of their field; that sections opened again
continue; that .text moves to the front of a binary; that ELF symbols nobody
uses are left out. Abstracted: characters and tokens, wide numbers to those
that fit 32 bits, plus classes for wider ones, strings of symbol names to indices, and the bytes of ELF
structures to records.

### Lbf implements BfMachine

A behaviour of `Lbf` is three processes: the program is run, translated with
`-c`, and the translation is run on the same input. `ReadChar`, `Count` and
`Fill` are the three loops of `main.c`, one turn at a time; then `interpret` and `compile` do one
operation a step. `BfMachine` walks over the characters of the program. A step
of it takes any number of equal commands in a row, because an operation does;
the refinement finds the machine's place by `place`, a history variable that
says where in the text an operation began. `Characters` is what a file can hold; the
commands are among it, and everything else is skipped. `Doubled` is the length
that `tape.c` comes to when it doubles until the cell is there.

Kept: that fgetc's answer is cut to a char, so that byte 255 ends the file; that
a digit behind no "=" takes a slot nobody counted, which leaves another one
unwritten or lies behind the arrays; that the tape doubles and nothing checks
for memory; that the translation is cut modulo 256. For texts with such digits or bytes
(`Plain`) nothing is promised, and for programs with a row of `Byte` moves of
the head nothing of their translations (`faithful`). What a slot that was never written does
beyond being skipped or ending the process is left out.

### Preprocessor and SourceText

`stack` is the recursion of `Process`, a record for each call with its place and
the two line counters; `ProcessLine`'s loop is a phase with `current` and
`seen`, one pass a step. A line is one of the kinds the code tells apart, with
words, strings and separators in it.

| action | code |
|---|---|
| `BlankLine`, `TextLine`, `OtherLine` | the top of the loop in `Process`, with what is written so that the reader counts right |
| `Define`, `Undef`, `Include`, `IncludeFails`, `Return` | the directives, and the end of a file |
| `Replace`, `Cyclic`, `OutOfMemory`, `PrintLine` | a pass of `ProcessLine`, and its ends |
| `Finish` | `main`, which writes the dependencies last |

`SourceText` says what a project means without these loops: `Walk` is its lines
with included ones in their places, `final` what names stand for, and
`Reported` what lasm's tokenizer, which reads the output, takes for the file
and line of each statement. There are no include paths (`main.cpp:49`), so a
name in angle brackets is never found; there are no conditionals and no macros
with parameters. `Touching` excludes strings that touch a word, which are
printed in front of it (`Preprocessor.cpp:250`).

## 4. The runs

| run | what it checks | bounds | result |
|---|---|---|---|
| FatBuffer32 | `TypeOK`, `ReservedBitsKept`, `ImplementsTable`, `CopiesExact` | FAT32, a window smaller than the table and chunks smaller than a FAT, two values that differ in every nibble | holds |
| FatBufferFaults | `FailureConfined` | FAT12, entries that share bytes; a transfer stops after any number of bytes | holds |
| FatFilesCrash | `TypeOK`, `NoSharedClusters`, `KeptFilesSurvive` | two files, hosts of one and two units, three clusters, which are all that the version has, kills anywhere, FAT12 | holds |
| FatFilesClean | `VolumeConsistent`, `ImplementsStore`, `CommandsEnd` | FAT32 with its root chain, two files and a directory, clusters of two units, a host of three units, an entry past the volume, four numbers past the FAT | holds |
| FatOverrun | `RemovesOnlyItsOwn` | FAT16, two files of two units on three clusters, a second copy of the FAT | violated |
| MbrDefault | `TypeOK`, `RegionsOwned`, `RefusesOnlyWhenFull` | seven sectors, four entries, sizes that are and are not whole sectors, no `--start` and one that is not a whole number of sectors | holds |
| BuildCrash | `TypeOK`, `SkippedIsFresh` | a source, a header, an object and a program, three requests, new texts twice, the header removed, one failure, one kill anywhere | holds |
| BuildTargets | `BuiltIsFresh`, `NoNeedlessWork`, `EventuallyBuilt` | two sources, a library and a program that share the objects, a target of another system, a program that is run, one new text, one failure, which may leave part of an output, and one kill, not in the writing of the cache | holds |
| DirSlots | `TypeOK`, `LookupExact`, `LastCommandHolds`, `ListingExact`, `OthersStay` | three names of one and two pieces with different aliases, clusters of three slots, two clusters to grow into, one kill between any two writes | holds |
| Lasm | `TypeOK`, `MeansProgram`, `StatementsInOrder`, `FileExact`, `RefusesOnlyIllegal`, `NeverGrows`, `Ends` | every mnemonic with every form of operands in three modes as a program of its own; programs with gaps of 122 to 130 bytes around jumps, with counted data of 138 to 148 bytes, with three sections in three orders, constants, local, global and external names; flat binaries and ELF | holds |
| Lbf | `ReadExact`, `CompiledAgrees`, `ImplementsMachine`, `CompiledEnds` | every text of up to three characters of 14 kinds and eleven longer ones, cells of three values, a tape of two cells that doubles up to eight, two inputs | holds |
| Preprocessor | `TypeOK`, `SourceKept`, `DependenciesExact`, `RefusesOnlyIllegal`, `Ends` | every input of up to three lines of 16 kinds and five longer ones, over files that include each other and themselves, both kinds of lists, six open files, lines of up to twelve items | holds |

Several of these are conjunctions of named parts: `CopiesExact` of `CopiesAgree` and
`CopiesWaitForClose`; `VolumeConsistent` of `ChainsFitSizes`, `NoLostClusters` and
`FreeCountExact`; `RegionsOwned` of `PartitionsDisjoint` and `PartitionsOnDisk`;
`NoNeedlessWork` of `NothingLeftToDo` and `BuiltOnce`; `LookupExact` of `FoundIsOwn` and
`EntriesFound`; `FileExact` of `SymbolsExact` and `SectionsPlaced`; `SourceKept` of
`MeansSource` and `LinesKept`; `ReadExact` of `RefusesOnlyUnbalanced` and
`OperationsFilled`; and `TypeOK` of `DirSlots` has `NothingBehindEnd` in it.

Why the bounds are enough. In `FatBuffer` an access depends on whether the
entry lies in, straddles or misses the window, and with entries on either side of
it all three happen, in both directions, for even and odd FAT12 entries in `FatBufferFaults`; the
proofs remove the bound. In `FatFiles` two files are what it takes to share a
cluster, a host of more units than a cluster holds makes a chain of two, and the
volume is small enough to be full, where `FatFilesCrash` has the search fail and
`FatFilesClean` has it leave the FAT. In `MbrTable` all four entries are in play and
the disk has room for gaps between them. In `Build` a stale fingerprint needs two
texts and a run between them, a stale dep file a text with the header and one
without, and a chain of two tools makes one output the input of another. In `DirSlots` a run of three
slots straddles a cluster of three wherever it does not begin one, three names
do not fit one cluster with the dots, and with another file taking clusters the
directory comes to clusters that do not follow each other and to a full volume.

In `Lasm` a form of an instruction is decided by its mnemonic, the
kinds and sizes of its operands, the mode and the class of its numbers (a byte, a word, a
double word, or wider), and each combination is there; what depends on the
distance between instructions is decided within a few bytes of the limits of a
short form, which the gaps step over one by one. In `Lbf` cells of three values
wrap in three commands, and a tape of two cells grows twice. In `Preprocessor`
three lines are a definition, another one and a use, or an include between
two lines that are counted; six open files are more than there are to open
without a circle.

What the violated run shows (`findings` in `PROJECT.json`):

On a volume without free clusters an insertion is not refused. In `FatOverrun` one file
has two of three clusters, a second one gets the third and an entry in the second copy of the
FAT, at the place that belongs to a cluster of the first file. The insertion fails, as
there is no such cluster to write to, and closing makes the link there that of the first
file's cluster. The second file now runs into the first, and removing it frees a cluster of the first
file, which nobody named.

What else the code does that a property excludes, found with other values of
the constants of a run:

* A shorter file inserted over a longer one keeps its tail, as `FileStore`
  states it; nothing truncates (`filesystem.c:277` has a TODO about overriding).
* With a `--start` in front of 1 MiB (`StartArgs = {0, 2}`, `SizeArgs = {2, 4}`),
  and with one behind it that is a whole number of sectors (`StartArgs = {0, 6}`),
  `PartitionsDisjoint` is violated: the unsigned gap in `mbr.c:125` wraps when a
  partition lies in front of the search start, and two partitions begin at the same
  sector. A start that is not aligned always moves on to the next sector
  behind the partitions it meets. The branch for the first region, in front of every
  partition, is never taken when the start is the default one. `RegionsOwned` is therefore
  a claim about the default start and starts that are not aligned, no more.
* "adc ax, 5" is assembled to the bytes of "add ax, 5", where `docs/lasm/x86.md:60` gives the form with
  the digit 2: `optimizeS` (`alu/two_argument.cpp:356`) turns the accumulator form, which has no
  ModRM byte, into opcode 83, whose digit was never set. Without `LosesDigit` in `KnownWrong`,
  `MeansProgram` is violated.
* Without `out_path` all objects of a target are built into one file named
  `{INPUT}`, as `config.rs:116` has no dollar sign; `BuiltIsFresh` is violated then.
* With two names of one alias `FoundIsOwn` is violated: `FAT_ParseName` cuts a name without
  making it unique, and `file.c:471` takes the alias of another long name for the
  name, so that the second file is written over the first.

`MbrDefault` gives sizes and a disk that ends behind the default start. Neither is
checked by the code: without `--size` a full disk gives a partition of no sectors
inside the last one, whose end then misleads the search (`SizeArgs` with 0
violates `PartitionsDisjoint`), and on a disk below 1 MiB both the size and the
check wrap (`DiskSize = 2` violates `PartitionsOnDisk`).

What the passing runs say with a condition: `NoSharedClusters`,
`ChainsFitSizes`, `NoLostClusters` and `FreeCountExact` are about volumes no
process was killed on (`~crashed`); `NoSharedClusters` also looks at the table
on the image, so it covers the image right after a first kill. After one, an
entry may name clusters that are free, a later insertion takes them, and the two
files share them: this is what the code does, and `KeptFilesSurvive` says how far
it goes: only files that the killed or a later command named are touched. All of these, and
`CommandsEnd`, are about what happens before a search leaves the FAT (`pc` is "overrun" from there on).
`CommandsEnd` is checked on FAT32 without kills. A chain that a kill cut off, and on FAT12
and FAT16 a walk past the last cluster, may make `file.c` 173-177 go on for ever; no
run shows that it does not.

`EntriesFound` and `NothingBehindEnd` hold also after kills, unless one has torn the
directory (`Torn`);
`ListingExact` is about directories whose clusters follow each other and that
nothing was killed on. With `DataLooksLong = TRUE` the properties hold as well,
but removing an entry that straddles two clusters then marks slots of another
file's data as deleted: nothing checks that what is counted back to is part of
the directory.

Other constants of `DirSlots` show how far kills and shared pieces reach. With two
kills `FoundIsOwn` is violated: one, in a removal, leaves a short entry without its
long-name slots, and another, in a creation, leaves the long-name slots of a different name
in front of it. One kill is enough when names share pieces: a slot left in front of an entry
makes its long name that of another (`<<b>>` in front of `<<c>>` is read as
`<<c, b>>`, as the orders are alike). A removal in clusters that do not follow each other
counts back into the slots of others, so that names which share pieces may be
found at each other's entries without any kill.

Deadlock checking is on in every run.

### Fairness

`CleanSpec` has `WF_vars(Step \/ Overrun)`: a process that works on a file goes on. lfs is a
sequential program that waits for nothing, so this is what running it means.
Starting commands and closing are not fair, and `CommandsEnd` needs neither. `OverrunSpec` has
the same fairness.
`LiveSpec` of `Build` has `WF_vars(Step)` for the same reason and weak fairness of
starting a run: the user runs lbt again. Kills, edits and failures are bounded
and not fair. `Lbf` and `Preprocessor` have `WF_vars(Next)`, and `ObjectFile` the same as a formula TLC need not look for enabled steps in (`Fairness`): each is one
thread that reads files and waits for nothing, and a step of it is enabled until it
has ended, as deadlock checking shows. The other specifications have no fairness:
their properties are about safety.

## 5. The proofs

Every theorem is about all values of the constants that satisfy the `ASSUME` of the
module, and of those named with it. `Induction` has what the others use
of induction: a set of naturals that is not empty has a least element, and a set that
holds 0 and the successor of each of its naturals has them all. What is to be shown of
every natural is written as a set.

| theorem | property | beside the module's assumption |
|---|---|---|
| `FatBuffer_proofs!Typing` | `TypeOK` | |
| `FatBuffer_proofs!Implements` | `ImplementsTable` | |
| `FatBuffer_proofs!CopiesAreExact` | `CopiesExact` | |
| `FatBuffer_proofs!ReservedKept` | `ReservedBitsKept` | |
| `FatBuffer_proofs!FailuresConfined` | `FailureConfined` of `FatBufferFaults` | |
| `MbrTable_proofs!Typing` | `TypeOK` | |
| `MbrTable_proofs!Regions` | `RegionsOwned` | `Ordinary` |
| `MbrTable_proofs!Refusals` | `RefusesOnlyWhenFull` | `Ordinary` |
| `FatFiles_proofs!Typing` | `TypeOK` | |
| `FatFiles_proofs!NoSharing` | `NoSharedClusters` | |
| `FatFiles_proofs!Consistency` | `VolumeConsistent` | |
| `FatFiles_proofs!KeptSurvive` | `KeptFilesSurvive` | |
| `FatFiles_proofs!ImplementsFiles` | `ImplementsStore`, of `CleanSpec` | |
| `DirSlots_proofs!Typing` | `TypeOK` | |
| `DirSlots_proofs!Finding` | `EntriesFound`, a half of `LookupExact` | |
| `DirSlots_proofs!Listing` | `ListingExact` | aliases differ |
| `DirSlots_proofs!Lookups` | `LookupExact` and `LastCommandHolds` while `Orderly` | names and aliases differ |
| `DirSlots_proofs!Others` | `OthersStay` while `Orderly` and not torn | names and aliases differ |
| `Build_proofs!Typing` | `TypeOK` | `NoCircle` |
| `Build_proofs!SkipsAreFresh` | `SkippedIsFresh` | `Traceable` |
| `Build_proofs!RunsBuild` | `BuiltIsFresh` | `Traceable` |
| `Build_proofs!RunsDoNothingTwice` | `NoNeedlessWork` | `Traceable`, `NoCircle`, `OneWriter` |
| `Lbf_proofs!ReadsExactly` | `ReadExact` | |
| `Lbf_proofs!RunsAsMachine` | `ImplementsMachine`, of `Spec` | |
| `Lasm_proofs!ParserKeepsOrder` | `StatementsInOrder` | |
| `Lasm_proofs!LayoutShrinks` | `NeverGrows` | |

`FatBuffer`. The inductive invariant (`Inv`) is `TypeOK` with `Coherent`: read-only, the view
is the image; closed and while the copies are made, the two agree on the first
FAT and no result is pending; and a window larger than a FAT has not moved.
`TypeOK` alone does not show that closing and killing lose what they should and
no more. The argument: an
entry's nibbles are places of the first FAT (`EntryPlace`) and no two entries
share one (`EntriesDisjoint`), the arithmetic facts, stated for each stride; a
write-back makes the image what the view was, and a load changes no view; so
each access changes the view at most in the nibbles of its own entry
(`SameEntries`), and the image at most to the earlier view. Each action of
`Next` is then an action of `FatTable` or a stutter (`StepTable`). For the copies
(`CopyInv`) the window must not have changed what lies behind the first FAT
(`OnlyFirstDiffers`): it reaches into the second, but only writes back what it
read there. With transfers that fail (`FaultInv`) the read-only view may differ
from the image; what is confined is the damage to the FATs.

`MbrTable`. `Inv` is `TypeOK` with `Owned` and `Apart`, which say without machine words
where the regions of the entries lie: at or behind the default start, not empty,
on the disk, pairwise apart. `RegionsOwned` alone is not inductive, as it does not say that the end of a
region fits a word. In the sorted order each used region ends at or before
the start of the next (`Sorted`, `EndsSorted`), so a gap in which the size fits is free (`FoundIsFree`); when
no gap fits and the space behind the last region is too small, no other region of the disk
is free and large enough (`NotFoundIsFull`). `Ordinary` excludes what section 4 shows to be violated: sums that wrap, sizes of
zero, and a `--start` that is a whole number of sectors and is not the default. Run `MbrDefault`, over `MCMbrTable`, has
TLC evaluate it.

`FatFiles`. `TypeInv` adds to `TypeOK` what each state of the program counter says of
the operation. `ChainInv` says that, until a kill, there is a sequence of clusters for each path, `S`,
and a number `k` such that no cluster occurs twice (`Apart`), the table holds
exactly these chains (`InTable`, with those the command has not linked or
has freed already), the table on the image leads from no chain to another
(`OnImage`), entries name the first cluster and have the size (`Named`), and the free count is
right (`Counted`, up to the wraps of its word). None of `NoSharedClusters`, `ChainsFitSizes`, `NoLostClusters`
and `FreeCountExact` is inductive alone: a link that is missing is only harmless because the
command knows the clusters it has taken. `KeptInv` is another invariant, which holds after
kills: for each file that was kept there is a set of clusters that no
link leads out of or into, in the table and on the image, and that nothing else names.
`StoreInv`, what an insertion has written so far, is added to show that each
step of `CleanSpec` is a step of `FileStore` or a stutter. All of this holds up to an `Overrun`,
after which no step but a stutter is left (`OverrunChain`, `OverrunOfStore`); the theorems do not speak of what
the code does from there. With `SearchLast = TableLast` there is no `Overrun`, and they are
about every state.

`DirSlots`. `RowInv` looks at a directory as a row of slots (`Row`), so that the proof
that nothing lies behind the end (`Filled`) does not deal with clusters: a
creation writes into a run that is free and does not begin behind the end (`Placing`, from
`BaseIsFree`); a kill cuts off clusters that no entry was put in, or tears the directory, after
which only the types of `DirInv` are left.
`Neat` is added for orderly directories (`Orderly`): every long-name slot has the next of its
entry behind it (`Followed`), every slot of an entry has the one before
in front of it (`Preceded`), no name has two entries (`Single`), but for the entry a command has in
hand. `Followed` alone would allow slots of another entry to be read as part of a name, and
`Preceded` alone slots without an entry. From both, what is collected in front of a short
entry is exactly its long name (`OwnRun`, `OwnName`), and what a removal
counts back to is its first slot. Aliases must differ because a name that is found
by the alias of another is taken to have no long name, and its removal then leaves slots without an entry;
`FAT_ParseName` does not make them differ.

`Build`. The theorems are about every project for which there is a `given` with `Planned`: any
number of targets, sources, headers and texts, any requests, edits, kills, failing tools and torn cache
files. `WalkOK` says of every call on the stack what it has gathered and given so
far (`Call`), that it waits for the one above it (`Waits`), and that what is in the memo is what the target
makes. With `NoCircle` each call is for a target of lower rank than the one below it (`Walking`),
so none is called while it waits: that is what `TypeOK` needs.

`SkippedIsFresh` is about a fingerprint that may have been recorded many runs ago, with steps of
every kind since. `TraceOK` keeps a history that the code does not have: for every file the contents it
has held (`was`) and those of them that never return (`gone`), because a text that was
replaced does not come back, and what a tool made is gone for good when something that it was made from is.
Every fingerprint, in memory or in the cache file, belongs to contents that were there (`KnownOK`), and as long as
none of these is gone the dep file names their headers and the output is what the tool makes of them. What is
recorded is of what the tool has just read (`InHand`). When a fingerprint
matches, the contents it was made from are those of now (`MatchSettles`): the inputs agree letter by letter; so the
source includes the same headers, the dep file names them, and they agree too. `DoneOK`
is needed for the inputs to exist: the outputs of a run are on the disk, unless it has deleted everything, and then an
output that is found was made after that, with its inputs.
`Traceable` names what the code relies on, and section 3 shows what happens without it: one job for each output, a
dep file for whatever is made from sources, texts that do not run into one another, no text that
comes back, no edit under a tool, no tool that leaves a part of an output.

`QuietOK` says of a run that was not disturbed that each of its jobs is `Settled`, that all it was made from are
sources or outputs of such jobs, and that its fingerprint is in the cache and at the end in the
file. The tool of another job spares what these read and made, as outputs are one
job's each (`ToolSpares`). This gives `BuiltIsFresh`, and `NothingLeftToDo` of `NoNeedlessWork`. `BuiltOnce` follows from
`OnceOK`: what a tool was called for has been given already or is in hand, and by `JobIsNew` a job that is in
hand has not been given. Run `BuildTargets` checks the last two with `PartialOutputs` and without a target that
deletes, the theorems are about targets that delete and tools that leave no part: neither covers the other.

`Lbf`. The assumptions are about sizes (`SizeAssumption`) and about what files and input are
made of (`TextAssumption`), so both theorems are about programs, inputs and
tapes of every length. `Inv` is `TypeInv`, `ReadInv` and `ParseInv`. `ReadInv`: what was gathered is
`CommandsOf` the part of the file that was read, so that at its end `raw` is the
program without comments. `ParseInv` relates the two passes of `main.c`. The first one has counted
the operations that begin in front of `i` (`Starts`, a set whose cardinality is
`programSize`); the second has filled one slot for each (`Filled`), at the place it begins at;
and the stack holds the slots of the brackets that are open, while the closed ones know
each other (`Pair`, `Stacked`). `ReadExact` alone is not inductive: that no slot is left over and none
lies behind the arrays needs both passes to find the same beginnings (`AfterStarts`: behind an
operation is the next beginning, and none lies between), and that "[" and "]" are
each other's partners in the text, as `Matches` says it, needs the depth of every place, which is
stated by prefix sums (`Sums`; the recursion of `Depth` is a difference of two,
`DepthIs`). A program with an unmatched "]" has a prefix whose sum is negative, one with an
unmatched "[" ends with brackets on the stack.

The refinement substitutes the text of the commands (`mText`), the place where the next operation
begins (`mIp`) and the tape with zeros up to all the memory (`mCell`). An operation of n commands is a row of
n in the text, and the next operation begins right behind it (`RowTaken`, `IpNext`). The machine
adds n and cuts the sum to a byte, the code cuts n first: `ModArithmetic`. A tape that is
doubled shows the same cells (`CellEnsured`), which needs what realloc adds to be cleared, and
`DoubledIs` says that the doubling ends with a cell to go to. A bracket jumps to the
slot of its partner, and the machine to the partner's place (`LoopSteps`). For texts with digits behind
no "=" the mapping is to a text of which `BfMachine` leaves open what it does (`StrayText`).

Recursive functions over a text (`CommandsOf`, `Number`, `Depth`, `Doubled`) are reasoned about by
`SetInduction` of `Induction`, over the set of lengths for which the claim holds.

Lasm. Both theorems are about every program that `ProgramAssumption` allows: any number of
lines, sections and passes, any operands. They follow from one inductive invariant, `Orderly`,
which says of the parser what `Reading` says, of the parsed sections that they are `Complete`,
and of the sections of the encoder that they are `Kept`.

`StatementsInOrder` speaks only of the end of parsing. While lines are read (`Reading`), the lines in
front of `next` are `Sorted`: those behind a section directive (`Headed`) are in the section they
stand in, in ascending order, and the others are in the implicit section; and the
section that is open is the one the next line stands in (`Current`), also when it was
opened before. A line in front of the first directive precedes every headed one, so putting the implicit
section in front of a .text that is there keeps the order (`InOrderConcat`, `withImplicit_`), and
without a .text it becomes a section of its own in front of the others.
The parser hands over instructions that are `Wellformed`: a mnemonic of `Mnemonics`, and the
number and kinds of operands that the constructors of push, pop, mul and div rely on (`parseInstruction_`).

`NeverGrows` compares sizes before and after a pass. That alone says nothing of why an
instruction that `optimizeS` rewrites cannot grow: a jump loses bytes because its field was of two bytes or more, and the
accumulator form gains a ModRM byte and loses at least one of its number. `Encodable` says so of every
instruction: the immediate has one of five sizes; `canOptimize` is set only for the mnemonics
and sizes whose `optimizeS` shortens them (`Permits`); and a target register, which gets a
ModRM byte when its form is replaced, belongs to a form that has no address. Each
constructor gives an instruction that is `Encodable` (`GetInstruction_`, from one lemma per constructor),
`optimize` keeps it and gives one that is as it was or shorter (`optimize_`, from one lemma
per `optimizeS`, over `Sizing`, which says what the parts of an instruction add to its size), and evaluation
changes values and relocations only (`evaluateFields_`). `Initialize` reads entries with folds over sequences
of any length; what every turn of a fold keeps is shown by `SetInduction` (`ReadsEntries`, `ReadsSections`).
That the passes end (`Ends`) stays with TLC: sizes that only shrink and are not negative suggest it,
but it is a liveness property.

Model-checked only:

* `LookupExact`, `LastCommandHolds` and `OthersStay` for directories that are harmless but
  not orderly, that is, in clusters that do not follow each other or after a kill.
  They hold for the names of the run and, as section 4 shows, not for all names.
* `BuiltIsFresh` and `NoNeedlessWork` of `Build` with tools that leave part of an output
  (`PartialOutputs`), in projects without a target that deletes.
* `CompiledAgrees` of `Lbf` compares the outputs of two whole runs, of a program and of its
  translation. The theorems cover each of the two runs by itself, as the third process reads the
  translation like any other file.
* `MeansProgram`, `FileExact` and `RefusesOnlyIllegal` of `AsmProperties`, and the properties of lasmp: what
  they compare is computed by recursion over a program or a text, mostly from both ends
  of it (`AsmMeaning`, `Walk` of `SourceText`). `AsmProperties` also reaches the RECURSIVE operators
  of `AsmMeaning`, so no theorem can be stated there.
* `TypeOK` of `ObjectFile`, of which the proof has the shape of the fields (`Formed`, `Laid`) but not the ranges of
  what expressions are worth.
* The liveness properties, as fairness and ENABLED are out of the prover's reach.

## 6. Not modelled

Text and wording, parsing of options and configuration, dumps, times and
attributes, the host's file system calls, generated files; recursion over
directories and the fixpoint that sizes a FAT, which section 2 plans. Of lasm:
characters and tokens, what the grammar does with malformed ones, the unary minus in
front of a label and `^`, mnemonics that are only warned about, numbers beyond 32 bits in layout, and
the byte layout of ELF structures. Of lfs: what a search for free clusters reads and overwrites in
the root directory and in data when it goes on behind the copies of the FAT, and what commands make of
a directory that a kill has torn. Of lasmp: the characters of directives and
the layout of dependency files. Of lbt: the configuration and its tools, which are data. `lnk`,
`lhoho` and `ljoke` have no state worth a model, and the build scripts are not
part of the system.
