# Verification of hsse_caos_course

TLA+ models of the programs in this repository, their model-checking runs, and
machine-checked proofs about each of them. File references are to `src/`;
line numbers are those of the commit beside this directory.

The repository is six independent Linux programs and a header, each with one
`main.cpp`: no program calls another and they share no state. They are
therefore modelled one by one, and modules compose only inside a program.

## 1. Inventory

### malloc (`malloc/main.cpp`): `malloc`, `calloc`, `realloc`, `free`

| Part | State | Operations |
| --- | --- | --- |
| size arithmetic (60-90) | none | `GetAlignedSize`, `GetBinIndex` |
| `Metadata` (94-181) | the header word of a chunk (size, `PREV_INUSE`, `IS_MMAPPED`) and, in a free chunk, its size again in its last word | `Next`, `Prev`, `IsInUse`, `UsePtr`, `FreePtr`, `SetSize`, `IsValid` |
| `BinsList` (190-250) | an array of doubly linked lists whose links lie in the free chunks | `Add`, `Remove`, `FindAndRemove`, `ExtractAll` |
| `Heap` (252-316) | `begin_`, `first_` (top), `last_` | `Initialize`, `Allocate`, `Resize` |
| the bins (348-431) | the fast bins, which keep chunks marked in use, and the ordinary bins | `AllocateFromFastBins`, `AllocateFromBins`, `SplitIfPossible`, `FreeChunk`, `ConsolidateFastBins` |
| entry points (440-529), `mmap` (322-346) | globals of the parts above | the four calls, `mmap`/`mremap`/`munmap` above the threshold |

The parts share one memory: an allocator's tag is a word of somebody's block a
moment later. A call may consolidate: it takes the whole of the fast bins as a
chain and frees its chunks one after another, each merge changing the tags the
next one reads. What is hard is not concurrency (the program supports one
thread) but long sequences of legal calls that leave a stale size, bit or list
membership behind, and the boundaries: a rest of exactly the smallest chunk, the
header word behind the last chunk, sbrk failing in the middle of a call.
It is correct when chunks tile the heap, tags tell the truth, each chunk has one
owner, free neighbours are merged, and the client keeps its bytes.

### cpulimit (`cpulimit/main.cpp`)

State: the map of targets with `start_ticks` and `stopped_by_us` (a global,
shared with the signal handler), the start of the period. The loop of
`LimitProcesses` lists the live targets, reads their ticks from `/proc`, stops
or continues them with `kill` and sleeps. `SignalHandler` runs at any
instruction of it; the targets run, exit and are reaped at any moment; the wall
clock goes on, and may be set back. Hard: the gap between a `kill` and the record of it, snapshots of pids
that are stale when used, special values of a tick count. Correct when nobody
runs over budget, nobody is continued early, and nobody is left stopped.
Before that `main` parses its arguments and `FindProcessesByName` finds its
targets, once: it lists the pids, reads the name of each, and for each that has
the right one reads the parents of all to collect its descendants. Processes
come and go between any two of these reads. Correct when whoever stays is found.

### du (`du/main.cpp`)

State: a stack of open `DirectoryIterator`s with their running totals, the set
`visited_` of inodes, and the output. Each round of the loop of `Process` handles the
finished directory on top, or its next entry, which was read one entry early.
The file system is shared with every other process. Hard: hard links, links to
directories that are open or done, cycles, names that vanish between `readdir`,
`lstat`, `stat` and `opendir`. Correct when each inode counts once, nothing that
stays is missed, and the walk ends.

### strip (`strip/main.cpp`)

State: the input and the file `temp`, and in `ProcessSectionHeaders` the new
sections, the map from old numbers to new ones, and the offset at which the next
section outside the segments goes. It copies the header, the program headers and
the sections it keeps into `temp`, renumbers their links, and renames `temp`
over the input. Hard: links lead forward and to sections that are dropped;
offsets that must stay and offsets that must move; a failure half way; another
tool that writes the same file. Correct when the path always holds a whole file
in order, from which only what should go has gone.

### patchelf (`patchelf/main.cpp`)

No state but the file. It prints, or overwrites in place, the interpreter (in
`.interp`) or the rpath (the string in `.dynstr` that `.dynamic` points to). A
new value must fit where the old one is. Hard: each setting changes the room for
the next; it finds `.dynstr` through a link that strip renumbers. Correct when
the file answers with what was set last.

### top (`top/main.cpp`)

State that outlives a refresh: `prev_process_ticks`, keyed by pid. Once a second
it lists the pids, reads `stat` and `status` of each, computes the ticks since
the refresh before, sorts, truncates and prints. Hard: processes that exit
between two reads, pids used again. Correct when what is shown was used since
the refresh before, and who used most is shown.

### The others

**multiplication**: one expression. **tooling**: formatter, linter, CMake.

`PROJECT.json` lists each with its status, and under `hazards` what in this code
is hard to test, line by line, with the properties that watch it.

## 2. Modules

| Module | Models | Kind |
| --- | --- | --- |
| `SizeClasses` | `GetAlignedSize`, `GetBinIndex` | operators |
| `MCSizeClasses` | the table of ranges, written out, and a walk over sizes | reference definition, TLC |
| `SizeClassesProofs` | theorems about `GetBinIndex` | proofs |
| `Malloc` | the allocator and a legal client; extends `SizeClasses` | component |
| `MallocContract` | what a client may rely on | abstract specification |
| `MCMalloc` | client words and VIEW for TLC | MC |
| `BinsList` | heads, `next` and `prev` of one array of bins | operators |
| `MallocLists` | `Malloc` composed with its lists, and frees of chunks that lie in a bin | composition |
| `MallocMisuse` | `Malloc` with a block freed twice in a row | environment |
| `MallocProofs`, `MallocContractProofs` | theorems about `Malloc`; that it implements `MallocContract` | proofs |
| `MallocListsProofs` | theorems about `MallocLists` | proofs |
| `CpuLimit` | loop, handler, targets, clock | component |
| `CpuLimitProofs` | theorems about `CpuLimit` | proofs |
| `Du` | the walk, and somebody who unlinks | component |
| `MCDu` | every small file system | MC |
| `DuProofs` | theorems about `Du` | proofs |
| `ElfFile` | an ELF file as the two tools see it | data |
| `Strip` | `ProcessSectionHeaders`, a section at a time | operators |
| `PatchElf` | the four modes of patchelf | operators |
| `ElfTools` | runs of both tools on one file, failing or killed at any step | component |
| `MCElfTools` | small executables and libraries | MC |
| `ElfToolsProofs` | theorems about `ElfTools` | proofs |
| `Processes` | fork, exec, exit, CPU ticks, and `readdir` of `/proc` | environment |
| `Top` | the refresh of top, beside `Processes` | component |
| `FindTargets` | `FindProcessesByName` of cpulimit, beside `Processes` | component |
| `MCProcesses` | one of the two beside a bounded world | composition, MC |
| `ProcessesProofs` | theorems about `Top` and `FindTargets` | proofs |

Operators marked `\* mutant` are deliberate bugs in the definition that follows
them; `PROJECT.json` pairs each property with one that breaks it.

### Malloc

Memory is counted in granules of 16 bytes, since chunks start and end on them.
`size[x]` and `pinuse[x]` are the header word at granule `x`, `back[x]` the word
just before it. These are *words of memory*, not fields of chunks: client data,
stale headers and tags share them, as in the code. `fast` and `bins` map a bin
to the set of its chunks: `FindAndRemove` may return any member that the code
could return under some order of its list, so what holds here holds for every
order. `MallocLists` has the links. `first`, `last` and `ready`
are `Heap`'s; the start of the data segment is not known to be 0 or 8 modulo 16,
and `EndOfHeap` is the room left in either case.

A call is a sequence of steps. `pc` says where it is and `held` which chunk it
has in its hands: `CallMalloc`, `CallCalloc`, `CallRealloc` and `CallFree` make
the choice of path; `ConsolidateOne` is one round of `ConsolidateFastBins`;
`AllocateFromBins` includes `SplitIfPossible`; `HeapAllocate` includes
`Initialize` and `Resize`, and `HeapFails` is sbrk failing in one of them;
`BeginFree` (its checks, which end in `FreeAborts` or one of the three ways of
`FreeChecks`) and `Release` are `free`. A merge with its bin
updates, tags and return to the top is one action, `FreeChunk`. `pc =
"aborted"` is `ReportError`. Nothing else runs inside a call, so the steps are
finer than needed for safety; they let the proof treat one loop round at a time
and make "every call returns" a real question.

`ClientWrites` stores a word over the bytes the client asked for. Requests do
not wrap (`RequestsAssumption`): a request near `SIZE_MAX` is outside the model,
and `calloc`'s product is taken not to overflow (listed as a hazard).

### BinsList and MallocLists

`links` holds the heads of both arrays and the words `next` and `prev` of every
chunk; there is one set of words for both arrays, as a chunk goes from one to the
other. `MallocLists` conjoins each step of `Malloc` with what it does to the
links: `AddNode` and `RemoveNode` for each chunk a merge, split or push touches,
in the order of the code, and `ExtractAll`, which leaves every `prev` of the
chain stale. `chain` is the variable `node` of `ConsolidateFastBins`, read from
the chunk before it is freed. Where `Malloc` may take any chunk that suits, here
it takes the one the search comes to. The words of a chunk that is in no list
become `Junk`, so a step that still relied on them would be seen. `ListsAreTheBins`
says that these lists are the sets of `Malloc`. Every step here is one of
`Malloc` or the client's extra `FreeFreeChunk`, so the theorems about `Malloc`
hold for these lists too (`ListsImplementSets`).

Nothing here is recursive by name: `From` follows `next` as a function of the
number of steps, and the loops of `FindAndRemove` and `ExtractAll` are stated by
what they come to in the sequences `From` reads: the first node that fits of the
first bin that has one, and for each node the one the walk came by before it.

### CpuLimit

Each round of each loop over pids is a step, and each `kill` is a step apart
from the record of it; `Signal` may come between any two, and then the handler
takes over for good, as its thread is the only one. `ForgetLocals` drops locals
at the end of an iteration. `time` (since the period began) and `wait` count in units of the check
interval; `SetBack` sets the wall clock back, so that `gettimeofday` is `behind` (a clock set
forward, which ends a period early, is not modelled); `Pass` advances them together with the CPU time of whichever running
targets were busy. `Die` and `Reap` may happen at any moment; a zombie still
"exists", as `kill(pid, 0)` says. Pids are not used again, and nobody else stops or continues the targets.

### Du

`tree` is the file system: kinds, names, targets of links, and directories
`opendir` refuses. A path is the entry it ends in; that the path of a directory
still leads to it is `PathHolds`. An action is one round of the loop of `Process`.
`SkipEntry`, `EnterDirectory` and `CountFile` are the three outcomes of
`HandleNextEntry`, each with the `++` that reads ahead (`Advanced`), which skips
names `lstat` no longer finds. `Unlink` removes a file, a link or an empty
directory between rounds. `Size` is a constant; `Options` are the flags
`ParseArgs` lets through, never `-a` with `-s` (`du/main.cpp:423`).

### Strip, PatchElf and ElfTools

A file is its sections in their order (name, whether it is loaded, whether it is
of relocations, size, alignment, offset, link, info), its segments, where the ELF
header and the program headers end, the offset of the table of section headers
and the number of `.shstrtab`. `DebugNames` are the names that start with
`.debug`; `LinkTarget` and `InfoTarget` say, by name, which section the `sh_link`
and, in relocations, the `sh_info` of a section are meant to lead to. Of the contents only the strings patchelf may set
are kept, by length and identity. One round of the loop of
`ProcessSectionHeaders` is a step, `ProcessSection`; the fix-up of the links and
`elf_update` are one, `Update`, since `temp` is read by nobody before the
rename. `StripFails` is any of the exceptions, or a kill; it leaves `temp` as it
is. `OpenToSet` reads the file and checks that the value fits, `WriteBack`
writes; strip may rename another file over the path in between, and then the
write goes to the old one. strip keeps its descriptor, too, so it reads the file
at once as far as sections go: what patchelf writes meanwhile changes strings only,
and whether strip copies the old or the new one is left open (`Unknown`).

### Processes, Top and FindTargets

`Processes` is the system both programs read: pids are used again as soon as
their process is gone, children of a process that exits go to init (no process
makes itself a subreaper). `birth` is
which fork a process came from, so that the properties can tell two with one pid
apart; the programs cannot. In `Top` and `FindTargets` each call of `readdir` and
each file of `/proc` read is a step. `RecursionOverflows` is `CollectChildren` on
parents that form a cycle: it does not return. For top only the ticks of a process are
kept; the other columns and the terminal are left out. If the output is no
terminal top ends after one refresh, which is a prefix of the runs here.
`TopSpec` and `FindSpec` put the program beside any processes that fork, call
exec, exit and use the CPU; top may start in any state of them (`ProcessesOK`),
the search in any family tree. `MCProcesses` starts either program in a bounded
world, where processes only do what that program could tell: use the CPU, start
and exit for top; fork, exec and exit, from any family tree of the pids but one,
for the search. Its steps are steps of `TopSpec` or of `FindSpec`.

## 3. Runs

| Run | Question | Result |
| --- | --- | --- |
| `size_classes` | Is `GetBinIndex` the table of ranges, in range and monotone? With the code's own constants. | holds |
| `malloc_heap` | Heap structure, contents and return of calls over every sequence of legal calls. | holds |
| `malloc_contract` | Does the allocator, `mmap` included, implement `MallocContract`? | holds |
| `malloc_lists` | Are the linked lists the sets of `Malloc`, and does `free` notice every chunk that lies in an ordinary bin? | holds |
| `malloc_double_free` | Does it notice every block just freed? | **violated** |
| `malloc_huge` | May a legal client free what it was given? | **violated** above `kMaxSize` |
| `cpulimit` | Stopping, continuing, budget, ends, under any interleaving. | holds |
| `cpulimit_quit` | Is nobody left stopped when cpulimit is told to quit? | **violated** |
| `cpulimit_newborn` | Is everyone over budget stopped? | **violated** for a count of 0 |
| `du` | Each inode once, nothing missed, every line there and right, an end. | holds |
| `elf_tools` | Is the file sound and true to what was set, whatever fails? | holds |
| `proc_readers` | Do top and the search get it right while processes come and go, and does the search end? | holds |

### Properties worth knowing

- `Tiled`, `TagsTell`, `OwnedOnce`, `Coalesced`, `Binned`: heap structure, after
  every step, also in the middle of a consolidation.
- `AllFreedIsAllReturned`: if nothing is in use or in a fast bin, the heap is
  one free range. `GrowsOnlyWhenNothingSuits`: the top is used last.
- `ClientDataKept`: no step of a call changes a word of a block the client keeps.
- `KeepsContract`: blocks do not overlap, `calloc` is zero, `realloc` keeps
  the common prefix, a null return changes nothing. The contract lets the client
  store between calls only, so a step within one that spoils any block is refused.
- `StoppedIsRecorded` and `RecordedIsStopped` relate the scheduler's view and
  `stopped_by_us`, but for the one target between kill and record.
  `NobodyRunsOverBudget`, `ResumedOnlyAtPeriodEnd`, `LeavesNobodyStopped` are
  what users see; `LeavesNobodyStopped` excepts the target caught by
  `cpulimit_quit`. `OverBudgetIsStopped` is what the readme says of the sum that
  is compared with the budget; `cpulimit_newborn` refutes it, and without counts of
  0 it would restate the comparison, so no other run checks it.
- `ListsAreTheBins`: each list holds the chunks of its bin, each once, linked both
  ways, the chain leads to all that is left to consolidate, and a search finds
  what `Malloc` allows.
- `FileIsSound`: at every moment, also after a kill, links lead to the section
  they are meant to, or nowhere if it is gone, nothing lies over the headers, and
  nothing outside the segments overlaps. `LastSetAnswers`: through any sequence of runs the interpreter and the rpath are
  what was set last, to patchelf and to the loader. `StripKeepsTheRest` and
  `StripAgainChangesNothing` are about each rename.
- `ShownIsUsed`: a row shows what its process used since the refresh before.
  `ShowsTheBusiest`: who lived through two refreshes is on the screen, unless it is
  full of others that used as much. `FindsTheSteady`: processes that stay as they were, up to
  one with the name, are found. `RecursionEnds`: `CollectChildren` returns, unless a
  pid it comes to has been used again since the search began (history `again`);
  such runs are in the model, and do overflow.
- `TotalIsTheTree` demands a last line, for the argument, and compares its total
  with a closure computed independently of the walk; `PrintsWhatWasAsked` demands
  one line with `-s`, or one for each that was visited; `EachTotalIsItsOwn` bounds every other line from
  both sides; `MissesNothing` is about a tree that changes.

### Bounds

- **size_classes**: every byte up to 12288 (past the second group boundary),
  every 8 bytes after that (chunk sizes are multiples of 16) up to 720896, beyond the last range at
  699392. `kSizeMod` stands for 2^64 and also ends the walk.
- **malloc_heap**: 12 granules, sbrk steps of 6, so there is a first segment,
  a `Resize`, and no room for another; either sbrk may also fail; requests of 20, 28, 56 and 72 bytes reach a fast chunk
  (20), an ordinary chunk (28), one at the consolidation threshold (56) and mmap
  (72; there are no regions here, so it fails). 20 and 28 differ by one granule, so that exact
  fits, splits and fits that leave too little are all reached. Three chunks of
  different sizes with free, fast and used neighbours on both sides fit, which
  is every case of the merge.
- VIEW in `malloc_heap` and `malloc_lists`: states that differ only in
  words no step reads are one. Steps read the headers of chunks and of the top
  and the back words of free chunks, and the view keeps those; what it drops is
  client data and garbage. `ClientDataKept` is evaluated on every transition, not
  on every state, but from one representative of the data; `malloc_contract` has
  no VIEW and tells all data apart, on 7 granules, with one region.
- **malloc_lists**: as `malloc_heap`; the view keeps the links and the chain whole. **malloc_double_free**: 18 granules,
  one request, enough for three chunks of which the middle one goes last.
  **malloc_huge**: one region and `kMaxSize` of 128 bytes.
- **cpulimit**: two targets, a budget reached by both or by one, a period of two
  intervals, `MaxTicks` 3 (two more than at the start: each target can use up the budget
  alone, in the same period or one after the other), and two signals, so that one interrupts the handler
  of the other. The clock is set back once, by a period, while cpulimit sleeps; not in
  the two violated runs. Two targets are enough to catch one between kill and record
  while the loop has another left. Both start with a count of 1; with counts of 0 as
  well the same properties hold, in more time (a million states), and
  `cpulimit_newborn` has the counts of 0.
- **du**: all file systems of up to four inodes and four entries, three of them
  in the root, up to renaming; inode `i` takes `2^i`, so that a sum of sizes tells which
  inodes it is made of; one unlink; with the root as argument every
  combination of flags the parser lets through, and with an entry of it as
  argument every one without `-a`. Three names in
  the root are what a walk needs to go on past one that has vanished; a link,
  its target and a directory around each make every case of "visited".

- **elf_tools**: files of up to ten sections: three sets of loaded ones (an
  executable with both strings, a library without an interpreter, a static
  program) with 27 orders of what is not loaded, in front of them or behind them in
  the table: every order of four sections of which two are linked, and three more with
  alignment 0, relocations and a link to what comes later. What is dropped lies
  before, between and behind what is kept, so a first strip moves sections. Values of lengths 0, 1, 2 and 4 fit, fit once, or never fit. The
  number of runs of either tool is not bounded; one of each at a time.
- **proc_readers**: five pids. For the search, every tree of the first four with
  every name, one pid free, and two forks, execs or exits. For top, init and two
  processes, two rows, two refreshes after the round before the loop, two ticks, and
  two forks or exits: enough for a pid that is used again between two refreshes
  and for one row too many. Two events are also enough for a cycle of parents: a
  pid whose process exits and that its former child's child gets. With three (12
  million states) all properties hold as well.

CHECK_DEADLOCK is off where a run ends: `size_classes`, `malloc_lists` and
`malloc_double_free` (the process aborts), `du` (the walk ends), `proc_readers`
(the search ends, and the bounds end the rest).

### Fairness

- `malloc`: `WF(Running)`. A call that has begun is code that runs; the client
  need not call again. `CallsReturn` is then about the consolidation loop.
- `cpulimit`: `WF(Step)`, the process is scheduled, and `WF(Pass)`, time passes
  (a sleep ends). Nothing is assumed of signals, exits or parents that reap.
- `du`: `WF(Process)`. Nobody need unlink anything.
- The others state safety only: a run of strip or patchelf is a sequence of calls,
  and top never ends.

## 4. Proofs

Eight modules hold theorems. Each is about the component's specification for
every value of its constants that satisfies the named assumptions: any heap size
and requests, any number of targets, any file system, any file, any processes.
The general shape is the same everywhere: an inductive invariant `IInv`, made of
named parts, one lemma per part or per action for its preservation, and the
properties, which TLC had checked (section 3), as consequences.

### Size classes

| Theorem | States |
| --- | --- |
| `IndexesAreClasses` | `BinIndexCountsClasses` |
| `IndexesGrow` | `BinIndexMonotone` |
| `TableOfTheCode` | `BinIndexAssumption`, for the table of the code |

Assumed is `CodeTable`, the constants of `malloc/main.cpp:19-33`, as the theorems
are about that table; sizes are any number, however long the walk and its steps
(`WalkAssumption`). The loop of `GetBinIndex` is two recursive functions, `Group`
and the index it ends with. Neither needs induction over data: that such a
function exists is shown once, by taking a least counterexample (`Iteration`),
and the loop ends after five groups (`CodeGroups`), so it is written out
(`BinIndexIs`) and the rest is arithmetic, range by range. That the index counts
the classes below a size is a bijection with an interval (`ClassesAre`).

### Malloc

| Theorem | States |
| --- | --- |
| `Invariance` | `IInv` is invariant |
| `TypeCorrect`, `HeapIsTiled`, `NoChunkOwnedTwice`, `TagsAreTrue`, `FreeChunksAreCoalesced`, `ChunksAreInTheirBins`, `TopStaysInSegment`, `BlocksAreLargeEnough` | its parts |
| `NothingIsLost` | `AllFreedIsAllReturned`, from `IInv` |
| `HeapGrowsLast` | `GrowsOnlyWhenNothingSuits` |
| `CorrectClientsNeverAbort` | `NeverAborts`, when no request exceeds what `IsValid` accepts |
| `AllocatorSparesClientData` | `ClientDataKept` |
| `AllocatorKeepsContract` | `KeepsContract`: `Malloc` implements `MallocContract` |

**Assumptions.** `SizesAssumption` and `ClassesAssumption`: alignments and the
minimum of 32 bytes, as in the code. `MallocAssumption`: `kBrkSize` is a
multiple of the alignment and at least the mmap threshold (so one `Resize` is
enough), fast chunks are below the consolidation threshold. `HeapLimitAssumption`: the heap stays below
`kMaxSize`, above which `IsValid` rejects the allocator's own chunks.
`RequestsAssumption`: requests do not wrap. `BinIndexAssumption`: what the
allocator needs of `GetBinIndex` (in range, monotone), which `TableOfTheCode`
proves for the code's constants and a heap of any size. `RequestsBelowMaxSize`, for `CorrectClientsNeverAbort`
only: `malloc_huge` shows that it is needed.

**The argument.** No part of the heap structure is inductive alone. A merge
jumps by a size it read, so it lands on a chunk only if chunks tile the heap;
they still tile it afterwards only if the tags were true; the chunk leaves its
list only if it was in the bin of that size; and the tags of the result are true
only if free chunks were not neighbours before. `IInv` is therefore the
conjunction, with three additions TLC's invariants do not need:
`HasPredecessor` (every chunk but the first follows another: what a clear
`PREV_INUSE` bit lets `Prev` rely on), `CallInOrder` (what each `pc` says of
`held`, `pending` and the running call, such as that `realloc`'s old block is
smaller than what it needs) and `~ready => first = 0`. The proof has a lemma for
what a merge computes (`MergePrevIsRight`, `MergedBounds`), for the heap after
it (`AfterFreeChunkIs`, `FreeChunkKeepsShape`), one for writes that stay inside
blocks (`ShapeKept`, `StoresStayInside`), and one per action.

For the contract, which lets nobody store within a call, `Spares` says which words a step may write if a block is to
keep its contents, and each action is shown to write only others: headers and
back words of chunks that are free or that it is splitting, which `IInv` keeps
apart from the blocks. Then each step of a call that returns is the contract's
step for that call and every other one a stutter; what a step may use of the call
that is running is `OpTells`.

`TopStaysInSegment` and `BlocksAreLargeEnough` state parts of `IInv`, which
`malloc_heap` checks as a whole.

### The lists

| Theorem | States |
| --- | --- |
| `ListsHoldTheBins` | `ListsAreTheBins` |
| `DoubleFreeIsDetected` | `FreeOfFreeAborts` |
| `ListsImplementSets` | `MallocLists` implements `Malloc`, but for frees of free chunks |

From the assumptions of `Malloc` alone; `Junk`, what the words of other people's
memory hold, may be anything, an address included. A list is described by the sequence of
its nodes: `Forward` says what `next` holds in each, `Backward` the same of
`prev`; `Linked` is both, `Chained`, for the chain that `ExtractAll` makes and
whose `prev` are stale, only the first. The lemmas are then about sequences:

- `FromIs`: following `next` gives that sequence and ends, as there are no more
  nodes than addresses.
- `ListFrame`, `ChainFrame`: a list depends on the words of its own nodes only,
  so what is done to another list, or to a chunk that is in none, leaves it as it
  is. All lists share one set of words, hence `Apart`: no chunk is in two.
- `ListWith`, `ListWithout`: what `Add` and `Remove` do to the sequence, at the
  front, in the middle and at the end. `ChainTail`: a round of the consolidation
  loop leaves the rest of its chain.
- `ExtractAllChains`: the reversed lists of all fast bins, put one onto the
  other (`ChainOnto`), are one chain of all fast chunks; the ordinary bins keep
  theirs. `FindIsRight`: a search returns what `Malloc` lets it return, and
  nothing only if nothing fits.
- `FreeChunkLinks`: a merge takes up to two neighbours out of their lists and
  puts the result into another, and the chain that is being consolidated stays
  whole, as the chunks still to come are marked in use and so no merge touches them.

The invariant is `ListedInv`: `TypeOK`, `ListsInv` (the lists hold the sets, the
chain holds `pending`) and `IInv \/ Misused`. `IInv` alone is not invariant here,
since `FreeFreeChunk` puts a free chunk into the hands of `free`, which no legal
call does. `Misused` says what is true then: nothing has changed yet, and the
bit behind that chunk says it is free. The bit is true because `TagsTell` held a
step before, so the next step can only be the abort, and `FreeOfFreeAborts` follows.

### CpuLimit

| Theorem | States |
| --- | --- |
| `TypeCorrect` | `TypeOK` |
| `StoppedAreRecorded`, `RecordedAreStopped` | the scheduler's view and `stopped_by_us` agree |
| `LimitIsEnforced` | `NobodyRunsOverBudget` |
| `LeavesTargetsRunning` | `LeavesNobodyStopped` |
| `ResumesAtPeriodEnd` | `ResumedOnlyAtPeriodEnd` |

For any finite set of targets, any budget and period, any first counts, any number
of signals and of clocks set back. The additions in `IInv`: `InOrder` (what `pc` says of
the locals), `InactiveAreGone` (who is not in the snapshot has exited, so a stale
snapshot loses nobody), `StoppedSoFar` and `ResumedSoFar` (how far a loop over
pids has come), and `StoppedUntilPeriodEnd`.

### Du

| Theorem | States |
| --- | --- |
| `StackIsSound` | `TypeOK`, with no directory open twice |
| `LinesAreRight` | `PrintsWhatWasAsked` |
| `NothingLeft` | `MissesNothing` |
| `TotalIsRight` | `TotalIsTheTree` |
| `TotalsAreRight` | `EachTotalIsItsOwn` |

For every finite file system, with any hard links, any links to directories that
are open or done, cycles and refused directories, any sizes, and any number of
names unlinked (`DuAssumption`). The parts of `IInv`:

- `FramesAreOpen`, `LinesAreDone`: who is on the stack, and who has a line.
- `PathsAreKnown`: a path leads to its directory, or that directory and all that
  is above it on the stack are empty. `NextIsKnown`: the entry read ahead is what
  `lstat` said, or has gone.
- `NothingIsMissed`: an entry of a visited directory leads to what was visited,
  or is still to come. At the end nothing is to come, so `visited` is closed, and
  `ReachAround` is shown to be the least closed set (its steps are enough, since
  each adds an inode or none ever will).
- `OpenAreUnlocked`, `VisitedAreReached`: what was visited can be reached, and without
  looking into a directory that was not visited yet.
- `FilesAreOwned`: there are disjoint sets of inodes, one for each directory on
  the stack, whose sums are the running totals, below their directory each, and
  with the directories themselves they make up `visited`. From it the last line
  (`LastIsAll`) and every other one (`TotalsAreOwn`) follow: a directory that is
  done has counted all below it but what the argument leads to beside it
  (`CountsAllBelow`).

A sum over a set is a recursive function on its subsets that the library builds
anew for each set; `SizesExist` shows all of them to be one, and `SizeWith` and
`SizeOfBoth` are all that is used of it.

### Strip and PatchElf

| Theorem | States |
| --- | --- |
| `PathHoldsSoundFile` | `FileIsSound` |
| `LastSetIsAnswered` | `LastSetAnswers` |
| `StripKeeps` | `StripKeepsTheRest` |
| `StripIsIdempotent` | `StripAgainChangesNothing` |

For any number of sections in any order, with any names, any links, any segments
and any values that may be set (`FilesAssumption`), if the file is sound to begin
with (`FilesAreSound`). That asks of a file what linkers do: the segments hold the
headers and, behind them, what is loaded; what is not loaded lies behind the
segments; and the link of a section (in relocations its `sh_info` too) leads to
the first section with the name that `LinkTarget` (`InfoTarget`) gives for its
own name, or nowhere. So sections of one name must have links to the same target,
and an object file, which has no segments, is none of them: of the file that
`strip` makes of one the theorems say nothing.
`LoopOK` is the invariant of the loop over sections: `LoopMaps` (the number map
rises on what is kept and is 0 on the rest), `LoopCounts`, and `LoopLays` (what
is outside the segments lies in order behind them, nothing overlapping). From the
map being one to one, links and `.shstrtab` follow, and that the first section
of a name stays the first, so that patchelf finds the same strings (`Carries`).
For idempotence, `Packed` says that a file has been laid out by a strip;
patchelf keeps it, and a second loop over such a file repeats the
first (`LoopRepeats`).

### Top and FindTargets

| Theorem | States |
| --- | --- |
| `RowsAreTrue` | `ShownIsUsed` |
| `BusiestAreShown` | `ShowsTheBusiest` |
| `CollectChildrenReturns` | `RecursionEnds` |
| `SteadyAreFound` | `FindsTheSteady` |

For any finite set of pids and any events (`PidsAssumption`; for the second,
`kMaxPrintedRows \in Nat`; for the search, a family tree to begin with,
`FamilyTree`). The theorems are about `TopSpec` and `FindSpec`; `MCProcesses` runs
the same definitions in a bounded world.

Top: `TicksAreRemembered` says that `prev_process_ticks` is what the rows of the
refresh before held, `RowsAreHistory` that a row is something its process once
was; `ReadInOrder` and `NobodyIsSkipped` that no pid of a process that stays is
passed over; then a lemma on cutting off a sorted table. For a pid that another
process had at the refresh before, `ShownIsUsed` bounds what is shown from above
only: the code compares the ticks of the two. The search:
`ParentsAreKnown` bounds what a parent that was read may be (the first one, or
init), and `ParentsAreOlder` says of a process that began since that its parent
began before it or was there from the start, as long as neither pid is used
again. A cycle of pids that were not (`NoCycle`) would then lie among those there
from the start, against the family tree, or have no eldest. If `CollectChildren`
comes back to the pid it started from, all it collects is closed under parents
(`CollectedHaveParents`), so one of those pids was used again.
`ListedInTime`, `NamedAreFound` and `ChildrenAreFound` follow a process that
stays through the two walks, and the descendants by steps of the closure.

### Model-checked only

Liveness: `CallsReturn`, `StoppedIsResumed`, `EndsWithTargets` and `Terminates`, as
the prover has no `ENABLED`. Every other property of a passing run is a theorem.

## 5. Findings

1. `malloc/main.cpp:511`. `free` looks only at the bit behind the chunk's own,
   possibly stale, size. A block merged into the free chunk before it keeps its
   old header, and a second `free` of it goes through, though the readme has a
   double free abort (`malloc_double_free`).
2. `malloc/main.cpp:97,508`. A block of more than `kMaxSize` is handed out by
   mmap, but `free` and `realloc` reject it as invalid (`malloc_huge`).
3. `cpulimit/main.cpp:287`. SIGINT between `kill(SIGSTOP)` and
   `stopped_by_us = true` leaves the target stopped for ever (`cpulimit_quit`).
4. `cpulimit/main.cpp:335`. A target with 0 ticks at the start of a period is not
   counted in it (`cpulimit_newborn`).

Seen on the way, and not claimed as findings:

- with `-L`, `du` loses the files below a link that is unlinked while its target
  is walked, as their paths no longer resolve; it holds a descriptor per level
  and silently omits what it cannot open; its lines come children first, where
  the readme's example has the parent first;
- two runs of `strip` in one directory write into one `temp`; `strip temp`
  truncates its own input; the result has the mode 0777 less the umask; an object
  file, which has no segments, gets its sections from offset 0 on, over its
  header; the section numbers inside symbols are not renumbered;
- `patchelf` refuses longer values, which its readme asks for, and changes any
  string of `.dynstr` that shares the rpath's tail; after a shorter value the
  room of the longer one is lost;
- processes that a target of `cpulimit` starts after the search are never
  limited; names are cut to 15 characters by the kernel; `cpulimit -e` with the
  name of the shell it was started from finds itself;
- a pid used again between two refreshes of `top` shows less than was used, as it is
  compared with another process's ticks (`ShownIsUsed` excepts it);
- a pid used again within the search of `cpulimit` can make parents read before and
  after form a cycle: `CollectChildren` (151) then recurses until the stack is used
  up (`RecursionEnds` excepts it).

## 6. Plan

For what is not done yet, in order:

1. **cpulimit as a whole**: that what `FindTargets` finds is a legal start of
   `CpuLimit`.
2. **Du with -L**: which files may be lost when links are unlinked while they are
   followed, as a bound that can be stated and proved.

Not modelled, and why: argument parsing, number formatting and the text of
`/proc` files, which keep no state; the inside of libelf and the kernel, which
are not in this repository; two runs of `strip` at once, which break each other's
file by what is plain from the code; multiplication and the tooling.
