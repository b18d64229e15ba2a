# A TLA+ model of the LunaOS kernel

LunaOS is a hobby operating system for x86-64. Its kernel (`src/kernel`) is C++:
it boots on one processor, sets up memory, an AHCI disk with a FAT file system
and a PS/2 keyboard, creates an idle thread and a shell, and from then on only
reacts to the timer, the keyboard and system calls. Handlers run with interrupts
off, so two of them never interleave (the boot runs with them on, but the timer
is started last and the keyboard has no process to type for until then); what interleaves is *the order of
handlers*, the driver with the disk controller, threads with the timer, and,
in the C library that user programs are linked with, threads with each other.

The modules here model the parts that hold state, TLC checks them on small
instances, and TLAPS proves the safety of the two allocators, of the scheduler,
of the disk driver, of the files of a process and of the thread library for all
values of their constants.

## The system and where it is modelled

| Part | Source (under `src/kernel`) | Module | Status |
|---|---|---|---|
| Kernel heap | `src/memory/heap.cpp`, `freelist_allocator.cpp` | `Heap` | checked, proved |
| Virtual address ranges | `src/memory/virtual_address_range_allocator.cpp` | `RangeAllocator` | checked, proved |
| Scheduler, thread switch, timer, exit | `src/tasking/*.cpp`, `src/interrupts/interrupts.cpp`, `requests.cpp` | `Scheduler`, `KernelScheduler` | checked, proved |
| Physical frames | `src/memory/bitmap_allocator.cpp`, `src/utils/Bitmap.cpp` | `Frames` | checked, operations proved |
| Page tables | `src/memory/paging.cpp` | `Paging` | checked |
| Address spaces, loading of processes, mappings of drivers | `src/memory/userspace_allocator.cpp`, `src/elf/elf.cpp`, `src/tasking/tasking.cpp`, `src/system/pci.cpp`, `src/system/acpi/acpi.cpp` | `AddressSpaces` | checked |
| AHCI driver, disk I/O | `src/storage/ahci/ahci.cpp`, `src/fatfs/diskio.cpp` | `Ahci` | checked, proved |
| Descriptors, file system calls, keyboard | `include/utils/list.hpp`, `src/syscalls/syscalls_calls.cpp`, `src/ps2/ps2.cpp` | `Files` | checked, proved |
| FatFs (vendored), set-up of the file system | `src/fatfs/ff.cpp`, `src/filesystem.cpp` | `Fat`, `FileStore` | checked |
| Thread library of mlibc | `src/mlibc/options/posix/generic/pthread-stubs.cpp` (not under `src/kernel`) | `Pthread` | checked, proved |

The rest is listed under *Not modelled*.

How the parts use each other: the heap and the drivers take frames and map them;
processes get ranges from a `RangeAllocator` of their own and map frames into
them; the system calls and the keyboard use FatFs, FatFs the AHCI driver.
`AddressSpaces` composes frames and page tables in one state machine. It takes
from `RangeAllocator` that the kernel's own grants do not overlap, since its
allocator is never given a hint; what a process maps may overlap what it has. `Files`
takes from FatFs only that a call may stop short. `Fat` takes from the driver
that a transfer reported as done is done, and that one that fails has done any
part of it. `Ahci` shows the former for transfers that fit one PRDT entry: those
of FatFs end with the cluster, which has 4 sectors on the volume the kernel makes,
and `f_mkfs` moves one sector at a time.

`PROJECT.json` lists every part, the source lines of every definition, and the
hazards the properties were written for.

## The modules

Three modules say what a component promises: `BlockAllocator` (blocks handed out
are disjoint, inside, and leave only when given back) is implemented by `Heap`
and by `RangeAllocator`; `RoundRobin` (a line whose front runs, and leaves for
the back) by `Scheduler` with kernel threads; `FileStore` (files are sequences of
bytes, a call touches its own file only, what was saved survives) by `Fat`.
`Lists` has the operations on linked lists, taken as sequences, that the two
allocators share (linking behind a node, unlinking, the last node) and the sum of a
list of numbers; `ListLemmas` has facts about them and the two theorems of
induction the proofs use. The modules called `...Proofs` hold the proofs. An `MC` module gives the constants that a `.cfg` cannot write down.
Definitions called `Mutant...` (in `Fat`, those marked as mutants) are wrong variants of the definition that follows
them. No specification uses them; with one in its place a property must fail.

**Heap.** `chunks` is the list of headers from `head` along `next`. One action
per call, and one per iteration of `mergeChunks`: `HeapAllocate`, `HeapExpand`,
`ExpandFails` (kernelPanic), `RetryAllocate` (the recursive call), `HeapFree`,
`MergeNext`, `MergeDone`. Two peculiarities of the code are kept: `Join` loses
the header of the chunk it takes in, and the first chunk's size does not count
its own header, so the list reaches one header beyond the heap. The latter is
why `PayloadsInHeap` is not obvious: the excess always belongs to a free tail.

**RangeAllocator.** `ranges` is the list, in pages; `granted` records what the
callers hold. `UseInside` and `UseAtBase` are the two branches of `useRange`.
The second leaves the wrong number of pages in the header. It is not part of
`Spec`, only of `HintSpec`: the theorems and the passing run are about
allocators whose hints lie inside a free range, or that are never given one,
as is the kernel's own.

**Scheduler.** `q` has every pointer: head, tail and isEmpty of the queues,
prev, next and priority of the jobs. Loops are taken one iteration at a time,
so that one that does not end is a behaviour. `AddJob` sets `prev` from the tail
of queue 0 for every queue, as the code does. `fault` is the state in which a
NULL job is removed. The steps of the boot that create threads are actions, so
that the queue is what `schedulerAddJob` makes it.

**Frames, Paging, AddressSpaces.** `Frames` and `Paging` are operators on the
state of the frame allocator and of the tables in memory. An unmapped entry
keeps its address, and a new table's address is or-ed into it. `AddressSpaces`
has the variables and one action per caller; `kernel` and `user` record what was
asked for, and the properties compare that with what the tables say. `ElfLoad`
is the memory of `elfLoad` with `taskingCreateThread`: a space, the segments, the
stack, TLS and argv, the interrupt stack. The results of `allocateRange` that
the code ignores are kept: a segment that overlaps another is not mapped, and
the copy to it is a fault after which there is no state. `VmMap` and `VmUnmap`
are the system calls; `allocateStack` returns eight bytes below its range
(`userspace_allocator.cpp:215`), so that `vmUnmap` of such a pointer finds no
range and does nothing, and one that is found leaves its pages mapped.

**Ahci.** The driver takes one step per access to a register the controller also
writes; the controller (external) takes commands up in any order, completes
them, or fails after any number of sectors and then stops. `Physical` says where
each sector of a buffer lies, so that a buffer may cross into a page that is
elsewhere. `Prdt` has the entries of the loop as the code fills them: the count is
lowered while they are, before it is put in the command, and the buffer
advances by less than an entry holds. `before` records the contents when a
request began.

**Files.** System calls and the keyboard interrupt are atomic. `f_read`,
`f_write`, `f_lseek` and `f_close` are sets of outcomes, among them that the
disk fails or is full. `typed`, `consumed`, `written` and `printed` are histories.

**Fat.** The state is the sectors of the disk, the mounted volume with its window
on one sector, and the file objects with their buffers. The first sector has the
partition table, the first of the volume its boot record, from which
`mount_volume` takes the `layout`. A FAT16 volume, which is what `f_mkfs` makes of
the kernel's drive (65524 sectors, defaults for everything), has its root in a
table of fixed size in front of the data and keeps no count of free clusters; a
FAT32 volume has its root in a chain and the count in the FSInfo sector. A
directory ends at the size of that table, or at `MAX_DIR`. Each function of
`ff.cpp` is an operator of the same name on a record of all three; it counts its
transfers. An action is one call: it runs to its end with no transfer failing,
or one, or all from one on (a write of several sectors stores any first part), or the
power goes at one of them, and then memory is lost and the volume is mounted
again by the next call. Sectors hold cells: a FAT entry, a directory entry, or
a byte. `seen` is what a caller with every file and directory in view would
find, through the FAT, the window and the buffers; `FileStore` speaks of it.
`durable` are the files that were saved.

**Pthread.** The word and the level of the mutex, the sequence of the condition variable, the
once control, the two words of the reader-writer lock; a step is one atomic
instruction or futex call. `Ensure` is `__ensure`, which panics and ends the
program. The library does not ask who unlocks a mutex before it lowers the level and
frees the word; `Trespass` is such a call by a thread that does not hold the mutex,
and `trespassed` remembers that there was one. The futex (external) compares and sleeps in one step,
wakes everybody, and may wake anybody without cause. Luna's own futex calls
are stubs that fail (`luna.cpp:262`), so this is the library as it will work
over a kernel that has them.

## The runs

| Run | States | What it shows |
|---|---|---|
| `heap` | 17,407 | Chunks are disjoint, payloads inside the heap, nothing is left to merge, `heapUsed` counts, headers are mapped until the first expansion, the heap implements `BlockAllocator`, calls return or panic |
| `ranges` | 16,469 | The ranges tile their memory, headers and grants agree, no free stretch is hidden from `allocateRange`, the list implements `BlockAllocator`, merging ends |
| `ranges_hints` | violation | `useRange` at the base of a free range: the header's pages are not what was asked for |
| `scheduler` | 155,801 | Idle thread and shell with the kernel's own constants: nobody runs for longer than a slice; until an exit every interrupt returns and the shell keeps running |
| `scheduler_threads` | 16,466 | Three threads of the kernel, of users, or mixed, that exit in any order, to the states in which nobody is left: scheduler and processor agree who runs, and a thread that exited runs only when nobody else is left; with kernel threads the queue implements `RoundRobin` and everybody runs again and again |
| `scheduler_idle` | violation | With the kernel's own constants the idle thread stops running, for ever, though nobody exits |
| `memory` | 103,457 | Kernel, idle process and loaded processes: every space translates each page as asked, tables and pages share no frame, a process has all pages of its program and reaches no others, the counters of the frame allocator count |
| `paging_remap` | violation | A table freed and allocated again is linked with two addresses or-ed |
| `disk` | 454,187 | A request that fits one PRDT entry and is reported as done has been done exactly; no request, short or long, touches anything else, and one that failed has no effect later; tables of pending commands are kept; every read and write returns |
| `files` | 747,488 | Keys that got into the file (one is lost when the disk fails at it) are read in order, none twice, whatever the disk does; output is printed in order, once; descriptors keep naming their files when the table moves |
| `fat` | 124,034 | FAT16 and FAT32, with a failing transfer or a power failure anywhere: FatFs implements `FileStore`, no cluster is in two chains, no free cluster is hidden, and only a full volume, or a directory at its limit, is reported to be full |
| `pthread` | 338,878 | Three threads: mutex (until one unlocks what it does not hold) and reader-writer lock exclude, the once function runs once before anybody passes, no sleeper is forgotten, every call ends that can |

### Bounds, and why they are enough

- `heap`: header 3, pages of 8 bytes, a heap of 16 that grows to 24 and then
  finds too few frames to grow again, and panics. Sizes 1, 4 and 13 give
  several chunks, a remainder of exactly no bytes (13 + 3 = 16), and a request
  that only an expansion or a panic answers.
- `ranges`: eight pages, requests of one to three, hints at four pages: splits on
  both sides, merges in both directions and exhaustion occur.
- `scheduler` and `scheduler_idle` use 10 queues, an allotment of 25 and a boost
  of 500 slots: the code's 50 ms and 1000 ms in slots of 2 ms. `scheduler_threads` uses smaller
  numbers, which bring demotions, the last queue and boosts close together.
- `memory`: tables of two entries, so that a table empties and a region crosses
  into another one; 96 frames, with holes in the memory map and more usable frames
  than the bitmap has bits for, and three spaces, the boot's, and two of the idle
  process and programs. The program has two segments that share a page.
  `EnoughFrames` keeps it from states in which the
  allocator is empty, because the callers then use frame 0.
- `disk`: three sectors, two command slots (so that failures use them up), a
  spin limit of 2, three requests: one fails, one meets what it left, one more.
  PRDT entries of two sectors and requests of up to three: some need two entries,
  and some cross into a page that does not follow.
- `files`: a table of three descriptors, full from the start, so that the first
  `open` moves it; three keys, two characters of output, one opened file.
- `fat`: sectors of two cells, clusters of two sectors, six clusters; a static root of
  four entries, directories of at most eight. Both volumes have a file of three bytes
  and a root without an entry left in its four: on FAT32 it grows, on FAT16
  it cannot. On FAT32 there is a directory one entry short of the limit, on
  FAT16 one that has to grow for a new name. Two clusters are free. Writes
  of one and five bytes fill part of a buffer, pass sectors directly, and fill
  the volume. Four calls are enough to open two files, write one and close it.
  One mishap, a failing transfer or a power failure, at each transfer of each call.
- `pthread`: each behaviour uses one of the objects (a condition variable with its
  mutex), every thread makes up to two calls, or one of the reader-writer lock.
  A program in which threads unlock what they do not hold has one call per thread.
  Three threads are an owner, one that sleeps and one that takes the lock
  between them. The count of readers wraps at 4, one more than the threads.

### What the passing runs assume

- `memory` takes the uninitialized variable of `pagingIsPagetableEmpty` to be 0
  and unmaps only regions whose page tables keep another page
  (`LeavesTables`). `paging_remap` lifts the second; with another start of the
  loop (`LoopStart`) `TranslationExact` fails as well, because a table with pages
  is taken for empty.
  The kernel's pages lie under PML4 entries that exist before the first process
  is created: the direct map of the boot covers the entry of the heap and of
  the first 512 GiB of the kernel's ranges. The first frame is taken to be
  zero. The memory map has room for the bitmap (`FramesAssumption`).
- `disk` takes a slot to have a bit in CI and a table (`SlotsAssumption`), a table
  to have room for the entries (`TableAssumption`), sectors not to cross
  pages, and memory for `rebase` to be available. `TransferExact` is about requests
  of one entry and buffers that are physically contiguous; with a second entry, or
  a page elsewhere, the driver moves the wrong data (below). A failed `identify` hangs the boot, in the model as in the code;
  `CallsReturn` is about reads and writes.
- `files` lets the process use the standard files as the shell does.
- `fat` opens a file twice only for reading and unlinks no open file
  (`FF_FS_LOCK` is 0, and leaves that to the callers). A transfer of one sector
  is done or not done. After a power failure the count of free clusters saved on a
  FAT32 volume is stale, so `NoSpaceLost` and, on FAT32, `FullMeansFull` speak of the time
  before one. Paths are absolute and names have no long form: a name takes
  one entry, and there is no short name to generate, and so no `FR_DENIED` for
  want of one (`ff.cpp:2488`).
- `pthread` lets a thread lock a normal mutex once: the library panics when it does so
  again. What the properties say of the mutex ends when a thread unlocks one it does not
  hold (below). `EveryCallEnds` leaves out waiters that nobody signals, and the time after a writer has met readers, who
  then waits for ever (below).
- After an exit the scheduler's inner loop may spin or fault (`HandlersReturn`
  and `UsersRun` speak of behaviours without one).

### Fairness

`heap` and `ranges` assume weak fairness of the steps of a call in progress:
nothing preempts it. `scheduler*` assume it of the kernel's steps and of the
timer, which `lapicStartTimer` makes periodic; not of `Exit`. `disk` assumes it
of the driver, and of the controller: it goes on with what it has, but may fail
every command. `pthread` assumes it of every thread's steps within a call and of
its unlocking: threads are scheduled again (`EverybodyRuns`, `UsersRun`) and
programs leave their critical sections; nothing is assumed about beginning a
call. `memory`, `files` and `fat` check safety only.

### Deadlock

It is checked except in `heap`, where `panic` is final, in the scheduler's
runs, where `fault` is, and in `fat` and `pthread`, whose calls are bounded.
`disk` ends in a stuttering step when its requests are used up.

## What is proved

All proofs are for arbitrary constants that satisfy the named assumptions, in
particular for lists, heaps, disks and files of any length and any number of
threads. Each theorem that states a property of a run names its definition. TLC
finds the inductive invariants to hold on the instances of the runs as well.

| Module | Theorems about a checked property | Other theorems |
|---|---|---|
| `HeapProofs` | `HeapDisjoint`, `HeapPayloads`, `HeapMerged`, `HeapUsedAlwaysExact`, `HeadersAlwaysMapped`, `HeapImplementsAllocator` | `HeapTypes`, `HeapOnlyFreeTakesAway` |
| `RangeProofs` | `RangesAlwaysTile`, `UsedAlwaysGranted`, `NeverFailsSpuriously`, `RangesImplementAllocator` | `RangeTypes`, `NeverLeftToMerge` |
| `SchedulerProofs` | `RunnerAlwaysAgreed`, `SlicesAlwaysBounded`, `ExitedAlwaysGone`, `AlwaysLinesUp` | `SchedulerTypes` |
| `AhciProofs` | `TransferAlwaysExact`, `NothingElseEverTouched`, `CommandsAlwaysKept` | |
| `FilesProofs` | `KeysAlwaysInOrder`, `NothingEverSkipped`, `PrintedAlwaysInOrder`, `DescriptorsAlwaysKept` | |
| `FramesProofs` | | `BootAccounted`, `AllocateAccounted`, `FreeAccounted` |
| `PthreadProofs` | `MutexAlwaysExclusive`, `OnceAlwaysOnly`, `RwAlwaysExclusive`, `NobodyEverForgotten` | `InvariantAlways` |

The assumptions on constants:

- `HeapConstants`: sizes are numbers, the heap starts with whole pages (`memory.hpp:7`)
  and two headers fit in one.
- `RangeConstants`, `SchedulerConstants`, `AhciAssumption`, `FilesAssumption`: types and
  that bounds are positive. `UnknownAssumption`: what a failed read leaves in a
  buffer is told apart from what a program writes.
- `NewThreads`: the boot creates each of its threads once, because
  `taskingCreateThread` makes a new one with each call (`tasking.cpp:211`).
  `FiniteThreads`: there are finitely many, so that the walk along `next`
  can be bounded.
- `PthreadConstants`: threads are fewer than the count of readers can hold.
- `FramesAssumption`: usable memory is part of the memory map, and has room for the
  bitmap; the map may have holes, and more or fewer frames than the bitmap
  has bits.
- `SlotsAssumption`: `cmdSlots` is at most 32. `TableAssumption`: requests have at most
  8 entries, what the room between two command tables holds; a cluster of 128
  sectors, the largest there is, has no more.

**`HeapProofs`**. The inductive invariant
`IInv` adds to the types and the two properties: `TailInv`, that the tail chunk
is free and ends at most one header above `heapEnd` (two, while an expansion is
being merged, and then the chunk before it is free): without it a chunk cut
from the tail could reach beyond the heap; `MergedSoFar`, the invariant of the
merge loop; that chunks lie above the start; that chunks in use are not empty,
which makes different chunks different blocks; and what the call in progress
asked for. There is one lemma per action. The refinement adds what each action
does to the set of chunks in use. `HeadersAlwaysMapped` adds `MappedInv`: the tail
begins at most a header above `heapEnd`, and one page more than the heap is
mapped. `HeapUsedAlwaysExact` adds `UsedInv`, where the chunk being freed counts
until the merge has ended; `heapUsed` is a sum along the list, and the lemmas on what
splitting, appending, flagging and joining do to that sum are by induction.

**`RangeProofs`**, all of `Spec`. `IInv` says that
the list, once there is one, is tiled (with the order of ranges that are not
neighbours), that `granted` is what
the used headers say, and that nothing is left to merge before the place the
loop has reached. The lemmas are about splitting, flagging and joining a list;
the actions combine them. `NeverFailsSpuriously` follows from the invariant: the
stretch of free pages meets some header of the tiling, that header is free, and
it must hold the whole stretch since its neighbours are in use.

**`SchedulerProofs`**. `AddJob` may link queues wrongly, so
for all theorems but the last nothing is assumed of the lists but that a queue not
marked empty has a head
(`HeadsSet`), which `RemoveJob` and `AddJob` keep. `IInv` adds to the types who
runs at each place of the handlers (`Runner`), that nobody but the current thread
is RUNNING, and that only the thread being charged may be over its allotment
(`Overtime`). `ExitedAlwaysGone` adds `Searched`: when the search for a job finds
nobody, it has been through all queues and they are empty. The theorems hold in
spite of the finding `scheduler_idle`.

`AlwaysLinesUp` is about boots that create threads of the kernel only, which are
never demoted: there queue 0, as its pointers make it, implements `RoundRobin`.
Its invariant `LInv` says that some sequence of threads `s` is the line: no
thread is in it twice, `head`, `tail`, `next` and `prev` of queue 0 say what `s` says
in both directions, the other queues are empty (the `prev` that `AddJob` sets is
the right one for queue 0), `s` has none of the threads still to be created, and whoever runs is at its
front. `LineOf` reads the line by following `next`, a recursive function;
the lemma `WalkIs` shows by induction that on such a queue it yields `s`.
A thread that was used up is the one step that is not a stutter once the boot is
over: `RemoveFront` and then `AddLine`.

**`AhciProofs`**. `IInv` has three parts. `Flight`: as long as the controller has not
failed it has no command but the one the driver waits for, and a command
it runs is that one. `Data`: for each place of the driver, the contents are
those before the request, or those the command leaves (`Goal`), or, after a
failure, something between, sector by sector (`Mixed`). It holds for tables of any number
of entries over any frames; that what the command leaves is what was asked for
is a lemma about requests of one entry over consecutive frames.
The lemmas on a PRDT compute what the first `n` sectors of a command do.

**`FilesProofs`**. `IInv`: `Table`, the list of descriptors has room for what is in it,
and only the first two descriptors name the console's files; `Input` and `Output`, what the two
files hold is what was typed and written, and, unless a call has failed, the position
is where the last call left it. `f_read`, `f_write` and `f_lseek` are sets of
outcomes, so there is a lemma on each about what any outcome keeps. `PrintedAlwaysInOrder`
counts the characters that came from the file, with lemmas on
cardinalities.

**`FramesProofs`** is about the operations, not about a state machine: `initialize`
establishes `Accounted`, with the usable frames beyond the bitmap counted as free memory, as the
code counts them; `allocatePage`, when a frame in the part of the
bitmap it scans is free, returns the lowest such frame, which nobody holds, and keeps
`Accounted`; `freePage` of a frame that is out keeps it too.

**`PthreadProofs`**. `Invariant` has a part per object.
`MutexInv`: until there was a trespass, the owner is the thread that holds the mutex or
is between taking and counting, or counting and releasing it. `SleepInv`: a sleeper's word had the
waiters bit when it went to sleep. `RwInv`: who holds `m`, by the place a thread
is at, and that the count is at least the number of readers who have not left;
since a writer that meets readers fills the count, it is an inequality, and it
needs that threads are fewer than the count can hold. One lemma per part and
primitive, with a step per action.

**Induction over data.** `Least` (a set of naturals that is not empty has a least
element) and, from it, `Induct` (a set that has 0 and with each number the next is
all of Nat) are proved in `ListLemmas`. They take a set and not an operator, which
the provers can instantiate; sums and walks along lists are handled with them.

**Only model-checked**:

- liveness (`CallsReturn`, `MergeEnds`, `HandlersReturn`, `UsersRun`,
  `EverybodyRuns`, `EveryCallEnds`), which is beyond the prover;
- `Fat` (`ChainsApart`, `NoSpaceLost`, `FatIsFileStore`, `FullMeansFull`), whose
  operators, like the functions of `ff.cpp`, are RECURSIVE; the prover does not take them;
- `FramesPrivate`, `UserRights`, `TranslationExact` and the composed
  `FramesAccounted` of `AddressSpaces`: `Paging` ors addresses bit by bit, and the
  prover does not take the module of bits. What `FramesAccounted` says of the
  allocator itself is in `FramesProofs`.

## Where code and comments disagree

- `ranges_hints`: the field `pages` is "How many pages does the address range
  contain" (`virtual_address_range_allocator.hpp:13`), but `useRange` at a base
  keeps the count of the whole free range.
- `scheduler_idle`: kernel jobs "only go to the back of the line"
  (`scheduler.cpp:84`), but never get to its front again: after demotions and
  boosts the wrong `prev` has made the shell the head of several queues.
- `paging_remap`: mapping a page does not always map it; the finding quotes the
  comment.

Met while modelling, and kept in the models without a run of their own:

- `pthread_rwlock_wrlock` says "Try to set the waiters bit"
  (`pthread-stubs.cpp:1099`) and ors `rc_count_mask` into the word: a writer that
  meets readers never returns. Writers and readers still exclude each other
  (`RwAlwaysExclusive`).
- `pthread_mutex_unlock` looks at the owner when it has already released the mutex
  (`pthread-stubs.cpp:850-860`). A thread that does not hold it gets `EPERM` from an
  error-checking mutex, but the mutex is free then, and nobody is woken; a recursive
  mutex held twice loses a level without an error; in the other cases the library panics.
- `k_ahci_port::read` and `write` (`ahci.cpp:401-413`) advance the buffer by 4 KiB for an entry
  of 8 KiB, and put the count that is left after the loop in the command: a request
  of more than 16 sectors moves only as many as its last entry has. They translate
  the address of the buffer once, so that of a buffer in frames that do not follow
  each other only the part in the first is used. `TransferExact` excludes both.
- `cmdSlots` is `(cap >> 8) & 0xF0` (`ahci.cpp:27`), which may be up to 240 where CI has
  32 bits.
- The bitmap of frames has a bit for each page of the memory map, counted, and not up
  to the last address (`bitmap_allocator.cpp:21`): with holes in the map, and when the
  pages do not fill its last byte, there are usable frames without a bit,
  which are counted as free and never handed out.
- `filesystemInitialize` formats the drive when the mount says `FR_NO_FILESYSTEM`
  (`filesystem.cpp:69-82`), which is also what a boot record that cannot be read gives
  (`find_volume`).
- `f_sync` clears `FA_MODIFIED` also when `sync_fs` fails (`ff.cpp:4134`): a second
  close reports success without having written the entry. `close`
  (`syscalls_calls.cpp:121`) ignores the result of the first.
- `sys_anon_free` (`luna.cpp:230`) makes the system call that maps memory.
- `heapExpand` walks the heap from its start and loses a frame for every page that
  is already mapped; `FramesToExpand` counts them.

## Not modelled

- Parsing and formatting without state of its own: ACPI tables and the
  bootloader's structures, ELF headers, logging, graphics, strings.
- Single accesses to registers: interrupt controllers, timers, descriptor tables,
  processor features, probing of disk ports, the start of the PS/2 controller. The timer
  is the action `Interrupt` of `Scheduler`.
- The CMOS clock: a loop that reads until two readings agree, which has no other
  actor than the clock, and whose result is only the time stamp of a file.
- Of FatFs: FAT12, whose entries may lie in two sectors; a second FAT, which `f_mkfs` makes
  only when asked to; long names and the collisions of short names; the current directory, listing of directories (they
  change nothing on the disk), `f_rename` and `f_truncate` (no caller), what
  `ffconf.h` compiles out. Of `f_mkfs` only the volumes it leaves, FAT16 and FAT32: that
  the drive is formatted at boot is not a step of the model.
- Of mlibc everything but the locks and `pthread_once`: the bulk of it serves
  interfaces whose system calls Luna does not have. Creating and joining
  threads is among them.
- Running out of frames: the callers of the frame allocator use frame 0 then,
  and nothing can be said of what follows. An `identify` command that fails
  hangs the boot, in the model as in the code. A sector of a buffer that lies in
  two pages, and what `initialize` of the frame allocator destroys when it sets bits behind
  its temporary bitmap.
- The buddy allocator and the hash map, which nothing uses.
