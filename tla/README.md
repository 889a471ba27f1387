# Toastium in TLA+

Models of the Toastium kernel (C and RISC-V assembly, under `src/`), TLC
configurations that check them on small instances, and proofs of the page
allocator, the run queue, the traps and the address space identifiers for
instances of any size.

Contents: [the system](#the-system), [modules](#modules-and-the-code),
[runs](#runs), [fairness](#fairness), [proofs](#proofs),
[disagreements](#where-code-and-comments-disagree),
[limits](#what-is-not-modelled).

## The system

The kernel runs on one hart.  It boots, reads the device tree, works out which
memory is free, builds its allocators, makes an idle process and an init process,
and from then on runs only in answer to traps.

| Part | Source | What it does | Uses |
|---|---|---|---|
| device tree | `arch_device_tree/dtb.c`, `kernel/devices/*` | parses the blob of the boot loader into linked records, looks children up by a prefix | |
| memory regions | `kernel/memory/pager.c` (`pager_init`) | finds available and reserved memory, subtracts, cuts each region into a bitmap and pages | device tree |
| page allocator | `kernel/memory/pager.c` (`pg_alloc`, `pg_free`) | one page at a time, a bitmap per region and a search hint | memory regions |
| slab allocator | `kernel/memory/allocator.c` | objects of a power of two bytes, an index of data pages and bitmaps per size | page allocator |
| containers | `memory/list.c`, `memory/hashmap.c` | lists and hash maps of kernel objects | slab allocator |
| page tables | `arch_vma/virtual_memory.c` | three levels of tables per process; maps, unmaps, merges | page allocator |
| address spaces | `include/layout.h`, `process/process.c`, `memory/stack.c` | where stacks, trapframes and code lie in a process | page tables |
| identifiers | `virtual_memory.c` (`vma_swap`, `vma_fetch_asid`) | ASIDs and the fences that go with them | list of processes |
| process table | `process/process.c` | ids, the map from ids to processes, the list of processes, creation and clean-up | containers |
| run queue | `process/scheduler.c` | a ring of waiting processes | |
| traps | `arch_trap/*`, `kernel/trap/*`, `process/context.c` | saves and loads contexts, changes the process, runs handlers | all of the above |
| system calls | `kernel/syscall/*`, `trap/user_accses.c` | open, read, write, seek, print; copies from and to user memory | file system |
| file system | `kernel/file_system/*`, `memory/radix.c` | inodes with pages in radix trees, descriptors, directory entries | allocators |
| the rest | ELF parser, driver manager, UART, strings | input and output | |

A trap is handled in two halves.  The first runs on the hart's stack with
interrupts off: it stores the context in the trapframe page mapped at
`TRAPFRAME_ADDRESS`, answers the timer, prints, and changes the process.  What it
leaves goes to the second half, which runs on the kernel stack of the process with
interrupts on and turns them off around copies of user memory and around every use
of the allocators and the file system.

## Modules and the code

| Module | Models | State | Actions |
|---|---|---|---|
| `DeviceTree` | `dtb_dump`, `device_tree_init`, lookup by prefix | the records and their links, the stack of nodes, the place in the blob | one per token |
| `MemoryRegions` | `pager_init` | the free and reserved lists, the two loop variables, the page areas | one per branch of the loop body |
| `Boot` | `DeviceTree`, then `find_memory_regions`, then `MemoryRegions` | both, and how far the boot is | `ParseStep`, `FindMemoryRegions`, `CutPages` |
| `FirstFitPool` | what an allocator promises | frames in use, stopped or not | `Alloc`, `Free`, `Exhausted`, `BadFree` |
| `Pager` | `pg_alloc`, `pg_free` | `bitmap`, the hint `last_free_bitmap`/`last_free_page_num`, the frames callers hold | one per function and panic; an owner writes to its page |
| `Slab` | `mem_alloc`, `mem_free` | the index of each size as one row of cells, `lowest_free_entry`, the objects callers hold | one per function |
| `HashMap`, `List` | `hashmap.c`, `list.c` | none: functions on records | |
| `ProcessTable` | ids, map, list and life of a process, over `HashMap` and `List` | `process_upto`, the map with its freed leaves, the list, the objects, the queue, the process on the hart | creation, timer, two ways to kill |
| `RoundRobin` | what the run queue promises | a sequence | `Put`, `Take`, `Overflow` |
| `Ring`, `Scheduler` | `scheduler.c` | `queue`, `start`, `count` | one per function |
| `SyscallFlow` | the interruptible half of the system calls | none: a flow graph whose edges switch interrupts | |
| `Kernel` | traps, handlers, context switches over `Ring` and `SyscallFlow` | ring, per-process flags, trapframes and which is mapped, `satp`, the context on the hart, the timer | one per trap, handler step and return |
| `AddressSpace` | what page tables promise | a map per process | `Create`, `Replace`, `OutOfPages` |
| `Vma`, `VmaPages` | `virtual_memory.c` | the entries of every table, the pool of table pages, the roots, the tables that were freed while linked | one per function of the header |
| `ProcessSpace` | the pages of a process, on `Vma` with the offsets of `layout.h` | the tables, the mapped trapframe and hart of each process | creation, user code, change of hart, change of trapframe |
| `Asid` | identifiers and the translation cache | identifiers, `satp`, a version of each process's tables, the cache | `change_context`, `vma_replace_section`, `Translate` |
| `FilePages` | `radix.c`, the pages of `inode.c` and `file_descriptor.c` | nodes, their entries, allocated nodes and pages, their bytes, the size | injection |
| `FileBytes` | `file_descriptor_read`, `_write`, `_seek` on `FilePages` | the position of each descriptor, the bytes the last read copied | one per function |
| `ByteFile` | what an open file does for its users | an array of bytes, the pages that were made, a size, positions, the bytes a reader got | `Load`, `Write`, `Read`, `Seek`, and the stops at a page that is missing |
| `Dentry` | the lookup of a path | none: a function | |
| `Descriptors` | the file system calls of several processes, over `Dentry` | descriptor tables by pages, what each call is at, positions, size, pages taken | a step for every stretch with interrupts off and for every copy |
| `PagerProof`, `RingProof`, `SchedulerProof`, `AsidProof`, `KernelProof` | theorems, see below | | |

Names are those of the source where TLA+ allows it.  `MC...` modules hold the
constants of an instance; definitions marked as a mutant are altered forms of the
definition that follows them, used to see that a property notices the change.

Conventions shared by the modules:

* A `PANIC` sets `panic`; `freeze_system` is the loop that follows it.  Outcomes the
  source does not determine (a stack taken away, a word used as a pointer, an entry
  that was never written) are values of `panic` too, and nothing is claimed after them.
* A function that runs with interrupts off, or before interrupts exist, is one
  action.  Loops that no interrupt can enter are written as one step, except in
  `DeviceTree` and `MemoryRegions`, where the loop is the subject.
* Locations are page numbers; the contents of pages are modelled only where the
  code reads them back (tables, indexes, tree nodes, leaves, bytes of files).
* `held`, `user_pc`, `kernel_at` and the like are history variables: they record what
  callers were given and where programs really are, and no action reads them to
  decide anything the code decides.

Abstractions worth knowing:

* `DeviceTree`: a token of the structure block is a step, a name a sequence of words, a
  value what the callers read of it.
* `Pager`: a `PageCnt` of 0 also stands for the negative count a region of less than two
  pages gets.  The pages after the last whole word of a bitmap are never handed out, as
  in the code.  A bitmap begins where its region begins and the pages at most a page
  later (`pager.c:206-214`), so the bitmap of a region of more than 32768 pages (fewer
  where the region begins inside a page) reaches into its own pages, as
  `docs/implementation_note.md:6` says.  `HeadBits` is what fits before the first page;
  the bits behind it lie in pages, which `pg_alloc` blanks and owners write to
  (`StoredIn`, `StoreInPage`).
* `MemoryRegions`: the kernel's own region starts at the byte that is stored at
  `_kernel_start`, a small number, because `pager_init` reads the symbol as a value
  (`pager.c:166`).  Everything below the end of its records is thus reserved.
* `Slab`: data pages of different sizes never coincide, as each comes from `pg_alloc`.
  `PagerProof` proves that for the regions whose bitmap is apart from their pages; for
  the others it is an assumption of this module.
* `Kernel`: at most six processes where `list_remove` is concerned, below which it
  always panics (it asks for item `item_size - 1`); `block_waiting` is never set by the
  code; a set of processes exists from boot on.  No code assigns the `hart_id` of
  `trap_data`, which chooses the idle process and the stack that is mapped when the
  process changes: every change has the outcome `UNSET_HART_ID`, and what is claimed is
  about the changes in which the unset word happens to be the number of the hart.
* `ProcessTable`: a freed leaf keeps its contents until `mem_alloc` hands it out again,
  as another leaf; nothing else that runs after boot takes objects of 64 bytes
  (descriptors have 32, tree nodes 128, and the call that prints a string, which would
  take a buffer of any size, never gets to its second half).  The run queue is the queue
  of `RoundRobin`, which `SchedulerProof` justifies.  `list_idx`, which no code sets, is
  any index.
* `Vma`: fan-out `F` for 512, three levels as in Sv39; canonical addresses only.
  `merged` is a history variable: the tables `shrink_branch` freed and left linked.
  When one of them is handed out again the outcome is `LINKED_TABLE_REUSED`.
* `Asid`: the tables of a process are a version number; the cache may hold any version
  that was current when it was filled.
* `FilePages`: `DEPTH_SIZE` bits a level and `MAX_DEPTH` levels for 4 and 16, and a
  shift takes its count modulo the width of the word, as the machine does.
* `Descriptors`: of the file there are its size, its pages and the positions
  (`FileBytes` has the bytes); a copy to or from the user may fail in any chunk.
  `file_descriptor_read` and `_write` come back with interrupts off, but a fault of the
  copy that follows turns them on, so that calls of other processes come between chunks.
  A call leaves its result in `trap->return_reg`; `interruptable_trap_syscall` asks for
  no response, so the register of the user stays as it was (`send_response`).

## Runs

Each run is one question.  `tlc -config <cfg> <module>` repeats it.

| Run | Question | Instance and why it is enough | Result |
|---|---|---|---|
| `boot` (`MCBoot`) | Does the parser build the tree of the blob, is the memory found in it, and does the removal of reserved memory end, with nothing handed to the pager that the kernel uses? | one, two or four memory nodes, up to two reserved areas before, inside, across and after them and the kernel's own region, with arrays of three entries, so that they overflow; a node without `reg` before and after others, missing nodes, wrong cells, trees that are too deep, unbalanced or broken | holds |
| `pager` (`MCPager`) | Do hint, bitmaps and owners stay in step under every order of calls, and can a caller tell the allocator from `FirstFitPool`? | four regions out of address order: one of whole words, one with pages after its last word, one too small for a word, one whose bitmap lies in its own pages; words of 2 bits; frees of every location, valid or not; owners that write anything | holds for the regions whose bitmap is apart from their pages |
| `slab` (`MCSlab`) | Do bits and owners agree, and is the first data page of a size a first-fit pool? | pages of 16 bytes, three objects in a data page, an index that needs a second page (`CellBound`); only objects of the first data page are freed (see below) | holds |
| `slab_twice` (`MCSlab`) | Is an owned object never handed out again? | the code's page size, objects of 2048 bytes, one to a page | **violated** |
| `scheduler` (`MCScheduler`) | Is the ring a first-in first-out queue? | four processes, three slots: the ring wraps and overflows | holds |
| `kernel` (`MCKernel`) | Do contexts, trapframes, run queue and flags survive every interleaving of traps, is shared state never left in the middle, does every process keep getting the hart and every system call return? | one or two processes and the idle one, every system call, a timer that may go off at any point; two program points tell a skipped instruction from a repeated one | holds |
| `process_table` (`ProcessTable`) | Which processes are found under their id, and is nothing scheduled that was freed, while leaves and objects are used again? | five ids in two buckets, so that a freed leaf comes back in its own chain and in the other one; lists that outgrow their first section, every value of the unset `list_idx` | holds, with processes that are lost once a younger id of their bucket is gone |
| `vma_pages` (`MCVmaPages`) | Do the tables of several processes walk to what was mapped, and which tables does the pool lose or free too early? | fan-out 2, three levels, two processes, pages that share a table at each level and can be merged, with and without `VMA_DONT_COMPRESS`; six table pages, so that `pg_alloc` runs out in the middle of a call | holds until a table that was freed while linked is handed out again |
| `process_space` (`ProcessSpace`) | Does every page of every process lead where the definitions of the layout say? | fan-out 16, which holds the whole kernel layout at its real offsets; two processes, two hart stacks | holds |
| `asid` (`Asid`) | Does the hart ever use a stale translation? | harts with identifiers 0 to 2 and without any; three processes | holds |
| `files` (`FileBytes`) | Do the roots of different depth show the same file, are the nodes exactly the allocated ones, and is what readers find what was written last? | one bit and four levels, seven pages of two bytes, two descriptors, writes of nothing, of part of a page and across pages, positions inside and past the file; loads of part of a page, of a page and of more | holds |
| `descriptors` (`Descriptors`) | Do the calls of two processes on one file count what they moved, keep their tables and pages in order, and come back? | tables of two entries a page and at most three entries, so that a table grows and is full; reads and writes of less and of more than a page; four opens between two processes | holds |

What the properties say:

* `TreeIsDocument`: after every token the linked records are the tree of what was read.
  `MemoryNodesFound`: the pager gets the memory nodes of the document, in order, up to
  the first one without `reg`, and no other.
* `FreeListBound`, `KernelKeptOut`, `BootEnds`: the loop over reserved regions steps
  back after removing a region and visits regions it appended itself; it still ends, the
  list outgrows its array only when there are that many regions or enough reserved areas
  to split them, and no bitmap and no page begins below the end of the kernel's own
  records, although a region that takes the place of a removed one is moved behind the
  loop.
* `NoFreePageBelowHint`: the hint never hides a free page of a region whose bitmap is
  apart from its pages.  A free lowers it, an allocation raises it, in different units.
* `BitmapsMatchOwners`, `BitsMatchOwners`: what is marked used is what callers own, so
  nothing is handed out twice or lost: for the pager in the regions whose bitmap is
  apart from their pages, whatever the owners of pages of the other regions write into
  the bitmaps there; for the slab allocator when objects of the first data page are
  freed.  `OutOfPagesOnlyWhenExhausted`: the kernel does not give up while a page of
  such a region is left.
* `ImplementsPagePool`, `ImplementsPool`, `ImplementsRoundRobin`,
  `ImplementsAddressSpace`, `ImplementsByteFile`: refinement of the abstract module.
* `ContextsPreserved`: a process continues exactly where it stopped, at every level of
  nesting.  `TrapEntryReady`: the mapped trapframe is the one a trap may overwrite, at
  every level.  `WaitingOrOnHart`, `RunningIsOnHart`: a process is queued once or on the
  hart, and its flag says which. `SharedStructuresExclusive`: no process loses the hart
  while it copies user memory or changes shared structures.  `NoInternalPanic`: the
  kernel's own sanity checks do not fire.  `EveryProcessRuns`, `SyscallsComplete`: see
  fairness.
* `LivePidsFound`: a process that exists is found under its id as long as the younger
  ids of its bucket exist too, although `hashmap_remove` leaves freed leaves linked, and
  no lookup leads to another process.  `NothingFreedIsScheduled`: hart and run queue
  lead only to processes that exist, each once.  `KilledIsCleanedUp`: the next change of
  the process removes what was killed.  `TypeOK` here says that with up to `LEN + 1` ids
  the search for an id comes back and `kill_process` finds its process.
* `TablesMatchPool`: but for the tables that a merge freed while they were linked, the
  pool lacks exactly the tables that are linked: none leaks, none dangles.
  `TablesNotShared`: no table is reached twice.  `ImplementsAddressSpace`: the walks
  show what was mapped, merged tables included, until one of those is handed out again.
* `AddressSpaceAsLaidOut`: after creation, moves between harts and changes of the
  trapframe, every page of both processes leads where the definitions of `layout.h` and
  the calls say.  `OneGuardIsStack`: of the pages the comments of `layout.h` call
  guards, two are blank and the one below the trapframe is the last page of the kernel
  stack, whose definition (`layout.h:18-21`) is a page above its comment.
* `NoStaleTranslation`: what the cache holds under the identifier in `satp` comes from
  the present tables of the present process.
* `RootsAgree`, `NodesMatchAllocator`: a file has several roots of different depth which
  share nodes; what one inserts the others find, and no node is leaked or made twice.
  `ImplementsByteFile`: what a read copies to its reader is what was written last, and
  the kernel stops only at a page below the size that was never made, and at the second
  page of a load.
* `CountsWhatMoved`: what a read or write has counted is how far its position moved,
  whatever failed or came back short, and all of it but less than a page was given to
  the copy.  `DescriptorsOwnedOnce`: every descriptor is in one entry of one table, or
  held by the call that is about to insert it, with one count of the inode.
  `PagesAccountedFor`: no early return loses a buffer page.  `CallsReturn`: see
  fairness.

Every module has its `TypeOK`.  In `process_table` and `descriptors` it also says which
panics can be reached, and is checked there; in `Pager`, `Scheduler`, `Asid` and `Kernel`
it is part of what is proved; elsewhere it states the range of each variable for the
reader.

Restrictions of the passing runs.  `slab` frees only objects of the first data page
of their size because `mem_free` looks for the others in the wrong place (below).
`vma_pages` maps single pages, as all callers do.  `asid` has an
identifier for every process, as the code has for its first 65536.
`files` writes within the pages of `PageNums`, and `descriptors` reads and writes sizes
that are not negative, below `OffsetBound`.

## Fairness

`Kernel` assumes weak fairness of `Tick` (a timer that is set goes off), strong
fairness of `TimerTrap` (an interrupt that is pending is taken if interrupts keep
being enabled: the hart checks at every instruction, and every section with
interrupts off is finite), and for each process strong fairness of its handler's
steps and of the exits of the handler's loops.  The latter stand for a time slice
of milliseconds, in which a handler that has the hart again and again gets on, and
for loops over buffers and tables of finite size.  Nothing is assumed of user
programs.

`Boot` assumes weak fairness of `Next`: sequential boot code keeps running.
`ProcessTable` assumes weak fairness of the timer interrupt.  `Descriptors` assumes weak
fairness of the kernel's steps for each process, which is what `EveryProcessRuns`
provides; that its loops end is then checked, not assumed.

The liveness properties allow for the kernel stopping in a panic, and
`SyscallsComplete` for the call that hangs on purpose.

## Proofs

| Module | Theorem | Statement |
|---|---|---|
| `PagerProof` | `TypeCorrect` | `Spec => []TypeOK` |
| | `HintIsSound` | `Spec => []NoFreePageBelowHint` |
| | `OwnersAreRecorded` | `Spec => []BitmapsMatchOwners` |
| | `OutOfPagesIsReal` | `Spec => []OutOfPagesOnlyWhenExhausted` |
| | `PagerImplementsPool` | `Spec => ImplementsPagePool` |
| `SchedulerProof` | `RingIsExact` | `Spec => []RingHoldsWaiting` |
| | `RingImplementsQueue` | `Spec => ImplementsRoundRobin` |
| `AsidProof` | `TranslationsAreFresh` | `EnoughAsids => (Spec => []NoStaleTranslation)` |
| `KernelProof` | `ContextsArePreserved` | `Spec => []ContextsPreserved` |
| | `TrapEntryIsReady` | `Spec => []TrapEntryReady` |
| | `ProcessesWaitOnce` | `Spec => []WaitingOrOnHart` |
| | `RunningFlagIsRight` | `Spec => []RunningIsOnHart` |
| | `SectionsAreExclusive` | `Spec => []SharedStructuresExclusive` |
| | `ChecksNeverFire` | `Spec => []NoInternalPanic` |

**Pager**, for any number of regions, any region and word sizes.  Assumptions:
`ConstantsAssumption` (sizes are natural numbers, there is a region, word size is
positive) and `RegionsDisjoint` (regions share no page and do not start at the same
page).  `pager_init` does not establish the second: it holds when one region is left,
and with more it may fail, see `NothingAdded` and `RegionsApart` below.  The theorems
speak of the regions whose bitmap ends before their pages (`ApartRegions`).  In the
others a bitmap reaches into the pages; there blanking a page clears bits, the owner of
a page may store any (`StoreInPage`), and nothing is claimed but the types.  What
happens there reaches no other region (`StoreKeepsApart`).  The inductive invariant
is the conjunction of the four invariants.  None of the last three is inductive alone:
an allocation keeps the hint sound only because the scan starts at a sound hint and
passes full words (`ScanFindsFirstFree`, `PassedWordIsFull`), exhaustion follows from a
sound hint and from bits that match owners, and a free keeps bits and owners in step
only because a frame belongs to one region (`FrameHasOneRegion`).  Refinement adds one
lemma per action: the page the scan stops at is the first free frame of the pool
(`AllocRefines`), a panic of `pg_alloc` is an exhausted pool (`AllocNoneRefines`), and
`pg_free` finds the region of any frame in use (`ClosestIsOwn`, `FreeRefines`).

**Ring and scheduler**, for any number of slots and processes (`RingAssumption`: there is
a slot, the idle process and the null pointer are no processes).  `RingProof` has the
arithmetic: places below the size never share a slot (`PlacesDiffer`), queueing fills the
place behind the last and keeps the others (`QueuedRing`), taking moves each place one
forward across the wrap (`NextRingShifts`).  From it follow what a ring holds after each
operation (`QueueHolds`, `NextHolds`), used here and in `KernelProof`, and the steps of
the refinement, where the waiting processes as a sequence gain a last or lose a first
element (`QueueRefines`, `NextRefines`).

**Asid**, for any number of processes and harts that have no identifiers or enough
(`EnoughAsids`; with fewer the code hands identifiers out twice).  The property speaks
of the entries under the identifier in `satp`, which is not inductive: an entry of a
process that is not running matters when it runs again.  The invariant says of the whole
cache whose tables it holds: without identifiers, only those in `satp`; with them, those
of the owner of each identifier, in the present version, where the owners are the
processes that have run and their identifiers are the lowest ones, one each.

**Kernel**, for any number of processes, any size of the run queue that holds them at
boot, any programs.  Assumptions: `RingAssumption` and `UserPCsAssumption` (a program
has an instruction).  A change of process may end in `UNSET_HART_ID`, as the `hart_id`
it uses is never set; past that point nothing is claimed, and the theorems speak of the
changes in which the value happens to be that of the hart.  The invariants do not stand
alone.  Contexts survive only because the mapped trapframe is that of the level; that
the frames below are not written only because no trap but a page fault in a copy comes
from the handler; that this is so only because interrupts are off in every copy and
every section, which is a fact of the flow graph (`FlowIsGuarded`); and the queue has
room only because exactly the other processes wait in it.  `IInv` joins them with what
links them: where the handler of each process is (`HandlerAsFlagged`: trap level,
`reading_userspace`, interrupt bit agree with it, and a process that is not on the hart
had interrupts on), the kinds of processes and one free slot while a process is on the
hart (`KindsAndRoom`).  There is one lemma per action. Steps that stay with the process
touch nothing of the others (`StaysOnHart`); steps that change it use what the ring
holds afterwards (`ChangeKeepsRing`) and that a context is loaded as it was stored
(`FramesAfterChange`).

All other properties are model-checked only.  Liveness and its fairness are beyond
the prover and stay with TLC, as do the modules whose subject is a fold over data
(trees, tables, hash chains), where the facts would need induction over the data.

## Where code and comments disagree

One run shows a disagreement between the code and what the repository says of it:

* `slab_twice`: `mem_alloc` reserves an index entry per object of a data page,
  `mem_free` counts fewer (`allocator.c:193-203`).  Freeing an object of a later data
  page clears the bit of another object, which is then handed out to a second owner.

Other promises are stated as formulas in the modules, below the properties, and do
not hold of the code; given to TLC as an invariant (a formula `[][...]_vars` as a
property) in place of the ones of the run, each has a short trace.

| Formula | Code | What the code does |
|---|---|---|
| `Pager!HandedOutOnce` | `pager.c:253` | in a region whose bitmap reaches into its pages, blanking a page clears the bits of pages in use, its own included, and they are handed out again |
| `Slab!NoFreeObjectHidden` | `allocator.c:103-117`, `154-158` | a data page is numbered from the hint and the hint from that number, so the hint runs ahead and the scan begins behind free objects; the notes know of "a bug with allocator todo with not reusing sections" (`docs/implementation_note.md:69`) and not of its cause |
| `Slab!OwnedObjectsCanBeFreed` | `allocator.c:193` | an object of the second data page of a size is refused as free (with `Spec`) |
| `MemoryRegions!NothingAdded` | `pager.c:119` | the start of a region moves before the size is computed from it, so the region reaches beyond the memory node |
| `MemoryRegions!RegionsApart` | `pager.c:116-119` | a region that lies wholly behind a reserved area counts as touching it and is made to begin at its end; two such regions then begin at the same place |
| `Boot!ReservedNodesFound` | `pager.c:70` | the properties of `reserved-memory` itself come first among its children, and the loop ends at the first child without `reg` |
| `VmaPages!MergedTablesAreReplaced` | `virtual_memory.c:122` | a table whose entries are alike is freed and the entry above still leads to it |
| `Asid!ResetForgetsAsids` | `virtual_memory.c:423` | when identifiers start again, no process loses its old one (more processes than identifiers) |
| `Asid!HighestAsidReserved` | `virtual_memory.c:436` | a process gets the identifier reserved for the kernel |
| `FilePages!InjectedFileIsLoaded` | `radix.c:25` | the key limit of the deepest tree is `1UL << 64`, which is 1: a second page is refused |
| `FileBytes!LoadedBytesAreThere` | `inode.c:69` | the last page of injected data is left blank when the data fills it, as the remainder of its size by the page is 0 |
| `ProcessTable!EveryLivePidFound` | `hashmap.c:35`, `process.c:20` | from the 514th process on a chain may lead through a leaf that was freed and used again: a process that exists is lost, or its lookup does not come back |
| `ProcessTable!RemovedPidIsGone` | `hashmap.c:46` | the leaf of a removed key stays in its chain and is found again |
| `ProcessTable!EveryProcessIsListed` | `list.c:44` | an item past the first section is lost, and a removal moves item `item_size - 1` instead of the last |
| `Descriptors!OpenedIdWorks` | `syscall/file_system/handler.c:26` | the id that open returns is looked up one entry further |
| `Descriptors!ReadDelivers` | `syscall/file_system/handler.c:133` | the bytes of a short chunk are counted and not copied to the user |
| `Descriptors!ResultsReachUser` | `interruptible/syscall.c:9` | no response is asked for, so the id of open and the counts of read and write never get to the user |
| `Kernel!ProcessChangeKeepsStack` | `process_handler.c:112` | `handle_async_trap` kills a process by changing to another while it runs on the kernel stack of the old one |
| `Kernel!FailedCopyReturns` | `trap/handler.c:112` | a page fault inside a user copy is handled from the top of the stack in use |
| `Kernel!HartIdIsSet` | `trap/handler.c:37` | `trapframe_parse` leaves the `hart_id` unset that chooses the idle process and the stack of the hart (`scheduler.c:71`) |
| `Kernel!TrapFindsProcess` | `process.c:75` | the third trapframe has no process pointer while interrupts are on |
| `Kernel!UserFaultIsNotFatal` | `parser.c:15` | the privilege level is read from a bit of `scause` that is never set |
| `Kernel!KillEndsOnlyTheProcess` | `list.c:50` | cleaning up a process panics in `list_remove` below seven processes |
| `Kernel!SoleProcessNotRepicked` | `trap/handler.c:35` | the only process is picked again at once, unlike the notes say; the better behaviour |
| `Scheduler!NotReturnedTwice` | `scheduler.c:46` | removal moves slots but neither start nor count (with `SpecWithRemove`); nothing calls it |

The models also have outcomes no text of the repository speaks against, and keep them
visible:

* The size of a file is the maximum with the new position plus the bytes written, which
  counts them twice (`file_descriptor.c:163-164`).  A read up to that size may meet a
  page that does not exist and stops the kernel; `ByteFile` allows both.
* Nothing keeps the lists of regions within their arrays of `MAX_MEMORY_REGIONS` entries
  (`pager.c:52-56`, `83-87`, `131-135`, `169-172`): the outcome is `PAST_MEMORY_REGIONS`.
* All but the first three entries of the node stack of the device tree parser are unset
  (`dtb.c:60-63`): a record with three nodes around it may be linked through a wild
  pointer, the outcome `WILD_POINTER`.
* `process_cleanup` frees two of the three trapframes and not the page of descriptors
  (`process.c:148-154`): the two pages are counted as `lost` in `ProcessTable`.  Tables
  below the root are not freed either; they are not counted.
* A range of `vma_replace_section` that begins at a multiple of the largest entry, or
  spans entries of two sizes, uses a table that is not there or writes over its own
  start.  No caller names one, and the notes call large pages unsupported.

## What is not modelled

* `bump_alloc`, `radix_remove`, `radix_delete`, `radix_iter`, `list_delete`, maps with
  strings as keys, and the removal of directory entries: nothing in the kernel calls
  them, so there is no way to say in which states they are called.  The driver manager
  likewise: the UART driver is chosen when the kernel is compiled.
* More than one hart: the kernel starts one.
* The ELF parser prints fields of a header and changes nothing; `device_tree_print`
  prints.
* UART output, panic messages, and string functions beyond what a lookup by prefix or by
  path needs: input and output, or functions a test covers directly.
* Boot code after the pager: it runs once in a fixed order, and each part's initial
  state is that part's `Init`.
* User programs: they make any trap at any time.
