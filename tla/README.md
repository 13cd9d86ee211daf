# Verification of the ECE344 labs

TLA+ models of the libraries and programs of this repository, the TLC runs that
check them on small instances, and TLAPS proofs about all of them: every safety
property and every refinement that a run checks is also a theorem.

## 1. Inventory

The repository is a set of independent programs in C. They share no code, and
do not call each other.

| part | source | state it keeps | operations |
|---|---|---|---|
| **wut**, user-level threads | `wut/src/wut.c` | `TCB_ARRAY`, `MAX_THREAD_NUM`, `THREAD_NUM`, `CURRENT_RUNNING_THREAD_ID`, the ready queue `Q_head`, the contexts | `wut_init`, `wut_id`, `wut_create`, `wut_cancel`, `wut_join`, `wut_yield`, `wut_exit` |
| **vms**, virtual memory | `vms/src/{vms,mmu,pages,page_table,pte}.c` | `allocated`, `ref_track`, the memory (page tables and data), `root_page_table` | `vms_new_page`, `vms_free_page`, `vms_set_root_page_table`, `vms_read`, `vms_write`, `vms_fork_copy`, `vms_fork_copy_on_write`, `page_fault_handler` |
| **ssp**, process supervisor | `ssp/src/ssp.c` | `processes`, `unknown_processes` and their sizes; the kernel's children | `ssp_create`, `ssp_get_status`, `ssp_send_signal`, `ssp_wait`, `ssp_print` |
| **pht**, hash tables | `pht/src/hash-table-{base,v1,v2}.c`, `pht-tester.c` | buckets, list nodes, mutexes; the tester's loops | `create`, `add_entry`, `contains`, `get_value`, `destroy`; the tester's `main`, `run_v1`, `run_v2` |
| **hello-ext2**, disk image writer | `hello-ext2/src/ext2-create.c` | `hello.img`, the offset of its descriptor; what earlier runs left | one run: truncation, 17 writes, each after a seek or another write |
| **tps**, process lister | `tps/src/main.c` | none | reads `/proc`, prints (not modelled) |
| debugging-practice, hello-kernel | 19 and 17 lines | none | |

How the parts interact with what is around them, and what is hard there:

- **wut** is called by the threads it schedules. Threads are cooperative, so a
  call is atomic, but `wut_join`, `wut_yield` and `wut_exit` switch stacks in
  the middle, and the rest of `wut_join` runs an arbitrary number of calls
  later, with a TCB pointer from before. Slots are reused, queue nodes are
  freed and replaced, and four fields (`join_`, `join_from_`, `join_to_`,
  `block_`) say redundantly who waits for whom. Correct means: no thread is
  lost or run after its end, joins return the final status of the thread they
  name, ids stay with those who wait for them, first come first served.
- **vms** is called by a client that builds page tables itself with the setters
  of `pte.c`. The MMU calls `page_fault_handler` in the middle of a read or
  write. Copy-on-write shares data pages among any number of spaces;
  `ref_track` must count that exactly. Correct means: spaces are private
  memories, no page is lost or handed out twice.
- **ssp** races with its children and the kernel: a child ends, stops, is
  adopted, and a pid is reused between any two system calls. Correct means: the
  status of each process is its own, found once, kept, never lost; a signal
  reaches the process it was meant for.
- **pht** runs `THREADS` POSIX threads on one table. Correct means: additions
  are atomic, no key is there twice or missing, everything terminates, and
  nobody is inside the table when it is counted and destroyed, even if a thread
  cannot be created.
- **hello-ext2** writes one file system by system calls of which each may fail,
  be cut short, or be the last before the process is killed; the file it writes
  to may hold an older image. Correct means: a run that gets to its end leaves
  a consistent file system. The structures are written apart and say the same
  things redundantly: bitmaps, free counts, block and inode numbers, link
  counts, lengths of directory entries; and one of them is longer than its block.

`PROJECT.json` lists the hazards, each at its line, with the properties that
cover it.

## 2. Modules

| module | what it is |
|---|---|
| `Wut` | `wut.c`, one action per library call (and one for the rest of `wut_join`) |
| `Scheduler` | what wut promises: threads, results, one queue; no ids, slots or flags |
| `MCWut` | the clients of the runs of `Wut` |
| `WutProofs` | proofs: types, ids, links and statuses of `Wut`, for every client |
| `WutCareful` | proofs: what `Wut` guarantees a client that cancels with care |
| `WutRefinement` | proof: `Wut` implements `Scheduler` |
| `Vms` | the five files of `vms/src`, one action per call |
| `AddressSpaces` | what vms promises: memories that share nothing |
| `MCVms` | addresses, permissions and the view of the runs of `Vms` |
| `VmsProofs` | proofs: the five invariants of `Vms` |
| `VmsRefinement` | proof: `Vms` implements `AddressSpaces` |
| `Pht` | the three tables, the tester's threads and its `main` |
| `KeyValueMap` | what a table promises: atomic additions to a map |
| `MCPht` | the strings and threads of the run of `Pht` |
| `PhtProofs` | proofs: the safety properties of `Pht`, and that it implements `KeyValueMap` |
| `Ssp` | `ssp.c` and the kernel under it, one step per system call |
| `SspProofs` | proofs: the safety properties of `Ssp` |
| `Ext2` | `ext2-create.c`, one step per system call, and the file under it |
| `Ext2Proofs` | proofs: the image that a completed run leaves, and the properties of `Ext2` |

The proof modules hold no model: each extends the module it is about, and the
TLC runs do not need them.

The parts are independent programs, so no module composes two of them.
Composition is between the program and what is around it: the client in `Wut`
and `Vms`, the kernel in `Ssp`, the threads in `Pht`, the file and its earlier
writers in `Ext2`. In `Wut`, `Vms` and `Pht`
the detailed module instantiates the abstract one (`Sched`, `Spaces`, `Map`)
with a refinement mapping, and the abstract specification is a property of the
runs.

### Wut

Variables have the code's names. `heap` maps the address of a TCB to its
fields; addresses are numbered in the order of allocation. `TCB_ARRAY` holds
addresses, so that a TCB may outlive its slot as it does in the code. A queue
node is named by the TCB whose `thread_in_q_` points to it; "the old node is
freed while it is linked" is then `Queued(t)`. A context is the thread whose
stack it is on and, inside `wut_join`, the local `join_thread`. `cpu` is the
context that executes: it differs from `CURRENT_RUNNING_THREAD_ID` only if the
code confuses them, which is the point of keeping both.

Undefined behaviour ends the process with an outcome of its own:
`crash_null_tcb` (`wut.c:283`), `crash_empty_queue` (`wut.c:298`),
`crash_own_stack` (`wut.c:377`), `crash_null_context` (a context that
`wut_cancel` freed), `corrupt_queue` (a linked node freed), `out_of_bounds`
(`wut.c:233` with `id` = `MAX_THREAD_NUM`). Calls that return at once without
effect are not steps.

`Calls` says which calls each thread's function makes. `CarefulCancel` restricts
the client to the cancellations that are safe (`CancelIsSafe`): the target is
not a thread whose `block_` is stale, and the joiner of the target is not being
joined itself. The two situations left out are the two defects that
`wut_cancelled_runs` and `wut_lost_wakeup` show; that there is no third is what
the passing run shows for four threads and `WutCareful` proves for any number.

### Vms

A physical page is its index. Its 4096 bytes are used as page-table entries or
as ints: the model keeps both views, since `memset` and `memcpy` act on both.
A virtual address is its three indices, and the ints of a page that the client
uses are `Offsets`. The bits of an entry are the set of its flags and a page
index; shifts and masks (`page_table.c`, `pte.c`) are abstracted.

The walk of `copy` is given as what it computes: `NewPage(n)` is the n-th free
page, and each table and data page gets the free page whose number is its
position in the preorder of the walk (`Before`). The changes to the original
(`W` cleared, `C` set), the duplicate and `ref_track` are one action, since
nothing runs in between. `page_fault_handler` is an operator (`Handled` is its
effect on memory) used by the write that faults.

The client maps pages as the tests do: it takes fresh pages and writes the
entries, one page in one place. It frees a page only when a single entry maps
it, and clears the entry. It sets neither permissions above the last level nor
the custom bit. In this discipline a fault above the last level is always
fatal, and so is a read fault.

### Pht

The steps of a thread are those that another thread could observe: `lock`, the
search, the update of a value, the link of a new node (`next` is read from the
head), its publication (the store to the head), `unlock`. `trylock` among the
mutants shows that the split matters. Nodes are named by the global index that
the tester adds, and a list pointer stands for the nodes it leads to. v1 and v2
share their actions and differ in `MutexOf`. `main` fills the base table alone,
then both others with threads; if a thread cannot be created it returns, with
the others anywhere in the table (`pthread_create_fails`).

### Ssp

The kernel keeps every child so far with its state, its wait status and an
unreported stop or continuation. `waitpid` and `kill` act on the child that has
the pid at that moment; the ghost field `proc` of a `sub_process` is the child
it was created for. The wait status is an int encoded as `<sys/wait.h>` does,
because the code applies the macros to the wrong int at `ssp.c:111` and to an
uninitialised one at `ssp.c:162` (`HeapBytes`). `QuietPrint` keeps supervised
children from ending while `ssp_print` runs: that is the defect of
`ssp_lost_status`, which would also put `SignalReachesOwn` at risk, since a
child reaped there frees its pid with its status still unknown.

`OtherIds` are ids that the client passes without a process of that id; ids are
those of the code plus 1, so 0 is the -1 that `ssp_create` returns when `fork` fails.
`ssp_get_status` refuses them all. `ssp_send_signal` refuses only those that are too
large: its guard (`ssp.c:118`) tests `process_num < 0` where `ssp_id < 0` must be
meant, and a negative id leads to `kill(processes[ssp_id]->pid, signum)` in front of
the array. The model gives this the outcomes it can have: the signal strikes nobody or
any of the children (`send_signal_wild`), or the supervisor ends (`send_signal_crashes`).
So a signal for a negative id may reach a process that nobody named, and
`SignalReachesOwn` excepts these ids and no others (without the exception TLC finds it
violated in the second state): a client must test what `ssp_create` returned. The
other properties hold whatever such a signal does.

The client is taken to have no signal handler that interrupts a system call:
with one, the `waitpid` of `ssp_wait` (`ssp.c:128`) may fail with `EINTR`, and
`ssp_wait` goes on to the next process with the status of this one unknown.

### Ext2

`main` is the sequence of the system calls of a run, put together by operators
with the names of the C functions; `pc` is the place in it. A file is its size
and the sequence of the writes that reached it. What is in it at an address
(`Read`) is the last write that touches the bytes asked for, if it begins there
and is long enough; `zeros` if there is none; and `mixed` if a later write
reaches into it. So an overlap, a short write or a rest of an older image is
found where it matters, without modelling bytes. `ftruncate` cuts the writes.

The properties read a completed image as a file system does: from the superblock
to the descriptor, from there to bitmaps and inodes, from inodes to blocks and
entries. They are about runs that return from `main` (`Completed`): after a
short write `errno` is 0, so `errno_exit` ends the process with status 0 over a
part of an image (`short_write`).

## 3. Runs

| run | instance | shows |
|---|---|---|
| `wut_careful` | 4 threads, all calls, array of 2 that grows, fairness | no lost wake-up; nothing terminated runs; joins return terminated threads; no node or context freed in use; ids kept; refinement of `Scheduler`; a join whose target has ended goes on |
| `wut_any` | 5 threads with roles, any cancellation | types; the thread table; links; status final |
| `vms_cow` | 1 address, 11 pages, 3 spaces | types; `ref_track` exact; fresh pages zero; refinement of `AddressSpaces` |
| `vms_trees` | 2 addresses in different tables, 14 pages, 2 spaces | writable pages private; pages accounted; refinement |
| `pht` | 3 threads, 3 entries each, 3 keys, 2 buckets | mutual exclusion; keys once; none missing; destroyed unused; refinement of `KeyValueMap`; termination |
| `ssp` | 3 children, 2 pids | array room; `ssp_wait` learns all; statuses own and final; unknowns foreign; signals reach their own unless the id is negative |
| `ext2` | any number of runs over three sizes of old file | every structure whole; blocks, inodes and links accounted; entries tile their blocks |

Runs that TLC must find violated, each a defect of the code:

| run | what happens |
|---|---|
| `wut_cancelled_runs` | `wut_exit` wakes a joiner and leaves its `block_` at 1. Cancelled later, the joiner is taken for a blocked thread, stays in the ready queue and runs on. |
| `wut_lost_wakeup` | A joins B joins C. Cancelling C clears `join_` of B (it means C's). B's exit then wakes nobody, and A is lost. |
| `wut_last_exit` | A created thread that calls `wut_exit` last unmaps its own stack in `clear_global`. |
| `ssp_lost_status` | A child ends after the status loop of `ssp_print`; `waitpid(-1)` reaps it, its pid is known, its status is dropped. |
| `ssp_signal_status` | `ssp_get_status` takes the signal from the old status -1: 255 for every signal. |

### Bounds, and why they are enough

- **Threads** (`MAX_CREATED`). Every relation in `wut.c` is between a thread, the
  thread it joins and the thread that joins it: three. The fourth thread is a
  bystander in the queue, which order and refinement need. With
  `INITIAL_MAX` = 2 the array doubles, slots are reused and then grown over.
  Five threads in `wut_any` have roles, which keeps the chain of two joins with
  a canceller and a bystander and cuts symmetric duplicates.
- **Exit values**: 0, and one that the mask changes (-1 or 256).
- **Pages**: 11 pages hold three spaces with one copied page and one more, and
  run out in some orders and not in others; 14 hold both trees of two spaces.
  A third space is what makes `ref_track` reach 2 and a fork of a fork.
  `NUM_PTE_ENTRIES` = 2 and addresses that differ at the first index give tables
  with one used and one skipped entry. Two addresses in `vms_trees` make the
  preorder of the new pages matter.
- **Hash tables**: three threads so that one waits while another is inside and a
  third is in another bucket; two of the keys share a bucket, and
  every string is added by two threads or more.
- **Children**: a pid must be used by a first child, reaped, and used by a second
  while a third lives: three children on two pids. `MAX_UNKNOWN` keeps foreign
  children from being stopped for ever; it bounds stops only, so ends are always
  recorded. `OtherIds` has an id below all others and one above them. The arrays start at size 1 and grow twice.
- **Old files**: none, one smaller than the image and one larger, besides all that
  stopped runs leave. The number of runs, the calls that fail, and the lengths of
  short writes are not bounded; since a run begins by cutting the file to 0, the
  states are finite.
- **Views**. `vms` runs drop `got`: no action reads it, so it decides no
  successor, and it is checked in the step that sets it (the refinement is
  evaluated on steps). States of an ended process are merged by its outcome in
  `vms` and in all passing runs of `Wut`: only `Halted` follows, the invariants say
  of an ended process which outcome it had, and what they say of memory they say
  of running processes. `JoinerResumes` counts an ended process as an answer.
- Deadlock is checked everywhere: an ended program stutters in `Halted`,
  `Exited` or `crashed`, and the supervisor of `Ssp` may always make another call.

### Fairness

- `Wut` (in `wut_careful`): `WF_vars(Next)`. There is one processor; the kernel runs the process
  and no thread computes for ever without a library call. Nothing is assumed of
  *which* thread runs: that is the library's doing.
- `Pht`: weak fairness of `main` and of each thread. A thread that waits for a
  mutex is passed finitely often only, since each thread adds finitely many
  entries, so weak fairness is enough. Nothing is assumed of calls that fail.
- `Vms` has one thread and no obligation to go on. For `Ssp` no liveness is
  claimed: a child may run or stay stopped for ever, and `ssp_wait` then blocks.

## 4. Proofs

TLC checks small instances; the theorems below hold for every value of the
constants that `ConstantsAssumption` of the module allows. Where a theorem needs
more of the client or the kernel, that is an `ASSUME` of the theorem, and a
violation run shows that it is needed.

| module | theorems | assume besides |
|---|---|---|
| `WutProofs` | `TypeCorrect`, `SlotsAlwaysConsistent`, `LinksAlwaysLeadToThreads`, `StatusAlwaysFinal` | |
| `WutCareful` | `WakeupsNeverLost`, `TerminatedNeverRunAgain`, `JoinsReturnTerminated`, `FreedAlwaysUnlinked`, `IdsKeptForJoiners` | `CarefulCancel` |
| `WutRefinement` | `LibraryImplementsScheduler` | `CarefulCancel` |
| `VmsProofs` | `TypeCorrect`, `CountersAlwaysExact`, `FreshPagesAlwaysZero`, `WritableAlwaysPrivate`, `PagesAlwaysAccounted` | |
| `VmsRefinement` | `ImplementsAddressSpaces` | |
| `SspProofs` | `TypeCorrect`, `UnknownsAlwaysForeign`, `StatusAlwaysFinal` | |
| | `WaitAlwaysLearns`, `StatusAlwaysItsOwn`, `SignalAlwaysReaches` | `QuietPrint` |
| `PhtProofs` | `TypeCorrect`, `BucketsExclusive`, `KeyAlwaysOnce`, `NothingEverMissing`, `AlwaysDestroyedUnused`, `TablesImplementMap` | |
| `Ext2Proofs` | `TypeCorrect`, `CompletedIsImage`, `StructuresAreWhole`, `BlocksAreAccounted`, `InodesAreAccounted`, `DirectoriesAreTiled`, `LinksAreCounted` | |

### WutProofs

`IInv` is the conjunction of the three invariants. None is
inductive alone. A step follows ids through `TCB_ARRAY`, so the type of the new
heap needs that the entry is not NULL (`LinksLeadToThreads`); that an id is not
NULL after the array changes needs that entries are only replaced or added
(`SlotsConsistent`); and the range of what is stored is `TypeOK`. `GoodHeap` is
what every assignment to existing TCBs preserves; one lemma per assignment shows
it (`EntryAssigned`, `StatusAssigned`, `JoinedReset` are those for one field), and
one lemma per action lifts it to `IInv'`. `CreateStep` is the long one:
the search finds a slot (the array has one that was never used after `resize`),
and slots stay without a gap. `StatusKept`, the action property, is proved beside
`IInv'` by the same lemmas.

### WutCareful

The five properties relate the redundant fields of `wut.c`, and none is inductive.
The strengthening is `Waits`, one relation (`World`) between the array, the heap,
the ready queue, the running thread and the TCB it joins: the queue has no
thread twice and only live ones that wait for nobody (`Distinct`, `QueueReady`);
every live thread is in the array under its id, on its own context (`Indexed`);
who waits is held by a live thread, and the fields of both say so (`WaitersHeld`);
a live thread whose fields say that it is joined has such a joiner (`JoinedHeld`);
a thread that is joined keeps its slot
(`Reserved`) and has one joiner (`Single`). Every operation has a lemma about
`World` and one that lifts it to `Waits'`. `World` takes the running thread as a
parameter, and NONE for it, because `wut_join`, `wut_yield` and `wut_exit` first
put the running thread aside and then start another. The invariant is
`CInv == IInv /\ Waits /\ FreedIsUnlinked`.

`CarefulCancel` is needed: without it `Waits` fails in the two ways of
`wut_cancelled_runs` and `wut_lost_wakeup`.

### WutRefinement

Each library call is one step of `Scheduler` (the two cases of `wut_cancel` both
are `Kill`), and every other end of the process is `Halt`. `Scheduler` finds the
threads that wait for one that ends by looking at all of them; the code follows
`join_from_`. `WaitersAre` derives from `World` that the two sets agree.
`RemoveFirstIs` says the same of `TAILQ_REMOVE` and the removal from a sequence.

### VmsProofs

`IInv == Forest /\ Counted /\ Types`.

- `Forest(m, R, A)`: the pages `A` in use are the forest that the roots `R` lead to in
  memory `m`. Each page in use has one home: it is a root, the table behind one
  entry of one root, or the data page of one address, which any number of roots
  may share. Every page in use is reached; entries above the last level are
  plain; entries that share a page have the same flags, and none has the write
  bit (`SharedAlike`); pages not in use are zero.
- `Counted(m, R, ref)`: `ref` is, for each page, the number of entries through which
  it may be written, at once or after a fault, besides the first.

`RefTrackExact` is not inductive: that the handler's test of `ref_track` is right
needs that a custom entry's page is shared by custom entries only. `PagesAccounted`
needs the homes, since a step changes one entry of one table and must be shown to
change nothing under the other roots. `LeafEffect`, `LeafPut` and `LeafTaken` say
what a change of one last entry does to the forest, and `Table1Added` and
`Table2Added` what a new table does; the client and the handler are these.

`copy` is the long case. `PlacesDiffer` and `BeforeTotal` show that the preorder gives
every duplicated path another place, so `Duplicate` is an injection into the free
pages (`DuplicateIs`); with it `CopiedMemory` is what it looks like
(`CopiedMemoryIs`). `NewTree` and `OldTrees` say what the duplicate and the originals
are afterwards, `ForestForked` puts them together, and `CountedForked` counts the new
writers: one more for each shared page, which is what `CopiedRefTrack` adds.

`Forest` quantifies over the homes of all pages, which TLC cannot enumerate: the
runs check its consequences, the five properties, and the proof checks `Forest`
itself.

### VmsRefinement

A space of `AddressSpaces` is `Held[root]`: what the root's entries let the program
read and write, a custom entry counting as writable. `CellIn` is one cell of it as
a function of memory; a step that changes one entry or one page changes one cell
(`OneChanges`), because who else leads to the page is known: nobody, for a page
with the write bit (`WriteMaps`) or one that the handler finds unshared or has
just taken (`FaultMaps`). A copy-on-write fork changes no cell of the original
though it clears its write bits, and the new space reads the same pages
(`CopyMaps`). An access is fatal only where the space does not permit it
(`FatalMaps`): the walk reaches every mapped entry, and every custom entry that may
be read is repaired. `client_unmap` of an address that was mapped without
permissions is a stutter.

### SspProofs

`Base` holds however children end: types and ranges, that a pid is that of one child
until it is reaped (`PidsUnique`), that the processes are the children of
`ssp_create` (`Own`), what a wait status says of the child (`Ends`), and
`UnknownsAreForeign`, which follows from no other. `Found` is inductive beside it
under `QuietPrint`: a supervised child is reaped exactly when its status is recorded
(`Recorded`), and what the loops of `ssp_wait` and `ssp_print` have passed stays so
(`Loops`). The first is what `ssp_lost_status` violates. `SignalReachesOwn` follows:
the kernel gives a pid away only after the child is reaped, so a process whose status
is unknown still has its pid. A kill is
for a process or for a negative id (`InRange`), which the property excepts; what the
latter does to the children disturbs nothing else, since `KillKept` is about any
children that are struck. `Kept` describes what a step does to the children
(whom it reaps, who may end), so that each conjunct is shown once for all steps.

### PhtProofs

`IInv` adds to the types where main and the threads are
(`Phases`), that a thread inside holds the mutex of its key and no other is held
(`Locks`), that the thread which is going to insert has seen its key absent and
its node linked to the list that is still there (`Lists`), and that what was
added, or found for an update, is present (`Kept`). `KeyOnce` alone is not
inductive: an insertion keeps it only because no other thread changed the list
between the search and the publication, which `Apart` derives from `Locks`.
`Inserted` says what an insertion does to the lists, `EntryFound` that the
search returns a node exactly if the key is present; then one lemma per step.
That main counts nothing missing needs that every global index is some thread's
entry (`NodeIsIndex`, from the division lemmas).

For the refinement, a table maps to the function from keys to what `get_value` would return and the
number of additions that each thread has done. The instant of an addition is the
store of the value (`update`) or of the list head (`publish`); all other steps are
stutters, and `destroy` starts the next map. Beside `IInv` it needs that what the
search found is still true when the value is stored, and that the node to be
published has the value of its addition (`Holding`).

### Ext2Proofs

The only constant is the set of old files, so the theorems say: whatever the file
held, and however often runs stopped, a run that completes leaves a consistent
image. The proof has three parts.

- *What main is.* `main` is a concatenation of the calls of the C functions; the
  lemmas `InodeCalls` to `AllCalls` unfold it to three tables, written out once:
  the offset of `fd` before each call (`Fd`), how many writes are before it
  (`Done`), and where the writes are (`Place`). `Image` is the 17 writes of `main`
  at the addresses that follow.
- *What the file is.* `IInv` is the types and `ImageSoFar`: after the first truncation
  the file is empty, and from the second on, while the run goes on or once it has
  completed, it is exactly the writes of `main` so far, and the offset is that of the table.
  `Completed => hello_img is Image` alone is not inductive: it depends on what was
  there at each call before. A run that stops leaves `ImageSoFar` with nothing to
  say until the next run has truncated the file, which is why earlier runs do not
  matter (`TruncatedToNothing`: no write survives the cut to 0, however many there
  were). `CompletedIsImage` is the result.
- *What a file system reads in it.* `Apart` shows that no write touches a structure
  written before it, but for the end of the superblock, which lies behind its block
  and is overwritten by the descriptor; `ReadStructure` then gives what is read at each
  address, `ReadZeros` that the rest of the inode table is zero, and `ReadFrom` that what
  reads as a structure was written there. `TiledOffsets` is about any chain of entries
  that tile a block: the offsets that a walk of the block visits are theirs. From
  these, each property follows for the fixed image (`WholeStructures`, `WholeBlocks`,
  `WholeInodes`, `WholeDirectories`, `WholeLinks`).

The recursive functions of `Truncated` and `Offsets` are, to the prover, whatever
satisfies their equation. The proofs first exhibit a function that does (empty everywhere;
the rest of the chain), and then follow the equation by induction. The induction is
over the naturals and stated with a set for the predicate (`NatSetInduction`),
which follows from well-foundedness of `<`.

### Only model-checked

- Liveness: that joiners go on (`wut_careful`), that the tester terminates (`pht`).
  Fairness is `ENABLED`, which the prover does not reason about.

That is all: what else the passing runs check is proved. The bounds of the clients
(`MAX_CREATED`, `MAX_ROOTS` and the like) are constants, so the theorems hold for
each value of them. The layout of the image is not a constant: it is that of
`ext2-create.c`, and the theorems about it are about this layout.

No module declares a RECURSIVE operator.

## 5. Not modelled

- tps reads `/proc` and prints. It has one hazard, a process that ends while its
  line is read (`tps/src/main.c:30`); nothing depends on what it prints. The two
  toys have no state.
- hello-ext2: what a stopped run leaves behind, beyond that the next run
  overcomes it. No document says anything of it, though its superblock, written
  first, says "File system is clean" (`ext2-create.c:228`) and a short write
  ends with status 0. Times, owners, permissions, and the bytes that the last
  entry of the root directory takes from the stack behind its name.
- wut: memory that only leaks (old TCBs and stacks of reused slots).
- vms: bit layouts, and clients that alias pages by hand or free shared ones.
- ssp: what a child does between `fork` and `exec` (file descriptors), names,
  formatting; a `fork` that fails changes nothing. Failing allocations: `malloc` exits
  at once, but `size_increase` tests `arr` instead of `*arr` (`ssp.c:33`), so a failed
  `realloc` is noticed only by the crash of a later access. Clients with signal handlers.
- pht: argument parsing, string generation, failing allocations. Mutex calls and `pthread_join` fail only for arguments
  that the tester never passes. `get_value`, which nothing calls, is what the
  refinement reads.
- One comment differs from the code without effect: `hash-table-base.c:99-101`
  says a new entry goes to the end of the list, and it goes to the head.

## 6. Plan

All parts with state are modelled and checked, and their safety properties and
refinements are proved (section 4). Left:

1. The liveness properties stay with TLC.
2. Five hazards have no property (`PROJECT.json`, each with the reason): four are
   outcomes of the models (an array overrun, a NULL entry, uninitialised bytes, a short
   write) of which no document says that they may not happen; the race of tps is not
   modelled. That of `ssp.c:118`, a negative id, is the exception that
   `SignalReachesOwn` names; no document speaks of negative ids either.
