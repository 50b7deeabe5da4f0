# libspe2: a TLA+ verification development

libspe2 is the library with which a program on the PowerPC side (PPE) of a Cell
processor creates, loads, runs and talks to programs on the synergistic
processors (SPEs).  The kernel offers an SPE as a directory of files (spufs);
the library adds what makes them usable from several threads: a table of open
files, event handlers, the run loop with its PPE-assisted library calls, the
older libspe 1.2 API of groups and SPE threads, mailboxes and DMA.

This directory holds TLA+ modules of the parts that keep state, TLC
configurations that check them on small instances, and TLAPS proofs of the most
important invariants for every instance.

    tlc -config SpeEvent.cfg MCSpeEvent      # one run
    tlapm SpeEventProofs.tla                     # one set of proofs

`PROJECT.json` is the index: components, runs, the source lines behind every
definition, mutants, findings, hazards and theorems.


## 1. The system

### Components

| Component | Source | State it keeps | Operations | Module |
|---|---|---|---|---|
| Event layer | `src/speevent/spe_event.c` | per context: two mutexes, the stop event pipe, its use counter, a one-place buffer, `events[]`; per handler: an epoll set | create/destroy handler, register, deregister, wait, run, stop info read, initialise/finalise | `SpeEvent` |
| Table of spufs files | `src/spebase/create.c`, signal part of `mbox.c` | `spe_fds_array[]`, `spe_fds_refcount[]`, one mutex per entry; the descriptor numbers of the process | open if closed, close if open, create/destroy | `SpeFds` |
| Groups and thread stores | `src/libspe12/spethreads.c`, `spe.c` | list of groups, members, sizes, `deleteMe`, thread stores | create group/thread, wait and cleanup, destroy group | `SpeGroups` |
| Thread control | `src/libspe12/spe.c` (`do_spe_run`), `spethreads.c` (`spe_kill`, `spe_get_event`) | `stop`, `killed`, `event_pending`, a lock and a condition, an event slot and an event pipe | run, stop, continue, kill, deliver and receive events | `SpeThread` |
| Inbound mailbox | `src/spebase/mbox.c` | mailbox registers, lock of `FD_WBOX` | write with three behaviours, mapped or through a file | `SpeInMbox` |
| Streams of C99 calls | `src/spebase/default_c99_handler.c` | `spe_FILE_ptrs[]`, `nr_spe_FILE_ptrs`, a mutex, all of the process | fopen, tmpfile, freopen, fclose, and 30 operations that use a stream | `C99Files` |
| Formats of C99 calls | `src/spebase/default_c99_handler.c` | of one call: the list of arguments, the temporaries | parse the format, build the list, call the C library, copy the temporaries | `C99Format` |
| Run loop | `src/spebase/run.c` | stack of runs of a thread (breadcrumbs for the debugger), entry point, stop info, isolation | run, serve a library call, leave isolation | `SpeRun` |
| Table of library calls | `src/spebase/lib_builtin.c` | `handlers[]` | register, deregister, look up | `SpeRun` |
| Proxy DMA | `src/spebase/dma.c` | MFC registers, `active_tagmask`, lock of `FD_MFC` | put/get, tag status in three behaviours | `SpeMfc` |
| Outbound mailboxes, status | `src/spebase/mbox.c` | two mailboxes, the lock of `FD_MBOX` and the file of the interrupting one | read, in three behaviours | `SpeOutMbox`; signals in `SpeFds` |
| Contexts and gangs | `src/spebase/create.c`, `accessors.c` | mappings, gang directory | create, destroy | `SpeContext`; file table in `SpeFds` |
| libspe2 API | `src/libspe2.c` | none | argument checks; dispatch between event layer and base layer | create, destroy, load in `SpeContext`; the rest with the layer it calls |
| Program loading | `load.c`, `elf_loader.c`, `image.c` | local store contents, entry point, cached loader | load, open and close image | `SpeContext`; the copy of segments planned |
| POSIX.1 calls | `default_posix1_handler.c`, `handler_utils.h` | errno; mappings and directory streams of the process for SPE programs | 65 calls of the system or the C library | `Posix1Calls` |
| LIBEA calls | `default_libea_handler.c` | blocks on the heap of the process for SPE programs | malloc, calloc, realloc, posix_memalign, free | `LibeaCalls` |
| Information queries | `info.c` | none | counts sysfs directories | not modelled: pure I/O |
| libspe 1.2 mailboxes, DMA, ps areas | `src/libspe12/dma.c`, `ps.c` | none | look the thread up, call the base layer | not modelled: wrappers |
| elfspe, spu-tools, Ada binding | `src/elfspe`, `src/tools`, `src/ada` | - | - | not modelled: programs and declarations outside the library |

### How they interact

* An application thread calls the API; most calls run to their end in that
  thread.  The library creates no thread of its own, except that
  `spe_create_thread` of libspe 1.2 starts one that executes `do_spe_run`.
* `spe_context_run` (event layer) calls `_base_spe_context_run` (run loop) and
  then hands the stop info to the readers of `spe_stop_info_read`, through a
  buffer or, while some handler is registered for it, through a pipe.
* The run loop serves library calls by calling a handler from `handlers[]`; the
  C99 handler works on a table of streams that all contexts share; a handler of
  the application may run another context.
* Mailbox, signal, DMA and event calls get their spufs file from the file
  table, or work on the mapped registers when the context has `SPE_MAP_PS`.
* libspe 1.2 is a layer above: its thread store holds a context, and its calls
  find the store in the lists of groups.

### What is hard

1. **Interleavings.**  Two mutexes of the event layer; a descriptor captured
   under a lock and used after it; a flag (`stop`) and an event slot shared
   without the lock; tables (`handlers[]`, the C99 streams) without any.
2. **Asynchronous cancellation.**  `spe_kill(SIGKILL)` cancels a thread that
   may hold a lock or be half through delivering an event.
3. **Lost wake-ups.**  `pthread_cond_wait` without a predicate.
4. **Resources and counters.**  A pipe that is opened by the first user and
   closed by the last one, a file counter that counts successes only, a full
   stream table, descriptor number 0, a group at its maximum.
5. **Partial failure.**  A mask of several event sources of which one fails; a
   mailbox write that fails half way; `freopen` that closes and then fails; the
   creation of a context, a dozen steps of which each may fail; a load that
   leaves half its parameters in the mailbox.
6. **Blocking.**  A writer on a full pipe, a blocking mailbox write, a blocking
   tag query, each of which must not take along those who could end the wait.
7. **Two machines in one call.**  The SPE program and the C library lay out the
   arguments of one format differently, and a long has two sizes.  A pointer of
   the PPE goes to the SPE program in two words and comes back; a null pointer of
   the SPE program is, once converted, the address of its text; each call tells
   of a failure in its own way.

What makes each component correct:

* *events*: the pipe is open exactly as long as someone uses it, no stop info is
  lost while a handler is registered, nobody blocks the reader;
* *files*: no descriptor is leaked, closed twice, or used after it was closed;
* *groups*: sizes agree with lists, a live thread is found, a dead one is not, a
  marked group goes;
* *threads*: `SIGKILL` ends the thread, `SIGCONT` resumes it, every event is
  received once and in order;
* *mailboxes*: no word is overwritten, skipped or repeated, none is taken by two;
* *library calls*: pointers come back as they were, failures are seen as what they
  are, and nothing is cut to fit without notice;
* *contexts*: whatever fails, nothing is left behind or released twice, and a
  context starts at the program in its local store;
* *formats*: the C library gets what its format asks for, within the memory
  allocated, and its results reach the SPE program;
* *streams*: a program keeps the stream it opened, nobody passes NULL on;
* *run loop*: result and stop info agree, isolation is left, nested runs unwind;
* *DMA*: commands are whole, a reported tag has really completed.


## 2. The modules

Every module has one action per handler or per step of a handler.  A critical
section is one step where the code makes a single access to the state, and
several where it makes several; whatever is done outside a lock is a step per
access.  `pc` holds the place of a thread within its call (`rpc` in
`SpeOutMbox`, `place` in `SpeThread`); `"idle"` means that it is in none.
`SpeOutMbox` and `SpeThread` have names of their own for what every module has
(`OutSpec`, `OutTypeOK`, `ThreadSpec`, ...), so that their proofs can stand beside
those of `SpeInMbox` and `SpeGroups`.  Operators whose name has the form `Action_Variant` and whose
comment begins with *Mutation* are not part of any specification: they are
plausible bugs, by which the properties are tested.

### SpeEvent, StopChannel

One context, any number of threads and handlers.  `lock` and `stop_lock` are
`evctx->lock` and `evctx->stop_event_lock`; `pipe`, `content`, `handler_count`
and `buffer` are the stop event pipe, what it holds,
`stop_event_handler_count` and `stop_event_buffer`.  `interest` is the set of
registrations the kernel keeps in the epoll sets, `events` the entry per source
that the code overwrites.  `RegisterBegin/Lock/Source/StopLock/Acquire/Epoll`
are the parts of `spe_event_handler_register`, `Deregister...` those of its
counterpart, `RunBase` to `RunRelease` of `spe_context_run` after the base
layer has returned, `WaitEpoll` and `WaitCopy` of `spe_event_wait`, `ReadLock`
and `Read` of `spe_stop_info_read`.  `fd[t]` is the pipe end a run captured
under the lock; `pipe_close` makes it `"stale"`, so a write to a descriptor
that was closed, and perhaps given to another file, is visible.  A stop info is
named by the thread whose run left it.

`StopChannel` says what all that is for, with neither lock nor counter: a slot
with the last stop info, or, while open, a bounded queue that cannot be closed
under a poster.  `SpeEvent` implements it under the mapping `mode` = whether
the pipe is open, `slot` = buffer, `queue` = contents of the pipe, `posting` =
the threads that captured the write end.

### SpeFds

The table of one context and the numbers of the process: `file[n]` is what the
kernel has behind number `n`.  `Open`, `OpenReturn` and `Close`, `CloseClear`
are the two halves of `_base_spe_open_if_closed` and `_base_spe_close_if_open`:
the number is returned after the unlock, and the entry is cleared after the
close.  `refcount` starts with *any* value in `InitialRefcounts`, since the
memory comes from `malloc` and is not set.  `sane` is a history variable: the
counters started at zero, and every open succeeded with a positive number.

### SpeContext

The life of contexts and of a gang over `libspe2.c`, `create.c` and `load.c`.
`held` is what the heap and the kernel keep for a context, `field` what its
struct says, from which alone `free_spe_context` knows what to give back; the
areas of the problem state are `"own"` mappings or `"part"` of one.  `MallocSpe`
to `SetSigNotify2` are the steps of `_base_spe_context_create`, each with its
failure, `InitializeEvents` the layer above; `Finalize` and `Destroy` undo them.
`Load` to `Loaded` are `_base_spe_program_load`, with `Params` and `WriteParam`
for the three words of an isolated program.  `emulated_loader_program` is three
steps: its static is tested, set and returned without a lock, by creation and
load alike.  `ld_info` is the uninitialised local of a load.

### SpeGroups

The lists of libspe 1.2.  `members[g]` has the newest thread first, as the code
inserts at the head, and `CleanupRemove` removes as `remove_thread_from_group`
does: the only member without a look, of several only a successor of the head.
`deleteMe`, the size check of `spe_setup` and the thread store are accessed
outside the mutex and have steps of their own.  A store's life is `none`,
`running` or `unstarted` (`pthread_create` failed), `ended`, `freed`.

### SpeThread

One thread of `do_spe_run` against several callers of `spe_kill` and one of
`spe_get_event`.  A condition wait is three steps: `*_sleep` releases the lock,
`*_wait` is left on a signal (`cond_signal`) or, since POSIX lets
`pthread_cond_wait` return without one and the code tests nothing afterwards,
by itself (`SpuriousWake`), `*_wake` takes the lock again.  An event is three stores (slot, data, pipe), and receiving it three
loads, in the order of the code.  `Cancelled` may happen at any step; a thread
cancelled in a wait takes the lock first and dies with it.

### SpeInMbox, BoundedBuffer

`_base_spe_in_mbox_write` by several writers, mapped (`Lock`, `Space`,
`PutWord`, `Unlock`, `PollOpen`, `Poll`) or through the file (`File...`).  A
writer that waits opens the file first (`PollOpen`) and does not look at the
result: if that fails it polls the descriptor -1, which `poll()` passes over, and
stays in `"deaf"` until a signal ends the call (`PollInterrupted`).  A store to a full
mailbox would overwrite the last entry, as in the hardware.  `BoundedBuffer` is
the abstract specification.

### SpeOutMbox

The consuming side: several readers of the outbound mailbox, mapped
(`_base_spe_out_mbox_read`: the count is taken once, under the lock of `FD_MBOX`,
and the words one by one) or through the file, and of the interrupting one, always
through its file, with the three behaviours of `spe_out_intr_mbox_read`.  The
words taken so far stay with the reader until its call returns; a load from an
empty mailbox would give an old word, as in the hardware.

### C99Files

The table of streams and its counter; `ptrs[i]` is `spe_FILE_ptrs[i]`, and
`get_FILE` the rule that indices 1 to 3 lead to the standard streams unless they
were replaced.  `tmpfile` does not take the mutex, and its increment of the
counter is a load and a store.  All operations that leave a stream open are one
pair of steps: get the stream under the mutex, use it without.  (`puts` calls the
C library and never looks at the table.)

### C99Format

One call of the printf or scanf family.  A format is a sequence of directives
(width, precision, suppression, length modifier, conversion), an argument is
named by its place in the call, and addresses are those of the SPU ABI: sixteen
bytes per argument, with the frame of the caller between those that were passed
in registers and those on the stack.  `CountArgs` is `__nr_format_args`,
`ParsePrintf` and `ParseScanf` a round of the parsers' loops with what their
switch puts on the list (`Pass`, `PassPointer`, `PassTemp`), `Library` the C
library, which may stop after any directive, `Copy` is `__copy_va_temp`.
`Takes`, what ISO C says the library takes for a format, is the reference that
the list is compared with.  Both ABIs of the PPE are one parameter, `abi`, which
`PpeAbi` declares for all handlers.

### LsCall, Posix1Calls, LibeaCalls, LibraryCalls

The other library calls are one step each.  `LsCall` has what their handlers
share: words (`Base` values, 2^32 in the program), pointers of the PPE in two of
them (`ToWords`, `FromWords`, which cuts on the 32-bit ABI), `errno` of the
thread, `live`, the blocks, mappings and directory streams of the process, and
`pointers`, those the SPE program has.  `last` is the last call: what the C
library did (`outcome`), the words and the errno that were stored as its result,
which arguments were null, and through which was written.

`Posix1Calls` sorts the calls that return an int by what their handlers do with
pointers and results (`Out`, `Tested`, `Writes`): files, processes and clocks
belong to the kernel, any outcome is possible, and two calls of one sort differ
in nothing that is modelled.  Vectors (`check_conv_spuvec`, whose entries have any length of a word and whose
sum wraps around on the 32-bit ABI), `getcwd` and the calls with pointers of the PPE (`mmap` to `mremap`, `opendir` to `telldir`) are
actions of their own; a `munmap` that fails leaves its mapping, a `closedir` that
fails has released its stream.  `LibeaCalls` has the heap: a size has two words, `Fits` is
the test on the 32-bit ABI, and `realloc` is three actions: the pointer the code
hands to the C library is the one it was given (`ReallocRight`), another one
(`ReallocAstray`, since the low word was stored over the high one), or none
(`ReallocRefused`, whose result was never set).  `astray` says that the latter
two, or a failed `mremap` on the 32-bit ABI, gave or took a pointer that nobody
has; behaviours are not followed past that.

`LibraryCalls` puts the handlers of all three libraries into one specification:
an SPE program makes one call with a format, or any sequence of the others.

### SpeRun

The loop of `_base_spe_context_run`.  `frames[t]` is the stack of runs of a
thread, `active` and `prev` are the breadcrumbs.  How `spu_run` may return is a
set of records (`Stops`): the bits of the status, the class of the stop code, a
reported exception, the number of the library call.  `Verdict` is the chain of
tests after `spu_run`, in their order.  Of the program counter three places
matter: the start of the program, the word of parameters behind the stop of a
library call, and an instruction behind a stop.  `handlers[]` is read twice for
a call (`Lookup`, `Fetch`) and written without a lock (`StoreHandler`).  It starts
with the three `Defaults`: the classes of C99, POSIX.1 and LIBEA calls, whose
entries are 0, 1 and 5.  Registration treats the calls below `RESERVED`, 4, as
reserved, so that 2 and 3 are reserved and always empty, and LIBEA has a handler
that may be taken away.

### SpeMfc

Issuing a DMA command is five stores to registers (`PutStore` four times,
`PutIssue` or `PutRefused` for the last one), under the lock of `FD_MFC`.
`active_tagmask` is initially arbitrary (it is never set), updated with an
exclusive or by `Read`, and read *without* the lock when the caller passes the
mask 0; `seen` is the value such a reader may still get.  Only contexts with
`SPE_MAP_PS` are modelled; otherwise each call is one system call.


## 3. The runs

| Run | Configuration | Question | Bounds |
|---|---|---|---|
| `event` | `MCSpeEvent`, `SpeEvent.cfg` | is the pipe handled correctly (`StopCount`, `WriterHasPipe`, the refinement `ImplementsChannel`), and does every call return (`CallsReturn`) | 2 threads of which one runs the context, 2 handlers, masks with one and two sources, pipe of 1 |
| `fds` | `MCSpeFds`, `SpeFds.cfg` | no descriptor lost, closed twice or used closed | 3 threads, a signal file and a mailbox file, numbers 0, 3, 4; opens may fail; counters start at -1, 0 or 1 |
| `groups` | `MCSpeGroups`, `SpeGroups.cfg` | are sizes and lists consistent | 2 callers, 1 shared group and 2 single-thread groups, 3 threads, 2 members |
| `groups_freed` | `SpeGroupsFreed.cfg` | (violated) is a freed thread out of its group | 1 caller, 1 group, 3 threads |
| `context` | `MCSpeContext`, `SpeContext.cfg` | is nothing lost or released twice, does a context start at its program | 2 contexts, a gang, 4 sets of flags (one per way through creation and load), 2 programs, a mailbox of 3, every failure |
| `thread` | `MCSpeThread`, `SpeThread.cfg` | does `SIGKILL` end the thread, is a `SIGCONT` for a reported stop never lost; by an application that answers each event: is each received, once and in order | waits that end by themselves; 2 callers with all three signals, 2 runs of the program, both kinds of application |
| `in_mbox` | `SpeInMbox`, `SpeInMbox.cfg` | is the mailbox a bounded buffer, no word skipped, does every write return | 2 writers, 2 calls of up to 2 words each, depth 2, failures anywhere |
| `c99_files` | `MCC99Files`, `C99Files.cfg` | does every program keep its own streams | 2 programs, a table with 2 free places, 2 files, every failure |
| `out_mbox` | `SpeOutMbox`, `SpeOutMbox.cfg` | is each word taken once and in order, are as many read as promised, does every read return | 2 readers with 3 calls of up to 2 words, both mailboxes, failures anywhere |
| `library_calls` | `MCLibraryCalls`, `LibraryCalls.cfg` | do arguments, results, pointers and errors pass between the SPE program and the C library | every format of up to 2 directives with every conversion, length, width and precision, 2 arguments in registers; every sequence of POSIX.1 (one of each sort) and LIBEA calls with up to 2 blocks, mappings or streams, words of 8 values; both ABIs |
| `spe_run` | `MCSpeRun`, `SpeRun.cfg` | stop info, breadcrumbs, isolation and library calls | 2 threads, an isolated and an emulated context, runs nested twice, a reserved call with a default handler (0), one without (3), and a default that is not reserved (5) |
| `spe_mfc` | `MCSpeMfc`, `SpeMfc.cfg` | are commands whole and reports true, does every call return | 2 threads with one command each, 2 tags, a queue of 1 |

### What each property says

* **event.** `StopCount`: the counter is the number of registrations,
  orphans and threads that use the pipe right now, so no failing path forgets
  or doubles a reference.  `WriterHasPipe`: the number captured under the lock
  names the pipe when `write()` uses it later.  `ImplementsChannel`: the
  refinement of section 2; in particular (`StopInfoKept`, proved, and checked by
  `SpeEventStop.cfg` with three threads) nothing leaves the pipe except through a
  read, in order, while a handler stays registered.  `CallsReturn`: only a run
  may stay blocked, in `write()`, and it returns too if the others go on reading;
  a full pipe blocks no reader, registration or deregistration.
* **fds.** `NoLostFile` and `ClosesOwnFile` hold for *any* initial counters and
  failures; `SaneUsesOwnFile` (a signal write never uses a closed or reused
  number) only in a sane context, see section 5.
* **context.** `Accounted`: the fields of the struct say exactly what there is to
  give back, at every step; `EntryIsLoaded`: after a load that succeeded, entry
  point and local store belong to the same program, whatever loads failed before.
* **groups.** `Membership`: removing one thread takes no other along, and the
  size, on which unguarded list walks rely, is right; the `Own...`
  properties hold for groups that `spe_create_thread` made for a single thread,
  and fail for shared ones (section 5).
* **thread.** `KillEnds` and `ContWakes`, although waits may also end by themselves;
  `GetEventReturns`, and `EventsInOrder` as long as no wait with an event did
  (section 5), for an application that answers each event.
* **in_mbox.** `ImplementsBuffer`; `WordsArrive`: each word arrives in order, once
  unless a call failed (one that fails half way reports no word and is
  repeated); `BlockingWrites`: the number returned is what
  `spebase.h:475-482` promises for each behaviour; `WritesReturn`: a blocking write
  if the SPE program reads, unless it could not open the file to wait on (section
  5), the others even if it never does.
* **out_mbox.** `WordsTakenOnce`: the words of all readers and the mailbox are what
  the SPE program wrote, each once, and in order for each reader, but for those a
  failed blocking read had taken; `ReadsEnough`: a read returns as many words as
  its behaviour promises; `ReadsReturn`: a blocking read if the SPE program
  writes, the others in any case.
* **library_calls.** `ArgumentsPassed`: every entry of the list has the place, size
  and extension the C library expects, taken from the right argument;
  `FitsAllocated`: the estimate suffices; `ResultsStored`.  `PointersComeBack`:
  after any mix of calls the SPE program holds exactly what the process has for
  it; `BlocksBigEnough`: and no block is shorter than it asked for;
  `ResultsSeen`: a failure is seen if and only if there was one, with its own errno;
  `WritesInside`: nothing is stored through a null pointer.  The last two except
  what the code does otherwise, by name (section 5).
* **c99_files.** `OwnStreams`, `NoLostStream`,
  `CountsStreams`, the last one up to an exactly stated drift: a failed
  `freopen` leaves a place free but counted, a closed standard stream is taken
  off though it was never counted.
* **spe_run.** `BreadcrumbsFollowRuns`; `ReturnMatchesStopInfo`, also where an
  isolated program leaves its isolation first; `ReservedCallsServed`: a reserved
  call that has a default finds a handler at both reads of the table, one that has
  none is never served.
* **spe_mfc.** `WholeCommands`, `ReportsCompleted`, `CallsReturn`.

### Why the bounds are enough

Each protocol here is about two or three parties: a registering thread, a
deregistering thread and a run (in `event` one thread is the first two, with a
second handler that can keep the pipe open; `SpeEventStop.cfg`, a larger instance
of some minutes, has all three at once); two users of a file and a third
that reuses its number; a waiter, a creator and a destroyer of a group, of which
two callers show every pair; two writers of which one meets the other's partial
write.  Every queue is so small that it fills and empties (pipe, mailbox,
command queue, stream table), the calls together need more room than the
mailbox has, and each counter
passes its boundary (0 to 1, and back).  Three members are needed to take a
middle one out of a list, and the `groups_freed` run has them.  Contexts share
only the gang and the cached loader, so two show every pair of steps, and with
two programs a load meets what an earlier one left.  A mailbox of 3 words holds
one set of parameters, the 4 of the hardware one and a first word that blocks
(`SpeContextDocs.cfg`).  In a format, what one directive leaves to the next is
the place in either list; two arguments in registers put the frame between any
two neighbours (`C99FormatThree.cfg` has three directives of fewer kinds).  A word of
8 values has a negative half and an address has both words, one of them 0, or only
the low one.
Where a proof
exists (section 4) the bounds do not matter.

The bounds that are not resources of the system: `MaxOrphans` (registrations
left behind by destroyed handlers), `MaxRefcount` (a file that is never given
back is counted up for ever), `MaxRuns`, `MaxCount` and `MaxCalls`,
`MaxCommands`, `OutCalls` and `OutCount` (reads and words of a read),
`MaxBlocks`, `MaxLength` (directives), `MaxImages` (openings of the cached
loader), `MaxDepth` (nested runs), `MinNr` (how far closing standard
streams takes the counter down).  `MaxMembers` and `SPE_FOPEN_MAX` are limits of
the code with smaller values.  The `CONSTRAINT NotRaced` of `C99Files.cfg` cuts
behaviours after `tmpfile` has overlapped with another change of the table:
nothing is claimed from there on, since two programs may then share a place.

### Fairness

No thread is ever obliged to *make* a call, except in the premise of a property
(`CallsReturn` of a run and `WritesReturn`: somebody reads; `ReadsReturn`: the SPE
program writes).  A thread *inside* a call keeps
running: weak fairness would be enough but for locks and full queues, which are
free again and again without staying free.  A thread that waits for one is
granted it in the end, which is strong fairness of the thread's steps
(`SF_vars(Step(t))`): a POSIX mutex and a pipe wake their waiters.  In
`SpeThread` the program of an SPE (`RunBase`) is not fair, for it may loop, nor is
`SpuriousWake`, on which nobody may rely;
asynchronous cancellation is delivered (`SF_vars(Cancelled)`).  In `SpeMfc` the
hardware completes each command (`WF`) and does not refuse one for ever
(`SF_vars(PutIssue(t))`).

### Deadlock

Deadlock is checked, except where the system may stop: in `SpeGroups` the
application may have used all its threads; in `thread` everybody may be
blocked on a lock or a pipe that a killed thread left behind (section 5); in
`SpeInMbox` and `SpeOutMbox` the calls are bounded; in `C99Files` and `SpeRun` a crash, when a
program passes NULL on, ends the process; a call with a format ends, and so does what is
followed of a program that went astray.

### Assumptions

* In `SpeInMbox` any system call may fail, but a thread whose calls fail for ever
  is not obliged to return: fairness is of the steps that succeed
  (`Progress(w)`).  A failed open before a wait is not among these failures: it
  ends in the place `"deaf"`, which `WritesReturn` names.
* Checks of arguments that return at once and change nothing (a null pointer, a
  count below 1, an unknown behaviour, a tag, `tid` or `rid` out of range) are left
  out where nothing that is modelled depends on them.
* One `malloc` is taken to succeed: that of a list element of a group.
* At most one thread waits for an SPE thread, and nobody calls `spe_kill` on a
  store that is being freed.  A context is not destroyed while it is in use
  (nothing in the library guards against it).
* `regs.c` fills the start registers and cannot fail.  `issue_isolated_exit`
  cannot fail either, as `SPE_ISOLATE` implies `SPE_MAP_PS` and creation fails
  without the mapping it needs.
* The kernel and the hardware: epoll, pipes, spufs files, mailbox and MFC are
  modelled from how `src/` uses them, and marked external in the map.


## 4. The proofs

All theorems are of the form `Spec => []P` or `Spec => Abstract!Spec`, for
every value of the constants that the named assumption of the module admits
(finite sets of threads, and `None` outside them).

**SpeEventProofs.**  None of `StopCount`, `WriterHasPipe` is inductive alone: that
the writer's pipe stays open rests on the counter being positive, that on the
counter being *exactly* the number of users, and that on nobody else changing
it between two accesses in a critical section.  The invariant joins mutual
exclusion of both locks, the counter, *the pipe is open iff the counter is
positive*, the home of the stop info, and the state of each captured
descriptor.  `TypeCorrect`, `StopCountHolds`, `WriterHasPipeHolds`,
`RegisteredHasPipeHolds`, `OneHomeHolds`, `StopInfoKeptHolds` follow, and
`Refinement`: each step is a step of `StopChannel` or a stutter.  The counting
steps use the finite-set theorems of the library.

**SpeFdsProofs.**  Two invariants.  `TableInv` relates the table to the
numbers and needs nothing of the counters: an entry holds a number exactly
while its file is open, except for the moment between close and clear, when
its lock is held.  `NoLostFileHolds` and `ClosesOwnFileHolds` rest on it.
`UseInv`, under the hypothesis `sane`, adds that the counter is the number of
holders, from which `RefcountIsHoldersHolds`, `UsesOwnFileHolds` and
`ClosedWhenUnusedHolds` follow.

**SpeMboxProofs.**  Of the inbound mailbox: the free entries a writer counted are
still free (`Counted`), because only the holder of the lock adds words and the SPE
program only takes them away.  `Refinement`: the mailbox implements
`BoundedBuffer`.  `WordsArriveHolds` needs the history of all words ever stored,
read or not, as one sequence (`Words`): each word that a call has stored
(`Sent`) is there (`Arrived`), of two neighbours of one writer the second is the
next word unless a call of his failed (`InOrder`), and what he stores next
continues his last word (`Continues`).  `BlockingWritesHolds` is about steps, and rests on the same
invariant.  Of
the other direction: a reader who counted entries finds them, since he is the
only one who takes words while he has the lock (`EntriesThere`).  `Once` is the
conservation of words: the program's words, cut where they are, are in the
mailbox, with one reader, or lost, no two of these places share one, and those
with a reader and those in the mailbox are sorted pair by pair (`Sorted`, which
appending and taking the head preserve, where "increasing" over neighbours would
need induction).  `WordsTakenOnceHolds` and `ReadsEnoughHolds` follow.

**SpeMfcProofs.**  `Stores`: the registers up to the one stored last hold parts
of the command of the thread inside the lock.  `Covered`: every command under
way has its tag in `active_tagmask`, and, unless its thread is still inside the
call, also in the value that a reader without the lock may see.  Hence a
thread that asks for every active tag asks for all of its own commands
(`Asked`), although it reads the mask without the lock, and the exclusive or in
the reader only removes tags that have no command.  `WholeCommandsHolds` and
`ReportsCompletedHolds` follow.

**SpeContextProofs.**  The invariant is a conjunction over contexts (`Part`), and
most steps touch one: `PartStays` says that the others keep theirs, so each of
the thirty steps is proved for the context that takes it.  `AccountedFor` is
`Accounted` of one context at *every* place of the creation, not only
where it has failed; it rests on `Fields`, what the struct says before
anything is mapped.  `Image` relates the local of a load, the local store and
the entry between the steps that set them.  The gang is separate, as nothing a
context does changes it.  `AccountedHolds`, `EntryIsLoadedHolds`.

**LibraryCallProofs.**  Streams: `Clean` holds as long as no `tmpfile` overlapped with another
change of the table: what belongs to somebody belongs to one, is open and in one
place (`Ownership`), a handler works on what is its own or on a free place
(`Use`), and the counter is the number of occupied places, less the one that
`tmpfile` has not counted yet (`Count`).  `Overlap => raced` makes the absence of
overlap available to each step: it is what replaces the mutex that `tmpfile` does
not take.  `OwnStreamsHolds`, `NoLostStreamHolds`, `CountsStreamsHolds`.

Formats: `Tracks` compares the list at each directive with `TakesTo[pos]`, what
the C library takes for those parsed so far: entry by entry the same size, place
and extension (`Matches`), every temporary with an entry and an object of its own
(`OwnTemps`), and `next_arg` at the argument behind them, on the right side of the
caller's frame.  `DirectiveFollows` is the lemma under it: whatever a directive
takes, the parser adds it.  That the list fits (`Within`) holds for `L` as well:
the first *n* entries end within *8n* bytes, and a directive adds at most three of
them, as many as the estimate counts for its "%".  `Between` is what the library leaves to the copy of the
temporaries.  `TakesTo` and the totals of a vector's lengths (`Totals`) are recursive
functions; that they are defined for every length is proved by induction on a *set* of numbers
(`SetInduction`), which follows from the least element of one (`WFMin`), so no
theorem with an operator as parameter is needed.  `ArgumentsPassedHolds`,
`FitsAllocatedHolds`, `ResultsStoredHolds`, for formats of any length and any
number of register arguments.

Calls: `Memory` says that no two blocks, mappings or streams have an address in
common, that every address fits in a pointer of the ABI, and that the SPE program
holds the two words of each and no other.  `ComesBack` (`FromWords` undoes
`ToWords` where the address fits) makes a pointer lead to one thing, so a call
that gives one (`Gain`) or takes one (`Drop`) keeps `Memory`.
`PointersComeBackHolds`, and `BlocksBigEnoughHolds`, which also holds of programs
that went astray.  `ResultsSeenHolds` and `WritesInsideHolds` are proved call by
call (`IntReported`, `PointerSeen`); for vectors they rest on the sums that
`check_conv_spuvec` compares, none of which wraps on the 64-bit ABI before it is
refused (`TotalFits`); on the 32-bit one the C library refuses a total that did.

**SpeRunProofs.**  A context runs at most once (`Distinct`), so that the single
entry `prev[]` of a context is enough for the stacks of all threads.  `Reserved`
says that no reserved call with a default is without handler *nor about to be*,
and that one without a default has none, not even in the register of a thread
that stores without a lock; `Serving` carries this over the two reads of the
table.  `Live` is the state of a run that has no result yet: an
isolated program is in isolated mode, and a stop info that was left says
`EXIT` only if the exit from isolation was requested.  `BreadcrumbsHold`,
`ReturnMatchesHolds`, `ReservedCallsHold`.

**Libspe12Proofs.**  Groups: what a caller works on exists, although it does so outside
the mutex (`Work`, `Exist`); the counter of a group is the length of its list, which has no
thread twice, none of another group, and every thread in use (`Lists`); and a
group for a single thread has no other, so that the removal without a look takes
out the right one (`Single`), the group can be found as long as its thread is there
(`Findable`), and a mark outlasts the last member only until the caller at work
comes to its end (`Marked`).  `MembershipHolds` and the three `Own...` theorems
follow.  Threads: for an application that answers each event, the thread
goes on only with an answer of its own (`Answers`), unless a wait with an event ended
by itself, after which nothing is claimed; so all events but the latest one
were received (`Order`): without it slot and pipe are empty (`Quiet`), and it is
in each of them from its store until its load (`Latest`).  Hence the three stores
of the thread and the three loads of the reader never meet for two events, though
no lock covers them, and `EventsInOrderHolds`.

**Only model-checked.**  All liveness properties (TLAPS does not reason about
fairness and `ENABLED`): `CallsReturn`, `WritesReturn`, `ReadsReturn`,
`KillEnds`, `ContWakes`, `GetEventReturns`.  Every invariant and action property of
a passing run, the type invariants included, is proved; so is `ClosedWhenUnused` of
`SpeFds`.  The statements of section 5 that the code breaks have no theorem.


## 5. Where the code and its documentation disagree

`groups_freed` is part of the runs.  `remove_thread_from_group`
(`spethreads.c:175`) compares only the successors of the head of the list.  The
newest of several threads is the head, so waiting for it first leaves its store,
freed by `spe_cleanup`, in the list; a second `spe_wait` then finds freed memory
instead of failing with `ESRCH` as `spethreads.c:591` says.

These further configurations check statements of the documentation, and
TLC finds a behaviour that breaks it.  They are run by hand in the same way.  Of
a configuration with several properties TLC reports the first that is broken;
take it off the list to see the next.

| Configuration | Property | Statement | What happens |
|---|---|---|---|
| `SpeEventDocs` | `WaitReportsOwn` | `tests/libspe2.event/test_event_stop.c:194` uses the data of an event to find its own parameters | `events[]` has one entry per context and source; a second handler overwrites it (`spe_event.c:351`), and a deregistration by either clears it |
| `SpeEventDocs` | `WriteNeedsHandler` | "don't write stop info to the pipe if no stop event handler is registered" (`spe_event.c:591`) | the test is whether the pipe is open: a handler destroyed without deregistration, or another run, keeps it open |
| `SpeFdsDocs` | `UsesOwnFile` | "Put some sane defaults into the SPE context" (`create.c:199`) | `spe_fds_refcount` is never set; with a negative rest of memory a signal file is closed under a second writer |
| `SpeFdsDocs` | `UsesOwnFile` | "mutex to protect members" (`spebase.h:62`) | after a failed `openat` the signal write still gives a reference back, another thread's |
| `SpeContextDocs` | `AreasComplete` | "Map the required areas into process memory" (`create.c:296`) | of five areas mapped one by one the mssync area is not checked (`create.c:338`) |
| `SpeContextDocs` | `SignalModes` | "Configure the Signal Notification 1 Register to be in 'logical OR' mode" (`spethreads.c:450`) | `setsignotify` notes that its `write` failed and returns 0 (`create.c:88`) |
| `SpeContextDocs` | `LoaderOpenedOnce` | "The loader binary is cached between calls" (`load.c:138`) | the static has no lock, so two first uses open it twice (`load.c:145`) |
| `SpeContextDocs` | `LoaderGetsParameters` | "Send the isolated app loading parameters to the SPE" (`load.c:63`) | after a failed second or third write the first words stay in the mailbox and shift the next parameters (`load.c:83`) |
| `C99FormatDocs` | `LongDoublePassed` | "SPE C99 library operation, per: ISO/IEC C Standard 9899:1999" (`default_c99_handler.c:1040`) | the modifier `L` is not skipped, so `%Lf` takes no argument and shifts the rest |
| `C99FormatDocs` | `UnconvertedKept` | the same | on 64 bits a temporary that the library did not assign is copied over the SPE program's object (`default_c99_handler.c:302`) |
| `SpeGroupsDocs` | `MarkedGroupGoes` | "it will be destroyed after the last SPE thread has ended" (`spethreads.c:343`) | a member that was the head is never removed, so the group stays |
| `SpeGroupsDocs` | `GroupLimit` | "cannot exceed the group maximum" (`spethreads.c:424`) | the size is compared without the mutex, and with `==` |
| `SpeGroupsDocs` | `RunningIsFound` | `ESRCH` "could not be found" (`spethreads.c:591`) | a group destroyed between search and insertion takes the new thread along |
| `SpeThreadFairDocs` | `ContResumes` | "SIGCONT Resume execution" (`spethreads.c:655`) | a `SIGCONT` before `pthread_cond_wait` is lost, and the wait has no predicate |
| `SpeThreadDocs` | `StopIsKept` | "SIGSTOP Stop execution" (`spethreads.c:654`) | `stop` is cleared after the lock was released (`spe.c:201`) and wipes out a new `SIGSTOP` |
| `SpeThreadDocs` | `InOrder` | "SPE events are delivered in the order received" (`spethreads.c:296`) | with two events pending the one-place slot reports the newer one first |
| `SpeThreadDocs` | `AnsweredInOrder` | the same | the wait for an answer has no predicate (`spe.c:263`): when it ends without a signal, as POSIX permits, the thread goes on unanswered, and its next event takes the place of the one before |
| `SpeThreadDocs` | `EventData` | "SPE events have associated data" (`spethreads.c:298`) | the slot is set before the data |
| `SpeThreadFairDocs` | `KillReturns` | "On success, 0 is returned" (`spethreads.c:657`) | a stopped thread that is killed dies with `event_lock` |
| `SpeThreadFairDocs` | `ReadReturns` | "timeout value in milliseconds" (`spethreads.c:745`) | a thread killed between slot and pipe leaves the reader in a blocking `read` |
| `SpeThreadDocs` | `ExitIsSeen` | "WNOHANG Return immediately if the SPE thread has not exited" (`spethreads.c:568`) | a cancelled thread never gets the status 99 |
| `SpeThreadDocs` | `TermSignal` | `WTERMSIG` "the number of the signal" (`spethreads.c:581`) | the status of a killed thread says `SIGILL` |
| `LibraryCallsDocs` | `GetcwdRefusesNull` | "Do not support a NULL buf" (`default_posix1_handler.c:1597`) | the test looks at the size, so the path is stored over the text of the SPE program |
| `LibraryCallsDocs` | `ReallocFollows` | "'ptr' and 'ret' (returned) are treated as 64b EA pointers" (`default_libea_handler.c:140`) | the low word of the pointer is stored over the high one, and the other stays unset (line 155); the result of a refused size is not set either |

What the properties of `library_calls` except, without a statement to hold it
against: `time`, `wait` and `waitpid` store through a null pointer; `mremap` does
not convert `MAP_FAILED`, so that on the 32-bit ABI its failure looks like an
address; `lseek` and `time` are cut to an int; at the end of a directory `readdir`
passes on the errno of an earlier call.  `utime` and `utimes` take a null pointer
for times at address 0, and `adjtimex` stores no result unless the clock's state
is 0.

`ReservedKept` of `SpeRun` ("registering a handler to call zero and one is
ignored", `spebase.h:572`) is stated but in no configuration: an update of a
reserved call replaces its handler.

`AllWritesReturn` of `SpeInMbox` ("block until the write request is satisfied",
`spebase.h:476-478`) is checked by putting it in the place of `WritesReturn` in
`SpeInMbox.cfg`: a blocking write to a full mapped mailbox whose
`_base_spe_open_if_closed` fails polls the descriptor -1 (`mbox.c:135` and `161`)
and stays there although the SPE program has emptied the mailbox.

The passing runs state what does hold next to these: `SaneUsesOwnFile` beside
`UsesOwnFile`, the `Own...` properties of groups, `ContWakes` beside
`ContResumes`, `EventsInOrder` for an application that answers each event and waits
that end only when they are signalled, `WritesReturn` beside `AllWritesReturn`.


## 6. The plan

The order follows what matters most to a user of the library: what is shared
between threads first, then what is sequential but intricate.

Done: events, files, groups, threads, both directions of mailboxes, streams, run
loop, all library calls, proxy DMA, contexts and gangs, formats, and proofs of
every safety property of theirs that a run checks.

Next, in this order:

1. **Compositions**: `SpeRun` with `SpeEvent` (stop info from the loop to the
   reader), `SpeRun` with `C99Files` (a handler of one run using the streams).
2. **SpeElf**: the copy of ELF segments and of the overlay table, as algorithms
   compared with a reference definition.

Not modelled: sysfs queries, elfspe, spu-tools and the Ada binding, which keep no
state that threads share.
