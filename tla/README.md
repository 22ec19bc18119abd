# tellurium-os in TLA+

A TLA+ model of the tellurium-os kernel and its compositor, checked with TLC
on small instances. Proved with TLAPS, for every value of the constants, are the
safety of the scheduler with joins and events, of the physical memory manager and of
the start of the cores, that the ring buffer is an atomic queue, that the page tables
implement address spaces, and the rectangle arithmetic of the compositor (section 4 has the
hypotheses). Paths below are relative to the
repository; `kernel/` is `src/kernel/` and so on.

## 1. The system

tellurium-os is an x86-64 kernel for several cores (`README.md` runs it with two)
with a small GUI environment on top of it.

| part | sources | what it does | status |
|---|---|---|---|
| Scheduler | `kernel/arch/scheduler.c`, `kernel/devices/lapic.c` | one ready list for all cores; timer and self-IPI handlers switch threads; yield, join, terminate | **modelled, proved** |
| Events | `kernel/sys/event.c` | threads wait in an event's listener table until another thread signals it | **modelled, proved** |
| Threads, processes | `kernel/arch/thread.c`, `process.c`, `cpu.c` | control blocks, contexts, pids and tids | partly: the life of a thread, what a creation maps |
| Physical memory | `kernel/memory/pmm.c` | next-fit search in a bitmap of frames | **modelled, proved** |
| Slab heap | `kernel/memory/slab.c`, `klib/kmalloc.c` | caches of 8 to 1024 bytes over frames | **modelled** |
| Virtual memory, ELF loader | `kernel/memory/vmm.c`, `kernel/apps/elf.c` | four-level page maps; segments of a program into one | **modelled**, page tables **proved** |
| Containers | `kernel/klib/` | ring buffer, vector, doubly linked list | partly: **ring buffer, proved** |
| Unix sockets | `kernel/sockets/` | bind, listen, connect, accept, send, recv over ring buffers and events | **modelled** |
| File systems | `kernel/fs/` | vnode tree, mounts, tmpfs, devfs, descriptor tables | partly: all but the spelling of paths and unused calls |
| System calls | `kernel/syscalls/`, `kernel/arch/syscalls.c` | open, read, lseek, mmap, fb_context | partly: all but the register shuffling |
| PS/2 devices | `kernel/devices/ps2.c` | interrupt handlers fill queues that readers drain | not modelled |
| Interrupt routing | `kernel/arch/idt.c`, `devices/ioapic.c`, `acpi/` | vectors, redirection table | **modelled** |
| Boot, timers | `kernel/arch/cpu.c`, `gdt.c`, `devices/hpet.c` | the start of the cores | partly: what the cores share, **proved** |
| Terminal | `modules/terminal.c`, `framebuffer.c` | ANSI sequences, cursor, scrolling | partly: in character cells |
| GUI windows | `libGUI/Window.cpp` and its subclasses | window tree, event routing | partly: what the compositor sees of them |
| Compositor | `libGUI/Compositor.cpp`, `Rect.cpp`, `Surface.cpp` | dirty and clip rectangles, blending | **modelled**, rectangles **proved** |
| User library | `libTellur/` | block-list malloc, device polling | not modelled |
| Serial port, PIT, MSRs, image files, C library, test application | `kernel/devices/`, `libTellur/ImageReader.cpp`, `flibc/`, `applications/` | port I/O, parsing, formatting | not modelled (section 5) |

How the parts interact: every thread, kernel or user, runs under the scheduler;
events are built on it, sockets on events and ring buffers, devices feed the GUI
through devfs reads; all kernel objects come from the slab heap, which takes frames
from the physical memory manager. The scheduler and events are therefore the core
of the model: what they promise is what the other components rest on.

## 2. Modules

### Scheduler

A core is always at one *place* (`at[c]`): in a thread's own code (`run`), in a
call of the scheduler, in an interrupt handler, or in the idle loop. Interrupts
are accepted at the places in `InterruptsOn` only, so that a place stands for the
interrupt flag too. Code between two places runs with interrupts off and touches
shared memory once or only under `ready_queue_lock`; it is one step.

| model | code |
|---|---|
| `current`, `next`, `frame` | `core_t.current_thread`; the local `next_thread`; the `ctx` a handler got |
| `ipi` | the cores whose self-IPI is pending |
| `ready` | the list between `head` and `tail`; `schedule_add_thread` of a linked thread cuts it, as the code does |
| `joined`, `joined_lock` | `joined_threads`, `joined_queue_lock` |
| `state`, `join_thread`, `yield_cause`, `yield_lock`, `context` | the fields of `thread_t`; `context` is the place the thread resumes at |
| `lapic_time_handler` | the timer; the PS/2 handlers end in the same way |
| `lapic_ipi_handler`, `save_context`, `schedule_next_thread`, `thread_entry` | the IPI handler in the steps another core can tell apart |
| `schedule_thread_yield`, `yield_return` | before the self-IPI, and after the switch back |
| `schedule_thread_join`, `join_locked` | up to `joined_queue_lock`, and under it |
| `schedule_thread_terminate`, `terminate_locked`, `wake_joined`, `terminate_yield` | up to the lock, one iteration of the scan per step, and the final yield |

Modelling decisions:

* The local APIC latches a self-IPI before the write that sends it completes, and
  the IPI vector is allocated after those of the timer and of the PS/2 devices, so
  a pending IPI is the next interrupt a core takes.
* `lapic_schedule_time(0)` stops the timer; an expired timer stays pending while
  interrupts are off.
* The idle threads of the cores are one token, `Idle`; they are never queued.
* `thread_destroy` frees nothing, so a terminated control block stays.
* `THREAD_BLOCKED` and `THREAD_DELAYED` are never assigned.
* `yield_cause`, an argument of `schedule_thread_yield`, is written by the caller's
  step: interrupts are off from there to the IPI and nobody else reads it.

### Event

Extends Scheduler with the listener tables, the event locks, `received_event` and
the locals of `event_wait` and `event_signal`. The scan of `event_signal` takes one
step per listener, and the state test of `schedule_notify` is apart from its
assignments. `num_listeners` is the number of slots that are not NULL. The result
of `attach_listener` is ignored, as in the code.

### Pmm

The frame allocator. `used` is the bitmap as the set of frames whose bit is set,
`cached_index` and `pmm_lock` are the code's; `pages`, `retried` and `found` are the
argument and the place of a core inside `palloc`. `Init` is `init_pmm` on one of
the maps in `MemoryMaps`: the size of the bitmap (`palign`), its place at the front of
the first entry that is larger (`IsHome`, `Carved`), and the bits of what is left.
Addresses count frames; bytes occur only in `palign`. An iteration of
`palloc_internal` is one step (`palloc_next`), or two when the pages are free
(`palloc_found`, `palloc_mark`), so that the lock is what keeps the test of the bits
true until they are set. `palloc_retry` is the restart from 0, `palloc_fail` the NULL.
`blocks` records what callers hold and `reserved` what was never free. Callers free
whole blocks, as `slab_free` does.

### ByteQueue, RingBuffer

`RingBuffer` is `klib/ringbuffer.c`, one byte per step under the ring's lock, with the
heads as unsigned integers modulo `HeadMod`. `ByteQueue` is what its users rely on:
reads, writes and size queries of a bounded FIFO that happen at once. The
refinement mapping `Pending` lets an operation take effect when it releases the lock:
before that, the bytes a writer has stored do not count yet and those a reader has
taken still do. The model covers capacities that divide the range of the heads, as
the 8192 of `unix_socket.c` does; for another capacity `read_head % capacity` would
jump when the head wraps.

### Slab

Caches with their three lists, slabs with their chunk lists, and blocks of whole
pages, under one lock per cache. `word0` is the first word of a page, where a slab
keeps its cache and a block its page count; the frame allocator behind it is the
next-fit search of `Pmm` as one step. `workload`, chosen in `Init`, says what callers
ask for and which pages others have taken. Two consequences of the code are in the
model and worth knowing: chunks freed into a full slab are not used again, since
`used_chunks` is never counted down; and a free into a slab with one chunk left
moves it once more into the list it is in, so that it is its own successor, drops the
slabs of the full list, and may leave a full slab in the partial list, where a walk
then does not end. Callers free whatever they hold. `slab_realloc` of a chunk that need
not grow returns NULL; its callers keep the chunk, and the heap does not change.

### UnixSocket

Sockets over queues that are what `ByteQueue` promises, and over events reduced to
how far each listener is into `event_wait` (listed, asleep, woken). `Signals` has the
outcomes of an `event_signal` with such listeners. What runs under one socket's lock
is one step, except in accept: it writes the client's peer and then its state without the
client's lock, and the client may look in between (`accept_peer`, `accept_state`). bind
has a step for the node, one for its `fs_data` and one for the socket. `bound` is the socket
the node leads to; connect reads it before it is set if it comes between the first two, and
send follows the peer of a socket that has none: the code goes through NULL there, and in
the model all threads stop (`Stopped`). A send keeps the peer it started with while it
waits. Addresses are left out, and `getsockname` only reads. Two threads whose `getpeername`
of the two ends of a connection meet wait for each other's lock for ever.

### Vfs, FileSyscalls

`Vfs` has the operations on the vnode tree as operators: lookup, create, open, close,
mount, and the tmpfs and devfs drivers. `FileSyscalls` is who calls them: kmain,
which mounts, loads the archive and starts processes, and the system calls of the
processes, with a step per call into the vfs, so that another process can run between
the lookup and the create of one open. New nodes lie in zeroed memory.
`create_user_process` may be called again, which is how there are two processes. Sizes
are modulo `SizeMod`, so that a read behind the end of a file, which `syscall_lseek` allows,
computes a length near the top of the range; a copy of that length leaves the memory there
is and the machine halts, as it does on a seek with the descriptor of a failed open, whose
vnode is NULL. `archive`, chosen in `Init`, may have entries that are not regular files;
the loader tests such a header again and again (`load_skip`) and the system does not come up.

### AddressSpace, Vmm

`Vmm` has the tables of four levels and every caller of `map_page`: boot, process
creation, `elf_load`, `mmap` and `get_fb_context`; a page is mapped per step. `Walk`
is what the processor finds in them. `AddressSpace` is what they promise: one upper
half, and a lower half for each process, changed page by page; `Vmm` refines it with
both halves read off by `Walk`. `mmap` and stacks are at the virtual address equal to
the physical one, programs are linked elsewhere, the framebuffer is at a fixed
offset: the instance keeps the three apart as the code's addresses do. `VmmAssumption` says
which half each lies in; no code checks it. `kmalloc` is `slab_alloc` for whole pages: it gives
out the lowest free run, and the page in front of it that holds the page count, mapped by
nobody, is left out. The kernel's top table is taken as cleared.

### IrqRouting, Boot

The start of the kernel up to kmain. `IrqRouting` reads a MADT (`init_acpi`, with the
tables that make it stop) and programs the redirection tables, one register per step.
`Boot` extends it with the start of the cores: device vectors are handed out and
their descriptors written as `init_ps2` and `ioapic_map_irq` do, then the bsp core
starts as many cores as ACPI counted, waits for as many as Limine has, and all of
them go through `core_init`: the shared TSS descriptor under `tss_lock`, two vectors
each, the calibration against the HPET under its lock, and `cores_ready`. Limine is
taken to list the cores that ACPI marks enabled or online-capable.

### Rects, Compositor

`Rects` is `Rect.cpp`. `Compositor` renders: dirty rectangles, drawing from front
to back with clip rectangles and blending, and the copy to the screen. Between two
renders windows are dragged, raised as far as their priority allows and hovered, and
the mouse moves, with the dirty
flags `Window.cpp` sets then; children lie inside their parents. A pixel is the list
of what was blended into it, which tells two orders of blending apart.

### Terminal

`kprintf` on several cores, a step per character or token. `paper` is the same text
on endless paper. The height is a multiple of the font's. `scroll_enabled` is not
initialised by `terminal_alloc`, so either value is possible. Tokens of an escape
sequence carry their separators; a sequence has at most `SeqMax` of them, so the
64 bytes of `ansi_sequence` are never filled. A 24-bit colour is one value. The
copy to the framebuffer and the glyph bitmaps are left out.

### SchedulerProofs, JoinProofs, EventProofs, PmmProofs, RingProofs, VmmProofs, BootProofs, RectProofs

The inductive invariants and the proofs (section 4).

### MC modules

Constants for TLC, one module per component that needs sets or records a cfg cannot
write. Their comments describe the instances. `MCPmm` has two memory maps and pages of two bytes, so that one
bitmap takes two pages and the other is placed in the second usable entry because
the first is too small. For the scheduler and events: cores `c1 c2`, threads `t1 t2 t3` (`t1` is kmain's thread),
events `e1 e2`, and the sets of calls a workload makes.

## 3. Runs

| run | instance | result |
|---|---|---|
| `scheduler_one_core` | 1 core, 3 threads, spawn, join and exit, 2 join slots | holds, 4,537 states |
| `join_two_cores` | 2 cores, 2 threads, joins | `NoJoinerLeftBehind` violated |
| `event_one_core` | 1 core, 3 threads, 2 events, spawn, exit, wait and signal, 3 listener slots | holds, 361,662 states |
| `pmm_two_cores` | 2 cores, 2 maps with 5 and 5 free frames, requests of 1 or 2 pages | holds, 72,592 states |
| `ring_buffer` | 2 threads, 3 bytes, heads modulo 6, up to 2 bytes per call | holds, 336,096 states |
| `slab_two_cores` | 2 cores, 2 caches, 9 pages, 4 objects held, 3 workloads | holds, 907,958 states |
| `address_spaces` | 2 processes, 81 pages in tables of 3 entries, 4 heap frames | holds, 8,002 states |
| `startup` | 1 to 3 cores, 1 to 3 I/O APICs, overrides, tables that are broken | holds, 20,544 states |
| `files` | 2 processes, 3 archives, 5 paths, 3 descriptors, offsets up to 4 | holds, 303,401 states |
| `socket_stream` | a server and a client, 4 sockets, 1 of them bound, rings of 2 bytes, 1 byte one way and 3 the other | holds, 229,390 states |
| `gui_compositor` | 9 windows and the mouse on 4 by 2 pixels | holds, 11,894 states |
| `terminal` | 2 cores, 2 by 2 cells, 3 rows of text | holds, 1,235,660 states |

What they show, and why the bounds are enough:

* **scheduler_one_core, event_one_core.** No thread is queued twice, lost, or left
  joined to a thread that is gone; a wait returns for its own event, at the place it
  slept; queued, joined and signalled threads run again. Three threads are the fewest
  with which a thread can be cut off behind another one in the ready list, two can
  wait for the same third one, and a signal can find two listeners. With two events the
  `received_event` of an earlier wait can be another than the one a thread waits for; that
  instance has no joins. That a join returns after its target's exit, and that no joiner is
  left behind, is so on one core only. Two join slots and
  three listener slots hold every thread that can sleep at once. A thread may wait,
  signal and be interrupted any number of times. Several cores without joins, and more
  threads and events on one core, are covered by the proofs of section 4.
* **pmm_two_cores.** A frame has one owner; the bits are exactly the reserved frames and
  the blocks; the bitmap itself is never handed out; NULL means that no run in front of
  the last frame is free (the loop's `<` never uses the last frame of memory); every
  `palloc` returns. Two cores race for a frame, two pages make a run that is too
  short; the heap fills up and is freed in every order.
* **ring_buffer.** The ring is a FIFO with atomic operations. Two bytes per call and
  three in the ring make writes that fit partly and reads that wrap; two turns of the
  ring bring the heads back to 0.
* **slab_two_cores.** No chunk or page has two owners, no page is lost or counted twice, and
  an allocation finds every slab that has room, until the memory is used up: also after the
  frees that move slabs into wrong lists (the departure `SlabMove` below). Callers
  ask for chunks of one cache, of both, or for blocks; chunks next to blocks are the
  departure `SlabStray`. A slab has three chunks, as the largest of the kernel's, so
  that every list is reached.
* **address_spaces.** Every process sees the kernel's half as the kernel does, also
  after a page of it is unmapped; every page of a segment that starts at a page has the
  rights its header asks for, from its loading on, and the pages are in a row; a user
  reaches memory that was given out for it, or the framebuffer. The program has a
  segment of two pages in two page tables, one of less than a page, and a header that is
  not to be loaded; another file is no program at all. Segments that start inside a page
  are the departure `VmmUnaligned`.
* **startup.** Interrupts arrive at their vectors after overrides; a core that
  schedules has its own TSS, vectors and handlers; what it measured is its own timer;
  and once the tables are accepted and give each interrupt an I/O APIC, kmain starts
  and every core schedules. With three cores, two race for the locks while the bsp core
  waits for them. The instance has pins 0 to 3 and devices on 1 and 3 instead of 1 and 12.
* **files.** The vnodes stay a tree; the applications are stored whole, up to the first whose
  length the loader rounds wrongly; a read at any offset up to the end gives what the
  archive holds there and nothing from behind the file's memory; a descriptor is of the node
  its path names although two processes create it at once; reference counts count the
  holders. Blocks of the archive and of tmpfs are two bytes, so that a file takes several.
  Reads and seeks of one or three bytes reach the offsets inside, at and behind the end.
* **socket_stream.** A socket that is CONNECTED has a peer, whatever it does while accept
  writes to it; every byte sent is in the stream of one socket, and those of a sender are
  there in the order it sent them. Four sockets let the server accept twice from one backlog,
  which hands out the same client again. Three bytes block a sender at a ring of two.
* **gui_compositor.** A render of the dirty regions leaves the screen, except under the
  mouse, as composing every window anew would. The two windows overlap, with opaque,
  half transparent and fully transparent parts; the taskbar, of higher priority, stays above.
* **terminal.** The screen is the end of the text on the paper, with scrolling on or off.
  Two by two cells wrap, scroll and go back over a row.

Beside these, the modules state properties that hold on the same instances and are
not part of the cfgs: the type invariants, `LapicListHolds`, `NoTssFault`, `KmainLast`,
`KernelMapped`, `LocksReleased`, `BackComposed`, `CursorDrawnOnce`,
`MessageStartsDefault`.

Deadlock is checked except in `files`, `slab_two_cores`, `address_spaces` and
`socket_stream`, where processes run out of descriptors, memory or things to send, or
sleep for a peer that is through.

### Fairness

A core never stops, so handlers and calls of the kernel are weakly fair.
`thread_switch` arms the timer on every switch and the local APIC keeps an expired
timer pending, so a core that accepts interrupts again and again is interrupted:
strong fairness for `lapic_time_handler`. A `palloc` goes on once it has the lock
(weak fairness of its steps). At the start every core runs and time passes: weak
fairness of the steps of each core and of the timers; each core takes each lock once,
so that weak fairness is enough to get it. Nothing is assumed of the code a thread
runs on its own; it may loop for ever or never exit.

### Where the code departs from its comments

**join_two_cores.** `schedule_thread_terminate` scans `joined_threads`, releases the lock
and only then yields; the thread is a ZOMBIE when its IPI is handled. A join on
another core in between finds neither a ZOMBIE nor a scan still to come, and sleeps
for ever, although the comment at `scheduler.c:220` promises that joined threads are
woken.

Further instances are kept for the same purpose: `tlc -config X.cfg M` ends with the
property violated. Those in parentheses are the instance of a run, with the property as
the only INVARIANT.

| cfg, module | property | what it shows |
|---|---|---|
| `SchedulerFull`, MCScheduler | `NoJoinerLeftBehind` | With all slots of `joined_threads` taken, `schedule_thread_join` (`scheduler.c:257`) yields without being in the table and is not woken (comment at `:220`). |
| (`SchedulerJoin2`), MCScheduler | `JoinReturnsAfterExit` | The joiner is runnable and queued at `scheduler.c:224`, the target a ZOMBIE only at `lapic.c:58`: on another core the joiner returns in between, while the thread it waited for still runs. |
| (`Event1`), MCEvent | `RefusedIsNotYetBlocked` | `schedule_notify` refuses not only a thread "not yet blocked" (`event.c:82`), but a listener an earlier signal has woken and that has not left the table; the listeners behind it are not looked at. |
| `EventResume2`, MCEvent | `ResumesInsideYield` | The IPI handler assigns WAITING before it saves the registers (`lapic.c:61`). A signal in between lets another core resume the thread at a place it left earlier, not at the wait of `scheduler.c:203`. |
| `SlabMove`, MCSlab | `FreeMovesFullSlab` | `slab_free_chunk` moves a slab "full -> partial" (`slab.c:160`) that is on the partial list, since `used_chunks` is not counted down; it becomes its own successor. |
| `SlabStray`, MCSlab | `HeadersIntact` | The NULL at the end of a slab's "chunk freelist" (`slab.c:79`, written at `:88`) is the first word of the next page, which may be the header of a block or slab. |
| `SocketBacklog`, MCUnixSocket | `AcceptedLeavesBacklog` | `socket_pop_from_backlog` (`socket.c:67`) does not decrement `backlog_size`; a client taken "off backlog" (`unix_socket.c:36`) is accepted again. |
| `SocketRecv`, MCUnixSocket | `ReceiverSleepsOnEmpty` | A send between the release of the lock (`unix_socket.c:297`) and the sleep is not noticed: recv waits with bytes in its ring, not "while nothing on buffer" (`:290`). |
| `SocketSend`, MCUnixSocket | `RecvWakesSender` | recv signals `data_received` of the sender (`:311`, "If peer blocked when trying to write"), which waits for that of the receiver (`:349`). |
| `FilesRoot`, MCFileSyscalls | `LookupNeedsNoDriver` | A lookup of a missing child of the root calls through its `vfsops` (`vfs.c:144`), which is NULL; "vnodes not required to be mounted to fs" (`:429`). |
| `FilesShort`, MCFileSyscalls | `AppsStored` | The loader rounds by `num_blocks % 512` (`tmpfs.c:180`); after a file shorter than a block, or of whole blocks, it misses the next header, and not all "userapps" are stored (`kernel.c:67`). |
| `VmmUnaligned`, MCVmm | `SegmentRights` | For a segment that starts inside a page, the "Physical address of page frame" (`elf.c:190`) is not one (`:186`), and its low bits become flags. |
| (`Compositor`), MCCompositor | `MouseShown` | Only the old rectangle of the mouse is rendered (`Compositor.cpp:87`), not "new and old location" (`:85`). |
| `TerminalColor`, Terminal | `ForegroundApplies` | After a complete 24-bit colour the terminal stays in that state (`terminal.c:211`), and takes the codes that follow for components; 31 does not "apply 16 color mode normal foreground" (`:146`). |
| `IrqSecond`, MCBoot | `IoapicFound` | `ioapic_get_addr` (`ioapic.c:63`) compares with the last pin without adding the base: an interrupt of a second I/O APIC is found nowhere, although it "resides in selected I/O APIC" (`:61`). |

## 4. Proofs

### Scheduler: SchedulerProofs

`SchedulerProofs` proves, for every number of cores, threads and join slots,

* `TypeCorrect`, `OnePlace`, `NoneLost`: `TypeOK`, `ThreadInOnePlace` and
  `NoThreadLost` are invariants of `Spec`;
* `Resumes`, `YieldNeverWaits`: so are `ResumesInsideYield` and `YieldLockFree`;

under the hypothesis `SafeCalls`: threads do not join, or there is one core. Without
it they are false, since a terminating thread may queue a joiner that still runs on
another core. The assumptions on the constants are those of `SchedulerAssumption`:
there is a core, kmain's thread is a thread, `Idle` and `NULL` are not.

None of the five is inductive. The invariant `IInv` adds

* `CoreInv`: what the place of a core says about its data, for instance that a core
  with an IPI pending waits in `schedule_thread_yield` and has a cause recorded;
* `ThreadInv`: a control block not yet created is nowhere, which is what makes the
  queueing of a new thread safe;
* `JoinInv`: a thread in `joined_threads` is there once, is not queued, and if a core
  has it, it is between its join and its IPI. With one core it then cannot be the
  terminating thread's core that has it, which is what makes `wake_joined` safe;
* `YieldInv`: a taken `yield_lock` belongs to a thread between its yield and its
  re-entry, and once its handler is through the saved context is the one of the yield.

The ready list enters through two lemmas: `AddFresh` (a thread not linked is put
at the tail, the rest is kept) and `PopHead` (the head of a list without repetition
is no longer linked once popped). There is one preservation lemma per action, and
four (`QuietThreads`, `QuietYield`, `QuietJoined`, `QuietCore`) for what a step inside a
call leaves alone.

### Joins and events: JoinProofs, EventProofs

Proved under `SingleCore` (there is one core):

* `JoinReturns`: `JoinReturnsAfterExit`, for any number of threads and slots;
* `JoinersWoken`: `NoJoinerLeftBehind`, under `TableFits` too: `joined_threads` has room for
  all threads but one.

`JoinProofs` uses of `TableFits` only what `TableRoom` says without counting (a full table of
different threads has all threads but one); the last section of `EventProofs`, which has the
library's facts on cardinality, derives it, and likewise `ListenRoom` from `ListenFits`.

Both hypotheses are needed: on two cores the run `join_two_cores` violates the property, and
with one thread more than `TableFits` allows `SchedulerFull.cfg` does (the kernel has 100 slots).
The invariant `JInv`, together with `IInv`, says

* `TableInv`: the target of a thread in the table has not terminated and is not about to,
  because the scan of `schedule_thread_terminate` and its yield are one stretch of the one core;
* `SleepInv`: a thread asleep in a join is in the table, or `Deadlocked`: the table is full of
  all the others, so that nobody is left whose exit it could miss;
* `ExitInv`, `ReturnInv`: a cause TERMINATE means ZOMBIE now or after the pending IPI, and a
  thread queued to return from its join was put there by its target's exit.

`EventProofs` proves of `EventSpec`, the composition with `event.c`, under `SingleCore`

* `ReceivesItsEvent`, `SignalReachesAll`, `RunsUnlisted`: `WaitReceivesItsEvent`,
  `SignalSkipsNobody` and `RunningIsUnlisted`, for any number of threads, events and slots;
* `WaiterListed`: `WaiterIsListed`, under `ListenFits` (a slot for every thread), since the
  result of `attach_listener` is ignored;
* `EventsKeepSchedule`: `ThreadInOnePlace`, `NoThreadLost`, `ResumesInsideYield` and
  `JoinReturnsAfterExit` hold with waits and signals as they do without.

On two cores `ResumesInsideYield` is false (`EventResume2.cfg`). The invariant `EInv` ties a
listener to its thread (`ListInv`: a slot of an event holds a thread that waits for this
event, once), what a core is at to the wait of its thread (`CoreWaitInv`, `StopInv`), a
sleeping thread to its table and its saved context (`WaitingInv`), a queued one to
the notification that queued it (`QueuedInv`), and says of the scan of `event_signal` that what
it has passed does not sleep (`SignalInv`). It is inductive only together with `IInv` and
`JInv`: a signal queues the thread it wakes, which is safe because a WAITING thread is in no
list and on no core. The actions of the scheduler are shown to keep `EInv` one by one
(`EventStep` says what is to be shown of each), and those of `event.c` to keep `IInv` and
`JInv`: through `QuietSchedule` when they leave the threads alone, in `AttachSchedule` and
`NotifySchedule` when they do not.

### Physical memory: PmmProofs

`PmmProofs` proves, for every set of cores, page size, request size and set of memory
maps (`PmmAssumption` only gives them their types), `OwnedOnce`, `NoLeak`, `Complete` and
`InBounds`: `FramesOwnedOnce` together with `BlocksAvoidReserved`, `BitsAreAccounted`,
`SearchMissesNothing` and `TypeOK`. Its invariant adds `LockHeld` (only the holder of
`pmm_lock` is inside `palloc`) and `FoundIsFree` (what the holder found is still free when
it marks it), without which two searches could mark the same frames. Disjointness
and accounting need each other: resetting a block's bits is safe because no other
block has one of its frames.

`BitmapSafe` proves `BitmapOutOfReach`. Here the map matters: `MapsAssumption` says that its usable
entries are sorted and do not overlap, as Limine promises and `init_pmm` relies on. By
`BitmapHoldsBits` what `palign` computes has room for the bit of every frame; by `CarvedAway` the
frames cut off for it are below the end of memory and in no usable entry of the map that is
left; so they are `reserved`, and blocks avoid those.

### Ring buffer: RingProofs

`Refines` proves `Spec => IsByteQueue`: under the mapping `Pending` every step of `RingBuffer` is a
step of `ByteQueue` or changes nothing there, for any threads, bytes, number of bytes per
call, capacity, and width of the heads the capacity divides (`RingAssumption`); `TypeCorrect` that
heads and counts keep their ranges. The invariant `RInv` says that only the holder of the lock
is between two bytes, that the distance of the heads, modulo their range, is what the
ring holds, and that it is at most the capacity. The arithmetic is stated first:
`ModShift` (a head may wrap, its index does not move) and `ModApart` (positions closer than the
capacity do not share a slot, so that a byte written overwrites none that is unread).

### Page tables: VmmProofs

Proved for any number of processes, any size of the tables, any programs and any heap:

* `KernelIsShared` (`KernelShared`) and `UsersReachOwn` (`UserReachesOwn`);
* `ImplementsAddressSpace`: `Vmm` refines `AddressSpace`, so that a `map_page` changes at most
  one page of one map, to rights of its half, and allocating tables, copying the top table and
  taking USER from the upper half change no mapping.

`VmmAssumption` is the layout: the kernel's sections are in the upper half, the loaded
segments, the heap's frames and the framebuffer, each where it is mapped, in the lower. The
linker scripts and the boot loader make it so. The alignment of segments is not assumed.

The three speak of walks through four levels, and a walk says nothing of tables that
others reach. The invariant `VInv` therefore says that every table has a place `g`: a level,
an owner (the kernel or a process), the table above it and the index it has there.

* `Tree`: an entry above the last level is empty or leads to the table whose place names that
  entry. The upper entries of every top table lead where the kernel's do; they have USER until
  the kernel's map is loaded, and none is added or changed after that. A leaf of the kernel
  has no USER.
* `RootsOf`, `LeavesOwn`: a process has its own top table, copied after the kernel's was loaded,
  and the frames in its leaf tables are its own or the framebuffer's.
* `Jobs`: what is left of a `map_section` stays in its half and, for a process, in its frames.

Since a place names one table above, two walks that end in the same entry are walks of one
page, of one map or in the shared half (`OneEnd`), and a store in a leaf changes only that
page's view (`Stored`). `OneRound` shows that a round of `get_next_page_map`, with or without
a new table, keeps the tree and every view; `MapPage` puts three rounds and the store together.
`Walks` shows that the processor's walk is the view. That the indices of a page determine
it (`SamePage`) is arithmetic on `\div` and `%`.

### Start of the cores: BootProofs

Proved for any number of cores, any MADTs, devices, vectors and length of the calibration:
`EntriesOwn` (`ReadyCoreOwnsItsEntries`), `CalibratedAlone` (`MeasuredAlone`), `TssOwn`
(`NoTssFault`) and `KmainIsLast` (`KmainLast`). `BootAssumption` says that Limine lists each core of
the platform once, the bsp core among them, and that the devices' vectors are in the IDT.
The invariant `BootInv` has a part for each thing the cores share:

* `RouteInv`: no core runs before the devices are routed, and their vectors and
  descriptors are in place from then on;
* `TssInv`: between `load_tss_entry` and `ltr` the entry of the GDT is the core's, and not busy;
* `CalibrateInv`: a core that measures holds `calibrate_lock`, and the HPET has counted what
  the core's timer has counted down;
* `VectorInv`, `GateInv`: vectors that were handed out are below the next one and differ from each
  other, and what was written behind them is not written over.

`ReadyInv` adds the count: `cores_ready` is the number of cores that are through, so that it
equals Limine's count less one only when all but the bsp core are.

### Rectangles: RectProofs

`RectProofs` proves, for all integers, that the pieces `getSplitRects` returns hold
exactly the pixels of the rectangle outside the cut (`SplitExact`, for a cut that
overlaps it and is not empty), that no piece overlaps the cut (`PiecesDontOverlap`),
which is why the loops of `ClipRegions` that start over after each split end, and that
`restrictRect` and `getOverlapRect` leave the common pixels (`OverlapExact`). The argument
follows the code: each of the four steps divides what is left of the rectangle in a
piece, or nothing, and the rest (`StepsDivide`). That the pieces do not overlap each
other is not proved.

### Only model-checked

* Liveness (`RoundRobin`, `JoinerResumes`, `SignalledRuns`, `PallocReturns`, `ComesUp`): fairness is
  out of the prover's reach.
* `MappedIrqsArrive`, and all of `FileSyscalls` and `Terminal`: the code searches, filters and
  loads with loops that the models write as folds and `SelectSeq`; what these compute for every
  input takes an induction over data the prover does not have.
* `ScreenComposed`: `Compositor` uses recursive operators, which the prover does not handle.
* `OwnedOnce`, `RoomIsFound` and `PagesAccounted` of `Slab`: they hold for the callers the instance
  has (`Workloads`) and not for chunks next to blocks (`SlabStray`); they have not been stated for all.
* `ConnectedHasPeer` and `StreamInOrder` of `UnixSocket`.
* `SegmentRights` of `Vmm`: it holds only for segments that are page-aligned and share no page
  (`VmmUnaligned` refutes it for others), which neither `elf_load` nor `VmmAssumption` requires.

## 5. Not modelled

* **PS/2 driver** (`devices/ps2.c`), except for the routing of its interrupts: its
  handlers and its readers share packet counts without a lock. **Device polling**
  (`DevPoll.cpp`), which reads them, is left out with it.
* **Process and thread numbers, failing creations** (`process.c`, `thread.c`): the tables
  of numbers are tested and set without a lock; every creation of the models succeeds.
* **Context switch** and the entry stubs: assembly; a context is the place it resumes at.
* **Event routing among windows**, selection, appending and removal (`Window.cpp`): only
  what the compositor sees of windows is modelled. An append by an application does
  not mark anything dirty, and is not among the compositor's events.
* **User allocator** (`mem.cpp`): sequential, one per program.
* **Vector and doubly linked list**: the vectors of the file system are sequences;
  `vector_pop_back`, `vector_remove` and the list have no caller in the kernel.
* **Paths as text**: repeated slashes, length limits; `openat` relative to a descriptor,
  which has no system call number; `devfs_write`, which nothing calls.
* **Serial port, PIT, MSRs**, the fixed descriptors of `init_gdt`: register and port
  input and output in a straight line.
* **Image reader, C library, test application**: parsing and formatting; nothing
  survives a call.
* **Failing table allocations** in `map_page`: there is no code for them.
