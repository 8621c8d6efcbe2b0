# A TLA+ model of the OpenIon kernel

OpenIon is a `no_std` RTOS kernel in Rust for RISC-V and Cortex-M. This directory
holds TLA+ specifications of the kernel and its drivers, TLC configurations that
check them on small instances, and TLAPS proofs of the results that matter most.
`PROJECT.json` lists components, runs, the source lines behind each definition,
findings, hazards and theorems.

## The system

| Part | State | What is hard about it |
|---|---|---|
| scheduler, `kernel/src/sched/mod.rs` | task states, ready queue, sleep list, `CURRENT_TCB`, `NEXT_TCB`, `preempt_pending` | interrupts between a task's critical section and its switch; wrapping ticks; a single preemption flag |
| task lists, `sched/ready_queue.rs` | head and tail per level, bitmap, count, the `next` field | one link field for all lists; redundant bookkeeping |
| trap layers, `arch/src/riscv`, `arch/src/arm/cortex_m` | interrupt state, pending switch | where the decision is taken and where it takes effect differ |
| wait objects, `sched/wait.rs` | waiter arrays, `signaled`, `permits` | wakes outside the lock; a release in two critical sections |
| async executor, `sched/async_rt.rs` | future slots, sleep slots, one async waiter per event | wake-ups while a future is out of its slot |
| mutex, `sync.rs`, `arch.rs` | spin locks, nesting count, interrupt flag | the count and the flag are two words; handlers lock too |
| memory, `mm/frame.rs`, `mm/slab.rs`, page tables | bitmap and hint, free list, tables | bits below the hint are skipped; mapping that runs out of frames half-way; superpages beside sections and guards |
| drivers, `driver/manager.rs`, `irq/mod.rs`, `fdt.rs`, `driver/pool.rs` | registry, class buckets, interrupt table, open nodes | one lock per table; probing with bounded arrays |
| virtio, `drivers/virtio_*` | rings, one shared buffer, `io_busy` | time-out against a late completion; initialisation order |
| console, `driver/char.rs`, `shell.rs` | ring buffer, line buffer, cursor | lock-free ring with several readers; shifting bytes at the ends of the line |
| files, `fs/mod.rs`, `fs/exfat.rs` | node pool, mount table, current directory | mounts in mounts; targets kept as typed; damaged volumes |
| sockets, `net/smoltcp` | descriptors, socket set, three spin locks | handles looked up before the lock; preempted lock holders |
| hypervisor, `hv.rs`, `arch/src/riscv/hypervisor` | table of machines, guest context | which register holds what at an exit |
| start-up, `process/` | services, ELF images | one of several steps fails |

A timer or device interrupt runs handlers, which signal events and wake tasks; the
scheduler chooses the next task; the trap layer makes the choice effective. The
executor and the shell are ordinary tasks of priority 1. At boot the device tree is
walked, factories make drivers, and the identity map is built; then the root task
starts the services.

All modules describe one CPU, the default build (`OPENION_SMP=false`; the
secondary harts are parked). A section under the kernel's `Mutex` is one step in
every module but `IrqMutex`, whose theorems justify this: while a lock is held
interrupts are off. The slab, the TLSF heap, the log, the receive-poll hook of
`driver/char.rs` and the network stack use plain spin locks, which leave interrupts
on. In `SlabPool` a call is one step all the same: the lock keeps other tasks out, and
no handler allocates or frees. `Sockets` takes every step between its locks
separately, with callers of different levels: a task may preempt the holder of a lock
and then spin on it.

## Modules

| Module | Models |
|---|---|
| `Scheduler` | the functions of `sched/mod.rs` as operators on its state; lists are sequences |
| `RiscvKernel` | those functions under `rust_trap_handler`: decisions inside traps, the switch at trap exit |
| `CortexMKernel` | the same under SysTick, device interrupts and PendSV; `yield_task` selects in thread mode and requests PendSV afterwards |
| `TaskQueues`, `TaskLists` | sequences of tasks as the abstract view; the pointer-level lists that implement it |
| `WaitQueues` | `WaitQueue`, `Event` and `Semaphore` with their critical sections as steps |
| `AsyncExecutor` | `poll_once`, the sleep slots, the async side of `Event`, and the futures the kernel spawns |
| `IrqMutex` | `Mutex`, `disable_irq` and `enable_irq` instruction by instruction, with interrupts at any depth |
| `FramePool`, `FrameAllocator` | a set of free frames; the bitmap with its hint that implements it |
| `SlabPool` | the pool of task control blocks and its threaded free list |
| `PageTables` | Sv39, Sv32 and the G-stage tables: map, superpages, ranges, unmap, translate |
| `IdentityMap` | what boot maps and how, on top of `PageTables` |
| `VirtioQueue`, `QueueMemory` | the handshake and the request queue of block, entropy and gpu drivers against a device; where their rings and buffers lie |
| `DriverRegistry` | registration, removal, look-up and interrupt dispatch, lock by lock |
| `DeviceTree`, `BootProbe` | `walk_nodes`; factories, probing and the platform's drivers, on `DriverRegistry` and `DeviceTree` |
| `RxPath` | the UART, its handler, the ring, and its readers |
| `LineEditor` | keys, escape sequences, history and completion |
| `ShellFiles` | RAM file system and mount table under the shell's commands |
| `ExFat` | mount checks, cluster chains, directory walk, file read |
| `Sockets` | the socket calls and `poll` of several tasks |
| `Hypervisor` | the table of machines under the `vm` command, guest exits and SBI calls |
| `Process` | the root task with its services; the ELF loader |
| `*Proofs`, `DistinctSequences` | theorems |
| `MC*` | constants for TLC; `MCFrameAllocator`, `MCDevices` and `MCSession` put several parts in one run |

Names follow the source (`ScheduleCpuLocked`, `find_mount_for_path`, `preempt_pending`).
Some definitions have a variant directly before them (`ReleaseLate` before `Release`):
a plausible slip in the code that the properties must catch. No specification uses
the variants.

External parts, modelled from how the code uses them: the virtio device (answers
late, once or never, may refuse), the UART, the smoltcp socket set (a handle is a
place and places are reused), the block device under exFAT (each read may fail).

History variables record what the code does not: `left` (ticks a sleeper still has
to wait), `acquired`, `released` and `late` (permits, and waiters that came inside
a release), `missed` (a wake-up that found its future taken out), `delivered` and
`dropped` (input bytes), `aspace` (the mappings callers were told of), `handed` and
`order` (slots in use and free), `written` (the last text written to a file),
`stale` (calls whose descriptor was closed meanwhile).

## Runs

A run that puts several parts side by side has a variable `part` that says which one
a behaviour is about; the others keep one initial state. They share no state in the
code either, except through interfaces named in the modules.

| Run | Bounds | Result |
|---|---|---|
| `riscv_kernel` | 4 tasks on 3 levels, tick counter of 5 values, delays 0 and 3 | holds: tasks in one place, sleeps of the length asked for, highest task after a tick; sleepers wake and the highest level shares the CPU |
| `riscv_realtime` | the same tasks | violated: finding 1 |
| `cortexm_kernel` | 4 tasks, no interrupt between `schedule()` and PendSV | holds: tasks in one place |
| `cortexm_window` | the same with that interrupt | violated: finding 2 |
| `task_lists` | 4 tasks, two on each of two levels | holds: the linked lists, with bitmap and count, implement sequences and refuse no task that is in no list |
| `wait_queues` | 3 tasks and handlers, 2 places per queue, 3 permits released | holds: no waiter forgotten, no permit lost |
| `async_executor` | 3 slots, tick counter of 7 values, executor at most 2 ticks late | holds: no wake-up lost but those dropped during a poll; signals are consumed and sleepers resume |
| `frame_allocator` | bitmap of 3 words of 3 bits, every region; slab of a few slots; tables of 2 entries and 3 frames; 4 pages of memory at boot; 2 tasks, 2 locks, 2 levels of interrupts; 2 machines; images of up to 2 segments | holds: lowest free frame; free list exact; translation as told, failed calls included; memory mapped on itself with the permissions of its sections, stack guards unmapped; no spinning, no lost interrupt flag; a virtual machine's memory is its image (`MemoryIsImage`); every service is started once (`ServicesAccounted`); memory is what the segments of an image say (`MemoryIsSegments`) |
| `devices` | 2 callers, poll limit and ring index of a few values; trees deeper than the walker's array; more devices than pool slots | holds: see below |
| `rx_path` | ring of 4, FIFO of 2, 7 bytes, every board with one reader; line of 3; pool of 7 nodes, directories of 4, files of 2 bytes and texts shorter and longer, 2 mounts at 3 targets; clusters of 4 slots, lengths modulo 32; 2 tasks on one or two levels and 6 socket calls | holds: see below |
| `rx_shared` | shell and `read` system call together | violated: finding 3 |
| `guest_exit` | one machine, one guest | violated: finding 4 |

`devices` shows: a call that returns Ok has the answer to its own request, and its
picture on the screen, unless an earlier request timed out (`OkMeansDone`); rings,
buffers and what is cleared fit the array (`RegionsFit`); every call returns
(`CallsReturn`). Registry, buckets and interrupt fast path agree whenever nobody is
inside, unless a registration and a removal overlapped (`TablesAgree`, `overlap`). The walker calls each node once with the properties of that
node, at any depth (`WalkerFollowsTree`). A healthy device is left out only when a
pool or a table is full (`HealthyDevicesServed`).

`rx_path` shows, besides the bytes of the console (`EveryByteOnce`): the line buffer
always holds the edited line (`BufferIsLine`); a file reads back as what was last
written to it (`LastWriteRead`), a failed file command changes nothing but the pool of
nodes (`FailedChangesNothing`), a path belongs to the innermost mount and what is
listed resolves but for two kinds of names (`PathsAgree`, `Unreachable`), the current
directory is lost only on a volume (`CwdIsDirectory`); a listing or a read is what the
volume holds, and an accepted root directory lies in the cluster heap although the
bound it is compared with may wrap (`RequestsExact`), and a request ends
(`RequestsEnd`); the static packet buffers back one socket (`BuffersOwnedOnce`), a call
works on the socket it looked up (`HandleStillMine`), and while a caller of the highest
level is inside a call some call returns, unless a task spins on a lock whose holder
it preempted (`SocketCallsEnd`, `Inverted`).

A path in `ShellFiles` is what stands between its slashes, so `//d` is the sequence of
an empty component and `d`: the shell's paths lose the empty one, a mount target keeps
it. `Cuts` gives each name of `NAME_MAX` bytes or more the part that a listing shows.

The bounds make the interesting cases happen: counters and indices wrap; queues,
rings, slots, pools, directories and lines become full; chains run in a circle;
sections end inside a superpage; frames run out between two levels of a table; trees
are deeper than the walker's array. Every action and every branch of the next-state
relations fires, except that `allocate_fd` never lacks a descriptor: the buffers
allow one socket at a time, here and in the code.

### Findings

1. `preempt_pending` is assigned, not accumulated (`sched/mod.rs:258`, `309`, `472`).
   A handler that wakes a level-7 task and then a lower one clears the flag, and the
   interrupted task goes on until the next tick. `ready_queue.rs:10` says that level 7
   "preempts all normal tasks".
2. On Cortex-M a SysTick between `schedule()` and `yield_cpu()` in `yield_task`
   selects again. The task selected first stays Running and is in no queue.
3. `read_console` (`syscall.rs:157`) is a second consumer of a ring whose `pop` is
   documented as single-consumer (`driver/char.rs:83`).
4. The trap vector of the hypervisor saves `vsepc`, the guest's own register, where
   the address of the trap is in `sepc`; the comment at `hypervisor/entry.rs:77` says
   "Advance guest PC past the ecall instruction", and the guest is resumed elsewhere.

Weaknesses that no document of the repository contradicts appear as the exceptions
in properties:

- a wake-up that comes while a future is being polled is dropped and the future is
  never polled again (`FuturesResume`, `missed`);
- a task that begins to wait on a semaphore between the two critical sections of
  `release_many` sleeps beside an available permit (`StrandedOnlyInGap`, `late`);
- after a virtio time-out the next request may be given the late answer
  (`OkMeansDone`);
- Enter on a full line panics (`BufferIsLine`, `panicked`);
- the arrays of the entropy and gpu queues are too small for some start addresses
  (`RegionsFit`);
- a call on a descriptor that another task closes meanwhile panics or reaches
  another socket (`HandleStillMine`), and `socket()` without a network device leaves
  `UDP_IN_USE` set (`BuffersOwnedOnce`);
- a task that preempts a socket call or `poll` and then needs a lock it holds spins
  for ever (`SocketCallsEnd`, `Inverted`); and as spin locks are not fair, a call may
  always lose to others of its level, so that only some call is shown to return;
- a mount target typed with two slashes in front is listed in `/` but no path reaches
  it; a volume's name of 32 bytes or more is listed cut and not found by what is
  listed (`PathsAgree`, `Unreachable`). Entries named `.` or `..` can be made, too, and
  the shell reads them as directions, which the property does not look at;
- on 32-bit targets a file of 4 GiB or more is read up to its length modulo 2^32
  (`RequestsExact`, `UsizeMod`);
- a current directory on a volume is lost when the volume is unmounted
  (`CwdIsDirectory`);
- a registration that overlaps a removal can leave the class buckets and the registry
  apart (`TablesAgree`, `overlap`);
- a pool slot spent on a device whose set-up fails is lost to healthy ones
  (`HealthyDevicesServed`);
- a directory walk on a circular chain does not end (`RequestsEnd`).

The page walk of Sv32's `unmap_page` has no test for a leaf above the last level; the
model follows such an entry too, and no call can make one, as Sv32 has no superpages.

### Fairness

`RiscvKernel` assumes that a handler runs to its end and that the timer interrupt,
which stays pending, is taken again and again (strong fairness, since other
interrupts may keep it out for a while). Nothing is assumed of tasks.
`AsyncExecutor` assumes weak fairness of the executor, which has priority 1 with no
kernel task above it, and of the timer. Its liveness properties also assume that
rounds of `poll_once` end: a future whose next await is over each time it is polled
keeps the executor in its loop, and nothing in the code bounds that.
`VirtioQueue` assumes that a caller goes on; nothing is assumed of the device.
`ExFat` assumes that a request goes on. `Sockets` assumes it only of callers of the
highest level (`TopStep`), which share the CPU in turn; a caller of a lower level runs
only while those above it are outside calls, and nothing is assumed of it. A turn of
a spin loop is a step of its own (`Spin`) that changes nothing.

## Proofs

`SchedulerProofs` proves for any number of tasks, levels and ticks, from
`SchedulerAssumption` (the pool and the ready queue have the same capacity, the idle
task has priority 0, delays are within the range of the wrapping comparison):
`TypeOK`, `OnePlace`, `RunsOnlyRunning` and `TickRunsHighest`. The inductive
invariant is `KernelInv`. `OnePlace` alone is not inductive: `schedule_cpu_locked`
with an empty ready queue would resume the current task in whatever state it is.
`KernelInv` adds that the idle task is always Ready or Running, that a current task
which is not Running is on its way to its ebreak, and where the walk of the sleep
list stands. `DistinctSequences` holds the facts on sequences without repetition.

`FrameAllocatorProofs` proves for any bitmap: no free frame lies below the hint
(`HintIsLowerBound`), `alloc` returns the lowest free frame (`AllocLowest`), and the
bitmap implements `FramePool` (`ImplementsPool`). The inductive invariant `FrameInv`
joins the types, the hint bound and "no frames before `init`".

`SlabPoolProofs` proves `FreeListExact` for any number of slots. It is inductive once
the types of the links and of the slots handed out are added (`SlabInv`): the free
list is compared with the history sequence `order`, which a step changes only at its
head.

`IrqMutexProofs` proves `NoSpinForEver`, `LockedMeansMasked`, `MaskedOnlyInside` and
`QuietBoot` for any tasks, locks and depth of interrupts, from `IrqAssumption` (the
handlers of the depths are distinct, and are not tasks). The inductive invariant
`IrqInv` has three parts. `Shape`: a task under handlers, boot and RISC-V traps
uninterrupted. `Away`: a context that is not running was interrupted with the flag
set, so it holds no lock and has at most read a count of zero. `Mine`: every lock
taken is held by what runs; the count is the number of its guards, plus the trap on
RISC-V, plus the call under way; the flag is set exactly when the count is zero and
no call is under way. `Away` is what makes the return from a handler sound, and the
count is what makes `enable_irq` sound.

`SocketsProofs` proves `BuffersOwnedOnce` for any number of tasks, levels, descriptors
and places, from `SocketsAssumption` (there is a descriptor and a place beside the DHCP
socket's). The count of owners is not inductive. `SockInv` adds that NETWORK_SOCKETS
is held through the steps that work on the set (`Locked`), that a socket being built,
one in the set and one being closed exclude each other (`OneSocket`), that
`UDP_IN_USE` is set only for one of these when there is a stack (`Accounted`), and
that the one descriptor ever given out is the first (`FirstDescriptor`). The last part
is what makes a late `close` through a stale descriptor harmless to the buffers: it
clears the entry of the socket it removes.

Only model-checked: liveness; `SleepsAsAsked` (arithmetic modulo the counter along a
history);
`TaskLists`, `PageTables`, `IdentityMap`, `LineEditor`, `ShellFiles` and `ExFat`,
whose properties are about recursive definitions; the other modules without a
`Proofs` module.

## Not modelled

- SMP: work stealing, affinity, hart start-up.
- The TLSF heap and the smoltcp protocols, which are libraries.
- Register contents in context switches and world switches, except those named in
  `Hypervisor`; register I/O of interrupt controllers, timers, UART set-up, PMP and
  LAN9118; output, logging and statistics.
- `spawn` while the executor runs, which the kernel never does.
- The empty functions of the `ionnet` stack, and the build tool `xtask`.
