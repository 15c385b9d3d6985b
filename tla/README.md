# Verification of the xv6 kernels of this repository

The repository holds two copies of the xv6 teaching kernel for RISC-V.
`Assignment2` is the plain kernel; `Assignment1_2` adds to it exit messages,
`forkn()`, `waitall()` and `memsize()`. Most files under `kernel/` are the same
in both. This directory holds TLA+ models of the parts whose correctness is a
matter of interleaving, of crashes, of failures half way or of limits, with TLC
runs on small instances, and proofs, checked by TLAPS, for the write-ahead log,
the process table with `forkn()` and `waitall()`, traps and locks, the buffer cache
with its disk driver, pipes with the open file table, the console, and the references
and locks of inodes in the file system calls.

## 1. The system

| component | state | operations | shared with, and how | what makes it correct | modules |
|---|---|---|---|---|---|
| write-ahead log (`log.c`) | `struct log`, header and log blocks on disk | `begin_op`, `log_write`, `end_op`, `commit`, recovery | every file system call; buffer cache through `bpin`; sleeps on `&log` | calls are atomic across a crash; the log never overflows; sleepers are woken | `AtomicDisk`, `Log` |
| processes (`proc.c`) | `proc[NPROC]`, `cpus[]`, `nextpid`, `wait_lock`, a lock per process | scheduler, `fork`, `exit`, `wait`, `kill`, `sleep`, `wakeup`, `yield` | everything that sleeps | a stack is used once; no lost wakeup; the process tree | `ProcTree`, `Proc` |
| `forkn`, `waitall` (`proc.c` of Assignment1_2) | the same table | the two calls | `wait_lock` and every `p->lock` | the same, and the order of the locks | `ForkAll` |
| spinlocks, traps, the clock (`spinlock.c`, `trap.c`, `sysproc.c`) | `noff`, `intena` per processor; `ticks` | `acquire`, `release`, `usertrap`, `kerneltrap`, `sched`, `sys_sleep` | everything | interrupts off while a lock is held, and back as they were | `Trap` |
| buffer cache, sleep locks, disk driver (`bio.c`, `sleeplock.c`, `virtio_disk.c`) | `NBUF` buffers in LRU order; 8 descriptors, two rings | `bread`, `bwrite`, `brelse`, `bpin`, `bunpin`; `virtio_disk_rw`, the interrupt | log, inodes; the device | one buffer per block; each request answered once; descriptors are not lost | `BlockStore`, `Disk` |
| pipes, open files (`pipe.c`, `file.c`) | ring of `PIPESIZE` bytes, two open flags; `ftable` counts | `pipewrite`, `piperead`, `pipeclose`; `filedup`, `fileclose` | processes by `fork`, `sleep`/`wakeup` | a FIFO; nobody sleeps for ever; freed once, at the end | `ByteStream`, `Pipe` |
| inodes, directories, their calls (`fs.c`, `sysfile.c`, `mkfs.c`) | inode table, bitmap, inode blocks | `iget`, `ilock`, `iput`, `bmap`, `itrunc`, `namex`, open/link/unlink | log, buffer cache | names lead somewhere; counts are exact; a block belongs to one file | `Mkfs`, `Fs`, `Sysfile` |
| memory (`vm.c`, `kalloc.c`, `exec.c`) | free list, page tables | `uvmalloc`, `uvmcopy`, `uvmunmap`, `kalloc`, `exec` | processes | a page is free or in one place; failures give back all | `Memory` |
| copies to and from a program (`vm.c`, `syscall.c`) | its page table and bytes | `copyin`, `copyout`, `copyinstr`, `fetchaddr`, `fetchstr` | every system call with an address | the program's own bytes and no others, to the first bad page | `UserCopy` |
| console, UART (`console.c`, `uart.c`) | two rings with three and two indices | `consoleread`, `consoleintr`, `uartputc`, `uartstart` | interrupts | lines whole and in order; nobody is forgotten | `LineBuffer`, `Tty` |
| shell (`sh.c`) | a process per command, its descriptors | the parser, `runcmd` | pipes, processes | a program gets the input and output its line says | `Shell` |
| `malloc` (`umalloc.c`) | the free list | `malloc`, `free`, `morecore` | `sbrk` | free and used blocks tile the heap | `Umalloc` |
| `grep`, `wc` | a buffer, counters | `read` in a loop, `match` | pipes, files | the output does not depend on how the input is cut up | `Filters` |
| boot, system call dispatch, string helpers, test programs, generated files | | | | | section 7 |

What is hard here: spinlocks taken one after the other by several processors
(lock order, and what is read before a lock is dropped); `sleep` and `wakeup`
against lost wakeups; a kernel stack that is handed over with its lock held;
interrupts between any two instructions; power failures between any two disk
writes; fixed tables (log, slots, buffers, descriptors, inodes) at their limits;
and calls that fail half way. `PROJECT.json` lists the hazards at their lines.

## 2. What is modelled

Some conventions hold everywhere. A step goes from one `acquire` to the next, or
does what is done under one sleep lock, unless a module says otherwise. A lock is
a variable (its holder) when it is held from one step to another. A return value
that nobody looks at is left out. Where both copies of the kernel have the same
text, the map names Assignment2's.

### AtomicDisk, Log

`AtomicDisk` is the promise: transactions that overlap are committed together,
and a power failure leaves exactly what was last committed. `Log` is `log.c`,
with what it needs of `bio.c`: which blocks are cached (`cache`), pinned
(`pins`) or locked (`held`). A critical section under `log.lock` is one step,
and so is one block written to the disk; that a block write is itself atomic
is an assumption the code makes too. `phase` and `tail` are the program counter
and loop index of the one process that commits or recovers. `Crash` may happen
in every state and keeps the disk only; recovery then runs, and may be cut
short in turn. `Modify` and `LogWrite` are one `bread`, change, `log_write`,
`brelse` of some system call; a call writes at most `OPBLOCKS` different blocks.

`AtomicDiskSpec` is the refinement: the memory of the abstract disk is what a
call would read (`Visible`), and its durable state is what recovery would make
of the disk as it is now (`Recovered`).

### ProcTree, Proc

`ProcTree` is the promise of `fork`, `exit` and `wait` in terms of process IDs:
an ID is used once; who exits gives its children to init; a zombie stays until it
is collected. `Proc` is the process table of Assignment1_2. Slots are `1..NPROC`,
1 being init and 0 the null pointer. `wait_lock` and `plock[s]` are held through
`swtch()` until the scheduler of that processor releases them (`SwitchOut`). A
thread is in `sched()` when a processor has it and its state is no longer RUNNING.

| actions | code |
|---|---|
| `Dispatch`, `SwitchOut`, `Yield` | `scheduler`, `sched`, `yield`, with the end of `sleep` and `forkret` |
| `Fork`, `ForkFails`, `ForkParent`, `ForkRun` | `allocproc`, `fork` |
| `ExitNum`, `Exit`, `ExitLock`, `Reparent`, `WakeInit`, `WakeParent`, `ExitZombie` | `exit_num`, `exit`, `reparent`, `wakeup` |
| `WaitCall`, `WaitLock`, `WaitReap`, `WaitSkip`, `WaitFault`, `WaitEnd`, `WaitSleep` | `wait`, `sleep` |
| `KillFind`, `KillMark` | `kill` |

`Syscall` is the check of `killed(p)` that `usertrap` makes before a call; a
kill that comes between the check and the first lock of the call is the same as
one that comes just after that lock. Init never exits, never kills and is never
killed: its program (`user/init.c`) only forks and waits, and the kernel panics
if it exits. Yields are modelled where a thread holds no lock, except in the
moment before `wait()` takes `wait_lock`, where the thread is only slow.

The refinement to `ProcTree` takes an exiting process to have given its children
away from the step in which it gets `wait_lock`, since nobody can look before it
lets go of that lock.

### ForkAll

`ForkAll` extends `Proc` with `forkn()` and `waitall()`: `forkn()` keeps
`np->lock` from `FnAlloc` to `FnRun` and takes `wait_lock` in between;
`waitall()` releases `pp->lock` (`WaScan`) before `freeproc(pp)` (`WaFree`).
A failing `uvmcopy()` in `forkn()` is left out: there the machine panics (see
`Memory`). `freeproc` without the lock is a data race; its stores are taken in
program order, the one to `state` last.

### Trap

The grain below `Proc`: a processor runs a context (a task or its own scheduler)
and a timer interrupt may come in every state with interrupts enabled. `acquire`
is two steps, `push_off` (`AcquirePush`) and the swap (`AcquireSwap`); `release`
is part of the step before it. `hart` has `noff`, `intena` and the interrupt
enable bit; `saved[t]` is the local `intena` of `sched()`, which comes back on
whatever processor the thread runs on next (`Resumed`). `lab` is the program
counter; `trapped` is where an interrupted context goes on. `Clockintr` goes over
the table with `wakeup(&ticks)`, a lock at a time, under `tickslock`; `sys_sleep`
loops over `sleep(&ticks, &tickslock)`. `due` stands for `ticks - ticks0 >= n`: a
tick makes it true of any set of the tasks, and `SleepTest` may also leave the loop
because `killed()` says so. The panics of `acquire`, `release`, `pop_off`, `sched`
and `kerneltrap` set `panicked`. Only the processor whose `cpuid()` is 0 counts
ticks; all of them yield.

### BlockStore, Disk

`BlockStore` is the promise: a block is held by one thread at a time, what that
thread changes stays until it is written, unless the block is let go unpinned, in
which case the last version written comes back. `Disk` is `bio.c` over
`sleeplock.c` over `virtio_disk.c`. `Bget` takes a reference under `bcache.lock`,
and `Acquiresleep` is a later step; `lru` is the list. A thread may read a second
block while it has one (`other`), where `Over` says so: `bmap()` asks `balloc()` for a
block with that of the addresses in hand, and `install_trans()` and `write_log()` have a
log block and its home; `Swap` is for these two, which go back to the first. When no
buffer is unused `bget()` panics, and the thread stops there. A section under
`vdisk_lock` is one step, but `virtio_disk_intr` is `IntrAck`, `IntrUsed` for each
entry of the used ring, `IntrEnd`, because the device goes on meanwhile. `Device`
serves the requests in any order. A thread that sleeps for its request is one at
`io` with `b->disk` set; those that sleep on `disk.free[0]` are at `nodesc`, since
they are woken for one descriptor and need three.

### ByteStream, Pipe

`Pipe` is `pipe.c`, `file.c` and what `pipe()`, `dup()`, `close()`, `fork()`,
`exit()`, `kill()`, `read()` and `write()` do with them. `pipewrite` and
`piperead` go byte by byte with `pi->lock` held, and a kill may come between any
two bytes. `fileclose` is two steps, the count under `ftable.lock` and
`pipeclose` later; `loc[p].f0` and `f1` are the files `close`, `exit` or a failed
`pipe()` still has to put; `exit` takes its descriptors one by one (label
`exiting`). `nread` and `nwrite` count modulo `Wrap`. `silent`
records what the code really does when a writer is killed (`pipe.c:84`): it
returns without `wakeup(&pi->nread)`, and the bytes it has written lie there,
unannounced, until the next writer comes or the pipe is closed.

### Mkfs, Fs, Sysfile

`Fs` is `fs.c` on a disk in which a call is atomic with respect to crashes, which
is what `Log` shows. `todo[p]` is what is left of the call of process `p`: a
function that takes several locks puts its steps in front of the caller's, as in

| operators and actions | code |
|---|---|
| `iget`, `ilock`, `iupdate`, `balloc`, `bmap`, `Truncated`/`itrunc`, `readi`, `writei`, `dirlookup`, `dirlink`, `ialloc` | the functions of those names |
| `IputDrop`; `IputLast`, `IputTrunc`, `IputFree`, `IputRelease`, `IputEnd` | `iput`; the second group is the path that frees, without `itable.lock` |
| `NamexStep`, `NamexEnd`, `Iunlockput` | `namex`, `iunlockput` |
| `Create`, `Iget`, `Exists`, `Make`; `Open`, `Opened` | `create`; `sys_open` |
| `Unlink`, `Unlink2`, `Unlink3`; `Link`, `Link2`, `LinkBad`; `Chdir` | the calls, one step per inode lock |
| `Fileread`, `Filewrite`, `Close` | a block at a time; the last reference to a file |

An in-memory inode is named by its number: while its `ref` is not 0 one slot of the
table is its own, and which one is nowhere looked at. How many slots are taken is:
`NINODE` is their number, and where `iget()` finds none (`NoSlot`) it panics, and the
process stops there (`Gets`, `TableFull`). A directory has one block of
entries. Each process has room for one open file. `Panics` collects the assertions
of `fs.c` and `sysfile.c`. `lost` is history: inodes that still had a name in a
directory when that was freed (section 5). `Mkfs` is the image that the host program makes, and the
initial disk of the runs: it allocates blocks and inodes one after the other and
sets the bitmap at the end. `FixRoot` does what `mkfs.c:166` does, which adds a
block of holes when the root already ends at a block; nothing reads them.

### Memory

Every C function is an operator from a memory (`free`, page tables, trapframes,
sizes) to the next one, so that a call is one step, and the error paths nest as in
the code. `quota` says how many more pages `kalloc()` finds during a call, and
takes every value: this is failure at every allocation, whatever the cause. Page
tables have three levels of two entries. Sizes count half pages, so that they can
end inside a page. `bad` is a panic (`remap`, `uvmunmap: not mapped`,
`freewalk: leaf`) or a page freed twice. The variant `MutCopied` of `fork` sets
`np->sz` before `uvmcopy()` as `forkn()` does (Assignment1_2 `proc.c:721`): it
panics when the copy fails.

### UserCopy

The same approach for `walkaddr`, `copyin`, `copyout`, `copyinstr`, `uvmclear`,
`fetchaddr` and `fetchstr`: a call is a step, and `Turns` is the loop over the pages
of the range that three of them share. The initial states are all programs of up to
three pages with any bytes, with a guard page at any place or none and the
trapframe's page on top. `CopiesAsAsked` compares each call with what it is for, byte
by byte. `copyout` does not look at `PTE_W`; permissions other than `PTE_U` are not
modelled.

### LineBuffer, Tty

`LineBuffer` is the promise of the console: a line that can be edited until it is
ended, and what was typed comes out once and in order. `Tty` is `console.c` over
`uart.c`: the interrupt handler is a thread of its own; `uartputc_sync` for an
echo tests LSR and writes THR in two steps without a lock; `uartstart` runs under
`uart_tx_lock` both from a writer and from the handler. `fifo` counts what the
UART has to send. The two senders can both see it idle and then both write: the
16550's FIFO is needed for that, and two places of it are enough (`TtyMoves`).

### Shell, Umalloc, Filters

`Shell` is the parser of `sh.c` (tokens to a tree) and `runcmd()` as the list of
system calls each process makes, over the processes, descriptors and pipe ends the
kernel gives. Any `fork` and any `open` may fail. `Umalloc` is the circular free
list of `umalloc.c`; `Sbrk` makes gaps in the heap. `Filters` is `grep` and `wc` on
an input that `read()` returns in any pieces. The matcher is recursive as in the code;
`Found` says independently of it what a pattern means, by splitting the line among
the pattern's items. What the code makes of the corners is kept, and stated in
`InputRead`: `grep` does not look at a last line without an end, and takes a line
that fills its buffer for the end of the input, since it then asks `read()` for 0
bytes.

### What composes what

`MCSysfile` has `Sysfile` over `Fs` over `Mkfs`. `MCSched` and `MCKernel` put
components that share no state side by side in one run: `part` is chosen in the
initial state and says which of them moves, so that the states are the sum of the
parts' and each property is checked over all states of its part. `Log` stands on
the blocks that `BlockStore` promises, `Fs` on the atomic calls of `AtomicDisk`,
`Proc` on the locks and switches that `Trap` shows to be sound, and `Shell` on the
processes of `ProcTree` and the pipes of `ByteStream`.

## 3. The runs

| run | instance | states | shows |
|---|---|---|---|
| `log` | 2 processes, 2 blocks, 2 values, `LOGSIZE` 8, `MAXOPBLOCKS` 4 | 67 448 | refinement to `AtomicDisk`, reservation of space, pinning, no panic, sleepers are woken |
| `log_full` | 3 processes, each of one block, `LOGSIZE` = `NLOG` = 3 | stops | finding 1: the header block is not counted |
| `proc` | `Proc`: 3 slots, 2 processors, IDs up to 4, IDs 2 and 3 may be killed. `Trap`: 2 tasks, 2 processors. `Shell`: 11 lines, 6 processes. `Umalloc`: heap of 11 units, requests of 1 and 3. `Filters`: all inputs up to 5 characters, 5 patterns, buffers of 5 and 2 | 278 375 | stacks, wakeups, kills, the process tree; interrupts and locks; the wiring of pipes; the heap; the filters |
| `proc_live` | `Proc` with IDs up to 3, ID 2 may be killed | 17 283 | orphans are collected |
| `proc_status` | 2 slots | stops | finding 2: `wait()` always reports 0 |
| `forkall` | 3 slots, 2 processors, IDs up to 4, no kill | 213 548 | the tree with `forkn` and `waitall`; `local_statuses` never overflows |
| `forkn_deadlock` | 4 slots | stops | finding 3: lock order |
| `waitall_kill` | 4 slots, IDs up to 5, only process 3 exits (`OnlyVictimExits`) | stops | finding 4: `freeproc` without the lock |
| `fs` | 2 processes, 3 inodes with a slot each, 4 blocks, 1 direct and 1 indirect block per file, names d and f | 701 693 | names, link counts, references, blocks and locks after every path through every call |
| `fs_iput` | 2 processes that make and remove one directory | stops | finding 5: an inode is never freed |
| `fs_dotdot` | 1 process, two directories | stops | finding 6: `..` of a removed directory |
| `kernel` | `Pipe`: 2 processes, 1 page, ring of 2, counters modulo 4. `Disk`: 2 threads of up to 2 buffers, 4 blocks, 3 buffers, 5 or 6 descriptors. `Memory`: 2 slots, 26 pages, sizes to 8. `Tty`: a reader, a writer, rings of 2 and 1, indices modulo 4. `UserCopy`: 4 pages of 2 bytes, 16 addresses, lengths to 5 | 583 701 | the three refinements; counts and ownership; failures; nobody forgotten; copies |

Why the bounds are enough. In `log`, two calls overlap and still leave room for
a third reservation, so space is both short and sufficient in the same run; two
blocks make a transaction whose installation can be interrupted half way, and
absorb writes to each other. In `proc`, three slots are init, a parent and a
child, with reparenting, and a slot that is reused (IDs up to 4); two processors
make every race between two kernel threads possible, and a third thread shows
through preemption. Two tasks on two processors let a thread move and find another's
`intena`, let `wakeup` meet a sleeper on its way to sleep, and let an interrupt
come in the scheduler's own loop. The shell's lines have every kind of node inside
every other that matters, and six that it refuses and an empty one; six processes are what the
longest of them needs. A heap of 11 units has room for three blocks, joined from
either side. `forkall` allows no kill because the race with kill has a run of its
own; deadlock is not an error there since `forkn` does deadlock. In `waitall_kill`
the constraint leaves out behaviours only; what TLC finds is a behaviour of the
full system.

In `fs`, the root, `d` and `f` take all inodes, and `f` can take every block but the
root's, so that both run out; one process moves in and out of a directory that the
other removes. `NINODE` is the number of inodes, so that the table never fills: with one
slot less, and an inode more to tell the difference, the panic of `iget()` is
reached and the states are too many for a run. What size is enough is proved instead
(`InodesAreFound`). `MaxLink` bounds link counts; no run makes a device, which would
multiply the states for the sake of one branch of `Exists`. In `kernel`, counters
modulo 4 over a ring of two reach a full ring before and after the wrap; one file table with
two entries makes `filealloc` fail after it has succeeded once; five descriptors
make a second request wait, six do not; three buffers, one of them pinned, make each
miss recycle a buffer, and are fewer than two threads with two blocks each can use, so
that they also come to the panic of `bget()`; 26 pages run out when both processes are at their
greatest and one calls `exec()`, and `quota` fails every allocation in turn. A page of
two bytes under lengths of up to five makes a copy begin and end inside a page and go
over two boundaries. In `Filters`, five characters make two lines and a piece of a
third, and a line that just fits or just does not; the patterns have every operator,
and one needs a star that gives back what it took.

The bounds by name: `MaxPid` (IDs handed out), `KillPids`, `Statuses`,
`ForkCounts`, `WaitCounts` (what user programs ask for), `OPBLOCKS` (blocks a
file system call writes), `Typed`, `MaxLines`, `MaxProcs`, `Requests`, `MaxBrk`,
`Calls`, `MaxLink`, `NINODE`, `Counts`, `MaxPins`, `Over` (in the run, one block of each pair is the one that changes), `MaxSz`, `MaxQuota`, `Deltas`, `Programs`,
`Targets`, `UAddrs`, `MaxLen`, `Sources`, `MaxInput`, `Patterns`. The run `kernel` has a `CONSTRAINT`: bytes in a pipe are numbered by
their place, since `pipe.c` never looks at one (`NumberedBytes`); one block has
contents that change (`OneBlock`); with descriptors for both threads only two
blocks are used (`TwoBlocks`); input is not read while output is written
(`InOrOut`). The `VIEW`s leave out what no step reads before it is set again, and
names that no step tells apart. Deadlock is checked but in `forkall` and
`kernel`: there a system may stop, because all pipes' users may sleep, and
`Tty` waits for a key.

Fairness. In `Log`: the committing process goes on, the disk answers, and a
call that has begun comes to its end; `EndOp` is strong because the call may
have to log more first. In `Proc`: the scheduler's round robin and spinlocks
starve nobody for ever (strong fairness of `Dispatch` and `Continue`, since a
lock comes and goes), a thread that computes is interrupted by the timer, and
init goes on calling `wait()` with addresses that are mapped. Atomic swaps give
no such guarantee by themselves; without it nothing in this kernel is live. The
other modules state no fairness: that nobody is forgotten there is an invariant
(`NoSleeperForgotten`, `ChainsOwned`, `TtyMoves`, `InterruptsRestored`): who sleeps
has a reason to, or somebody is on the way to wake it.

## 4. The properties

| property | what would break it |
|---|---|
| `AtomicDiskSpec`, `DirtyIsPinned`, `LogSpaceReserved` | a crash between two writes of a commit; a pin lost by absorption; a reservation not counted |
| `StackSafe`, `NoLostWakeup`, `KilledWasNamed`, `WaitFailsHonestly`, `ProcTreeSpec` | a zombie freed on its stack; a child that exits between scan and sleep; a kill of a reused slot |
| `NoTrapPanic`, `InterruptsRestored` | `push_off` that leaves interrupts on; `intena` of another thread after a switch |
| `BuffersCounted`, `BlockStoreSpec`, `ChainsOwned` | a buffer recycled between `bget`'s two locks; a chain not freed whole; a sleeper for descriptors nobody wakes |
| `PipeLives` (with `RefsCounted`), `NoSleeperForgotten`, `StreamSpec` | a file shared by `fork` counted once; a pipe freed with a side open; a full ring taken for an empty one after the wrap |
| `NamesLead`, `LinksCounted`, `NothingLeaks`, `BlocksOwnedOnce`, `NoPanic` | `iput` that frees an inode another process has; an error path that keeps a reference; a count not written back |
| `PagesOwnedOnce`, `FailureChangesNothing` | a size set before the memory is there; a page or a prefix of the copy kept after a failure |
| `TtyMoves`, `LineBufferSpec` | output left in the ring with no interrupt to come; a key that erases into an ended line |
| `CopiesAsAsked` | a guard page read or written; a string taken without its end; bytes of the wrong page after a boundary |
| `ShellWired`, `HeapTiled`, `InputRead` | an end of a pipe left open; neighbours that are not joined, or joined over a gap; what a read left over lost, or a star that never gives back |

`PROJECT.json` has, for each property, a change of the code that breaks it.

## 5. Findings, and what else the models show

1. `log_full`: `begin_op()` counts on `LOGSIZE` data blocks (`param.h:10`), mkfs makes
   a log of `LOGSIZE` blocks with the header in it, and `log_write()` panics one
   earlier still, before it looks for absorption. `LogFits` says what is needed
   instead; today's callers of the log satisfy it.
2. `proc_status`: `exit()` throws the status away (`usertests.c:892` expects it).
3. `forkn_deadlock`: `forkn()` takes `wait_lock` after a `p->lock` (comment at `proc.c:28`).
4. `waitall_kill`: `waitall()` calls `freeproc()` without `p->lock` (comment at
   `proc.c:149`), and a new process can be born killed.
5. `fs_iput`: `iput()` frees an inode on disk, lets go of its lock, and only then
   gives its reference up (`fs.c:357`). If another process has been given the
   inode number in between and has unlinked the new file, neither of the two frees
   it, against the comment at `fs.c:332`.
6. `fs_dotdot`: the entry `..` of a directory that was removed while it is somebody's
   current one outlives the inode it names, and `ilock()` panics on it (`fs.c:314`).

Seen while modelling, and kept in the models as the code has it: a file made in a
directory that was removed is lost when that directory is freed (`lost`); a killed
writer leaves bytes in a pipe that no reader is woken for (`silent`); `walk()` keeps
page-table pages it added when a later allocation fails, until the table is freed
(`FailureChangesNothing` allows it); `sbrk()` to below 0 does nothing and reports
success (`Shrink`); two threads short of descriptors wake each other in turn, since
`alloc3_desc()` frees what it took (`NoDesc`).

Two panics for want of room can be reached with the numbers of `param.h`, and no
document says that they cannot. `bget()` (`bio.c:88`): `NBUF` is 30, for 64 processes
of which each holds up to two buffers; 31 that read different blocks are
enough, with nothing pinned. `iget()` (`fs.c:266`): `NINODE` is 50, while 100 files may be
open; four processes with 16 files each are enough. The models stop the thread or the
process there; `BuffersSuffice` and `InodesSuffice` say what would be enough.

## 6. What is proved

`Log_proofs` proves for all constants that satisfy `LogSizes` and `LogData`:

- `Invariance`: `Inv`, the conjunction of `TypeOK`, `Counting` (`outstanding`
  counts the processes inside a call, and nobody is inside while the one that
  commits does), `Looping` (the loop index stays within the header, and no header
  names a block twice) and `Pinning` (one pin for each block that is logged and
  not yet installed, none for the others, and only such a block may be newer than
  its home). `TypeOK` and `DirtyIsPinned` (theorems `TypeCorrect`,
  `DirtyStayPinned`) follow. Neither is inductive alone: `install_trans()` takes a
  pin off each block of the header, which keeps `pins` a number only if each had
  just one.
- `SpaceInvariance`, `SpaceReserved`: `Inv` with `Spending` (what a call in
  progress has written is logged, and at most `OPBLOCKS` blocks), by counting the
  reserved slots not yet used.
- `PanicFree`: with `LogFits`, the header never reaches a bound of `log_write()`
  while a call still has something to log.

The second half of `Log_proofs` is `LogImplementsAtomicDisk`, `Spec => AtomicDiskSpec`.
Its invariant adds `Header` (in which phases the header on disk is the one in
memory, and in which it is empty) and `Copied` (how far the contents have come,
from the cache to the log and from the log home): installing leaves `Recovered`
alone because the log has the block, and clearing the header does because by then
every home has it.

`Proc_proofs` proves, for every `NPROC`, every set of processors and every
`MaxPid` (`TypesKept`, `StacksSafe`, `WakeupsNotLost`, `KillsReachTheNamed`), the four
invariants of `Proc`, and `WaitFailsHonestly` (`WaitIsHonest`). The inductive
invariant says who holds which lock at which label, since it is the locks that
make the rest true:

- `Stacks`: what a processor runs is a live process or a zombie that runs nowhere
  else, and while it is in `sched()` it holds its own `p->lock`. It is by this lock that
  nobody frees the stack of a zombie that is still on it.
- `Embryos`, `Victims`, `WaitLocked`: a slot in the state USED belongs to one `fork()`;
  `kill()` has the lock of the slot it has found; `wait_lock` is held by the one thread
  whose label is in `Exiting` or `Waiting`.
- `Rouses`: no zombie is behind the index of its parent's scan unless the scan knows of it,
  no sleeper is behind the index of the `wakeup()` meant for it, and no parent sleeps
  while its child dies. `NoLostWakeup` is about one moment and not inductive: whether
  a sleeper is woken was settled when the loops passed its slot.
- `Named`: a process in `KillMark` still holds the lock of the slot with the ID it was
  given.

`KillsReachTheNamed` assumes that nobody calls `kill(0)` (`0 \notin KillPids`). This
is needed: free slots have the pid 0, `kill(0)` marks one of them (`proc.c:615`), and
`allocproc()` does not clear the mark, so that the next process is born killed.

Its last part is `KernelKeepsTheTree`, `Spec => ProcTreeSpec`. What the refinement
adds is `Numbers` (an ID is in one slot, below `nextpid`, and 0 in a free slot) and `Kinship`
(the parent of whoever has one is alive and has not yet been through `reparent()`; a
child gets its parent between the two halves of `fork()`).

`ForkAll_proofs` proves the same of the table with `forkn()` and `waitall()`:
`AllStacksSafe`, `TreeKeptByAll`, and `StatusesBounded` and `ParentsReap` besides. The
invariant of `Proc` speaks of labels in sets (`Forking`, `Holding`, ...) that name those
of the new calls too, so that its steps are not proved again; what is proved is that the
new steps keep it, and that the old ones keep what the new calls rely on:

- `Locked`: `forkn()` keeps `np->lock` from `allocproc()` until the child may run, across
  its wait for `wait_lock`; nobody else can look at the half-made child.
- `Doomed`: the zombie that `waitall()` frees without its lock is still a zombie, still
  the caller's child, and off its stack. `wait_lock` keeps every other collector away, and
  a zombie whose lock could be taken once has left its stack for good.
- `Idle`, `Apart`: a slot without a running process is in no call; nobody is a parent of
  itself.
- `Counted`: the statuses collected, the children left, the caller and init are different
  slots. Not inductive without `Spare`: between the copy of a status and `freeproc()` one
  child is counted on both sides.

`KilledWasNamed` and `NoLockCycle` are not theorems of this table: they are what findings
3 and 4 violate.

`Trap_proofs` proves `NobodyPanics` and `InterruptsComeBack` for any number of tasks
and processors. The assumption `TrapCpus` says that processor 0 is there and that
processors are not tasks. The conjuncts of the invariant for one processor are
`CountedAt` (it holds exactly the locks that its context holds at this label, and
`noff` is their number, with one more while it spins), `EnabledAt` (`intena` is
what the interrupts were before the outermost `push_off`: off in a handler, on in a
system call) and `ClockedAt`; `Placed` says that a task runs once, `Kept` that `saved`,
the `intena` on the stack of a thread in `sched()`, is its own. That is
what makes `mycpu()->intena = intena` at the end of `sched()` right: the field
belongs to the processor, the value to the thread. `Rousing` is for the sleepers.

`Disk_proofs` proves, for all numbers of threads, buffers and blocks that satisfy
`DiskSizes`, `BlocksCachedOnce`, `RequestsOwned` and the types (`FieldsInRange`). The
assumption asks for one buffer, for 3 descriptors, as many as a request takes
(`virtio.h:50` has 8), and that nobody reads over a block that block itself. It does
not say that there are buffers enough. `BuffersAreFound` has that as its hypothesis,
`BuffersSuffice`: two buffers for every thread and one for every pinned block; then
`bget()` finds a buffer, by counting (`OneIsUnused`). `param.h` has 30, which is no more
than the log may pin, for 64 processes. The invariant: `Counts` (a
block is in one buffer, and `refcnt` counts `Users` and the pin), `ThreadAt` and `LockOf`
(between `bget` and `brelse` a thread has its buffer, or its two, and the lock of each from
`acquiresleep` on: a buffer with users is never recycled), `Chains` (descriptors are
free or of one thread), `Requests` (what the device or the used ring has is the request
of one thread that waits for it) and `Awaited` (nobody sleeps for descriptors that are
there, and what the device has done has its interrupt on the way).

The second half of `Disk_proofs` is `CacheIsAStore`, `DiskSpec => BlockStoreSpec`, with
one more conjunct, `Fresh`: `valid` is set while a write waits and clear while a read
does, the device goes in the direction the driver asked for, and what has been read
is the block.

`Pipe_proofs` proves, for any number of processes, files, descriptors and pages and for
every `PIPESIZE` that divides `Wrap` and is less (`PipeSizes`: 512 and 2^32), the types
(`WindowKept`), `PipesLive`, `SleepersAreWoken` and `PipesAreStreams`, `PipeSpec =>
StreamSpec`. The invariant:

- `Refs`: `f->ref` is the number of descriptors of all processes and of the files in `f0`
  and `f1`, three cardinalities that each step moves by one; `fork()` adds all descriptors
  of a process at once.
- `Unset`, `PlaceAt`: a file whose type is not set belongs to the one call that makes it
  and has no descriptor, so that nobody finds a pipe half made.
- `Sides`, `Opened`: one file, or one process inside `pipeclose()`, stands for a side of a
  pipe; the flags `readopen` and `writeopen` say whether there is one, and the page is free
  when there is none. `fileclose()` gives the side from the file to the process when
  the last reference goes (`LastRef`: then no other process has it), `pipeclose()` ends it.
- `CallAt`: who reads or writes keeps a descriptor of that side, and so its page.
- `LockedAt`, `AsleepAt`: who is in a section has `pi->lock`; a sleeper may have what it
  sleeps for only while a process of the other side holds the lock, and that one wakes
  it before it leaves or sleeps. `NoSleeperForgotten` speaks of a free lock and is not
  inductive without this.

The arithmetic of the counters (`Remainder`, `Wrapped`, `PlacesDiffer`, `SamePlace`,
`RingFacts`) is proved once, for any `Wrap`: a byte is stored at a place of the ring that
no unread byte has, and a counter that wraps stays at its place because `PIPESIZE`
divides `Wrap`.

`Tty_proofs` proves, for any readers and writers and any sizes of the rings that satisfy
`TtySizes` (the size of the input ring divides `Turn`, the modulus of its indexes, and is less)
and `TtyProcs` (the handler and nobody are none of them): `BufferFits` (the types, which have the bounds of both rings, and `LocksOwned`: each of the
two locks is its owner's exactly at the labels of its sections), `ConsoleMoves` (`TtyMoves`) and `ConsoleIsLineBuffer`,
`TtySpec => LineBufferSpec`. The two halves of the invariant share nothing but the handler's
place:

- Input: `ConsHeld` (which labels have `cons.lock`), `Fits` and `Echoed` (the handler
  keeps the room for the character it echoes before it stores it, so that `e` never laps `r`),
  `Starved` (who sleeps or is about to has nothing to read: `r = w`; the store of a newline
  wakes all of them in the same section).
- Output: `TxHeld`, `Blocked` (who sleeps for room found the ring full, and every start takes
  one out and wakes it), `Room2` (what is in the FIFO and the two that have seen it idle,
  one with `uart_tx_lock` and the echo without a lock, are two at most), `Noticed` (output
  in the ring has a character in the UART, an interrupt or a thread to take it further).

`Sysfile_proofs` proves `NoCallLeaks` (`NothingLeaks`), `ReferencesHold` and `InodesAreFound`, for any
finite set of processes, any calls with paths of any length (`SysCalls`), any numbers of
inodes, blocks and names (`FsConstants`) and any image of the right types (`ImageFits`).
`NothingLeaks` speaks of the states between calls; the invariant has to say of every
step of every call what it refers to and what it has locked:

- `Shapes`: what is left of a call (`todo`) is at most one `iput()` under way, or the
  steps that free an inode, with one step of the call itself behind it.
- `Counted`: `ip->ref` is the number of `Units`, the current directories and open files that
  are this inode and the references of all steps left (`Refs`: a step has one to its inode `i`,
  and one to `j` where it works on two). A step of one process moves it by one at most,
  and leaves what the others hold alone.
- `Locking`: a process has locked exactly the inodes that its steps say (`PutLock`,
  `MainLock`), each once.
- `Recalled`: whoever has yet to look up the second path of `link()` is in a `link()`.

`ReferencesHold` is about the checks that `ilock()` and `iput()` rest on: what is used,
locked or about to be locked has a reference (`UsesCounted`, `fs.c:298`), and whoever puts
the last reference finds the inode unlocked (`LastPutFree`, the comment at `fs.c:344`). These
are the clauses of `NoPanic` that count references. `InodesAreFound` counts further, under
the hypothesis `InodesSuffice`: a process refers to five inodes at most (its current
directory, its open file, that of an `iput()` under way and two of its call), and to
four when it calls `iget()`, since it has then no `iput()` under way; so of five slots for
every process one is free. With the 16 open files of xv6 it would be 20 slots for a
process, and `param.h` has 50 in all. The other clauses of `NoPanic` hold only on the instances
of the runs: the stale `..` of finding 6 makes `ilock()` panic and the link counts and blocks
wrong once there are enough processes for it, so that no theorem states them for all
constants. In a state where a process panics, it stops, and the theorems go on for the others.

Only model-checked: liveness (`SleepersWake`, `OrphansReaped`), which is out of
TLAPS's reach; `TypeOK` (that no count of links is negative), `NoPanic`, `NamesLead`,
`LinksCounted` and `BlocksOwnedOnce` of `Sysfile`, for the reason just given; `Shell` and `Filters`, which are recursive; `Memory` and `UserCopy`, whose
operators fold over the pages of a range, and `Umalloc`, whose invariant follows the
free list to its end: what these compute for every list takes induction over data.

## 7. Not modelled

- Boot (`main.c`, `start.c`, `virtio_disk_init`, `plicinit`): runs once, on one
  processor; the `Init`s say what it leaves behind.
- The table of system calls, `printf.c`, `string.c`, `ulib.c`, `user/printf.c`:
  formatting, copying; no state that outlives a call.
- The kernel's page table, and permissions other than `PTE_U`. Where a copy may fail,
  the models other than `UserCopy` let it fail.
- The check of a device's major number in `sys_open()` (`sysfile.c:338`), which leaves by
  the path of a missing descriptor; a directory that needs a second block; the pages of
  the single arguments of `exec()` (`SysExec` has one for all). The number of
  ticks, of which `Trap` keeps what `due` says, and of `kill()` there only that
  `sys_sleep()` may return at any test.
- `forkn()` in `Memory`: it is there as the variant `MutCopied` of `fork()` only.
- `fstat`, devices other than the console, `procdump`, `^P`, the shell's `cd`.
- The copy of a file in the other assignment, where it is the same text.
- Test and demonstration programs (`usertests.c`, `grind.c` and the like): they say
  what the kernel should do; findings quote them. Generated files.

Much of the repository is of this kind: `usertests.c` and the second copy of the
kernel alone are half of its lines.

## 8. Plan

1. done: `Log`, `AtomicDisk` and their proofs; `Proc`, `ProcTree`, `ForkAll`.
2. done: `Pipe`, `Disk`, `Fs` with `Sysfile` and `Mkfs`, `Memory`, `Tty`, `Trap`,
   `Shell`, `Umalloc`, `UserCopy`, `Filters`, and the abstract specifications `ByteStream`, `BlockStore`
   and `LineBuffer`.
3. done: the proofs of `Log`, `Proc`, `ForkAll`, `Trap`, `Disk`, `Pipe`, `Tty` and `Sysfile`, with the
   refinements to `AtomicDisk`, `ProcTree`, `BlockStore`, `ByteStream` and `LineBuffer`.
4. To model, if it is worth a run: a device among the files; crashes in `Fs`
   between the transactions of one call, as `filewrite()` of many blocks has them.
