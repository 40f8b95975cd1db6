# TLA+ for SistOp

SistOp holds the operating-systems labs of a course: a shell with pipelines
(LAB1), xv6-riscv with semaphores added (LAB2), xv6-riscv with a multilevel
feedback queue scheduler (LAB3), and a FAT file system in user space on FUSE that
keeps a log of its own (LAB4).  This directory holds TLA+ modules for the parts of
these programs that keep state, TLC configurations that check them on small
instances, and TLAPS proofs about the process table, both schedulers, the spinlocks, memory, the semaphores
with pingpong, the log and the buffer cache for every number of CPUs, processes, semaphores, pages and blocks, and
about LAB1's parser for every line.

    tlc -workers 2 -config Proc.cfg MCProc       # one line per run, see "Runs"
    tlapm ProcProofs.tla                         # 715 obligations, about a minute
    tlapm DiskProofs.tla                         # and so on, see "What is proved"

Paths below are relative to `src/`; `xv6` is `LAB3/main/xv6-riscv/kernel` and `esq`
is `LAB4/main/esqueleto`.

## Inventory

| part | state | operations | talks to | what makes it correct |
|---|---|---|---|---|
| process table, `xv6/proc.c` | `proc[]` (state, chan, killed, parent, lock), `wait_lock`, `c->proc` | fork, exit, wait, kill, sleep, wakeup, yield, sched | scheduler (hand-over of `p->lock`), traps, everything that sleeps | no lost wakeup of a parent; a living parent for everybody; nobody touches a process that a CPU is still on; the preconditions of `sched()`; one order of locks |
| MLFQ scheduler, `xv6/proc.c` `scheduler()` | `p->priority`, the loop variables of each CPU | scan, run, adjust, boost | process table; `ticks` | priorities in range although the boost takes no lock; nobody starves; the five rules of `LAB3/main/README.md` |
| round robin, `LAB2/.../kernel/proc.c` `scheduler()` | the loop variable of each CPU | scan, run | semaphores and pingpong run under it | a bound on what others get while one waits; nobody starves |
| memory, `xv6/kalloc.c`, `vm.c`, `exec.c` | the free list, page tables, `p->sz` | kalloc, kfree, fork, exec, sbrk, exit, wait | process table, pipes (a page each) | no page lost or in two places, whichever allocation fails; a table agrees with its size |
| inodes and names, `xv6/fs.c`, `sysfile.c` | inodes on the disk and in `itable`, directories, the bitmap, working directories and open files | open, create, mkdir, link, unlink, chdir, write, close; iget, ilock, iput | log, buffer cache, processes | link counts and references exact; the copy in memory is the inode; no deadlock of two inodes |
| log, `xv6/log.c` | the header, pinned buffers, `outstanding`, `committing` | begin_op, end_op, log_write, commit, recover | file system calls, buffer cache | calls are atomic and durable over a crash; the log never overflows; nobody waits for ever |
| buffer cache and disk, `xv6/bio.c`, `sleeplock.c`, `virtio_disk.c` | buffers in order of use, sleep locks; descriptors, the queue, the interrupt | bread, brelse, acquiresleep; virtio_disk_rw, virtio_disk_intr | log, the device | one buffer per block; every request completes |
| pipes and files, `xv6/pipe.c`, `file.c` | ring buffers, `ftable`, descriptors | read, write, close, dup, pipe | sleep/wakeup, fork and exit | bytes in order, none lost; counts exact; the close of one end is seen at the other |
| console and UART, `xv6/console.c`, `uart.c` | `cons.buf` with three indices, the send buffer | read, write, the interrupt handler, echo | processes, the device | lines as edited, in order; no reader or writer left asleep |
| spinlocks, `xv6/spinlock.c` | `lk->locked`, `lk->cpu`; `noff`, `intena` and the interrupt flag of each CPU | acquire, release, push_off, pop_off | everything | mutual exclusion; no handler wants a lock its CPU has; a thread finds interrupts as it left them |
| traps, timer, system calls | trap frames, `ticks` | usertrap, kerneltrap, clockintr | process table, spinlocks | no preemption with a spinlock held; the clock goes on |
| semaphores, `LAB2/.../sem.c` | `sem_array[]` (value, init_value, lk) | sem_open, sem_up, sem_down, sem_close | sleep/wakeup; system calls | counting semaphores: no unit twice, no lost wakeup, nothing above the initial value |
| `LAB2/.../user/pingpong.c` | two processes, two semaphores | its `main()` | semaphores | lines alternate; both processes end |
| xv6's shell, `user/sh.c` `runcmd()` | the descriptors of a line's processes | fork, pipe, dup, close, wait | pipes, process table | the processes of a line end |
| mybash, `LAB1/main` | a pipeline of commands, the strings it owns, the file descriptors, the children; `$HOME` | parse, execute, builtins | the parser `parser.o`; fork, execvp, pipe, waitpid, SIGCHLD of Linux | what is executed is what was typed; no string used after it was freed; every line gives its prompt back; no child and no descriptor is left |
| FAT table and files, `esq/fat_table.c`, `fat_file.c` | the FAT on the image and its mapping, chains of clusters, directory entries, `nentries` | next/set cluster, read, write, truncate, delete, create | FUSE layer, the image file | disjoint chains that end; tree and image agree |
| FUSE operations, `esq/fat_fuse_ops.c` | the volume, `errno` | getattr, open, readdir, read, write, mknod, mkdir, unlink, rmdir, truncate | kernel FUSE (single thread, `-s`) | an operation that fails changes nothing |
| activity log, `esq/big_brother.c` | `/bb/fs.log`, an orphan directory in a cluster marked bad | find or create the log, append to it | FAT files | found again after a remount; hidden |
| file tree, `esq/hierarchy_tree.c`, `fat_fs_tree.c` | a binary search tree of paths, chains by directory, sizes | insert, search, delete, flatten | FUSE operations | it is a set of paths |
| mount, `esq/fat_volume.c`, `fat_filename.c` | the open image | mount, unmount, conversion of names | everything of LAB4 | - |
| mkfs, user programs, LAB0 | - | - | - | sequential |

Most of xv6 is the upstream kernel; the labs' own code is the scheduler, the
semaphores, pingpong, mybash and the whole of LAB4.  The hard behaviours are: the
interleaving of kernel threads, interrupts and devices (LAB2 and LAB3); two places
where the labs write shared fields without the lock (the priority boost and
`sem_close`); an operation of several steps one of which fails (a full disk, no
memory, a failed `fork()`); image and memory that must agree after an operation
fails halfway or the daemon dies (LAB4); crash recovery (xv6's log).
`PROJECT.json` lists each hazard at its line, with the properties that cover it or
the reason none does.

## Modules

| module | what it is | composed by |
|---|---|---|
| `Dispatch` | abstract: the life of a slot of `proc[]` and the binding of processes to CPUs | |
| `Proc` | LAB3's process table | |
| `ProcInv`, `ProcProofs` | its inductive invariant `IInv`, in nine parts; the proofs | `MCProc` |
| `Mlfq` | LAB3's `scheduler()` on several CPUs | `MlfqBypass` |
| `MlfqBypass`, `MlfqProofs` | `Mlfq` and a history variable that counts quanta; the proofs about both | |
| `RoundRobin` | LAB2's `scheduler()` on several CPUs | `RoundRobinBypass` |
| `RoundRobinBypass` | `RoundRobin` and a history variable that counts quanta | `MCThreads` |
| `Spinlock` | spinlocks under interrupts and switches, one store at a time | `MCThreads` |
| `ThreadsProofs` | the proofs about `RoundRobinBypass` and about `Spinlock`, side by side | |
| `Fs`, `FsProofs` | inodes, directories and names under the system calls, with power failures; the proofs | `MCFs`, `MCKernel` |
| `Memory`, `MemoryProofs` | physical pages and user page tables under fork, exec, sbrk, exit and wait; the proofs | `MCKernel` |
| `Console` | console and UART | `MCKernel` |
| `AtomicDisk` | abstract: a disk whose calls are atomic and survive a crash | |
| `Log` | `log.c` over a cache that may recycle any unpinned buffer | `MCDisk` |
| `BlockIO` | `bio.c`, sleep locks and the virtio driver with its interrupt | `MCDisk` |
| `DiskProofs` | the proofs about `Log` and `BlockIO` | |
| `Semaphore` | abstract: atomic counting semaphores | |
| `Sem` | LAB2's `sem.c` | `PingPong`, `MCUser` |
| `PingPong` | LAB2's `pingpong.c` on `Sem` | `MCUser` |
| `Pipes` | a pipeline of xv6's shell on pipes, files and descriptors | `MCUser` |
| `MyBash` | LAB1's shell with the children it starts | `MCUser` |
| `UserProofs` | the proofs about `Sem`, `PingPong`, `Pipes` and `MyBash`, alone and side by side | |
| `CommandLine`, `CommandLineProofs` | LAB1's shell up to `fork()`: parser, lists, builtins, redirections; the proofs | `MCSequential` |
| `FatFs` | LAB4's file system: table, files, log, FUSE operations | `MCFatFs`, `MCSequential` |
| `HTree` | LAB4's search tree | `MCSequential` |

`Proc`, `Mlfq` and `RoundRobin` implement `Dispatch`: `Proc` has all of fork, exit, wait and kill
and an arbitrary scheduler; the other two have the real scheduler of a lab and reduce the processes
to what it sees of them.  `PingPong` EXTENDS `Sem`: each of its actions is a statement
of `main()` conjoined with the action of the system call.  `Log` and `BlockIO` meet in what
`Log` assumes of the cache: a buffer with a reference stays, any other may go at any time
(`Recycle`), and a block is read and written as one.  `Fs` takes from `Log` that calls are atomic over a
power failure (`Crash` returns to a moment without calls).

`MCUser`, `MCDisk`, `MCThreads`, `MCSequential` and `MCKernel` run components that share no state **side by side**:
a variable `part` is chosen at the start and says which of them moves, so the states of the run are
the sum and not the product of theirs.  Where a component has fairness, each conjunct is repeated
for its own actions.  The properties of a part hold trivially in the others, whose initial
states satisfy them.

**`Proc`.**  `plock` and `wlock` are the spinlocks, held by CPUs; `cproc` is `c->proc`;
`ctx` says where a process is between the two `swtch()`; `pc`, `slot`, `havekids` and
`child` are the program point and the locals of `reparent()`, `wait()` and `fork()`.  A
critical section under one `p->lock` that takes no other lock is one action, enabled
when the lock is free; a lock that is carried over several steps (the hand-over
to the scheduler, `sleep()`, `fork()`) is explicit.  `wait()` and `exit()` are one action
for each iteration of their loops, and the timer interrupt can come at every
point where no spinlock is held.  A pid is its slot.  `wakeup(p)` touches only `p`,
because only `p` itself sleeps on channel `p`.

**`Mlfq`.**  Every CPU has its own `level` and `cursor`.  `p->priority++` and `--` are a load and
a store, as `kernel.asm` compiles them (80001f68..80001f82), so that the boost, which
takes no lock, can come in between.  `ticks%16==0` is a free choice: `ticks` is read
without its lock at a moment nobody controls, so every pattern of boosts is
included.

**`RoundRobin`.**  `cursor` is the walk of each CPU; as in `Proc` a slot is locked from the test of its state
to the first `release()` of the process, and from `sched()` until the scheduler lets go of it.  Everybody else's
change of a state (fork, wakeup, kill, wait) is one step that needs the slot unlocked.

**`Spinlock`.**  `todo[x]` is what thread `x` has still to do, as a sequence of operations; an operation is
replaced by its stores, a trap puts its handler in front.  The scheduler of a CPU is the thread of that name.  Here
alone a lock is `locked` and `owner`, written apart, and interrupts are the flag, `noff` and `intena`; the
other modules take a lock for one step and an interrupt for something that comes where no lock is held,
and `MutualExclusion` and `ThreadsOwnInterrupts` are why they may.  `Pick` leaves open whom the
scheduler prefers.

**`Sem`.**  Under `lk` an operation reads the value and then writes it, two steps with
`sem_close()` possible in between; its two stores come in either order.  `sleep()` is
one step here, `Proc` shows why that is right.

**`Log`.**  `home`, `logblk` and `head` are the disk; `buf` and `pins` the cache; the rest is `struct log`
and each process's point in `begin_op()`, `end_op()`, `commit()`.  The sections under `log.lock` and the
writes of one block are atomic; from `bread()` to `brelse()` a process holds the buffer's sleep lock, so
a change and its `log_write()` are one step.  `Recycle` is `bget()` taking a buffer nobody refers to, at
any time.  `Crash` empties memory at any step, also while `Boot` runs `recover_from_log()`.  The
refinement maps the stable disk to what a recovery would make of it, so that `write_head` is the
step that commits.

**`BlockIO`.**  `bcache` and `lru` are the buffers and the list of `bio.c`, `free`, `info`, `avail`, `used` the
virtqueue.  A critical section is a step; the device, which takes no lock, finishes requests in any
order and raises an interrupt that is taken later and may serve several.  Tasks store and install blocks as `Log` does:
a program of calls pins a block at most once before it unpins it (`Paired`), and unpins all it has pinned
(`ProgramsAssumption`).  `newest` is a history variable with what was stored last in each block.

**`Fs`.**  A step is what a process does between two places where it may block: a system call is the list
`todo[p]` of such steps, each of which puts those that follow it in front; `itable` has the copies in
memory with `ref`, `valid` and the sleep lock's holder.  An inode has one direct and one indirect block, and
blocks run out.  Three history variables name what the code does not promise: `stray`, a process
went on in a directory after its removal (it went through its `..`, made an entry in it, or opened or linked its `..` there); `lost`, an inode that was open and unlinked when power
failed; `slipped`, one that the race in `iput()` left behind (`fs_iput` shows it).

**`Memory`.**  Pages are alike, so the free list is its length; a page table is the set of its own pages and
of the user pages it maps.  A step maps one page, so that another process may take pages, or
run short of them, between two; `walk()` adds page-table pages as far down the path as there are free ones, and what it has added
stays when the rest fails.  `job[p]` is the call under way, `image[p]` the page table that `exec()` builds.  `PagesKept` compares what
is missing from the free list with what the processes own (`InUse`).

**`Console`.**  `cbuf`, `cr`, `cw`, `ce` are `cons` with its indices modulo `INDEX`; `txbuf` is the send buffer,
`thr` what the UART has to send.  The handler is one step for each character and two for each
echo, which spins with `cons.lock` held but not `uart_tx_lock`.  `taken`, `lines` and `line` are history.

**`Pipes`.**  Process 2k runs the k-th command, an odd one the shell of a stage; `todo[p]` is its program
(`runcmd()`, then `echo`, `cat` or a `head` that stops early).  A step is one critical section of `ftable.lock` or
`pi->lock`; indices of a pipe are modulo `UINT`, so that they wrap.  Faults are a failing `fork()` or `pipe()` and `kill()`.

**`MyBash`.**  A system call of the shell is a step; `ends` says who holds which end of which pipe, so that a
child of an earlier line that inherited one keeps a reader waiting.  The rules of Linux for
`waitpid()` with SIGCHLD ignored are in `waitpid` (external).  `blind` and `leaked` are history: the second `fork()` failed, the
first one failed after `pipe()`.

**`CommandLine`.**  A line is a sequence of tokens and a string the place of its token, so that what ran can be
compared with what was typed.  `heap` has the strings and commands that `malloc()` gave and nobody freed, and every
action that reads one says so.  A step of the parser is an iteration of one of its loops.  The parser itself comes as an object file: `parser.h`
says what it returns (external).  `fork()`, `pipe()` and `open()` succeed; `MyBash` has the failures.

**`HTree`.**  The recursive functions of `hierarchy_tree.c`, on records; a node is named by its key.  `spoilt` is set
when `delete_root()` destroys its data twice (every deletion of a node with two children whose
right child has a left one, and all that corrupt the tree are among these): use after free, nothing
is claimed from there on.

**`FatFs`.**  `disk` maps cells `<<cluster, slot>>` of the image to values; slot `F` stands for the cluster's
entry in the table, the others for directory entries.  `tree` has the `struct fat_file_s` of each path in
memory.  FUSE runs one operation at a time, so an operation is one action; but it is a
sequence of `pwrite()`s (`ws`), and `Perform` lets the daemon die between any two of them.  Then, and at `Remount`,
memory is lost and only the root is known.  Helpers have the names of the C functions and return what they write.
A cluster keeps old contents when it becomes a directory, so what a user writes is one of `Data`, that is what a scan for entries makes
of it: it is skipped (`Junk`), or it passes `ignore_dentry()` and is an entry (`Text`), as ordinary text does unless
its 12th byte has the bit 0x08 or one of its first eleven is not allowed in a name.
`damage` is a history variable: `Leaky` from the moment an operation meets a known defect that loses a
cluster or an entry (a full directory, an entry written over another, a directory
removed unread, death while creating), `Broken` when the daemon dies inside a deletion, a truncation or
between the two writes that grow a chain, and when `mkdir()` or the creation of the log makes a directory of a cluster with
`Text` in it, whose entries lead outside the table; nothing is claimed after that.  So the properties say that
this list is complete: without either of the last two conditions `ChainsApart` fails.  The search tree is taken for the set of its paths; `HTree` says when it is one.

## Runs

| run | instance | states | what it shows |
|---|---|---|---|
| `proc` (`MCProc`) | 2 CPUs, 3 slots; the same on 1 CPU, fair | 90 000 | no lost exit, whole families, `sched()` never panics, lock order, implements `Dispatch`; on one CPU an orphan is reaped, unless zombies of init in lower slots keep coming first |
| `proc_kill_free_slot` (`Proc`, `ProcKill.cfg`) | 2 CPUs, 3 slots | violation | `kill(0)` marks a free slot |
| `mlfq` (`MlfqBypass`) | 2 CPUs, 2 slots, 3 levels, fair | 76 000 | priorities in range, Regla 3, at most 9 quanta to another while one waits, no starvation, implements `Dispatch` |
| `mlfq_rule1`, `mlfq_rule5` (`Mlfq`) | 1 CPU, 2 slots, 3 levels | violation | Regla 1 and Regla 5 do not hold |
| `threads` (`MCThreads`) | `RoundRobin`: 2 CPUs, 3 slots; `Spinlock`: 2 CPUs, 1 process, timer interrupts anywhere | 49 000 | at most one quantum per CPU to another while one waits; mutual exclusion without a panic; each thread keeps its interrupt flag; nobody waits for ever for a CPU, or for a tick |
| `kernel` (`MCKernel`) | `Fs`: 2 processes, every pair of 9 programs, 3 inodes, 4 blocks, one power failure; `Memory`: 2 slots, 12 or 17 pages; `Console`: 5 scenes | 142 000 | cached inodes, link counts, references, blocks and pages right; no panic; calls return; console input and output in order and complete |
| `fs_iput` (`MCFs`) | 2 processes that create, close and remove one name | violation | an unlinked inode may stay allocated |
| `disk` (`MCDisk`) | `Log`: 3 processes, 2 blocks, log of 8, crashes at every step; `BlockIO`: 3 tasks, 4 blocks, 3 buffers, 8 descriptors | 158 000 | implements `AtomicDisk`; durable; admitted only with room and kept out only without; everybody sees the last data; every request ends |
| `user` (`MCUser`) | `Sem`: 3 threads, 2 semaphores; `PingPong`: N = 4; `Pipes`: 5 lines; `MyBash`: 3 sessions | 73 000 | implements `Semaphore`; alternation; bytes in order; counts exact; lines, pingpong and prompts come to an end |
| `sequential` (`MCSequential`) | `FatFs`: 4 clusters of 2 entries, 3 paths; `HTree`: 7 names, 8 insertions; `CommandLine`: sessions of 2 lines of up to 5 tokens | 286 000 | chains apart, tree = image, no leak, the log is always found again, the index is right; what was typed is executed, a rejected line says so, no string is used after it was freed |
| `fatfs_create` (`MCFatFs`) | `FatFs` as in `sequential` | violation | a new file takes the place of an entry that was not read |

Why the bounds are enough.

- `Proc`: three slots are init, a parent and a child, and they swap roles as slots are reused; two CPUs run any
  two of them at once, and the third is asleep, runnable or a zombie.  What needs four slots (an
  orphan with an older and a younger sibling) is left to the theorems, which hold for every `NPROC`.
- `Mlfq`: two slots and two CPUs are enough for every race on one priority: two adjusters exclude each other by
  `p->lock`, a boost on each CPU is the rest; three levels have a top, a middle and a bottom.
  `Bound` = 9 quanta is the exact value at that instance (8 fails);
  the theorem `FewQuanta` gives 12 there, two quanta for each level and CPU, whatever the number of slots.
- `RoundRobin`: `Bound` = 2, one quantum for each CPU, is exact (1 fails); three slots are one that waits, one before and one
  after it.
- `Spinlock`: two CPUs contend for each lock and the process moves between them; it is the worst case for the tick, for nobody
  else leads CPU 0 out of its scheduler.  Nothing is bounded: a handler is never interrupted, so the stacks are
  finite.  With two processes the safety properties hold too (2 160 000 states).
- `Sem`: one thread posts, one is woken, one takes its unit first; `SemMax` = 2 is the smallest value at
  which two units are outstanding.  `MaxValue` stops `sem_up()`, because a racing `sem_close()` can leave the value
  above `init_value`, where nothing stops it.
- `Pipes`: the message is longer than a pipe and wraps its indices; a pipeline of three has a command with both
  ends, and a shell in the middle; one fault at any point, and a shell with a single descriptor free.
- `MyBash`: lines in the foreground and background, of one, two and three commands, a daemon and a builtin; one
  failing `fork()` or `pipe()`.  `MaxKids` bounds the children by what the sessions can start.
- `CommandLine`: five tokens are two commands, an operator and a redirection with and without its name, or every operator
  in every place of a shorter line; the second line meets the flags, the heap and the home that the first one left.
- `Fs`: the nine programs have a file and a directory by the same and by different names, a link, a removal of what
  another uses, and a working directory removed; three inodes and four blocks make `ialloc()` and
  `balloc()` fail; three entries fill the root's block, so a directory grows.  `MaxCrashes` = 1, since a crash
  leads to a quiet disk, from which the same programs run again.
- `Memory`: with 12 pages even the page table of a new process may not be had, with 17 `exec()` gets as far as to
  commit while another process lives; segments of size zero and below the last one are among the images.
- `Console`: a buffer of two is filled by a line, so that it is handed over unfinished, and the indices wrap;
  two writers fill the send buffer and sleep.
- `Log`: two calls fill the log, so the third waits; calls of two blocks show atomicity, and a block written by two
  calls absorption.  `BlockIO`: eight descriptors serve two requests, the third waits; three
  buffers and four blocks force a recycling.
- `FatFs`: the clusters are the root, the orphan directory, the log and one more: every operation meets the full
  volume, and before the log is made a file has a chain of two.  The log itself grows only with
  `NC = 5`; with that and the single path `b` all properties hold too (89 000 states).  `Strikes` bounds a behaviour to
  one defect, `MaxSize` and `MaxLog` to three slots, and `OneText` to one slot of
  `Text` at a time.  The two also keep `Text` apart from `Leaky` defects.
  Zeros that a user writes read as the end of a directory, like cells that were never written.  With `Data` =
  `{End, Junk, Text}`, and with `Text` before and after every defect, all properties of `FatFs` hold too
  (1 244 000 states, too many for the run).  `HTree`: seven names give a tree of three levels, `MaxInserts` = 8 lets
  a name come back after its deletion.

Fairness.  Weak fairness for a thread in the kernel that nobody blocks and strong
fairness where it acquires a lock: the other holders release it over and over, and
`__sync_lock_test_and_set` succeeds in the end.  The timer interrupt is pending until
interrupts are enabled (strong fairness of `Yield`, `Stop`, and of the two timer actions of `Spinlock`).  In `Proc` a process that stays RUNNABLE is
run: that is `NoStarvation` of `Mlfq`.  On the two CPUs of `proc` no fairness is assumed, its
liveness is checked on one, which bounds the work of TLC.  In `RoundRobin` a CPU's walk is strongly fair, for the slot it stands
at may be locked now and then, and the timer takes a process off its CPU.  `user/init.c` does nothing but call `wait()` once its
shell runs.  User programs owe nothing: no fairness for fork, exit, kill or
their `wait()`.  In `Log` and `Fs` what is under way in the kernel goes on, and every call reaches its end; a
process need not start another one.  In `BlockIO` and `Console` the device finishes what it was given and its
interrupt is taken; in `Console` users type what they have to and programs go on reading and writing.  In `Pipes` and
`MyBash` a process that can go on does (a daemon never ends).  The liveness properties are `OrphansGo`,
`NoStarvation`, `ThreadsGoOn`, `CallsReturn`, `ConsoleServes`, `WaitsEnd`, `PingPongEnds` and `LinesEnd`; all others are
safety and use no fairness.  `ThreadsGoOn`, `WaitsEnd`, `LinesEnd` and `DescriptorsRight` join one property of each of two
parts, `NothingLost` is `NoLeak` and `LinkCounts` of `Fs`; `ImplementsDispatch` of `RoundRobin` and the inductive invariants
(`IInv`, `SpinInv`, `MemInv` and so on) are proved and no run checks them.

Each property has a mutant: a definition, commented "(Mutation: ...)", that changes an
action as a plausible bug would and breaks the property on the same instance.  Among them:
`wait_lock` is released before `sleep()` (`NoLostExit`), the wrong process is woken (`OrphansGo`), a zombie is freed
without its lock (`ImplementsDispatch`), `iunlock()` leaves a freed inode valid (`Coherent`), `link()` keeps the count of a link it
could not make (`NothingLost`), an inode is freed while others refer to it
(`NeverPanics`), `open()` returns with an inode locked (`CallsReturn`), `uvmdealloc()` frees the page the new size lies in (`PagesKept`),
the handler takes a line's room for the buffer's (`ConsoleServes`), a log write does not pin its buffer
(`ImplementsAtomicDisk`), `bget()` does not look whether the block is cached (`LatestData`), `free_chain()` wakes nobody (`WaitsEnd`), a CPU walks on from the first slot after a quantum (`BoundedBypass`), `release()` unlocks before it clears `lk->cpu`
(`LocksExclude`), `sched()` does not put `intena` back (`ThreadsOwnInterrupts`), `scheduler()` does not turn interrupts on
(`ThreadsGoOn`), the lists destroy what they hand out (`MemorySound`), `dup()` does not count (`DescriptorsRight`), mybash keeps the write end (`LinesEnd`).

## What disagrees with the code's own words

- **`kill(0)`** (`xv6/proc.c:617`): the slots nobody uses have pid 0; the first of them is
  marked killed and the process created there next is born killed.
- **Regla 1** (`LAB3/main/README.md:71`): after a quantum the scan goes on with the next
  slot and level, so a process runs while one of a higher level is RUNNABLE.
- **Regla 5** (`LAB3/main/README.md:79`): a process of level 0 that blocks is demoted, because
  `p->priority > 0 && SLEEPING` fails and the `else if` takes it (`xv6/proc.c:475`).
- **"the first free direntry space"** (`esq/fat_file.h:152`): `nentries` is 0 until a directory has been listed, and
  one too small after a full one has: the next file created there replaces an entry.
- **"If that was the last reference ..., free the inode"** (`xv6/fs.c:332-333`): between the release of both locks in `iput()` and its
  `ref--` (`fs.c:360`) the freed inode may be allocated, linked and removed again by another process, whose `iput()`
  sees two references and frees nothing; neither does the first one.  The inode stays allocated.

Also in the code, modelled in `CommandLine`, and claimed neither way by a property: a line of redirections only makes
`cmd_is_cd()` call `scommand_front()` on a command without arguments, and an assertion ends the shell (`Abort`;
`LAB1/main/builtin.c:19` against `command.h:119`).  In `ls > out.txt | wc < in.txt`, which
`LAB1/main/README.md:76` lists as tested, the second child opens the file after `<` for writing and makes it its output (`Pair`;
`execute.c:145`).  `cd` writes into the string that `getenv("HOME")` returned, so `cd ~` leads elsewhere from then on (`cd`;
`builtin.c:100`, `:114`, against `:93`).  `pop_front` frees nothing, and a second redirection overwrites the first, although
`command.h:21` says "el TAD se encarga de liberarla" and `:199` "Destruye el comando extraido"; `execute.c` uses
what it popped, so to free it there would be worse (`MemorySound`'s mutant).

Limits the models met, which no comment denies: `log_write()` has one block less than `begin_op()` reserves, since `sb.nlog`
counts the header (`LogAssumption`); calls that overlap for ever and absorb each other's writes
are never committed; a process that goes on in a removed directory makes `ilock()` panic with `..`, and can
create entries nobody reaches (`stray`); an inode that is open and unlinked stays allocated after a power failure
(`lost`); a new directory of LAB4 shows text of removed files as entries (`Text`); a `write()` of LAB4 fails because of an `errno` that an earlier operation left;
a truncation to the size of a file that fills its clusters, a creation on a full volume, and so the first
listing of a full volume without a log, kill the daemon.  In LAB4's search tree `delete_root()` keeps the minimum itself as
its parent (`esq/hierarchy_tree.c:209-213`): two levels down, the left subtree is lost or a cycle made.  In mybash pipelines
of three commands do nothing, a builtin at the head of a pipeline runs alone, a failing second `fork()` goes unnoticed
(`LAB1/main/execute.c:133` tests `pid1` again), and a failing first one leaves the pipe open.  Text after `&` is dropped
in silence, a line that starts with a redirection followed by another one or by nothing is rejected in silence, and an error gives an empty
pipeline and not the NULL of `LAB1/main/parsing.h:10`.

`LAB3/main/README.md:134` says that processes starve.  For the code at hand `NoStarvation`
holds, with and without boosts: as the scan walks over all levels whatever
happens at the higher ones, a low process gets a turn in each round.

## What is proved

Each theorem is of the form `Spec => ...` and holds for every value of the constants that the named
assumption of its component allows; nothing else is assumed, and `tlapm` proves every leaf.

| module | obligations | from | theorems |
|---|---|---|---|
| `ProcProofs` | 715 | `ProcAssumption` | `Invariance` (`IInv`), `TypeCorrect`, `ExitsAreSeen`, `FamiliesStayWhole`, `SchedNeverPanics`, `LocksAreOrdered`, `Refinement` (`Dispatch`) |
| `MlfqProofs` | 788 | `MlfqAssumption`, `BypassAssumption` | `TypeCorrect`, `StartsOnTop` (`Rule3`), `Refinement` (`Dispatch`), `FewQuanta` (`BoundedBypass`, where `Bound` is at least 2 * `NPRIO` for each CPU) |
| `ThreadsProofs` | 2784 | `RoundRobinAssumption`, `BypassAssumption` | `Refinement` (`Dispatch`), `WalkIsFair` (`BoundedBypass`) |
| | | `SpinlockAssumption` | `SpinInvariant` (`SpinInv`), `LocksSafe` (`LocksExclude`), `InterruptsSafe` (`ThreadsOwnInterrupts`) |
| `FsProofs` | 8074 | `FsAssumption`, `WorkloadsAssumption` | `FsCoherent` (`Coherent`), `FsReferences` (`RefsCounted`), `FsBlocks` (`BlocksOwned`) |
| `MemoryProofs` | 2986 | `MemoryAssumption` | `MemInvariant` (`MemInv`), `PagesAreKept` (`PagesKept`) |
| `UserProofs` | 5556 | `SemAssumption`; for pingpong `PingPongAssumption` too | `NobodyLeftAsleep` (`NoLostUp`), `Refinement` (`Semaphore`), `LinesAlternate` (`Alternation`), `UsesSemaphores` |
| | | for `Pipes` `PipesAssumption` and `PipelinesAssumption`, for `MyBash` `SessionsAssumption` | `PipelineFiles` (`FilesCounted`), `NothingIsLeft` (`NothingLeft`), `DescriptorsKept` (`DescriptorsRight`) |
| `DiskProofs` | 4592 | for `Log` `LogAssumption`, for `BlockIO` `BlockIOAssumption` and `ProgramsAssumption` | `AdmissionIsSound` (`Admission`), `CommittedIsDurable` (`Durable`), `Refinement` (`AtomicDisk`), `IOInvariant` (`IOInv`), `DataIsLatest` (`LatestData`) |
| `CommandLineProofs` | 2044 | `LinesAssumption` | `LineInvariant` (`LineInv`), `WhatWasTyped` (`AsTyped`), `MemoryIsSound` (`MemorySound`) |

**`ProcProofs`.**  None of the safety properties of run `proc` is inductive.  `NoLostExit` speaks of a parent that is asleep, when it
is too late: the wakeup was lost while the parent still scanned.  So `Exits` speaks
of a parent from its scan on (the children it has passed are not zombies) and of
a child between `wakeup(p->parent)` and ZOMBIE (its parent is not on its way to sleep).
Both hold because `wait_lock` is held all along, which is `Wlock`; and that a CPU with a
lock in hand is not preempted is `Points`.  `FamilyTree` rests on `Reparented` (what the loop
of `reparent()` has passed is done) and on `Forks`, since a child gets its parent before
it becomes RUNNABLE.  `SchedLocks` and `LockOrder` rest on `Plocks`, which lists the
three reasons for which a CPU holds a `p->lock`, and on `Binding`, which ties CPUs,
contexts and states.  There is one lemma for each action, with one step for each conjunct
the action can disturb; the refinement maps each action to one of `Dispatch` or to
a stutter and needs `Binding` and `Plocks` to show that a process whose lock is free is
on no CPU or RUNNING.

**`MlfqProofs`.**  The boost writes `p->priority` without `p->lock` between the load and the store of an
adjustment; priorities stay in range because `reg`, what the adjusting CPU is going to store, was computed in range
from what it loaded (`TypeOK` has both).  `Rule3` and the refinement rest on `Binding`: no two CPUs are on one process, it is RUNNING until it
stops, and from then on nobody touches its state before the scheduler has stored its priority.
For `FewQuanta` each quantum that `p` gets while `q` waits is charged to the CPU that gave it.  `Left` bounds how often that CPU can still come by
`p`'s slot before it finds `q`: what is left of this round over the levels, the next round if it has missed `q` in this
one, and once at level 0, where a boost may put `q` at any time.  That is two visits for each level at the start, each quantum takes one, and no
step of another CPU, a boost included, adds any: while a CPU is about to lower `q` from level 0, `q` counts as lowered already (`Floor`).

**`ThreadsProofs`, `RoundRobin`.**  `Binding`, as in `MlfqProofs`, gives the refinement.  For `BoundedBypass` each quantum that `p` got
while `q` waits is charged to a CPU: one whose walk is now between `p` and `q` (`Past`).  A CPU that comes to `q` while `q` is
RUNNABLE runs it, so a walk that has passed `p` cannot come by `p` again before `q`, and no CPU is charged
twice: `bypass[q][p]` is at most the number of CPUs in `Past`.

**`UserProofs`, `Sem`.**  `SemInv` is `Types`, `Holders` (a thread holds `lk` exactly between its load and its store) and
`Sleepers`: whoever sleeps has no unit to take, or the `sem_up()` that will wake it is at its store.  `sem_close()` writes
without holding `lk` all along.  The refinement map shows the value that the thread in its critical section is about to store, so a zero
written meanwhile is overwritten, as in the code, and does not show.

`PingPong` is `Sem` with the two programs: `UsesSemaphores` says that each of its behaviours is one of `Sem`, so that `SemInv` holds
of it too.  `Alternation` follows from `PingInv`: between the setup and the first `sem_close()` there is one unit, in one of the semaphores or
taken by one of the processes, and where it is tells who has printed more (`Travels`); who closes has N lines behind it, and the other has
at most its last one to print (`Unit`).

**`UserProofs`, `Pipes`.**  `FilesCounted` says what refers to a file at this moment, and to keep it one has to know what comes: a descriptor that
`sh.c` is about to close must be open, and open on what it means.  `PipesInv` takes the references to a file as one set, pairs of a process and a
descriptor, or of a process and the call it is in (`References`, `FilesExact`), and the end of a pipe as held by one file or by one
`pipeclose()` that is on its way, never by both or by two (`Ends`).  The list of a process is in the order that `runcmd()`, `sys_pipe()` and `exit()`
write down (`Precedes`): a call under way comes first, a child redirects before it closes the two ends, a parent
forks before it closes them.  Given that order, `Linked` and `Ready` say that `p[]` names two open descriptors other than 0 and 1 until they are closed,
that `dup()` finds the descriptor free that `close()` has just freed, and that whoever forks has its input and output open.  The two files of a `pipe()`
that is not complete are its own (`Reserved`), so its failure returns both.  A process that has not been forked has no descriptors, nor will
anybody else fork it (`Unforked`); then `fork()` adds to each file exactly the descriptors it copies.  `PipelinesAssumption` says that
lines are not empty and of bounded length and that the shell starts with 0, 1 and 2 open.

**`UserProofs`, `MyBash`.**  `BashInv` says at each place of `execute_pipeline()` which ends the shell holds (`OwnEnds`: those of the pipe of the line it is
starting, no other) and for which children it still has to wait (`Awaited`); a failing call leaves both, except the first `fork()`, which sets `leaked`.
`DescriptorsKept` joins the two for `USpec`, whose steps are steps of one of them or leave both alone (`PartsMove`).

**`DiskProofs`, `Log`.**  `begin_op()` looks at `lh.n + (outstanding + 1) * MAXOPBLOCKS` once, and the calls it
let in go on writing.  `Admission` is therefore not inductive.  `LogInv` has `Reservation`: while calls are
under way, `Len(lh) + outstanding * MAXOPBLOCKS` exceeds `LOGSIZE` by at most the number of pairs of a call
and a block it has written.  A new entry of `lh` comes with a new pair, an absorbed write only adds a pair, and a
call that ends takes `MAXOPBLOCKS` off the left side and at most `OpBlocks` pairs off the right one.  With at most `OpBlocks` pairs for each call,
counted by an injection (`FewPairs`), there is room for the next block: this is where `OpBlocks + 2 <= MAXOPBLOCKS`
is needed, because `sb.nlog` counts the header.

For durability and the refinement, `DiskInv` adds what relates the cache, the log and the disk: a buffer differs from its home only while its
block is in `lh`, and then it is pinned (`Cache`, `Pinned`); no block is twice in `lh`, by absorption (`Lists`); each point of `commit()`
and of the recovery knows how far its loop has copied (`CommitPoints`, `RecoverPoints`); and the header on the disk is
empty unless the log is being installed.  Then `write_head()` is the abstract `Commit`, `log_write()` the abstract `Write`, and every copy between
the cache, the log and the homes is a stutter, also when the recovery itself is cut short and starts over: what `Recovered` takes from the log, an installation
writes to the very place it is taken for.

**`ThreadsProofs`, `Spinlock`.**  What a thread has still to do is a list of operations.  `Does` says what each operation needs of the state of its
thread (the locks it holds or has half released, `noff`, whether interrupts are on) and what it leaves; a list is typed when it
leads from one such state to another.  `SpinInv` says that the thread on each CPU is in a state from which its list
leads to its end, that a suspended one waits for `p->lock` to be handed to it, and that the locks are where these states say, each in one
of them at most.  An interrupt puts a typed list in front of a typed list, which is why a handler can come anywhere.

**`MemoryProofs`.**  `MemInv` says that a page table maps the first pages of user space and no other, and how many is known from the
program point of its process (`Slot`; `Child` for a slot that `fork()` fills), so that no `uvmunmap()` meets a hole and
`freewalk()` meets no leaf.  `Counted` has the pages: each action takes from the free list, or gives back, exactly what one owner gains or loses, also
where `walk()` or `uvmalloc()` fails halfway and unwinds.

**`DiskProofs`, `BlockIO`.**  `refcnt` counts the users of a buffer and those who have yet to unpin its block (`RefsCounted`), so
`bget()` never recycles a buffer somebody uses, and two that look for one block find one buffer (`Buffers`).  A block whose newest
data is not on the disk is owed an installation by somebody, and what is owed is in the cache (`Stored`).  The three descriptors of
a request belong to it until the process that made it has seen it served (`Chains`), and until the device has served it the
request says what the buffer says (`Requests`): so what the device writes late is what the sleeping process means.

**`CommandLineProofs`.**  The parser reads its line once from left to right, so `LineInv` says what it has read: the command it is
building has the words and the last redirections of the tokens it has passed since that command began (`Taken`), and the commands in the
list are the parts of the line up to an operator, the j-th after j - 1 of them (`Parsed`).  When an argument is missing the
part it stands in is bad (`NotAccepted`), and what was printed until then tells whether the user will be told (`Erring`).
`MemorySound` follows from the same facts: two commands have their tokens in two disjoint stretches of the line, so they own nothing in
common, and freeing the one that failed takes nothing from the others.  `LinesAssumption` says that a line is a
finite sequence in which the end of a line does not occur.

**`FsProofs`.**  `Coherent` is far from inductive: it says nothing while a lock is held, and who may change an inode depends on what
the others have still to do.  A call is a plan, a list of steps, so `FsInv` says what each step of a plan means for the inodes its
process points to: one is locked (`LockedAt`), found valid and to stay so (`FirmAt`), being freed (`FreedAt`), or merely referenced
(`UsedAt`).  The plans are in the order that `fs.c` and `sysfile.c` keep (`Tidy`, `Linked`), `ip->ref` is the number of cells that
lead to the inode (`RefsExact`: pointers, working directories and files, counted as one finite set), no pointer outlives its use (`Clear`),
locks are held as the plans say and nobody frees an inode that another process goes on with (`Keeping`).  `iput()` sees `ref == 1` under `itable.lock`, and
by `RefsExact` no other process has a pointer to the inode then, nor can one get it but by its number from a directory; so
between the two halves of the freeing the only wrong copy is the one `iput()` has locked itself (`Dropping`), which is `Cached`, and
`Coherent` follows.  The code does promise this although it does not promise that the inode is freed (`fs_iput`): after
`releasesleep()` the inode may be given out again before `ref--`, but as a valid, sound copy.
`FsReferences` is the first part of `NoLeak` without its condition `Quiet /\ ~stray`: the references are right also
after a panic and in directories that were removed.  `WorkloadsAssumption` says that the programs are finite lists of the calls modelled, with paths
that are not empty, and that `unlink`, `mkdir`, creation and the second name of `link` have a last name to look up; any
programs of that kind are allowed.

`FsBlocks` is what `panic("freeing free block")` in `bfree()` (`fs.c:96`) is there for: at every moment no block belongs to two
inodes, or to one twice, and the bitmap has every block that an inode has (`BlocksOwned`), also on a full disk and after a
power failure.  It is what `NoLeak` says of the
blocks, but for `bitmap` having no others, without its condition `Quiet /\ ~stray`.  It is proved as a part of `Layout`, whose other parts say what makes each write a write to the process's own inode:
`Aimed` (the pointers that the rest of a plan needs lead to inodes, `dp` of a step that makes or removes an entry is a directory,
the inode that `create()` is making has the type it gave it, and one that is being freed is valid and has not been freed yet),
`MadeKept` (nobody frees the inode that another process is making, because the pointer of `create()` counts in its `ref`) and `Forms` (the entries
of a directory lead to inodes of the disk or nowhere, free inodes are empty).  `Layout` is not inductive by itself: that a process
writes the blocks it finds in its copy is sound because the copy is that of the disk, which is `FsInv`.  So the two are proved together, with one lemma for each
action (`LayoutNext`).  `balloc()` takes the first free block of the bitmap, `bmap()` one for the contents and one for the indirect block, and
either may fail with what the other has taken kept; `OwnedTake` and `OwnedGive` say what that and `itrunc()` do to the owners.
`FsAssumption` says that processes and inodes are finitely many.

Only model-checked: `Pipes` (`Delivered`), `Fs` (the links of `NothingLost` and `NoLeak`, the other panics of `NeverPanics`: they need a count of the entries
that lead to an inode and the shape of the tree), `FatFs` (`ChainsApart`,
`TreeIsImage`, `NoLeak`, `LogKept`) and `HTree` (`IndexFindsAll`), whose functions are recursive, as in the
code, and out of the provers' reach.  Liveness is too: TLAPS proves none under fairness.

## What is not modelled

- `xv6/proc.c`: `setkilled`, `either_copy*`, `procdump` and pid allocation; `p->chosen` and `p->runtime` (statistics nobody
  reads to decide); `kill()` of init (a panic).
- `Memory`: the kernel's page table, which is built once; `copyin()` and `copyout()`, which change no page; what pages
  contain; pages of pipes (in `Pipes`, where `kalloc()` may fail).  `Console`: `^P`, printf, the PLIC.  `BlockIO`: the ring's memory
  barriers and registers.
- `Fs`: `mknod` and `fstat`, reads of files, `exec()`'s use of an inode, devices, files of more than two blocks.  `Pipes`:
  redirections, lists and `&` of `sh.c`; reads and writes of files (`Fs`).
- `Sem`: a semaphore index out of range (undefined behaviour, a hazard) and `sem_open()` on a semaphore in use.
- `Spinlock`: interrupts of devices, whose handlers take a lock of their own as the clock's does; system calls other than
  `sys_sleep()` and `sys_uptime()`; `kill()`; memory ordering (the fences of `spinlock.c` are taken to do what they say).
- `CommandLine`: an `open()` of a redirection that fails; the length of lines.  `MyBash`: redirections, which touch only
  the child's own descriptors.
- LAB4: times, I/O errors, counts of open handles, users who name `/bb`; the boot sector and the conversion of names.
- LAB1's `Execute_npipes_nofuncional` is not built.  `mkfs`, LAB0 and most user programs are sequential and
  keep nothing; `usertests.c`, twice 3101 lines, are tests.

The definitions stand for about a seventh of the repository's lines.  LAB2's kernel is, but for the semaphores and the scheduler, the
same upstream xv6 as LAB3's and is modelled once, from LAB3; with the two copies of `usertests.c` and the other
user programs that is more than half of all lines.

## Plan

1. Proofs: `Pipes`' bytes in order; link counts of `Fs` and the shape of its tree; disjoint chains of `FatFs`.
2. `FatFs`: an abstract tree of files with contents that it implements while no defect strikes;
   a `write()` of several clusters.
3. `Fs` over `Log`: the blocks that each call writes, against `MAXOPBLOCKS`.
