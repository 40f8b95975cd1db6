-------------------------------- MODULE Log --------------------------------
(***************************************************************************)
(* The redo log of xv6's file system (LAB3 kernel/log.c) over its buffer   *)
(* cache (kernel/bio.c) and the disk, with power failures at every step.   *)
(*                                                                         *)
(* Grain.  The critical sections under log.lock are one step each, and so  *)
(* is each synchronous write of a block, which the disk does wholly or not *)
(* at all.  Between bread() and brelse() a process holds the sleep lock of *)
(* its buffer: bread(), the change, log_write() and brelse() are one step. *)
(* Log blocks and the header are written through the cache by one process  *)
(* at a time, so their buffers never differ from the disk.                 *)
(***************************************************************************)
EXTENDS Naturals, Sequences, FiniteSets, Functions

CONSTANTS Procs, Blocks, Values,
          Zero,         \* the value mkfs writes
          Absent,       \* the block is not in the cache
          Boot,         \* the first process, which runs fsinit() in forkret()
          MAXOPBLOCKS, LOGSIZE,
          NLOG,         \* sb.nlog: the blocks of the log and its header
          OpBlocks      \* blocks a file system call really changes

\* log_write() needs NLOG - 1 free data blocks although begin_op() reserves up
\* to LOGSIZE = NLOG: the calls must stay two blocks below MAXOPBLOCKS.
ASSUME LogAssumption ==
  /\ Boot \in Procs /\ Zero \in Values /\ Absent \notin Values
  /\ {MAXOPBLOCKS, LOGSIZE, NLOG, OpBlocks} \subseteq Nat \ {0}
  /\ MAXOPBLOCKS <= LOGSIZE /\ NLOG = LOGSIZE
  /\ OpBlocks + 2 <= MAXOPBLOCKS

VARIABLES
  home, logblk, head,              \* the disk: blocks, log blocks, log header
  buf, pins,                       \* the cache: data, references by the log
  outstanding, committing, lh,     \* struct log
  pc, wrote, tail                  \* each process; wrote: blocks of its call

diskVars  == <<home, logblk, head>>
cacheVars == <<buf, pins>>
logVars   == <<outstanding, committing, lh>>
vars == <<diskVars, cacheVars, logVars, pc, wrote, tail>>

\* pc is "down": waits for the boot; "user"; "asleep", "woken": in begin_op(); "op":
\* between begin_op() and end_op(); the points of commit(), "write_log",
\* "write_head", "install", "clear", and then "finish"; and those of
\* recover_from_log(), "r_head", "r_install", "r_clear".

LogSlots == 1..NLOG-1

Booting == pc[Boot] \in {"r_head", "r_install", "r_clear"}

\* After a power failure: an empty cache, and Boot about to recover.
NoneCached == [b \in Blocks |-> Absent]
NonePinned == [b \in Blocks |-> 0]
BootPc     == [p \in Procs |-> IF p = Boot THEN "r_head" ELSE "down"]

Init ==
  /\ home        = [b \in Blocks |-> Zero]
  /\ logblk      = [i \in LogSlots |-> Zero]
  /\ head        = <<>>
  /\ buf         = NoneCached
  /\ pins        = NonePinned
  /\ outstanding = 0
  /\ committing  = FALSE
  /\ lh          = <<>>
  /\ pc          = BootPc
  /\ wrote       = [p \in Procs |-> {}]
  /\ tail        = [p \in Procs |-> 1]

Goto(p, l) == pc' = [pc EXCEPT ![p] = l]

-----------------------------------------------------------------------------
(* The cache.                                                              *)

\* The data bread(b) returns, and the cache after it.
Data(b)   == IF buf[b] = Absent THEN home[b] ELSE buf[b]
Loaded(b) == [buf EXCEPT ![b] = Data(b)]

\* Any file system call reads a block.
bread(p, b) ==
  /\ pc[p] \in {"user", "op"} /\ buf[b] = Absent
  /\ buf' = Loaded(b)
  /\ UNCHANGED <<diskVars, pins, logVars, pc, wrote, tail>>

\* bget() recycles a buffer that nobody refers to.
Recycle(b) ==
  /\ buf[b] # Absent /\ pins[b] = 0
  /\ buf' = [buf EXCEPT ![b] = Absent]
  /\ UNCHANGED <<diskVars, pins, logVars, pc, wrote, tail>>

-----------------------------------------------------------------------------
(* The calls.                                                              *)

\* (Mutation: begin_op() does not look at log.committing.)
begin_op_eager(p) ==
  /\ pc[p] \in {"user", "woken"}
  /\ IF Len(lh) + (outstanding + 1) * MAXOPBLOCKS > LOGSIZE
       THEN Goto(p, "asleep") /\ UNCHANGED outstanding
       ELSE Goto(p, "op") /\ outstanding' = outstanding + 1
  /\ UNCHANGED <<diskVars, cacheVars, committing, lh, wrote, tail>>

\* begin_op(), from the call or from sleep().
begin_op(p) ==
  /\ pc[p] \in {"user", "woken"}
  /\ IF committing \/ Len(lh) + (outstanding + 1) * MAXOPBLOCKS > LOGSIZE
       THEN Goto(p, "asleep") /\ UNCHANGED outstanding
       ELSE Goto(p, "op") /\ outstanding' = outstanding + 1
  /\ UNCHANGED <<diskVars, cacheVars, committing, lh, wrote, tail>>

\* The panics of log_write().
Fits == outstanding >= 1 /\ Len(lh) < LOGSIZE /\ Len(lh) < NLOG - 1

\* (Mutation: log_write() without bpin().)
log_write_unpinned(p, b, v) ==
  /\ pc[p] = "op" /\ Fits
  /\ Cardinality(wrote[p] \union {b}) <= OpBlocks
  /\ wrote' = [wrote EXCEPT ![p] = @ \union {b}]
  /\ buf'   = [buf EXCEPT ![b] = v]
  /\ IF b \in Range(lh) THEN UNCHANGED lh ELSE lh' = Append(lh, b)
  /\ UNCHANGED <<diskVars, pins, outstanding, committing, pc, tail>>

\* bread(), a change of the data, log_write() and brelse().
log_write(p, b, v) ==
  /\ pc[p] = "op" /\ Fits
  /\ Cardinality(wrote[p] \union {b}) <= OpBlocks
  /\ wrote' = [wrote EXCEPT ![p] = @ \union {b}]
  /\ buf'   = [buf EXCEPT ![b] = v]
  /\ IF b \in Range(lh)
       THEN UNCHANGED <<lh, pins>>
       ELSE lh' = Append(lh, b) /\ pins' = [pins EXCEPT ![b] = @ + 1]
  /\ UNCHANGED <<diskVars, outstanding, committing, pc, tail>>

\* wakeup(&log), and p goes to l.
WakeAll(p, l) ==
  pc' = [q \in Procs |-> IF q = p THEN l
                         ELSE IF pc[q] = "asleep" THEN "woken" ELSE pc[q]]

\* Where the last end_op() goes: commit() does nothing when nothing is logged.
CommitPoint == IF lh = <<>> THEN "finish" ELSE "write_log"

\* (Mutation: end_op() without log.committing = 1.)
end_op_unmarked(p) ==
  /\ pc[p] = "op" /\ ~committing
  /\ outstanding' = outstanding - 1
  /\ IF outstanding = 1 THEN Goto(p, CommitPoint) ELSE WakeAll(p, "user")
  /\ wrote' = [wrote EXCEPT ![p] = {}]
  /\ UNCHANGED <<diskVars, cacheVars, committing, lh, tail>>

\* end_op(), up to the commit if this call is the last one.
end_op(p) ==
  /\ pc[p] = "op" /\ ~committing
  /\ outstanding' = outstanding - 1
  /\ IF outstanding = 1
       THEN committing' = TRUE /\ Goto(p, CommitPoint)
       ELSE WakeAll(p, "user") /\ UNCHANGED committing
  /\ wrote' = [wrote EXCEPT ![p] = {}]
  /\ UNCHANGED <<diskVars, cacheVars, lh, tail>>

-----------------------------------------------------------------------------
(* commit().                                                               *)

\* tail++; after the last entry of lh go to point l.
NextEntry(p, l) ==
  IF tail[p] = Len(lh)
    THEN tail' = [tail EXCEPT ![p] = 1] /\ Goto(p, l)
    ELSE tail' = [tail EXCEPT ![p] = @ + 1] /\ UNCHANGED pc

\* One block from the cache to the log.
write_log(p) ==
  /\ pc[p] = "write_log"
  /\ logblk' = [logblk EXCEPT ![tail[p]] = Data(lh[tail[p]])]
  /\ buf'    = Loaded(lh[tail[p]])
  /\ NextEntry(p, "write_head")
  /\ UNCHANGED <<home, head, pins, logVars, wrote>>

\* The real commit.
write_head(p) ==
  /\ pc[p] = "write_head"
  /\ head' = lh
  /\ Goto(p, "install")
  /\ UNCHANGED <<home, logblk, cacheVars, logVars, wrote, tail>>

\* One block from the log to its home, in the cache and on the disk; bunpin()
\* unless recovering.
install_trans(p) ==
  /\ pc[p] \in {"install", "r_install"}
  /\ LET b == lh[tail[p]] IN
       /\ home' = [home EXCEPT ![b] = logblk[tail[p]]]
       /\ buf'  = [buf EXCEPT ![b] = logblk[tail[p]]]
       /\ pins' = IF pc[p] = "install" THEN [pins EXCEPT ![b] = @ - 1] ELSE pins
  /\ NextEntry(p, IF pc[p] = "install" THEN "clear" ELSE "r_clear")
  /\ UNCHANGED <<logblk, head, logVars, wrote>>

\* log.lh.n = 0; write_head().  After a boot, the others may run.
clear(p) ==
  /\ pc[p] \in {"clear", "r_clear"}
  /\ lh'   = <<>>
  /\ head' = <<>>
  /\ IF pc[p] = "clear" THEN Goto(p, "finish")
     ELSE pc' = [q \in Procs |-> "user"]
  /\ UNCHANGED <<home, logblk, cacheVars, outstanding, committing, wrote, tail>>

\* The end of end_op() after the commit.
finish(p) ==
  /\ pc[p] = "finish"
  /\ committing' = FALSE
  /\ WakeAll(p, "user")
  /\ UNCHANGED <<diskVars, cacheVars, outstanding, lh, wrote, tail>>

-----------------------------------------------------------------------------
(* Failure and recovery.                                                   *)

Crash ==
  /\ buf'         = NoneCached
  /\ pins'        = NonePinned
  /\ outstanding' = 0
  /\ committing'  = FALSE
  /\ lh'          = <<>>
  /\ pc'          = BootPc
  /\ wrote'       = [p \in Procs |-> {}]
  /\ tail'        = [p \in Procs |-> 1]
  /\ UNCHANGED diskVars

read_head(p) ==
  /\ pc[p] = "r_head"
  /\ lh' = head
  /\ Goto(p, IF head = <<>> THEN "r_clear" ELSE "r_install")
  /\ UNCHANGED <<diskVars, cacheVars, outstanding, committing, wrote, tail>>

\* What a process does by itself inside begin_op(), end_op() and the boot.
KernelStep(p) ==
  \/ write_log(p) \/ write_head(p) \/ install_trans(p) \/ clear(p) \/ finish(p)
  \/ read_head(p)
  \/ pc[p] = "woken" /\ begin_op(p)

Next ==
  \/ Crash
  \/ \E b \in Blocks : Recycle(b)
  \/ \E p \in Procs :
       \/ KernelStep(p) \/ end_op(p)
       \/ pc[p] = "user" /\ begin_op(p)
       \/ \E b \in Blocks : \/ bread(p, b)
                            \/ \E v \in Values : log_write(p, b, v)

\* Processes go on in the kernel, and every file system call ends.
Fairness == \A p \in Procs : WF_vars(KernelStep(p)) /\ WF_vars(end_op(p))

Spec == Init /\ [][Next]_vars /\ Fairness
-----------------------------------------------------------------------------
(* Properties.                                                             *)

\* The panics of log_write() and end_op() (log.c:153, 220-223) are unreachable:
\* begin_op() lets a call in only when there is room for all of it.
NeverPanics == \A p \in Procs : pc[p] = "op" => Fits /\ ~committing

\* Whoever sleeps in begin_op() has a reason to, so some end_op() will wake it.
NoLostWakeup ==
  \A p \in Procs : pc[p] = "asleep" =>
    committing \/ Len(lh) + (outstanding + 1) * MAXOPBLOCKS > LOGSIZE

\* begin_op() "sleeps until the last outstanding end_op() commits" (log.c:21) and no
\* longer: it lets in whoever has room, whatever the calls before have written,
\* absorbed or reserved, and nobody else.
Admission == NeverPanics /\ NoLostWakeup

\* Everybody who sleeps in begin_op() wakes up: the calls that hold the log end
\* and commit.
SleepersWake == \A p \in Procs : pc[p] = "asleep" ~> pc[p] # "asleep"

\* What a recovery makes of the disk.
Recovered ==
  [b \in Blocks |-> IF b \in Range(head)
                      THEN logblk[CHOOSE i \in DOMAIN head : head[i] = b]
                      ELSE home[b]]

Seen == IF Booting THEN Recovered ELSE [b \in Blocks |-> Data(b)]

\* When the last end_op() has returned, what it and all calls before it wrote
\* survives a power failure (log.c:26, "log appends are synchronous").
Durable == outstanding = 0 /\ ~committing => Seen = Recovered

\* The log makes the calls between two commits atomic, wherever power is lost,
\* and the cache never shows anything else (log.c:10-22).
Abstract == INSTANCE AtomicDisk
              WITH stable <- Recovered, current <- Seen,
                   active <- {p \in Procs : pc[p] = "op"}
ImplementsAtomicDisk == Abstract!Spec
=============================================================================
