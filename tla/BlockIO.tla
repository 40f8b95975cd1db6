------------------------------ MODULE BlockIO ------------------------------
(***************************************************************************)
(* A block on its way between a process and the disk: the buffer cache     *)
(* (LAB3 kernel/bio.c), its sleep locks (sleeplock.c) and the driver of    *)
(* the virtio disk (virtio_disk.c) with its interrupt.                     *)
(*                                                                         *)
(* Grain.  A critical section under bcache.lock, under a sleep lock's lk   *)
(* or, for a process, under vdisk_lock is one step.  The interrupt handler *)
(* takes a step per entry it serves, for the device, which takes no lock,  *)
(* may finish another request between two.                                 *)
(***************************************************************************)
EXTENDS Naturals, Sequences, FiniteSets

CONSTANTS Tasks,     \* processes in the kernel
          NoTask,
          BlockNos, NoBlock,
          NBUF,
          NUM,       \* descriptors of the queue
          Programs   \* the calls each process makes, and a bound on those of kill()

ASSUME BlockIOAssumption ==
  /\ NoTask \notin Tasks /\ NoBlock \notin BlockNos /\ IsFiniteSet(Tasks)
  /\ NBUF \in Nat \ {0} /\ NUM \in Nat /\ NUM >= 3

Call       == [op : {"read", "log", "install"}, blockno : BlockNos]
Pins(n)    == [op |-> "log", blockno |-> n]
Unpins(n)  == [op |-> "install", blockno |-> n]

\* The calls s of a process begin after its log_write() of block n and before the
\* install_trans() that unpins it.
Owed(s, n) == \E i \in DOMAIN s : s[i] = Unpins(n) /\ \A j \in 1..i-1 : s[j] # Pins(n)

\* A transaction pins a block once (log_write() absorbs a second one), and its
\* commit unpins it once.
Paired(s) == \A n \in BlockNos :
  /\ \A i \in DOMAIN s : s[i] = Pins(n) =>
       \E k \in i+1..Len(s) : s[k] = Unpins(n) /\ \A j \in i+1..k-1 : s[j] # Pins(n)
  /\ \A i, k \in DOMAIN s : i < k /\ s[i] = Unpins(n) /\ s[k] = Unpins(n) =>
       \E j \in i+1..k-1 : s[j] = Pins(n)

ASSUME ProgramsAssumption == \A w \in Programs :
  /\ w.kills \in Nat /\ w.calls \in [Tasks -> Seq(Call)]
  /\ \A t \in Tasks : Paired(w.calls[t]) /\ \A n \in BlockNos : ~Owed(w.calls[t], n)

VARIABLES
  bcache,        \* the buffers
  lru,           \* bcache.head's list, the most recently used first
  free, info,    \* disk.free[], disk.info[].b
  avail, used,   \* the requests the device has, and those it has finished
  irq, intr,     \* its interrupt is raised; the handler holds vdisk_lock
  platter,       \* what is on the disk
  at, mine,      \* each process: its program point, its buffer,
  idx, todo,     \* its descriptors, the calls it has still to make,
  kills,         \* kill() calls still to come
  newest         \* history: what was last stored in each block

cacheState == <<bcache, lru>>
driver     == <<free, info, avail, used, irq, intr>>
ioVars     == <<cacheState, driver, platter, at, mine, idx, todo, kills, newest>>

Bufs        == 1..NBUF
Descriptors == 0..NUM-1

\* The first data of every block; after that, the name of who stored it.
Fresh == NoTask

IOInit ==
  /\ bcache  = [b \in Bufs |-> [blockno |-> NoBlock, valid |-> FALSE, refcnt |-> 0,
                                data |-> Fresh, holder |-> NoTask, disk |-> FALSE]]
  /\ lru     = [i \in Bufs |-> NBUF + 1 - i]
  /\ free    = Descriptors
  /\ info    = [d \in Descriptors |-> 0]
  /\ avail   = {}
  /\ used    = <<>>
  /\ irq     = FALSE
  /\ intr    = FALSE
  /\ platter = [n \in BlockNos |-> Fresh]
  /\ at      = [t \in Tasks |-> "idle"]
  /\ mine    = [t \in Tasks |-> 0]
  /\ idx     = [t \in Tasks |-> <<>>]
  /\ \E w \in Programs : todo = w.calls /\ kills = w.kills
  /\ newest  = [n \in BlockNos |-> Fresh]

\* Where a process that sleeps at l goes on, and wakeup(): those who sleep at l
\* (on one of the channels the set sleepers tells apart) are awake again.
Awake(l) == CASE l = "sleep_lock" -> "lock"
              [] l = "sleep_free" -> "rw"
              [] l = "sleep_io"   -> "io"

Woken(l, sleepers, pcs) ==
  [t \in Tasks |-> IF t \in sleepers /\ pcs[t] = l THEN Awake(l) ELSE pcs[t]]

Point(t, l) == [at EXCEPT ![t] = l]

Users(b) == {t \in Tasks : mine[t] = b}

-----------------------------------------------------------------------------
(* The buffer cache.                                                       *)

Cached(n) == {b \in Bufs : bcache[b].blockno = n}
Idle      == {b \in Bufs : bcache[b].refcnt = 0}

\* The least recently used of a set of buffers.
Oldest(S) == lru[CHOOSE i \in Bufs : lru[i] \in S /\ \A j \in i+1..NBUF : lru[j] \notin S]

\* (Mutation: bget() does not look for the block in the cache.)
bget_blind(t, n) ==
  /\ Idle # {}
  /\ mine'   = [mine EXCEPT ![t] = Oldest(Idle)]
  /\ bcache' = [bcache EXCEPT ![Oldest(Idle)] =
                  [@ EXCEPT !.blockno = n, !.valid = FALSE, !.refcnt = 1]]

\* bget() under bcache.lock; it panics when every buffer is in use.
bget(t, n) ==
  \/ \E b \in Cached(n) :
       /\ mine'   = [mine EXCEPT ![t] = b]
       /\ bcache' = [bcache EXCEPT ![b].refcnt = @ + 1]
  \/ /\ Cached(n) = {} /\ Idle # {}
     /\ mine'   = [mine EXCEPT ![t] = Oldest(Idle)]
     /\ bcache' = [bcache EXCEPT ![Oldest(Idle)] =
                     [@ EXCEPT !.blockno = n, !.valid = FALSE, !.refcnt = 1]]

\* The call of bread() a process's next operation begins with.
bread_call(t) ==
  /\ at[t] = "idle" /\ todo[t] # <<>>
  /\ bget(t, Head(todo[t]).blockno)
  /\ at' = Point(t, "lock")
  /\ UNCHANGED <<lru, driver, platter, idx, todo, kills, newest>>

\* acquiresleep(); a buffer that is not valid is read.
acquiresleep(t) ==
  LET b == bcache[mine[t]] IN
  /\ at[t] = "lock"
  /\ IF b.holder # NoTask
       THEN at' = Point(t, "sleep_lock") /\ UNCHANGED bcache
       ELSE /\ at'     = Point(t, IF b.valid THEN "use" ELSE "rw")
            /\ bcache' = [bcache EXCEPT ![mine[t]].holder = t]
  /\ UNCHANGED <<lru, driver, platter, mine, idx, todo, kills, newest>>

\* What the process does with the block: "read"; "log", a change of the data and
\* the bpin() of log_write(); "install", the bwrite() of install_trans().
Use(t) ==
  LET call == Head(todo[t]) IN
  /\ at[t] = "use"
  /\ at' = Point(t, IF call.op = "install" THEN "rw" ELSE "release")
  /\ IF call.op = "log"
       THEN /\ bcache' = [bcache EXCEPT ![mine[t]].data = t, ![mine[t]].refcnt = @ + 1]
            /\ newest' = [newest EXCEPT ![call.blockno] = t]
       ELSE UNCHANGED <<bcache, newest>>
  /\ UNCHANGED <<lru, driver, platter, mine, idx, todo, kills>>

\* releasesleep()
releasesleep(t) ==
  /\ at[t] = "release"
  /\ bcache' = [bcache EXCEPT ![mine[t]].holder = NoTask]
  /\ at'     = Woken("sleep_lock", Users(mine[t]), Point(t, "unref"))
  /\ UNCHANGED <<lru, driver, platter, mine, idx, todo, kills, newest>>

\* The list with b moved to its front.
ToFront(b) == LET p == CHOOSE i \in Bufs : lru[i] = b
              IN  [i \in Bufs |-> IF i = 1 THEN b ELSE IF i <= p THEN lru[i - 1] ELSE lru[i]]

\* The rest of brelse(), under bcache.lock.
brelse(t) ==
  /\ at[t] = "unref"
  /\ bcache' = [bcache EXCEPT ![mine[t]].refcnt = @ - 1]
  /\ lru'    = IF bcache[mine[t]].refcnt = 1 THEN ToFront(mine[t]) ELSE lru
  /\ at'     = Point(t, "idle")
  /\ mine'   = [mine EXCEPT ![t] = 0]
  /\ todo'   = [todo EXCEPT ![t] = Tail(@)]
  /\ UNCHANGED <<driver, platter, idx, kills, newest>>

-----------------------------------------------------------------------------
(* The driver.                                                             *)

\* alloc3_desc(): the three first free descriptors.
Lowest(S)      == CHOOSE d \in S : \A e \in S : d <= e
alloc3_desc(S) == LET i == Lowest(S)  j == Lowest(S \ {i})
                  IN  <<i, j, Lowest(S \ {i, j})>>

\* virtio_disk_rw(): queue a request and sleep, or sleep until descriptors are
\* free, after a wakeup() for each of those it took and gives back.
virtio_disk_rw(t) ==
  /\ at[t] = "rw" /\ ~intr
  /\ IF Cardinality(free) < 3
       THEN /\ at' = IF free = {} THEN Point(t, "sleep_free")
                     ELSE Woken("sleep_free", Tasks \ {t}, Point(t, "sleep_free"))
            /\ UNCHANGED <<bcache, free, info, avail, idx>>
       ELSE \E d \in {alloc3_desc(free)} :
              /\ idx'    = [idx EXCEPT ![t] = d]
              /\ free'   = free \ {d[1], d[2], d[3]}
              /\ info'   = [info EXCEPT ![d[1]] = mine[t]]
              /\ bcache' = [bcache EXCEPT ![mine[t]].disk = TRUE]
              /\ avail'  = avail \union
                             {[id |-> d[1], buf |-> mine[t], blockno |-> bcache[mine[t]].blockno,
                               write |-> bcache[mine[t]].valid]}
              /\ at'     = Point(t, "sleep_io")
  /\ UNCHANGED <<lru, used, irq, intr, platter, mine, todo, kills, newest>>

\* (Mutation: free_desc() without its wakeup().)
Freeing_quiet(t, l) == Point(t, l)

\* The three wakeups of free_chain().
Freeing(t, l) == Woken("sleep_free", Tasks, Point(t, l))

\* The end of virtio_disk_rw(), when b->disk is 0 at last, and what its caller does
\* then: bread() marks the buffer valid, install_trans() unpins it.
EndOfIO(t) ==
  /\ at[t] = "io" /\ ~intr
  /\ IF bcache[mine[t]].disk
       THEN at' = Point(t, "sleep_io") /\ UNCHANGED <<bcache, free, info, idx>>
       ELSE /\ info'   = [info EXCEPT ![idx[t][1]] = 0]
            /\ free'   = free \union {idx[t][1], idx[t][2], idx[t][3]}
            /\ idx'    = [idx EXCEPT ![t] = <<>>]
            /\ IF bcache[mine[t]].valid
                 THEN /\ bcache' = [bcache EXCEPT ![mine[t]].refcnt = @ - 1]
                      /\ at'     = Freeing(t, "release")
                 ELSE /\ bcache' = [bcache EXCEPT ![mine[t]].valid = TRUE]
                      /\ at'     = Freeing(t, "use")
  /\ UNCHANGED <<lru, avail, used, irq, intr, platter, mine, todo, kills, newest>>

\* The device moves the data, in whatever order it likes, and interrupts.
Device ==
  \E r \in avail :
    /\ IF r.write
         THEN platter' = [platter EXCEPT ![r.blockno] = bcache[r.buf].data] /\ UNCHANGED bcache
         ELSE bcache' = [bcache EXCEPT ![r.buf].data = platter[r.blockno]] /\ UNCHANGED platter
    /\ avail' = avail \ {r}
    /\ used'  = Append(used, r.id)
    /\ irq'   = TRUE
    /\ UNCHANGED <<lru, free, info, intr, at, mine, idx, todo, kills, newest>>

\* virtio_disk_intr(): the lock and the acknowledgement ...
TakeInterrupt ==
  /\ irq /\ ~intr
  /\ irq' = FALSE /\ intr' = TRUE
  /\ UNCHANGED <<cacheState, free, info, avail, used, platter, at, mine, idx, todo,
                 kills, newest>>

\* ... one finished request, of those that came since too ...
ServeUsed ==
  /\ intr /\ used # <<>>
  /\ bcache' = [bcache EXCEPT ![info[Head(used)]].disk = FALSE]
  /\ at'     = Woken("sleep_io", Users(info[Head(used)]), at)
  /\ used'   = Tail(used)
  /\ UNCHANGED <<lru, free, info, avail, irq, intr, platter, mine, idx, todo, kills,
                 newest>>

\* ... and release(), when there is none left.
EndInterrupt ==
  /\ intr /\ used = <<>>
  /\ intr' = FALSE
  /\ UNCHANGED <<cacheState, free, info, avail, used, irq, platter, at, mine, idx, todo,
                 kills, newest>>

-----------------------------------------------------------------------------
\* kill(): a sleeping process goes on, before what it waits for.
KillTask(t) ==
  /\ at[t] \in {"sleep_lock", "sleep_free", "sleep_io"} /\ kills > 0
  /\ kills' = kills - 1
  /\ at'     = Point(t, Awake(at[t]))
  /\ UNCHANGED <<cacheState, driver, platter, mine, idx, todo, newest>>

TaskStep(t) == \/ bread_call(t) \/ acquiresleep(t) \/ Use(t) \/ releasesleep(t) \/ brelse(t)
               \/ virtio_disk_rw(t) \/ EndOfIO(t)

Interrupt == TakeInterrupt \/ ServeUsed \/ EndInterrupt

AllDone == \A t \in Tasks : at[t] = "idle" /\ todo[t] = <<>>

IONext == \/ \E t \in Tasks : TaskStep(t) \/ KillTask(t)
          \/ Device \/ Interrupt

\* The scheduler is fair, the device answers, interrupts are delivered.
IOFairness == /\ \A t \in Tasks : WF_ioVars(TaskStep(t))
              /\ WF_ioVars(Device) /\ WF_ioVars(Interrupt)

IOSpec == IOInit /\ [][IONext]_ioVars /\ IOFairness
-----------------------------------------------------------------------------
(* Properties.                                                             *)

\* "Only one process at a time can use a buffer" (bio.c:14) and there is one
\* buffer per block (bio.c:4-6, the cache is "a synchronization point for disk
\* blocks used by multiple processes"): whoever gets a block sees what was stored
\* in it last, by whomever, on the disk or not yet; at the end it is on the disk.
LatestData ==
  /\ \A t \in Tasks : at[t] = "use" =>
       bcache[mine[t]].data = newest[Head(todo[t]).blockno]
  /\ AllDone => platter = newest

\* Every call ends: no process waits for ever for a sleep lock, for descriptors
\* (virtio_disk.c:232) or for a request that is done (:284), whichever way the
\* releases, the completions, the interrupts and kill() fall.
IOEnds == <>[]AllDone
=============================================================================
