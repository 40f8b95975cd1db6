-------------------------------- MODULE Proc --------------------------------
(***************************************************************************)
(* The process table of xv6 (LAB3 kernel/proc.c): fork, exit, wait, kill,  *)
(* sleep and wakeup as the kernel threads of several CPUs interleave them. *)
(*                                                                         *)
(* Grain.  p->lock and wait_lock are explicit.  A critical section under   *)
(* one p->lock that takes no other lock is one step, guarded by the lock   *)
(* being free; a p->lock that is carried across steps (the hand-over to    *)
(* the scheduler, sleep(), fork()) and wait_lock are held explicitly, by   *)
(* the CPU, because xv6 spinlocks belong to CPUs.                          *)
(*                                                                         *)
(* Which RUNNABLE process a CPU picks is left open here (Run); the scan    *)
(* and its priorities are the subject of Mlfq.                             *)
(***************************************************************************)
EXTENDS Naturals

CONSTANTS Cpus,       \* the harts that entered scheduler()
          NoCpu,      \* no holder of a lock
          NPROC       \* entries of proc[]

Slots    == 1..NPROC
NoProc   == 0         \* the null struct proc *, and the null channel
Initproc == 1         \* allocproc() gives userinit() the first entry
Chans    == 0..NPROC+1
OtherChan == NPROC + 1   \* any channel that is not a process: disk, pipe, ...

ASSUME ProcAssumption ==
  /\ NoCpu \notin Cpus
  /\ NPROC \in Nat \ {0}

VARIABLES
  state, chan, killed, parent,  \* the fields of struct proc
  plock,      \* p->lock: the CPU that holds it
  wlock,      \* wait_lock: the CPU that holds it
  cproc,      \* c->proc, the process whose kernel stack CPU c is on
  ctx,        \* where p is between swtch() in and swtch() out
  pc,         \* program point of p's kernel thread
  slot,       \* loop variable pp of reparent() and wait()
  havekids,   \* local of wait()
  child       \* np, local of fork()

procVars == <<state, chan, killed, parent>>
lockVars == <<plock, wlock>>
cpuVars  == <<cproc, ctx>>
localVars == <<slot, havekids, child>>
vars == <<procVars, lockVars, cpuVars, pc, localVars>>

States == {"UNUSED", "USED", "SLEEPING", "RUNNABLE", "RUNNING", "ZOMBIE"}

\* "off": saved; "in": resumed by the scheduler, p->lock still held;
\* "on": executing; "out": called sched(), p->lock held until the CPU left it.
Ctxs == {"off", "in", "on", "out"}

\* f_: fork(), x_: exit(), w_: wait(); "user" is user space and any kernel
\* code that holds no lock, "dead" is the point after sched() in exit().
Pcs == {"user", "f_copy", "f_parent", "f_ready",
        "x_reparent", "x_wake", "x_zombie", "dead",
        "w_acquire", "w_scan", "w_check", "w_sleep", "w_commit", "w_slept",
        "slept"}

\* (Mutation: spinlocks that leave interrupts on while np->lock is held.)
PreemptibleCopying == {"user", "f_copy", "f_parent", "f_ready", "w_acquire"}

\* Points where the CPU holds no spinlock, so a timer interrupt gets in.
Preemptible == {"user", "f_parent", "f_ready", "w_acquire"}

Executing(c, p) == cproc[c] = p /\ ctx[p] = "on"

\* wakeup(ch) for a process ch: only ch itself sleeps on ch, in wait(), so the
\* only p->lock section of the loop that can change anything is ch's own.
Wakened(ch) ==
  [state EXCEPT ![ch] = IF @ = "SLEEPING" /\ chan[ch] = ch THEN "RUNNABLE"
                                                           ELSE @]

\* pp++; at the end of the loop go to point done.
NextSlot(p, done) ==
  /\ pc'   = [pc EXCEPT ![p] = IF slot[p] = NPROC THEN done ELSE @]
  /\ slot' = [slot EXCEPT ![p] = IF @ = NPROC THEN 1 ELSE @ + 1]

Init ==
  /\ state    = [p \in Slots |-> IF p = Initproc THEN "RUNNABLE" ELSE "UNUSED"]
  /\ chan     = [p \in Slots |-> NoProc]
  /\ killed   = [p \in Slots |-> FALSE]
  /\ parent   = [p \in Slots |-> NoProc]
  /\ plock    = [p \in Slots |-> NoCpu]
  /\ wlock    = NoCpu
  /\ cproc    = [c \in Cpus |-> NoProc]
  /\ ctx      = [p \in Slots |-> "off"]
  /\ pc       = [p \in Slots |-> "user"]
  /\ slot     = [p \in Slots |-> 1]
  /\ havekids = [p \in Slots |-> FALSE]
  /\ child    = [p \in Slots |-> NoProc]

-----------------------------------------------------------------------------
(* Context switches.                                                       *)

\* scheduler(): acquire(&p->lock) and, if RUNNABLE, switch to p.
Run(c, p) ==
  /\ cproc[c] = NoProc
  /\ plock[p] = NoCpu
  /\ state[p] = "RUNNABLE"
  /\ state' = [state EXCEPT ![p] = "RUNNING"]
  /\ cproc' = [cproc EXCEPT ![c] = p]
  /\ plock' = [plock EXCEPT ![p] = c]
  /\ ctx'   = [ctx EXCEPT ![p] = "in"]
  /\ UNCHANGED <<chan, killed, parent, wlock, pc, localVars>>

\* Back from sched() in yield(), or the first time in forkret().
SwitchIn(c, p) ==
  /\ cproc[c] = p /\ ctx[p] = "in" /\ pc[p] \notin {"w_slept", "slept"}
  /\ plock' = [plock EXCEPT ![p] = NoCpu]
  /\ ctx'   = [ctx EXCEPT ![p] = "on"]
  /\ UNCHANGED <<procVars, wlock, cproc, pc, localVars>>

\* Back from sched() in sleep(): tidy up, then reacquire the caller's lock.
SleepReturn(c, p) ==
  /\ cproc[c] = p /\ ctx[p] = "in" /\ pc[p] \in {"w_slept", "slept"}
  /\ chan'  = [chan EXCEPT ![p] = NoProc]
  /\ plock' = [plock EXCEPT ![p] = NoCpu]
  /\ ctx'   = [ctx EXCEPT ![p] = "on"]
  /\ pc'    = [pc EXCEPT ![p] = IF @ = "w_slept" THEN "w_acquire" ELSE "user"]
  /\ UNCHANGED <<state, killed, parent, wlock, cproc, localVars>>

\* swtch() in sched(), then scheduler() drops c->proc and p->lock.
SwitchOut(c, p) ==
  /\ cproc[c] = p /\ ctx[p] = "out"
  /\ cproc' = [cproc EXCEPT ![c] = NoProc]
  /\ plock' = [plock EXCEPT ![p] = NoCpu]
  /\ ctx'   = [ctx EXCEPT ![p] = "off"]
  /\ UNCHANGED <<procVars, wlock, pc, localVars>>

\* A timer interrupt in user space or in unlocked kernel code.
Yield(c, p) ==
  /\ Executing(c, p)
  /\ pc[p] \in Preemptible
  /\ plock[p] = NoCpu
  /\ plock' = [plock EXCEPT ![p] = c]
  /\ state' = [state EXCEPT ![p] = "RUNNABLE"]
  /\ ctx'   = [ctx EXCEPT ![p] = "out"]
  /\ UNCHANGED <<chan, killed, parent, wlock, cproc, pc, localVars>>

\* A system call sleeps on something other than a child (its condition lock is
\* of no interest here), until the owner of that channel calls wakeup().
Sleep(c, p) ==
  /\ Executing(c, p) /\ pc[p] = "user"
  /\ plock[p] = NoCpu
  /\ plock' = [plock EXCEPT ![p] = c]
  /\ chan'  = [chan EXCEPT ![p] = OtherChan]
  /\ state' = [state EXCEPT ![p] = "SLEEPING"]
  /\ ctx'   = [ctx EXCEPT ![p] = "out"]
  /\ pc'    = [pc EXCEPT ![p] = "slept"]
  /\ UNCHANGED <<killed, parent, wlock, cproc, localVars>>

Wakeup(p) ==
  /\ state[p] = "SLEEPING" /\ chan[p] = OtherChan
  /\ plock[p] = NoCpu
  /\ state' = [state EXCEPT ![p] = "RUNNABLE"]
  /\ UNCHANGED <<chan, killed, parent, lockVars, cpuVars, pc, localVars>>

-----------------------------------------------------------------------------
(* fork().  usertrap() lets no killed process enter a system call.         *)

\* freeproc(q): everything of the slot this module keeps.
Freed(q) ==
  /\ state'  = [state EXCEPT ![q] = "UNUSED"]
  /\ chan'   = [chan EXCEPT ![q] = NoProc]
  /\ killed' = [killed EXCEPT ![q] = FALSE]
  /\ parent' = [parent EXCEPT ![q] = NoProc]

\* allocproc() found np and returns with np->lock held.
ForkAlloc(c, p, np) ==
  /\ Executing(c, p) /\ pc[p] = "user" /\ ~killed[p]
  /\ state[np] = "UNUSED" /\ plock[np] = NoCpu
  /\ state' = [state EXCEPT ![np] = "USED"]
  /\ plock' = [plock EXCEPT ![np] = c]
  /\ pc'    = [pc EXCEPT ![p] = "f_copy", ![np] = "user"]
  /\ child' = [child EXCEPT ![p] = np]
  /\ UNCHANGED <<chan, killed, parent, wlock, cpuVars, slot, havekids>>

\* kalloc(), proc_pagetable() or uvmcopy() failed.
ForkFail(c, p) ==
  /\ Executing(c, p) /\ pc[p] = "f_copy"
  /\ Freed(child[p])
  /\ plock' = [plock EXCEPT ![child[p]] = NoCpu]
  /\ pc'    = [pc EXCEPT ![p] = "user"]
  /\ child' = [child EXCEPT ![p] = NoProc]
  /\ UNCHANGED <<wlock, cpuVars, slot, havekids>>

\* (Mutation: np->lock is kept until np is RUNNABLE.)
ForkCopiedLocked(c, p) ==
  /\ Executing(c, p) /\ pc[p] = "f_copy"
  /\ pc' = [pc EXCEPT ![p] = "f_parent"]
  /\ UNCHANGED <<procVars, lockVars, cpuVars, localVars>>

\* The copy is complete: release(&np->lock).
ForkCopied(c, p) ==
  /\ Executing(c, p) /\ pc[p] = "f_copy"
  /\ plock' = [plock EXCEPT ![child[p]] = NoCpu]
  /\ pc'    = [pc EXCEPT ![p] = "f_parent"]
  /\ UNCHANGED <<procVars, wlock, cpuVars, localVars>>

\* np->parent = p under wait_lock.
ForkParent(c, p) ==
  /\ Executing(c, p) /\ pc[p] = "f_parent"
  /\ wlock = NoCpu
  /\ parent' = [parent EXCEPT ![child[p]] = p]
  /\ pc'     = [pc EXCEPT ![p] = "f_ready"]
  /\ UNCHANGED <<state, chan, killed, lockVars, cpuVars, localVars>>

\* np->state = RUNNABLE under np->lock.
ForkReady(c, p) ==
  /\ Executing(c, p) /\ pc[p] = "f_ready"
  /\ plock[child[p]] = NoCpu
  /\ state' = [state EXCEPT ![child[p]] = "RUNNABLE"]
  /\ pc'    = [pc EXCEPT ![p] = "user"]
  /\ child' = [child EXCEPT ![p] = NoProc]
  /\ UNCHANGED <<chan, killed, parent, lockVars, cpuVars, slot, havekids>>

-----------------------------------------------------------------------------
(* exit().  initproc never gets here: that is panic("init exiting").       *)

\* Files closed; acquire(&wait_lock).
ExitAcquire(c, p) ==
  /\ Executing(c, p) /\ pc[p] = "user" /\ p # Initproc
  /\ wlock = NoCpu
  /\ wlock' = c
  /\ pc'    = [pc EXCEPT ![p] = "x_reparent"]
  /\ slot'  = [slot EXCEPT ![p] = 1]
  /\ UNCHANGED <<procVars, plock, cpuVars, havekids, child>>

\* (Mutation: reparent() passes over the children that have exited.)
ExitReparentLiving(c, p) ==
  /\ Executing(c, p) /\ pc[p] = "x_reparent"
  /\ parent[slot[p]] = p
  /\ plock[Initproc] = NoCpu
  /\ parent' = IF state[slot[p]] = "ZOMBIE" THEN parent
                ELSE [parent EXCEPT ![slot[p]] = Initproc]
  /\ state'  = Wakened(Initproc)
  /\ NextSlot(p, "x_wake")
  /\ UNCHANGED <<chan, killed, lockVars, cpuVars, havekids, child>>

\* One iteration of reparent(p): pp is a child, or it is not.
ExitReparent(c, p) ==
  /\ Executing(c, p) /\ pc[p] = "x_reparent"
  /\ parent[slot[p]] = p
  /\ plock[Initproc] = NoCpu
  /\ parent' = [parent EXCEPT ![slot[p]] = Initproc]
  /\ state'  = Wakened(Initproc)
  /\ NextSlot(p, "x_wake")
  /\ UNCHANGED <<chan, killed, lockVars, cpuVars, havekids, child>>

ExitSkip(c, p) ==
  /\ Executing(c, p) /\ pc[p] = "x_reparent"
  /\ parent[slot[p]] # p
  /\ NextSlot(p, "x_wake")
  /\ UNCHANGED <<procVars, lockVars, cpuVars, havekids, child>>

\* (Mutation: wakeup(p).)
ExitWakeSelf(c, p) ==
  /\ Executing(c, p) /\ pc[p] = "x_wake"
  /\ state' = Wakened(p)
  /\ pc'    = [pc EXCEPT ![p] = "x_zombie"]
  /\ UNCHANGED <<chan, killed, parent, lockVars, cpuVars, localVars>>

\* wakeup(p->parent).
ExitWake(c, p) ==
  /\ Executing(c, p) /\ pc[p] = "x_wake"
  /\ plock[parent[p]] = NoCpu
  /\ state' = Wakened(parent[p])
  /\ pc'    = [pc EXCEPT ![p] = "x_zombie"]
  /\ UNCHANGED <<chan, killed, parent, lockVars, cpuVars, localVars>>

\* acquire(&p->lock), ZOMBIE, release(&wait_lock), sched().
ExitZombie(c, p) ==
  /\ Executing(c, p) /\ pc[p] = "x_zombie"
  /\ plock[p] = NoCpu
  /\ plock' = [plock EXCEPT ![p] = c]
  /\ state' = [state EXCEPT ![p] = "ZOMBIE"]
  /\ wlock' = NoCpu
  /\ ctx'   = [ctx EXCEPT ![p] = "out"]
  /\ pc'    = [pc EXCEPT ![p] = "dead"]
  /\ UNCHANGED <<chan, killed, parent, cproc, localVars>>

-----------------------------------------------------------------------------
(* wait().                                                                 *)

\* The call, or the end of sleep(): acquire(&wait_lock) and scan from proc[0].
WaitAcquire(c, p) ==
  /\ Executing(c, p)
  /\ \/ pc[p] = "user" /\ ~killed[p]
     \/ pc[p] = "w_acquire"
  /\ wlock = NoCpu
  /\ wlock'    = c
  /\ pc'       = [pc EXCEPT ![p] = "w_scan"]
  /\ slot'     = [slot EXCEPT ![p] = 1]
  /\ havekids' = [havekids EXCEPT ![p] = FALSE]
  /\ UNCHANGED <<procVars, plock, cpuVars, child>>

\* pp is not a child: go on to the next entry.
WaitSkip(c, p) ==
  /\ Executing(c, p) /\ pc[p] = "w_scan"
  /\ parent[slot[p]] # p
  /\ NextSlot(p, "w_check")
  /\ UNCHANGED <<procVars, lockVars, cpuVars, havekids, child>>

\* pp is a child that has not exited.
WaitScan(c, p) ==
  /\ Executing(c, p) /\ pc[p] = "w_scan"
  /\ parent[slot[p]] = p
  /\ plock[slot[p]] = NoCpu
  /\ state[slot[p]] # "ZOMBIE"
  /\ havekids' = [havekids EXCEPT ![p] = TRUE]
  /\ NextSlot(p, "w_check")
  /\ UNCHANGED <<procVars, lockVars, cpuVars, child>>

\* release(&wait_lock) and return; the locals are gone.
WaitReturn(p) ==
  /\ wlock'    = NoCpu
  /\ pc'       = [pc EXCEPT ![p] = "user"]
  /\ slot'     = [slot EXCEPT ![p] = 1]
  /\ havekids' = [havekids EXCEPT ![p] = FALSE]

\* (Mutation: wait() does not take the child's lock.)
WaitReapUnlocked(c, p) ==
  /\ Executing(c, p) /\ pc[p] = "w_scan"
  /\ parent[slot[p]] = p
  /\ state[slot[p]] = "ZOMBIE"
  /\ Freed(slot[p])
  /\ WaitReturn(p)
  /\ UNCHANGED <<plock, cpuVars, child>>

\* pp is a zombie child: free it and return its pid.
WaitReap(c, p) ==
  /\ Executing(c, p) /\ pc[p] = "w_scan"
  /\ parent[slot[p]] = p
  /\ plock[slot[p]] = NoCpu
  /\ state[slot[p]] = "ZOMBIE"
  /\ Freed(slot[p])
  /\ WaitReturn(p)
  /\ UNCHANGED <<plock, cpuVars, child>>

\* pp is a zombie child but copyout() of its status fails: return -1.  init
\* does not ask for the status.
WaitCopyoutFail(c, p) ==
  /\ Executing(c, p) /\ pc[p] = "w_scan" /\ p # Initproc
  /\ parent[slot[p]] = p
  /\ plock[slot[p]] = NoCpu
  /\ state[slot[p]] = "ZOMBIE"
  /\ WaitReturn(p)
  /\ UNCHANGED <<procVars, plock, cpuVars, child>>

\* No children, or killed(p): return -1.
WaitGiveUp(c, p) ==
  /\ Executing(c, p) /\ pc[p] = "w_check"
  /\ \/ ~havekids[p]
     \/ killed[p] /\ plock[p] = NoCpu
  /\ WaitReturn(p)
  /\ UNCHANGED <<procVars, plock, cpuVars, child>>

\* (Mutation: wait_lock is released before sleep() is called.)
WaitAgainUnlocked(c, p) ==
  /\ Executing(c, p) /\ pc[p] = "w_check"
  /\ havekids[p] /\ plock[p] = NoCpu /\ ~killed[p]
  /\ wlock'    = NoCpu
  /\ pc'       = [pc EXCEPT ![p] = "w_sleep"]
  /\ havekids' = [havekids EXCEPT ![p] = FALSE]
  /\ UNCHANGED <<procVars, plock, cpuVars, slot, child>>

\* Else go to sleep.
WaitAgain(c, p) ==
  /\ Executing(c, p) /\ pc[p] = "w_check"
  /\ havekids[p] /\ plock[p] = NoCpu /\ ~killed[p]
  /\ pc'       = [pc EXCEPT ![p] = "w_sleep"]
  /\ havekids' = [havekids EXCEPT ![p] = FALSE]
  /\ UNCHANGED <<procVars, lockVars, cpuVars, slot, child>>

\* sleep(p, &wait_lock): acquire(&p->lock), only then release(&wait_lock).
SleepLock(c, p) ==
  /\ Executing(c, p) /\ pc[p] = "w_sleep"
  /\ plock[p] = NoCpu
  /\ plock' = [plock EXCEPT ![p] = c]
  /\ wlock' = NoCpu
  /\ pc'    = [pc EXCEPT ![p] = "w_commit"]
  /\ UNCHANGED <<procVars, cpuVars, localVars>>

\* sleep(): chan and state under p->lock, then sched().
SleepCommit(c, p) ==
  /\ Executing(c, p) /\ pc[p] = "w_commit"
  /\ chan'  = [chan EXCEPT ![p] = p]
  /\ state' = [state EXCEPT ![p] = "SLEEPING"]
  /\ ctx'   = [ctx EXCEPT ![p] = "out"]
  /\ pc'    = [pc EXCEPT ![p] = "w_slept"]
  /\ UNCHANGED <<killed, parent, lockVars, cproc, localVars>>

-----------------------------------------------------------------------------
(* kill().                                                                 *)

\* kill(pid) matches any slot with that pid, and pid 0 is that of the slots
\* nobody uses.  Nobody kills init: that ends in panic("init exiting").
Kill(c, p, q) ==
  /\ Executing(c, p) /\ pc[p] = "user" /\ ~killed[p]
  /\ q # Initproc
  /\ plock[q] = NoCpu
  /\ killed' = [killed EXCEPT ![q] = TRUE]
  /\ state'  = [state EXCEPT ![q] = IF @ = "SLEEPING" THEN "RUNNABLE" ELSE @]
  /\ UNCHANGED <<chan, parent, lockVars, cpuVars, pc, localVars>>

-----------------------------------------------------------------------------
SwitchStep(c, p) == SwitchIn(c, p) \/ SleepReturn(c, p) \/ SwitchOut(c, p)

\* What a thread does by itself once it is inside a system call.
KernelStep(c, p) ==
  \/ ForkFail(c, p) \/ ForkCopied(c, p) \/ ForkParent(c, p) \/ ForkReady(c, p)
  \/ ExitReparent(c, p) \/ ExitSkip(c, p) \/ ExitWake(c, p) \/ ExitZombie(c, p)
  \/ pc[p] = "w_acquire" /\ WaitAcquire(c, p)
  \/ WaitSkip(c, p) \/ WaitScan(c, p) \/ WaitReap(c, p) \/ WaitCopyoutFail(c, p)
  \/ WaitGiveUp(c, p) \/ WaitAgain(c, p) \/ SleepLock(c, p) \/ SleepCommit(c, p)

\* What user programs choose to call, and the timer.
UserStep(c, p) ==
  \/ Yield(c, p) \/ Sleep(c, p) \/ ExitAcquire(c, p)
  \/ pc[p] = "user" /\ WaitAcquire(c, p)
  \/ \E q \in Slots : ForkAlloc(c, p, q) \/ Kill(c, p, q)

Next == \E p \in Slots :
          \/ Wakeup(p)
          \/ \E c \in Cpus : \/ Run(c, p) \/ SwitchStep(c, p)
                           \/ KernelStep(c, p) \/ UserStep(c, p)

Spec == Init /\ [][Next]_vars

\* The scheduler comes round to every process that stays RUNNABLE (checked in
\* Mlfq); a thread running in the kernel goes on, and an acquire() whose lock is
\* released over and over succeeds; the timer interrupt, once pending, is taken
\* when interrupts are enabled; user/init.c, with its shell running, does
\* nothing but call wait(); whoever owns a channel wakes its sleepers.
Fairness ==
  /\ \A p \in Slots :
       /\ SF_vars(\E c \in Cpus : Run(c, p))
       /\ WF_vars(\E c \in Cpus : SwitchStep(c, p))
       /\ SF_vars(\E c \in Cpus : KernelStep(c, p))
       /\ SF_vars(\E c \in Cpus : Yield(c, p))
       /\ WF_vars(Wakeup(p))
  /\ SF_vars(\E c \in Cpus : WaitAcquire(c, Initproc))

FairSpec == Spec /\ Fairness
-----------------------------------------------------------------------------
(* Properties.                                                             *)

TypeOK ==
  /\ state    \in [Slots -> States]
  /\ chan     \in [Slots -> Chans]
  /\ killed   \in [Slots -> BOOLEAN]
  /\ parent   \in [Slots -> Slots \union {NoProc}]
  /\ plock    \in [Slots -> Cpus \union {NoCpu}]
  /\ wlock    \in Cpus \union {NoCpu}
  /\ cproc    \in [Cpus -> Slots \union {NoProc}]
  /\ ctx      \in [Slots -> Ctxs]
  /\ pc       \in [Slots -> Pcs]
  /\ slot     \in [Slots -> Slots]
  /\ havekids \in [Slots -> BOOLEAN]
  /\ child    \in [Slots -> Slots \union {NoProc}]

\* wait_lock "helps ensure that wakeups of wait()ing parents are not lost"
\* (proc.c:23): once no exit() or wait() is under way, no process sleeps in
\* wait() while one of its children is a zombie.
NoLostExit ==
  wlock = NoCpu =>
    \A p, q \in Slots :
      state[p] = "SLEEPING" /\ chan[p] = p /\ parent[q] = p
        => state[q] # "ZOMBIE"

\* exit() hands its children to init before it dies (reparent, proc.c:335), so
\* every process that can run or has run has a parent that is neither a zombie
\* nor a free slot, and some wait() can still reap it.
FamilyTree ==
  \A q \in Slots \ {Initproc} :
    state[q] \in {"SLEEPING", "RUNNABLE", "RUNNING", "ZOMBIE"} =>
      /\ parent[q] # NoProc
      /\ state[parent[q]] \in {"SLEEPING", "RUNNABLE", "RUNNING"}

\* The panics of sched() (proc.c:512) are unreachable: whoever switches to the
\* scheduler holds its own p->lock, holds no other spinlock, and is not RUNNING.
SchedLocks ==
  \A c \in Cpus, p \in Slots :
    cproc[c] = p /\ ctx[p] = "out" =>
      /\ plock[p] = c
      /\ \A q \in Slots \ {p} : plock[q] # c
      /\ wlock # c
      /\ state[p] # "RUNNING"

\* wait_lock "must be acquired before any p->lock" (proc.c:26): a thread that
\* spins on wait_lock holds no p->lock, so the two lock levels cannot deadlock.
LockOrder ==
  \A c \in Cpus, p \in Slots :
    Executing(c, p) /\ pc[p] \in {"user", "f_parent", "w_acquire"} =>
      /\ wlock # c
      /\ \A q \in Slots : plock[q] # c

\* proc.c:607: kill() is for "the process with the given pid"; a slot that is
\* no process must not be marked, or the next fork() is born killed.
OnlyProcessesKilled == \A q \in Slots : state[q] = "UNUSED" => ~killed[q]

\* user/init.c: wait() "returns if a parentless process exits".  Whatever becomes
\* an orphan, before or after it exits, is in the end freed by init, unless a
\* child of init in a lower slot exits first: every wait() scans from proc[0]
\* and takes the first zombie, so a shell that keeps exiting in a low slot
\* starves the orphans above it.
Orphan(q) == state[q] = "ZOMBIE" /\ parent[q] = Initproc

OrphansReaped ==
  \A q \in Slots \ {Initproc} :
    Orphan(q) ~> (state[q] = "UNUSED" \/ \E r \in 1..q-1 : Orphan(r))

\* The process table implements the abstract life of a slot: no process is on
\* two CPUs, and none is run, woken, killed awake or freed while some CPU is
\* still on its kernel stack (wait(), proc.c:408).
Abstract == INSTANCE Dispatch WITH onCpu <- cproc
ImplementsDispatch == Abstract!Spec
=============================================================================
