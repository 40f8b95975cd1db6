------------------------------ MODULE Spinlock ------------------------------
(***************************************************************************)
(* spinlock.c with what it rests on: the interrupt flag of each CPU, the   *)
(* traps (trap.c), and the switches between kernel threads in sched() and  *)
(* scheduler() that hand p->lock and the CPU's intena over (proc.c).       *)
(*                                                                         *)
(* todo[x] is what thread x still has to do, as a sequence of operations;  *)
(* an operation is replaced by its steps, a trap puts its handler in       *)
(* front.  The scheduler of CPU c is the thread c.  Between two steps of   *)
(* a CPU others go on, and, if it lets them, interrupts come.              *)
(***************************************************************************)
EXTENDS Naturals, Sequences, SequencesExt

CONSTANTS Harts,        \* the CPUs
          Procs,
          Order,        \* the processes in the order of proc[]
          ClockCpu,     \* CPU 0, the one that counts ticks
          NoCpu, Ticks  \* no owner, and tickslock

ASSUME SpinlockAssumption ==
  /\ Order \in Seq(Procs) /\ Harts \intersect Procs = {}
  /\ ClockCpu \in Harts /\ NoCpu \notin Harts /\ Ticks \notin Procs

VARIABLES
  locked, owner,         \* lk->locked, lk->cpu
  sie, noff, intena,     \* SSTATUS.SIE, and the fields of struct cpu
  cur,                   \* the thread the CPU executes
  pstate,                \* p->state; a process sleeps on &ticks only
  todo,
  panicked

spinVars == <<locked, owner>>
cpuVars  == <<sie, noff, intena>>
lockVars == <<spinVars, cpuVars, cur, pstate, todo, panicked>>

\* The lock of process p is p.
Locks == {Ticks} \union Procs

Op(c)          == Head(todo[cur[c]])
Is(c, name)    == ~panicked /\ todo[cur[c]] # <<>> /\ Op(c)[1] = name
Continue(c, s) == todo' = [todo EXCEPT ![cur[c]] = s \o Tail(@)]

Guarded(l, s) == <<<<"acquire", l>>>> \o s \o <<<<"release", l>>>>

\* intr_off(), and the sret, with the trap it ends.
usertrapret(trap) == <<<<"off">>, <<"return", trap>>>>

\* Before its first step a process is where allocproc() and fork() leave it, at
\* forkret(), which releases the lock the scheduler acquired.
LockInit ==
  /\ locked = [l \in Locks |-> FALSE] /\ owner = [l \in Locks |-> NoCpu]
  /\ sie = [c \in Harts |-> FALSE] /\ noff = [c \in Harts |-> 0] /\ intena = [c \in Harts |-> FALSE]
  /\ cur = [c \in Harts |-> c]
  /\ pstate = [p \in Procs |-> "RUNNABLE"]
  /\ todo = [x \in Harts \union Procs |->
               IF x \in Procs THEN <<<<"release", x>>>> \o usertrapret("forkret") ELSE <<>>]
  /\ panicked = FALSE

-----------------------------------------------------------------------------
(* spinlock.c                                                              *)

holding(c, l) == locked[l] /\ owner[l] = c

\* push_off(): old = intr_get().
ReadFlag(c) ==
  /\ Is(c, "acquire")
  /\ Continue(c, <<<<"push_off", Op(c)[2], sie[c]>>>>)
  /\ UNCHANGED <<spinVars, cpuVars, cur, pstate, panicked>>

\* Only the first push_off() knows how interrupts were.
Intena(c, old) == IF noff[c] = 0 THEN old ELSE intena[c]

\* push_off(): intr_off(), and the rest, which is the CPU's own; then if(holding(lk)).
PushOff(c) ==
  /\ Is(c, "push_off")
  /\ sie'    = [sie EXCEPT ![c] = FALSE]
  /\ intena' = [intena EXCEPT ![c] = Intena(c, Op(c)[3])]
  /\ noff'   = [noff EXCEPT ![c] = @ + 1]
  /\ panicked' = holding(c, Op(c)[2])
  /\ Continue(c, <<<<"swap", Op(c)[2]>>>>)
  /\ UNCHANGED <<spinVars, cur, pstate>>

Free(l) == ~locked[l]

\* The atomic swap that finds 0; the ones that find 1 change nothing.
Swap(c) ==
  /\ Is(c, "swap") /\ Free(Op(c)[2])
  /\ locked' = [locked EXCEPT ![Op(c)[2]] = TRUE]
  /\ Continue(c, <<<<"own", Op(c)[2], c>>>>)
  /\ UNCHANGED <<owner, cpuVars, cur, pstate, panicked>>

\* acquire(): lk->cpu = mycpu().
SetOwner(c) ==
  /\ Is(c, "own")
  /\ owner' = [owner EXCEPT ![Op(c)[2]] = Op(c)[3]]
  /\ Continue(c, <<>>)
  /\ UNCHANGED <<locked, cpuVars, cur, pstate, panicked>>

\* (Mutation: release() unlocks, then clears lk->cpu.)
ClearOwner_late(c) ==
  /\ Is(c, "release")
  /\ panicked' = ~holding(c, Op(c)[2])
  /\ locked' = [locked EXCEPT ![Op(c)[2]] = FALSE]
  /\ Continue(c, <<<<"own", Op(c)[2], NoCpu>>, <<"pop_off">>>>)
  /\ UNCHANGED <<owner, cpuVars, cur, pstate>>

\* release(): lk->cpu = 0.
ClearOwner(c) ==
  /\ Is(c, "release")
  /\ panicked' = ~holding(c, Op(c)[2])
  /\ owner' = [owner EXCEPT ![Op(c)[2]] = NoCpu]
  /\ Continue(c, <<<<"unlock", Op(c)[2]>>, <<"pop_off">>>>)
  /\ UNCHANGED <<locked, cpuVars, cur, pstate>>

Unlock(c) ==
  /\ Is(c, "unlock")
  /\ locked' = [locked EXCEPT ![Op(c)[2]] = FALSE]
  /\ Continue(c, <<>>)
  /\ UNCHANGED <<owner, cpuVars, cur, pstate, panicked>>

PopOff(c) ==
  /\ Is(c, "pop_off")
  /\ panicked' = (sie[c] \/ noff[c] < 1)
  /\ noff' = [noff EXCEPT ![c] = @ - 1]
  /\ sie'  = [sie EXCEPT ![c] = sie[c] \/ (noff[c] = 1 /\ intena[c])]
  /\ Continue(c, <<>>)
  /\ UNCHANGED <<spinVars, intena, cur, pstate>>

-----------------------------------------------------------------------------
(* proc.c                                                                  *)

\* yield() and sleep() give the state the process stops in to sched().
yield(p)    == Guarded(p, <<<<"sched", "RUNNABLE">>>>)
sleep(p, l) == <<<<"acquire", p>>, <<"release", l>>, <<"sched", "SLEEPING">>,
                 <<"release", p>>, <<"acquire", l>>>>

\* The panics of sched(); the switch; intena is the thread's, and stays with it.
Sched(c) ==
  LET p == cur[c] IN
  /\ Is(c, "sched")
  /\ panicked' = (~holding(c, p) \/ noff[c] # 1 \/ sie[c])
  /\ pstate' = [pstate EXCEPT ![p] = Op(c)[2]]
  /\ Continue(c, <<<<"intena", intena[c]>>>>)
  /\ cur' = [cur EXCEPT ![c] = c]
  /\ UNCHANGED <<spinVars, cpuVars>>

\* (Mutation: the CPU keeps the intena of whoever ran before.)
Restored_not(c, i) == intena[c]

\* sched(), when the process is switched to again: mycpu()->intena = intena.
Restored(c, i) == i

RestoreIntena(c) ==
  /\ Is(c, "intena")
  /\ intena' = [intena EXCEPT ![c] = Restored(c, Op(c)[2])]
  /\ Continue(c, <<>>)
  /\ UNCHANGED <<spinVars, sie, noff, cur, pstate, panicked>>

\* One round of scheduler(): intr_on(), then each process under its lock.
visit(p) == Guarded(p, <<<<"pick", p>>>>)

\* (Mutation: interrupts stay as the last process left them.)
round_as_left == FlattenSeq([i \in DOMAIN Order |-> visit(Order[i])])

round == <<<<"on">>>> \o FlattenSeq([i \in DOMAIN Order |-> visit(Order[i])])

Round(c) ==
  /\ ~panicked /\ cur[c] = c /\ todo[c] = <<>>
  /\ todo' = [todo EXCEPT ![c] = round]
  /\ UNCHANGED <<spinVars, cpuVars, cur, pstate, panicked>>

\* The process is switched to if it is RUNNABLE; which of them the scheduler
\* prefers is left open.
Pick(c) ==
  LET p == Op(c)[2] IN
  /\ Is(c, "pick")
  /\ \/ /\ pstate[p] = "RUNNABLE"
        /\ pstate' = [pstate EXCEPT ![p] = "RUNNING"]
        /\ cur' = [cur EXCEPT ![c] = p]
     \/ UNCHANGED <<pstate, cur>>
  /\ Continue(c, <<>>)
  /\ UNCHANGED <<spinVars, cpuVars, panicked>>

\* wakeup(&ticks): every process but the CPU's own, under its lock.
wakeup_ticks(x) ==
  FlattenSeq([i \in DOMAIN Order |->
    IF Order[i] = x THEN <<>> ELSE Guarded(Order[i], <<<<"wake", Order[i]>>>>)])

Wake(c) ==
  LET p == Op(c)[2] IN
  /\ Is(c, "wake")
  /\ pstate' = [pstate EXCEPT ![p] = IF @ = "SLEEPING" THEN "RUNNABLE" ELSE @]
  /\ Continue(c, <<>>)
  /\ UNCHANGED <<spinVars, cpuVars, cur, panicked>>

killed(p) == Guarded(p, <<>>)

-----------------------------------------------------------------------------
(* trap.c                                                                  *)

\* devintr() on a timer interrupt: clockintr() on CPU 0.
devintr(c) == IF c = ClockCpu THEN Guarded(Ticks, wakeup_ticks(cur[c])) ELSE <<>>

\* The traps of the current thread put their work in front, with interrupts off.
Trap(c, work) ==
  /\ ~panicked
  /\ sie' = [sie EXCEPT ![c] = FALSE]
  /\ todo' = [todo EXCEPT ![cur[c]] = work \o @]
  /\ UNCHANGED <<spinVars, noff, intena, cur, pstate, panicked>>

InUser(c) == cur[c] \in Procs /\ todo[cur[c]] = <<>>

\* usertrap() for a timer interrupt.
UserTimer(c) ==
  LET p == cur[c] IN
  InUser(c) /\ Trap(c, devintr(c) \o killed(p) \o yield(p) \o usertrapret("timer"))

\* usertrap() for a system call: sys_uptime(), or sys_sleep() that waits for one tick.
Syscall(c) ==
  LET p == cur[c] IN
  /\ InUser(c)
  /\ \E work \in {<<>>, killed(p) \o sleep(p, Ticks)} :
       Trap(c, killed(p) \o <<<<"on">>>> \o Guarded(Ticks, work) \o killed(p) \o usertrapret("syscall"))

\* kerneltrap() for a timer interrupt, in a process or in the scheduler.
KernelTimer(c) ==
  /\ sie[c] /\ ~InUser(c)
  /\ Trap(c, devintr(c) \o (IF cur[c] \in Procs THEN yield(cur[c]) ELSE <<>>)
             \o <<<<"return", "kernel">>>>)

\* intr_on() and intr_off().
SetFlag(c) ==
  /\ Is(c, "on") \/ Is(c, "off")
  /\ sie' = [sie EXCEPT ![c] = Op(c)[1] = "on"]
  /\ Continue(c, <<>>)
  /\ UNCHANGED <<spinVars, noff, intena, cur, pstate, panicked>>

\* The sret at the end of a trap lets interrupts in: SPIE is set in user mode, and
\* kerneltrap() writes back the sstatus of a thread that had them on.
Return(c) ==
  /\ Is(c, "return")
  /\ sie' = [sie EXCEPT ![c] = TRUE]
  /\ Continue(c, <<>>)
  /\ UNCHANGED <<spinVars, noff, intena, cur, pstate, panicked>>

Step(c) ==
  \/ ReadFlag(c) \/ PushOff(c) \/ Swap(c) \/ SetOwner(c)
  \/ ClearOwner(c) \/ Unlock(c) \/ PopOff(c)
  \/ Sched(c) \/ RestoreIntena(c) \/ Round(c) \/ Pick(c) \/ Wake(c)
  \/ SetFlag(c) \/ Return(c)

LockNext == \E c \in Harts : Step(c) \/ UserTimer(c) \/ Syscall(c) \/ KernelTimer(c)

LockSpec == LockInit /\ [][LockNext]_lockVars

\* A CPU goes on, the swap of one that spins succeeds if it can again and again,
\* and a timer interrupt stays pending until the CPU takes it.
LockFairSpec == LockSpec /\ \A c \in Harts :
  /\ WF_lockVars(Step(c)) /\ SF_lockVars(Swap(c))
  /\ SF_lockVars(UserTimer(c) \/ KernelTimer(c))

-----------------------------------------------------------------------------
(* Properties                                                              *)

Named(x, names) == {i \in DOMAIN todo[x] : todo[x][i][1] \in names}
First(I)        == CHOOSE i \in I : \A j \in I : i <= j

\* What thread x has still to do with lock l.
LockOps(x, l) == {i \in Named(x, {"acquire", "push_off", "swap", "own", "release", "unlock"}) :
                    todo[x][i][2] = l}

\* The CPUs whose thread is between the swap and the unlock of l.
Inside(l) == {c \in Harts : LET I == LockOps(cur[c], l) IN
                /\ I # {}
                /\ todo[cur[c]][First(I)][1] \in {"own", "release", "unlock"}}

\* LocksExclude: a lock is held by one executing thread at most, and is free when
\* none has it: a switch hands p->lock over and leaves no lock behind.  No panic of
\* acquire(), release(), pop_off() and sched() is reached: no handler wants a lock that
\* its CPU holds, and lk->cpu always names the holder.
LocksExclude ==
  /\ ~panicked
  /\ \A l \in Locks : /\ \A c, d \in Inside(l) : c = d
                      /\ locked[l] <=> Inside(l) # {}

\* The trap the current process is in, and whether it has enabled interrupts.
TrapOf(c) == todo[cur[c]][First(Named(cur[c], {"return"}))][2]
Opened(c) == LET I == Named(cur[c], {"on", "off"})
             IN  I # {} /\ todo[cur[c]][First(I)][1] = "off"

\* ThreadsOwnInterrupts: whatever CPU a process comes back on and whoever ran
\* there before, a system call that holds no lock runs with interrupts on, and
\* the handler of a timer interrupt, or the holder of a lock, with interrupts off.
ThreadsOwnInterrupts == \A c \in Harts :
  /\ noff[c] > 0 => ~sie[c]
  /\ cur[c] \in Procs /\ todo[cur[c]] # <<>> =>
       /\ TrapOf(c) \in {"timer", "kernel"} => ~sie[c]
       /\ TrapOf(c) = "syscall" /\ Opened(c) /\ noff[c] = 0 => sie[c]

\* TicksArrive: a process in sys_sleep() is woken by the clock, though CPU 0 may
\* have no process to run, and got into its scheduler from a handler that had
\* interrupts off.
TicksArrive == \A p \in Procs : pstate[p] = "SLEEPING" ~> pstate[p] = "RUNNABLE"
=============================================================================
