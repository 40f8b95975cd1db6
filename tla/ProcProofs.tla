----------------------------- MODULE ProcProofs -----------------------------
(***************************************************************************)
(* Proofs about Proc for every set of CPUs and every NPROC > 0.            *)
(*                                                                         *)
(* First one lemma for each action of Proc: it preserves every conjunct of *)
(* IInv (ProcInv).  In each lemma a step proves one conjunct and names the *)
(* conjuncts it needs; the conjuncts whose variables the action does not   *)
(* touch come last, together.  Then the invariance of IInv, the theorems   *)
(* on the properties of Proc that follow from it, and the refinement.      *)
(***************************************************************************)
EXTENDS ProcInv, TLAPS

\* The arithmetic of slots and channels, so that no other step needs it.
LEMMA SlotFacts ==
  /\ Initproc \in Slots /\ 1 \in Slots
  /\ NoProc \notin Slots /\ OtherChan \notin Slots /\ OtherChan # NoProc
  /\ NoProc \in Chans /\ OtherChan \in Chans /\ Slots \subseteq Chans
  /\ NoCpu \notin Cpus
  /\ \A s \in Slots : s # NPROC => s + 1 \in Slots
  /\ \A q \in Slots : ~(q < 1)
  /\ \A q, s \in Slots : q < s + 1 => q < s \/ q = s
  /\ \A q \in Slots : q < NPROC \/ q = NPROC
BY ProcAssumption, SMT DEF Slots, Initproc, NoProc, OtherChan, Chans

\* The scheduler switches to p: whoever holds no p->lock was off every CPU.
LEMMA RunInv ==
  ASSUME IInv, NEW c \in Cpus, NEW p \in Slots, Run(c, p)
  PROVE  IInv'
<1> USE SlotFacts DEF IInv, Run, localVars
<1>a. ctx[p] = "off"
  BY DEF TypeOK, Ctxs, Binding, Plocks
<1>1. TypeOK'
  BY <1>a DEF TypeOK, States, Ctxs, Pcs
<1>2. Binding'
  BY <1>a DEF TypeOK, Binding
<1>3. Points'
  BY <1>a DEF TypeOK, Points, LockedPcs, WaitLockPcs, Alive
<1>4. Plocks'
  BY <1>a DEF TypeOK, Binding, Plocks, Executing
<1>5. Wlock'
  BY <1>a DEF TypeOK, Wlock, Executing, WaitLockPcs
<1>6. Forks'
  BY <1>a DEF TypeOK, Forks, ForkPcs
<1>7. Parents'
  BY <1>a DEF TypeOK, Parents, Alive
<1>8. Exits'
  BY <1>a DEF TypeOK, Exits, WillSleep
<1>9. Reparented'
  BY DEF Reparented
<1> QED BY <1>1, <1>2, <1>3, <1>4, <1>5, <1>6, <1>7, <1>8, <1>9

\* p gives back the lock the scheduler took for it.
LEMMA SwitchInInv ==
  ASSUME IInv, NEW c \in Cpus, NEW p \in Slots, SwitchIn(c, p)
  PROVE  IInv'
<1> USE SlotFacts DEF IInv, SwitchIn, procVars, localVars
<1>1. TypeOK'
  BY DEF TypeOK, States, Ctxs, Pcs
<1>2. Binding'
  BY DEF TypeOK, Binding
<1>3. Points'
  BY DEF TypeOK, Points, LockedPcs, WaitLockPcs, Alive
<1>4. Plocks'
  BY DEF TypeOK, Binding, Points, Plocks, LockedPcs, WaitLockPcs, Alive,
         Executing
<1>5. Wlock'
  BY DEF TypeOK, Binding, Points, Wlock, LockedPcs, WaitLockPcs, Alive,
         Executing
<1>6. Forks' /\ Parents' /\ Reparented' /\ Exits'
  BY DEF Forks, Parents, Reparented, Exits, ForkPcs, Alive, WillSleep
<1> QED BY <1>1, <1>2, <1>3, <1>4, <1>5, <1>6

\* p returns from sched() in sleep().
LEMMA SleepReturnInv ==
  ASSUME IInv, NEW c \in Cpus, NEW p \in Slots, SleepReturn(c, p)
  PROVE  IInv'
<1> USE SlotFacts DEF IInv, SleepReturn, localVars
<1>1. TypeOK'
  BY DEF TypeOK, States, Ctxs, Pcs
<1>2. Binding'
  BY DEF TypeOK, Binding
<1>3. Points'
  BY DEF TypeOK, Binding, Points, LockedPcs, WaitLockPcs, Alive
<1>4. Plocks'
  BY DEF TypeOK, Plocks, Executing
<1>5. Wlock'
  BY DEF TypeOK, Wlock, Executing, WaitLockPcs
<1>6. Forks'
  BY DEF TypeOK, Forks, ForkPcs
<1>7. Parents'
  BY DEF TypeOK, Parents, Alive
<1>8. Reparented'
  BY DEF TypeOK, Reparented
<1>9. Exits'
  BY DEF TypeOK, Exits, WillSleep
<1> QED BY <1>1, <1>2, <1>3, <1>4, <1>5, <1>6, <1>7, <1>8, <1>9

\* The scheduler gets the CPU back and drops c->proc and p->lock.
LEMMA SwitchOutInv ==
  ASSUME IInv, NEW c \in Cpus, NEW p \in Slots, SwitchOut(c, p)
  PROVE  IInv'
<1> USE SlotFacts DEF IInv, SwitchOut, procVars, localVars
<1>1. TypeOK'
  BY DEF TypeOK, States, Ctxs, Pcs
<1>2. Binding'
  BY DEF TypeOK, Binding
<1>3. Points'
  BY DEF TypeOK, Points, LockedPcs, WaitLockPcs, Alive
<1>4. Plocks'
  BY DEF TypeOK, Plocks, Executing
<1>5. Wlock'
  BY DEF TypeOK, Wlock, Executing, WaitLockPcs
<1>6. Forks' /\ Parents' /\ Reparented' /\ Exits'
  BY DEF Forks, Parents, Reparented, Exits, ForkPcs, Alive, WillSleep
<1> QED BY <1>1, <1>2, <1>3, <1>4, <1>5, <1>6

\* A timer interrupt: p is RUNNABLE, still on its CPU, with its lock held.
LEMMA YieldInv ==
  ASSUME IInv, NEW c \in Cpus, NEW p \in Slots, Yield(c, p)
  PROVE  IInv'
<1> USE SlotFacts DEF IInv, Yield, Executing, Preemptible, localVars
<1>1. TypeOK'
  BY DEF TypeOK, States, Ctxs, Pcs
<1>2. Binding'
  BY DEF TypeOK, Binding
<1>3. Points'
  BY DEF TypeOK, Points, LockedPcs, WaitLockPcs, Alive
<1>4. Plocks'
  BY DEF TypeOK, Binding, Plocks
<1>5. Wlock'
  BY DEF TypeOK, Wlock, WaitLockPcs
<1>6. Forks'
  BY DEF TypeOK, Binding, Forks, ForkPcs
<1>7. Parents'
  BY DEF TypeOK, Binding, Parents, Alive
<1>8. Exits'
  BY DEF TypeOK, Exits, WillSleep
<1>9. Reparented'
  BY DEF Reparented
<1> QED BY <1>1, <1>2, <1>3, <1>4, <1>5, <1>6, <1>7, <1>8, <1>9

\* p sleeps on a channel that is no process.
LEMMA SleepInv ==
  ASSUME IInv, NEW c \in Cpus, NEW p \in Slots, Sleep(c, p)
  PROVE  IInv'
<1> USE SlotFacts DEF IInv, Sleep, Executing, localVars
<1>1. TypeOK'
  BY DEF TypeOK, States, Ctxs, Pcs
<1>2. Binding'
  BY DEF TypeOK, Binding
<1>3. Points'
  BY DEF TypeOK, Points, LockedPcs, WaitLockPcs, Alive
<1>4. Plocks'
  BY DEF TypeOK, Binding, Plocks
<1>5. Wlock'
  BY DEF TypeOK, Wlock, WaitLockPcs
<1>6. Forks'
  BY DEF TypeOK, Binding, Forks, ForkPcs
<1>7. Parents'
  BY DEF TypeOK, Binding, Parents, Alive
<1>8. Reparented'
  BY DEF TypeOK, Reparented
<1>9. Exits'
  BY DEF TypeOK, Exits, WillSleep
<1> QED BY <1>1, <1>2, <1>3, <1>4, <1>5, <1>6, <1>7, <1>8, <1>9

\* The owner of such a channel wakes p.
LEMMA WakeupInv ==
  ASSUME IInv, NEW p \in Slots, Wakeup(p)
  PROVE  IInv'
<1> USE SlotFacts DEF IInv, Wakeup, lockVars, cpuVars, localVars
<1>1. TypeOK'
  BY DEF TypeOK, States, Ctxs, Pcs
<1>2. Binding'
  BY DEF TypeOK, Binding
<1>3. Points'
  BY DEF TypeOK, Points, LockedPcs, WaitLockPcs, Alive
<1>4. Forks'
  BY DEF TypeOK, Forks, ForkPcs
<1>5. Parents'
  BY DEF TypeOK, Parents, Alive
<1>6. Exits'
  BY DEF TypeOK, Exits, WillSleep
<1>7. Plocks' /\ Wlock' /\ Reparented'
  BY DEF Plocks, Wlock, Reparented, Executing, WaitLockPcs
<1> QED BY <1>1, <1>2, <1>3, <1>4, <1>5, <1>6, <1>7

\* allocproc(): np belongs to nobody, so p may hold its lock across steps.
LEMMA ForkAllocInv ==
  ASSUME IInv, NEW c \in Cpus, NEW p \in Slots, NEW np \in Slots, ForkAlloc(c, p, np)
  PROVE  IInv'
<1> USE SlotFacts DEF IInv, ForkAlloc, Executing, cpuVars
<1>1. TypeOK'
  BY DEF TypeOK, States, Ctxs, Pcs
<1>2. Binding'
  BY DEF TypeOK, Binding
<1>3. Points'
  BY DEF TypeOK, Binding, Points, LockedPcs, WaitLockPcs, Alive
<1>4. Plocks'
  BY DEF TypeOK, Binding, Plocks
<1>5. Wlock'
  BY DEF TypeOK, Binding, Wlock, WaitLockPcs
<1>6. Forks'
  BY DEF TypeOK, Forks, ForkPcs
<1>7. Parents'
  BY DEF TypeOK, Parents, Alive
<1>8. Reparented'
  BY DEF TypeOK, Reparented
<1>9. Exits'
  BY DEF TypeOK, Exits, WillSleep
<1> QED BY <1>1, <1>2, <1>3, <1>4, <1>5, <1>6, <1>7, <1>8, <1>9

\* fork() frees np.
LEMMA ForkFailInv ==
  ASSUME IInv, NEW c \in Cpus, NEW p \in Slots, ForkFail(c, p)
  PROVE  IInv'
<1> USE SlotFacts DEF IInv, ForkFail, Executing, Freed, cpuVars
<1>1. TypeOK'
  BY DEF TypeOK, States, Ctxs, Pcs
<1>2. Binding'
  BY DEF TypeOK, Binding, Points, Plocks, Forks, LockedPcs, WaitLockPcs,
         Alive, ForkPcs
<1>3. Points'
  BY DEF TypeOK, Binding, Points, Plocks, Forks, LockedPcs, WaitLockPcs,
         Alive, ForkPcs
<1>4. Plocks'
  BY DEF TypeOK, Plocks
<1>5. Wlock'
  BY DEF TypeOK, Wlock, WaitLockPcs
<1>6. Forks'
  BY DEF TypeOK, Forks, ForkPcs
<1>7. Parents'
  BY DEF TypeOK, Binding, Points, Forks, Parents, Reparented, LockedPcs,
         WaitLockPcs, Alive, ForkPcs
<1>8. Reparented'
  BY DEF TypeOK, Reparented
<1>9. Exits'
  BY DEF TypeOK, Exits, WillSleep
<1> QED BY <1>1, <1>2, <1>3, <1>4, <1>5, <1>6, <1>7, <1>8, <1>9

\* fork() releases np->lock.
LEMMA ForkCopiedInv ==
  ASSUME IInv, NEW c \in Cpus, NEW p \in Slots, ForkCopied(c, p)
  PROVE  IInv'
<1> USE SlotFacts DEF IInv, ForkCopied, Executing, procVars, cpuVars, localVars
<1>1. TypeOK'
  BY DEF TypeOK, States, Ctxs, Pcs
<1>2. Points'
  BY DEF TypeOK, Points, LockedPcs, WaitLockPcs, Alive
<1>3. Plocks'
  BY DEF TypeOK, Plocks
<1>4. Wlock'
  BY DEF TypeOK, Wlock, WaitLockPcs
<1>5. Forks'
  BY DEF TypeOK, Forks, ForkPcs
<1>6. Parents'
  BY DEF TypeOK, Parents, Alive
<1>7. Reparented'
  BY DEF TypeOK, Reparented
<1>8. Exits'
  BY DEF TypeOK, Exits, WillSleep
<1>9. Binding'
  BY DEF Binding
<1> QED BY <1>1, <1>2, <1>3, <1>4, <1>5, <1>6, <1>7, <1>8, <1>9

\* np gets a living parent.
LEMMA ForkParentInv ==
  ASSUME IInv, NEW c \in Cpus, NEW p \in Slots, ForkParent(c, p)
  PROVE  IInv'
<1> USE SlotFacts DEF IInv, ForkParent, Executing, lockVars, cpuVars, localVars
<1>1. TypeOK'
  BY DEF TypeOK, States, Ctxs, Pcs
<1>2. Points'
  BY DEF TypeOK, Points, LockedPcs, WaitLockPcs, Alive
<1>3. Plocks'
  BY DEF TypeOK, Plocks
<1>4. Wlock'
  BY DEF TypeOK, Wlock, WaitLockPcs
<1>5. Forks'
  BY DEF TypeOK, Forks, ForkPcs
<1>6. Parents'
  BY DEF TypeOK, Binding, Points, Forks, Parents, Reparented, LockedPcs,
         WaitLockPcs, Alive, ForkPcs
<1>7. Reparented'
  BY DEF TypeOK, Reparented
<1>8. Exits'
  BY DEF TypeOK, Exits, WillSleep
<1>9. Binding'
  BY DEF Binding
<1> QED BY <1>1, <1>2, <1>3, <1>4, <1>5, <1>6, <1>7, <1>8, <1>9

\* np may run from here on, with that parent.
LEMMA ForkReadyInv ==
  ASSUME IInv, NEW c \in Cpus, NEW p \in Slots, ForkReady(c, p)
  PROVE  IInv'
<1> USE SlotFacts DEF IInv, ForkReady, Executing, lockVars, cpuVars
<1>1. TypeOK'
  BY DEF TypeOK, States, Ctxs, Pcs
<1>2. Binding'
  BY DEF TypeOK, Binding, Points, Plocks, Forks, LockedPcs, WaitLockPcs,
         Alive, ForkPcs
<1>3. Points'
  BY DEF TypeOK, Binding, Points, Plocks, Forks, LockedPcs, WaitLockPcs,
         Alive, ForkPcs
<1>4. Plocks'
  BY DEF TypeOK, Plocks
<1>5. Wlock'
  BY DEF TypeOK, Wlock, WaitLockPcs
<1>6. Forks'
  BY DEF TypeOK, Forks, ForkPcs
<1>7. Parents'
  BY DEF TypeOK, Binding, Points, Forks, Parents, Reparented, LockedPcs,
         WaitLockPcs, Alive, ForkPcs
<1>8. Reparented'
  BY DEF TypeOK, Reparented
<1>9. Exits'
  BY DEF TypeOK, Exits, WillSleep
<1> QED BY <1>1, <1>2, <1>3, <1>4, <1>5, <1>6, <1>7, <1>8, <1>9

\* exit() enters the section of wait_lock.
LEMMA ExitAcquireInv ==
  ASSUME IInv, NEW c \in Cpus, NEW p \in Slots, ExitAcquire(c, p)
  PROVE  IInv'
<1> USE SlotFacts DEF IInv, ExitAcquire, Executing, procVars, cpuVars
<1>1. TypeOK'
  BY DEF TypeOK, States, Ctxs, Pcs
<1>2. Points'
  BY DEF TypeOK, Binding, Points, LockedPcs, WaitLockPcs, Alive
<1>3. Plocks'
  BY DEF TypeOK, Plocks
<1>4. Wlock'
  BY DEF TypeOK, Binding, Wlock, WaitLockPcs
<1>5. Forks'
  BY DEF TypeOK, Forks, ForkPcs
<1>6. Parents'
  BY DEF TypeOK, Parents, Alive
<1>7. Reparented'
  BY DEF TypeOK, Reparented
<1>8. Exits'
  BY DEF TypeOK, Exits, WillSleep
<1>9. Binding'
  BY DEF Binding
<1> QED BY <1>1, <1>2, <1>3, <1>4, <1>5, <1>6, <1>7, <1>8, <1>9

\* One child goes to init; the slots below slot[p] hold no child of p.
LEMMA ExitReparentInv ==
  ASSUME IInv, NEW c \in Cpus, NEW p \in Slots, ExitReparent(c, p)
  PROVE  IInv'
<1> USE SlotFacts DEF IInv, ExitReparent, Executing, NextSlot, Wakened, lockVars, cpuVars
<1>1. TypeOK'
  BY DEF TypeOK, States, Ctxs, Pcs
<1>2. Binding'
  BY DEF TypeOK, Binding
<1>3. Points'
  BY DEF TypeOK, Points, LockedPcs, WaitLockPcs, Alive
<1>4. Plocks'
  BY DEF TypeOK, Plocks
<1>5. Wlock'
  BY DEF TypeOK, Wlock, WaitLockPcs
<1>6. Forks'
  BY DEF TypeOK, Forks, ForkPcs
<1>7. Parents'
  BY DEF TypeOK, Parents, Alive
<1>8. Reparented'
  BY DEF TypeOK, Binding, Points, Wlock, Forks, Parents, Reparented,
         LockedPcs, WaitLockPcs, Alive, ForkPcs
<1>9. Exits'
  BY DEF TypeOK, Binding, Points, Plocks, Wlock, Forks, Parents, Exits,
         LockedPcs, WaitLockPcs, Alive, ForkPcs, WillSleep
<1> QED BY <1>1, <1>2, <1>3, <1>4, <1>5, <1>6, <1>7, <1>8, <1>9

\* slot[p] is no child of p.
LEMMA ExitSkipInv ==
  ASSUME IInv, NEW c \in Cpus, NEW p \in Slots, ExitSkip(c, p)
  PROVE  IInv'
<1> USE SlotFacts DEF IInv, ExitSkip, Executing, NextSlot, procVars, lockVars, cpuVars
<1>1. TypeOK'
  BY DEF TypeOK, States, Ctxs, Pcs
<1>2. Points'
  BY DEF TypeOK, Points, LockedPcs, WaitLockPcs, Alive
<1>3. Plocks'
  BY DEF TypeOK, Plocks
<1>4. Wlock'
  BY DEF TypeOK, Wlock, WaitLockPcs
<1>5. Forks'
  BY DEF TypeOK, Forks, ForkPcs
<1>6. Parents'
  BY DEF TypeOK, Parents, Alive
<1>7. Reparented'
  BY DEF TypeOK, Reparented
<1>8. Exits'
  BY DEF TypeOK, Exits, WillSleep
<1>9. Binding'
  BY DEF Binding
<1> QED BY <1>1, <1>2, <1>3, <1>4, <1>5, <1>6, <1>7, <1>8, <1>9

\* The parent, if it sleeps in wait(), is RUNNABLE before its child is a ZOMBIE.
LEMMA ExitWakeInv ==
  ASSUME IInv, NEW c \in Cpus, NEW p \in Slots, ExitWake(c, p)
  PROVE  IInv'
<1> USE SlotFacts DEF IInv, ExitWake, Executing, Wakened, lockVars, cpuVars, localVars
<1>1. TypeOK'
  BY DEF TypeOK, States, Ctxs, Pcs
<1>2. Binding'
  BY DEF TypeOK, Binding
<1>3. Points'
  BY DEF TypeOK, Points, LockedPcs, WaitLockPcs, Alive
<1>4. Plocks'
  BY DEF TypeOK, Plocks
<1>5. Wlock'
  BY DEF TypeOK, Wlock, WaitLockPcs
<1>6. Forks'
  BY DEF TypeOK, Forks, ForkPcs
<1>7. Parents'
  BY DEF TypeOK, Parents, Alive
<1>8. Reparented'
  BY DEF TypeOK, Reparented
<1>9. Exits'
  BY DEF TypeOK, Binding, Points, Plocks, Wlock, Forks, Parents, Exits,
         LockedPcs, WaitLockPcs, Alive, ForkPcs, WillSleep
<1> QED BY <1>1, <1>2, <1>3, <1>4, <1>5, <1>6, <1>7, <1>8, <1>9

\* p dies childless, and its parent is awake.
LEMMA ExitZombieInv ==
  ASSUME IInv, NEW c \in Cpus, NEW p \in Slots, ExitZombie(c, p)
  PROVE  IInv'
<1> USE SlotFacts DEF IInv, ExitZombie, Executing, localVars
<1>1. TypeOK'
  BY DEF TypeOK, States, Ctxs, Pcs
<1>2. Binding'
  BY DEF TypeOK, Binding
<1>3. Points'
  BY DEF TypeOK, Points, LockedPcs, WaitLockPcs, Alive
<1>4. Plocks'
  BY DEF TypeOK, Binding, Plocks
<1>5. Wlock'
  BY DEF TypeOK, Wlock, WaitLockPcs
<1>6. Forks'
  BY DEF TypeOK, Binding, Forks, ForkPcs
<1>7. Parents'
  BY DEF TypeOK, Binding, Points, Forks, Parents, Reparented, LockedPcs,
         WaitLockPcs, Alive, ForkPcs
<1>8. Reparented'
  BY DEF TypeOK, Reparented
<1>9. Exits'
  BY DEF TypeOK, Binding, Points, Plocks, Wlock, Forks, Parents, Exits,
         LockedPcs, WaitLockPcs, Alive, ForkPcs, WillSleep
<1> QED BY <1>1, <1>2, <1>3, <1>4, <1>5, <1>6, <1>7, <1>8, <1>9

\* wait() enters the section of wait_lock.
LEMMA WaitAcquireInv ==
  ASSUME IInv, NEW c \in Cpus, NEW p \in Slots, WaitAcquire(c, p)
  PROVE  IInv'
<1> USE SlotFacts DEF IInv, WaitAcquire, Executing, procVars, cpuVars
<1>1. TypeOK'
  BY DEF TypeOK, States, Ctxs, Pcs
<1>2. Points'
  BY DEF TypeOK, Binding, Points, LockedPcs, WaitLockPcs, Alive
<1>3. Plocks'
  BY DEF TypeOK, Plocks
<1>4. Wlock'
  BY DEF TypeOK, Binding, Wlock, WaitLockPcs
<1>5. Forks'
  BY DEF TypeOK, Forks, ForkPcs
<1>6. Parents'
  BY DEF TypeOK, Parents, Alive
<1>7. Reparented'
  BY DEF TypeOK, Reparented
<1>8. Exits'
  BY DEF TypeOK, Exits, WillSleep
<1>9. Binding'
  BY DEF Binding
<1> QED BY <1>1, <1>2, <1>3, <1>4, <1>5, <1>6, <1>7, <1>8, <1>9

\* slot[p] is no child of p.
LEMMA WaitSkipInv ==
  ASSUME IInv, NEW c \in Cpus, NEW p \in Slots, WaitSkip(c, p)
  PROVE  IInv'
<1> USE SlotFacts DEF IInv, WaitSkip, Executing, NextSlot, procVars, lockVars, cpuVars
<1>1. TypeOK'
  BY DEF TypeOK, States, Ctxs, Pcs
<1>2. Points'
  BY DEF TypeOK, Points, LockedPcs, WaitLockPcs, Alive
<1>3. Plocks'
  BY DEF TypeOK, Plocks
<1>4. Wlock'
  BY DEF TypeOK, Wlock, WaitLockPcs
<1>5. Forks'
  BY DEF TypeOK, Forks, ForkPcs
<1>6. Parents'
  BY DEF TypeOK, Parents, Alive
<1>7. Reparented'
  BY DEF TypeOK, Reparented
<1>8. Exits'
  BY DEF TypeOK, Exits, WillSleep
<1>9. Binding'
  BY DEF Binding
<1> QED BY <1>1, <1>2, <1>3, <1>4, <1>5, <1>6, <1>7, <1>8, <1>9

\* slot[p] is a child that had not exited.
LEMMA WaitScanInv ==
  ASSUME IInv, NEW c \in Cpus, NEW p \in Slots, WaitScan(c, p)
  PROVE  IInv'
<1> USE SlotFacts DEF IInv, WaitScan, Executing, NextSlot, procVars, lockVars, cpuVars
<1>1. TypeOK'
  BY DEF TypeOK, States, Ctxs, Pcs
<1>2. Points'
  BY DEF TypeOK, Points, LockedPcs, WaitLockPcs, Alive
<1>3. Plocks'
  BY DEF TypeOK, Plocks
<1>4. Wlock'
  BY DEF TypeOK, Wlock, WaitLockPcs
<1>5. Forks'
  BY DEF TypeOK, Forks, ForkPcs
<1>6. Parents'
  BY DEF TypeOK, Parents, Alive
<1>7. Reparented'
  BY DEF TypeOK, Reparented
<1>8. Exits'
  BY DEF TypeOK, Exits, WillSleep
<1>9. Binding'
  BY DEF Binding
<1> QED BY <1>1, <1>2, <1>3, <1>4, <1>5, <1>6, <1>7, <1>8, <1>9

\* A zombie child is freed; nobody refers to its slot.
LEMMA WaitReapInv ==
  ASSUME IInv, NEW c \in Cpus, NEW p \in Slots, WaitReap(c, p)
  PROVE  IInv'
<1> USE SlotFacts DEF IInv, WaitReap, Executing, Freed, WaitReturn, cpuVars
<1>1. TypeOK'
  BY DEF TypeOK, States, Ctxs, Pcs
<1>2. Binding'
  BY DEF TypeOK, Binding, Points, Plocks, Forks, LockedPcs, WaitLockPcs,
         Alive, ForkPcs
<1>3. Points'
  BY DEF TypeOK, Points, LockedPcs, WaitLockPcs, Alive
<1>4. Plocks'
  BY DEF TypeOK, Plocks
<1>5. Wlock'
  BY DEF TypeOK, Wlock, WaitLockPcs
<1>6. Forks'
  BY DEF TypeOK, Forks, ForkPcs
<1>7. Parents'
  BY DEF TypeOK, Parents, Alive
<1>8. Reparented'
  BY DEF TypeOK, Reparented
<1>9. Exits'
  BY DEF TypeOK, Exits, WillSleep
<1> QED BY <1>1, <1>2, <1>3, <1>4, <1>5, <1>6, <1>7, <1>8, <1>9

\* wait() gives the zombie up.
LEMMA WaitCopyoutFailInv ==
  ASSUME IInv, NEW c \in Cpus, NEW p \in Slots, WaitCopyoutFail(c, p)
  PROVE  IInv'
<1> USE SlotFacts DEF IInv, WaitCopyoutFail, Executing, WaitReturn, procVars, cpuVars
<1>1. TypeOK'
  BY DEF TypeOK, States, Ctxs, Pcs
<1>2. Points'
  BY DEF TypeOK, Points, LockedPcs, WaitLockPcs, Alive
<1>3. Plocks'
  BY DEF TypeOK, Plocks
<1>4. Wlock'
  BY DEF TypeOK, Wlock, WaitLockPcs
<1>5. Forks'
  BY DEF TypeOK, Forks, ForkPcs
<1>6. Parents'
  BY DEF TypeOK, Parents, Alive
<1>7. Reparented'
  BY DEF TypeOK, Reparented
<1>8. Exits'
  BY DEF TypeOK, Exits, WillSleep
<1>9. Binding'
  BY DEF Binding
<1> QED BY <1>1, <1>2, <1>3, <1>4, <1>5, <1>6, <1>7, <1>8, <1>9

\* wait() has nobody to wait for.
LEMMA WaitGiveUpInv ==
  ASSUME IInv, NEW c \in Cpus, NEW p \in Slots, WaitGiveUp(c, p)
  PROVE  IInv'
<1> USE SlotFacts DEF IInv, WaitGiveUp, Executing, WaitReturn, procVars, cpuVars
<1>1. TypeOK'
  BY DEF TypeOK, States, Ctxs, Pcs
<1>2. Points'
  BY DEF TypeOK, Points, LockedPcs, WaitLockPcs, Alive
<1>3. Plocks'
  BY DEF TypeOK, Plocks
<1>4. Wlock'
  BY DEF TypeOK, Wlock, WaitLockPcs
<1>5. Forks'
  BY DEF TypeOK, Forks, ForkPcs
<1>6. Parents'
  BY DEF TypeOK, Parents, Alive
<1>7. Reparented'
  BY DEF TypeOK, Reparented
<1>8. Exits'
  BY DEF TypeOK, Exits, WillSleep
<1>9. Binding'
  BY DEF Binding
<1> QED BY <1>1, <1>2, <1>3, <1>4, <1>5, <1>6, <1>7, <1>8, <1>9

\* No child is a ZOMBIE, and wait_lock keeps it so.
LEMMA WaitAgainInv ==
  ASSUME IInv, NEW c \in Cpus, NEW p \in Slots, WaitAgain(c, p)
  PROVE  IInv'
<1> USE SlotFacts DEF IInv, WaitAgain, Executing, procVars, lockVars, cpuVars
<1>1. TypeOK'
  BY DEF TypeOK, States, Ctxs, Pcs
<1>2. Points'
  BY DEF TypeOK, Points, LockedPcs, WaitLockPcs, Alive
<1>3. Plocks'
  BY DEF TypeOK, Plocks
<1>4. Wlock'
  BY DEF TypeOK, Wlock, WaitLockPcs
<1>5. Forks'
  BY DEF TypeOK, Forks, ForkPcs
<1>6. Parents'
  BY DEF TypeOK, Parents, Alive
<1>7. Reparented'
  BY DEF TypeOK, Reparented
<1>8. Exits'
  BY DEF TypeOK, Binding, Points, Plocks, Wlock, Forks, Parents, Exits,
         LockedPcs, WaitLockPcs, Alive, ForkPcs, WillSleep
<1>9. Binding'
  BY DEF Binding
<1> QED BY <1>1, <1>2, <1>3, <1>4, <1>5, <1>6, <1>7, <1>8, <1>9

\* sleep() takes p->lock before it lets wait_lock go, so exit() of a child cannot pass.
LEMMA SleepLockInv ==
  ASSUME IInv, NEW c \in Cpus, NEW p \in Slots, SleepLock(c, p)
  PROVE  IInv'
<1> USE SlotFacts DEF IInv, SleepLock, Executing, procVars, cpuVars, localVars
<1>1. TypeOK'
  BY DEF TypeOK, States, Ctxs, Pcs
<1>2. Points'
  BY DEF TypeOK, Points, LockedPcs, WaitLockPcs, Alive
<1>3. Plocks'
  BY DEF TypeOK, Binding, Plocks
<1>4. Wlock'
  BY DEF TypeOK, Wlock, WaitLockPcs
<1>5. Forks'
  BY DEF TypeOK, Forks, ForkPcs
<1>6. Parents'
  BY DEF TypeOK, Parents, Alive
<1>7. Reparented'
  BY DEF TypeOK, Reparented
<1>8. Exits'
  BY DEF TypeOK, Exits, WillSleep
<1>9. Binding'
  BY DEF Binding
<1> QED BY <1>1, <1>2, <1>3, <1>4, <1>5, <1>6, <1>7, <1>8, <1>9

\* p sleeps on itself, with its lock held.
LEMMA SleepCommitInv ==
  ASSUME IInv, NEW c \in Cpus, NEW p \in Slots, SleepCommit(c, p)
  PROVE  IInv'
<1> USE SlotFacts DEF IInv, SleepCommit, Executing, lockVars, localVars
<1>1. TypeOK'
  BY DEF TypeOK, States, Ctxs, Pcs
<1>2. Binding'
  BY DEF TypeOK, Binding
<1>3. Points'
  BY DEF TypeOK, Points, LockedPcs, WaitLockPcs, Alive
<1>4. Plocks'
  BY DEF TypeOK, Plocks
<1>5. Wlock'
  BY DEF TypeOK, Wlock, WaitLockPcs
<1>6. Forks'
  BY DEF TypeOK, Binding, Forks, ForkPcs
<1>7. Parents'
  BY DEF TypeOK, Binding, Parents, Alive
<1>8. Reparented'
  BY DEF TypeOK, Reparented
<1>9. Exits'
  BY DEF TypeOK, Exits, WillSleep
<1> QED BY <1>1, <1>2, <1>3, <1>4, <1>5, <1>6, <1>7, <1>8, <1>9

\* killed changes nothing else than a SLEEPING state.
LEMMA KillInv ==
  ASSUME IInv, NEW c \in Cpus, NEW p \in Slots, NEW q \in Slots, Kill(c, p, q)
  PROVE  IInv'
<1> USE SlotFacts DEF IInv, Kill, Executing, lockVars, cpuVars, localVars
<1>1. TypeOK'
  BY DEF TypeOK, States, Ctxs, Pcs
<1>2. Binding'
  BY DEF TypeOK, Binding
<1>3. Points'
  BY DEF TypeOK, Points, LockedPcs, WaitLockPcs, Alive
<1>4. Forks'
  BY DEF TypeOK, Forks, ForkPcs
<1>5. Parents'
  BY DEF TypeOK, Parents, Alive
<1>6. Exits'
  BY DEF TypeOK, Exits, WillSleep
<1>7. Plocks' /\ Wlock' /\ Reparented'
  BY DEF Plocks, Wlock, Reparented, WaitLockPcs
<1> QED BY <1>1, <1>2, <1>3, <1>4, <1>5, <1>6, <1>7

-----------------------------------------------------------------------------
\* userinit() establishes the invariant.
LEMMA InitInv == Init => IInv
<1> SUFFICES ASSUME Init PROVE IInv
  OBVIOUS
<1> USE SlotFacts DEF Init
<1>1. TypeOK
  BY DEF TypeOK, States, Ctxs, Pcs
<1>2. Binding /\ Points /\ Plocks /\ Wlock
  BY DEF Binding, Points, Plocks, Wlock, Executing, Alive, LockedPcs, WaitLockPcs
<1>3. Forks /\ Reparented /\ Exits
  BY DEF Forks, ForkPcs, Reparented, Exits, WillSleep
<1>4. Parents
  BY DEF Parents, Alive
<1> QED BY <1>1, <1>2, <1>3, <1>4 DEF IInv

\* A step of nobody.
LEMMA StutterInv == IInv /\ UNCHANGED vars => IInv'
BY DEF IInv, vars, procVars, lockVars, cpuVars, localVars, TypeOK, Binding, Points,
       Plocks, Wlock, Forks, Parents, Reparented, Exits, Executing, Alive,
       WillSleep

\* The inductive step: the lemmas above, one for each action.
LEMMA NextInv == IInv /\ [Next]_vars => IInv'
<1> SUFFICES ASSUME IInv, [Next]_vars PROVE IInv'
  OBVIOUS
<1>1. CASE UNCHANGED vars
  BY <1>1, StutterInv
<1>2. CASE \E p \in Slots : Wakeup(p)
  BY <1>2, WakeupInv
<1>3. ASSUME NEW p \in Slots, NEW c \in Cpus,
             Run(c, p) \/ SwitchStep(c, p)
      PROVE  IInv'
  BY <1>3, RunInv, SwitchInInv, SleepReturnInv, SwitchOutInv DEF SwitchStep
<1>4. ASSUME NEW p \in Slots, NEW c \in Cpus, KernelStep(c, p)
      PROVE  IInv'
  BY <1>4, ForkFailInv, ForkCopiedInv, ForkParentInv, ForkReadyInv,
     ExitReparentInv, ExitSkipInv, ExitWakeInv, ExitZombieInv, WaitAcquireInv,
     WaitSkipInv, WaitScanInv, WaitReapInv, WaitCopyoutFailInv, WaitGiveUpInv,
     WaitAgainInv, SleepLockInv, SleepCommitInv DEF KernelStep
<1>5. ASSUME NEW p \in Slots, NEW c \in Cpus, UserStep(c, p)
      PROVE  IInv'
  BY <1>5, YieldInv, SleepInv, ExitAcquireInv, WaitAcquireInv, ForkAllocInv,
     KillInv DEF UserStep
<1> QED BY <1>1, <1>2, <1>3, <1>4, <1>5 DEF Next

\* IInv is inductive, hence an invariant of every instance of Proc.
THEOREM Invariance == Spec => []IInv
<1> QED BY InitInv, NextInv, PTL DEF Spec

-----------------------------------------------------------------------------
\* The fields of proc[], the locks and the locals keep to their ranges.
THEOREM TypeCorrect == Spec => []TypeOK
<1>1. IInv => TypeOK
  BY DEF IInv
<1> QED BY <1>1, Invariance, PTL

\* exit() wakes its parent under wait_lock and wait() goes to sleep under it, so
\* no parent sleeps in wait() (proc.c:394) while a child of it is a zombie.
THEOREM ExitsAreSeen == Spec => []NoLostExit
<1>1. IInv => NoLostExit
  BY SlotFacts DEF IInv, TypeOK, NoLostExit, Points, Exits, WillSleep
<1> QED BY <1>1, Invariance, PTL

\* Every process that has been RUNNABLE has a live parent (reparent, proc.c:335).
THEOREM FamiliesStayWhole == Spec => []FamilyTree
<1>1. IInv => FamilyTree
  BY SlotFacts DEF IInv, TypeOK, FamilyTree, Parents, Alive
<1> QED BY <1>1, Invariance, PTL

\* The panics of sched() (proc.c:512-519) about locks and states are unreachable.
THEOREM SchedNeverPanics == Spec => []SchedLocks
<1>1. IInv => SchedLocks
  BY SlotFacts DEF IInv, TypeOK, SchedLocks, Binding, Plocks, Wlock, Executing
<1> QED BY <1>1, Invariance, PTL

\* Nobody spins on wait_lock with a p->lock in hand (proc.c:26).
THEOREM LocksAreOrdered == Spec => []LockOrder
<1>1. ASSUME IInv, NEW c \in Cpus, NEW p \in Slots, Executing(c, p),
             pc[p] \in {"user", "f_parent", "w_acquire"}
      PROVE  wlock # c /\ \A q \in Slots : plock[q] # c
  BY <1>1, SlotFacts DEF IInv, Plocks, Wlock, WaitLockPcs, Executing
<1>2. IInv => LockOrder
  BY <1>1 DEF LockOrder
<1> QED BY <1>2, Invariance, PTL

-----------------------------------------------------------------------------
(* The refinement.  Every step of Proc that changes a state or a binding is  *)
(* one step of Dispatch: whoever changes the state of a process that it is   *)
(* not running holds the lock of that process, or sees it free, and so no    *)
(* CPU is on the stack of that process.                                      *)

\* Whoever finds p->lock free and p not RUNNING finds no CPU on p's stack.
LEMMA OffCpuIfFree ==
  ASSUME IInv, NEW q \in Slots, plock[q] = NoCpu, state[q] # "RUNNING"
  PROVE  Abstract!OffCpu(q)
<1>1. ASSUME NEW c \in Cpus, cproc[c] = q
      PROVE  FALSE
  BY <1>1, SlotFacts DEF IInv, TypeOK, Ctxs, Binding, Plocks
<1> QED BY <1>1 DEF Abstract!OffCpu

\* A process under construction in fork() has not been on a CPU yet.
LEMMA OffCpuIfUsed ==
  ASSUME IInv, NEW q \in Slots, state[q] = "USED"
  PROVE  Abstract!OffCpu(q)
<1>1. ASSUME NEW c \in Cpus, cproc[c] = q
      PROVE  FALSE
  BY <1>1, SlotFacts DEF IInv, TypeOK, Ctxs, Binding
<1> QED BY <1>1 DEF Abstract!OffCpu

\* The process table after userinit() is an initial state of Dispatch.
LEMMA InitRefines == Init => Abstract!Init
BY DEF Init, Abstract!Init

\* wakeup() changes the state of at most one process of this module.
LEMMA WakenedRefines ==
  ASSUME IInv, NEW q \in Slots, plock[q] = NoCpu,
         state' = Wakened(q), UNCHANGED cproc
  PROVE  Abstract!Wake(q) \/ UNCHANGED <<state, cproc>>
<1>1. CASE state[q] = "SLEEPING" /\ chan[q] = q
  <2>1. state' = [state EXCEPT ![q] = "RUNNABLE"]
    BY <1>1 DEF Wakened
  <2> QED BY <1>1, <2>1, OffCpuIfFree DEF Abstract!Wake, Abstract!Move
<1>2. CASE ~(state[q] = "SLEEPING" /\ chan[q] = q)
  BY <1>2 DEF IInv, TypeOK, Wakened
<1> QED BY <1>1, <1>2

\* Every step is a step of Dispatch, or changes neither a state nor a binding.
LEMMA StepRefines == IInv /\ [Next]_vars => [Abstract!Next]_<<state, cproc>>
<1> SUFFICES ASSUME IInv, Next PROVE Abstract!Next \/ UNCHANGED <<state, cproc>>
  BY DEF vars, procVars, lockVars, cpuVars, Abstract!dvars
<1> USE SlotFacts
<1>1. ASSUME NEW p \in Slots, Wakeup(p)
      PROVE  Abstract!Wake(p)
  BY <1>1, OffCpuIfFree DEF Wakeup, lockVars, cpuVars, Abstract!Wake, Abstract!Move
<1>2. ASSUME NEW p \in Slots, NEW c \in Cpus, Run(c, p)
      PROVE  Abstract!Run(c, p)
  BY <1>2, OffCpuIfFree DEF Run, Abstract!Run
<1>3. ASSUME NEW p \in Slots, NEW c \in Cpus, SwitchStep(c, p)
      PROVE  Abstract!Leave(c, p) \/ UNCHANGED <<state, cproc>>
  BY <1>3 DEF SwitchStep, SwitchIn, SleepReturn, SwitchOut, procVars, IInv, Binding,
              TypeOK, Abstract!Leave
<1>4. ASSUME NEW p \in Slots, NEW c \in Cpus,
             Yield(c, p) \/ Sleep(c, p) \/ ExitZombie(c, p) \/ SleepCommit(c, p)
      PROVE  Abstract!Stop(c, p)
  BY <1>4 DEF Yield, Sleep, ExitZombie, SleepCommit, Executing, IInv, Binding,
              Abstract!Stop
<1>5. ASSUME NEW p \in Slots, NEW c \in Cpus, NEW q \in Slots, ForkAlloc(c, p, q)
      PROVE  Abstract!Create(q)
  BY <1>5, OffCpuIfFree DEF ForkAlloc, cpuVars, Abstract!Create, Abstract!Move
<1>6. ASSUME NEW p \in Slots, NEW c \in Cpus, ForkFail(c, p)
      PROVE  Abstract!Abort(child[p]) /\ child[p] \in Slots
  BY <1>6, OffCpuIfUsed DEF ForkFail, Freed, cpuVars, IInv, TypeOK, Forks, ForkPcs,
                            Abstract!Abort, Abstract!Move
<1>7. ASSUME NEW p \in Slots, NEW c \in Cpus, ForkReady(c, p)
      PROVE  Abstract!Ready(child[p]) /\ child[p] \in Slots
  BY <1>7, OffCpuIfUsed DEF ForkReady, cpuVars, IInv, TypeOK, Forks, ForkPcs,
                            Abstract!Ready, Abstract!Move
<1>8. ASSUME NEW p \in Slots, NEW c \in Cpus, ExitReparent(c, p)
      PROVE  Abstract!Wake(Initproc) \/ UNCHANGED <<state, cproc>>
  BY <1>8, WakenedRefines DEF ExitReparent, cpuVars
<1>9. ASSUME NEW p \in Slots, NEW c \in Cpus, ExitWake(c, p)
      PROVE  \E q \in Slots : Abstract!Wake(q) \/ UNCHANGED <<state, cproc>>
  <2>1. parent[p] \in Slots
    BY <1>9 DEF ExitWake, Executing, IInv, TypeOK, Binding, Parents, Alive
  <2> QED BY <1>9, <2>1, WakenedRefines DEF ExitWake, cpuVars
<1>10. ASSUME NEW p \in Slots, NEW c \in Cpus, WaitReap(c, p)
       PROVE  Abstract!Reap(slot[p]) /\ slot[p] \in Slots
  BY <1>10, OffCpuIfFree DEF WaitReap, Freed, cpuVars, IInv, TypeOK,
                             Abstract!Reap, Abstract!Move
<1>11. ASSUME NEW p \in Slots, NEW c \in Cpus, NEW q \in Slots, Kill(c, p, q)
       PROVE  Abstract!Wake(q) \/ UNCHANGED <<state, cproc>>
  <2>1. CASE state[q] = "SLEEPING"
    <3>1. state' = [state EXCEPT ![q] = "RUNNABLE"]
      BY <1>11, <2>1 DEF Kill
    <3> QED BY <1>11, <2>1, <3>1, OffCpuIfFree
            DEF Kill, cpuVars, Abstract!Wake, Abstract!Move
  <2>2. CASE state[q] # "SLEEPING"
    BY <1>11, <2>2 DEF Kill, cpuVars, IInv, TypeOK
  <2> QED BY <2>1, <2>2
<1>12. ASSUME NEW p \in Slots, NEW c \in Cpus,
              \/ ForkCopied(c, p) \/ ForkParent(c, p) \/ ExitAcquire(c, p)
              \/ ExitSkip(c, p) \/ WaitAcquire(c, p) \/ WaitSkip(c, p)
              \/ WaitScan(c, p) \/ WaitCopyoutFail(c, p) \/ WaitGiveUp(c, p)
              \/ WaitAgain(c, p) \/ SleepLock(c, p)
       PROVE  UNCHANGED <<state, cproc>>
  BY <1>12 DEF ForkCopied, ForkParent, ExitAcquire, ExitSkip, WaitAcquire, WaitSkip,
               WaitScan, WaitCopyoutFail, WaitGiveUp, WaitAgain, SleepLock,
               procVars, cpuVars
<1> QED
  BY <1>1, <1>2, <1>3, <1>4, <1>5, <1>6, <1>7, <1>8, <1>9, <1>10, <1>11, <1>12
  DEF Next, KernelStep, UserStep, Abstract!Next

\* proc.c implements the life of a process table slot that Dispatch describes.
THEOREM Refinement == Spec => ImplementsDispatch
<1> QED BY InitRefines, StepRefines, Invariance, PTL
        DEF Spec, ImplementsDispatch, Abstract!Spec, Abstract!dvars

=============================================================================
