----------------------------- MODULE MCThreads ------------------------------
(* Kernel threads, side by side: a behaviour is one of                        *)
(*   "scheduler"  RoundRobin, with its history variable,                      *)
(*   "locks"      Spinlock with one process,                                  *)
(* while the other stands still.                                              *)
EXTENDS RoundRobinBypass, Spinlock

CONSTANT c1

VARIABLE part

OneProc  == {1}
TheOrder == <<1>>

rrVars   == <<vars, bypass>>
tvars    == <<rrVars, lockVars, part>>

TInit == BypassInit /\ LockInit /\ part \in {"scheduler", "locks"}

InRR(A)    == part = "scheduler" /\ A /\ UNCHANGED <<lockVars, part>>
InLocks(A) == part = "locks" /\ A /\ UNCHANGED <<rrVars, part>>

Counted(A) == A /\ bypass' = [q \in Slots |-> [p \in Slots |-> Count(q, p)]]

SchedulerNext ==
  \/ \E c \in Cpus : InRR(Counted(SchedulerStep(c))) \/ InRR(Counted(ProcessStep(c)))
  \/ \E p \in Slots : InRR(Counted(OtherStep(p)))

LocksStep == \E c \in Harts :
  InLocks(Step(c)) \/ InLocks(UserTimer(c)) \/ InLocks(Syscall(c)) \/ InLocks(KernelTimer(c))

TNext == SchedulerNext \/ LocksStep

\* The fairness of each part.
TFairness ==
  /\ \A c \in Cpus :
       /\ SF_tvars(InRR(Counted(SchedulerStep(c)))) /\ WF_tvars(InRR(Counted(Resume(c))))
       /\ SF_tvars(InRR(Counted(Yield(c) \/ Sleep(c) \/ Exit(c))))
  /\ \A c \in Harts :
       /\ WF_tvars(InLocks(Step(c))) /\ SF_tvars(InLocks(Swap(c)))
       /\ SF_tvars(InLocks(UserTimer(c) \/ KernelTimer(c)))

TSpec == TInit /\ [][TNext]_tvars /\ TFairness
-----------------------------------------------------------------------------
(* Properties: those of the parts; what comes, for its part alone.           *)

\* RoundRobin: every RUNNABLE process runs in the end (LAB2 proc.c:457-473).
\* Spinlock: the clock goes on, and a sleeper gets its tick (LAB3 proc.c:459).
ThreadsGoOn == /\ part = "scheduler" => NoStarvation
               /\ part = "locks" => TicksArrive
=============================================================================
