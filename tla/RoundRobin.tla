----------------------------- MODULE RoundRobin -----------------------------
(***************************************************************************)
(* The scheduler of LAB2 (kernel/proc.c, scheduler()), which the threads   *)
(* of sem.c and pingpong.c run under: every CPU walks over proc[] for ever *)
(* and runs each RUNNABLE process it finds.                                *)
(*                                                                         *)
(* p->lock is held over swtch() in both directions, so a slot is locked    *)
(* from the test of its state until the process has resumed, and from      *)
(* before its last change of state until the scheduler lets go of it.      *)
(* Critical sections of anybody else are one step.                         *)
(***************************************************************************)
EXTENDS Naturals

CONSTANTS Cpus,    \* the harts that entered scheduler()
          NPROC    \* entries of proc[]

Slots    == 1..NPROC
NoProc   == 0
Initproc == 1

ASSUME RoundRobinAssumption == NPROC \in Nat \ {0}

VARIABLES
  state,     \* p->state
  at,        \* program point of each CPU
  cursor     \* scheduler()'s local p

vars == <<state, at, cursor>>

States == {"UNUSED", "USED", "SLEEPING", "RUNNABLE", "RUNNING", "ZOMBIE"}

\* "scan": about to acquire the lock of cursor; "in": switched to cursor, which has
\* not released the lock yet; "run": executing it; "out": it called sched().
Points == {"scan", "in", "run", "out"}

Running(c)  == at[c] # "scan"
Unlocked(p) == \A c \in Cpus : ~(cursor[c] = p /\ at[c] \in {"in", "out"})
OnCpu       == [c \in Cpus |-> IF Running(c) THEN cursor[c] ELSE NoProc]

Init ==
  /\ state  = [p \in Slots |-> IF p = Initproc THEN "RUNNABLE" ELSE "UNUSED"]
  /\ at     = [c \in Cpus |-> "scan"]
  /\ cursor = [c \in Cpus |-> 1]

-----------------------------------------------------------------------------
(* The scheduler.                                                          *)

\* (Mutation: after a process, look again from the first slot.)
NextSlotRestart(c) ==
  cursor' = [cursor EXCEPT ![c] = IF Running(c) \/ @ = NPROC THEN 1 ELSE @ + 1]

\* p++, or the next round.
NextSlot(c) == cursor' = [cursor EXCEPT ![c] = IF @ = NPROC THEN 1 ELSE @ + 1]

\* Under p->lock: nothing to run here.
Skip(c) ==
  /\ at[c] = "scan" /\ Unlocked(cursor[c]) /\ state[cursor[c]] # "RUNNABLE"
  /\ NextSlot(c)
  /\ UNCHANGED <<state, at>>

\* Under p->lock: RUNNING, c->proc = p, swtch().
Run(c) ==
  /\ at[c] = "scan" /\ Unlocked(cursor[c]) /\ state[cursor[c]] = "RUNNABLE"
  /\ state' = [state EXCEPT ![cursor[c]] = "RUNNING"]
  /\ at'    = [at EXCEPT ![c] = "in"]
  /\ UNCHANGED cursor

\* Back from swtch(): c->proc = 0, release(&p->lock).
Leave(c) ==
  /\ at[c] = "out"
  /\ at' = [at EXCEPT ![c] = "scan"]
  /\ NextSlot(c)
  /\ UNCHANGED state

-----------------------------------------------------------------------------
(* The processes.                                                          *)

\* yield(), sleep() or forkret() release the lock the scheduler acquired.
Resume(c) ==
  /\ at[c] = "in"
  /\ at' = [at EXCEPT ![c] = "run"]
  /\ UNCHANGED <<state, cursor>>

\* acquire(&p->lock), a new state, sched().
Stop(c, s) ==
  /\ at[c] = "run" /\ Unlocked(cursor[c])
  /\ state' = [state EXCEPT ![cursor[c]] = s]
  /\ at'    = [at EXCEPT ![c] = "out"]
  /\ UNCHANGED cursor

Yield(c) == Stop(c, "RUNNABLE")
Sleep(c) == Stop(c, "SLEEPING")
Exit(c)  == cursor[c] # Initproc /\ Stop(c, "ZOMBIE")

\* A critical section of another thread, or of an interrupt handler (an allocproc()
\* that fails gives the slot back in the same one).
Change(p, from, to) ==
  /\ state[p] = from /\ Unlocked(p)
  /\ state' = [state EXCEPT ![p] = to]
  /\ UNCHANGED <<at, cursor>>

SomeoneRuns == \E c \in Cpus : at[c] = "run"

allocproc(p) == SomeoneRuns /\ Change(p, "UNUSED", "USED")
Forked(p)    == SomeoneRuns /\ Change(p, "USED", "RUNNABLE")
wakeup(p)    == Change(p, "SLEEPING", "RUNNABLE")
freeproc(p)  == SomeoneRuns /\ Change(p, "ZOMBIE", "UNUSED")

SchedulerStep(c) == Skip(c) \/ Run(c) \/ Leave(c)
ProcessStep(c)   == Resume(c) \/ Yield(c) \/ Sleep(c) \/ Exit(c)
OtherStep(p)     == allocproc(p) \/ Forked(p) \/ wakeup(p) \/ freeproc(p)

Next == \/ \E c \in Cpus : SchedulerStep(c) \/ ProcessStep(c)
        \/ \E p \in Slots : OtherStep(p)

\* A CPU goes on, also when others keep taking the lock it wants, and the timer
\* takes it from whoever runs.
Fairness == \A c \in Cpus : /\ SF_vars(SchedulerStep(c)) /\ WF_vars(Resume(c))
                            /\ SF_vars(Yield(c) \/ Sleep(c) \/ Exit(c))

Spec == Init /\ [][Next]_vars /\ Fairness
-----------------------------------------------------------------------------
(* Properties.                                                             *)

\* Whoever is RUNNABLE runs in the end, however many others there are and however
\* often the locks it needs are taken (proc.c:457-473).
NoStarvation == \A p \in Slots : state[p] = "RUNNABLE" ~> state[p] = "RUNNING"

\* No process is on two CPUs, and none is woken, run or freed while a CPU is still
\* on its stack (proc.c:459-472, the lock is held until the scheduler is back).
Abstract == INSTANCE Dispatch WITH onCpu <- OnCpu
ImplementsDispatch == Abstract!Spec
=============================================================================
