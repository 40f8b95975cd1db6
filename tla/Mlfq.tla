-------------------------------- MODULE Mlfq --------------------------------
(***************************************************************************)
(* The multilevel feedback scheduler of LAB3 (kernel/proc.c, scheduler()). *)
(* Every CPU runs the same loop: for each priority level it walks over     *)
(* proc[], runs each RUNNABLE process of that level, and adjusts the       *)
(* priority of the process when it gets the CPU back; at the end of a      *)
(* level, if ticks is a multiple of 16, it boosts everybody to level 0.    *)
(*                                                                         *)
(* The boost takes no lock, so it races with the adjustment, which is a    *)
(* read-modify-write under p->lock: kernel.asm (80001f68..80001f82) loads  *)
(* p->priority once and stores the new value later.  Load and Store are    *)
(* two steps here, and the boost is one store per slot.                    *)
(*                                                                         *)
(* ticks is read without tickslock, at a moment nobody controls: the test  *)
(* ticks%16==0 is a nondeterministic choice.  What the processes do is     *)
(* reduced to what the scheduler sees of it: see Proc for the rest.        *)
(***************************************************************************)
EXTENDS Naturals

CONSTANTS Cpus,     \* the harts that entered scheduler()
          NPROC,    \* entries of proc[]
          NPRIO     \* priority levels

Slots    == 1..NPROC
NoProc   == 0
Initproc == 1
Levels   == 0..NPRIO-1
NoStore  == NPRIO         \* at the bottom already: p->priority is not written

ASSUME MlfqAssumption == NPROC \in Nat \ {0} /\ NPRIO \in Nat \ {0}

VARIABLES
  state,      \* p->state
  priority,   \* p->priority
  at,         \* program point of each CPU
  level,      \* scheduler()'s local i
  cursor,     \* scheduler()'s local p
  reg         \* the register that holds the adjusted priority

procVars == <<state, priority>>
scanVars == <<level, cursor>>
vars == <<procVars, at, scanVars, reg>>

States == {"UNUSED", "USED", "SLEEPING", "RUNNABLE", "RUNNING", "ZOMBIE"}

\* "scan": about to acquire the lock of cursor; "in": switched to cursor, which
\* has not released its own lock yet; "run": executing it; "out": it called
\* sched(), its lock held; "store": adjustment computed, not stored;
\* "level": end of the walk; "boost": about to boost cursor.
Points == {"scan", "in", "run", "out", "store", "level", "boost"}

Holds(c, p)  == cursor[c] = p /\ at[c] \in {"in", "out", "store"}
Unlocked(p)  == \A c \in Cpus : ~Holds(c, p)
Running(c)   == at[c] \in {"in", "run", "out", "store"}
OnCpu        == [c \in Cpus |-> IF Running(c) THEN cursor[c] ELSE NoProc]

Init ==
  /\ state    = [p \in Slots |-> IF p = Initproc THEN "RUNNABLE" ELSE "UNUSED"]
  /\ priority = [p \in Slots |-> 0]
  /\ at       = [c \in Cpus |-> "scan"]
  /\ level    = [c \in Cpus |-> 0]
  /\ cursor   = [c \in Cpus |-> 1]
  /\ reg      = [c \in Cpus |-> 0]

-----------------------------------------------------------------------------
(* The scheduler.                                                          *)

\* p++: the next slot of this level, or the end of the walk.
NextSlot(c) ==
  IF cursor[c] = NPROC
    THEN at' = [at EXCEPT ![c] = "level"] /\ UNCHANGED cursor
    ELSE at' = [at EXCEPT ![c] = "scan"] /\ cursor' = [cursor EXCEPT ![c] = @ + 1]

Eligible(c) == state[cursor[c]] = "RUNNABLE" /\ priority[cursor[c]] = level[c]

\* Under p->lock: nothing to run here.
Skip(c) ==
  /\ at[c] = "scan" /\ Unlocked(cursor[c])
  /\ ~Eligible(c)
  /\ NextSlot(c)
  /\ UNCHANGED <<procVars, level, reg>>

\* (Mutation: p->state is tested without p->lock.)
RunUnlocked(c) ==
  /\ at[c] = "scan"
  /\ Eligible(c)
  /\ state' = [state EXCEPT ![cursor[c]] = "RUNNING"]
  /\ at'    = [at EXCEPT ![c] = "in"]
  /\ UNCHANGED <<priority, scanVars, reg>>

\* Under p->lock: RUNNING, c->proc = p, swtch().
Run(c) ==
  /\ at[c] = "scan" /\ Unlocked(cursor[c])
  /\ Eligible(c)
  /\ state' = [state EXCEPT ![cursor[c]] = "RUNNING"]
  /\ at'    = [at EXCEPT ![c] = "in"]
  /\ UNCHANGED <<priority, scanVars, reg>>

\* Back from swtch(): load p->priority and compute its new value.
Adjusted(s, n) ==
  IF n > 0 /\ s = "SLEEPING" THEN n - 1
  ELSE IF n < NPRIO - 1 THEN n + 1
  ELSE NoStore

Load(c) ==
  /\ at[c] = "out"
  /\ reg' = [reg EXCEPT ![c] = Adjusted(state[cursor[c]], priority[cursor[c]])]
  /\ at'  = [at EXCEPT ![c] = "store"]
  /\ UNCHANGED <<procVars, scanVars>>

\* (Mutation: p->priority++ and p->priority-- read p->priority again.)
StoreReloaded(c) ==
  /\ at[c] = "store"
  /\ priority' = [priority EXCEPT ![cursor[c]] =
                    IF reg[c] = NoStore THEN @
                    ELSE IF state[cursor[c]] = "SLEEPING" THEN @ - 1 ELSE @ + 1]
  /\ NextSlot(c)
  /\ reg' = [reg EXCEPT ![c] = 0]
  /\ UNCHANGED <<state, level>>

\* (Mutation: after each quantum, look again from the highest level.)
StoreRestart(c) ==
  /\ at[c] = "store"
  /\ priority' = [priority EXCEPT ![cursor[c]] = IF reg[c] = NoStore THEN @ ELSE reg[c]]
  /\ at'       = [at EXCEPT ![c] = "scan"]
  /\ level'    = [level EXCEPT ![c] = 0]
  /\ cursor'   = [cursor EXCEPT ![c] = 1]
  /\ reg'      = [reg EXCEPT ![c] = 0]
  /\ UNCHANGED state

\* Store it; c->proc = 0; release(&p->lock).
Store(c) ==
  /\ at[c] = "store"
  /\ priority' = [priority EXCEPT ![cursor[c]] = IF reg[c] = NoStore THEN @ ELSE reg[c]]
  /\ NextSlot(c)
  /\ reg' = [reg EXCEPT ![c] = 0]
  /\ UNCHANGED <<state, level>>

\* i++ and the test of ticks; the loop over the levels starts again after the
\* last one.
LevelDone(c) ==
  /\ at[c] = "level"
  /\ level'  = [level EXCEPT ![c] = (@ + 1) % NPRIO]
  /\ cursor' = [cursor EXCEPT ![c] = 1]
  /\ \E p \in {"scan", "boost"} : at' = [at EXCEPT ![c] = p]
  /\ UNCHANGED <<procVars, reg>>

\* p->priority = 0, without p->lock.
Boost(c) ==
  /\ at[c] = "boost"
  /\ priority' = [priority EXCEPT ![cursor[c]] = 0]
  /\ IF cursor[c] = NPROC
       THEN /\ at'     = [at EXCEPT ![c] = "scan"]
            /\ cursor' = [cursor EXCEPT ![c] = 1]
       ELSE /\ cursor' = [cursor EXCEPT ![c] = @ + 1]
            /\ UNCHANGED at
  /\ UNCHANGED <<state, level, reg>>

SchedulerStep(c) ==
  Skip(c) \/ Run(c) \/ Load(c) \/ Store(c) \/ LevelDone(c) \/ Boost(c)

-----------------------------------------------------------------------------
(* The processes.                                                          *)

\* yield(), sleep() or forkret() release the lock the scheduler acquired.
Resume(c) ==
  /\ at[c] = "in"
  /\ at' = [at EXCEPT ![c] = "run"]
  /\ UNCHANGED <<procVars, scanVars, reg>>

\* yield(), sleep() or exit(): acquire(&p->lock), new state, sched().
Stop(c) ==
  /\ at[c] = "run" /\ Unlocked(cursor[c])
  /\ \E s \in {"RUNNABLE", "SLEEPING", "ZOMBIE"} :
       /\ s = "ZOMBIE" => cursor[c] # Initproc
       /\ state' = [state EXCEPT ![cursor[c]] = s]
  /\ at' = [at EXCEPT ![c] = "out"]
  /\ UNCHANGED <<priority, scanVars, reg>>

\* A critical section of another thread (or of an interrupt handler) that
\* changes p's state under p->lock.
Change(p, from, to) ==
  /\ state[p] = from /\ Unlocked(p)
  /\ state' = [state EXCEPT ![p] = to]
  /\ UNCHANGED <<at, scanVars, reg>>

SomeoneRuns == \E c \in Cpus : at[c] = "run"

\* allocproc() in fork(), and the end of fork().
Create(p) == SomeoneRuns /\ Change(p, "UNUSED", "USED") /\ UNCHANGED priority
Ready(p)  == SomeoneRuns /\ Change(p, "USED", "RUNNABLE") /\ UNCHANGED priority

\* wakeup() and kill().
Wake(p) == Change(p, "SLEEPING", "RUNNABLE") /\ UNCHANGED priority

\* (Mutation: freeproc() without p->priority = 0.)
FreeprocKeep(p) ==
  /\ SomeoneRuns
  /\ Change(p, "USED", "UNUSED") \/ Change(p, "ZOMBIE", "UNUSED")
  /\ UNCHANGED priority

\* freeproc(), when fork() fails and in wait().
Freeproc(p) ==
  /\ SomeoneRuns
  /\ Change(p, "USED", "UNUSED") \/ Change(p, "ZOMBIE", "UNUSED")
  /\ priority' = [priority EXCEPT ![p] = 0]

Next ==
  \/ \E c \in Cpus : SchedulerStep(c) \/ Resume(c) \/ Stop(c)
  \/ \E p \in Slots : Create(p) \/ Ready(p) \/ Wake(p) \/ Freeproc(p)

Spec == Init /\ [][Next]_vars

\* A CPU goes on; an acquire() whose lock is released over and over succeeds;
\* the timer takes the CPU from whoever runs.
Fairness ==
  \A c \in Cpus : SF_vars(SchedulerStep(c)) /\ WF_vars(Resume(c)) /\ SF_vars(Stop(c))

FairSpec == Spec /\ Fairness
-----------------------------------------------------------------------------
(* Properties.                                                             *)

TypeOK ==
  /\ state    \in [Slots -> States]
  /\ priority \in [Slots -> Levels]
  /\ at       \in [Cpus -> Points]
  /\ level    \in [Cpus -> Levels]
  /\ cursor   \in [Cpus -> Slots]
  /\ reg      \in [Cpus -> Levels \union {NoStore}]

\* Regla 3 (LAB3/main/README.md:75), "when a process starts its priority is the
\* highest": whatever the slot's last tenant and the racing stores of the
\* scheduler left, a process is created at level 0.
Rule3 == \A p \in Slots : state[p] \in {"UNUSED", "USED"} => priority[p] = 0

\* Every RUNNABLE process runs in the end, although a boost can move it, while a
\* CPU walks over its level, to a level that CPU has passed.
NoStarvation ==
  \A p \in Slots : (state[p] = "RUNNABLE") ~> (state[p] = "RUNNING")

\* scheduler() implements the abstract binding of processes to CPUs.
Abstract == INSTANCE Dispatch WITH onCpu <- OnCpu
ImplementsDispatch == Abstract!Spec

\* Regla 1 (LAB3/main/README.md:71), "if A has higher priority than B, A runs
\* and not B".
Rule1 ==
  [][\A c \in Cpus : Run(c) =>
       \A q \in Slots : state[q] = "RUNNABLE" => priority[cursor[c]] <= priority[q]]_vars

\* Regla 5 (LAB3/main/README.md:79), "go up every time the process blocks before
\* its quantum ends": a process that blocked at least does not go down.
Rule5 ==
  [][\A c \in Cpus : Store(c) /\ state[cursor[c]] = "SLEEPING" =>
       priority'[cursor[c]] <= priority[cursor[c]]]_vars
=============================================================================
