------------------------------ MODULE Dispatch ------------------------------
(***************************************************************************)
(* What the xv6 process table and scheduler promise: the life of a slot of *)
(* proc[] and the binding of processes to CPUs.  A process leaves a CPU in *)
(* two steps: it first changes its own state (Stop), and only then is its  *)
(* kernel stack abandoned (Leave).  Nobody else may touch it in between:   *)
(* it is run, woken and reaped only while it is on no CPU.                 *)
(* Proc (fork, exit, wait, kill) and Mlfq (the scheduler) implement this.  *)
(***************************************************************************)
EXTENDS Naturals

CONSTANTS Cpus,       \* the harts
          Slots,      \* the entries of proc[]
          Initproc,   \* the slot userinit() allocates
          NoProc      \* the null struct proc *

VARIABLES state,      \* p->state
          onCpu       \* whose kernel stack each CPU is executing on

dvars == <<state, onCpu>>

States == {"UNUSED", "USED", "SLEEPING", "RUNNABLE", "RUNNING", "ZOMBIE"}

OffCpu(p) == \A c \in Cpus : onCpu[c] # p

Init ==
  /\ state = [p \in Slots |-> IF p = Initproc THEN "RUNNABLE" ELSE "UNUSED"]
  /\ onCpu = [c \in Cpus |-> NoProc]

Move(p, from, to) ==
  /\ state[p] = from
  /\ OffCpu(p)
  /\ state' = [state EXCEPT ![p] = to]
  /\ UNCHANGED onCpu

\* A slot that is not running changes state on behalf of another process.
Create(p) == Move(p, "UNUSED", "USED")
Abort(p)  == Move(p, "USED", "UNUSED")
Ready(p)  == Move(p, "USED", "RUNNABLE")
Wake(p)   == Move(p, "SLEEPING", "RUNNABLE")
Reap(p)   == Move(p, "ZOMBIE", "UNUSED")

Run(c, p) ==
  /\ onCpu[c] = NoProc
  /\ OffCpu(p)
  /\ state[p] = "RUNNABLE"
  /\ state' = [state EXCEPT ![p] = "RUNNING"]
  /\ onCpu' = [onCpu EXCEPT ![c] = p]

\* yield(), sleep() and exit(): the process gives up the CPU it is on.
Stop(c, p) ==
  /\ onCpu[c] = p
  /\ state[p] = "RUNNING"
  /\ \E s \in {"RUNNABLE", "SLEEPING", "ZOMBIE"} :
       state' = [state EXCEPT ![p] = s]
  /\ UNCHANGED onCpu

Leave(c, p) ==
  /\ onCpu[c] = p
  /\ state[p] # "RUNNING"
  /\ onCpu' = [onCpu EXCEPT ![c] = NoProc]
  /\ UNCHANGED state

Next ==
  \E p \in Slots :
    \/ Create(p) \/ Abort(p) \/ Ready(p) \/ Wake(p) \/ Reap(p)
    \/ \E c \in Cpus : Run(c, p) \/ Stop(c, p) \/ Leave(c, p)

Spec == Init /\ [][Next]_dvars
=============================================================================
