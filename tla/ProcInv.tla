------------------------------ MODULE ProcInv ------------------------------
(* The inductive invariant of Proc: why the properties of Proc hold.       *)
EXTENDS Proc

Alive(p) == state[p] \in {"SLEEPING", "RUNNABLE", "RUNNING"}

\* A thread at one of these points holds wait_lock.
WaitLockPcs == {"x_reparent", "x_wake", "x_zombie", "w_scan", "w_check", "w_sleep"}

\* Where a thread holds a spinlock it is not preempted.
LockedPcs == WaitLockPcs \union {"f_copy", "w_commit"}

ForkPcs == {"f_copy", "f_parent", "f_ready"}

\* The binding of processes to CPUs, and the state each of its stages shows.
Binding ==
  /\ \A c \in Cpus : cproc[c] # NoProc => ctx[cproc[c]] # "off"
  /\ \A p \in Slots : ctx[p] # "off" => \E c \in Cpus : cproc[c] = p
  /\ \A c, d \in Cpus : cproc[c] = cproc[d] /\ cproc[c] # NoProc => c = d
  /\ \A p \in Slots : state[p] = "RUNNING" <=> ctx[p] \in {"in", "on"}
  /\ \A p \in Slots : ctx[p] = "out" => state[p] \in {"RUNNABLE", "SLEEPING", "ZOMBIE"}

\* What each program point says about the state of its process.
Points ==
  /\ \A p \in Slots : pc[p] \in LockedPcs => ctx[p] = "on"
  /\ \A p \in Slots : pc[p] \in {"w_slept", "slept"} => ctx[p] # "on"
  /\ \A p \in Slots : state[p] = "SLEEPING" =>
       \/ pc[p] = "w_slept" /\ chan[p] = p
       \/ pc[p] = "slept" /\ chan[p] = OtherChan
  /\ \A p \in Slots : state[p] = "USED" => pc[p] = "user"
  /\ \A p \in Slots : state[p] \in {"UNUSED", "ZOMBIE"} => pc[p] \in {"user", "dead"}
  /\ \A p \in Slots : pc[p] = "dead" => ~Alive(p)

\* A p->lock is held by a CPU that is switching to or from p, that is putting p
\* to sleep, or whose process is copying itself to p.
Plocks ==
  /\ \A c \in Cpus, p \in Slots :
       /\ cproc[c] = p /\ ctx[p] \in {"in", "out"} => plock[p] = c
       /\ Executing(c, p) /\ pc[p] = "w_commit" => plock[p] = c
       /\ Executing(c, p) /\ pc[p] = "f_copy" => plock[child[p]] = c
  /\ \A c \in Cpus, q \in Slots : plock[q] = c =>
       /\ cproc[c] # NoProc
       /\ \/ cproc[c] = q /\ ctx[q] \in {"in", "out"}
          \/ cproc[c] = q /\ ctx[q] = "on" /\ pc[q] = "w_commit"
          \/ ctx[cproc[c]] = "on" /\ pc[cproc[c]] = "f_copy" /\ child[cproc[c]] = q

\* wait_lock belongs to the CPU of the one thread at such a point.
Wlock ==
  /\ \A c \in Cpus, p \in Slots :
       Executing(c, p) /\ pc[p] \in WaitLockPcs => wlock = c
  /\ wlock # NoCpu => /\ cproc[wlock] # NoProc
                      /\ ctx[cproc[wlock]] = "on"
                      /\ pc[cproc[wlock]] \in WaitLockPcs

\* fork(): np belongs to one parent, until it is RUNNABLE.
Forks ==
  /\ \A p \in Slots : pc[p] \in ForkPcs =>
       /\ child[p] # NoProc
       /\ state[child[p]] = "USED"
       /\ pc[p] = "f_ready" => parent[child[p]] # NoProc
  /\ \A p, q \in Slots :
       pc[p] \in ForkPcs /\ pc[q] \in ForkPcs /\ child[p] = child[q] => p = q

\* Parents are alive, and whoever was RUNNABLE once has one.
Parents ==
  /\ Alive(Initproc) /\ parent[Initproc] = NoProc
  /\ \A p \in Slots : pc[p] \in {"x_reparent", "x_wake", "x_zombie", "dead"} => p # Initproc
  /\ \A q \in Slots : parent[q] # NoProc => Alive(parent[q])
  /\ \A q \in Slots \ {Initproc} :
       Alive(q) \/ state[q] = "ZOMBIE" => parent[q] # NoProc

\* reparent(): the slots it has passed are not children of p any more.
Reparented ==
  \A p, q \in Slots :
    \/ pc[p] = "x_reparent" /\ q < slot[p]
    \/ pc[p] \in {"x_wake", "x_zombie"}
    => parent[q] # p

\* From the end of its scan until it is woken, a process in wait().
WillSleep(p) ==
  pc[p] \in {"w_sleep", "w_commit"} \/ (pc[p] = "w_slept" /\ state[p] = "SLEEPING")

\* The children that a process in wait() has seen have not exited since, and one
\* that is about to become a zombie has woken its parent.
Exits ==
  /\ \A p, q \in Slots :
       /\ \/ WillSleep(p)
          \/ pc[p] = "w_check" /\ havekids[p]
          \/ pc[p] = "w_scan" /\ q < slot[p]
       /\ parent[q] = p
       => state[q] # "ZOMBIE"
  /\ \A q \in Slots : pc[q] = "x_zombie" /\ parent[q] # NoProc => ~WillSleep(parent[q])

IInv == /\ TypeOK
        /\ Binding /\ Points /\ Plocks /\ Wlock
        /\ Forks /\ Parents /\ Reparented /\ Exits
=============================================================================
