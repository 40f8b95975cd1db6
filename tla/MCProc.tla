------------------------------- MODULE MCProc -------------------------------
(* Proc on some of the CPUs: with all of them for what must never happen, and *)
(* with one, under fairness, for what must happen in the end.                 *)
EXTENDS ProcInv, FiniteSets

VARIABLE harts   \* the CPUs that were started

Alone == Cardinality(harts) = 1

HInit == Init /\ harts \in {{CHOOSE c \in Cpus : TRUE}, Cpus}

HNext ==
  /\ \E p \in Slots :
       \/ Wakeup(p)
       \/ \E c \in harts : \/ Run(c, p) \/ SwitchStep(c, p)
                           \/ KernelStep(c, p) \/ UserStep(c, p)
  /\ UNCHANGED harts

hvars == <<vars, harts>>

\* Fairness of Proc, on one CPU.
One(A) == Alone /\ A /\ UNCHANGED harts
HFairness ==
  /\ \A p \in Slots :
       /\ SF_hvars(One(\E c \in harts : Run(c, p)))
       /\ WF_hvars(One(\E c \in harts : SwitchStep(c, p)))
       /\ SF_hvars(One(\E c \in harts : KernelStep(c, p)))
       /\ SF_hvars(One(\E c \in harts : Yield(c, p)))
       /\ WF_hvars(One(Wakeup(p)))
  /\ SF_hvars(One(\E c \in harts : WaitAcquire(c, Initproc)))

HSpec == HInit /\ [][HNext]_hvars /\ HFairness
-----------------------------------------------------------------------------
\* OrphansReaped, on one CPU: an orphan is reaped, unless zombies of init in lower
\* slots keep coming first (wait(), proc.c:406).
OrphansGo == Alone => OrphansReaped
=============================================================================
