------------------------------ MODULE MlfqBypass ------------------------------
(* How often the scheduler of Mlfq runs one process while another one that is *)
(* RUNNABLE waits: Mlfq with a history variable.                              *)
EXTENDS Mlfq, FiniteSets

CONSTANT Bound

ASSUME BypassAssumption == IsFiniteSet(Cpus) /\ Bound \in Nat

VARIABLE bypass   \* bypass[q][p]: the quanta p got since q became RUNNABLE,
                  \* counted up to Bound + 1

Waits(q)      == state[q] = "RUNNABLE" /\ state'[q] = "RUNNABLE"
Dispatched(p) == state[p] = "RUNNABLE" /\ state'[p] = "RUNNING"

Count(q, p) ==
  IF ~Waits(q) THEN 0
  ELSE IF Dispatched(p) /\ bypass[q][p] <= Bound THEN bypass[q][p] + 1
  ELSE bypass[q][p]

BypassInit == Init /\ bypass = [q \in Slots |-> [p \in Slots |-> 0]]
BypassNext == Next /\ bypass' = [q \in Slots |-> [p \in Slots |-> Count(q, p)]]
BypassSpec == BypassInit /\ [][BypassNext]_<<vars, bypass>> /\ Fairness

\* Regla 2 (LAB3/main/README.md:73), round robin, as far as scheduler() keeps it:
\* while a process stays RUNNABLE no other one gets more than Bound quanta.
BoundedBypass == \A p, q \in Slots : bypass[q][p] <= Bound
=============================================================================
