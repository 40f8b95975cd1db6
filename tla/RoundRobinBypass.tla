-------------------------- MODULE RoundRobinBypass --------------------------
(* RoundRobin with a history variable: the quanta a process gets while        *)
(* another one waits.                                                         *)
EXTENDS RoundRobin, FiniteSets

CONSTANT Bound

\* A quantum for each CPU.
ASSUME BypassAssumption ==
  IsFiniteSet(Cpus) /\ Bound \in Nat /\ Cardinality(Cpus) <= Bound

VARIABLE bypass   \* bypass[q][p]: the quanta p got since q became RUNNABLE,
                  \* counted up to Bound + 1

Waits(q) == state[q] = "RUNNABLE" /\ state'[q] = "RUNNABLE"
Runs(p)  == state[p] = "RUNNABLE" /\ state'[p] = "RUNNING"

Count(q, p) ==
  IF ~Waits(q) THEN 0
  ELSE IF Runs(p) /\ bypass[q][p] <= Bound THEN bypass[q][p] + 1
  ELSE bypass[q][p]

BypassInit == Init /\ bypass = [q \in Slots |-> [p \in Slots |-> 0]]
BypassNext == Next /\ bypass' = [q \in Slots |-> [p \in Slots |-> Count(q, p)]]
BypassSpec == BypassInit /\ [][BypassNext]_<<vars, bypass>> /\ Fairness

\* The walk is fair from the first moment and not only in the end: no CPU passes a
\* slot that waits, so while q is RUNNABLE no other process gets more quanta than
\* there are CPUs, one for each whose walk comes by p before q (proc.c:457).
BoundedBypass == \A p, q \in Slots : bypass[q][p] <= Bound
=============================================================================
