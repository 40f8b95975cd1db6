----------------------------- MODULE Semaphore -----------------------------
(* What LAB2's semaphores promise: a counter that an operation changes in    *)
(* one atomic step, up to the value it was opened with, until it is closed.  *)
EXTENDS Naturals

CONSTANTS Sems,      \* indices of sem_array[]
          MaxValue   \* bound on the value given to sem_open()

VARIABLES value, limit

Init == value = [s \in Sems |-> 0] /\ limit = [s \in Sems |-> 0]

Open(s, v) ==
  /\ value' = [value EXCEPT ![s] = v]
  /\ limit' = [limit EXCEPT ![s] = v]

Down(s) ==
  /\ value[s] > 0
  /\ value' = [value EXCEPT ![s] = @ - 1]
  /\ UNCHANGED limit

\* Below its limit unless it was closed meanwhile, half or wholly.
Up(s) ==
  /\ value[s] # limit[s]
  /\ value' = [value EXCEPT ![s] = @ + 1]
  /\ UNCHANGED limit

\* Closing is two steps, in any order, and the first may be lost.
DropValue(s) == value' = [value EXCEPT ![s] = 0] /\ UNCHANGED limit
DropLimit(s) == limit' = [limit EXCEPT ![s] = 0] /\ UNCHANGED value

Next == \E s \in Sems : \/ Down(s) \/ Up(s) \/ DropValue(s) \/ DropLimit(s)
                         \/ \E v \in 0..MaxValue : Open(s, v)

Spec == Init /\ [][Next]_<<value, limit>>
=============================================================================
