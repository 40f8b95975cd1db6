------------------------------ MODULE PingPong ------------------------------
(***************************************************************************)
(* LAB2's user/pingpong.c on the semaphores of Sem: two processes take     *)
(* turns printing PING (child) and PONG (parent), N times each, and each   *)
(* of them closes both semaphores when it is done.                         *)
(***************************************************************************)
EXTENDS Sem

CONSTANTS Parent, Child,
          N         \* argv[1]

ASSUME PingPongAssumption ==
  /\ {Parent, Child} \subseteq Threads /\ Parent # Child
  /\ {Parent, Child} \subseteq Closers
  /\ Sems = {0, 1}
  /\ N \in Nat /\ MaxValue > N

VARIABLES line,     \* where each process is in main()
          left,     \* iterations of its loop that are left
          printed   \* lines it has printed

progVars == <<line, left, printed>>
pvars == <<vars, progVars>>

Lines == {"none", "open0", "open1", "down1", "fork", "down", "print", "up",
          "close1", "close0", "exit"}

\* The child waits on semaphore 0 and posts 1, the parent the other way round.
Mine(t)   == IF t = Child THEN 0 ELSE 1
Theirs(t) == 1 - Mine(t)

LoopHead(n) == IF n = 0 THEN "close1" ELSE "down"

PInit ==
  /\ Init
  /\ line    = [t \in Threads |-> IF t = Parent THEN "open0" ELSE "none"]
  /\ left    = [t \in Threads |-> N]
  /\ printed = [t \in Threads |-> 0]

Advance(t, from, to) ==
  /\ line[t] = from /\ pc[t] = "user"
  /\ line' = [line EXCEPT ![t] = to]

\* One statement of main(); a system call that returned an error changed nothing.
Statement(t) ==
  \/ /\ Advance(t, "open0", "open1") /\ sem_open(t, 0, 1)
     /\ UNCHANGED <<left, printed>>
  \/ /\ Advance(t, "open1", "down1") /\ sem_open(t, 1, 1)
     /\ UNCHANGED <<left, printed>>
  \/ /\ Advance(t, "down1", "fork") /\ sem_down(t, 1)
     /\ UNCHANGED <<left, printed>>
  \/ /\ line[t] = "fork" /\ pc[t] = "user"
     /\ line' = [line EXCEPT ![Parent] = LoopHead(N), ![Child] = LoopHead(N)]
     /\ UNCHANGED <<vars, left, printed>>
  \/ /\ Advance(t, "down", "print") /\ sem_down(t, Mine(t))
     /\ UNCHANGED <<left, printed>>
  \/ /\ Advance(t, "print", "up")
     /\ printed' = [printed EXCEPT ![t] = @ + 1]
     /\ UNCHANGED <<vars, left>>
  \/ /\ Advance(t, "up", LoopHead(left[t] - 1))
     /\ left' = [left EXCEPT ![t] = @ - 1]
     /\ \/ sem_up(t, Theirs(t))
        \/ /\ init_value[Theirs(t)] = value[Theirs(t)]
           /\ lk[Theirs(t)] = NoThread
           /\ UNCHANGED vars
     /\ UNCHANGED printed
  \/ \E s \in Sems :
       /\ Advance(t, IF s = 1 THEN "close1" ELSE "close0",
                     IF s = 1 THEN "close0" ELSE "exit")
       /\ \/ sem_close(t, s)
          \/ lk[s] # NoThread /\ UNCHANGED vars
       /\ UNCHANGED <<left, printed>>

\* The child was forked, and each of them has exited or sleeps for good.
Done == /\ line[Child] # "none"
        /\ \A t \in Threads : pc[t] \in {"user", "asleep"}
        /\ \A t \in {Parent, Child} : line[t] = "exit" \/ pc[t] = "asleep"

PNext == \E t \in Threads : \/ Statement(t)
                            \/ Continue(t) /\ UNCHANGED progVars

PSpec == PInit /\ [][PNext]_pvars

\* A process goes on; an acquire() whose lock is released over and over succeeds.
PFairness == \A t \in Threads :
               SF_pvars(Statement(t) \/ (Continue(t) /\ UNCHANGED progVars))

PFairSpec == PSpec /\ PFairness
-----------------------------------------------------------------------------
(* Properties.                                                             *)

\* The lines alternate, PING first, whatever the closes at the end destroy.
Alternation ==
  /\ printed[Parent] <= printed[Child]
  /\ printed[Child] <= printed[Parent] + 1

\* Nothing but a sem_close() of the other process can leave a process asleep
\* for good: sem_close(1) of the child drops the unit that the last PONG of
\* the parent waits for.
StrandedByClose ==
  \A t \in Threads : pc[t] = "asleep" =>
    t = Parent /\ left[t] <= 1 /\ line[Child] = "exit" /\ init_value[1] = 0

\* The program comes to an end, and the child, who closes only after its last
\* PING, is never in the way of itself: it prints every PING and exits.
ChildExits == <>[](Done /\ line[Child] = "exit" /\ printed[Child] = N /\ StrandedByClose)
=============================================================================
