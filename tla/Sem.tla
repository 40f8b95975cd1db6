-------------------------------- MODULE Sem --------------------------------
(***************************************************************************)
(* The semaphores LAB2 adds to xv6 (kernel/sem.c, behind the system calls  *)
(* of sysproc.c): sem_open, sem_up, sem_down and sem_close on entries of   *)
(* sem_array[], each with a spinlock lk that only sem_close ignores.       *)
(*                                                                         *)
(* Grain.  Between acquire() and release() an operation reads the value,   *)
(* then writes it: two steps, because sem_close() writes in between.       *)
(* Everything else under lk is invisible to the others and is joined to    *)
(* one of the two.  sleep() gives up lk and sleeps in one step (Proc shows *)
(* why no wakeup fits in between).                                         *)
(***************************************************************************)
EXTENDS Integers

CONSTANTS Threads,   \* processes in the kernel
          NoThread,
          Sems,      \* valid indices of sem_array[]
          MaxValue,  \* bound on the value given to sem_open(); sem_up() stops
                     \* above it (a racing sem_close() lets a value grow)
          Closers    \* the threads that call sem_close()

ASSUME SemAssumption == /\ NoThread \notin Threads
                        /\ MaxValue \in Nat
                        /\ Closers \subseteq Threads

VARIABLES
  value, init_value, lk,   \* the fields of struct semaphore
  pc,                      \* program point of each thread
  arg,                     \* the semaphore its system call is about
  reg                      \* the value it is about to store

semVars == <<value, init_value, lk>>
locals  == <<pc, arg, reg>>
vars    == <<semVars, locals>>

\* pc is "user": in no operation; "asleep": in sleep(); "woken": back from sched(),
\* about to reacquire lk; "down_store", "up_store": the value is read, lk is held;
\* "close": found lk.locked = 0; "close_init", "close_value": that one of the two
\* stores of sem_close() is left.

Init ==
  /\ value      = [s \in Sems |-> 0]
  /\ init_value = [s \in Sems |-> 0]
  /\ lk         = [s \in Sems |-> NoThread]
  /\ pc         = [t \in Threads |-> "user"]
  /\ arg        \in [Threads -> {CHOOSE s \in Sems : TRUE}]
  /\ reg        = [t \in Threads |-> 0]

Goto(t, s, l) == pc' = [pc EXCEPT ![t] = l] /\ arg' = [arg EXCEPT ![t] = s]

-----------------------------------------------------------------------------
sem_open(t, s, v) ==
  /\ pc[t] = "user" /\ lk[s] = NoThread
  /\ value'      = [value EXCEPT ![s] = v]
  /\ init_value' = [init_value EXCEPT ![s] = v]
  /\ UNCHANGED <<lk, locals>>

\* The lock is taken and the new value computed.
Enter(t, s, v, l) ==
  /\ lk'  = [lk EXCEPT ![s] = t]
  /\ reg' = [reg EXCEPT ![t] = v]
  /\ Goto(t, s, l)
  /\ UNCHANGED <<value, init_value>>

\* (Mutation: "if" for "while" in sem_down().)
sem_down_once(t, s) ==
  /\ lk[s] = NoThread
  /\ \/ /\ \/ pc[t] = "user" /\ value[s] > 0
           \/ pc[t] = "woken" /\ arg[t] = s
        /\ Enter(t, s, value[s] - 1, "down_store")
     \/ /\ pc[t] = "user" /\ value[s] <= 0
        /\ Goto(t, s, "asleep")
        /\ UNCHANGED <<semVars, reg>>

\* (Mutation: ">= 0" for "> 0" in sem_down().)
sem_down_zero(t, s) ==
  /\ \/ pc[t] = "user"
     \/ pc[t] = "woken" /\ arg[t] = s
  /\ lk[s] = NoThread
  /\ \/ /\ value[s] >= 0
        /\ Enter(t, s, value[s] - 1, "down_store")
     \/ /\ value[s] < 0
        /\ Goto(t, s, "asleep")
        /\ UNCHANGED <<semVars, reg>>

\* sem_down(), from the call or from sleep(): take a unit, or sleep.
sem_down(t, s) ==
  /\ \/ pc[t] = "user"
     \/ pc[t] = "woken" /\ arg[t] = s
  /\ lk[s] = NoThread
  /\ \/ /\ value[s] > 0
        /\ Enter(t, s, value[s] - 1, "down_store")
     \/ /\ value[s] <= 0
        /\ Goto(t, s, "asleep")
        /\ UNCHANGED <<semVars, reg>>

\* sem_up(): refused (nothing changes) when the value is init_value already.
sem_up(t, s) ==
  /\ pc[t] = "user" /\ lk[s] = NoThread
  /\ init_value[s] # value[s] /\ value[s] <= MaxValue
  /\ Enter(t, s, value[s] + 1, "up_store")

\* (Mutation: sem_up() without its wakeup().)
StoreQuiet(t) ==
  /\ pc[t] \in {"down_store", "up_store"}
  /\ value' = [value EXCEPT ![arg[t]] = reg[t]]
  /\ lk'    = [lk EXCEPT ![arg[t]] = NoThread]
  /\ pc'    = [pc EXCEPT ![t] = "user"]
  /\ reg'   = [reg EXCEPT ![t] = 0]
  /\ UNCHANGED <<init_value, arg>>

\* The store, the wakeup() of sem_up() and release().
Store(t) ==
  /\ pc[t] \in {"down_store", "up_store"}
  /\ value' = [value EXCEPT ![arg[t]] = reg[t]]
  /\ lk'    = [lk EXCEPT ![arg[t]] = NoThread]
  /\ pc'    = [u \in Threads |->
                 IF u = t THEN "user"
                 ELSE IF pc[t] = "up_store" /\ pc[u] = "asleep" /\ arg[u] = arg[t]
                   THEN "woken" ELSE pc[u]]
  /\ reg'   = [reg EXCEPT ![t] = 0]
  /\ UNCHANGED <<init_value, arg>>

\* kill(t): sem_down() does not look at killed, it tests the value again.
Kill(t) ==
  /\ pc[t] = "asleep"
  /\ pc' = [pc EXCEPT ![t] = "woken"]
  /\ UNCHANGED <<semVars, arg, reg>>

\* sem_close(): returns -1 if it reads lk.locked = 1 ...
sem_close(t, s) ==
  /\ pc[t] = "user" /\ lk[s] = NoThread
  /\ Goto(t, s, "close")
  /\ UNCHANGED <<semVars, reg>>

\* ... and else stores both fields without the lock, in an order that is the
\* compiler's and the memory system's choice.
CloseValue(t) ==
  /\ pc[t] \in {"close", "close_value"}
  /\ value' = [value EXCEPT ![arg[t]] = 0]
  /\ pc'    = [pc EXCEPT ![t] = IF @ = "close" THEN "close_init" ELSE "user"]
  /\ UNCHANGED <<init_value, lk, arg, reg>>

CloseInit(t) ==
  /\ pc[t] \in {"close", "close_init"}
  /\ init_value' = [init_value EXCEPT ![arg[t]] = 0]
  /\ pc'         = [pc EXCEPT ![t] = IF @ = "close" THEN "close_value" ELSE "user"]
  /\ UNCHANGED <<value, lk, arg, reg>>

\* The rest of a system call.
Continue(t) ==
  \/ Store(t) \/ CloseValue(t) \/ CloseInit(t)
  \/ pc[t] = "woken" /\ sem_down(t, arg[t])

\* Programs open a semaphore before anybody uses it: sem_open() on one that
\* has sleepers would strand them, for it wakes nobody.
Unused(s) == \A t \in Threads : pc[t] # "user" => arg[t] # s

Next == \E t \in Threads :
  \/ Continue(t) \/ Kill(t)
  \/ \E s \in Sems :
       \/ pc[t] = "user" /\ sem_down(t, s)
       \/ sem_up(t, s)
       \/ Unused(s) /\ \E v \in 0..MaxValue : sem_open(t, s, v)
       \/ t \in Closers /\ sem_close(t, s)

Spec == Init /\ [][Next]_vars
-----------------------------------------------------------------------------
(* Properties.                                                             *)

\* sem.c:12-18 and :59-60, the condition is guarded by lk and every sleeper is
\* woken: when no operation is under way on s and it has units left, nobody is
\* asleep on it, not even after a racing sem_close() lost one of the updates.
NoLostUp ==
  \A s \in Sems : lk[s] = NoThread /\ value[s] > 0 =>
    \A t \in Threads : ~(pc[t] = "asleep" /\ arg[t] = s)

\* sem.c implements counting semaphores whose operations are atomic: each takes
\* effect when it reads the value under lk, and a sem_close() that stores its zero
\* while another operation holds lk, after it read the value, is overwritten.
Visible(s) == IF lk[s] = NoThread THEN value[s] ELSE reg[lk[s]]

Abstract == INSTANCE Semaphore WITH value <- [s \in Sems |-> Visible(s)],
                                    limit <- init_value
ImplementsSemaphore == Abstract!Spec
=============================================================================
