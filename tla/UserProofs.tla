----------------------------- MODULE UserProofs -----------------------------
(***************************************************************************)
(* Proofs about the processes of the users: Sem and PingPong, which runs   *)
(* on it, MyBash, and Pipes.                                               *)
(*                                                                         *)
(* The first part, up to Refinement, uses no assumption of PingPong and    *)
(* holds for every set of threads and of semaphores.  SemInv says who      *)
(* holds which lk, and that whoever sleeps has nothing to take, or that    *)
(* the sem_up() that will wake it is under way.                            *)
(*                                                                         *)
(* The second holds for every number N of rounds.  PingInv: until one of   *)
(* the two closes a semaphore, one unit travels from semaphore 0 over the  *)
(* child to semaphore 1, and over the parent back.                         *)
(*                                                                         *)
(* BashInv says for which children and ends of pipes the shell of MyBash   *)
(* still has to answer, at every place of its loop, in every session.      *)
(*                                                                         *)
(* PipesInv is about every pipeline, of any length, and every size of the  *)
(* kernel's tables.  A reference to an open file is a descriptor, or a     *)
(* step that some process has yet to take; an open end of a pipe is a      *)
(* file, or the step that closes the last one.  So the invariant has to    *)
(* say what the steps left to a process are, in which order they come, and *)
(* that its descriptors and its p[] are as these steps need them.          *)
(***************************************************************************)
EXTENDS MCUser, FiniteSetTheorems, SequenceTheorems, WellFoundedInduction, TLAPS

Pcs == {"user", "asleep", "woken", "down_store", "up_store", "close",
        "close_init", "close_value"}
Storing(t) == pc[t] \in {"down_store", "up_store"}

\* The first element is what a thread that has made no call yet starts with.
Args == {CHOOSE s \in Sems : TRUE} \union Sems

Types ==
  /\ value      \in [Sems -> Int]
  /\ init_value \in [Sems -> Int]
  /\ lk         \in [Sems -> Threads \union {NoThread}]
  /\ pc         \in [Threads -> Pcs]
  /\ arg        \in [Threads -> Args]
  /\ reg        \in [Threads -> Int]
  /\ \A t \in Threads : pc[t] # "user" => arg[t] \in Sems

\* A thread holds lk exactly between its load and its store.
Holders ==
  /\ \A t \in Threads : Storing(t) => lk[arg[t]] = t
  /\ \A s \in Sems : lk[s] # NoThread => Storing(lk[s]) /\ arg[lk[s]] = s

\* A sem_down() cannot be at its store: it found a unit, and nobody sleeps then.
Sleepers ==
  \A t \in Threads : pc[t] = "asleep" =>
    IF lk[arg[t]] = NoThread THEN value[arg[t]] <= 0
                             ELSE pc[lk[arg[t]]] = "up_store"

SemInv == Types /\ Holders /\ Sleepers

LEMMA InitInv == Init => SemInv
<1> SUFFICES ASSUME Init PROVE SemInv
  OBVIOUS
<1>1. Types
  BY DEF Init, Types, Args, Pcs
<1>2. Holders /\ Sleepers
  BY SemAssumption DEF Init, Holders, Sleepers, Storing
<1> QED BY <1>1, <1>2 DEF SemInv

\* sem_open() on a semaphore that nobody uses.
LEMMA OpenInv ==
  ASSUME SemInv, NEW t \in Threads, NEW s \in Sems, NEW v \in 0..MaxValue,
         Unused(s), sem_open(t, s, v)
  PROVE  SemInv'
<1> USE SemAssumption DEF SemInv, sem_open, locals
<1>1. Types'
  BY DEF Types, Args
<1>2. Holders'
  BY DEF Types, Holders, Storing
<1>3. Sleepers'
  BY DEF Types, Sleepers, Unused, Pcs
<1> QED BY <1>1, <1>2, <1>3

\* sem_down(): with a unit nobody sleeps on s; without one its caller may.
LEMMA DownInv ==
  ASSUME SemInv, NEW t \in Threads, NEW s \in Sems, sem_down(t, s)
  PROVE  SemInv'
<1> USE SemAssumption DEF SemInv, sem_down, Goto, semVars
<1>1. CASE value[s] > 0 /\ Enter(t, s, value[s] - 1, "down_store")
  <2> USE <1>1 DEF Enter
  <2>1. Types'
    BY DEF Types, Args, Pcs
  <2>2. Holders'
    BY DEF Types, Args, Holders, Storing, Pcs
  <2>3. Sleepers'
    BY DEF Types, Args, Holders, Sleepers, Storing, Pcs
  <2> QED BY <2>1, <2>2, <2>3
<1>2. CASE value[s] <= 0 /\ Goto(t, s, "asleep") /\ UNCHANGED <<semVars, reg>>
  <2> USE <1>2
  <2>1. Types'
    BY DEF Types, Args, Pcs
  <2>2. Holders'
    BY DEF Types, Args, Holders, Storing, Pcs
  <2>3. Sleepers'
    BY DEF Types, Args, Holders, Sleepers, Storing, Pcs
  <2> QED BY <2>1, <2>2, <2>3
<1> QED BY <1>1, <1>2

\* sem_up(), up to its load.
LEMMA UpInv ==
  ASSUME SemInv, NEW t \in Threads, NEW s \in Sems, sem_up(t, s)
  PROVE  SemInv'
<1> USE SemAssumption DEF SemInv, sem_up, Enter, Goto
<1>1. Types'
  BY DEF Types, Args, Pcs
<1>2. Holders'
  BY DEF Types, Args, Holders, Storing, Pcs
<1>3. Sleepers'
  BY DEF Types, Args, Holders, Sleepers, Storing, Pcs
<1> QED BY <1>1, <1>2, <1>3

\* The store and, in sem_up(), the wakeup of all who sleep on the semaphore.
LEMMA StoreInv ==
  ASSUME SemInv, NEW t \in Threads, Store(t)
  PROVE  SemInv'
<1> USE SemAssumption DEF SemInv, Store
<1>1. Types'
  BY DEF Types, Args, Pcs
<1>2. Holders'
  BY DEF Types, Args, Holders, Storing, Pcs
<1>3. Sleepers'
  BY DEF Types, Args, Holders, Sleepers, Storing, Pcs
<1> QED BY <1>1, <1>2, <1>3

\* sem_close() finds lk free.
LEMMA CloseInv ==
  ASSUME SemInv, NEW t \in Threads, NEW s \in Sems, sem_close(t, s)
  PROVE  SemInv'
<1> USE SemAssumption DEF SemInv, sem_close, Goto, semVars
<1>1. Types'
  BY DEF Types, Args, Pcs
<1>2. Holders'
  BY DEF Types, Args, Holders, Storing, Pcs
<1>3. Sleepers'
  BY DEF Types, Args, Holders, Sleepers, Storing, Pcs
<1> QED BY <1>1, <1>2, <1>3

\* Its stores, and kill(): no lock changes hands and no unit appears.
LEMMA UnlockedInv ==
  ASSUME SemInv, NEW t \in Threads, CloseValue(t) \/ CloseInit(t) \/ Kill(t)
  PROVE  SemInv'
<1> USE SemAssumption DEF SemInv, CloseValue, CloseInit, Kill, semVars
<1>1. Types'
  BY DEF Types, Args, Pcs
<1>2. Holders'
  BY DEF Types, Args, Holders, Storing, Pcs
<1>3. Sleepers'
  BY DEF Types, Args, Holders, Sleepers, Storing, Pcs
<1> QED BY <1>1, <1>2, <1>3

LEMMA NextInv == SemInv /\ [Next]_vars => SemInv'
<1> SUFFICES ASSUME SemInv, [Next]_vars PROVE SemInv'
  OBVIOUS
<1>1. CASE UNCHANGED vars
  BY <1>1 DEF vars, semVars, locals, SemInv, Types, Holders, Sleepers, Storing
<1>2. ASSUME NEW t \in Threads, Continue(t) \/ Kill(t)
      PROVE  SemInv'
  <2>1. CASE pc[t] = "woken" /\ sem_down(t, arg[t])
    <3>1. arg[t] \in Sems
      BY <2>1 DEF SemInv, Types
    <3> QED BY <2>1, <3>1, DownInv
  <2> QED BY <1>2, <2>1, StoreInv, UnlockedInv DEF Continue
<1>3. ASSUME NEW t \in Threads, NEW s \in Sems,
             \/ pc[t] = "user" /\ sem_down(t, s)
             \/ sem_up(t, s)
             \/ Unused(s) /\ \E v \in 0..MaxValue : sem_open(t, s, v)
             \/ t \in Closers /\ sem_close(t, s)
      PROVE  SemInv'
  BY <1>3, DownInv, UpInv, OpenInv, CloseInv
<1> QED BY <1>1, <1>2, <1>3 DEF Next

LEMMA Invariance == Spec => []SemInv
BY InitInv, NextInv, PTL DEF Spec

\* Whenever no operation holds a semaphore that has units left, nobody sleeps on
\* it (sem.c:59-60), whatever the calls of sem_close() overwrite.
THEOREM NobodyLeftAsleep == Spec => []NoLostUp
<1>1. ASSUME SemInv, NEW s \in Sems, NEW t \in Threads,
             lk[s] = NoThread, value[s] > 0, pc[t] = "asleep", arg[t] = s
      PROVE  FALSE
  BY <1>1 DEF SemInv, Types, Sleepers
<1>2. SemInv => NoLostUp
  BY <1>1 DEF NoLostUp
<1> QED BY <1>2, Invariance, PTL

-----------------------------------------------------------------------------
(* The refinement.  An operation takes effect at its load: Visible already   *)
(* shows what it is about to store, and the stores of a sem_close() that it  *)
(* overwrites are not seen.                                                  *)

LEMMA InitRefines == Init => Abstract!Init
BY DEF Init, Abstract!Init, Visible

\* What the abstract values become when Visible changes for s and for no other.
LEMMA OneChange ==
  ASSUME NEW s \in Sems, NEW v,
         \A r \in Sems : r # s => Visible(r)' = Visible(r),
         Visible(s)' = v
  PROVE  [r \in Sems |-> Visible(r)]' = [[r \in Sems |-> Visible(r)] EXCEPT ![s] = v]
OBVIOUS

\* The load of sem_down() is the abstract Down; going to sleep is no step.
LEMMA DownRefines ==
  ASSUME SemInv, NEW t \in Threads, NEW s \in Sems, sem_down(t, s)
  PROVE  \/ Abstract!Down(s)
         \/ UNCHANGED <<[r \in Sems |-> Visible(r)], init_value>>
<1> USE SemAssumption DEF SemInv, Types, sem_down, Visible
<1>1. CASE value[s] > 0 /\ Enter(t, s, value[s] - 1, "down_store")
  <2>1. Visible(s) = value[s]
    BY <1>1
  <2>2. Visible(s)' = Visible(s) - 1
    BY <1>1, <2>1 DEF Enter
  <2>3. ASSUME NEW r \in Sems, r # s PROVE Visible(r)' = Visible(r)
    <3>1. CASE lk[r] = NoThread
      BY <1>1, <2>3, <3>1 DEF Enter
    <3>2. CASE lk[r] # NoThread
      BY <1>1, <2>3, <3>2 DEF Enter, Holders, Storing
    <3> QED BY <3>1, <3>2
  <2>4. [r \in Sems |-> Visible(r)]'
          = [[r \in Sems |-> Visible(r)] EXCEPT ![s] = Visible(s) - 1]
    BY <2>2, <2>3, OneChange
  <2> QED BY <1>1, <2>1, <2>4 DEF Enter, Abstract!Down
<1>2. CASE value[s] <= 0 /\ Goto(t, s, "asleep") /\ UNCHANGED <<semVars, reg>>
  BY <1>2 DEF semVars
<1> QED BY <1>1, <1>2

\* The load of sem_up() is the abstract Up.
LEMMA UpRefines ==
  ASSUME SemInv, NEW t \in Threads, NEW s \in Sems, sem_up(t, s)
  PROVE  Abstract!Up(s)
<1> USE SemAssumption DEF SemInv, Types, sem_up, Enter, Visible
<1>1. Visible(s) = value[s]
  OBVIOUS
<1>2. Visible(s)' = Visible(s) + 1
  BY <1>1
<1>3. ASSUME NEW r \in Sems, r # s PROVE Visible(r)' = Visible(r)
  <2>1. CASE lk[r] = NoThread
    BY <1>3, <2>1
  <2>2. CASE lk[r] # NoThread
    BY <1>3, <2>2 DEF Holders, Storing
  <2> QED BY <2>1, <2>2
<1>4. [r \in Sems |-> Visible(r)]'
        = [[r \in Sems |-> Visible(r)] EXCEPT ![s] = Visible(s) + 1]
  BY <1>2, <1>3, OneChange
<1> QED BY <1>1, <1>4 DEF Abstract!Up

\* sem_open() sets both fields under the lock.
LEMMA OpenRefines ==
  ASSUME SemInv, NEW t \in Threads, NEW s \in Sems, NEW v \in 0..MaxValue,
         sem_open(t, s, v)
  PROVE  Abstract!Open(s, v)
<1> USE SemAssumption DEF SemInv, Types, sem_open, locals, Visible
<1>1. Visible(s)' = v
  OBVIOUS
<1>2. ASSUME NEW r \in Sems, r # s PROVE Visible(r)' = Visible(r)
  BY <1>2
<1>3. [r \in Sems |-> Visible(r)]' = [[r \in Sems |-> Visible(r)] EXCEPT ![s] = v]
  BY <1>1, <1>2, OneChange
<1> QED BY <1>3 DEF Abstract!Open

\* The store was visible from the load on.
LEMMA StoreRefines ==
  ASSUME SemInv, NEW t \in Threads, Store(t)
  PROVE  UNCHANGED <<[r \in Sems |-> Visible(r)], init_value>>
<1> USE SemAssumption DEF SemInv, Types, Store, Visible
<1>1. arg[t] \in Sems /\ lk[arg[t]] = t
  BY DEF Holders, Storing
<1>2. Visible(arg[t])' = Visible(arg[t])
  BY <1>1
<1>3. ASSUME NEW r \in Sems, r # arg[t] PROVE Visible(r)' = Visible(r)
  <2>1. CASE lk[r] = NoThread
    BY <1>1, <1>3, <2>1
  <2>2. CASE lk[r] # NoThread
    BY <1>1, <1>3, <2>2 DEF Holders, Storing
  <2> QED BY <2>1, <2>2
<1> QED BY <1>2, <1>3

\* A zero stored while lk is held is overwritten: nobody sees it.
LEMMA CloseValueRefines ==
  ASSUME SemInv, NEW t \in Threads, CloseValue(t)
  PROVE  \/ Abstract!DropValue(arg[t]) /\ arg[t] \in Sems
         \/ UNCHANGED <<[r \in Sems |-> Visible(r)], init_value>>
<1> USE SemAssumption DEF SemInv, Types, CloseValue, Visible
<1>1. arg[t] \in Sems
  OBVIOUS
<1>2. ASSUME NEW r \in Sems, r # arg[t] PROVE Visible(r)' = Visible(r)
  BY <1>2
<1>3. CASE lk[arg[t]] = NoThread
  <2>1. Visible(arg[t])' = 0
    BY <1>1, <1>3
  <2>2. [r \in Sems |-> Visible(r)]'
          = [[r \in Sems |-> Visible(r)] EXCEPT ![arg[t]] = 0]
    BY <1>1, <1>2, <2>1, OneChange
  <2> QED BY <1>1, <2>2 DEF Abstract!DropValue
<1>4. CASE lk[arg[t]] # NoThread
  BY <1>1, <1>2, <1>4
<1> QED BY <1>3, <1>4

LEMMA StepRefines ==
  SemInv /\ [Next]_vars =>
    [Abstract!Next]_<<[s \in Sems |-> Visible(s)], init_value>>
<1> SUFFICES ASSUME SemInv, [Next]_vars
             PROVE  \/ Abstract!Next
                    \/ UNCHANGED <<[s \in Sems |-> Visible(s)], init_value>>
  OBVIOUS
<1>1. CASE UNCHANGED vars
  BY <1>1 DEF vars, semVars, locals, Visible
<1>2. ASSUME NEW t \in Threads, CloseInit(t)
      PROVE  Abstract!DropLimit(arg[t]) /\ arg[t] \in Sems
  BY <1>2 DEF SemInv, Types, CloseInit, Visible, Abstract!DropLimit
<1>3. ASSUME NEW t \in Threads, Kill(t)
      PROVE  UNCHANGED <<[s \in Sems |-> Visible(s)], init_value>>
  BY <1>3 DEF Kill, semVars, Visible
<1>4. ASSUME NEW t \in Threads, NEW s \in Sems, sem_close(t, s)
      PROVE  UNCHANGED <<[r \in Sems |-> Visible(r)], init_value>>
  BY <1>4 DEF sem_close, semVars, Visible
<1>5. ASSUME NEW t \in Threads, pc[t] = "woken", sem_down(t, arg[t])
      PROVE  \/ Abstract!Down(arg[t]) /\ arg[t] \in Sems
             \/ UNCHANGED <<[s \in Sems |-> Visible(s)], init_value>>
  <2>1. arg[t] \in Sems
    BY <1>5 DEF SemInv, Types
  <2> QED BY <1>5, <2>1, DownRefines
<1> QED
  BY <1>1, <1>2, <1>3, <1>4, <1>5, DownRefines, UpRefines, OpenRefines,
     StoreRefines, CloseValueRefines
  DEF Next, Continue, Abstract!Next

\* sem.c implements a counting semaphore: every operation takes effect at once, at
\* its load of the value (sem.c:42-48, 62-66), although sem_close() takes no lock.
THEOREM Refinement == Spec => ImplementsSemaphore
<1> QED BY InitRefines, StepRefines, Invariance, PTL
        DEF Spec, ImplementsSemaphore, Abstract!Spec

-----------------------------------------------------------------------------
(* PingPong.                                                               *)


Working == {"down", "print", "up"}
Setup   == {"open0", "open1", "down1", "fork"}

\* Who is where, and with which semaphore.
Places ==
  /\ line \in [Threads -> Lines] /\ left \in [Threads -> 0..N] /\ printed \in [Threads -> 0..N]
  /\ \A t \in Threads \ {Parent, Child} : line[t] = "none" /\ pc[t] = "user"
  /\ line[Parent] # "none"
  /\ line[Parent] \in Setup <=> line[Child] = "none"
  /\ line[Child] \notin Setup
  /\ \A t \in {Parent, Child} :
       /\ line[t] \in {"none", "open0", "open1", "down1"} => pc[t] = "user"
       /\ line[t] = "fork" => pc[t] \in {"user", "down_store"}
       /\ pc[t] = "down_store" => line[t] \in {"fork", "print"} /\ arg[t] = Mine(t)
       /\ pc[t] \in {"asleep", "woken"} => line[t] = "print" /\ arg[t] = Mine(t)
       /\ pc[t] = "up_store" => line[t] \in {"down", "close1"} /\ arg[t] = Theirs(t)
       /\ pc[t] \in {"close", "close_init", "close_value"} => line[t] \in {"close0", "exit"}

\* The iterations that are left.
Counted ==
  \A t \in {Parent, Child} :
    /\ line[t] \in Working => left[t] > 0
    /\ line[t] \in {"close1", "close0", "exit"} => left[t] = 0
    /\ line[t] \in Setup \union {"none"} => left[t] = N
    /\ printed[t] = IF line[t] = "up" THEN N - left[t] + 1 ELSE N - left[t]

\* A process has called sem_close().
Closing(t) == line[t] \in {"close0", "exit"}

\* Process t took the unit of its semaphore, and has not posted the other.
HasUnit(t) == \/ line[t] = "up"
              \/ line[t] = "print" /\ pc[t] \in {"user", "down_store"}

\* printed[Child] is ahead by one from its PING to the PONG.
Ahead == \/ line[Child] = "up" \/ Visible(1) = 1
         \/ line[Parent] = "print" /\ HasUnit(Parent)

\* It is at one place, and tells who has printed more.
Travels ==
  /\ \/ Visible(0) = 1 /\ Visible(1) = 0 /\ ~HasUnit(Parent) /\ ~HasUnit(Child)
     \/ Visible(0) = 0 /\ Visible(1) = 1 /\ ~HasUnit(Parent) /\ ~HasUnit(Child)
     \/ Visible(0) = 0 /\ Visible(1) = 0 /\ HasUnit(Parent) /\ ~HasUnit(Child)
     \/ Visible(0) = 0 /\ Visible(1) = 0 /\ ~HasUnit(Parent) /\ HasUnit(Child)
  /\ printed[Child] = IF Ahead THEN printed[Parent] + 1 ELSE printed[Parent]

Unit ==
  /\ ~Closing(Parent) /\ ~Closing(Child) =>
       /\ line[Parent] \notin {"open0", "open1"} =>
            init_value[0] = 1 /\ init_value[1] = 1
       /\ line[Parent] \in {"open0", "open1", "down1"} => lk[0] = NoThread /\ lk[1] = NoThread
       /\ line[Parent] = "open1" => value[0] = 1 /\ init_value[0] = 1
       /\ line[Parent] = "down1" => value[0] = 1 /\ value[1] = 1
       /\ line[Parent] = "fork" => Visible(0) = 1 /\ Visible(1) = 0
       /\ line[Parent] \notin Setup => Travels
  /\ Closing(Child) => printed[Parent] + 1 >= N
  /\ Closing(Parent) => printed[Child] = N

PingInv == Places /\ Counted /\ Unit

LEMMA PingInit == PInit => PingInv
<1> SUFFICES ASSUME PInit PROVE PingInv
  OBVIOUS
<1> USE PingPongAssumption, SemAssumption
<1>1. Places
  BY DEF PInit, Init, Places, Lines, Setup
<1>2. Counted
  <2>1. N - N = 0
    OBVIOUS
  <2> QED BY <2>1 DEF PInit, Counted, Working, Setup
<1>3. Unit
  BY DEF PInit, Init, Unit, Closing, Setup
<1> QED BY <1>1, <1>2, <1>3 DEF PingInv

\* Where the two are, for the provers.
LEMMA Mines ==
  /\ Mine(Child) = 0 /\ Mine(Parent) = 1 /\ Theirs(Child) = 1 /\ Theirs(Parent) = 0
  /\ Parent \in Threads /\ Child \in Threads /\ Parent # Child
  /\ 0 \in Sems /\ 1 \in Sems /\ \A s \in Sems : s = 0 \/ s = 1
BY PingPongAssumption DEF Mine, Theirs

\* The setup, up to fork().
LEMMA OpenKeeps ==
  ASSUME SemInv, PingInv, NEW t \in Threads,
         \/ Advance(t, "open0", "open1") /\ sem_open(t, 0, 1) /\ UNCHANGED <<left, printed>>
         \/ Advance(t, "open1", "down1") /\ sem_open(t, 1, 1) /\ UNCHANGED <<left, printed>>
  PROVE  PingInv'
<1> USE Mines, PingPongAssumption, SemAssumption DEF PingInv
<1>1. /\ t = Parent /\ pc' = pc /\ arg' = arg /\ lk' = lk /\ left' = left /\ printed' = printed
      /\ line[Parent] \in {"open0", "open1"} /\ line[Child] = "none"
      /\ line'[Child] = "none"
      /\ line' = [line EXCEPT ![Parent] = IF line[Parent] = "open0" THEN "open1" ELSE "down1"]
  BY DEF Places, Setup, Advance, sem_open, locals
<1>2. Places'
  BY <1>1 DEF Places, Lines, Setup
<1>3. Counted'
  BY <1>1 DEF Places, Counted, Working, Setup
<1>4. lk[0] = NoThread /\ lk[1] = NoThread /\ (line[Parent] = "open1" => value[0] = 1 /\ init_value[0] = 1)
  BY <1>1 DEF Unit, Closing
<1>5. /\ line[Parent] = "open0" => line'[Parent] = "open1" /\ value'[0] = 1 /\ init_value'[0] = 1
      /\ line[Parent] = "open1" => /\ line'[Parent] = "down1" /\ value'[0] = 1 /\ value'[1] = 1
                                   /\ init_value'[0] = 1 /\ init_value'[1] = 1
  BY <1>1, <1>4 DEF sem_open, Places, Advance, SemInv, Types
<1>6. Unit'
  BY <1>1, <1>4, <1>5 DEF Unit, Closing, Setup
<1> QED BY <1>2, <1>3, <1>6

\* What taking lk and computing a value do to the counters.
LEMMA EnterVisible ==
  ASSUME SemInv, NEW t \in Threads, NEW s \in Sems, NEW v, NEW l,
         ~Storing(t), lk[s] = NoThread, Enter(t, s, v, l)
  PROVE  /\ Visible(s) = value[s] /\ Visible(s)' = v
         /\ \A r \in Sems \ {s} : Visible(r)' = Visible(r)
<1>1. \A r \in Sems : lk[r] # t
  BY SemAssumption DEF SemInv, Holders
<1>2. /\ lk'[s] = t /\ reg'[t] = v /\ t # NoThread /\ UNCHANGED value
      /\ \A r \in Sems \ {s} : lk'[r] = lk[r]
      /\ \A u \in Threads \ {t} : reg'[u] = reg[u]
  BY SemAssumption DEF Enter, SemInv, Types
<1>3. \A r \in Sems : lk[r] = NoThread \/ lk[r] \in Threads \ {t}
  BY <1>1 DEF SemInv, Types
<1> QED BY <1>2, <1>3 DEF Visible

LEMMA StoreVisible ==
  ASSUME SemInv, NEW t \in Threads, Store(t)
  PROVE  \A s \in Sems : Visible(s)' = Visible(s)
<1>1. lk[arg[t]] = t /\ arg[t] \in Sems /\ t # NoThread
  BY SemAssumption DEF SemInv, Holders, Types, Storing, Store
<1>2. \A r \in Sems \ {arg[t]} : lk[r] # t
  BY SemAssumption DEF SemInv, Holders
<1>3. /\ value'[arg[t]] = reg[t] /\ lk'[arg[t]] = NoThread
      /\ \A r \in Sems \ {arg[t]} : value'[r] = value[r] /\ lk'[r] = lk[r]
      /\ \A u \in Threads \ {t} : reg'[u] = reg[u]
  BY <1>1 DEF SemInv, Types, Store
<1>4. \A r \in Sems : lk[r] = NoThread \/ lk[r] \in Threads
  BY DEF SemInv, Types
<1> QED BY <1>1, <1>2, <1>3, <1>4 DEF Visible

\* The parent's sem_down() before fork() finds a unit.
LEMMA Down1Keeps ==
  ASSUME SemInv, PingInv, NEW t \in Threads,
         Advance(t, "down1", "fork"), sem_down(t, 1), UNCHANGED <<left, printed>>
  PROVE  PingInv'
<1> USE Mines, PingPongAssumption, SemAssumption DEF PingInv
<1>1. /\ t = Parent /\ pc[Parent] = "user" /\ line[Parent] = "down1" /\ line[Child] = "none"
      /\ line' = [line EXCEPT ![Parent] = "fork"] /\ left' = left /\ printed' = printed
  BY DEF Places, Setup, Advance
<1>2. lk[0] = NoThread /\ lk[1] = NoThread /\ value[0] = 1 /\ value[1] = 1
      /\ init_value[0] = 1 /\ init_value[1] = 1
  BY <1>1 DEF Unit, Closing
<1>3. Enter(Parent, 1, 0, "down_store")
  BY <1>1, <1>2 DEF sem_down
<1>4. /\ pc' = [pc EXCEPT ![Parent] = "down_store"] /\ arg' = [arg EXCEPT ![Parent] = 1]
      /\ init_value' = init_value
  BY <1>3 DEF Enter, Goto
<1>5. Visible(0)' = 1 /\ Visible(1)' = 0
  <2>1. Visible(0) = 1
    BY <1>2 DEF Visible
  <2> QED BY <1>1, <1>2, <1>3, <2>1, EnterVisible DEF Storing
<1>6. line'[Parent] = "fork" /\ line'[Child] = "none"
  BY <1>1 DEF Places
<1>7. Places'
  BY <1>1, <1>4, <1>6 DEF Places, Lines, Setup, SemInv, Types
<1>8. Counted'
  BY <1>1, <1>6 DEF Places, Counted, Working, Setup
<1>9. Unit'
  BY <1>2, <1>4, <1>5, <1>6 DEF Unit, Closing, Setup
<1> QED BY <1>7, <1>8, <1>9

LEMMA ForkKeeps ==
  ASSUME SemInv, PingInv, NEW t \in Threads, line[t] = "fork", pc[t] = "user",
         line' = [line EXCEPT ![Parent] = LoopHead(N), ![Child] = LoopHead(N)],
         UNCHANGED <<vars, left, printed>>
  PROVE  PingInv'
<1> USE Mines, PingPongAssumption, SemAssumption DEF PingInv
<1>1. /\ t = Parent /\ pc[Parent] = "user" /\ pc[Child] = "user" /\ line[Parent] = "fork"
      /\ line[Child] = "none"
      /\ left[Parent] = N /\ left[Child] = N /\ printed[Parent] = 0 /\ printed[Child] = 0
  BY DEF Places, Setup, Counted
<1>2. UNCHANGED <<value, init_value, lk, pc, arg, reg, left, printed>>
  BY DEF vars, semVars, locals
<1>3. /\ line'[Parent] = LoopHead(N) /\ line'[Child] = LoopHead(N)
      /\ LoopHead(N) \in {"down", "close1"} /\ (LoopHead(N) = "down" <=> N > 0)
      /\ \A u \in Threads \ {Parent, Child} : line'[u] = line[u]
      /\ line' \in [Threads -> Lines]
  BY DEF Places, LoopHead, Lines
<1>4. Visible(0) = 1 /\ Visible(1) = 0 /\ init_value[0] = 1 /\ init_value[1] = 1
  BY <1>1 DEF Unit, Closing
<1>5. Visible(0)' = 1 /\ Visible(1)' = 0
  BY <1>2, <1>4 DEF Visible
<1>6. Places'
  BY <1>1, <1>2, <1>3 DEF Places, Setup
<1>7. Counted'
  <2>1. N - N = 0
    OBVIOUS
  <2> QED BY <1>1, <1>2, <1>3, <2>1 DEF Counted, Working, Setup
<1>8. Unit'
  BY <1>1, <1>2, <1>3, <1>4, <1>5 DEF Unit, Travels, Closing, Setup, HasUnit, Ahead
<1> QED BY <1>6, <1>7, <1>8


\* A step of the loop.
LEMMA UnitKept ==
  ASSUME PingInv, line[Parent] \notin Setup, line'[Parent] \notin Setup, init_value' = init_value,
         Closing(Parent)' <=> Closing(Parent), Closing(Child)' <=> Closing(Child),
         ~Closing(Parent) /\ ~Closing(Child) /\ Travels => Travels',
         printed' \in [Threads -> 0..N],
         printed'[Parent] >= printed[Parent], printed'[Child] >= printed[Child]
  PROVE  Unit'
<1>1. printed[Parent] \in 0..N /\ printed[Child] \in 0..N /\ printed'[Parent] \in 0..N
      /\ printed'[Child] \in 0..N /\ N \in Nat
  BY Mines, PingPongAssumption DEF PingInv, Places
<1>2. /\ Closing(Child) => printed'[Parent] + 1 >= N
      /\ Closing(Parent) => printed'[Child] = N
  BY <1>1 DEF PingInv, Unit
<1>3. ~Closing(Parent) /\ ~Closing(Child) => init_value[0] = 1 /\ init_value[1] = 1 /\ Travels
  BY DEF PingInv, Unit, Setup
<1>4. line'[Parent] \notin {"open0", "open1", "down1", "fork"}
  BY DEF Setup
<1> HIDE DEF Setup
<1> QED BY <1>2, <1>3, <1>4 DEF Unit

\* sem_down() on its own semaphore, from the call or from sleep().
LEMMA DownKeeps ==
  ASSUME SemInv, PingInv, NEW t \in {Parent, Child},
         \/ line[t] = "down" /\ pc[t] = "user"
         \/ line[t] = "print" /\ pc[t] = "woken",
         line' = [line EXCEPT ![t] = "print"], sem_down(t, Mine(t)), UNCHANGED <<left, printed>>
  PROVE  PingInv'
<1> USE Mines, PingPongAssumption, SemAssumption DEF PingInv
<1>1. /\ line'[t] = "print" /\ \A u \in Threads \ {t} : line'[u] = line[u]
      /\ line' \in [Threads -> Lines] /\ left' = left /\ printed' = printed
  BY DEF Places, Lines
<1>2. line[Parent] \notin Setup /\ line'[Parent] \notin Setup /\ t \in Threads /\ Mine(t) \in Sems
  BY <1>1 DEF Places, Setup
<1>3. Counted'
  BY <1>1 DEF Counted, Working, Setup
<1>4. /\ Closing(Parent)' <=> Closing(Parent)
      /\ Closing(Child)' <=> Closing(Child)
      /\ printed' \in [Threads -> 0..N] /\ printed'[Parent] >= printed[Parent]
      /\ printed'[Child] >= printed[Child]
  BY <1>1, <1>2 DEF Closing, Places
<1>5. ~HasUnit(t)
  BY DEF HasUnit
<1>6. CASE value[Mine(t)] > 0 /\ Enter(t, Mine(t), value[Mine(t)] - 1, "down_store")
  <2>1. /\ pc'[t] = "down_store" /\ arg'[t] = Mine(t) /\ init_value' = init_value
        /\ \A u \in Threads \ {t} : pc'[u] = pc[u] /\ arg'[u] = arg[u]
    BY <1>2, <1>6 DEF Enter, Goto, SemInv, Types
  <2>2. Places'
    BY <1>1, <1>2, <2>1 DEF Places, Setup
  <2>3. /\ Visible(Mine(t)) = value[Mine(t)] /\ Visible(Mine(t))' = value[Mine(t)] - 1
        /\ \A r \in Sems \ {Mine(t)} : Visible(r)' = Visible(r)
    <3>1. lk[Mine(t)] = NoThread /\ ~Storing(t)
      BY DEF sem_down, Storing
    <3> QED BY <1>2, <1>6, <3>1, EnterVisible
  <2>4. HasUnit(t)' /\ \A u \in Threads \ {t} : HasUnit(u)' <=> HasUnit(u)
    BY <1>1, <1>2, <2>1 DEF HasUnit
  <2>5. ASSUME Travels PROVE Travels'
    <3>1. CASE t = Parent
      <4>1. Visible(1) = 1 /\ Visible(0) = 0 /\ ~HasUnit(Child)
        BY <1>5, <1>6, <2>3, <2>5, <3>1 DEF Travels
      <4>2. Ahead
        BY <4>1 DEF Ahead
      <4>3. Visible(1)' = 0 /\ Visible(0)' = 0 /\ ~HasUnit(Child)' /\ HasUnit(Parent)' /\ Ahead'
        BY <1>1, <2>3, <2>4, <3>1, <4>1 DEF Ahead
      <4> QED BY <1>1, <2>5, <4>2, <4>3 DEF Travels
    <3>2. CASE t = Child
      <4>1. Visible(0) = 1 /\ Visible(1) = 0 /\ ~HasUnit(Parent)
        BY <1>5, <1>6, <2>3, <2>5, <3>2 DEF Travels
      <4>2. ~Ahead
        BY <1>5, <3>2, <4>1 DEF Ahead, HasUnit
      <4>3. Visible(0)' = 0 /\ Visible(1)' = 0 /\ ~HasUnit(Parent)' /\ HasUnit(Child)'
        BY <2>3, <2>4, <3>2, <4>1
      <4>4. ~Ahead'
        BY <1>1, <3>2, <4>3 DEF Ahead
      <4> QED BY <1>1, <2>5, <4>2, <4>3, <4>4 DEF Travels
    <3> QED BY <3>1, <3>2
  <2>6. Unit'
    BY <1>2, <1>4, <2>1, <2>5, UnitKept
  <2> QED BY <1>3, <2>2, <2>6
<1>7. CASE Goto(t, Mine(t), "asleep") /\ UNCHANGED <<semVars, reg>>
  <2>1. /\ pc'[t] = "asleep" /\ arg'[t] = Mine(t) /\ UNCHANGED <<value, init_value, lk, reg>>
        /\ \A u \in Threads \ {t} : pc'[u] = pc[u] /\ arg'[u] = arg[u]
    BY <1>2, <1>7 DEF Goto, SemInv, Types, semVars
  <2>2. Places'
    BY <1>1, <1>2, <2>1 DEF Places, Setup
  <2>3. Visible(0)' = Visible(0) /\ Visible(1)' = Visible(1)
    BY <2>1 DEF Visible
  <2>4. \A u \in {Parent, Child} : HasUnit(u)' <=> HasUnit(u)
    BY <1>1, <1>2, <2>1 DEF HasUnit
  <2>5. Ahead' <=> Ahead
    BY <1>1, <1>5, <2>3, <2>4 DEF Ahead, HasUnit
  <2>6. Travels => Travels'
    BY <1>1, <2>3, <2>4, <2>5 DEF Travels
  <2>7. Unit'
    BY <1>2, <1>4, <2>1, <2>6, UnitKept
  <2> QED BY <1>3, <2>2, <2>7
<1> QED BY <1>6, <1>7 DEF sem_down

\* The printf(): PING puts the child ahead, PONG evens them.
LEMMA PrintKeeps ==
  ASSUME SemInv, PingInv, NEW t \in {Parent, Child}, Advance(t, "print", "up"),
         printed' = [printed EXCEPT ![t] = @ + 1], UNCHANGED <<vars, left>>
  PROVE  PingInv'
<1> USE Mines, PingPongAssumption, SemAssumption DEF PingInv
<1>1. /\ line[t] = "print" /\ pc[t] = "user" /\ line'[t] = "up"
      /\ \A u \in Threads \ {t} : line'[u] = line[u]
      /\ line' \in [Threads -> Lines]
  BY DEF Places, Lines, Advance
<1>2. UNCHANGED <<value, init_value, lk, pc, arg, reg, left>>
  BY DEF vars, semVars, locals
<1>3. line[Parent] \notin Setup /\ line'[Parent] \notin Setup /\ t \in Threads
  BY <1>1 DEF Places, Setup
<1>4. left[t] \in 1..N /\ printed[t] = N - left[t]
  BY <1>1 DEF Counted, Working, Places
<1>5. /\ printed'[t] = printed[t] + 1 /\ printed[t] + 1 \in 0..N
      /\ \A u \in Threads \ {t} : printed'[u] = printed[u]
      /\ printed' \in [Threads -> 0..N]
  BY <1>3, <1>4 DEF Places
<1>6. Places'
  BY <1>1, <1>2, <1>3, <1>5 DEF Places, Setup
<1>7. Counted'
  BY <1>1, <1>2, <1>3, <1>4, <1>5 DEF Counted, Working, Setup
<1>8. Visible(0)' = Visible(0) /\ Visible(1)' = Visible(1)
  BY <1>2 DEF Visible
<1>9. HasUnit(t) /\ \A u \in {Parent, Child} : HasUnit(u)' <=> HasUnit(u)
  BY <1>1, <1>2, <1>3 DEF HasUnit
<1>10. printed[Parent] \in 0..N /\ printed[Child] \in 0..N
  BY DEF Places
<1>11. ASSUME Travels PROVE Travels'
  <2>1. CASE t = Parent
    <3>1. Ahead /\ Visible(0) = 0 /\ Visible(1) = 0 /\ ~HasUnit(Child)
      BY <1>1, <1>9, <1>11, <2>1 DEF Ahead, Travels
    <3>2. ~Ahead'
      BY <1>1, <1>8, <1>9, <2>1, <3>1 DEF Ahead, HasUnit
    <3> QED BY <1>5, <1>8, <1>9, <1>10, <1>11, <2>1, <3>1, <3>2 DEF Travels
  <2>2. CASE t = Child
    <3>1. Visible(0) = 0 /\ Visible(1) = 0 /\ ~HasUnit(Parent)
      BY <1>9, <1>11, <2>2 DEF Travels
    <3>2. ~Ahead /\ Ahead'
      BY <1>1, <2>2, <3>1 DEF Ahead
    <3> QED BY <1>5, <1>8, <1>9, <1>10, <1>11, <2>2, <3>1, <3>2 DEF Travels
  <2> QED BY <2>1, <2>2
<1>12. Unit'
  <2>1. /\ Closing(Parent)' <=> Closing(Parent)
        /\ Closing(Child)' <=> Closing(Child)
    BY <1>1, <1>3 DEF Closing
  <2>2. printed'[Parent] >= printed[Parent] /\ printed'[Child] >= printed[Child]
    BY <1>3, <1>5, <1>10
  <2> QED BY <1>2, <1>3, <1>5, <1>11, <2>1, <2>2, UnitKept
<1> QED BY <1>6, <1>7, <1>12
\* The other half of a sem_up() or sem_down().
LEMMA StoreKeeps ==
  ASSUME SemInv, PingInv, NEW t \in Threads, Store(t), UNCHANGED progVars
  PROVE  PingInv'
<1> USE Mines, PingPongAssumption, SemAssumption DEF PingInv
<1>1. /\ t \in {Parent, Child} /\ pc[t] \in {"down_store", "up_store"}
      /\ line[Parent] \notin {"open0", "open1", "down1"}
  BY DEF Places, Setup, Store
<1>2. UNCHANGED <<init_value, arg, line, left, printed>>
  BY DEF Store, progVars
<1>3. /\ pc'[t] = "user"
      /\ \A u \in Threads \ {t} : \/ pc'[u] = pc[u]
                                  \/ pc[u] = "asleep" /\ pc'[u] = "woken"
  BY DEF Store
<1>4. Visible(0)' = Visible(0) /\ Visible(1)' = Visible(1)
  BY StoreVisible
<1>5. \A u \in {Parent, Child} : HasUnit(u)' <=> HasUnit(u)
  BY <1>1, <1>2, <1>3 DEF HasUnit, Places
<1>6. Ahead' <=> Ahead
  BY <1>2, <1>4, <1>5 DEF Ahead
<1>7. Travels' <=> Travels
  BY <1>2, <1>4, <1>5, <1>6 DEF Travels
<1>8. Places'
  BY <1>1, <1>2, <1>3 DEF Places, Setup
<1>9. Counted'
  BY <1>2 DEF Counted
<1>10. (Closing(Parent)' <=> Closing(Parent)) /\ (Closing(Child)' <=> Closing(Child))
  BY <1>2 DEF Closing
<1>11. Unit'
  BY <1>1, <1>2, <1>4, <1>7, <1>10 DEF Unit
<1> QED BY <1>8, <1>9, <1>11

\* The loop ends with a sem_up() on the other semaphore; until somebody
\* closes it, it is not refused.
LEMMA UpKeeps ==
  ASSUME SemInv, PingInv, NEW t \in {Parent, Child},
         Advance(t, "up", LoopHead(left[t] - 1)), left' = [left EXCEPT ![t] = @ - 1],
         \/ sem_up(t, Theirs(t))
         \/ /\ init_value[Theirs(t)] = value[Theirs(t)]
            /\ lk[Theirs(t)] = NoThread
            /\ UNCHANGED vars,
         UNCHANGED printed
  PROVE  PingInv'
<1> USE Mines, PingPongAssumption, SemAssumption DEF PingInv
<1>1. /\ line[t] = "up" /\ pc[t] = "user" /\ t \in Threads /\ Theirs(t) \in Sems
      /\ line[Parent] \notin Setup
  BY DEF Places, Advance, Setup
<1>2. left[t] \in 1..N /\ printed[t] = N - left[t] + 1
  BY <1>1 DEF Counted, Working, Places
<1>3. /\ left'[t] = left[t] - 1 /\ left'[t] \in 0..N
      /\ \A u \in Threads \ {t} : left'[u] = left[u]
      /\ left' \in [Threads -> 0..N]
  BY <1>1, <1>2 DEF Places
<1>4. /\ line'[t] \in {"down", "close1"} /\ (line'[t] = "close1" <=> left'[t] = 0)
      /\ \A u \in Threads \ {t} : line'[u] = line[u]
      /\ line' \in [Threads -> Lines]
  BY <1>1, <1>2, <1>3 DEF Advance, LoopHead, Places, Lines
<1>5. /\ init_value' = init_value
      /\ \/ pc'[t] = "up_store" /\ arg'[t] = Theirs(t)
         \/ pc'[t] = "user"
      /\ \A u \in Threads \ {t} : pc'[u] = pc[u] /\ arg'[u] = arg[u]
  BY <1>1 DEF sem_up, Enter, Goto, SemInv, Types, vars, semVars, locals
<1>6. Places'
  BY <1>1, <1>3, <1>4, <1>5 DEF Places, Setup
<1>7. Counted'
  BY <1>1, <1>2, <1>3, <1>4 DEF Counted, Working, Setup
<1>8. line'[Parent] \notin Setup
  BY <1>1, <1>4 DEF Setup
<1>9. (Closing(Parent)' <=> Closing(Parent)) /\ (Closing(Child)' <=> Closing(Child))
  BY <1>1, <1>4 DEF Closing
<1>10. /\ HasUnit(t) /\ ~HasUnit(t)'
       /\ \A u \in Threads \ {t} : HasUnit(u)' <=> HasUnit(u)
  BY <1>1, <1>4, <1>5 DEF HasUnit
<1>11. ASSUME ~Closing(Parent) /\ ~Closing(Child) /\ Travels PROVE Travels'
  <2>1. Visible(0) = 0 /\ Visible(1) = 0
    BY <1>10, <1>11 DEF Travels
  <2>2. init_value[Theirs(t)] = 1
    BY <1>1, <1>11 DEF Unit, Setup
  <2>3. lk[Theirs(t)] = NoThread /\ value[Theirs(t)] = 0
    BY <1>1, <2>1 DEF sem_up, Visible
  <2>4. Enter(t, Theirs(t), 1, "up_store")
    BY <2>2, <2>3 DEF sem_up
  <2>5. Visible(Theirs(t))' = 1 /\ \A r \in Sems \ {Theirs(t)} : Visible(r)' = Visible(r)
    BY <1>1, <2>3, <2>4, EnterVisible DEF Storing
  <2>6. CASE t = Parent
    <3>1. Visible(0)' = 1 /\ Visible(1)' = 0 /\ ~HasUnit(Child) /\ ~HasUnit(Child)' /\ ~HasUnit(Parent)'
      BY <1>10, <1>11, <2>1, <2>5, <2>6 DEF Travels
    <3>2. ~Ahead /\ ~Ahead'
      BY <1>1, <1>4, <2>1, <2>6, <3>1 DEF Ahead, HasUnit
    <3> QED BY <1>11, <3>1, <3>2 DEF Travels
  <2>7. CASE t = Child
    <3>1. Visible(0)' = 0 /\ Visible(1)' = 1 /\ ~HasUnit(Parent)' /\ ~HasUnit(Child)'
      BY <1>10, <1>11, <2>1, <2>5, <2>7 DEF Travels
    <3>2. Ahead /\ Ahead'
      BY <1>1, <2>7, <3>1 DEF Ahead
    <3> QED BY <1>11, <3>1, <3>2 DEF Travels
  <2> QED BY <2>6, <2>7
<1>12. printed' \in [Threads -> 0..N] /\ printed'[Parent] >= printed[Parent]
       /\ printed'[Child] >= printed[Child]
  BY DEF Places
<1>13. Unit'
  BY <1>1, <1>5, <1>8, <1>9, <1>11, <1>12, UnitKept
<1> QED BY <1>6, <1>7, <1>13

\* sem_close() is called by a process that has printed all its lines.
LEMMA CloseKeeps ==
  ASSUME SemInv, PingInv, NEW t \in {Parent, Child}, NEW s \in Sems,
         Advance(t, IF s = 1 THEN "close1" ELSE "close0", IF s = 1 THEN "close0" ELSE "exit"),
         sem_close(t, s) \/ UNCHANGED vars,
         UNCHANGED <<left, printed>>
  PROVE  PingInv'
<1> USE Mines, PingPongAssumption, SemAssumption DEF PingInv
<1>1. /\ line[t] \in {"close1", "close0"} /\ pc[t] = "user" /\ t \in Threads
      /\ line'[t] \in {"close0", "exit"} /\ (line[t] = "close1" => line'[t] = "close0")
      /\ \A u \in Threads \ {t} : line'[u] = line[u]
      /\ line' \in [Threads -> Lines]
  BY DEF Advance, Places, Lines
<1>2. left[t] = 0 /\ printed[t] = N
  BY <1>1 DEF Counted
<1>3. /\ pc'[t] \in {"user", "close"}
      /\ \A u \in Threads \ {t} : pc'[u] = pc[u] /\ arg'[u] = arg[u]
      /\ left' = left /\ printed' = printed
  BY <1>1 DEF sem_close, Goto, SemInv, Types, vars, locals
<1>4. Places'
  BY <1>1, <1>3 DEF Places, Setup
<1>5. Counted'
  BY <1>1, <1>2, <1>3 DEF Counted, Working, Setup
<1>6. line[Parent] \notin Setup /\ Closing(t)'
  BY <1>1 DEF Places, Setup, Closing
<1>7. \A u \in {Parent, Child} : Closing(u) => printed[u] = N
  BY DEF Closing, Counted
<1>8. \A u \in {Parent, Child} \ {t} : Closing(u)' <=> Closing(u)
  BY <1>1 DEF Closing
<1>9. printed[Parent] \in 0..N /\ printed[Child] \in 0..N
  BY DEF Places
<1>10. ~Closing(Parent) /\ ~Closing(Child) => printed[Child] \in {printed[Parent], printed[Parent] + 1}
  BY <1>6 DEF Unit, Travels
<1>11. CASE t = Child
  <2>1. printed[Parent] + 1 >= N
    BY <1>2, <1>7, <1>9, <1>10, <1>11 DEF Unit
  <2> QED BY <1>2, <1>3, <1>4, <1>5, <1>6, <1>11, <2>1 DEF Unit
<1>12. CASE t = Parent
  <2>1. printed[Child] = N
    BY <1>2, <1>7, <1>9, <1>10, <1>12 DEF Unit
  <2> QED BY <1>2, <1>3, <1>4, <1>5, <1>6, <1>7, <1>8, <1>9, <1>12, <2>1 DEF Unit
<1> QED BY <1>11, <1>12

\* The stores of sem_close() meet processes that are closing.
LEMMA ClosesKeep ==
  ASSUME SemInv, PingInv, NEW t \in Threads, CloseValue(t) \/ CloseInit(t), UNCHANGED progVars
  PROVE  PingInv'
<1> USE Mines, PingPongAssumption, SemAssumption DEF PingInv
<1>1. /\ t \in {Parent, Child} /\ Closing(t)
      /\ line' = line /\ left' = left /\ printed' = printed
  BY DEF CloseValue, CloseInit, Places, Closing, progVars
<1>2. /\ pc'[t] \in {"close_value", "close_init", "user"} /\ arg' = arg
      /\ \A u \in Threads \ {t} : pc'[u] = pc[u]
  BY DEF CloseValue, CloseInit, SemInv, Types
<1>3. Places'
  BY <1>1, <1>2 DEF Places, Setup, Closing
<1>4. Counted'
  BY <1>1 DEF Counted
<1>5. (Closing(Parent)' <=> Closing(Parent)) /\ (Closing(Child)' <=> Closing(Child))
  BY <1>1 DEF Closing
<1>6. Unit'
  BY <1>1, <1>5 DEF Unit
<1> QED BY <1>3, <1>4, <1>6
\* Every step of the program keeps PingInv.
LEMMA PingKept == SemInv /\ PingInv /\ [PNext]_pvars => PingInv'
<1> SUFFICES ASSUME SemInv, PingInv, [PNext]_pvars PROVE PingInv'
  OBVIOUS
<1> USE Mines
<1>1. CASE UNCHANGED pvars
  <2>1. UNCHANGED <<line, left, printed, value, init_value, lk, pc, arg, reg>>
    BY <1>1 DEF pvars, progVars, vars, semVars, locals
  <2>2. Visible(0)' = Visible(0) /\ Visible(1)' = Visible(1)
    BY <2>1 DEF Visible
  <2> QED BY <2>1, <2>2 DEF PingInv, Places, Counted, Unit, Travels, HasUnit, Ahead, Closing
<1>2. ASSUME NEW t \in Threads, Statement(t) PROVE PingInv'
  <2>1. t \in {Parent, Child}
    BY <1>2 DEF Statement, Advance, PingInv, Places
  <2>2. CASE Advance(t, "open0", "open1") /\ sem_open(t, 0, 1) /\ UNCHANGED <<left, printed>>
    BY <2>2, OpenKeeps
  <2>3. CASE Advance(t, "open1", "down1") /\ sem_open(t, 1, 1) /\ UNCHANGED <<left, printed>>
    BY <2>3, OpenKeeps
  <2>4. CASE Advance(t, "down1", "fork") /\ sem_down(t, 1) /\ UNCHANGED <<left, printed>>
    BY <2>4, Down1Keeps
  <2>5. CASE /\ line[t] = "fork" /\ pc[t] = "user"
             /\ line' = [line EXCEPT ![Parent] = LoopHead(N), ![Child] = LoopHead(N)]
             /\ UNCHANGED <<vars, left, printed>>
    BY <2>5, ForkKeeps
  <2>6. CASE Advance(t, "down", "print") /\ sem_down(t, Mine(t)) /\ UNCHANGED <<left, printed>>
    BY <2>1, <2>6, DownKeeps DEF Advance
  <2>7. CASE /\ Advance(t, "print", "up")
             /\ printed' = [printed EXCEPT ![t] = @ + 1]
             /\ UNCHANGED <<vars, left>>
    BY <2>1, <2>7, PrintKeeps
  <2>8. CASE /\ Advance(t, "up", LoopHead(left[t] - 1))
             /\ left' = [left EXCEPT ![t] = @ - 1]
             /\ \/ sem_up(t, Theirs(t))
                \/ /\ init_value[Theirs(t)] = value[Theirs(t)]
                   /\ lk[Theirs(t)] = NoThread
                   /\ UNCHANGED vars
             /\ UNCHANGED printed
    BY <2>1, <2>8, UpKeeps
  <2>9. CASE \E s \in Sems :
               /\ Advance(t, IF s = 1 THEN "close1" ELSE "close0",
                             IF s = 1 THEN "close0" ELSE "exit")
               /\ \/ sem_close(t, s)
                  \/ lk[s] # NoThread /\ UNCHANGED vars
               /\ UNCHANGED <<left, printed>>
    BY <2>1, <2>9, CloseKeeps
  <2> QED BY <1>2, <2>2, <2>3, <2>4, <2>5, <2>6, <2>7, <2>8, <2>9 DEF Statement
<1>3. ASSUME NEW t \in Threads, Continue(t), UNCHANGED progVars PROVE PingInv'
  <2>1. CASE Store(t)
    BY <1>3, <2>1, StoreKeeps
  <2>2. CASE CloseValue(t) \/ CloseInit(t)
    BY <1>3, <2>2, ClosesKeep
  <2>3. CASE pc[t] = "woken" /\ sem_down(t, arg[t])
    <3>1. t \in {Parent, Child} /\ line[t] = "print" /\ arg[t] = Mine(t) /\ line \in [Threads -> Lines]
      BY <2>3 DEF PingInv, Places
    <3>2. line' = [line EXCEPT ![t] = "print"] /\ UNCHANGED <<left, printed>>
      BY <1>3, <3>1 DEF progVars
    <3> QED BY <2>3, <3>1, <3>2, DownKeeps
  <2> QED BY <1>3, <2>1, <2>2, <2>3 DEF Continue
<1> QED BY <1>1, <1>2, <1>3 DEF PNext

\* Every step of the program is a step that Sem has for its callers; the
\* semaphores are opened before anybody uses them.
LEMMA ProgramUsesSem == SemInv /\ PingInv /\ [PNext]_pvars => [Next]_vars
<1> SUFFICES ASSUME SemInv, PingInv, [PNext]_pvars PROVE [Next]_vars
  OBVIOUS
<1> USE Mines, PingPongAssumption
<1>1. CASE UNCHANGED pvars
  BY <1>1 DEF pvars
<1>2. ASSUME NEW t \in Threads, Statement(t) PROVE [Next]_vars
  <2>1. t \in {Parent, Child}
    BY <1>2 DEF Statement, Advance, PingInv, Places
  <2>2. ASSUME NEW s \in Sems, sem_open(t, s, 1), line[t] \in {"open0", "open1"} PROVE Next
    <3>1. \A u \in Threads : pc[u] = "user"
      BY <2>1, <2>2 DEF PingInv, Places, Setup
    <3>2. Unused(s) /\ 1 \in 0..MaxValue
      BY <3>1, SemAssumption DEF Unused
    <3> QED BY <2>2, <3>2 DEF Next
  <2>3. ASSUME NEW s \in Sems, pc[t] = "user", sem_down(t, s) PROVE Next
    BY <2>3 DEF Next
  <2>4. ASSUME NEW s \in Sems, sem_up(t, s) PROVE Next
    BY <2>4 DEF Next
  <2>5. ASSUME NEW s \in Sems, sem_close(t, s) PROVE Next
    BY <2>1, <2>5 DEF Next
  <2>6. Mine(t) \in Sems /\ Theirs(t) \in Sems
    BY <2>1
  <2> HIDE DEF Next
  <2> QED BY <1>2, <2>2, <2>3, <2>4, <2>5, <2>6 DEF Statement, Advance
<1>3. ASSUME NEW t \in Threads, Continue(t) PROVE [Next]_vars
  BY <1>3 DEF Next
<1> QED BY <1>1, <1>2, <1>3 DEF PNext

LEMMA PingInvariance == PSpec => [](SemInv /\ PingInv)
<1>1. PInit => SemInv /\ PingInv
  BY PingInit, InitInv DEF PInit
<1>2. SemInv /\ PingInv /\ [PNext]_pvars => (SemInv /\ PingInv)'
  BY PingKept, ProgramUsesSem, NextInv
<1> QED BY <1>1, <1>2, PTL DEF PSpec

\* user/pingpong.c: PING and PONG take turns, PING first, for every number of
\* rounds and every schedule of the two, the racing sem_close() calls at the
\* end included: a close comes only when no line is left that it could put in
\* the wrong order.
THEOREM LinesAlternate == PSpec => []Alternation
<1>1. SemInv /\ PingInv => Alternation
  <2> SUFFICES ASSUME PingInv PROVE Alternation
    OBVIOUS
  <2> USE PingPongAssumption, Mines DEF PingInv
  <2>1. /\ printed[Parent] \in 0..N /\ printed[Child] \in 0..N
        /\ line[Parent] \in Setup => printed[Parent] = 0 /\ printed[Child] = 0
    BY DEF Places, Counted, Setup
  <2>2. CASE line[Parent] \in Setup
    BY <2>1, <2>2 DEF Alternation
  <2>3. CASE line[Parent] \notin Setup /\ ~Closing(Parent) /\ ~Closing(Child)
    BY <2>1, <2>3 DEF Unit, Travels, Alternation
  <2>4. CASE Closing(Parent) \/ Closing(Child)
    <3>1. Closing(Child) => printed[Child] = N
      BY DEF Closing, Counted
    <3>2. Closing(Parent) => printed[Parent] = N
      BY DEF Closing, Counted
    <3> QED BY <2>1, <2>4, <3>1, <3>2 DEF Unit, Alternation
  <2> QED BY <2>2, <2>3, <2>4
<1> QED BY <1>1, PingInvariance, PTL

\* pingpong is a legal client of the kernel's semaphores: no step of it opens a
\* semaphore somebody uses, or passes a value Sem does not allow.
THEOREM UsesSemaphores == PSpec => Spec
<1>1. PInit => Init
  BY DEF PInit
<1> QED BY <1>1, ProgramUsesSem, PingInvariance, PTL DEF PSpec, Spec

-----------------------------------------------------------------------------
(* MyBash: what the shell still has to close and to wait for.              *)

ShellPlaces == {"prompt", "end", "pipe", "fork", "fork2", "close", "wait1", "wait2", "signal"}
Commands == {"exit", "true", "filter", "yes", "daemon"}
Kid == [cmd : Commands, stdin : Nat, stdout : Nat,
        state : {"forked", "running", "zombie", "gone"}, waited : BOOLEAN]

BashTypes ==
  /\ session \in Seq(CommandLines) /\ cmds \in Seq(Commands) /\ waits \in BOOLEAN
  /\ at \in ShellPlaces /\ pipeno \in Nat /\ kids \in Seq(Kid)
  /\ pid1 \in Nat /\ pid2 \in Nat

\* The shell holds no end of a pipe but of that of the line it is starting.
OwnEnds ==
  \A e \in ends :
    e[1] = Bash /\ ~leaked => /\ at \in {"fork", "fork2", "close"} /\ Len(cmds) = 2
                              /\ e[3] = pipeno

\* The shell still has to wait for child c.
Owes(c) ==
  /\ waits
  /\ \/ c = pid1 /\ at \in {"fork2", "close", "wait1"}
     \/ c = pid2 /\ at \in {"close", "wait1", "wait2"}

\* Children that it was to wait for are gone, or still owed a wait.
Awaited == \A c \in DOMAIN kids : kids[c].waited => kids[c].state = "gone" \/ Owes(c)

\* What execute_pipeline() has when it calls fork(), and what its calls leave.
Forked ==
  /\ at \in {"fork", "fork2"} => pid2 = 0 /\ Len(cmds) \in {1, 2}
  /\ at \in {"pipe", "fork2", "close", "wait2"} => Len(cmds) = 2
  /\ at = "pipe" => pid2 = 0
  /\ at \in {"fork2", "close", "wait1"} => pid1 \in DOMAIN kids
  /\ at = "wait1" => pid2 = 0 \/ Len(cmds) = 2

BashInv == BashTypes /\ OwnEnds /\ Awaited /\ Forked

LEMMA PidsOf ==
  ASSUME BashTypes
  PROVE  /\ Len(kids) \in Nat /\ DOMAIN kids = 1..Len(kids) /\ 0 \notin DOMAIN kids
         /\ NewPid \in Nat \ {0} /\ NewPid \notin DOMAIN kids
<1>1. Len(kids) \in Nat /\ DOMAIN kids = 1..Len(kids)
  BY DEF BashTypes
<1> QED BY <1>1 DEF NewPid

\* A new child inherits the ends of the shell, which keeps its own.
LEMMA Inherited ==
  ASSUME BashTypes, ends' = Inherit(NewPid)
  PROVE  \A e \in ends' : e[1] = Bash => e \in ends
BY PidsOf DEF Inherit, Bash

LEMMA NewChild ==
  ASSUME BashTypes, NEW cmd \in Commands, NEW i \in Nat, NEW o \in Nat,
         kids' = Append(kids, NewKid(cmd, i, o))
  PROVE  /\ kids' \in Seq(Kid) /\ DOMAIN kids' = DOMAIN kids \union {NewPid}
         /\ \A c \in DOMAIN kids : kids'[c] = kids[c]
         /\ kids'[NewPid].waited = waits
<1> DEFINE k == NewKid(cmd, i, o)
<1>1. k \in Kid /\ k.waited = waits
  BY DEF NewKid, Kid, BashTypes
<1> HIDE DEF k
<1>2. kids \in Seq(Kid)
  BY DEF BashTypes
<1>3. /\ Append(kids, k) \in Seq(Kid) /\ Len(Append(kids, k)) = Len(kids) + 1
      /\ \A c \in 1..Len(kids) : Append(kids, k)[c] = kids[c]
      /\ Append(kids, k)[Len(kids) + 1] = k
  BY <1>1, <1>2, AppendProperties
<1>4. kids' = Append(kids, k)
  BY DEF k
<1>5. DOMAIN kids' = 1..(Len(kids) + 1)
  BY <1>3, <1>4
<1> QED BY <1>1, <1>3, <1>4, <1>5, PidsOf DEF NewPid

\* A child changes its state, or none does.
LEMMA ChildMoves ==
  ASSUME BashTypes, NEW c \in DOMAIN kids, NEW s \in {"running", "zombie", "gone"},
         kids' = [kids EXCEPT ![c].state = s]
  PROVE  /\ kids' \in Seq(Kid) /\ DOMAIN kids' = DOMAIN kids
         /\ \A d \in DOMAIN kids : kids'[d].waited = kids[d].waited
         /\ kids'[c].state = s
         /\ \A d \in DOMAIN kids : d # c => kids'[d].state = kids[d].state
<1> DEFINE k == [kids[c] EXCEPT !.state = s]
<1>1. kids \in Seq(Kid) /\ kids[c] \in Kid
  BY DEF BashTypes
<1>2. k \in Kid /\ k.state = s /\ k.waited = kids[c].waited
  BY <1>1 DEF Kid
<1> HIDE DEF k
<1>3. kids' = [kids EXCEPT ![c] = k]
  BY DEF k
<1>4. kids' \in Seq(Kid)
  BY <1>1, <1>2, <1>3, ExceptSeq
<1> QED BY <1>1, <1>2, <1>3, <1>4

LEMMA BashStarts == BashInit => BashInv
<1> SUFFICES ASSUME BashInit PROVE BashInv
  OBVIOUS
<1>1. PICK s \in Sessions : session = s.lines /\ short = s.short
  BY DEF BashInit
<1>2. session \in Seq(CommandLines)
  BY <1>1, SessionsAssumption
<1>3. cmds \in Seq(Commands) /\ kids \in Seq(Kid) /\ DOMAIN kids = {}
  BY EmptySeq DEF BashInit
<1> QED BY <1>2, <1>3 DEF BashInit, BashInv, BashTypes, OwnEnds, Awaited, Forked, ShellPlaces, Bash

LEMMA ReadLineKeeps == ASSUME BashInv, ReadLine PROVE BashInv'
<1>1. /\ Head(session) \in CommandLines /\ session' \in Seq(CommandLines)
  BY HeadTailProperties DEF BashInv, BashTypes, ReadLine
<1>2. BashTypes'
  BY <1>1 DEF BashInv, BashTypes, ReadLine, CommandLines, Commands, ShellPlaces
<1>3. OwnEnds'
  BY DEF BashInv, OwnEnds, ReadLine
<1>4. Awaited'
  BY DEF BashInv, Awaited, Owes, ReadLine
<1>5. Forked'
  BY DEF ReadLine, Forked
<1> QED BY <1>2, <1>3, <1>4, <1>5 DEF BashInv

LEMMA MakePipeKeeps == ASSUME BashInv, MakePipe PROVE BashInv'
<1> USE DEF MakePipe
<1>1. BashTypes'
  BY DEF BashInv, BashTypes, ShellPlaces
<1>2. OwnEnds'
  BY DEF BashInv, OwnEnds, Forked
<1>3. Awaited'
  BY DEF BashInv, Awaited, Owes
<1>4. Forked'
  BY DEF BashInv, Forked
<1> QED BY <1>1, <1>2, <1>3, <1>4 DEF BashInv

LEMMA ForkFirstKeeps == ASSUME BashInv, ForkFirst PROVE BashInv'
<1> USE DEF ForkFirst, BashInv
<1>1. CASE kids' = kids
  <2>1. BashTypes'
    BY <1>1, PidsOf DEF BashTypes, ShellPlaces
  <2>2. at' = "prompt" /\ pid1' = pid1 /\ ends' = ends /\ leaked' = (leaked \/ Len(cmds) = 2)
    <3>1. kids' # Append(kids, NewKid(cmds[1], 0, IF Len(cmds) = 2 THEN pipeno ELSE 0))
      BY <1>1
    <3> QED BY <3>1
  <2>3. OwnEnds' /\ Awaited' /\ Forked'
    BY <1>1, <2>2 DEF OwnEnds, Awaited, Owes, Forked
  <2> QED BY <2>1, <2>3
<1>2. CASE /\ pid1' = NewPid
           /\ kids' = Append(kids, NewKid(cmds[1], 0, IF Len(cmds) = 2 THEN pipeno ELSE 0))
           /\ ends' = Inherit(NewPid)
           /\ at' = IF Len(cmds) = 2 THEN "fork2" ELSE "wait1"
           /\ UNCHANGED <<short, leaked>>
  <2>1. cmds[1] \in Commands /\ (IF Len(cmds) = 2 THEN pipeno ELSE 0) \in Nat
    BY DEF BashTypes, Forked
  <2>2. /\ kids' \in Seq(Kid) /\ DOMAIN kids' = DOMAIN kids \union {NewPid}
        /\ \A c \in DOMAIN kids : kids'[c] = kids[c]
        /\ kids'[NewPid].waited = waits
    BY <1>2, <2>1, NewChild
  <2>3. BashTypes'
    BY <1>2, <2>2, PidsOf DEF BashTypes, ShellPlaces
  <2>4. OwnEnds'
    BY <1>2, Inherited DEF OwnEnds, Forked
  <2>5. Awaited'
    BY <1>2, <2>2, PidsOf DEF Awaited, Owes, Forked
  <2>6. Forked'
    BY <1>2, <2>2 DEF Forked
  <2> QED BY <2>3, <2>4, <2>5, <2>6
<1> QED BY <1>1, <1>2

LEMMA ForkSecondKeeps == ASSUME BashInv, ForkSecond PROVE BashInv'
<1> USE DEF ForkSecond, BashInv
<1>1. CASE UNCHANGED <<pid2, kids, ends>>
  <2>1. BashTypes'
    BY <1>1 DEF BashTypes, ShellPlaces
  <2>2. OwnEnds' /\ Awaited' /\ Forked'
    BY <1>1 DEF OwnEnds, Awaited, Owes, Forked
  <2> QED BY <2>1, <2>2
<1>2. CASE /\ pid2' = NewPid
           /\ kids' = Append(kids, NewKid(cmds[2], pipeno, 0))
           /\ ends' = Inherit(NewPid)
  <2>1. at = "fork2" /\ cmds \in Seq(Commands) /\ Forked
    BY DEF BashTypes
  <2>2. Len(cmds) = 2
    BY <2>1 DEF Forked
  <2>3. 2 \in 1..Len(cmds)
    BY <2>2
  <2>4. cmds[2] \in Commands /\ pipeno \in Nat
    BY <2>1, <2>3, ElementOfSeq DEF BashTypes
  <2>5. /\ kids' \in Seq(Kid) /\ DOMAIN kids' = DOMAIN kids \union {NewPid}
        /\ \A c \in DOMAIN kids : kids'[c] = kids[c]
        /\ kids'[NewPid].waited = waits
    BY <1>2, <2>4, NewChild
  <2>6. BashTypes'
    BY <1>2, <2>5, PidsOf DEF BashTypes, ShellPlaces
  <2>7. OwnEnds'
    BY <1>2, Inherited DEF OwnEnds, Forked
  <2>8. Awaited'
    BY <1>2, <2>5, PidsOf DEF Awaited, Owes, Forked
  <2>9. Forked'
    BY <1>2, <2>5 DEF Forked
  <2> QED BY <2>6, <2>7, <2>8, <2>9
<1> QED BY <1>1, <1>2

LEMMA CloseEndsKeeps == ASSUME BashInv, CloseEnds PROVE BashInv'
<1> USE DEF CloseEnds, BashInv
<1>1. BashTypes'
  BY DEF BashTypes, ShellPlaces
<1>2. OwnEnds'
  BY DEF OwnEnds
<1>3. Awaited' /\ Forked'
  BY DEF Awaited, Owes, Forked
<1> QED BY <1>1, <1>2, <1>3

\* waitpid() of a child leaves it reaped, and brings none back.
LEMMA Reaps ==
  ASSUME BashTypes, NEW pid \in Nat, IF waits THEN waitpid(pid) ELSE UNCHANGED kids
  PROVE  /\ kids' \in Seq(Kid) /\ DOMAIN kids' = DOMAIN kids
         /\ \A d \in DOMAIN kids : /\ kids'[d].waited = kids[d].waited
                                   /\ kids[d].state = "gone" => kids'[d].state = "gone"
         /\ waits /\ pid \in DOMAIN kids => kids'[pid].state = "gone"
<1>1. CASE UNCHANGED kids
  <2>1. waits /\ pid \in DOMAIN kids => kids[pid].state = "gone"
    <3> SUFFICES ASSUME waits, pid \in DOMAIN kids, kids[pid].state # "gone" PROVE FALSE
      OBVIOUS
    <3>1. Waited(pid) # {}
      BY DEF Waited
    <3>2. PICK c \in Zombies(Waited(pid)) : kids' = [kids EXCEPT ![c].state = "gone"]
      BY <3>1 DEF waitpid
    <3>3. c \in DOMAIN kids
      BY <3>2 DEF Zombies, Waited
    <3>4. kids'[c].state = "gone" /\ kids[c].state = "zombie"
      BY <3>2, <3>3, ChildMoves DEF Zombies
    <3> QED BY <3>4, <1>1
  <2> QED BY <1>1, <2>1 DEF BashTypes
<1>2. ASSUME waits, NEW c \in Zombies(Waited(pid)), kids' = [kids EXCEPT ![c].state = "gone"]
      PROVE  /\ kids' \in Seq(Kid) /\ DOMAIN kids' = DOMAIN kids
             /\ \A d \in DOMAIN kids : /\ kids'[d].waited = kids[d].waited
                                       /\ kids[d].state = "gone" => kids'[d].state = "gone"
             /\ waits /\ pid \in DOMAIN kids => kids'[pid].state = "gone"
  <2>1. c \in DOMAIN kids /\ pid \in {0, c}
    BY <1>2 DEF Zombies, Waited
  <2> QED BY <1>2, <2>1, ChildMoves, PidsOf
<1> QED BY <1>1, <1>2 DEF waitpid

LEMMA WaitFirstKeeps == ASSUME BashInv, WaitFirst PROVE BashInv'
<1> USE DEF WaitFirst, BashInv
<1>1. /\ kids' \in Seq(Kid) /\ DOMAIN kids' = DOMAIN kids
      /\ \A d \in DOMAIN kids : /\ kids'[d].waited = kids[d].waited
                                /\ kids[d].state = "gone" => kids'[d].state = "gone"
      /\ waits /\ pid1 \in DOMAIN kids => kids'[pid1].state = "gone"
  BY Reaps DEF BashTypes
<1>2. BashTypes'
  BY <1>1 DEF BashTypes, ShellPlaces
<1>3. OwnEnds' /\ Forked'
  BY <1>1 DEF OwnEnds, Forked
<1>4. Awaited'
  BY <1>1, PidsOf DEF Awaited, Owes, Forked
<1> QED BY <1>2, <1>3, <1>4

LEMMA WaitSecondKeeps == ASSUME BashInv, WaitSecond PROVE BashInv'
<1> USE DEF WaitSecond, BashInv
<1>1. /\ kids' \in Seq(Kid) /\ DOMAIN kids' = DOMAIN kids
      /\ \A d \in DOMAIN kids : /\ kids'[d].waited = kids[d].waited
                                /\ kids[d].state = "gone" => kids'[d].state = "gone"
      /\ waits /\ pid2 \in DOMAIN kids => kids'[pid2].state = "gone"
  BY Reaps DEF BashTypes
<1>2. BashTypes'
  BY <1>1 DEF BashTypes, ShellPlaces
<1>3. OwnEnds' /\ Forked'
  BY <1>1 DEF OwnEnds, Forked
<1>4. Awaited'
  BY <1>1, PidsOf DEF Awaited, Owes, Forked
<1> QED BY <1>2, <1>3, <1>4

LEMMA IgnoreChildrenKeeps == ASSUME BashInv, IgnoreChildren PROVE BashInv'
<1> USE DEF IgnoreChildren, BashInv
<1>1. BashTypes'
  BY DEF BashTypes, ShellPlaces
<1>2. OwnEnds' /\ Awaited' /\ Forked'
  BY DEF OwnEnds, Awaited, Owes, Forked
<1> QED BY <1>1, <1>2

LEMMA ChildKeeps ==
  ASSUME BashInv, NEW c \in DOMAIN kids, Execvp(c) \/ End_program(c)
  PROVE  BashInv'
<1> USE DEF BashInv
<1>1. PICK s \in {"running", "zombie", "gone"} : kids' = [kids EXCEPT ![c].state = s]
  BY DEF Execvp, End_program
<1>2. kids[c].state \in {"forked", "running"}
  BY DEF Execvp, End_program
<1>3. /\ kids' \in Seq(Kid) /\ DOMAIN kids' = DOMAIN kids
      /\ \A d \in DOMAIN kids : kids'[d].waited = kids[d].waited
      /\ \A d \in DOMAIN kids : d # c => kids'[d].state = kids[d].state
  BY <1>1, ChildMoves
<1>4. /\ ends' \subseteq ends
      /\ UNCHANGED <<session, short, at, cmds, waits, pid1, pid2, pipeno, blind, leaked>>
  BY DEF Execvp, End_program
<1>5. BashTypes'
  BY <1>3, <1>4 DEF BashTypes
<1>6. OwnEnds' /\ Forked'
  BY <1>3, <1>4 DEF OwnEnds, Forked
<1>7. Awaited'
  BY <1>2, <1>3, <1>4 DEF Awaited, Owes
<1> QED BY <1>5, <1>6, <1>7

LEMMA BashKept ==
  ASSUME BashInv,
         \/ Shell \/ UNCHANGED bashVars
         \/ \E c \in DOMAIN kids : Execvp(c) \/ End_program(c)
  PROVE  BashInv'
<1>1. CASE Shell
  BY <1>1, ReadLineKeeps, MakePipeKeeps, ForkFirstKeeps, ForkSecondKeeps, CloseEndsKeeps,
     WaitFirstKeeps, WaitSecondKeeps, IgnoreChildrenKeeps DEF Shell
<1>2. CASE UNCHANGED bashVars
  BY <1>2 DEF bashVars, BashInv, BashTypes, OwnEnds, Awaited, Owes, Forked
<1> QED BY <1>1, <1>2, ChildKeeps

LEMMA BashLeaves == BashInv => NothingLeft
BY DEF BashInv, OwnEnds, Awaited, Owes, NothingLeft, Ends_of

\* execute.c:141-165: at the prompt mybash holds no end of a pipe and has no child that
\* it was to wait for, whatever call failed before, unless the first fork() did, which
\* leaks the pipe.
THEOREM NothingIsLeft == BashSpec => []NothingLeft
<1>1. BashInv /\ [BashNext]_bashVars => BashInv'
  BY BashKept DEF BashNext, Program
<1>2. BashSpec => []BashInv
  BY <1>1, BashStarts, PTL DEF BashSpec
<1> QED BY <1>2, BashLeaves, PTL

-----------------------------------------------------------------------------
(* Pipes: the steps that a process has left.                               *)

\* A list, of whatever; its steps.
IsList(s) == \E S : s \in Seq(S)
Steps(s)  == {s[k] : k \in DOMAIN s}

\* Step a may come before step b in the list of a process: a call that is under way
\* comes first, fork() before the two close() of the parent, and so on.
Precedes(a, b) ==
  /\ b[1] \notin {"pipe_f1", "pipe_mem", "pipeclose", "pipewrite", "piperead", "close"}
  /\ b[1] = "fileclose" => a[1] \in {"fileclose", "pipeclose"}
  /\ b[1] = "exit_close" => a[1] = "pipeclose"
  /\ a[1] = "exit_close" => b[1] = "zombie"
  /\ a[1] = b[1] /\ a[1] \in {"fileclose", "fork", "close_up", "close_p"} => a[2] # b[2]
  /\ b[1] = "pipe" => a[1] \in {"close", "dup_p", "close_up", "pipeclose"}
  /\ b[1] = "dup_p" => a[1] \in {"close", "pipeclose"}
  /\ b[1] = "close_up" => a[1] \in {"close", "dup_p", "close_up", "pipeclose"}
  /\ a[1] = "close_p" => b[1] # "fork"

\* The list s is in order, and its steps are the set A.
InOrder(s) == \A k, l \in DOMAIN s : k < l => Precedes(s[k], s[l])
Plan(s, A) == IsList(s) /\ InOrder(s) /\ Steps(s) = A

LEMMA ListFacts ==
  ASSUME NEW s, IsList(s)
  PROVE  DOMAIN s = 1..Len(s) /\ Len(s) \in Nat
BY DEF IsList

LEMMA PlanConcat ==
  ASSUME NEW s, NEW t, NEW A, NEW B, Plan(s, A), Plan(t, B),
         \A a \in A : \A b \in B : Precedes(a, b)
  PROVE  Plan(s \o t, A \union B)
<1>1. PICK S : s \in Seq(S)
  BY DEF Plan, IsList
<1>2. PICK T : t \in Seq(T)
  BY DEF Plan, IsList
<1> DEFINE U == S \union T
           c == s \o t
<1>3. s \in Seq(U) /\ t \in Seq(U)
  BY <1>1, <1>2
<1>4. c \in Seq(U) /\ Len(c) = Len(s) + Len(t)
      /\ \A k \in 1..Len(c) : c[k] = IF k <= Len(s) THEN s[k] ELSE t[k - Len(s)]
  BY <1>3, ConcatProperties
<1>5. DOMAIN s = 1..Len(s) /\ DOMAIN t = 1..Len(t) /\ DOMAIN c = 1..Len(c)
      /\ Len(s) \in Nat /\ Len(t) \in Nat
  BY <1>3, <1>4
<1> HIDE DEF c
<1>6. ASSUME NEW k \in 1..Len(s) PROVE k \in 1..Len(c) /\ c[k] = s[k]
  BY <1>4, <1>5
<1>7. ASSUME NEW k \in 1..Len(t) PROVE k + Len(s) \in 1..Len(c) /\ c[k + Len(s)] = t[k]
  <2>1. k + Len(s) \in 1..Len(c) /\ ~(k + Len(s) <= Len(s)) /\ (k + Len(s)) - Len(s) = k
    BY <1>4, <1>5
  <2> QED BY <2>1, <1>4
<1>8. ASSUME NEW k \in 1..Len(c), ~(k <= Len(s))
      PROVE  k - Len(s) \in 1..Len(t) /\ c[k] = t[k - Len(s)]
  BY <1>8, <1>4, <1>5
<1>9. ASSUME NEW b PROVE b \in Steps(c) <=> b \in A \union B
  <2>1. ASSUME b \in Steps(c) PROVE b \in A \union B
    <3>1. PICK k \in 1..Len(c) : b = c[k]
      BY <2>1, <1>5 DEF Steps
    <3>2. CASE k <= Len(s)
      BY <3>1, <3>2, <1>4, <1>5 DEF Steps, Plan
    <3>3. CASE ~(k <= Len(s))
      BY <1>8, <3>3, <3>1, <1>5 DEF Steps, Plan
    <3> QED BY <3>2, <3>3
  <2>2. ASSUME b \in A PROVE b \in Steps(c)
    <3>1. PICK k \in 1..Len(s) : b = s[k]
      BY <2>2, <1>5 DEF Steps, Plan
    <3> QED BY <3>1, <1>6, <1>5 DEF Steps
  <2>3. ASSUME b \in B PROVE b \in Steps(c)
    <3>1. PICK k \in 1..Len(t) : b = t[k]
      BY <2>3, <1>5 DEF Steps, Plan
    <3> QED BY <3>1, <1>7, <1>5 DEF Steps
  <2> QED BY <2>1, <2>2, <2>3
<1>10. InOrder(c)
  <2> SUFFICES ASSUME NEW k \in 1..Len(c), NEW l \in 1..Len(c), k < l
               PROVE  Precedes(c[k], c[l])
    BY <1>5 DEF InOrder
  <2>1. CASE l <= Len(s)
    <3>1. k \in DOMAIN s /\ l \in DOMAIN s /\ c[k] = s[k] /\ c[l] = s[l]
      BY <2>1, <1>4, <1>5
    <3> QED BY <3>1 DEF InOrder, Plan
  <2>2. CASE ~(k <= Len(s))
    <3>1. ~(l <= Len(s)) /\ k - Len(s) < l - Len(s)
      BY <2>2, <1>4, <1>5
    <3>2. k - Len(s) \in DOMAIN t /\ l - Len(s) \in DOMAIN t
          /\ c[k] = t[k - Len(s)] /\ c[l] = t[l - Len(s)]
      BY <2>2, <3>1, <1>8, <1>5
    <3> QED BY <3>1, <3>2 DEF InOrder, Plan
  <2>3. CASE k <= Len(s) /\ ~(l <= Len(s))
    <3>1. k \in DOMAIN s /\ c[k] = s[k]
      BY <2>3, <1>4, <1>5
    <3>2. l - Len(s) \in DOMAIN t /\ c[l] = t[l - Len(s)]
      BY <2>3, <1>8, <1>5
    <3>3. c[k] \in A /\ c[l] \in B
      BY <3>1, <3>2 DEF Steps, Plan
    <3> QED BY <3>3
  <2> QED BY <2>1, <2>2, <2>3
<1>11. IsList(c)
  BY <1>4 DEF IsList
<1>12. Steps(c) = A \union B
  BY <1>9
<1> QED BY <1>10, <1>11, <1>12 DEF c, Plan

LEMMA PlanTail ==
  ASSUME NEW s, NEW A, Plan(s, A), s # <<>>
  PROVE  \E T : /\ Plan(Tail(s), T) /\ A = {Head(s)} \union T
                /\ \A b \in T : Precedes(Head(s), b)
<1> DEFINE t == Tail(s)
           h == Head(s)
           T == Steps(t)
<1>1. PICK S : s \in Seq(S)
  BY DEF Plan, IsList
<1>2. t \in Seq(S) /\ Len(t) = Len(s) - 1 /\ Len(s) \in Nat \ {0} /\ h = s[1]
  BY <1>1, HeadTailProperties
<1>3. \A k \in 1..Len(t) : t[k] = s[k + 1]
  BY <1>1, HeadTailProperties
<1>4. DOMAIN s = 1..Len(s) /\ DOMAIN t = 1..Len(t)
  BY <1>1, <1>2
<1> HIDE DEF t, h
<1>5. ASSUME NEW b PROVE b \in A <=> b \in {h} \union T
  <2>1. ASSUME b \in A PROVE b \in {h} \union T
    <3>1. PICK k \in 1..Len(s) : b = s[k]
      BY <2>1, <1>4 DEF Steps, Plan
    <3>2. CASE k = 1
      BY <3>1, <3>2, <1>2
    <3>3. CASE k # 1
      <4>1. k - 1 \in 1..Len(t) /\ t[k - 1] = s[k]
        BY <3>3, <1>2, <1>3
      <4> QED BY <4>1, <3>1, <1>4 DEF Steps
    <3> QED BY <3>2, <3>3
  <2>2. h \in A
    BY <1>2, <1>4 DEF Steps, Plan
  <2>3. ASSUME b \in T PROVE b \in A
    <3>1. PICK k \in 1..Len(t) : b = t[k]
      BY <2>3, <1>4 DEF Steps
    <3>2. k + 1 \in 1..Len(s) /\ b = s[k + 1]
      BY <3>1, <1>2, <1>3
    <3> QED BY <3>2, <1>4 DEF Steps, Plan
  <2> QED BY <2>1, <2>2, <2>3
<1>6. InOrder(t)
  <2> SUFFICES ASSUME NEW k \in 1..Len(t), NEW l \in 1..Len(t), k < l
               PROVE  Precedes(t[k], t[l])
    BY <1>4 DEF InOrder
  <2>1. k + 1 \in DOMAIN s /\ l + 1 \in DOMAIN s /\ k + 1 < l + 1
        /\ t[k] = s[k + 1] /\ t[l] = s[l + 1]
    BY <1>2, <1>3, <1>4
  <2> QED BY <2>1 DEF InOrder, Plan
<1>7. ASSUME NEW b \in T PROVE Precedes(h, b)
  <2>1. PICK k \in 1..Len(t) : b = t[k]
    BY <1>4 DEF Steps
  <2>2. 1 \in DOMAIN s /\ k + 1 \in DOMAIN s /\ 1 < k + 1 /\ b = s[k + 1] /\ h = s[1]
    BY <2>1, <1>2, <1>3, <1>4
  <2> QED BY <2>2 DEF InOrder, Plan
<1>8. Plan(t, T)
  BY <1>2, <1>6 DEF Plan, IsList
<1>9. A = {h} \union T
  BY <1>5
<1> QED BY <1>7, <1>8, <1>9 DEF t, h

LEMMA PlanNone == Plan(<<>>, {})
<1>1. <<>> \in Seq({})
  OBVIOUS
<1> QED BY <1>1 DEF Plan, IsList, InOrder, Steps

LEMMA PlanOne == ASSUME NEW a PROVE Plan(<<a>>, {a})
<1> DEFINE s == <<a>>
<1>1. s \in Seq({a}) /\ DOMAIN s = {1} /\ s[1] = a
  OBVIOUS
<1> HIDE DEF s
<1>2. IsList(s)
  BY <1>1 DEF IsList
<1>3. Steps(s) = {a} /\ InOrder(s)
  BY <1>1 DEF Steps, InOrder
<1> QED BY <1>2, <1>3 DEF Plan, s

LEMMA PlanTwo == ASSUME NEW a, NEW b, Precedes(a, b) PROVE Plan(<<a, b>>, {a, b})
<1> DEFINE s == <<a, b>>
<1>1. s \in Seq({a, b}) /\ DOMAIN s = {1, 2} /\ s[1] = a /\ s[2] = b
  OBVIOUS
<1> HIDE DEF s
<1>2. IsList(s)
  BY <1>1 DEF IsList
<1>3. Steps(s) = {a, b}
  BY <1>1 DEF Steps
<1>4. InOrder(s)
  BY <1>1 DEF InOrder
<1> QED BY <1>2, <1>3, <1>4 DEF Plan, s

LEMMA PlanThree ==
  ASSUME NEW a, NEW b, NEW c, Precedes(a, b), Precedes(a, c), Precedes(b, c)
  PROVE  Plan(<<a, b, c>>, {a, b, c})
<1> DEFINE s == <<a, b, c>>
<1>1. s \in Seq({a, b, c}) /\ DOMAIN s = {1, 2, 3} /\ s[1] = a /\ s[2] = b /\ s[3] = c
  OBVIOUS
<1> HIDE DEF s
<1>2. IsList(s)
  BY <1>1 DEF IsList
<1>3. Steps(s) = {a, b, c}
  BY <1>1 DEF Steps
<1>4. InOrder(s)
  BY <1>1 DEF InOrder
<1> QED BY <1>2, <1>3, <1>4 DEF Plan, s

-----------------------------------------------------------------------------
(* The invariant.                                                          *)

Has(K, op)     == \E a \in K : a[1] = op
HasAt(K, op, x) == \E a \in K : a[1] = op /\ a[2] = x
Allocs(K)      == Has(K, "pipe") \/ Has(K, "pipe_f1") \/ Has(K, "pipe_mem")

\* What process p has still to do, and whether that refers to file f, or is to shut
\* an end of a pipe.
Left(p)       == Steps(todo[p])
Cites(K, f)   == \E a \in K : Refers(a, f)
Shutting(K, g, w) == \E a \in K : Shuts(a, g, w)

Lists == DOMAIN todo = Processes /\ \A p \in Processes : IsList(todo[p]) /\ InOrder(todo[p])

\* The steps of process p go together.
Linked(p, K) ==
  /\ \A a \in K : a[1] = "fork" => a[2] \in Processes /\ p % 2 = 1 /\ a[2] \in {p + 1, p + 2}
  /\ \A a \in K : a[1] \in {"dup_p", "close_up", "close_p"} => a[2] \in {1, 2}
  /\ \A a \in K : a[1] = "close" => a[2] = IF p % 2 = 0 THEN 1 ELSE 0
  /\ Has(K, "fork") => HasAt(K, "close_p", 1) /\ HasAt(K, "close_p", 2)
  /\ Has(K, "dup_p") => HasAt(K, "close_up", 1) /\ HasAt(K, "close_up", 2)
  /\ Has(K, "close") => Has(K, "dup_p")
  /\ Has(K, "close_up") /\ Has(K, "close_p") => Has(K, "pipe")
  /\ Allocs(K) => p % 2 = 1

\* Its descriptors o and its p[], d, are as these steps need.
Ready(K, o, d) ==
  /\ \A a \in K : a[1] = "close" => o[a[2]] # 0
  /\ Has(K, "exit_close") => \E fd \in Fds : o[fd] # 0
  /\ \A a \in K : a[1] = "close_up" \/ (a[1] = "close_p" /\ ~Allocs(K)) =>
       d[a[2]] \in Fds \ {0, 1} /\ o[d[a[2]]] # 0
  /\ Has(K, "close_up") \/ (Has(K, "close_p") /\ ~Allocs(K)) => d[1] # d[2]
  /\ Has(K, "dup_p") /\ ~Has(K, "close") => \E fd \in Fds : o[fd] = 0
  /\ Allocs(K) \/ Has(K, "fork") =>
       o[1] # 0 /\ (o[0] # 0 \/ (Has(K, "dup_p") /\ ~Has(K, "close")))

File == [ref : Nat, type : {"none", "device", "pipe"}, pipe : Pages \union {0}, writable : BOOLEAN]

IsPipe(b) ==
  /\ b = [used |-> b.used, data |-> b.data, nread |-> b.nread, nwrite |-> b.nwrite,
          readopen |-> b.readopen, writeopen |-> b.writeopen]
  /\ b.used \in BOOLEAN /\ b.readopen \in BOOLEAN /\ b.writeopen \in BOOLEAN

PipesTypes ==
  /\ \E l \in Pipelines : pline = l.cmds
  /\ ftable \in [1..NFILE -> File]
  /\ DOMAIN pipes = Pages /\ \A g \in Pages : IsPipe(pipes[g])
  /\ ofile \in [Processes -> [Fds -> 0..NFILE]]
  /\ pfd \in [Processes -> Fds \X Fds]
  /\ pstate \in [Processes -> {"unused", "run", "zombie", "reaped"}]
  /\ Lists

Plans == \A p \in Processes : Linked(p, Left(p)) /\ Ready(Left(p), ofile[p], pfd[p])

\* A process that has not been forked has nothing, nor have those it is to fork.
Unforked ==
  /\ \A q \in Processes : pstate[q] = "unused" => Left(q) = {} /\ \A fd \in Fds : ofile[q][fd] = 0
  /\ \A p \in Processes : \A a \in Left(p) : a[1] = "fork" => pstate[a[2]] = "unused"
  /\ \A q \in Processes \ {1} : pstate[Parent_of(q)] = "unused" => pstate[q] = "unused"

\* The references to file f: descriptors, and the calls under way.
References(f) ==
  {h \in Processes \X (0..NOFILE) :
     IF h[2] = NOFILE THEN Cites(Left(h[1]), f) ELSE ofile[h[1]][h[2]] = f}

FilesExact == \A f \in 1..NFILE : ftable[f].ref = Cardinality(References(f))

\* The files that filealloc() gave to sys_pipe() are its alone.
Reserved(p, f) == f \in 1..NFILE /\ References(f) = {<<p, NOFILE>>} /\ ftable[f].type = "none"
Calls ==
  \A p \in Processes : \A a \in Left(p) :
    /\ a[1] = "fileclose" => a[2] \in 1..NFILE
    /\ a[1] \in {"pipe_f1", "pipe_mem"} => Reserved(p, a[2])
    /\ a[1] = "pipe_mem" => Reserved(p, a[3]) /\ a[2] # a[3]

\* The files, or the calls that close the last one, that keep an end of a pipe open.
IsEnd(f, g, w) == ftable[f].type = "pipe" /\ ftable[f].pipe = g /\ ftable[f].writable = w
Opened(g, w) == IF w THEN pipes[g].writeopen ELSE pipes[g].readopen
Ends ==
  /\ \A f \in 1..NFILE : ftable[f].type = "pipe" => ftable[f].pipe \in Pages
  /\ \A f \in 1..NFILE : ftable[f].ref = 0 => ftable[f].type = "none"
  /\ \A p \in Processes : \A a \in Left(p) : a[1] = "pipeclose" => a[2] \in Pages /\ a[3] \in BOOLEAN
  /\ \A g \in Pages, w \in BOOLEAN :
       Opened(g, w) <=> \/ \E f \in 1..NFILE : IsEnd(f, g, w)
                        \/ \E p \in Processes : Shutting(Left(p), g, w)
  /\ \A g \in Pages : pipes[g].used <=> pipes[g].readopen \/ pipes[g].writeopen
  /\ \A g \in Pages, w \in BOOLEAN :
       /\ \A e, f \in 1..NFILE : IsEnd(e, g, w) /\ IsEnd(f, g, w) => e = f
       /\ \A p, q \in Processes : Shutting(Left(p), g, w) /\ Shutting(Left(q), g, w) => p = q
       /\ \A f \in 1..NFILE, p \in Processes : ~(IsEnd(f, g, w) /\ Shutting(Left(p), g, w))

PipesInv == PipesTypes /\ Plans /\ Unforked /\ FilesExact /\ Calls /\ Ends

-----------------------------------------------------------------------------
(* One process moves.                                                      *)

\* The steps of process p are now K, the other lists stand.
Moves(p, K) == /\ Lists' /\ Left(p)' = K
               /\ \A r \in Processes \ {p} : Left(r)' = Left(r)

\* Step h is first, the steps of T come after it.
First(p, h, T) == /\ p \in Processes /\ Left(p) = {h} \union T
                  /\ \A b \in T : Precedes(h, b)

\* What may come after h may come after the steps of A.
Follow(h, A) == \A a \in A : \A b : Precedes(h, b) => Precedes(a, b)

LEMMA TurnMoves ==
  ASSUME Lists, NEW p \in Processes, todo[p] # <<>>
  PROVE  \E T : /\ First(p, Head(todo[p]), T)
                /\ \A ops, A : Plan(ops, A) /\ Follow(Head(todo[p]), A) /\ Next_ops(p, ops)
                     => Moves(p, A \union T)
<1> DEFINE s == todo[p]
<1>1. Plan(s, Left(p))
  BY DEF Lists, Plan, Left
<1>2. PICK T : /\ Plan(Tail(s), T) /\ Left(p) = {Head(s)} \union T
               /\ \A b \in T : Precedes(Head(s), b)
  <2> HIDE DEF s
  <2>1. s # <<>>
    BY DEF s
  <2> QED BY <2>1, <1>1, PlanTail
<1>3. ASSUME NEW ops, NEW A, Plan(ops, A), Follow(Head(s), A), Next_ops(p, ops)
      PROVE  Moves(p, A \union T)
  <2>1. \A a \in A : \A b \in T : Precedes(a, b)
    BY <1>2, <1>3 DEF Follow
  <2>2. Plan(ops \o Tail(s), A \union T)
    <3> HIDE DEF s
    <3> QED BY <2>1, <1>2, <1>3, PlanConcat
  <2>3. todo' = [todo EXCEPT ![p] = ops \o Tail(s)]
    BY <1>3 DEF Next_ops
  <2>4. DOMAIN todo' = Processes /\ todo'[p] = ops \o Tail(s)
        /\ \A r \in Processes \ {p} : todo'[r] = todo[r]
    BY <2>3 DEF Lists
  <2>5. Lists'
    BY <2>4, <2>2 DEF Lists, Plan
  <2>6. Left(p)' = A \union T
    BY <2>4, <2>2 DEF Left, Plan
  <2>7. \A r \in Processes \ {p} : Left(r)' = Left(r)
    BY <2>4 DEF Left
  <2> QED BY <2>5, <2>6, <2>7 DEF Moves
<1> QED BY <1>2, <1>3 DEF First

LEMMA RestartMoves ==
  ASSUME Lists, NEW p \in Processes, NEW ops, NEW A, Plan(ops, A),
         todo' = [todo EXCEPT ![p] = ops]
  PROVE  Moves(p, A)
<1>1. DOMAIN todo' = Processes /\ todo'[p] = ops
      /\ \A r \in Processes \ {p} : todo'[r] = todo[r]
  BY DEF Lists
<1>2. Lists'
  BY <1>1 DEF Lists, Plan
<1>3. Left(p)' = A
  BY <1>1 DEF Left, Plan
<1>4. \A r \in Processes \ {p} : Left(r)' = Left(r)
  BY <1>1 DEF Left
<1> QED BY <1>2, <1>3, <1>4 DEF Moves

\* The other descriptors stand.
Frame(p) ==
  /\ pline' = pline
  /\ ofile' \in [Processes -> [Fds -> 0..NFILE]] /\ pfd' \in [Processes -> Fds \X Fds]
  /\ \A r \in Processes \ {p} : ofile'[r] = ofile[r] /\ pfd'[r] = pfd[r]

LEMMA PlansKept ==
  ASSUME Plans, NEW p \in Processes, NEW K, Moves(p, K), Frame(p),
         Linked(p, K), Ready(K, ofile'[p], pfd'[p])
  PROVE  Plans'
<1> SUFFICES ASSUME NEW r \in Processes
             PROVE  Linked(r, Left(r)') /\ Ready(Left(r)', ofile'[r], pfd'[r])
  BY DEF Plans, Linked, Ready, Has, HasAt, Allocs
<1>1. CASE r = p
  BY <1>1 DEF Moves
<1>2. CASE r # p
  <2>1. Left(r)' = Left(r) /\ ofile'[r] = ofile[r] /\ pfd'[r] = pfd[r]
    BY <1>2 DEF Moves, Frame
  <2>2. Linked(r, Left(r)) /\ Ready(Left(r), ofile[r], pfd[r])
    BY DEF Plans
  <2> QED BY <2>1, <2>2
<1> QED BY <1>1, <1>2

\* No process is forked.
NoneForked == \A q \in Processes : pstate'[q] = "unused" <=> pstate[q] = "unused"

LEMMA UnforkedKept ==
  ASSUME Unforked, NEW p \in Processes, pstate[p] = "run", NEW K, Moves(p, K), Frame(p),
         NoneForked, \A q \in Processes \ {1} : Parent_of(q) \in Processes,
         \A a \in K : a[1] = "fork" => a \in Left(p) /\ a[2] \in Processes,
         \A r \in Processes : \A a \in Left(r) : a[1] = "fork" => a[2] \in Processes
  PROVE  Unforked'
<1>1. ASSUME NEW q \in Processes, pstate'[q] = "unused"
      PROVE  Left(q)' = {} /\ \A fd \in Fds : ofile'[q][fd] = 0
  <2>1. pstate[q] = "unused" /\ q # p
    BY <1>1 DEF NoneForked
  <2>2. Left(q)' = Left(q) /\ ofile'[q] = ofile[q]
    BY <2>1 DEF Moves, Frame
  <2> QED BY <2>1, <2>2 DEF Unforked
<1>2. ASSUME NEW r \in Processes, NEW a \in Left(r)', a[1] = "fork" PROVE pstate'[a[2]] = "unused"
  <2>1. a \in Left(r)
    BY <1>2 DEF Moves
  <2>2. pstate[a[2]] = "unused" /\ a[2] \in Processes
    BY <2>1, <1>2 DEF Unforked
  <2> QED BY <2>2 DEF NoneForked
<1>3. ASSUME NEW q \in Processes \ {1}, pstate'[Parent_of(q)] = "unused" PROVE pstate'[q] = "unused"
  <2>1. pstate[Parent_of(q)] = "unused"
    BY <1>3 DEF NoneForked
  <2>2. pstate[q] = "unused"
    BY <2>1 DEF Unforked
  <2> QED BY <2>2 DEF NoneForked
<1> QED BY <1>1, <1>2, <1>3 DEF Unforked, Parent_of

-----------------------------------------------------------------------------
(* Processes, descriptors and the references to a file.                    *)

Longest == Cardinality(UNION {DOMAIN l.cmds : l \in Pipelines})

LEMMA ProcessesInterval == Longest \in Nat /\ Processes = 1..(2 * Longest - 1)
BY PipelinesAssumption, FS_CardinalityType DEF Longest, Processes

LEMMA LineFits ==
  ASSUME NEW l \in Pipelines
  PROVE  /\ l.cmds \in Seq({"echo", "cat", "head"}) /\ Len(l.cmds) \in 1..Longest
         /\ l.open \in 3..NOFILE /\ l.faults \in Nat
<1> DEFINE U == UNION {DOMAIN k.cmds : k \in Pipelines}
           s == l.cmds
<1>1. /\ s \in Seq({"echo", "cat", "head"}) \ {<<>>}
      /\ l.open \in 3..NOFILE /\ l.faults \in Nat
  BY PipelinesAssumption
<1>2. DOMAIN s \subseteq U
  OBVIOUS
<1> HIDE DEF s
<1>3. DOMAIN s = 1..Len(s) /\ Len(s) \in Nat /\ Len(s) # 0
  BY <1>1
<1>4. IsFiniteSet(U)
  BY PipelinesAssumption
<1>5. Longest = Cardinality(U)
  BY DEF Longest
<1> HIDE DEF U
<1>6. Cardinality(1..Len(s)) = Len(s)
  <2>1. Cardinality(1..Len(s)) = IF 1 > Len(s) THEN 0 ELSE Len(s) - 1 + 1
    BY <1>3, FS_Interval
  <2> QED BY <2>1, <1>3
<1>7. Cardinality(1..Len(s)) <= Cardinality(U)
  BY <1>2, <1>3, <1>4, FS_Subset
<1>8. Len(s) \in 1..Longest
  BY <1>3, <1>5, <1>6, <1>7, ProcessesInterval
<1> QED BY <1>1, <1>8 DEF s

LEMMA HoldersFinite == \A f : IsFiniteSet(References(f)) /\ Cardinality(References(f)) \in Nat
<1> SUFFICES ASSUME NEW f PROVE IsFiniteSet(References(f)) /\ Cardinality(References(f)) \in Nat
  OBVIOUS
<1>1. IsFiniteSet(Processes)
  BY ProcessesInterval, FS_Interval
<1>2. IsFiniteSet(0..NOFILE)
  BY PipesAssumption, FS_Interval
<1>3. IsFiniteSet(Processes \X (0..NOFILE))
  BY <1>1, <1>2, FS_Product
<1>4. References(f) \subseteq Processes \X (0..NOFILE)
  BY DEF References
<1>5. IsFiniteSet(References(f))
  BY <1>3, <1>4, FS_Subset
<1> QED BY <1>5, FS_CardinalityType

LEMMA Least ==
  ASSUME NEW T, T \subseteq Nat, T # {}
  PROVE  \E m \in T : \A k \in T : m <= k
<1> DEFINE U == {0..n : n \in T}
<1>1. U \subseteq FiniteSubsetsOf(Nat)
  <2> SUFFICES ASSUME NEW n \in T PROVE 0..n \in FiniteSubsetsOf(Nat)
    OBVIOUS
  <2>1. n \in Int /\ 0 \in Int
    OBVIOUS
  <2>2. IsFiniteSet(0..n)
    BY <2>1, FS_Interval
  <2> QED BY <2>2 DEF FiniteSubsetsOf
<1>2. U # {}
  OBVIOUS
<1>3. \E x \in U : \A y \in U : ~ (<<y, x>> \in StrictSubsetOrdering(Nat))
  <2> HIDE DEF U
  <2> QED BY <1>1, <1>2, FS_StrictSubsetOrderingWellFounded, WFMin
<1>4. PICK m \in T : \A k \in T : ~ (<<0..k, 0..m>> \in StrictSubsetOrdering(Nat))
  BY <1>3
<1>5. ASSUME NEW k \in T, k < m PROVE FALSE
  <2>1. 0..k \subseteq 0..m /\ m \in 0..m /\ m \notin 0..k
    BY <1>5
  <2>2. 0..k # 0..m
    BY <2>1
  <2>3. 0..k \in SUBSET Nat /\ 0..m \in SUBSET Nat
    OBVIOUS
  <2> QED BY <1>4, <2>1, <2>2, <2>3 DEF StrictSubsetOrdering
<1> QED BY <1>5

LEMMA Lowest_is_least ==
  ASSUME NEW S \in SUBSET Nat, S # {}
  PROVE  Lowest(S) \in S /\ \A j \in S : Lowest(S) <= j
<1>1. \E k \in S : \A j \in S : k <= j
  BY Least
<1> QED BY <1>1 DEF Lowest

\* Whether process p refers to file f, by descriptor fd or by a call under way.
LEMMA HolderMember ==
  ASSUME NEW f
  PROVE  /\ References(f) \subseteq Processes \X (0..NOFILE)
         /\ \A r \in Processes, fd \in Fds : <<r, fd>> \in References(f) <=> ofile[r][fd] = f
         /\ \A r \in Processes : <<r, NOFILE>> \in References(f) <=> Cites(Left(r), f)
         /\ \A h \in Processes \X (0..NOFILE) :
              \E r \in Processes : \/ h = <<r, NOFILE>>
                                   \/ \E fd \in Fds : h = <<r, fd>>
<1>1. NOFILE \in 0..NOFILE /\ NOFILE \notin Fds /\ 0..NOFILE = Fds \union {NOFILE}
  BY PipesAssumption DEF Fds
<1>2. \A r \in Processes, fd \in Fds : <<r, fd>> \in References(f) <=> ofile[r][fd] = f
  BY <1>1 DEF References
<1>3. \A r \in Processes : <<r, NOFILE>> \in References(f) <=> Cites(Left(r), f)
  BY <1>1 DEF References
<1>4. ASSUME NEW h \in Processes \X (0..NOFILE)
      PROVE  \E r \in Processes : h = <<r, NOFILE>> \/ \E fd \in Fds : h = <<r, fd>>
  BY <1>1
<1>5. References(f) \subseteq Processes \X (0..NOFILE)
  BY DEF References
<1> QED BY <1>2, <1>3, <1>4, <1>5

LEMMA HolderMemberNext ==
  ASSUME NEW f
  PROVE  /\ References(f)' \subseteq Processes \X (0..NOFILE)
         /\ \A r \in Processes, fd \in Fds : <<r, fd>> \in References(f)' <=> ofile'[r][fd] = f
         /\ \A r \in Processes : <<r, NOFILE>> \in References(f)' <=> Cites(Left(r)', f)
<1>1. NOFILE \in 0..NOFILE /\ NOFILE \notin Fds /\ 0..NOFILE = Fds \union {NOFILE}
  BY PipesAssumption DEF Fds
<1>2. References(f)' = {h \in Processes \X (0..NOFILE) :
                       IF h[2] = NOFILE THEN Cites(Left(h[1])', f) ELSE ofile'[h[1]][h[2]] = f}
  BY DEF References, Cites
<1> QED BY <1>1, <1>2

-----------------------------------------------------------------------------
(* Steps that open and close nothing.                                      *)

LEMMA RestShuts ==
  ASSUME NEW p, NEW h, NEW T, First(p, h, T)
  PROVE  \A g, w : ~Shutting(T, g, w)
BY DEF First, Shutting, Shuts, Precedes

LEMMA RestCites ==
  ASSUME NEW p, NEW h, NEW T, First(p, h, T), h[1] \notin {"fileclose", "pipeclose"}
  PROVE  \A f : ~Cites(T, f)
BY DEF First, Cites, Refers, Precedes

InertOps == {"write", "read", "pipewrite", "piperead", "exit", "zombie", "wait"}
SameSteps(K, L) == \A a : a[1] \notin InertOps => (a \in K <=> a \in L)

LEMMA SameReady ==
  ASSUME NEW K, NEW L, SameSteps(K, L), NEW p, NEW o, NEW d, Linked(p, L), Ready(L, o, d)
  PROVE  Linked(p, K) /\ Ready(K, o, d)
<1>1. \A op : op \notin InertOps => Has(K, op) <=> Has(L, op)
  BY DEF Has, SameSteps
<1>2. \A op, x : op \notin InertOps => HasAt(K, op, x) <=> HasAt(L, op, x)
  BY DEF HasAt, SameSteps
<1>3. /\ Has(K, "fork") <=> Has(L, "fork")
      /\ Has(K, "dup_p") <=> Has(L, "dup_p")
      /\ Has(K, "close") <=> Has(L, "close")
      /\ Has(K, "close_up") <=> Has(L, "close_up")
      /\ Has(K, "close_p") <=> Has(L, "close_p")
      /\ Has(K, "pipe") <=> Has(L, "pipe")
      /\ Has(K, "exit_close") <=> Has(L, "exit_close")
      /\ Allocs(K) <=> Allocs(L)
      /\ \A x : HasAt(K, "close_p", x) <=> HasAt(L, "close_p", x)
      /\ \A x : HasAt(K, "close_up", x) <=> HasAt(L, "close_up", x)
  BY <1>1, <1>2 DEF InertOps, Allocs
<1>4. \A a \in K : a[1] \notin InertOps => a \in L
  BY DEF SameSteps
<1>5. Linked(p, K)
  <2>1. \A a \in K : a[1] = "fork" => a[2] \in Processes /\ p % 2 = 1 /\ a[2] \in {p + 1, p + 2}
    BY <1>4 DEF Linked, InertOps
  <2>2. \A a \in K : a[1] \in {"dup_p", "close_up", "close_p"} => a[2] \in {1, 2}
    BY <1>4 DEF Linked, InertOps
  <2>3. \A a \in K : a[1] = "close" => a[2] = IF p % 2 = 0 THEN 1 ELSE 0
    BY <1>4 DEF Linked, InertOps
  <2> QED BY <2>1, <2>2, <2>3, <1>3 DEF Linked
<1>6. Ready(K, o, d)
  <2>1. \A a \in K : a[1] = "close" => o[a[2]] # 0
    BY <1>4 DEF Ready, InertOps
  <2>2. \A a \in K : a[1] = "close_up" \/ (a[1] = "close_p" /\ ~Allocs(K)) =>
          d[a[2]] \in Fds \ {0, 1} /\ o[d[a[2]]] # 0
    BY <1>4, <1>3 DEF Ready, InertOps
  <2> QED BY <2>1, <2>2, <1>3 DEF Ready
<1> QED BY <1>5, <1>6

\* The steps K of process p refer to the same files and shut the same ends as it did.
AlikeSteps(p, K) ==
  /\ \A f : Cites(K, f) <=> Cites(Left(p), f)
  /\ \A g, w : Shutting(K, g, w) <=> Shutting(Left(p), g, w)
  /\ \A a \in K : a[1] \in {"fork", "pipe_f1", "pipe_mem", "pipeclose"} => a \in Left(p)
  /\ \A a \in K : a[1] = "fileclose" => a[2] \in 1..NFILE

LEMMA SameAlike ==
  ASSUME Calls, NEW p \in Processes, NEW K, SameSteps(K, Left(p))
  PROVE  AlikeSteps(p, K)
BY DEF SameSteps, InertOps, AlikeSteps, Cites, Refers, Shutting, Shuts, Calls

\* The pipes have the same ends.
PipesAlike ==
  /\ DOMAIN pipes' = Pages
  /\ \A g \in Pages : /\ IsPipe(pipes'[g]) /\ pipes'[g].used = pipes[g].used
                      /\ pipes'[g].readopen = pipes[g].readopen
                      /\ pipes'[g].writeopen = pipes[g].writeopen

LEMMA ParentExists == \A q \in Processes \ {1} : Parent_of(q) \in Processes
<1> SUFFICES ASSUME NEW q \in Processes \ {1} PROVE Parent_of(q) \in Processes
  OBVIOUS
<1>1. q \in Nat /\ q >= 2 /\ q <= 2 * Longest - 1 /\ Longest \in Nat
  BY ProcessesInterval
<1>2. q % 2 # 0 => q >= 3
  BY <1>1
<1>3. Parent_of(q) \in 1..(2 * Longest - 1)
  BY <1>1, <1>2 DEF Parent_of
<1> QED BY <1>3, ProcessesInterval

LEMMA HoldersSame ==
  ASSUME NEW p \in Processes, NEW K, Moves(p, K), ofile' = ofile, NEW f,
         Cites(K, f) <=> Cites(Left(p), f)
  PROVE  References(f)' = References(f)
<1>1. \A r \in Processes : Cites(Left(r)', f) <=> Cites(Left(r), f)
  BY DEF Moves
<1>2. ASSUME NEW h \in Processes \X (0..NOFILE) PROVE h \in References(f)' <=> h \in References(f)
  <2>1. PICK r \in Processes : h = <<r, NOFILE>> \/ \E fd \in Fds : h = <<r, fd>>
    BY HolderMember
  <2>2. CASE h = <<r, NOFILE>>
    BY <2>2, <1>1, HolderMember, HolderMemberNext
  <2>3. ASSUME NEW fd \in Fds, h = <<r, fd>> PROVE h \in References(f)' <=> h \in References(f)
    BY <2>3, HolderMember, HolderMemberNext
  <2> QED BY <2>1, <2>2, <2>3
<1> QED BY <1>2, HolderMember, HolderMemberNext

LEMMA QuietStep ==
  ASSUME PipesInv, NEW p \in Processes, pstate[p] = "run", NEW K, Moves(p, K), AlikeSteps(p, K),
         Linked(p, K), Ready(K, ofile[p], pfd[p]), PipesAlike, NoneForked,
         pstate' \in [Processes -> {"unused", "run", "zombie", "reaped"}],
         UNCHANGED <<pline, ftable, ofile, pfd>>
  PROVE  PipesInv'
<1>1. PipesTypes'
  BY DEF PipesInv, PipesTypes, PipesAlike, Moves, IsPipe, Lists
<1>2. Frame(p)
  BY DEF PipesInv, PipesTypes, Frame
<1>3. Plans'
  BY <1>2, PlansKept DEF PipesInv
<1>4. Unforked'
  <2>1. \A r \in Processes : \A a \in Left(r) : a[1] = "fork" => a[2] \in Processes
    BY DEF PipesInv, Plans, Linked
  <2>2. \A a \in K : a[1] = "fork" => a \in Left(p) /\ a[2] \in Processes
    BY DEF Linked, AlikeSteps
  <2> QED BY <1>2, <2>1, <2>2, ParentExists, UnforkedKept DEF PipesInv
<1>5. \A f : References(f)' = References(f)
  BY HoldersSame DEF AlikeSteps
<1>6. FilesExact'
  BY <1>5 DEF FilesExact, PipesInv
<1>7. Calls'
  <2>1. \A r \in Processes : \A f : Reserved(r, f)' <=> Reserved(r, f)
    BY <1>5 DEF Reserved
  <2>2. ASSUME NEW r \in Processes, NEW a \in Left(r)'
        PROVE  /\ a[1] = "fileclose" => a[2] \in 1..NFILE
               /\ a[1] \in {"pipe_f1", "pipe_mem"} => a \in Left(r)
    BY <2>2 DEF Moves, AlikeSteps, PipesInv, Calls
  <2> QED BY <2>1, <2>2 DEF Calls, PipesInv
<1>8. Ends'
  <2>1. \A r \in Processes : \A g, w : Shutting(Left(r), g, w)' <=> Shutting(Left(r), g, w)
    BY DEF Moves, AlikeSteps, Shutting
  <2>2. \A f, g, w : IsEnd(f, g, w)' <=> IsEnd(f, g, w)
    BY DEF IsEnd
  <2>3. \A g \in Pages, w \in BOOLEAN : Opened(g, w)' <=> Opened(g, w)
    BY DEF Opened, PipesAlike
  <2>4. \A r \in Processes : \A a \in Left(r)' : a[1] = "pipeclose" => a \in Left(r)
    BY DEF Moves, AlikeSteps
  <2>5. \A r \in Processes : \A a \in Left(r)' : a[1] = "pipeclose" => a[2] \in Pages /\ a[3] \in BOOLEAN
    BY <2>4 DEF PipesInv, Ends
  <2>6. \A g \in Pages : pipes'[g].used <=> pipes'[g].readopen \/ pipes'[g].writeopen
    BY DEF PipesInv, Ends, PipesAlike
  <2>7. /\ \A f \in 1..NFILE : ftable'[f].type = "pipe" => ftable'[f].pipe \in Pages
        /\ \A f \in 1..NFILE : ftable'[f].ref = 0 => ftable'[f].type = "none"
    BY DEF PipesInv, Ends
  <2>8. Ends
    BY DEF PipesInv
  <2> QED BY <2>1, <2>2, <2>3, <2>5, <2>6, <2>7, <2>8 DEF Ends
<1> QED BY <1>1, <1>3, <1>4, <1>6, <1>7, <1>8 DEF PipesInv

LEMMA InertStep ==
  ASSUME PipesInv, NEW p \in Processes, pstate[p] = "run", todo[p] # <<>>,
         Head(todo[p])[1] \in InertOps,
         NEW ops, NEW A, Plan(ops, A), \A a \in A : a[1] \in InertOps,
         Follow(Head(todo[p]), A), Next_ops(p, ops), PipesAlike, NoneForked,
         pstate' \in [Processes -> {"unused", "run", "zombie", "reaped"}],
         UNCHANGED <<pline, ftable, ofile, pfd>>
  PROVE  PipesInv'
<1> DEFINE h == Head(todo[p])
<1>1. PICK T : First(p, h, T) /\ Moves(p, A \union T)
  BY TurnMoves DEF PipesInv, PipesTypes
<1> DEFINE K == A \union T
<1>2. SameSteps(K, Left(p))
  <2> HIDE DEF h
  <2>1. Left(p) = {h} \union T /\ h[1] \in InertOps
    BY <1>1 DEF First, h
  <2> QED BY <2>1 DEF SameSteps
<1> HIDE DEF h, K
<1>3. AlikeSteps(p, K)
  BY <1>2, SameAlike DEF PipesInv
<1>4. Linked(p, K) /\ Ready(K, ofile[p], pfd[p])
  BY <1>2, SameReady DEF PipesInv, Plans
<1>5. Moves(p, K)
  BY <1>1 DEF K
<1> QED BY <1>3, <1>4, <1>5, QuietStep

\* Process p does what is left in ops and nothing else.
LEMMA RestartStep ==
  ASSUME PipesInv, NEW p \in Processes, pstate[p] = "run",
         NEW ops, NEW A, Plan(ops, A), todo' = [todo EXCEPT ![p] = ops],
         \A a \in A : a[1] \in InertOps \union {"fileclose", "exit_close"},
         Has(A, "exit_close") => \E fd \in Fds : ofile[p][fd] # 0,
         \A f : Cites(A, f) <=> Cites(Left(p), f),
         \A a \in A : a[1] = "fileclose" => a[2] \in 1..NFILE,
         \A g, w : ~Shutting(Left(p), g, w),
         PipesAlike, UNCHANGED <<pstate, pline, ftable, ofile, pfd>>
  PROVE  PipesInv'
<1>1. Moves(p, A)
  BY RestartMoves DEF PipesInv, PipesTypes
<1>2. \A a \in A : a[1] \in {"write", "read", "pipewrite", "piperead", "exit", "zombie", "wait",
                             "fileclose", "exit_close"}
  BY DEF InertOps
<1>3. AlikeSteps(p, A)
  BY <1>2 DEF AlikeSteps, Shutting, Shuts
<1>4. Linked(p, A)
  BY <1>2 DEF Linked, Has, Allocs
<1>5. Ready(A, ofile[p], pfd[p])
  BY <1>2 DEF Ready, Has, Allocs
<1>6. NoneForked /\ pstate' \in [Processes -> {"unused", "run", "zombie", "reaped"}]
  BY DEF PipesInv, PipesTypes, NoneForked
<1> QED BY <1>1, <1>3, <1>4, <1>5, <1>6, QuietStep

LEMMA ExitsStep ==
  ASSUME PipesInv, NEW p \in Processes, pstate[p] = "run", todo[p] # <<>>,
         Head(todo[p])[1] \notin {"fileclose", "pipeclose", "pipe_f1", "pipe_mem"},
         Exits(p), PipesAlike, UNCHANGED <<pstate, pline, ftable, ofile, pfd>>
  PROVE  PipesInv'
<1> DEFINE h == Head(todo[p])
           a == <<"exit">>
           A == {a}
<1>1. PICK T : First(p, h, T)
  BY TurnMoves DEF PipesInv, PipesTypes
<1>2. Left(p) = {h} \union T
  BY <1>1 DEF First
<1>3. \A f : ~Cites(Left(p), f)
  <2>1. \A f : ~Cites(T, f)
    BY <1>1, RestCites
  <2> QED BY <2>1, <1>2 DEF Cites, Refers
<1>4. \A g, w : ~Shutting(Left(p), g, w)
  <2>1. \A g, w : ~Shutting(T, g, w)
    BY <1>1, RestShuts
  <2> QED BY <2>1, <1>2 DEF Shutting, Shuts
<1>5. a[1] = "exit"
  OBVIOUS
<1>6. Plan(<<a>>, A) /\ todo' = [todo EXCEPT ![p] = <<a>>]
  BY PlanOne DEF Exits
<1> HIDE DEF h, a
<1>7. \A f : ~Cites(A, f)
  BY <1>5 DEF Cites, Refers
<1>8. \A b \in A : b[1] \in InertOps /\ b[1] # "fileclose"
  BY <1>5 DEF InertOps
<1>9. ~Has(A, "exit_close")
  BY <1>5 DEF Has
<1>10. \A b \in A : b[1] \in InertOps \union {"fileclose", "exit_close"}
  BY <1>8
<1>11. \A b \in A : b[1] = "fileclose" => b[2] \in 1..NFILE
  BY <1>8
<1>12. \A f : Cites(A, f) <=> Cites(Left(p), f)
  BY <1>3, <1>7
<1>13. Has(A, "exit_close") => \E fd \in Fds : ofile[p][fd] # 0
  BY <1>9
<1> HIDE DEF A
<1> QED BY <1>4, <1>6, <1>10, <1>11, <1>12, <1>13, RestartStep

LEMMA PipesStand == ASSUME PipesInv, UNCHANGED pipes PROVE PipesAlike
BY DEF PipesInv, PipesTypes, PipesAlike

LEMMA DieKeeps == ASSUME PipesInv, NEW p \in Processes, Die(p) PROVE PipesInv'
<1>1. pstate[p] = "run" /\ todo[p] # <<>>
      /\ Head(todo[p])[1] \notin {"fileclose", "pipeclose", "pipe_f1", "pipe_mem"}
  BY DEF Die, At_op
<1>2. Exits(p) /\ UNCHANGED <<pipes, pstate, pline, ftable, ofile, pfd>>
  BY DEF Die, kernelVars, userVars
<1> QED BY <1>1, <1>2, ExitsStep, PipesStand

LEMMA ZombieKeeps == ASSUME PipesInv, NEW p \in Processes, Zombie(p) PROVE PipesInv'
<1>1. pstate[p] = "run" /\ todo[p] # <<>> /\ Head(todo[p])[1] = "zombie"
  BY DEF Zombie, At_op
<1>2. Next_ops(p, <<>>) /\ UNCHANGED <<pipes, pline, ftable, ofile, pfd>>
  BY DEF Zombie, kernelVars, userVars
<1>3. pstate' = [pstate EXCEPT ![p] = "zombie"]
  BY DEF Zombie
<1>4. NoneForked /\ pstate' \in [Processes -> {"unused", "run", "zombie", "reaped"}]
  BY <1>1, <1>3 DEF PipesInv, PipesTypes, NoneForked
<1>5. Follow(Head(todo[p]), {})
  BY DEF Follow
<1>6. Head(todo[p])[1] \in InertOps
  BY <1>1 DEF InertOps
<1> QED BY <1>1, <1>2, <1>4, <1>5, <1>6, PlanNone, InertStep, PipesStand

LEMMA WaitKeeps == ASSUME PipesInv, NEW p \in Processes, Wait(p) PROVE PipesInv'
<1>1. pstate[p] = "run" /\ todo[p] # <<>> /\ Head(todo[p])[1] = "wait"
  BY DEF Wait, InProgram, At_op
<1>2. Next_ops(p, <<>>) /\ UNCHANGED <<pipes, pline, ftable, ofile, pfd>>
  BY DEF Wait, kernelVars, userVars
<1>3. PICK q \in Processes : pstate[q] = "zombie" /\ pstate' = [pstate EXCEPT ![q] = "reaped"]
  BY DEF Wait
<1>4. NoneForked /\ pstate' \in [Processes -> {"unused", "run", "zombie", "reaped"}]
  BY <1>1, <1>3 DEF PipesInv, PipesTypes, NoneForked
<1>5. Follow(Head(todo[p]), {})
  BY DEF Follow
<1>6. Head(todo[p])[1] \in InertOps
  BY <1>1 DEF InertOps
<1> QED BY <1>1, <1>2, <1>4, <1>5, <1>6, PlanNone, InertStep, PipesStand

LEMMA ConsoleWriteKeeps == ASSUME PipesInv, NEW p \in Processes, ConsoleWrite(p) PROVE PipesInv'
<1>1. pstate[p] = "run" /\ todo[p] # <<>> /\ Head(todo[p])[1] = "write"
  BY DEF ConsoleWrite, InProgram, At_op
<1>2. Next_ops(p, <<>>) /\ UNCHANGED <<pipes, pstate, pline, ftable, ofile, pfd>>
  BY DEF ConsoleWrite, kernelVars
<1>4. NoneForked /\ pstate' \in [Processes -> {"unused", "run", "zombie", "reaped"}]
  BY <1>2 DEF PipesInv, PipesTypes, NoneForked
<1>5. Follow(Head(todo[p]), {})
  BY DEF Follow
<1>6. Head(todo[p])[1] \in InertOps
  BY <1>1 DEF InertOps
<1> QED BY <1>1, <1>2, <1>4, <1>5, <1>6, PlanNone, InertStep, PipesStand

LEMMA KillKeeps == ASSUME PipesInv, NEW p \in Processes, Kill_process(p) PROVE PipesInv'
<1>1. pstate[p] = "run" /\ UNCHANGED <<todo, pipes, pstate, pline, ftable, ofile, pfd>>
  BY DEF Kill_process, kernelVars
<1>2. Lists' /\ \A r \in Processes : Left(r)' = Left(r)
  BY <1>1 DEF PipesInv, PipesTypes, Lists, Left
<1>3. Moves(p, Left(p))
  BY <1>2 DEF Moves
<1>4. SameSteps(Left(p), Left(p))
  BY DEF SameSteps
<1>5. NoneForked /\ pstate' \in [Processes -> {"unused", "run", "zombie", "reaped"}]
  BY <1>1 DEF PipesInv, PipesTypes, NoneForked
<1>6. Linked(p, Left(p)) /\ Ready(Left(p), ofile[p], pfd[p])
  BY DEF PipesInv, Plans
<1>7. AlikeSteps(p, Left(p))
  BY <1>4, SameAlike DEF PipesInv
<1> QED BY <1>1, <1>3, <1>5, <1>6, <1>7, QuietStep, PipesStand

LEMMA PipeWritten ==
  ASSUME NEW b, IsPipe(b), NEW x, NEW y
  PROVE  [b EXCEPT !.nwrite = x, !.data = y] =
           [used |-> b.used, data |-> y, nread |-> b.nread, nwrite |-> x,
            readopen |-> b.readopen, writeopen |-> b.writeopen]
<1>1. PICK b1, b2, b3, b4, b5, b6 :
        b = [used |-> b1, data |-> b2, nread |-> b3, nwrite |-> b4, readopen |-> b5,
             writeopen |-> b6]
  BY DEF IsPipe
<1> DEFINE c == [b EXCEPT !.nwrite = x]
<1>2. c = [used |-> b1, data |-> b2, nread |-> b3, nwrite |-> x, readopen |-> b5,
           writeopen |-> b6]
  BY <1>1
<1>3. [b EXCEPT !.nwrite = x, !.data = y] = [c EXCEPT !.data = y]
  BY <1>1
<1> HIDE DEF c
<1>4. [c EXCEPT !.data = y] =
        [used |-> b1, data |-> y, nread |-> b3, nwrite |-> x, readopen |-> b5,
         writeopen |-> b6]
  BY <1>2
<1> QED BY <1>1, <1>3, <1>4

LEMMA PipeRead ==
  ASSUME NEW b, IsPipe(b), NEW z
  PROVE  [b EXCEPT !.nread = z] =
           [used |-> b.used, data |-> b.data, nread |-> z, nwrite |-> b.nwrite,
            readopen |-> b.readopen, writeopen |-> b.writeopen]
<1>1. PICK b1, b2, b3, b4, b5, b6 :
        b = [used |-> b1, data |-> b2, nread |-> b3, nwrite |-> b4, readopen |-> b5,
             writeopen |-> b6]
  BY DEF IsPipe
<1> QED BY <1>1

LEMMA PipeAlike ==
  ASSUME PipesInv, NEW g, NEW c,
         g \in Pages => /\ IsPipe(c) /\ c.used = pipes[g].used
                        /\ c.readopen = pipes[g].readopen /\ c.writeopen = pipes[g].writeopen,
         pipes' = [pipes EXCEPT ![g] = c]
  PROVE  PipesAlike
BY DEF PipesInv, PipesTypes, PipesAlike

LEMMA PipewriteKeeps == ASSUME PipesInv, NEW p \in Processes, pipewrite(p) PROVE PipesInv'
<1> DEFINE pi == ftable[ofile[p][1]].pipe
           b  == pipes[pi]
           n  == Len(Arg(p))
           k  == IF n <= PIPESIZE - Length(pi) THEN n ELSE PIPESIZE - Length(pi)
           a  == <<"pipewrite", SubSeq(Arg(p), k + 1, n)>>
           nw == (b.nwrite + k) % UINT
           da == [j \in 0..PIPESIZE-1 |->
                    LET i == (j + UINT - b.nwrite) % PIPESIZE IN
                      IF i < k THEN Arg(p)[i + 1] ELSE b.data[j]]
<1>1. pstate[p] = "run" /\ todo[p] # <<>> /\ Head(todo[p])[1] \in {"write", "pipewrite"}
  BY DEF pipewrite, InProgram, At_op
<1>2. UNCHANGED <<pstate, pline, ftable, ofile, pfd>>
  BY DEF pipewrite, userVars
<1>3. NoneForked /\ pstate' \in [Processes -> {"unused", "run", "zombie", "reaped"}]
  BY <1>2 DEF PipesInv, PipesTypes, NoneForked
<1>4. Head(todo[p])[1] \in InertOps
      /\ Head(todo[p])[1] \notin {"fileclose", "pipeclose", "pipe_f1", "pipe_mem"}
  BY <1>1 DEF InertOps
<1>5. CASE ~b.readopen \/ p \in killed
  <2>1. Exits(p) /\ UNCHANGED pipes
    BY <1>5 DEF pipewrite
  <2> QED BY <1>1, <1>2, <1>4, <2>1, ExitsStep, PipesStand
<1>6. CASE ~(~b.readopen \/ p \in killed)
  <2>1. /\ pipes' = [pipes EXCEPT ![pi] = [b EXCEPT !.nwrite = nw, !.data = da]]
        /\ Next_ops(p, IF k = n THEN <<>> ELSE <<a>>)
    BY <1>6 DEF pipewrite
  <2>2. PipesAlike
    <3> HIDE DEF pi, nw, da
    <3> DEFINE c == [b EXCEPT !.nwrite = nw, !.data = da]
    <3>1. pi \in Pages => IsPipe(b)
      BY DEF PipesInv, PipesTypes
    <3>2. ASSUME pi \in Pages
          PROVE  IsPipe(c) /\ c.used = b.used /\ c.readopen = b.readopen
                 /\ c.writeopen = b.writeopen
      <4> HIDE DEF b
      <4>1. c = [used |-> b.used, data |-> da, nread |-> b.nread, nwrite |-> nw,
                 readopen |-> b.readopen, writeopen |-> b.writeopen]
        <5>1. IsPipe(b)
          BY <3>1, <3>2
        <5> QED BY <5>1, PipeWritten
      <4>2. b.used \in BOOLEAN /\ b.readopen \in BOOLEAN /\ b.writeopen \in BOOLEAN
        BY <3>1, <3>2 DEF IsPipe
      <4> HIDE DEF c
      <4> QED BY <4>1, <4>2 DEF IsPipe
    <3>3. pipes' = [pipes EXCEPT ![pi] = c]
      BY <2>1
    <3> HIDE DEF c
    <3> QED BY <3>2, <3>3, PipeAlike
  <2>3. a[1] = "pipewrite"
    OBVIOUS
  <2> HIDE DEF a, n, k, b, pi, nw, da
  <2>4. CASE k = n
    <3>1. Next_ops(p, <<>>) /\ Follow(Head(todo[p]), {})
      BY <2>1, <2>4 DEF Follow
    <3> QED BY <1>1, <1>2, <1>3, <1>4, <2>2, <3>1, PlanNone, InertStep
  <2>5. CASE k # n
    <3>1. Next_ops(p, <<a>>) /\ Plan(<<a>>, {a})
      BY <2>1, <2>5, PlanOne
    <3>2. Follow(Head(todo[p]), {a})
      BY <1>1, <2>3 DEF Follow, Precedes
    <3>3. \A c \in {a} : c[1] \in InertOps
      BY <2>3 DEF InertOps
    <3> QED BY <1>1, <1>2, <1>3, <1>4, <2>2, <3>1, <3>2, <3>3, InertStep
  <2> QED BY <2>4, <2>5
<1> QED BY <1>5, <1>6

LEMMA PipereadKeeps == ASSUME PipesInv, NEW p \in Processes, piperead(p) PROVE PipesInv'
<1> DEFINE pi == ftable[ofile[p][0]].pipe
           b  == pipes[pi]
           k  == IF Length(pi) < MaxRead THEN Length(pi) ELSE MaxRead
           bs == [i \in 1..k |-> b.data[(b.nread + i - 1) % PIPESIZE]]
           nr == (b.nread + k) % UINT
           w  == <<"write", bs>>
           r  == <<"read">>
           x  == <<"exit">>
           q  == <<"piperead">>
           h  == Head(todo[p])
<1>1. pstate[p] = "run" /\ todo[p] # <<>> /\ h[1] \in {"read", "piperead"}
  BY DEF piperead, InProgram, At_op
<1>2. UNCHANGED <<pstate, pline, ftable, ofile, pfd>>
  BY DEF piperead
<1>3. NoneForked /\ pstate' \in [Processes -> {"unused", "run", "zombie", "reaped"}]
  BY <1>2 DEF PipesInv, PipesTypes, NoneForked
<1>4. h[1] \in InertOps /\ h[1] \notin {"fileclose", "pipeclose", "pipe_f1", "pipe_mem"}
  BY <1>1 DEF InertOps
<1>5. w[1] = "write" /\ r[1] = "read" /\ x[1] = "exit" /\ q[1] = "piperead"
  OBVIOUS
<1>6. CASE MustWait(pi)
  <2>1. UNCHANGED pipes /\ (Exits(p) \/ Next_ops(p, <<q>>))
    BY <1>6 DEF piperead
  <2>2. CASE Exits(p)
    BY <1>1, <1>2, <1>4, <2>1, <2>2, ExitsStep, PipesStand
  <2>3. CASE Next_ops(p, <<q>>)
    <3> HIDE DEF q, h
    <3>1. Plan(<<q>>, {q})
      BY PlanOne
    <3>2. Follow(h, {q})
      BY <1>1, <1>5 DEF Follow, Precedes
    <3>3. \A c \in {q} : c[1] \in InertOps
      BY <1>5 DEF InertOps
    <3> QED BY <1>1, <1>2, <1>3, <1>4, <2>1, <2>3, <3>1, <3>2, <3>3, InertStep, PipesStand DEF h
  <2> QED BY <2>1, <2>2, <2>3
<1>7. CASE ~MustWait(pi)
  <2>1. /\ pipes' = [pipes EXCEPT ![pi].nread = nr]
        /\ Next_ops(p, IF k = 0 THEN <<x>> ELSE IF Cmd(p) = "head" THEN <<w, x>> ELSE <<w, r>>)
    BY <1>7 DEF piperead
  <2>2. PipesAlike
    <3> HIDE DEF pi, nr
    <3> DEFINE c == [b EXCEPT !.nread = nr]
    <3>1. pi \in Pages => IsPipe(b)
      BY DEF PipesInv, PipesTypes
    <3>2. pi \in Pages => IsPipe(c) /\ c.used = b.used /\ c.readopen = b.readopen
                          /\ c.writeopen = b.writeopen
      <4> HIDE DEF b
      <4> QED BY <3>1, PipeRead DEF IsPipe
    <3>3. pipes' = [pipes EXCEPT ![pi] = c]
      BY <2>1
    <3> HIDE DEF c
    <3> QED BY <3>2, <3>3, PipeAlike
  <2> HIDE DEF w, r, x, q, h, k, b, pi, nr, bs
  <2>3. \E ops : Next_ops(p, ops) /\ \E A \in {{x}, {w, x}, {w, r}} : Plan(ops, A)
    <3>1. Plan(<<x>>, {x}) /\ Plan(<<w, x>>, {w, x}) /\ Plan(<<w, r>>, {w, r})
      <4>1. Precedes(w, x) /\ Precedes(w, r)
        BY <1>5 DEF Precedes
      <4> QED BY <4>1, PlanOne, PlanTwo
    <3>2. Next_ops(p, <<x>>) \/ Next_ops(p, <<w, x>>) \/ Next_ops(p, <<w, r>>)
      BY <2>1
    <3> QED BY <3>1, <3>2
  <2>4. PICK ops : Next_ops(p, ops) /\ \E A \in {{x}, {w, x}, {w, r}} : Plan(ops, A)
    BY <2>3
  <2>5. PICK A \in {{x}, {w, x}, {w, r}} : Plan(ops, A)
    BY <2>4
  <2>6. Follow(h, A)
    BY <1>1, <1>5 DEF Follow, Precedes
  <2>7. \A a \in A : a[1] \in InertOps
    BY <1>5 DEF InertOps
  <2> QED BY <1>1, <1>2, <1>3, <1>4, <2>2, <2>4, <2>5, <2>6, <2>7, InertStep DEF h
<1> QED BY <1>6, <1>7

LEMMA ExitKeeps == ASSUME PipesInv, NEW p \in Processes, Exit(p) PROVE PipesInv'
<1> DEFINE h == Head(todo[p])
           e == <<"exit_close">>
           z == <<"zombie">>
           ops == (IF Open(p) = {} THEN <<>> ELSE <<e>>) \o <<z>>
           A == (IF Open(p) = {} THEN {} ELSE {e}) \union {z}
<1>1. pstate[p] = "run" /\ todo[p] # <<>> /\ h[1] = "exit"
  BY DEF Exit, At_op
<1>2. UNCHANGED <<pipes, pstate, pline, ftable, ofile, pfd>> /\ todo' = [todo EXCEPT ![p] = ops]
  BY DEF Exit, kernelVars, userVars
<1>3. e[1] = "exit_close" /\ z[1] = "zombie"
  OBVIOUS
<1> HIDE DEF e, z
<1>4. Plan(ops, A)
  <2>1. Plan(<<e>>, {e}) /\ Plan(<<z>>, {z}) /\ Precedes(e, z)
    BY <1>3, PlanOne DEF Precedes
  <2> DEFINE s == IF Open(p) = {} THEN <<>> ELSE <<e>>
             S == IF Open(p) = {} THEN {} ELSE {e}
  <2>2. Plan(s, S)
    BY <2>1, PlanNone
  <2>3. \A a \in S : \A b \in {z} : Precedes(a, b)
    BY <2>1
  <2> HIDE DEF s, S
  <2>4. Plan(s \o <<z>>, S \union {z})
    BY <2>1, <2>2, <2>3, PlanConcat
  <2> QED BY <2>4 DEF s, S
<1> HIDE DEF ops, h
<1>5. PICK T : First(p, h, T)
  BY <1>1, TurnMoves DEF PipesInv, PipesTypes, h
<1>6. Left(p) = {h} \union T
  BY <1>5 DEF First
<1>7. \A f : ~Cites(Left(p), f)
  <2>1. \A f : ~Cites(T, f)
    BY <1>1, <1>5, RestCites
  <2> QED BY <2>1, <1>1, <1>6 DEF Cites, Refers
<1>8. \A g, w : ~Shutting(Left(p), g, w)
  <2>1. \A g, w : ~Shutting(T, g, w)
    BY <1>5, RestShuts
  <2> QED BY <2>1, <1>1, <1>6 DEF Shutting, Shuts
<1>9. \A b \in A : b[1] \in InertOps \union {"fileclose", "exit_close"}
  BY <1>3 DEF InertOps
<1>10. \A b \in A : b[1] = "fileclose" => b[2] \in 1..NFILE
  BY <1>3
<1>11. \A f : Cites(A, f) <=> Cites(Left(p), f)
  BY <1>3, <1>7 DEF Cites, Refers
<1>12. Has(A, "exit_close") => \E fd \in Fds : ofile[p][fd] # 0
  BY <1>3 DEF Has, Open
<1> HIDE DEF A
<1> QED BY <1>1, <1>2, <1>4, <1>8, <1>9, <1>10, <1>11, <1>12, RestartStep, PipesStand

-----------------------------------------------------------------------------
(* Steps on the open files.                                                *)

LEMMA HoldersNext ==
  ASSUME NEW f, NEW S, S \subseteq Processes \X (0..NOFILE),
         \A r \in Processes, fd \in Fds : <<r, fd>> \in S <=> ofile'[r][fd] = f,
         \A r \in Processes : <<r, NOFILE>> \in S <=> Cites(Left(r)', f)
  PROVE  References(f)' = S
<1>1. ASSUME NEW h \in Processes \X (0..NOFILE) PROVE h \in References(f)' <=> h \in S
  <2>1. PICK r \in Processes : h = <<r, NOFILE>> \/ \E fd \in Fds : h = <<r, fd>>
    BY HolderMember
  <2>2. CASE h = <<r, NOFILE>>
    BY <2>2, HolderMemberNext
  <2>3. ASSUME NEW fd \in Fds, h = <<r, fd>> PROVE h \in References(f)' <=> h \in S
    BY <2>3, HolderMemberNext
  <2> QED BY <2>1, <2>2, <2>3
<1> QED BY <1>1, HolderMemberNext

LEMMA CallsKept ==
  ASSUME Calls, NEW p \in Processes, NEW K, Moves(p, K),
         \A r \in Processes \ {p} : \A x : Reserved(r, x) => Reserved(r, x)',
         \A a \in K : a[1] = "fileclose" => a[2] \in 1..NFILE,
         \A a \in K : a[1] \in {"pipe_f1", "pipe_mem"} => Reserved(p, a[2])',
         \A a \in K : a[1] = "pipe_mem" => Reserved(p, a[3])' /\ a[2] # a[3]
  PROVE  Calls'
<1> SUFFICES ASSUME NEW r \in Processes, NEW a \in Left(r)'
             PROVE  /\ a[1] = "fileclose" => a[2] \in 1..NFILE
                    /\ a[1] \in {"pipe_f1", "pipe_mem"} => Reserved(r, a[2])'
                    /\ a[1] = "pipe_mem" => Reserved(r, a[3])' /\ a[2] # a[3]
  BY DEF Calls
<1>1. CASE r = p
  BY <1>1 DEF Moves
<1>2. CASE r # p
  <2>1. a \in Left(r)
    BY <1>2 DEF Moves
  <2>2. /\ a[1] = "fileclose" => a[2] \in 1..NFILE
        /\ a[1] \in {"pipe_f1", "pipe_mem"} => Reserved(r, a[2])
        /\ a[1] = "pipe_mem" => Reserved(r, a[3]) /\ a[2] # a[3]
    BY <2>1 DEF Calls
  <2> QED BY <2>2, <1>2
<1> QED BY <1>1, <1>2

\* Nothing happens to the ends of the pipes.
SameEnds ==
  /\ \A f \in 1..NFILE : \A g, w : IsEnd(f, g, w)' <=> IsEnd(f, g, w)
  /\ \A r \in Processes : \A g, w : Shutting(Left(r)', g, w) <=> Shutting(Left(r), g, w)
  /\ \A f \in 1..NFILE : ftable'[f].type = "pipe" => ftable'[f].pipe \in Pages
  /\ \A f \in 1..NFILE : ftable'[f].ref = 0 => ftable'[f].type = "none"
  /\ \A r \in Processes : \A a \in Left(r)' :
       a[1] = "pipeclose" => a[2] \in Pages /\ a[3] \in BOOLEAN

LEMMA EndsKept == ASSUME PipesInv, SameEnds, PipesAlike PROVE Ends'
<1>1. \A r \in Processes : \A g, w : Shutting(Left(r), g, w)' <=> Shutting(Left(r), g, w)
  BY DEF SameEnds, Shutting
<1>2. \A g \in Pages, w \in BOOLEAN : Opened(g, w)' <=> Opened(g, w)
  BY DEF Opened, PipesAlike
<1>3. \A g \in Pages : pipes'[g].used <=> pipes'[g].readopen \/ pipes'[g].writeopen
  BY DEF PipesInv, Ends, PipesAlike
<1>4. Ends
  BY DEF PipesInv
<1>5. \A f \in 1..NFILE : \A g, w : IsEnd(f, g, w)' <=> IsEnd(f, g, w)
  BY DEF SameEnds
<1>6. \A g \in Pages, w \in BOOLEAN :
        Opened(g, w)' <=> \/ \E f \in 1..NFILE : IsEnd(f, g, w)'
                          \/ \E r \in Processes : Shutting(Left(r), g, w)'
  <2> SUFFICES ASSUME NEW g \in Pages, NEW w \in BOOLEAN
               PROVE  Opened(g, w)' <=> \/ \E f \in 1..NFILE : IsEnd(f, g, w)'
                                        \/ \E r \in Processes : Shutting(Left(r), g, w)'
    OBVIOUS
  <2>1. Opened(g, w) <=> \/ \E f \in 1..NFILE : IsEnd(f, g, w)
                         \/ \E r \in Processes : Shutting(Left(r), g, w)
    BY <1>4 DEF Ends
  <2> QED BY <2>1, <1>1, <1>2, <1>5
<1>7. \A g \in Pages, w \in BOOLEAN :
        /\ \A e, f \in 1..NFILE : IsEnd(e, g, w)' /\ IsEnd(f, g, w)' => e = f
        /\ \A p, q \in Processes : Shutting(Left(p), g, w)' /\ Shutting(Left(q), g, w)' => p = q
        /\ \A f \in 1..NFILE, p \in Processes : ~(IsEnd(f, g, w)' /\ Shutting(Left(p), g, w)')
  BY <1>1, <1>4, <1>5 DEF Ends
<1> QED BY <1>3, <1>6, <1>7 DEF Ends, SameEnds

LEMMA NextFiles ==
  ASSUME PipesInv, NEW f \in 1..NFILE, NEW n \in Nat,
         ftable' = [ftable EXCEPT ![f].ref = n]
  PROVE  /\ ftable' \in [1..NFILE -> File] /\ ftable'[f].ref = n
         /\ \A e \in 1..NFILE : e # f => ftable'[e] = ftable[e]
         /\ \A e \in 1..NFILE : /\ ftable'[e].type = ftable[e].type
                                /\ ftable'[e].pipe = ftable[e].pipe
                                /\ ftable'[e].writable = ftable[e].writable
<1>1. ftable \in [1..NFILE -> File]
  BY DEF PipesInv, PipesTypes
<1>2. ASSUME NEW b \in File
      PROVE  LET c == [b EXCEPT !.ref = n] IN
             /\ c \in File /\ c.ref = n
             /\ c.type = b.type /\ c.pipe = b.pipe /\ c.writable = b.writable
  BY <1>2 DEF File
<1>3. ftable[f] \in File
  BY <1>1
<1>4. PICK c \in File : /\ c.ref = n /\ c.type = ftable[f].type /\ c.pipe = ftable[f].pipe
                        /\ c.writable = ftable[f].writable /\ ftable' = [ftable EXCEPT ![f] = c]
  BY <1>2, <1>3
<1> QED BY <1>1, <1>4

LEMMA FileallocGives ==
  ASSUME PipesInv, NEW p \in Processes, pstate[p] = "run", todo[p] # <<>>,
         NEW h, h = Head(todo[p]), h[1] \in {"pipe", "pipe_f1"},
         NEW f \in FreeFiles, ftable' = [ftable EXCEPT ![f].ref = 1],
         NEW a, Next_ops(p, <<a>>),
         h[1] = "pipe" => a[1] = "pipe_f1" /\ a[2] = f,
         h[1] = "pipe_f1" => a[1] = "pipe_mem" /\ a[2] = h[2] /\ a[3] = f,
         UNCHANGED <<pline, pipes, ofile, pfd, pstate>>
  PROVE  PipesInv'
<1>1. Follow(h, {a})
  BY DEF Follow, Precedes
<1>2. PICK T : First(p, h, T) /\ Moves(p, {a} \union T)
  <2>1. Plan(<<a>>, {a})
    BY PlanOne
  <2> QED BY <1>1, <2>1, TurnMoves DEF PipesInv, PipesTypes
<1> DEFINE K == {a} \union T
           L == Left(p)
<1>3. L = {h} \union T
  BY <1>2 DEF First
<1>4. f \in 1..NFILE /\ ftable[f].ref = 0
  BY DEF FreeFiles
<1>5. Frame(p)
  BY DEF PipesInv, PipesTypes, Frame
<1>6. /\ ftable' \in [1..NFILE -> File] /\ ftable'[f].ref = 1
      /\ \A e \in 1..NFILE : e # f => ftable'[e] = ftable[e]
      /\ \A e \in 1..NFILE : /\ ftable'[e].type = ftable[e].type
                             /\ ftable'[e].pipe = ftable[e].pipe
                             /\ ftable'[e].writable = ftable[e].writable
  BY <1>4, NextFiles
<1>7. PipesTypes'
  BY <1>2, <1>6 DEF PipesInv, PipesTypes, Moves, IsPipe, Lists
<1>8. Linked(p, L) /\ Ready(L, ofile[p], pfd[p])
  BY DEF PipesInv, Plans
<1>9. \A b \in T : b[1] \notin {"close", "dup_p", "close_up", "pipe", "fileclose", "pipe_f1", "pipe_mem",
                               "pipeclose", "exit_close"}
  BY <1>2 DEF First, Precedes
<1> HIDE DEF L
<1>10. Linked(p, K)
  BY <1>3, <1>8, <1>9 DEF Linked, Has, HasAt, Allocs
<1>11. Ready(K, ofile[p], pfd[p])
  BY <1>3, <1>8, <1>9 DEF Ready, Has, Allocs
<1>12. Plans'
  BY <1>2, <1>5, <1>10, <1>11, PlansKept DEF PipesInv
<1>13. Unforked'
  <2>1. \A r \in Processes : \A b \in Left(r) : b[1] = "fork" => b[2] \in Processes
    BY DEF PipesInv, Plans, Linked
  <2>2. \A b \in K : b[1] = "fork" => b \in Left(p) /\ b[2] \in Processes
    BY <1>3, <1>10 DEF Linked, L
  <2>3. NoneForked
    BY DEF NoneForked
  <2> QED BY <1>2, <1>5, <2>1, <2>2, <2>3, ParentExists, UnforkedKept DEF PipesInv
<1>14. \A e : ~Cites(T, e)
  BY <1>2, RestCites
<1>15. References(f) = {}
  <2>1. Cardinality(References(f)) = 0 /\ IsFiniteSet(References(f))
    BY <1>4, HoldersFinite DEF PipesInv, FilesExact
  <2> QED BY <2>1, FS_EmptySet
<1>16. \A e : e # f => (Cites(K, e) <=> Cites(L, e))
  BY <1>3, <1>14 DEF Cites, Refers
<1>17. ASSUME NEW e, e # f PROVE References(e)' = References(e)
  BY <1>2, <1>16, <1>17, HoldersSame DEF L
<1>18. References(f)' = {<<p, NOFILE>>}
  <2> DEFINE S == {<<p, NOFILE>>}
  <2>1. NOFILE \in 0..NOFILE /\ NOFILE \notin Fds
    BY PipesAssumption DEF Fds
  <2>2. S \subseteq Processes \X (0..NOFILE)
    BY <2>1
  <2>3. \A r \in Processes, fd \in Fds : <<r, fd>> \in S <=> ofile'[r][fd] = f
    BY <2>1, <1>15, HolderMember
  <2>4. \A r \in Processes : <<r, NOFILE>> \in S <=> Cites(Left(r)', f)
    <3>1. Cites(K, f)
      BY DEF Cites, Refers
    <3>2. \A r \in Processes : r # p => ~Cites(Left(r)', f)
      <4>1. \A r \in Processes : ~Cites(Left(r), f)
        BY <1>15, HolderMember
      <4>2. \A r \in Processes : r # p => Left(r)' = Left(r)
        BY <1>2 DEF Moves
      <4> QED BY <4>1, <4>2
    <3> QED BY <3>1, <3>2, <2>1, <1>2 DEF Moves
  <2> HIDE DEF S
  <2>5. References(f)' = S
    BY <2>2, <2>3, <2>4, HoldersNext
  <2> QED BY <2>5 DEF S
<1>19. FilesExact'
  <2>1. Cardinality(References(f)') = 1
    BY <1>18, FS_Singleton
  <2> QED BY <2>1, <1>6, <1>17 DEF FilesExact, PipesInv
<1>20. \A r \in Processes : \A x : Reserved(r, x) => Reserved(r, x)'
  <2> SUFFICES ASSUME NEW r \in Processes, NEW x, Reserved(r, x) PROVE Reserved(r, x)'
    OBVIOUS
  <2>1. x # f
    BY <1>15 DEF Reserved
  <2> QED BY <2>1, <1>17, <1>6 DEF Reserved
<1>21. Reserved(p, f)'
  <2>1. ftable'[f].type = "none"
    BY <1>4, <1>6 DEF PipesInv, Ends
  <2> QED BY <2>1, <1>18, <1>4 DEF Reserved
<1>22. Calls'
  <2>1. h[1] = "pipe_f1" => Reserved(p, h[2])' /\ h[2] # f
    <3>1. h[1] = "pipe_f1" => Reserved(p, h[2])
      BY <1>3 DEF PipesInv, Calls, L
    <3> QED BY <3>1, <1>15, <1>20 DEF Reserved
  <2>2. \A b \in K : b[1] = "fileclose" => b[2] \in 1..NFILE
    BY <1>9
  <2>3. \A b \in K : b[1] \in {"pipe_f1", "pipe_mem"} => b = a
    BY <1>9
  <2>4. \A b \in K : b[1] \in {"pipe_f1", "pipe_mem"} => Reserved(p, b[2])'
    BY <2>1, <2>3, <1>21
  <2>5. \A b \in K : b[1] = "pipe_mem" => Reserved(p, b[3])' /\ b[2] # b[3]
    BY <2>1, <2>3, <1>21
  <2> QED BY <1>2, <1>20, <2>2, <2>4, <2>5, CallsKept DEF PipesInv
<1>23. SameEnds
  <2>1. \A e \in 1..NFILE : \A g, w : IsEnd(e, g, w)' <=> IsEnd(e, g, w)
    BY <1>6 DEF IsEnd
  <2>2. \A g, w : Shutting(K, g, w) <=> Shutting(L, g, w)
    BY <1>3 DEF Shutting, Shuts
  <2>3. \A r \in Processes : \A g, w : Shutting(Left(r)', g, w) <=> Shutting(Left(r), g, w)
    BY <2>2, <1>2 DEF Moves, L
  <2>4. \A r \in Processes : \A b \in Left(r)' : b[1] = "pipeclose" => b \in Left(r)
    BY <1>2, <1>3 DEF Moves, L
  <2>5. \A r \in Processes : \A b \in Left(r)' :
          b[1] = "pipeclose" => b[2] \in Pages /\ b[3] \in BOOLEAN
    BY <2>4 DEF PipesInv, Ends
  <2>6. /\ \A e \in 1..NFILE : ftable'[e].type = "pipe" => ftable'[e].pipe \in Pages
        /\ \A e \in 1..NFILE : ftable'[e].ref = 0 => ftable'[e].type = "none"
    BY <1>6 DEF PipesInv, Ends
  <2> QED BY <2>1, <2>3, <2>5, <2>6 DEF SameEnds
<1>24. Ends'
  BY <1>23, EndsKept, PipesStand
<1> QED BY <1>7, <1>12, <1>13, <1>19, <1>22, <1>24 DEF PipesInv

LEMMA FileallocKeeps == ASSUME PipesInv, NEW p \in Processes, filealloc(p) PROVE PipesInv'
<1> DEFINE h == Head(todo[p])
           first == h[1] = "pipe"
           c == <<"fileclose", h[2]>>
           x == <<"exit">>
           ops == (IF first THEN <<>> ELSE <<c>>) \o <<x>>
           A == (IF first THEN {} ELSE {c}) \union {x}
<1>1. pstate[p] = "run" /\ todo[p] # <<>> /\ h[1] \in {"pipe", "pipe_f1"}
  BY DEF filealloc, InProgram, At_op
<1>2. UNCHANGED <<pipes, pstate, pline, ofile, pfd>>
  BY DEF filealloc
<1>3. CASE todo' = [todo EXCEPT ![p] = ops] /\ UNCHANGED ftable
  <2>1. c[1] = "fileclose" /\ c[2] = h[2] /\ x[1] = "exit"
    OBVIOUS
  <2> HIDE DEF c, x
  <2>2. Plan(ops, A)
    <3> DEFINE s == IF first THEN <<>> ELSE <<c>>
               S == IF first THEN {} ELSE {c}
    <3>1. Plan(<<c>>, {c}) /\ Plan(<<x>>, {x}) /\ Precedes(c, x)
      BY <2>1, PlanOne DEF Precedes
    <3>2. Plan(s, S)
      BY <3>1, PlanNone
    <3>3. \A a \in S : \A b \in {x} : Precedes(a, b)
      BY <3>1
    <3> HIDE DEF s, S
    <3>4. Plan(s \o <<x>>, S \union {x})
      BY <3>1, <3>2, <3>3, PlanConcat
    <3> QED BY <3>4 DEF s, S
  <2> HIDE DEF ops, h
  <2>3. PICK T : First(p, h, T)
    BY <1>1, TurnMoves DEF PipesInv, PipesTypes, h
  <2>4. Left(p) = {h} \union T
    BY <2>3 DEF First
  <2>5. \A f : ~Cites(T, f)
    BY <1>1, <2>3, RestCites
  <2>6. \A g, w : ~Shutting(Left(p), g, w)
    <3>1. \A g, w : ~Shutting(T, g, w)
      BY <2>3, RestShuts
    <3> QED BY <3>1, <1>1, <2>4 DEF Shutting, Shuts
  <2>7. \A b \in A : b[1] \in InertOps \union {"fileclose", "exit_close"}
    BY <2>1 DEF InertOps
  <2>8. \A b \in A : b[1] = "fileclose" => b[2] \in 1..NFILE
    <3>1. ~first => h[2] \in 1..NFILE
      BY <1>1, <2>4 DEF PipesInv, Calls, Reserved
    <3> QED BY <3>1, <2>1
  <2>9. \A f : Cites(A, f) <=> Cites(Left(p), f)
    BY <1>1, <2>1, <2>4, <2>5 DEF Cites, Refers
  <2>10. Has(A, "exit_close") => \E fd \in Fds : ofile[p][fd] # 0
    BY <2>1 DEF Has
  <2> HIDE DEF A
  <2> QED BY <1>1, <1>2, <1>3, <2>2, <2>6, <2>7, <2>8, <2>9, <2>10, RestartStep, PipesStand
<1>4. ASSUME NEW f \in FreeFiles, ftable' = [ftable EXCEPT ![f].ref = 1],
             Next_ops(p, << IF first THEN <<"pipe_f1", f>> ELSE <<"pipe_mem", Arg(p), f>> >>)
      PROVE  PipesInv'
  <2> DEFINE a == IF first THEN <<"pipe_f1", f>> ELSE <<"pipe_mem", Arg(p), f>>
  <2>1. h[1] = "pipe" => a[1] = "pipe_f1" /\ a[2] = f
    OBVIOUS
  <2>2. h[1] = "pipe_f1" => a[1] = "pipe_mem" /\ a[2] = h[2] /\ a[3] = f
    BY DEF Arg
  <2>3. Next_ops(p, <<a>>)
    BY <1>4
  <2> HIDE DEF a, h
  <2> QED BY <1>1, <1>2, <1>4, <2>1, <2>2, <2>3, FileallocGives DEF h
<1>5. \/ todo' = [todo EXCEPT ![p] = ops] /\ UNCHANGED ftable
      \/ \E f \in FreeFiles :
           /\ ftable' = [ftable EXCEPT ![f].ref = 1]
           /\ Next_ops(p, << IF first THEN <<"pipe_f1", f>> ELSE <<"pipe_mem", Arg(p), f>> >>)
  BY DEF filealloc, Arg
<1> QED BY <1>3, <1>4, <1>5

\* Whether a call of fileclose() closes an end of a pipe.
LastEnd(f) == ftable[f].ref = 1 /\ ftable[f].type = "pipe"

LEMMA DerefFile ==
  ASSUME PipesInv, NEW f \in 1..NFILE,
         ftable' = [ftable EXCEPT ![f] = IF ftable[f].ref > 1
                                           THEN [ftable[f] EXCEPT !.ref = ftable[f].ref - 1]
                                           ELSE NoFile]
  PROVE  /\ ftable' \in [1..NFILE -> File]
         /\ \A e \in 1..NFILE : e # f => ftable'[e] = ftable[e]
         /\ ftable[f].ref > 1 => /\ ftable'[f].ref = ftable[f].ref - 1
                                 /\ ftable'[f].type = ftable[f].type
                                 /\ ftable'[f].pipe = ftable[f].pipe
                                 /\ ftable'[f].writable = ftable[f].writable
         /\ ~(ftable[f].ref > 1) => ftable'[f].ref = 0 /\ ftable'[f].type = "none"
<1>1. ftable \in [1..NFILE -> File] /\ ftable[f] \in File /\ ftable[f].ref \in Nat
  BY DEF PipesInv, PipesTypes, File
<1>2. NoFile \in File /\ NoFile.ref = 0 /\ NoFile.type = "none"
  BY DEF NoFile, File
<1> DEFINE c == [ftable[f] EXCEPT !.ref = ftable[f].ref - 1]
<1>3. ftable[f].ref > 1 =>
        /\ c \in File /\ c.ref = ftable[f].ref - 1 /\ c.type = ftable[f].type
        /\ c.pipe = ftable[f].pipe /\ c.writable = ftable[f].writable
  BY <1>1 DEF File
<1> HIDE DEF c
<1>4. ftable' = [ftable EXCEPT ![f] = IF ftable[f].ref > 1 THEN c ELSE NoFile]
  BY DEF c
<1> QED BY <1>1, <1>2, <1>3, <1>4

LEMMA DerefKeeps ==
  ASSUME PipesInv, NEW p \in Processes, pstate[p] = "run", NEW f \in 1..NFILE, NEW x,
         ftable' = [ftable EXCEPT ![f] = IF ftable[f].ref > 1
                                           THEN [ftable[f] EXCEPT !.ref = ftable[f].ref - 1]
                                           ELSE NoFile],
         NEW K, Moves(p, K), Frame(p), Linked(p, K), Ready(K, ofile'[p], pfd'[p]),
         <<p, x>> \in References(f), References(f)' = References(f) \ {<<p, x>>},
         \A e \in 1..NFILE : e # f => References(e)' = References(e),
         \A g, w : ~Shutting(Left(p), g, w),
         \A a \in K : a[1] \notin {"pipe_f1", "pipe_mem"},
         \A a \in K : a[1] \in {"fork", "fileclose"} => a \in Left(p),
         \A a \in K : a[1] = "pipeclose" =>
           LastEnd(f) /\ a[2] = ftable[f].pipe /\ a[3] = ftable[f].writable,
         LastEnd(f) => Shutting(K, ftable[f].pipe, ftable[f].writable),
         UNCHANGED <<pline, pipes, pstate>>
  PROVE  PipesInv'
<1>1. /\ ftable' \in [1..NFILE -> File]
      /\ \A e \in 1..NFILE : e # f => ftable'[e] = ftable[e]
      /\ ftable[f].ref > 1 => /\ ftable'[f].ref = ftable[f].ref - 1
                              /\ ftable'[f].type = ftable[f].type
                              /\ ftable'[f].pipe = ftable[f].pipe
                              /\ ftable'[f].writable = ftable[f].writable
      /\ ~(ftable[f].ref > 1) => ftable'[f].ref = 0 /\ ftable'[f].type = "none"
  BY DerefFile
<1>2. PipesTypes'
  BY <1>1 DEF PipesInv, PipesTypes, Moves, Frame, IsPipe, Lists
<1>3. Plans'
  BY PlansKept DEF PipesInv
<1>4. Unforked'
  <2>1. \A r \in Processes : \A a \in Left(r) : a[1] = "fork" => a[2] \in Processes
    BY DEF PipesInv, Plans, Linked
  <2>2. \A a \in K : a[1] = "fork" => a \in Left(p) /\ a[2] \in Processes
    BY <2>1
  <2>3. NoneForked
    BY DEF NoneForked
  <2> QED BY <2>1, <2>2, <2>3, ParentExists, UnforkedKept DEF PipesInv
<1>5. /\ ftable[f].ref = Cardinality(References(f)) /\ ftable[f].ref \in Nat \ {0}
      /\ Cardinality(References(f)') = ftable[f].ref - 1
  <2>1. ftable[f].ref = Cardinality(References(f))
    BY DEF PipesInv, FilesExact
  <2>2. IsFiniteSet(References(f)) /\ Cardinality(References(f)) \in Nat
    BY HoldersFinite
  <2>3. Cardinality(References(f) \ {<<p, x>>}) = Cardinality(References(f)) - 1
    BY <2>2, FS_RemoveElement
  <2>4. Cardinality(References(f)) # 0
    BY <2>2, FS_EmptySet
  <2> QED BY <2>1, <2>2, <2>3, <2>4
<1>6. FilesExact'
  <2> SUFFICES ASSUME NEW e \in 1..NFILE PROVE ftable'[e].ref = Cardinality(References(e)')
    BY DEF FilesExact
  <2>1. CASE e = f
    <3>1. ftable'[f].ref = ftable[f].ref - 1
      BY <1>1, <1>5
    <3>2. ftable'[f].ref = Cardinality(References(f)')
      BY <3>1, <1>5
    <3> QED BY <2>1, <3>2
  <2>2. CASE e # f
    BY <2>2, <1>1 DEF PipesInv, FilesExact
  <2> QED BY <2>1, <2>2
<1>7. Calls'
  <2>1. ASSUME NEW r \in Processes \ {p}, NEW y, Reserved(r, y) PROVE Reserved(r, y)'
    <3>1. y # f
      BY <2>1 DEF Reserved
    <3> QED BY <2>1, <3>1, <1>1 DEF Reserved
  <2>2. \A a \in K : a[1] = "fileclose" => a[2] \in 1..NFILE
    BY DEF PipesInv, Calls
  <2> QED BY <2>1, <2>2, CallsKept DEF PipesInv
<1>8. \A e \in 1..NFILE : ftable'[e].type = "pipe" => ftable'[e].pipe \in Pages
  BY <1>1 DEF PipesInv, Ends
<1>9. \A e \in 1..NFILE : ftable'[e].ref = 0 => ftable'[e].type = "none"
  BY <1>1, <1>5 DEF PipesInv, Ends
<1>10. \A r \in Processes : \A b \in Left(r)' :
         b[1] = "pipeclose" => b[2] \in Pages /\ b[3] \in BOOLEAN
  <2>1. LastEnd(f) => ftable[f].pipe \in Pages /\ ftable[f].writable \in BOOLEAN
    BY DEF LastEnd, PipesInv, Ends, PipesTypes, File
  <2> QED BY <2>1 DEF Moves, PipesInv, Ends
<1>11. CASE ~LastEnd(f)
  <2>1. \A e \in 1..NFILE : \A g, w : IsEnd(e, g, w)' <=> IsEnd(e, g, w)
    <3>1. \A g, w : IsEnd(f, g, w)' <=> IsEnd(f, g, w)
      BY <1>1, <1>5, <1>11 DEF LastEnd, IsEnd
    <3> QED BY <3>1, <1>1 DEF IsEnd
  <2>2. \A g, w : ~Shutting(K, g, w)
    BY <1>11 DEF Shutting, Shuts
  <2>3. \A r \in Processes : \A g, w : Shutting(Left(r)', g, w) <=> Shutting(Left(r), g, w)
    BY <2>2 DEF Moves
  <2>4. SameEnds
    BY <2>1, <2>3, <1>8, <1>9, <1>10 DEF SameEnds
  <2> QED BY <1>2, <1>3, <1>4, <1>6, <1>7, <2>4, EndsKept, PipesStand DEF PipesInv
<1>12. CASE LastEnd(f)
  <2> DEFINE G == ftable[f].pipe
             W == ftable[f].writable
  <2>1. \A g, w : ~IsEnd(f, g, w)'
    BY <1>1, <1>12 DEF LastEnd, IsEnd
  <2>2. \A e \in 1..NFILE : e # f => \A g, w : IsEnd(e, g, w)' <=> IsEnd(e, g, w)
    BY <1>1 DEF IsEnd
  <2>3. \A g, w : IsEnd(f, g, w) <=> g = G /\ w = W
    BY <1>12 DEF IsEnd, LastEnd
  <2>4. \A g, w : Shutting(Left(p), g, w)' <=> g = G /\ w = W
    <3>1. \A g, w : Shutting(Left(p), g, w)' <=> Shutting(K, g, w)
      BY DEF Shutting, Moves
    <3>2. \A g, w : Shutting(K, g, w) => g = G /\ w = W
      BY DEF Shutting, Shuts
    <3> QED BY <3>1, <3>2, <1>12
  <2>5. \A r \in Processes : r # p => \A g, w : Shutting(Left(r), g, w)' <=> Shutting(Left(r), g, w)
    BY DEF Shutting, Moves
  <2> HIDE DEF G, W
  <2>6. Ends
    BY DEF PipesInv
  <2>7. ASSUME NEW g \in Pages, NEW w \in BOOLEAN
        PROVE  Opened(g, w)' <=> \/ \E e \in 1..NFILE : IsEnd(e, g, w)'
                                 \/ \E r \in Processes : Shutting(Left(r), g, w)'
    <3>1. Opened(g, w)' <=> Opened(g, w)
      BY DEF Opened
    <3>2. Opened(g, w) <=> \/ \E e \in 1..NFILE : IsEnd(e, g, w)
                           \/ \E r \in Processes : Shutting(Left(r), g, w)
      BY <2>6 DEF Ends
    <3> QED BY <3>1, <3>2, <2>1, <2>2, <2>3, <2>4, <2>5
  <2>8. ASSUME NEW g \in Pages, NEW w \in BOOLEAN
        PROVE  /\ \A e, k \in 1..NFILE : IsEnd(e, g, w)' /\ IsEnd(k, g, w)' => e = k
               /\ \A q, r \in Processes : Shutting(Left(q), g, w)' /\ Shutting(Left(r), g, w)' => q = r
               /\ \A e \in 1..NFILE, r \in Processes : ~(IsEnd(e, g, w)' /\ Shutting(Left(r), g, w)')
    <3>1. /\ \A e, k \in 1..NFILE : IsEnd(e, g, w) /\ IsEnd(k, g, w) => e = k
          /\ \A q, r \in Processes : Shutting(Left(q), g, w) /\ Shutting(Left(r), g, w) => q = r
          /\ \A e \in 1..NFILE, r \in Processes : ~(IsEnd(e, g, w) /\ Shutting(Left(r), g, w))
      BY <2>6 DEF Ends
    <3>2. \A e, k \in 1..NFILE : IsEnd(e, g, w)' /\ IsEnd(k, g, w)' => e = k
      BY <3>1, <2>1, <2>2
    <3>3. \A q, r \in Processes : Shutting(Left(q), g, w)' /\ Shutting(Left(r), g, w)' => q = r
      BY <3>1, <2>3, <2>4, <2>5
    <3>4. \A e \in 1..NFILE, r \in Processes : ~(IsEnd(e, g, w)' /\ Shutting(Left(r), g, w)')
      BY <3>1, <2>1, <2>2, <2>3, <2>4, <2>5
    <3> QED BY <3>2, <3>3, <3>4
  <2>9. \A g \in Pages : pipes'[g].used <=> pipes'[g].readopen \/ pipes'[g].writeopen
    BY <2>6 DEF Ends
  <2>10. Ends'
    BY <2>7, <2>8, <2>9, <1>8, <1>9, <1>10 DEF Ends
  <2> QED BY <1>2, <1>3, <1>4, <1>6, <1>7, <2>10 DEF PipesInv
<1> QED BY <1>11, <1>12

\* Process p calls fileclose(f) at h, then it does the steps T and those of A.
DerefTurn(p, h, f, A, T, K) ==
  /\ First(p, h, T) /\ Moves(p, K) /\ T \subseteq K /\ A \subseteq K
  /\ \A a \in K : a \in T \/ a \in A \/ a[1] = "pipeclose"
  /\ \A a \in K : a[1] = "pipeclose" =>
       LastEnd(f) /\ a[2] = ftable[f].pipe /\ a[3] = ftable[f].writable
  /\ LastEnd(f) => Shutting(K, ftable[f].pipe, ftable[f].writable)
  /\ \A g, w : ~Shutting(Left(p), g, w)

ExitOnly(h, A) == \A a \in A : a[1] = "exit_close" /\ h[1] = "exit_close"
Derefs(f, ops) ==
  (IF LastEnd(f) THEN << <<"pipeclose", ftable[f].pipe, ftable[f].writable>> >> ELSE <<>>) \o ops

LEMMA DerefMoves ==
  ASSUME PipesInv, NEW p \in Processes, todo[p] # <<>>, NEW h, h = Head(todo[p]),
         h[1] \in {"fileclose", "close", "close_up", "close_p", "exit_close"},
         NEW f, NEW ops, NEW A, Plan(ops, A), ExitOnly(h, A),
         NEW u, u = Derefs(f, ops), Next_ops(p, u)
  PROVE  \E T, K : DerefTurn(p, h, f, A, T, K)
<1> DEFINE c == <<"pipeclose", ftable[f].pipe, ftable[f].writable>>
           s == IF LastEnd(f) THEN <<c>> ELSE <<>>
           S == IF LastEnd(f) THEN {c} ELSE {}
<1>1. c[1] = "pipeclose" /\ c[2] = ftable[f].pipe /\ c[3] = ftable[f].writable
  OBVIOUS
<1>2. Next_ops(p, s \o ops)
  BY DEF Next_ops, Derefs
<1> HIDE DEF c
<1>3. Plan(s, S)
  BY PlanOne, PlanNone
<1>4. \A a \in S : \A b \in A : Precedes(a, b)
  BY <1>1 DEF Precedes, ExitOnly
<1> HIDE DEF s
<1>5. Plan(s \o ops, S \union A)
  BY <1>3, <1>4, PlanConcat
<1>6. Follow(h, S \union A)
  <2>1. \A b : Precedes(h, b) => Precedes(c, b)
    BY <1>1 DEF Precedes
  <2>2. \A a \in A : \A b : Precedes(h, b) => Precedes(a, b)
    BY DEF Precedes, ExitOnly
  <2> QED BY <2>1, <2>2 DEF Follow
<1>7. PICK T : First(p, h, T) /\ Moves(p, (S \union A) \union T)
  BY <1>2, <1>5, <1>6, TurnMoves DEF PipesInv, PipesTypes
<1> DEFINE K == (S \union A) \union T
<1>8. \A b \in T : b[1] # "pipeclose"
  BY <1>7 DEF First, Precedes
<1>9. \A a \in K : a[1] = "pipeclose" =>
        LastEnd(f) /\ a[2] = ftable[f].pipe /\ a[3] = ftable[f].writable
  BY <1>1, <1>8 DEF ExitOnly
<1>10. LastEnd(f) => Shutting(K, ftable[f].pipe, ftable[f].writable)
  BY <1>1 DEF Shutting, Shuts
<1>11. \A g, w : ~Shutting(Left(p), g, w)
  BY <1>7, <1>8 DEF First, Shutting, Shuts
<1>12. \A a \in K : a \in T \/ a \in A \/ a[1] = "pipeclose"
  BY <1>1
<1>13. T \subseteq K /\ A \subseteq K
  OBVIOUS
<1> HIDE DEF K
<1>14. Moves(p, K)
  BY <1>7 DEF K
<1> QED BY <1>7, <1>9, <1>10, <1>11, <1>12, <1>13, <1>14 DEF DerefTurn

LEMMA FilecloseKeeps == ASSUME PipesInv, NEW p \in Processes, fileclose(p) PROVE PipesInv'
<1>a. PICK h : h = Head(todo[p])
  OBVIOUS
<1>b. PICK f : f = h[2]
  OBVIOUS
<1>c. PICK u : u = Derefs(f, <<>>)
  OBVIOUS
<1>1. pstate[p] = "run" /\ todo[p] # <<>> /\ h[1] = "fileclose"
  BY <1>a DEF fileclose, At_op
<1>2. /\ ftable' = [ftable EXCEPT ![f] = IF ftable[f].ref > 1
                                           THEN [ftable[f] EXCEPT !.ref = ftable[f].ref - 1]
                                           ELSE NoFile]
      /\ Next_ops(p, u)
      /\ UNCHANGED <<pline, pipes, ofile, pfd, pstate>>
  BY <1>a, <1>b, <1>c DEF fileclose, Next_ops, LastEnd, Derefs, Deref_file, Arg, userVars
<1>3. h \in Left(p)
  <2>1. \E T : First(p, h, T)
    BY <1>a, <1>1, TurnMoves DEF PipesInv, PipesTypes
  <2> QED BY <2>1 DEF First
<1>4. f \in 1..NFILE
  BY <1>1, <1>3, <1>b DEF PipesInv, Calls
<1>5. PICK T, K :
        /\ First(p, h, T) /\ Moves(p, K) /\ T \subseteq K
        /\ \A a \in K : a \in T \/ a[1] = "pipeclose"
        /\ \A a \in K : a[1] = "pipeclose" =>
             LastEnd(f) /\ a[2] = ftable[f].pipe /\ a[3] = ftable[f].writable
        /\ LastEnd(f) => Shutting(K, ftable[f].pipe, ftable[f].writable)
        /\ \A g, w : ~Shutting(Left(p), g, w)
  <2>1. h[1] \in {"fileclose", "close", "close_up", "close_p", "exit_close"}
    BY <1>1
  <2> DEFINE Z == {}
  <2>2. Plan(<<>>, Z) /\ ExitOnly(h, Z)
    BY PlanNone DEF ExitOnly
  <2> HIDE DEF Z
  <2>3. \E T, K : DerefTurn(p, h, f, Z, T, K)
    BY <1>a, <1>c, <1>1, <1>2, <2>1, <2>2, DerefMoves
  <2> QED BY <2>3 DEF Z, DerefTurn
<1>6. Left(p) = {h} \union T /\ \A b \in T : Precedes(h, b)
  BY <1>5 DEF First
<1>7. \A b \in T : /\ b[1] \notin {"close", "pipe_f1", "pipe_mem", "pipeclose", "exit_close",
                                   "pipe", "dup_p", "close_up"}
                   /\ b[1] = "fileclose" => b[2] # f
  BY <1>1, <1>6, <1>b DEF Precedes
<1>8. Linked(p, Left(p)) /\ Ready(Left(p), ofile[p], pfd[p])
  BY DEF PipesInv, Plans
<1> DEFINE L == Left(p)
<1>9. L = {h} \union T
  BY <1>6
<1> HIDE DEF L
<1>10. \A a \in K : a[1] \in {"fork", "close_p"} => a \in L
  BY <1>5, <1>6 DEF L
<1>11. \A a \in K : a[1] \notin {"close", "pipe_f1", "pipe_mem", "exit_close", "pipe", "dup_p",
                                 "close_up"}
  BY <1>5, <1>7
<1>12. ~Allocs(L) /\ ~Allocs(K)
  BY <1>1, <1>7, <1>9, <1>11 DEF Allocs, Has
<1>13. Has(L, "fork") <=> Has(K, "fork")
  BY <1>1, <1>5, <1>9 DEF Has
<1>14. Has(L, "close_p") <=> Has(K, "close_p")
  BY <1>1, <1>5, <1>9 DEF Has
<1>15. \A x : HasAt(L, "close_p", x) <=> HasAt(K, "close_p", x)
  BY <1>1, <1>5, <1>9 DEF HasAt
<1>16. Linked(p, L) /\ Ready(L, ofile[p], pfd[p])
  BY <1>8 DEF L
<1>17. Linked(p, K)
  <2>1. ~Has(K, "dup_p") /\ ~Has(K, "close") /\ ~Has(K, "close_up")
    BY <1>11 DEF Has
  <2>2. \A a \in K : a[1] = "fork" => a[2] \in Processes /\ p % 2 = 1 /\ a[2] \in {p + 1, p + 2}
    BY <1>10, <1>16 DEF Linked
  <2>3. \A a \in K : a[1] \in {"dup_p", "close_up", "close_p"} => a[2] \in {1, 2}
    BY <1>10, <1>11, <1>16 DEF Linked
  <2> QED BY <2>1, <2>2, <2>3, <1>11, <1>12, <1>13, <1>15, <1>16 DEF Linked
<1>18. Ready(K, ofile'[p], pfd'[p])
  <2>1. ~Has(K, "dup_p") /\ ~Has(K, "close") /\ ~Has(K, "close_up") /\ ~Has(K, "exit_close")
        /\ ~Has(L, "dup_p")
    BY <1>1, <1>7, <1>9, <1>11 DEF Has
  <2>2. ofile'[p] = ofile[p] /\ pfd'[p] = pfd[p]
    BY <1>2
  <2>3. \A a \in K : a[1] = "close_p" =>
          pfd[p][a[2]] \in Fds \ {0, 1} /\ ofile[p][pfd[p][a[2]]] # 0
    BY <1>10, <1>12, <1>16 DEF Ready
  <2> QED BY <2>1, <2>2, <2>3, <1>11, <1>12, <1>13, <1>14, <1>16 DEF Ready
<1>19. Frame(p)
  BY <1>2 DEF PipesInv, PipesTypes, Frame
<1>20. \A e \in 1..NFILE : e # f => References(e)' = References(e)
  <2>1. \A e : e # f => (Cites(K, e) <=> Cites(L, e))
    <3>2. \A e : Cites(K, e) <=> Cites(T, e)
      BY <1>5 DEF Cites, Refers
    <3>3. \A e : e # f => (Cites(L, e) <=> Cites(T, e))
      BY <1>1, <1>9, <1>b DEF Cites, Refers
    <3> QED BY <3>2, <3>3
  <2> QED BY <2>1, <1>2, <1>5, HoldersSame DEF L
<1>21. ~Cites(K, f) /\ Cites(L, f)
  <2>1. ~Cites(T, f)
    BY <1>7 DEF Cites, Refers
  <2>2. ~Cites(K, f)
    BY <1>5, <2>1 DEF Cites, Refers
  <2>3. Refers(h, f)
    BY <1>1, <1>b DEF Refers
  <2> QED BY <2>2, <2>3, <1>9 DEF Cites
<1>22. NOFILE \in 0..NOFILE /\ NOFILE \notin Fds
  BY PipesAssumption DEF Fds
<1>23. <<p, NOFILE>> \in References(f) /\ References(f)' = References(f) \ {<<p, NOFILE>>}
  <2>1. <<p, NOFILE>> \in References(f)
    BY <1>21, HolderMember DEF L
  <2> DEFINE S == References(f) \ {<<p, NOFILE>>}
  <2>2. S \subseteq Processes \X (0..NOFILE)
    BY HolderMember
  <2>3. \A r \in Processes, fd \in Fds : <<r, fd>> \in S <=> ofile'[r][fd] = f
    BY <1>2, <1>22, HolderMember
  <2>4. \A r \in Processes : <<r, NOFILE>> \in S <=> Cites(Left(r)', f)
    <3>1. Left(p)' = K /\ \A r \in Processes \ {p} : Left(r)' = Left(r)
      BY <1>5 DEF Moves
    <3>2. \A r \in Processes : <<r, NOFILE>> \in References(f) <=> Cites(Left(r), f)
      BY HolderMember
    <3> QED BY <3>1, <3>2, <1>21
  <2> HIDE DEF S
  <2>5. References(f)' = S
    BY <2>2, <2>3, <2>4, HoldersNext
  <2> QED BY <2>1, <2>5 DEF S
<1>24. \A a \in K : a[1] \notin {"pipe_f1", "pipe_mem"}
  BY <1>11
<1>25. \A a \in K : a[1] \in {"fork", "fileclose"} => a \in Left(p)
  BY <1>5, <1>6
<1> QED BY <1>1, <1>2, <1>4, <1>5, <1>17, <1>18, <1>19, <1>20, <1>23, <1>24, <1>25, DerefKeeps

\* Descriptor fd of process p is closed at h: the steps K that are left are as before.
Closes(h, A, o, q, d, fd) ==
  /\ fd \in Fds /\ q[fd] = 0 /\ \A x \in Fds \ {fd} : q[x] = o[x]
  /\ h[1] = "close" => fd = h[2]
  /\ h[1] \in {"close_up", "close_p"} => fd = d[h[2]]
  /\ A # {} => \E x \in Fds : q[x] # 0

LEMMA ClosesReady ==
  ASSUME NEW p \in Processes, NEW h, NEW f, NEW A, NEW T, NEW K, DerefTurn(p, h, f, A, T, K),
         ExitOnly(h, A), h[1] \in {"close", "close_up", "close_p", "exit_close"},
         NEW o, NEW d, NEW q, NEW fd, Closes(h, A, o, q, d, fd),
         NEW L, L = Left(p), Linked(p, L), Ready(L, o, d)
  PROVE  Linked(p, K) /\ Ready(K, q, d)
<1>1. /\ L = {h} \union T /\ \A b \in T : Precedes(h, b)
      /\ T \subseteq K /\ \A a \in K : a \in T \/ a[1] \in {"exit_close", "pipeclose"}
  BY DEF DerefTurn, First, ExitOnly
<1>2. /\ Has(K, "fork") <=> Has(T, "fork")
      /\ Has(K, "dup_p") <=> Has(T, "dup_p")
      /\ Has(K, "close") <=> Has(T, "close")
      /\ Has(K, "close_up") <=> Has(T, "close_up")
      /\ Has(K, "close_p") <=> Has(T, "close_p")
      /\ Has(K, "pipe") <=> Has(T, "pipe")
      /\ Allocs(K) <=> Allocs(T)
      /\ \A x : HasAt(K, "close_p", x) <=> HasAt(T, "close_p", x)
      /\ \A x : HasAt(K, "close_up", x) <=> HasAt(T, "close_up", x)
  BY <1>1 DEF Has, HasAt, Allocs
<1>3. \A b \in T : b[1] \notin {"close", "pipe_f1", "pipe_mem", "exit_close", "pipeclose"}
  BY <1>1 DEF Precedes
<1>4. ~Has(T, "close") /\ ~Has(T, "exit_close") /\ (Allocs(T) <=> Has(T, "pipe"))
  BY <1>3 DEF Has, Allocs
<1>5. \A b \in T : /\ b[1] = "fork" => b[2] \in Processes /\ p % 2 = 1 /\ b[2] \in {p + 1, p + 2}
                   /\ b[1] \in {"dup_p", "close_up", "close_p"} => b[2] \in {1, 2}
  BY <1>1 DEF Linked
<1>6. \A a \in K : /\ a[1] = "fork" => a[2] \in Processes /\ p % 2 = 1 /\ a[2] \in {p + 1, p + 2}
                   /\ a[1] \in {"dup_p", "close_up", "close_p"} => a[2] \in {1, 2}
                   /\ a[1] # "close"
  BY <1>1, <1>3, <1>5
<1>7. Allocs(T) => p % 2 = 1
  BY <1>1 DEF Linked, Allocs, Has
<1>8. Has(T, "fork") => p % 2 = 1
  BY <1>5 DEF Has
<1>9. Has(K, "exit_close") => \E x \in Fds : q[x] # 0
  <2>1. Has(K, "exit_close") => A # {}
    BY <1>4 DEF DerefTurn, Has
  <2> QED BY <2>1 DEF Closes
<1>10. CASE h[1] = "close"
  <2>1. /\ Has(T, "fork") <=> Has(L, "fork")
        /\ Has(T, "dup_p") <=> Has(L, "dup_p")
        /\ Has(T, "close_up") <=> Has(L, "close_up")
        /\ Has(T, "close_p") <=> Has(L, "close_p")
        /\ Has(T, "pipe") <=> Has(L, "pipe")
        /\ Allocs(T) <=> Allocs(L)
        /\ Has(L, "close")
        /\ \A x : HasAt(T, "close_p", x) <=> HasAt(L, "close_p", x)
        /\ \A x : HasAt(T, "close_up", x) <=> HasAt(L, "close_up", x)
    BY <1>1, <1>10 DEF Has, HasAt, Allocs
  <2>2. Linked(p, K)
    BY <1>2, <1>4, <1>6, <1>7, <2>1 DEF Linked
  <2>3. fd = IF p % 2 = 0 THEN 1 ELSE 0
    BY <1>1, <1>10 DEF Linked, Closes
  <2>4. ASSUME NEW a \in K, a[1] = "close_up" \/ (a[1] = "close_p" /\ ~Allocs(K))
        PROVE  d[a[2]] \in Fds \ {0, 1} /\ q[d[a[2]]] # 0
    <3>1. a \in L /\ (a[1] = "close_up" \/ (a[1] = "close_p" /\ ~Allocs(L)))
      BY <2>4, <1>1, <1>2, <2>1
    <3>2. d[a[2]] \in Fds \ {0, 1} /\ o[d[a[2]]] # 0
      BY <3>1 DEF Ready
    <3> QED BY <3>2, <2>3 DEF Closes
  <2>5. Has(K, "close_up") \/ (Has(K, "close_p") /\ ~Allocs(K)) => d[1] # d[2]
    BY <1>2, <2>1 DEF Ready
  <2>6. \E x \in Fds : q[x] = 0
    BY DEF Closes
  <2>7. Has(K, "dup_p")
    BY <1>2, <2>1 DEF Linked
  <2>8. Allocs(K) \/ Has(K, "fork") => q[1] # 0
    <3>1. Allocs(K) \/ Has(K, "fork") => o[1] # 0 /\ fd = 0
      BY <1>2, <1>7, <1>8, <2>1, <2>3 DEF Ready
    <3>2. 1 \in Fds
      BY PipesAssumption DEF Fds
    <3> QED BY <3>1, <3>2 DEF Closes
  <2>9. Ready(K, q, d)
    BY <1>2, <1>4, <1>6, <1>9, <2>4, <2>5, <2>6, <2>7, <2>8 DEF Ready
  <2> QED BY <2>2, <2>9
<1>11. CASE h[1] = "close_up"
  <2>1. /\ Has(T, "fork") <=> Has(L, "fork")
        /\ ~Has(L, "dup_p") /\ ~Has(T, "dup_p")
        /\ Has(T, "close_p") <=> Has(L, "close_p")
        /\ Has(T, "pipe") <=> Has(L, "pipe")
        /\ Allocs(T) <=> Allocs(L)
        /\ \A x : HasAt(T, "close_p", x) <=> HasAt(L, "close_p", x)
    BY <1>1, <1>11 DEF Has, HasAt, Allocs, Precedes
  <2>2. Has(L, "close_up") /\ (Has(T, "close_up") => Has(L, "close_up"))
    BY <1>1, <1>11 DEF Has
  <2>3. Linked(p, K)
    BY <1>2, <1>4, <1>6, <1>7, <2>1, <2>2 DEF Linked
  <2>4. fd = d[h[2]] /\ fd \in Fds \ {0, 1} /\ d[1] # d[2] /\ h[2] \in {1, 2}
    BY <1>1, <1>11, <2>2 DEF Linked, Ready, Closes
  <2>5. ASSUME NEW a \in K, a[1] = "close_up" \/ (a[1] = "close_p" /\ ~Allocs(K))
        PROVE  d[a[2]] \in Fds \ {0, 1} /\ q[d[a[2]]] # 0
    <3>1. a \in L /\ a \in T /\ a[1] = "close_up"
      <4>1. a \in T /\ a \in L
        BY <2>5, <1>1
      <4>2. a[1] = "close_p" => Allocs(K)
        <5>1. a[1] = "close_p" => Has(L, "close_p")
          BY <4>1 DEF Has
        <5> QED BY <5>1, <2>2, <2>1, <1>2, <1>4 DEF Linked
      <4> QED BY <4>1, <4>2, <2>5
    <3>2. d[a[2]] \in Fds \ {0, 1} /\ o[d[a[2]]] # 0
      BY <3>1 DEF Ready
    <3>3. a[2] # h[2] /\ a[2] \in {1, 2}
      BY <3>1, <1>1, <1>5, <1>11 DEF Precedes
    <3>4. d[a[2]] # fd
      BY <3>3, <2>4
    <3> QED BY <3>2, <3>4 DEF Closes
  <2>6. Allocs(K) \/ Has(K, "fork") => q[1] # 0 /\ q[0] # 0
    <3>1. Allocs(K) \/ Has(K, "fork") => o[1] # 0 /\ o[0] # 0
      BY <1>2, <2>1 DEF Ready
    <3>2. 1 \in Fds /\ 0 \in Fds
      BY PipesAssumption DEF Fds
    <3> QED BY <3>1, <3>2, <2>4 DEF Closes
  <2>7. Ready(K, q, d)
    BY <1>2, <1>6, <1>9, <2>1, <2>4, <2>5, <2>6 DEF Ready
  <2> QED BY <2>3, <2>7
<1>12. CASE h[1] = "close_p"
  <2>1. \A b \in T : b[1] \notin {"fork", "dup_p", "close_up", "pipe"}
    BY <1>1, <1>12 DEF Precedes
  <2>2. ~Has(T, "fork") /\ ~Has(T, "dup_p") /\ ~Has(T, "close_up") /\ ~Has(T, "pipe") /\ ~Allocs(L)
    BY <1>1, <1>3, <1>12, <2>1 DEF Has, Allocs
  <2>3. Linked(p, K)
    BY <1>2, <1>4, <1>6, <2>2 DEF Linked
  <2>4. fd = d[h[2]] /\ d[1] # d[2] /\ h[2] \in {1, 2}
    <3>1. Has(L, "close_p")
      BY <1>1, <1>12 DEF Has
    <3> QED BY <3>1, <1>1, <1>12, <2>2 DEF Linked, Ready, Closes
  <2>5. ASSUME NEW a \in K, a[1] = "close_up" \/ (a[1] = "close_p" /\ ~Allocs(K))
        PROVE  d[a[2]] \in Fds \ {0, 1} /\ q[d[a[2]]] # 0
    <3>1. a \in L /\ a \in T /\ a[1] = "close_p"
      BY <2>5, <1>1, <2>1
    <3>2. d[a[2]] \in Fds \ {0, 1} /\ o[d[a[2]]] # 0
      BY <3>1, <2>2 DEF Ready
    <3>3. a[2] # h[2] /\ a[2] \in {1, 2}
      BY <3>1, <1>1, <1>5, <1>12 DEF Precedes
    <3>4. d[a[2]] # fd
      BY <3>3, <2>4
    <3> QED BY <3>2, <3>4 DEF Closes
  <2>6. Ready(K, q, d)
    BY <1>2, <1>4, <1>6, <1>9, <2>2, <2>4, <2>5 DEF Ready
  <2> QED BY <2>3, <2>6
<1>13. CASE h[1] = "exit_close"
  <2>1. \A b \in T : b[1] = "zombie"
    BY <1>1, <1>13 DEF Precedes
  <2>2. /\ ~Has(T, "fork") /\ ~Has(T, "dup_p") /\ ~Has(T, "close_up") /\ ~Has(T, "pipe")
        /\ ~Has(T, "close_p")
    BY <2>1 DEF Has
  <2>3. Linked(p, K)
    BY <1>2, <1>4, <1>6, <2>2 DEF Linked
  <2>4. \A a \in K : a[1] \notin {"close", "close_up", "close_p"}
    BY <1>1, <2>1
  <2>5. Ready(K, q, d)
    BY <1>2, <1>4, <1>9, <2>2, <2>4 DEF Ready
  <2> QED BY <2>3, <2>5
<1> QED BY <1>10, <1>11, <1>12, <1>13

LEMMA Close_fdKeeps == ASSUME PipesInv, NEW p \in Processes, Close_fd(p) PROVE PipesInv'
<1>a. PICK h : h = Head(todo[p])
  OBVIOUS
<1>b. PICK fd : fd = CASE h[1] = "close"      -> h[2]
                       [] h[1] = "exit_close" -> Lowest(Open(p))
                       [] OTHER               -> pfd[p][h[2]]
  OBVIOUS
<1>c. PICK f : f = ofile[p][fd]
  OBVIOUS
<1>d. PICK o, q, d, L : o = ofile[p] /\ q = ofile'[p] /\ d = pfd[p] /\ L = Left(p)
  OBVIOUS
<1> DEFINE again == h[1] = "exit_close" /\ Open(p) # {fd}
           s == IF again THEN << <<"exit_close">> >> ELSE <<>>
           A == IF again THEN { <<"exit_close">> } ELSE {}
<1>e. PICK u : u = Derefs(f, s)
  OBVIOUS
<1>1. /\ pstate[p] = "run" /\ todo[p] # <<>>
      /\ h[1] \in {"close", "close_up", "close_p", "exit_close"}
  BY <1>a DEF Close_fd, InProgram, At_op
<1>2. /\ ofile' = [ofile EXCEPT ![p][fd] = 0]
      /\ Deref_file(p, f, s)
  BY <1>a, <1>b, <1>c DEF Close_fd, Arg
<1>3. /\ ftable' = [ftable EXCEPT ![f] = IF ftable[f].ref > 1
                                           THEN [ftable[f] EXCEPT !.ref = ftable[f].ref - 1]
                                           ELSE NoFile]
      /\ Next_ops(p, u)
      /\ UNCHANGED <<pline, pipes, pfd, pstate>>
  BY <1>2, <1>e DEF Deref_file, userVars, Next_ops, Derefs, LastEnd
<1>4. Plan(s, A) /\ ExitOnly(h, A)
  <2> DEFINE e == <<"exit_close">>
  <2>1. Plan(<<e>>, {e}) /\ e[1] = "exit_close"
    BY PlanOne
  <2> HIDE DEF e
  <2>2. Plan(IF again THEN <<e>> ELSE <<>>, IF again THEN {e} ELSE {})
    BY <2>1, PlanNone
  <2>3. ExitOnly(h, IF again THEN {e} ELSE {})
    BY <2>1 DEF ExitOnly
  <2> QED BY <2>2, <2>3 DEF e
<1> HIDE DEF s
<1>5. PICK T, K : DerefTurn(p, h, f, A, T, K)
  <2>1. h[1] \in {"fileclose", "close", "close_up", "close_p", "exit_close"}
    BY <1>1
  <2> HIDE DEF A
  <2> QED BY <1>a, <1>e, <1>1, <1>3, <1>4, <2>1, DerefMoves
<1>6. L = {h} \union T /\ \A b \in T : Precedes(h, b)
  BY <1>5, <1>d DEF DerefTurn, First
<1>7. Linked(p, L) /\ Ready(L, o, d)
  BY <1>d DEF PipesInv, Plans
<1>8. o \in [Fds -> 0..NFILE] /\ 0 \in Fds /\ 1 \in Fds
  BY <1>d, PipesAssumption DEF PipesInv, PipesTypes, Fds
<1>9. fd \in Fds /\ o[fd] # 0
  <2>1. CASE h[1] = "close"
    <3>1. fd = h[2]
      BY <1>b, <2>1
    <3>2. h[2] \in {0, 1} /\ o[h[2]] # 0
      BY <1>6, <1>7, <2>1 DEF Linked, Ready
    <3> QED BY <3>1, <3>2, <1>8
  <2>2. CASE h[1] = "exit_close"
    <3>1. fd = Lowest(Open(p))
      BY <1>b, <2>2
    <3>2. Open(p) # {} /\ Open(p) \in SUBSET Nat
      BY <1>d, <1>6, <1>7, <2>2 DEF Ready, Has, Open, Fds
    <3>3. fd \in Open(p)
      BY <3>1, <3>2, Lowest_is_least
    <3> QED BY <3>3, <1>d DEF Open
  <2>3. CASE h[1] \in {"close_up", "close_p"}
    <3>1. fd = d[h[2]]
      BY <1>b, <1>d, <2>3
    <3>2. h[1] = "close_p" => ~Allocs(L)
      BY <1>6 DEF Allocs, Has, Precedes
    <3>3. d[h[2]] \in Fds /\ o[d[h[2]]] # 0
      BY <1>6, <1>7, <2>3, <3>2 DEF Ready
    <3> QED BY <3>1, <3>3
  <2> QED BY <1>1, <2>1, <2>2, <2>3
<1>10. f \in 1..NFILE /\ f = o[fd]
  BY <1>8, <1>9, <1>c, <1>d
<1>11. /\ ofile' \in [Processes -> [Fds -> 0..NFILE]]
       /\ \A r \in Processes \ {p} : ofile'[r] = ofile[r]
       /\ q[fd] = 0 /\ \A x \in Fds \ {fd} : q[x] = o[x]
  BY <1>2, <1>9, <1>d, PipesAssumption DEF PipesInv, PipesTypes
<1>12. Frame(p)
  BY <1>3, <1>11 DEF PipesInv, PipesTypes, Frame
<1>13. Closes(h, A, o, q, d, fd)
  <2>1. A # {} => \E x \in Fds : q[x] # 0
    <3>1. A # {} => Open(p) # {fd} /\ fd \in Open(p)
      BY <1>9, <1>d DEF Open
    <3>2. A # {} => \E x \in Open(p) : x # fd
      BY <3>1
    <3> QED BY <3>2, <1>11, <1>d DEF Open
  <2>2. h[1] = "close" => fd = h[2]
    BY <1>b
  <2>3. h[1] \in {"close_up", "close_p"} => fd = d[h[2]]
    BY <1>b, <1>d
  <2> QED BY <2>1, <2>2, <2>3, <1>9, <1>11 DEF Closes
<1> HIDE DEF A
<1>14. Linked(p, K) /\ Ready(K, q, d)
  BY <1>1, <1>4, <1>5, <1>7, <1>13, <1>d, ClosesReady
<1>15. Ready(K, ofile'[p], pfd'[p])
  BY <1>14, <1>3, <1>d
<1>16. \A a \in K : a[1] \notin {"pipe_f1", "pipe_mem"}
  BY <1>4, <1>5, <1>6 DEF DerefTurn, ExitOnly, Precedes
<1>17. \A a \in K : a[1] \in {"fork", "fileclose"} => a \in Left(p)
  BY <1>4, <1>5 DEF DerefTurn, ExitOnly, First
<1>18. \A e : Cites(Left(p), e) <=> Cites(K, e)
  <2>1. \A a \in K : a[1] # "fileclose"
    BY <1>1, <1>4, <1>5, <1>6 DEF DerefTurn, ExitOnly, Precedes
  <2>2. \A a \in L : a[1] \notin {"fileclose", "pipe_f1", "pipe_mem"}
    BY <1>1, <1>6 DEF Precedes
  <2> QED BY <2>1, <2>2, <1>16, <1>d DEF Cites, Refers
<1>19. \A r \in Processes : \A e : Cites(Left(r)', e) <=> Cites(Left(r), e)
  BY <1>18, <1>5 DEF DerefTurn, Moves
<1>20. ASSUME NEW e \in 1..NFILE
       PROVE  References(e)' = IF e = f THEN References(e) \ {<<p, fd>>} ELSE References(e)
  <2> DEFINE S == IF e = f THEN References(e) \ {<<p, fd>>} ELSE References(e)
  <2>1. S \subseteq Processes \X (0..NOFILE)
    BY HolderMember
  <2>2. NOFILE \notin Fds
    BY DEF Fds
  <2>3. \A r \in Processes, x \in Fds : <<r, x>> \in References(e) <=> ofile[r][x] = e
    BY HolderMember
  <2>4. \A r \in Processes, x \in Fds : <<r, x>> \in S <=> ofile'[r][x] = e
    <3> SUFFICES ASSUME NEW r \in Processes, NEW x \in Fds
                 PROVE  <<r, x>> \in S <=> ofile'[r][x] = e
      OBVIOUS
    <3>1. CASE r = p /\ x = fd
      <4>1. ofile'[r][x] = 0 /\ ofile[r][x] = f
        BY <3>1, <1>10, <1>11, <1>d
      <4>2. CASE e = f
        BY <4>1, <4>2, <3>1, <1>10
      <4>3. CASE e # f
        <5>1. <<r, x>> \notin S
          BY <4>1, <4>3, <2>3
        <5>2. e # 0
          OBVIOUS
        <5> QED BY <5>1, <5>2, <4>1
      <4> QED BY <4>2, <4>3
    <3>2. CASE ~(r = p /\ x = fd)
      <4>1. ofile'[r][x] = ofile[r][x]
        BY <3>2, <1>11, <1>d
      <4>2. <<r, x>> # <<p, fd>>
        BY <3>2
      <4> QED BY <4>1, <4>2, <2>3
    <3> QED BY <3>1, <3>2
  <2>5. \A r \in Processes : <<r, NOFILE>> \in S <=> Cites(Left(r)', e)
    BY <2>2, <1>9, <1>19, HolderMember
  <2> HIDE DEF S
  <2>6. References(e)' = S
    BY <2>1, <2>4, <2>5, HoldersNext
  <2> QED BY <2>6 DEF S
<1>21. <<p, fd>> \in References(f)
  BY <1>9, <1>10, <1>d, HolderMember
<1>22. /\ Moves(p, K) /\ \A g, w : ~Shutting(Left(p), g, w)
       /\ \A a \in K : a[1] = "pipeclose" =>
            LastEnd(f) /\ a[2] = ftable[f].pipe /\ a[3] = ftable[f].writable
       /\ LastEnd(f) => Shutting(K, ftable[f].pipe, ftable[f].writable)
  BY <1>5 DEF DerefTurn
<1>23. References(f)' = References(f) \ {<<p, fd>>}
       /\ \A e \in 1..NFILE : e # f => References(e)' = References(e)
  BY <1>10, <1>20
<1> QED BY <1>1, <1>3, <1>10, <1>12, <1>14, <1>15, <1>16, <1>17, <1>21, <1>22, <1>23, DerefKeeps

LEMMA PipeEnds ==
  ASSUME NEW b, IsPipe(b), NEW z
  PROVE  /\ [b EXCEPT !.writeopen = z] =
               [used |-> b.used, data |-> b.data, nread |-> b.nread, nwrite |-> b.nwrite,
                readopen |-> b.readopen, writeopen |-> z]
         /\ [b EXCEPT !.readopen = z] =
               [used |-> b.used, data |-> b.data, nread |-> b.nread, nwrite |-> b.nwrite,
                readopen |-> z, writeopen |-> b.writeopen]
<1>1. PICK b1, b2, b3, b4, b5, b6 :
        b = [used |-> b1, data |-> b2, nread |-> b3, nwrite |-> b4, readopen |-> b5,
             writeopen |-> b6]
  BY DEF IsPipe
<1>2. [b EXCEPT !.writeopen = z] =
        [used |-> b1, data |-> b2, nread |-> b3, nwrite |-> b4, readopen |-> b5,
         writeopen |-> z]
  BY <1>1
<1>3. [b EXCEPT !.readopen = z] =
        [used |-> b1, data |-> b2, nread |-> b3, nwrite |-> b4, readopen |-> z,
         writeopen |-> b6]
  BY <1>1
<1> QED BY <1>1, <1>2, <1>3

\* The pipe that pipeclose() leaves.
LEMMA PipeLeft ==
  ASSUME NEW b, IsPipe(b), NEW w \in BOOLEAN, NEW c, NEW kept,
         kept = IF w THEN [b EXCEPT !.writeopen = FALSE] ELSE [b EXCEPT !.readopen = FALSE],
         c = IF kept.readopen \/ kept.writeopen THEN kept ELSE NoPipe
  PROVE  /\ IsPipe(c)
         /\ c.readopen <=> b.readopen /\ w
         /\ c.writeopen <=> b.writeopen /\ ~w
         /\ b.used => (c.used <=> c.readopen \/ c.writeopen)
<1>1. b.used \in BOOLEAN /\ b.readopen \in BOOLEAN /\ b.writeopen \in BOOLEAN
  BY DEF IsPipe
<1>2. IsPipe(NoPipe) /\ ~NoPipe.readopen /\ ~NoPipe.writeopen /\ ~NoPipe.used
      /\ NoPipe.readopen = FALSE /\ NoPipe.writeopen = FALSE
  BY DEF IsPipe, NoPipe
<1>3. kept = [used |-> b.used, data |-> b.data, nread |-> b.nread, nwrite |-> b.nwrite,
              readopen |-> b.readopen /\ w, writeopen |-> b.writeopen /\ ~w]
  <2>1. CASE w
    <3>1. (b.readopen /\ w) = b.readopen /\ (b.writeopen /\ ~w) = FALSE
      BY <2>1, <1>1
    <3> QED BY <2>1, <3>1, PipeEnds
  <2>2. CASE ~w
    <3>1. (b.readopen /\ w) = FALSE /\ (b.writeopen /\ ~w) = b.writeopen
      BY <2>2, <1>1
    <3> QED BY <2>2, <3>1, PipeEnds
  <2> QED BY <2>1, <2>2
<1>4. IsPipe(kept) /\ kept.readopen = (b.readopen /\ w) /\ kept.writeopen = (b.writeopen /\ ~w)
      /\ kept.used = b.used
  BY <1>1, <1>3 DEF IsPipe
<1>5. CASE kept.readopen \/ kept.writeopen
  BY <1>4, <1>5
<1>6. CASE ~(kept.readopen \/ kept.writeopen)
  <2>1. c = NoPipe /\ (b.readopen /\ w) = FALSE /\ (b.writeopen /\ ~w) = FALSE
    BY <1>6, <1>4, <1>1
  <2> QED BY <2>1, <1>2
<1> QED BY <1>5, <1>6

LEMMA PipecloseKeeps == ASSUME PipesInv, NEW p \in Processes, pipeclose(p) PROVE PipesInv'
<1>a. PICK h, L, o, d : h = Head(todo[p]) /\ L = Left(p) /\ o = ofile[p] /\ d = pfd[p]
  OBVIOUS
<1>b. PICK g, w, b : g = h[2] /\ w = h[3] /\ b = pipes[g]
  OBVIOUS
<1>c. PICK kept : kept = IF w THEN [b EXCEPT !.writeopen = FALSE]
                              ELSE [b EXCEPT !.readopen = FALSE]
  OBVIOUS
<1>d. PICK c : c = IF kept.readopen \/ kept.writeopen THEN kept ELSE NoPipe
  OBVIOUS
<1>1. pstate[p] = "run" /\ todo[p] # <<>> /\ h[1] = "pipeclose"
  BY <1>a DEF pipeclose, At_op
<1>2. /\ pipes' = [pipes EXCEPT ![g] = c]
      /\ Next_ops(p, <<>>)
      /\ UNCHANGED <<pline, ftable, ofile, pfd, pstate>>
  BY <1>a, <1>b, <1>c, <1>d DEF pipeclose, userVars
<1>3. PICK T : First(p, h, T) /\ Moves(p, T)
  <2> DEFINE Z == {}
  <2>1. Follow(h, Z) /\ Plan(<<>>, Z)
    BY PlanNone DEF Follow
  <2> HIDE DEF Z
  <2>2. \E T : First(p, h, T) /\ Moves(p, Z \union T)
    BY <1>1, <1>2, <1>a, <2>1, TurnMoves DEF PipesInv, PipesTypes
  <2> QED BY <2>2 DEF Z
<1>4. L = {h} \union T /\ \A a \in T : Precedes(h, a)
  BY <1>3, <1>a DEF First
<1>5. /\ Has(T, "fork") <=> Has(L, "fork")
      /\ Has(T, "dup_p") <=> Has(L, "dup_p")
      /\ Has(T, "close") <=> Has(L, "close")
      /\ Has(T, "close_up") <=> Has(L, "close_up")
      /\ Has(T, "close_p") <=> Has(L, "close_p")
      /\ Has(T, "pipe") <=> Has(L, "pipe")
      /\ Has(T, "exit_close") <=> Has(L, "exit_close")
      /\ Allocs(T) <=> Allocs(L)
      /\ \A x : HasAt(T, "close_p", x) <=> HasAt(L, "close_p", x)
      /\ \A x : HasAt(T, "close_up", x) <=> HasAt(L, "close_up", x)
      /\ \A e : Cites(T, e) <=> Cites(L, e)
  BY <1>1, <1>4 DEF Has, HasAt, Allocs, Cites, Refers
<1>6. Linked(p, L) /\ Ready(L, o, d)
  BY <1>a DEF PipesInv, Plans
<1>7. Linked(p, T)
  BY <1>4, <1>5, <1>6 DEF Linked
<1>8. Ready(T, o, d)
  BY <1>4, <1>5, <1>6 DEF Ready
<1>9. g \in Pages /\ w \in BOOLEAN /\ Shutting(Left(p), g, w)
  <2>1. h \in Left(p)
    BY <1>4, <1>a
  <2> QED BY <2>1, <1>1, <1>b DEF PipesInv, Ends, Shutting, Shuts
<1>10. Ends
  BY DEF PipesInv
<1>11. IsPipe(b) /\ b.used
  <2>1. IsPipe(pipes[g])
    BY <1>9 DEF PipesInv, PipesTypes
  <2>2. Opened(g, w)
    BY <1>9, <1>10 DEF Ends
  <2> QED BY <2>1, <2>2, <1>9, <1>10, <1>b DEF Ends, Opened
<1>12. /\ IsPipe(c)
       /\ c.readopen <=> b.readopen /\ w
       /\ c.writeopen <=> b.writeopen /\ ~w
       /\ c.used <=> c.readopen \/ c.writeopen
  BY <1>9, <1>11, <1>c, <1>d, PipeLeft
<1>13. /\ DOMAIN pipes' = Pages /\ pipes'[g] = c
       /\ \A x \in Pages : x # g => pipes'[x] = pipes[x]
  BY <1>2, <1>9 DEF PipesInv, PipesTypes
<1>14. PipesTypes'
  <2>1. \A x \in Pages : IsPipe(pipes'[x])
    BY <1>12, <1>13 DEF PipesInv, PipesTypes
  <2> QED BY <2>1, <1>2, <1>3, <1>13 DEF PipesInv, PipesTypes, Moves, Lists, IsPipe
<1>15. Frame(p)
  BY <1>2 DEF PipesInv, PipesTypes, Frame
<1>16. Plans'
  <2>1. ofile'[p] = o /\ pfd'[p] = d
    BY <1>2, <1>a
  <2> QED BY <2>1, <1>3, <1>7, <1>8, <1>15, PlansKept DEF PipesInv
<1>17. Unforked'
  <2>1. \A r \in Processes : \A a \in Left(r) : a[1] = "fork" => a[2] \in Processes
    BY DEF PipesInv, Plans, Linked
  <2>2. \A a \in T : a[1] = "fork" => a \in Left(p) /\ a[2] \in Processes
    BY <2>1, <1>4, <1>a
  <2>3. NoneForked
    BY <1>2 DEF NoneForked
  <2> QED BY <1>1, <1>3, <1>15, <2>1, <2>2, <2>3, ParentExists, UnforkedKept DEF PipesInv
<1>18. \A e : References(e)' = References(e)
  BY <1>2, <1>3, <1>5, <1>a, HoldersSame
<1>19. FilesExact'
  BY <1>2, <1>18 DEF PipesInv, FilesExact
<1>20. Calls'
  <2>1. \A r \in Processes : \A f : Reserved(r, f)' <=> Reserved(r, f)
    BY <1>2, <1>18 DEF Reserved
  <2>2. \A r \in Processes : Left(r)' \subseteq Left(r)
    BY <1>3, <1>4, <1>a DEF Moves
  <2> QED BY <2>1, <2>2 DEF PipesInv, Calls
<1>21. Ends'
  <2>1. \A f, x, v : IsEnd(f, x, v)' <=> IsEnd(f, x, v)
    BY <1>2 DEF IsEnd
  <2>2. \A x, v : ~Shutting(Left(p), x, v)'
    <3>1. \A x, v : ~Shutting(T, x, v)
      BY <1>3, RestShuts
    <3> QED BY <3>1, <1>3 DEF Moves, Shutting
  <2>3. \A r \in Processes : r # p => \A x, v : Shutting(Left(r), x, v)' <=> Shutting(Left(r), x, v)
    BY <1>3 DEF Moves, Shutting
  <2>4. \A x, v : Shutting(Left(p), x, v) => x = g /\ v = w
    <3>1. \A x, v : ~Shutting(T, x, v)
      BY <1>3, RestShuts
    <3> QED BY <3>1, <1>1, <1>4, <1>a, <1>b DEF Shutting, Shuts
  <2>5. \A f \in 1..NFILE : ~IsEnd(f, g, w)
    BY <1>9, <1>10 DEF Ends
  <2>6. \A r \in Processes : r # p => ~Shutting(Left(r), g, w)
    BY <1>9, <1>10 DEF Ends
  <2>7. ~Opened(g, w)'
    BY <1>9, <1>12, <1>13 DEF Opened
  <2>8. ASSUME NEW x \in Pages, NEW v \in BOOLEAN, ~(x = g /\ v = w)
        PROVE  Opened(x, v)' <=> Opened(x, v)
    <3>1. CASE x = g
      <4>1. b.readopen \in BOOLEAN /\ b.writeopen \in BOOLEAN
            /\ c.readopen \in BOOLEAN /\ c.writeopen \in BOOLEAN
        BY <1>11, <1>12 DEF IsPipe
      <4>2. pipes'[x] = c /\ pipes[x] = b
        BY <3>1, <1>13, <1>b
      <4>3. CASE w
        <5>1. ~v /\ (c.readopen <=> b.readopen)
          BY <2>8, <3>1, <4>3, <1>12
        <5> QED BY <5>1, <4>1, <4>2 DEF Opened
      <4>4. CASE ~w
        <5>1. v /\ (c.writeopen <=> b.writeopen)
          BY <2>8, <3>1, <4>4, <1>9, <1>12
        <5> QED BY <5>1, <4>1, <4>2 DEF Opened
      <4> QED BY <4>3, <4>4
    <3>2. CASE x # g
      BY <3>2, <1>13 DEF Opened
    <3> QED BY <3>1, <3>2
  <2>9. ASSUME NEW x \in Pages, NEW v \in BOOLEAN
        PROVE  Opened(x, v)' <=> \/ \E e \in 1..NFILE : IsEnd(e, x, v)'
                                 \/ \E r \in Processes : Shutting(Left(r), x, v)'
    <3>1. CASE x = g /\ v = w
      BY <3>1, <2>1, <2>2, <2>3, <2>5, <2>6, <2>7
    <3>2. CASE ~(x = g /\ v = w)
      <4>1. Opened(x, v) <=> \/ \E e \in 1..NFILE : IsEnd(e, x, v)
                             \/ \E r \in Processes : Shutting(Left(r), x, v)
        BY <1>10 DEF Ends
      <4>2. ~Shutting(Left(p), x, v)
        BY <3>2, <2>4
      <4>3. Opened(x, v)' <=> Opened(x, v)
        BY <3>2, <2>8
      <4> QED BY <4>1, <4>2, <4>3, <2>1, <2>2, <2>3
    <3> QED BY <3>1, <3>2
  <2>10. ASSUME NEW x \in Pages, NEW v \in BOOLEAN
         PROVE  /\ \A e, k \in 1..NFILE : IsEnd(e, x, v)' /\ IsEnd(k, x, v)' => e = k
                /\ \A q, r \in Processes : Shutting(Left(q), x, v)' /\ Shutting(Left(r), x, v)' => q = r
                /\ \A e \in 1..NFILE, r \in Processes : ~(IsEnd(e, x, v)' /\ Shutting(Left(r), x, v)')
    <3>1. /\ \A e, k \in 1..NFILE : IsEnd(e, x, v) /\ IsEnd(k, x, v) => e = k
          /\ \A q, r \in Processes : Shutting(Left(q), x, v) /\ Shutting(Left(r), x, v) => q = r
          /\ \A e \in 1..NFILE, r \in Processes : ~(IsEnd(e, x, v) /\ Shutting(Left(r), x, v))
      BY <1>10 DEF Ends
    <3>2. \A r \in Processes : Shutting(Left(r), x, v)' => Shutting(Left(r), x, v)
      BY <2>2, <2>3
    <3> QED BY <3>1, <3>2, <2>1
  <2>11. \A x \in Pages : pipes'[x].used <=> pipes'[x].readopen \/ pipes'[x].writeopen
    BY <1>10, <1>12, <1>13 DEF Ends
  <2>12. /\ \A f \in 1..NFILE : ftable'[f].type = "pipe" => ftable'[f].pipe \in Pages
         /\ \A f \in 1..NFILE : ftable'[f].ref = 0 => ftable'[f].type = "none"
    BY <1>2, <1>10 DEF Ends
  <2>13. \A r \in Processes : \A a \in Left(r)' :
           a[1] = "pipeclose" => a[2] \in Pages /\ a[3] \in BOOLEAN
    <3>1. \A r \in Processes : Left(r)' \subseteq Left(r)
      BY <1>3, <1>4, <1>a DEF Moves
    <3> QED BY <3>1, <1>10 DEF Ends
  <2> QED BY <2>9, <2>10, <2>11, <2>12, <2>13 DEF Ends
<1> QED BY <1>14, <1>16, <1>17, <1>19, <1>20, <1>21 DEF PipesInv

LEMMA DupKeeps == ASSUME PipesInv, NEW p \in Processes, Dup(p) PROVE PipesInv'
<1>a. PICK h, L, o, d, q : h = Head(todo[p]) /\ L = Left(p) /\ o = ofile[p] /\ d = pfd[p]
                           /\ q = ofile'[p]
  OBVIOUS
<1>b. PICK f, fd : f = o[d[h[2]]] /\ fd = Lowest(Closed(p))
  OBVIOUS
<1>1. pstate[p] = "run" /\ todo[p] # <<>> /\ h[1] = "dup_p"
  BY <1>a DEF Dup, InProgram, At_op
<1>2. /\ ofile' = [ofile EXCEPT ![p][fd] = f]
      /\ ftable' = [ftable EXCEPT ![f].ref = ftable[f].ref + 1]
      /\ Next_ops(p, <<>>)
      /\ UNCHANGED <<pline, pipes, pfd, pstate>>
  BY <1>a, <1>b DEF Dup, Arg, userVars
<1>3. PICK T : First(p, h, T) /\ Moves(p, T)
  <2> DEFINE Z == {}
  <2>1. Follow(h, Z) /\ Plan(<<>>, Z)
    BY PlanNone DEF Follow
  <2> HIDE DEF Z
  <2>2. \E T : First(p, h, T) /\ Moves(p, Z \union T)
    BY <1>1, <1>2, <1>a, <2>1, TurnMoves DEF PipesInv, PipesTypes
  <2> QED BY <2>2 DEF Z
<1>4. L = {h} \union T /\ \A b \in T : Precedes(h, b)
  BY <1>3, <1>a DEF First
<1>5. Linked(p, L) /\ Ready(L, o, d)
  BY <1>a DEF PipesInv, Plans
<1>6. \A b \in T : b[1] \notin {"close", "dup_p", "pipe_f1", "pipe_mem", "pipeclose", "fileclose",
                                "exit_close"}
  BY <1>1, <1>4 DEF Precedes
<1>7. /\ Has(T, "fork") <=> Has(L, "fork")
      /\ ~Has(T, "dup_p") /\ ~Has(T, "close") /\ ~Has(L, "close") /\ Has(L, "dup_p")
      /\ Has(T, "close_up") <=> Has(L, "close_up")
      /\ Has(T, "close_p") <=> Has(L, "close_p")
      /\ Has(T, "pipe") <=> Has(L, "pipe")
      /\ ~Has(T, "exit_close")
      /\ Allocs(T) <=> Allocs(L)
      /\ \A x : HasAt(T, "close_p", x) <=> HasAt(L, "close_p", x)
      /\ \A x : HasAt(T, "close_up", x) <=> HasAt(L, "close_up", x)
      /\ \A e : ~Cites(T, e) /\ ~Cites(L, e)
  BY <1>1, <1>4, <1>6 DEF Has, HasAt, Allocs, Cites, Refers
<1>8. o \in [Fds -> 0..NFILE] /\ 0 \in Fds /\ 1 \in Fds
  BY <1>a, PipesAssumption DEF PipesInv, PipesTypes, Fds
<1>9. f \in 1..NFILE
  <2>1. h[2] \in {1, 2}
    BY <1>1, <1>4, <1>5 DEF Linked
  <2>2. HasAt(L, "close_up", h[2])
    BY <2>1, <1>5, <1>7 DEF Linked
  <2>3. d[h[2]] \in Fds /\ o[d[h[2]]] # 0
    BY <2>2, <1>5 DEF HasAt, Ready
  <2> QED BY <2>3, <1>8, <1>b
<1>10. fd \in Fds /\ o[fd] = 0 /\ \A x \in Fds : o[x] = 0 => fd <= x
  <2>1. Closed(p) = {x \in Fds : o[x] = 0}
    BY <1>a DEF Closed
  <2>2. Closed(p) # {} /\ Closed(p) \in SUBSET Nat
    BY <2>1, <1>5, <1>7 DEF Ready, Fds
  <2>3. fd \in Closed(p) /\ \A x \in Closed(p) : fd <= x
    BY <2>2, <1>b, Lowest_is_least
  <2> QED BY <2>1, <2>3
<1>11. /\ ofile' \in [Processes -> [Fds -> 0..NFILE]]
       /\ \A r \in Processes \ {p} : ofile'[r] = ofile[r]
       /\ q[fd] = f /\ \A x \in Fds \ {fd} : q[x] = o[x]
  BY <1>2, <1>9, <1>10, <1>a DEF PipesInv, PipesTypes
<1>12. Frame(p)
  BY <1>2, <1>11 DEF PipesInv, PipesTypes, Frame
<1>13. Linked(p, T)
  BY <1>4, <1>5, <1>6, <1>7 DEF Linked
<1>14. Ready(T, q, d)
  <2>1. \A x \in Fds : o[x] # 0 => q[x] # 0
    BY <1>10, <1>11
  <2>2. \A a \in T : a[1] = "close_up" \/ (a[1] = "close_p" /\ ~Allocs(T)) =>
          d[a[2]] \in Fds \ {0, 1} /\ q[d[a[2]]] # 0
    BY <1>4, <1>5, <1>7, <2>1 DEF Ready
  <2>3. q[0] # 0
    <3>1. CASE o[0] = 0
      <4>1. fd = 0
        BY <3>1, <1>8, <1>10 DEF Fds
      <4> QED BY <4>1, <1>9, <1>11
    <3>2. CASE o[0] # 0
      BY <3>2, <1>8, <2>1
    <3> QED BY <3>1, <3>2
  <2>4. Allocs(T) \/ Has(T, "fork") => q[1] # 0
    BY <1>5, <1>7, <1>8, <2>1 DEF Ready
  <2> QED BY <2>2, <2>3, <2>4, <1>5, <1>6, <1>7 DEF Ready
<1>15. ftable[f].ref \in Nat /\ ftable[f].ref + 1 \in Nat
  <2>1. ftable[f] \in File
    BY <1>9 DEF PipesInv, PipesTypes
  <2> QED BY <2>1 DEF File
<1>16. /\ ftable' \in [1..NFILE -> File] /\ ftable'[f].ref = ftable[f].ref + 1
       /\ \A e \in 1..NFILE : e # f => ftable'[e] = ftable[e]
       /\ \A e \in 1..NFILE : /\ ftable'[e].type = ftable[e].type
                              /\ ftable'[e].pipe = ftable[e].pipe
                              /\ ftable'[e].writable = ftable[e].writable
  BY <1>2, <1>9, <1>15, NextFiles
<1>17. PipesTypes'
  BY <1>2, <1>3, <1>11, <1>16 DEF PipesInv, PipesTypes, Moves, IsPipe, Lists
<1>18. Plans'
  <2>1. pfd'[p] = d
    BY <1>2, <1>a
  <2> QED BY <2>1, <1>a, <1>3, <1>12, <1>13, <1>14, PlansKept DEF PipesInv
<1>19. Unforked'
  <2>1. \A r \in Processes : \A a \in Left(r) : a[1] = "fork" => a[2] \in Processes
    BY DEF PipesInv, Plans, Linked
  <2>2. \A a \in T : a[1] = "fork" => a \in Left(p) /\ a[2] \in Processes
    BY <2>1, <1>4, <1>a
  <2>3. NoneForked
    BY <1>2 DEF NoneForked
  <2> QED BY <1>1, <1>3, <1>12, <2>1, <2>2, <2>3, ParentExists, UnforkedKept DEF PipesInv
<1>20. \A r \in Processes : \A e : Cites(Left(r)', e) <=> Cites(Left(r), e)
  BY <1>3, <1>7, <1>a DEF Moves
<1>21. ASSUME NEW e \in 1..NFILE
       PROVE  References(e)' = IF e = f THEN References(e) \union {<<p, fd>>} ELSE References(e)
  <2> DEFINE S == IF e = f THEN References(e) \union {<<p, fd>>} ELSE References(e)
  <2>1. fd \in 0..NOFILE /\ NOFILE \notin Fds
    BY <1>10, PipesAssumption DEF Fds
  <2>2. S \subseteq Processes \X (0..NOFILE)
    BY <2>1, HolderMember
  <2>3. \A r \in Processes, x \in Fds : <<r, x>> \in References(e) <=> ofile[r][x] = e
    BY HolderMember
  <2>4. \A r \in Processes, x \in Fds : <<r, x>> \in S <=> ofile'[r][x] = e
    <3> SUFFICES ASSUME NEW r \in Processes, NEW x \in Fds
                 PROVE  <<r, x>> \in S <=> ofile'[r][x] = e
      OBVIOUS
    <3>1. CASE r = p /\ x = fd
      <4>1. ofile'[r][x] = f /\ ofile[r][x] = 0
        BY <3>1, <1>10, <1>11, <1>a
      <4>2. <<r, x>> \notin References(e)
        BY <4>1, <2>3
      <4>3. <<r, x>> \in S <=> e = f
        BY <4>2, <3>1
      <4> QED BY <4>1, <4>3
    <3>2. CASE ~(r = p /\ x = fd)
      <4>1. ofile'[r][x] = ofile[r][x]
        BY <3>2, <1>11, <1>a
      <4>2. <<r, x>> # <<p, fd>>
        BY <3>2
      <4> QED BY <4>1, <4>2, <2>3
    <3> QED BY <3>1, <3>2
  <2>5. \A r \in Processes : <<r, NOFILE>> \in S <=> Cites(Left(r)', e)
    BY <2>1, <1>10, <1>20, HolderMember
  <2> HIDE DEF S
  <2>6. References(e)' = S
    BY <2>2, <2>4, <2>5, HoldersNext
  <2> QED BY <2>6 DEF S
<1>22. <<p, fd>> \notin References(f) /\ <<p, d[h[2]]>> \in References(f)
  <2>1. h[2] \in {1, 2}
    BY <1>1, <1>4, <1>5 DEF Linked
  <2>2. d[h[2]] \in Fds
    <3>1. HasAt(L, "close_up", h[2])
      BY <2>1, <1>5, <1>7 DEF Linked
    <3> QED BY <3>1, <1>5 DEF HasAt, Ready
  <2>3. \A x \in Fds : <<p, x>> \in References(f) <=> o[x] = f
    BY <1>a, HolderMember
  <2> QED BY <2>2, <2>3, <1>9, <1>10, <1>b
<1>23. FilesExact'
  <2>1. IsFiniteSet(References(f))
    BY HoldersFinite
  <2>2. Cardinality(References(f) \union {<<p, fd>>}) = Cardinality(References(f)) + 1
    BY <2>1, <1>22, FS_AddElement
  <2>3. ftable'[f].ref = Cardinality(References(f)')
    BY <2>2, <1>9, <1>16, <1>21 DEF PipesInv, FilesExact
  <2> SUFFICES ASSUME NEW e \in 1..NFILE PROVE ftable'[e].ref = Cardinality(References(e)')
    BY DEF FilesExact
  <2>4. CASE e = f
    BY <2>3, <2>4
  <2>5. CASE e # f
    BY <2>5, <1>16, <1>21 DEF PipesInv, FilesExact
  <2> QED BY <2>4, <2>5
<1>24. Calls'
  <2>1. ASSUME NEW r \in Processes, NEW x, Reserved(r, x) PROVE Reserved(r, x)'
    <3>1. x # f
      <4>1. d[h[2]] # NOFILE
        <5>1. HasAt(L, "close_up", h[2])
          BY <1>1, <1>4, <1>5, <1>7 DEF Linked
        <5> QED BY <5>1, <1>5 DEF HasAt, Ready, Fds
      <4>2. CASE x = f
        BY <2>1, <4>1, <4>2, <1>22 DEF Reserved
      <4> QED BY <4>2
    <3> QED BY <2>1, <3>1, <1>16, <1>21 DEF Reserved
  <2>2. /\ \A a \in T : a[1] = "fileclose" => a[2] \in 1..NFILE
        /\ \A a \in T : a[1] \in {"pipe_f1", "pipe_mem"} => Reserved(p, a[2])'
        /\ \A a \in T : a[1] = "pipe_mem" => Reserved(p, a[3])' /\ a[2] # a[3]
    BY <1>6
  <2> QED BY <1>3, <2>1, <2>2, CallsKept DEF PipesInv
<1>25. SameEnds
  <2>1. \A e \in 1..NFILE : \A g, w : IsEnd(e, g, w)' <=> IsEnd(e, g, w)
    BY <1>16 DEF IsEnd
  <2>2. \A g, w : Shutting(T, g, w) <=> Shutting(L, g, w)
    BY <1>1, <1>4 DEF Shutting, Shuts
  <2>3. \A r \in Processes : \A g, w : Shutting(Left(r)', g, w) <=> Shutting(Left(r), g, w)
    BY <2>2, <1>3, <1>a DEF Moves
  <2>4. \A r \in Processes : Left(r)' \subseteq Left(r)
    BY <1>3, <1>4, <1>a DEF Moves
  <2>5. \A r \in Processes : \A b \in Left(r)' :
          b[1] = "pipeclose" => b[2] \in Pages /\ b[3] \in BOOLEAN
    BY <2>4 DEF PipesInv, Ends
  <2>6. \A e \in 1..NFILE : ftable'[e].type = "pipe" => ftable'[e].pipe \in Pages
    BY <1>16 DEF PipesInv, Ends
  <2>7. \A e \in 1..NFILE : ftable'[e].ref = 0 => ftable'[e].type = "none"
    BY <1>15, <1>16 DEF PipesInv, Ends
  <2> QED BY <2>1, <2>3, <2>5, <2>6, <2>7 DEF SameEnds
<1>26. Ends'
  BY <1>2, <1>25, EndsKept, PipesStand
<1> QED BY <1>17, <1>18, <1>19, <1>23, <1>24, <1>26 DEF PipesInv

LEMMA NewPipe ==
  ASSUME NEW x, NEW y, NEW z
  PROVE  [NoPipe EXCEPT !.used = x, !.readopen = y, !.writeopen = z] =
           [used |-> x, data |-> NoPipe.data, nread |-> 0, nwrite |-> 0,
            readopen |-> y, writeopen |-> z]
<1>1. PICK v, w, b1 : /\ v = FALSE /\ w = FALSE /\ b1 = FALSE
  OBVIOUS
<1>2. PICK t : t = NoPipe.data
  OBVIOUS
<1>3. NoPipe = [used |-> b1, data |-> t, nread |-> 0, nwrite |-> 0, readopen |-> v,
                writeopen |-> w]
  BY <1>1, <1>2 DEF NoPipe
<1> DEFINE b == [NoPipe EXCEPT !.used = x]
           c == [b EXCEPT !.readopen = y]
<1>4. b = [used |-> x, data |-> t, nread |-> 0, nwrite |-> 0, readopen |-> v, writeopen |-> w]
  BY <1>3
<1>5. [NoPipe EXCEPT !.used = x, !.readopen = y, !.writeopen = z]
      = [c EXCEPT !.writeopen = z]
  BY <1>3
<1> HIDE DEF b
<1>6. c = [used |-> x, data |-> t, nread |-> 0, nwrite |-> 0, readopen |-> y, writeopen |-> w]
  BY <1>4
<1> HIDE DEF c
<1>7. [c EXCEPT !.writeopen = z] =
        [used |-> x, data |-> t, nread |-> 0, nwrite |-> 0, readopen |-> y, writeopen |-> z]
  BY <1>6
<1> QED BY <1>2, <1>5, <1>7

EndFile(g, w) == [ref |-> 1, type |-> "pipe", pipe |-> g, writable |-> w]

\* pipealloc() made a pipe in page g, with the files f0 and f1, at the step h.
MakesPipe(h, f0, f1, g) ==
  /\ h[1] = "pipe_mem" /\ f0 = h[2] /\ f1 = h[3] /\ g \in Pages /\ ~pipes[g].used
  /\ \E c : /\ c = [used |-> TRUE, data |-> NoPipe.data, nread |-> 0, nwrite |-> 0,
                     readopen |-> TRUE, writeopen |-> TRUE]
            /\ pipes' = [pipes EXCEPT ![g] = c]
  /\ ftable' = [ftable EXCEPT ![f0] = EndFile(g, FALSE), ![f1] = EndFile(g, TRUE)]
  /\ UNCHANGED <<pline, pstate>>

\* What process p does next, and who refers to the two files.
MadeSteps(p, K, f0, f1) ==
  /\ \A a \in K : a[1] \notin {"pipe_f1", "pipe_mem", "pipeclose"}
  /\ \A a \in K : a[1] = "fork" => a \in Left(p)
  /\ \A a \in K : a[1] = "fileclose" => a[2] \in 1..NFILE
  /\ \A e \in (1..NFILE) \ {f0, f1} : References(e)' = References(e)
  /\ Cardinality(References(f0)') = 1 /\ Cardinality(References(f1)') = 1

LEMMA PipeMade ==
  ASSUME PipesInv, NEW p \in Processes, pstate[p] = "run", NEW h, NEW T, First(p, h, T),
         NEW f0, NEW f1, NEW g, MakesPipe(h, f0, f1, g),
         NEW K, Moves(p, K), Frame(p), Linked(p, K), Ready(K, ofile'[p], pfd'[p]),
         MadeSteps(p, K, f0, f1)
  PROVE  PipesInv'
<1>a. /\ h[1] = "pipe_mem" /\ f0 = h[2] /\ f1 = h[3] /\ g \in Pages /\ ~pipes[g].used
      /\ ftable' = [ftable EXCEPT ![f0] = EndFile(g, FALSE), ![f1] = EndFile(g, TRUE)]
      /\ UNCHANGED <<pline, pstate>>
  BY DEF MakesPipe
<1>b. PICK c : /\ c = [used |-> TRUE, data |-> NoPipe.data, nread |-> 0, nwrite |-> 0,
                       readopen |-> TRUE, writeopen |-> TRUE]
               /\ pipes' = [pipes EXCEPT ![g] = c]
  BY DEF MakesPipe
<1>c. /\ \A a \in K : a[1] \notin {"pipe_f1", "pipe_mem", "pipeclose"}
      /\ \A a \in K : a[1] = "fork" => a \in Left(p)
      /\ \A a \in K : a[1] = "fileclose" => a[2] \in 1..NFILE
      /\ \A e \in (1..NFILE) \ {f0, f1} : References(e)' = References(e)
      /\ Cardinality(References(f0)') = 1 /\ Cardinality(References(f1)') = 1
  BY DEF MadeSteps
<1>1. h \in Left(p) /\ \A b \in T : Precedes(h, b)
  BY DEF First
<1>2. Reserved(p, f0) /\ Reserved(p, f1) /\ f0 # f1
  BY <1>1, <1>a DEF PipesInv, Calls
<1>3. f0 \in 1..NFILE /\ f1 \in 1..NFILE /\ ftable[f0].type = "none" /\ ftable[f1].type = "none"
  BY <1>2 DEF Reserved
<1>4. Ends
  BY DEF PipesInv
<1>5. EndFile(g, FALSE) \in File /\ EndFile(g, TRUE) \in File
  BY <1>a DEF EndFile, File
<1>6. /\ ftable' \in [1..NFILE -> File]
      /\ ftable'[f0] = EndFile(g, FALSE) /\ ftable'[f1] = EndFile(g, TRUE)
      /\ \A e \in 1..NFILE : e # f0 /\ e # f1 => ftable'[e] = ftable[e]
  BY <1>2, <1>3, <1>5, <1>a DEF PipesInv, PipesTypes
<1>7. /\ ftable'[f0].ref = 1 /\ ftable'[f0].type = "pipe" /\ ftable'[f0].pipe = g
      /\ ftable'[f0].writable = FALSE
      /\ ftable'[f1].ref = 1 /\ ftable'[f1].type = "pipe" /\ ftable'[f1].pipe = g
      /\ ftable'[f1].writable = TRUE
  <2>1. ftable'[f0] = EndFile(g, FALSE) /\ ftable'[f1] = EndFile(g, TRUE)
    BY <1>6
  <2>2. EndFile(g, FALSE).writable = FALSE /\ EndFile(g, TRUE).writable = TRUE
    BY DEF EndFile
  <2>3. ftable'[f0].writable = FALSE /\ ftable'[f1].writable = TRUE
    BY <2>1, <2>2, Zenon
  <2>4. \A w : /\ EndFile(g, w).ref = 1 /\ EndFile(g, w).type = "pipe"
              /\ EndFile(g, w).pipe = g
    BY DEF EndFile
  <2>5. /\ ftable'[f0].ref = 1 /\ ftable'[f0].type = "pipe" /\ ftable'[f0].pipe = g
        /\ ftable'[f1].ref = 1 /\ ftable'[f1].type = "pipe" /\ ftable'[f1].pipe = g
    BY <2>1, <2>4, Zenon
  <2> QED BY <2>3, <2>5
<1>8. IsPipe(c) /\ c.used /\ c.readopen /\ c.writeopen
  BY <1>b DEF IsPipe
<1>9. /\ DOMAIN pipes' = Pages /\ pipes'[g] = c
      /\ \A x \in Pages : x # g => pipes'[x] = pipes[x]
  BY <1>a, <1>b DEF PipesInv, PipesTypes
<1>10. PipesTypes'
  <2>1. \A x \in Pages : IsPipe(pipes'[x])
    BY <1>8, <1>9 DEF PipesInv, PipesTypes
  <2>2. /\ ftable' \in [1..NFILE -> File] /\ DOMAIN pipes' = Pages
        /\ ofile' \in [Processes -> [Fds -> 0..NFILE]]
        /\ pfd' \in [Processes -> Fds \X Fds] /\ Lists'
    BY <1>6, <1>9 DEF Moves, Frame
  <2>3. /\ \E l \in Pipelines : pline' = l.cmds
        /\ pstate' \in [Processes -> {"unused", "run", "zombie", "reaped"}]
    BY <1>a DEF PipesInv, PipesTypes
  <2> QED BY <2>1, <2>2, <2>3 DEF PipesTypes, IsPipe
<1>11. Plans'
  BY PlansKept DEF PipesInv
<1>12. Unforked'
  <2>1. \A r \in Processes : \A a \in Left(r) : a[1] = "fork" => a[2] \in Processes
    BY DEF PipesInv, Plans, Linked
  <2>2. \A a \in K : a[1] = "fork" => a \in Left(p) /\ a[2] \in Processes
    BY <2>1, <1>c
  <2>3. NoneForked
    BY <1>a DEF NoneForked
  <2> QED BY <2>1, <2>2, <2>3, ParentExists, UnforkedKept DEF PipesInv
<1>13. FilesExact'
  <2> SUFFICES ASSUME NEW e \in 1..NFILE PROVE ftable'[e].ref = Cardinality(References(e)')
    BY DEF FilesExact
  <2>1. ftable'[f0].ref = Cardinality(References(f0)') /\ ftable'[f1].ref = Cardinality(References(f1)')
    BY <1>7, <1>c
  <2>2. CASE e = f0 \/ e = f1
    BY <2>1, <2>2
  <2>3. CASE e # f0 /\ e # f1
    BY <2>3, <1>6, <1>c DEF PipesInv, FilesExact
  <2> QED BY <2>2, <2>3
<1>14. Calls'
  <2>1. ASSUME NEW r \in Processes \ {p}, NEW x, Reserved(r, x) PROVE Reserved(r, x)'
    <3>1. x # f0 /\ x # f1
      <4>1. References(x) = {<<r, NOFILE>>} /\ <<r, NOFILE>> # <<p, NOFILE>>
        BY <2>1 DEF Reserved
      <4>2. References(f0) = {<<p, NOFILE>>} /\ References(f1) = {<<p, NOFILE>>}
        BY <1>2 DEF Reserved
      <4> QED BY <4>1, <4>2
    <3> QED BY <2>1, <3>1, <1>6, <1>c DEF Reserved
  <2> QED BY <2>1, CallsKept, <1>c DEF PipesInv
<1>15. Ends'
  <2>1. \A x, v : IsEnd(f0, x, v)' <=> x = g /\ v = FALSE
    BY <1>7 DEF IsEnd
  <2>2. \A x, v : IsEnd(f1, x, v)' <=> x = g /\ v = TRUE
    BY <1>7 DEF IsEnd
  <2>3. \A e \in 1..NFILE : e # f0 /\ e # f1 => \A x, v : IsEnd(e, x, v)' <=> IsEnd(e, x, v)
    BY <1>6 DEF IsEnd
  <2>4. \A x, v : ~Shutting(Left(p), x, v) /\ ~Shutting(Left(p), x, v)'
    <3>1. \A x, v : ~Shutting(T, x, v)
      BY RestShuts
    <3>2. \A x, v : ~Shutting(Left(p), x, v)
      BY <3>1, <1>a DEF First, Shutting, Shuts
    <3>3. \A x, v : ~Shutting(Left(p), x, v)'
      BY <1>c DEF Moves, Shutting, Shuts
    <3> QED BY <3>2, <3>3
  <2>5. \A r \in Processes : \A x, v : Shutting(Left(r), x, v)' <=> Shutting(Left(r), x, v)
    <3>1. \A r \in Processes : r # p => \A x, v : Shutting(Left(r), x, v)' <=> Shutting(Left(r), x, v)
      BY DEF Moves, Shutting
    <3> QED BY <3>1, <2>4
  <2>6. \A x, v : ~IsEnd(f0, x, v) /\ ~IsEnd(f1, x, v)
    BY <1>3 DEF IsEnd
  <2>7. \A v \in BOOLEAN : /\ ~Opened(g, v)
                           /\ \A e \in 1..NFILE : ~IsEnd(e, g, v)
                           /\ \A r \in Processes : ~Shutting(Left(r), g, v)
    <3>1. \A v \in BOOLEAN : ~Opened(g, v)
      BY <1>4, <1>a DEF Ends, Opened
    <3> QED BY <3>1, <1>4, <1>a DEF Ends
  <2>8. \A v \in BOOLEAN : Opened(g, v)'
    BY <1>8, <1>9 DEF Opened
  <2>9. \A x \in Pages, v \in BOOLEAN : x # g => (Opened(x, v)' <=> Opened(x, v))
    BY <1>9 DEF Opened
  <2>10. ASSUME NEW x \in Pages, NEW v \in BOOLEAN
         PROVE  Opened(x, v)' <=> \/ \E e \in 1..NFILE : IsEnd(e, x, v)'
                                  \/ \E r \in Processes : Shutting(Left(r), x, v)'
    <3>1. CASE x = g
      <4>1. IsEnd(f0, x, v)' \/ IsEnd(f1, x, v)'
        BY <3>1, <2>1, <2>2
      <4> QED BY <4>1, <3>1, <2>8, <1>3
    <3>2. CASE x # g
      <4>1. Opened(x, v) <=> \/ \E e \in 1..NFILE : IsEnd(e, x, v)
                             \/ \E r \in Processes : Shutting(Left(r), x, v)
        BY <1>4 DEF Ends
      <4>2. \A e \in 1..NFILE : IsEnd(e, x, v)' <=> IsEnd(e, x, v)
        BY <3>2, <2>1, <2>2, <2>3, <2>6
      <4>3. Opened(x, v)' <=> Opened(x, v)
        BY <3>2, <2>9
      <4> QED BY <4>1, <4>2, <4>3, <2>5
    <3> QED BY <3>1, <3>2
  <2>11. ASSUME NEW x \in Pages, NEW v \in BOOLEAN
         PROVE  /\ \A e, k \in 1..NFILE : IsEnd(e, x, v)' /\ IsEnd(k, x, v)' => e = k
                /\ \A q, r \in Processes : Shutting(Left(q), x, v)' /\ Shutting(Left(r), x, v)' => q = r
                /\ \A e \in 1..NFILE, r \in Processes : ~(IsEnd(e, x, v)' /\ Shutting(Left(r), x, v)')
    <3>1. /\ \A e, k \in 1..NFILE : IsEnd(e, x, v) /\ IsEnd(k, x, v) => e = k
          /\ \A q, r \in Processes : Shutting(Left(q), x, v) /\ Shutting(Left(r), x, v) => q = r
          /\ \A e \in 1..NFILE, r \in Processes : ~(IsEnd(e, x, v) /\ Shutting(Left(r), x, v))
      BY <1>4 DEF Ends
    <3>2. CASE x = g
      <4>1. \A e \in 1..NFILE : IsEnd(e, x, v)' => e = IF v THEN f1 ELSE f0
        BY <3>2, <2>1, <2>2, <2>3, <2>7
      <4>2. \A r \in Processes : ~Shutting(Left(r), x, v)'
        BY <3>2, <2>5, <2>7
      <4> QED BY <4>1, <4>2
    <3>3. CASE x # g
      <4>1. \A e \in 1..NFILE : IsEnd(e, x, v)' <=> IsEnd(e, x, v)
        BY <3>3, <2>1, <2>2, <2>3, <2>6
      <4> QED BY <4>1, <3>1, <2>5
    <3> QED BY <3>2, <3>3
  <2>12. \A x \in Pages : pipes'[x].used <=> pipes'[x].readopen \/ pipes'[x].writeopen
    BY <1>4, <1>8, <1>9 DEF Ends
  <2>13. \A e \in 1..NFILE : ftable'[e].type = "pipe" => ftable'[e].pipe \in Pages
    <3> SUFFICES ASSUME NEW e \in 1..NFILE, ftable'[e].type = "pipe" PROVE ftable'[e].pipe \in Pages
      OBVIOUS
    <3>1. CASE e = f0 \/ e = f1
      BY <3>1, <1>7, <1>a
    <3>2. CASE ~(e = f0 \/ e = f1)
      <4>1. ftable'[e] = ftable[e]
        BY <3>2, <1>6
      <4>2. ftable[e].type = "pipe" => ftable[e].pipe \in Pages
        BY <1>4 DEF Ends
      <4> QED BY <4>1, <4>2
    <3> QED BY <3>1, <3>2
  <2>14. \A e \in 1..NFILE : ftable'[e].ref = 0 => ftable'[e].type = "none"
    <3> SUFFICES ASSUME NEW e \in 1..NFILE, ftable'[e].ref = 0 PROVE ftable'[e].type = "none"
      OBVIOUS
    <3>1. e # f0 /\ e # f1
      BY <1>7
    <3>2. ftable[e].ref = 0 => ftable[e].type = "none"
      BY <1>4 DEF Ends
    <3> QED BY <3>1, <3>2, <1>6
  <2>15. \A r \in Processes : \A b \in Left(r)' :
           b[1] = "pipeclose" => b[2] \in Pages /\ b[3] \in BOOLEAN
    BY <1>4, <1>c DEF Ends, Moves
  <2> QED BY <2>10, <2>11, <2>12, <2>13, <2>14, <2>15 DEF Ends
<1> QED BY <1>10, <1>11, <1>12, <1>13, <1>14, <1>15 DEF PipesInv

\* Two descriptors for the ends of a pipe.
LEMMA TwoClosed ==
  ASSUME NEW p, NEW fd0, NEW fd1, fd0 = Lowest(Closed(p)), fd1 = Lowest(Closed(p) \ {fd0}),
         ~(Cardinality(Closed(p)) < 2)
  PROVE  fd0 \in Closed(p) /\ fd1 \in Closed(p) /\ fd0 # fd1
<1> DEFINE S == Closed(p)
<1>1. S \subseteq 0..NOFILE-1 /\ S \subseteq Nat
  BY DEF Closed, Fds
<1>2. IsFiniteSet(0..NOFILE-1)
  BY PipesAssumption, FS_Interval
<1> HIDE DEF S
<1>3. IsFiniteSet(S) /\ Cardinality(S) \in Nat
  BY <1>1, <1>2, FS_Subset, FS_CardinalityType
<1>4. Cardinality(S) >= 2
  BY <1>3 DEF S
<1>5. S # {}
  BY <1>3, <1>4, FS_EmptySet
<1>6. fd0 \in S
  BY <1>1, <1>5, Lowest_is_least DEF S
<1>7. Cardinality(S \ {fd0}) = Cardinality(S) - 1
  BY <1>3, <1>6, FS_RemoveElement
<1>8. S \ {fd0} # {}
  <2>1. Cardinality(S \ {fd0}) # 0
    BY <1>3, <1>4, <1>7
  <2> QED BY <2>1, FS_EmptySet
<1>9. fd1 \in S \ {fd0}
  <2>1. S \ {fd0} \in SUBSET Nat /\ fd1 = Lowest(S \ {fd0})
    BY <1>1 DEF S
  <2> QED BY <2>1, <1>8, Lowest_is_least
<1> QED BY <1>6, <1>9 DEF S

LEMMA PipeallocKeeps == ASSUME PipesInv, NEW p \in Processes, pipealloc(p) PROVE PipesInv'
<1>a. PICK h, L, o, d, q : h = Head(todo[p]) /\ L = Left(p) /\ o = ofile[p] /\ d = pfd[p]
                           /\ q = ofile'[p]
  OBVIOUS
<1>b. PICK f0, f1, free, g, fd0, fd1 :
        /\ f0 = h[2] /\ f1 = h[3] /\ free = {x \in Pages : ~pipes[x].used}
        /\ g = CHOOSE x \in free : TRUE
        /\ fd0 = Lowest(Closed(p)) /\ fd1 = Lowest(Closed(p) \ {fd0})
  OBVIOUS
<1>c. PICK c0, c1, x : c0 = <<"fileclose", f0>> /\ c1 = <<"fileclose", f1>> /\ x = <<"exit">>
  OBVIOUS
<1> DEFINE A == {c0, c1, x}
<1>1. pstate[p] = "run" /\ todo[p] # <<>> /\ h[1] = "pipe_mem" /\ UNCHANGED <<pline, pstate>>
  BY <1>a DEF pipealloc, At_op, userVars
<1>2. PICK T : First(p, h, T) /\ (Follow(h, {}) /\ Next_ops(p, <<>>) => Moves(p, T))
  <2> DEFINE Z == {}
  <2>1. Plan(<<>>, Z)
    BY PlanNone
  <2> HIDE DEF Z
  <2>2. \E T : First(p, h, T) /\ (Follow(h, Z) /\ Next_ops(p, <<>>) => Moves(p, Z \union T))
    BY <1>1, <1>a, <2>1, TurnMoves DEF PipesInv, PipesTypes
  <2> QED BY <2>2 DEF Z
<1>3. L = {h} \union T /\ \A b \in T : Precedes(h, b)
  BY <1>2, <1>a DEF First
<1>4. Reserved(p, f0) /\ Reserved(p, f1) /\ f0 # f1 /\ f0 \in 1..NFILE /\ f1 \in 1..NFILE
  BY <1>1, <1>3, <1>a, <1>b DEF PipesInv, Calls, Reserved
<1>5. /\ c0[1] = "fileclose" /\ c0[2] = f0 /\ c1[1] = "fileclose" /\ c1[2] = f1 /\ x[1] = "exit"
  BY <1>c
<1>6. Plan(<<c0, c1, x>>, A)
  <2>1. Precedes(c0, c1) /\ Precedes(c0, x) /\ Precedes(c1, x)
    BY <1>4, <1>5 DEF Precedes
  <2> QED BY <2>1, PlanThree
<1>7. \A e : ~Cites(T, e)
  BY <1>1, <1>2, RestCites
<1>8. \A e : Cites(L, e) <=> e = f0 \/ e = f1
  BY <1>1, <1>3, <1>7, <1>b DEF Cites, Refers
<1>9. \A e : Cites(A, e) <=> e = f0 \/ e = f1
  BY <1>5 DEF Cites, Refers
<1>10. \A y, v : ~Shutting(Left(p), y, v)
  <2>1. \A y, v : ~Shutting(T, y, v)
    BY <1>2, RestShuts
  <2> QED BY <2>1, <1>1, <1>3, <1>a DEF Shutting, Shuts
<1>11. \A a \in A : a[1] \in {"fileclose", "exit"} /\ (a[1] = "fileclose" => a[2] \in 1..NFILE)
  BY <1>4, <1>5
<1>12. Linked(p, L) /\ Ready(L, o, d)
  BY <1>a DEF PipesInv, Plans
<1> HIDE DEF A
<1>13. ~Has(A, "exit_close")
  BY <1>11 DEF Has
<1>14. CASE todo' = [todo EXCEPT ![p] = <<c0, c1, x>>] /\ UNCHANGED <<ftable, pipes, ofile, pfd>>
  <2>1. \A a \in A : a[1] \in InertOps \union {"fileclose", "exit_close"}
    BY <1>11 DEF InertOps
  <2>2. \A f : Cites(A, f) <=> Cites(Left(p), f)
    BY <1>8, <1>9, <1>a
  <2>3. \A a \in A : a[1] = "fileclose" => a[2] \in 1..NFILE
    BY <1>11
  <2>4. Has(A, "exit_close") => \E fd \in Fds : ofile[p][fd] # 0
    BY <1>13
  <2> QED BY <1>1, <1>6, <1>10, <1>14, <2>1, <2>2, <2>3, <2>4, RestartStep, PipesStand
<1>15. PICK c : c = [used |-> TRUE, data |-> NoPipe.data, nread |-> 0, nwrite |-> 0,
                     readopen |-> TRUE, writeopen |-> TRUE]
  OBVIOUS
<1>16. CASE /\ free # {}
            /\ pipes' = [pipes EXCEPT ![g] = c]
            /\ ftable' = [ftable EXCEPT ![f0] = EndFile(g, FALSE), ![f1] = EndFile(g, TRUE)]
            /\ IF Cardinality(Closed(p)) < 2
                 THEN /\ todo' = [todo EXCEPT ![p] = <<c0, c1, x>>]
                      /\ UNCHANGED <<ofile, pfd>>
                 ELSE /\ ofile' = [ofile EXCEPT ![p][fd0] = f0, ![p][fd1] = f1]
                      /\ pfd' = [pfd EXCEPT ![p] = <<fd0, fd1>>]
                      /\ Next_ops(p, <<>>)
  <2>1. MakesPipe(h, f0, f1, g)
    <3>1. g \in Pages /\ ~pipes[g].used
      BY <1>16, <1>b
    <3> QED BY <3>1, <1>1, <1>15, <1>16, <1>b DEF MakesPipe
  <2>2. CASE Cardinality(Closed(p)) < 2
    <3>1. todo' = [todo EXCEPT ![p] = <<c0, c1, x>>] /\ UNCHANGED <<ofile, pfd>>
      BY <1>16, <2>2
    <3>2. Moves(p, A)
      BY <1>6, <3>1, RestartMoves DEF PipesInv, PipesTypes
    <3>3. Frame(p)
      BY <1>1, <3>1 DEF PipesInv, PipesTypes, Frame
    <3>4. Linked(p, A)
      BY <1>11 DEF Linked, Has, Allocs
    <3>5. Ready(A, ofile'[p], pfd'[p])
      BY <1>11 DEF Ready, Has, Allocs
    <3>6. \A e : References(e)' = References(e)
      BY <1>8, <1>9, <1>a, <3>1, <3>2, HoldersSame
    <3>7. Cardinality(References(f0)') = 1 /\ Cardinality(References(f1)') = 1
      BY <1>4, <3>6, FS_Singleton DEF Reserved
    <3>8. /\ \A a \in A : a[1] \notin {"pipe_f1", "pipe_mem", "pipeclose"}
          /\ \A a \in A : a[1] = "fork" => a \in Left(p)
          /\ \A a \in A : a[1] = "fileclose" => a[2] \in 1..NFILE
          /\ \A e \in (1..NFILE) \ {f0, f1} : References(e)' = References(e)
      BY <1>11, <3>6
    <3>9. MadeSteps(p, A, f0, f1)
      BY <3>7, <3>8 DEF MadeSteps
    <3> QED BY <1>1, <1>2, <2>1, <3>2, <3>3, <3>4, <3>5, <3>9, PipeMade
  <2>3. CASE ~(Cardinality(Closed(p)) < 2)
    <3>1. /\ ofile' = [ofile EXCEPT ![p][fd0] = f0, ![p][fd1] = f1]
          /\ pfd' = [pfd EXCEPT ![p] = <<fd0, fd1>>]
          /\ Next_ops(p, <<>>)
      BY <1>16, <2>3
    <3>2. Moves(p, T)
      <4>1. Follow(h, {})
        BY DEF Follow
      <4> QED BY <4>1, <3>1, <1>2
    <3>3. /\ fd0 \in Fds /\ fd1 \in Fds /\ fd0 # fd1 /\ o[fd0] = 0 /\ o[fd1] = 0
      BY <1>a, <1>b, <2>3, TwoClosed DEF Closed
    <3>4. /\ ofile' \in [Processes -> [Fds -> 0..NFILE]]
          /\ \A r \in Processes \ {p} : ofile'[r] = ofile[r]
          /\ q[fd0] = f0 /\ q[fd1] = f1
          /\ \A y \in Fds \ {fd0, fd1} : q[y] = o[y]
      BY <1>4, <1>a, <3>1, <3>3 DEF PipesInv, PipesTypes
    <3>5. /\ pfd' \in [Processes -> Fds \X Fds]
          /\ \A r \in Processes \ {p} : pfd'[r] = pfd[r]
          /\ pfd'[p] = <<fd0, fd1>>
      BY <3>1, <3>3 DEF PipesInv, PipesTypes
    <3>6. Frame(p)
      BY <1>1, <3>4, <3>5 DEF Frame
    <3>7. \A b \in T : b[1] \notin {"close", "dup_p", "pipe_f1", "pipe_mem", "pipeclose",
                                    "fileclose", "exit_close", "pipe", "close_up"}
      BY <1>1, <1>3 DEF Precedes
    <3>8. /\ Has(T, "fork") <=> Has(L, "fork")
          /\ ~Has(T, "dup_p") /\ ~Has(T, "close") /\ ~Has(T, "close_up") /\ ~Has(T, "pipe")
          /\ ~Has(T, "exit_close") /\ ~Has(L, "dup_p")
          /\ Has(T, "close_p") <=> Has(L, "close_p")
          /\ ~Allocs(T) /\ Allocs(L)
          /\ \A y : HasAt(T, "close_p", y) <=> HasAt(L, "close_p", y)
      BY <1>1, <1>3, <3>7 DEF Has, HasAt, Allocs
    <3>9. Linked(p, T)
      BY <1>3, <1>12, <3>7, <3>8 DEF Linked
    <3>10. o[0] # 0 /\ o[1] # 0 /\ 0 \in Fds /\ 1 \in Fds
      BY <1>12, <3>8, PipesAssumption DEF Ready, Fds
    <3>11. Ready(T, q, pfd'[p])
      <4>1. fd0 \in Fds \ {0, 1} /\ fd1 \in Fds \ {0, 1}
        BY <3>3, <3>10
      <4>2. q[fd0] # 0 /\ q[fd1] # 0 /\ q[0] # 0 /\ q[1] # 0
        BY <1>4, <3>4, <3>10, <4>1
      <4>3. pfd'[p][1] = fd0 /\ pfd'[p][2] = fd1
        BY <3>5
      <4>4. \A a \in T : a[1] = "close_up" \/ (a[1] = "close_p" /\ ~Allocs(T)) =>
              pfd'[p][a[2]] \in Fds \ {0, 1} /\ q[pfd'[p][a[2]]] # 0
        <5> SUFFICES ASSUME NEW a \in T, a[1] = "close_p"
                     PROVE  pfd'[p][a[2]] \in Fds \ {0, 1} /\ q[pfd'[p][a[2]]] # 0
          BY <3>7
        <5>1. a[2] \in {1, 2}
          BY <1>3, <1>12 DEF Linked
        <5> QED BY <5>1, <4>1, <4>2, <4>3
      <4> QED BY <3>3, <3>7, <3>8, <4>2, <4>3, <4>4 DEF Ready
    <3>12. ASSUME NEW e \in 1..NFILE
           PROVE  References(e)' = IF e = f0 THEN {<<p, fd0>>} ELSE IF e = f1 THEN {<<p, fd1>>}
                                ELSE References(e)
      <4> DEFINE S == IF e = f0 THEN {<<p, fd0>>} ELSE IF e = f1 THEN {<<p, fd1>>} ELSE References(e)
      <4>1. fd0 \in 0..NOFILE /\ fd1 \in 0..NOFILE /\ NOFILE \notin Fds
        BY <3>3, PipesAssumption DEF Fds
      <4>2. S \subseteq Processes \X (0..NOFILE)
        BY <4>1, HolderMember
      <4>3. \A r \in Processes, y \in Fds : <<r, y>> \in References(e) <=> ofile[r][y] = e
        BY HolderMember
      <4>4. e = f0 \/ e = f1 => \A r \in Processes, y \in Fds : ofile[r][y] # e
        <5>1. e = f0 \/ e = f1 => References(e) = {<<p, NOFILE>>}
          BY <1>4 DEF Reserved
        <5> QED BY <5>1, <4>1, <4>3
      <4>5. ASSUME NEW r \in Processes, NEW y \in Fds
            PROVE  <<r, y>> \in S <=> ofile'[r][y] = e
        <5>1. CASE r = p /\ y = fd0
          <6>1. ofile'[r][y] = f0 /\ ofile[r][y] = 0 /\ <<r, y>> # <<p, fd1>>
            BY <5>1, <3>3, <3>4, <1>a
          <6> QED BY <6>1, <5>1, <4>3, <1>4
        <5>2. CASE r = p /\ y = fd1
          <6>1. ofile'[r][y] = f1 /\ ofile[r][y] = 0 /\ <<r, y>> # <<p, fd0>>
            BY <5>2, <3>3, <3>4, <1>a
          <6> QED BY <6>1, <5>2, <4>3, <1>4
        <5>3. CASE ~(r = p /\ y \in {fd0, fd1})
          <6>1. ofile'[r][y] = ofile[r][y]
            BY <5>3, <3>4, <1>a
          <6>2. <<r, y>> # <<p, fd0>> /\ <<r, y>> # <<p, fd1>>
            BY <5>3
          <6> QED BY <6>1, <6>2, <4>3, <4>4
        <5> QED BY <5>1, <5>2, <5>3
      <4>6. \A r \in Processes : <<r, NOFILE>> \in S <=> Cites(Left(r)', e)
        <5>1. Left(p)' = T /\ \A r \in Processes \ {p} : Left(r)' = Left(r)
          BY <3>2 DEF Moves
        <5>2. \A r \in Processes : <<r, NOFILE>> \in References(e) <=> Cites(Left(r), e)
          BY HolderMember
        <5>3. e = f0 \/ e = f1 => References(e) = {<<p, NOFILE>>}
          BY <1>4 DEF Reserved
        <5>4. \A r \in Processes : r # p /\ (e = f0 \/ e = f1) => ~Cites(Left(r), e)
          BY <5>2, <5>3
        <5>5. NOFILE # fd0 /\ NOFILE # fd1
          BY <4>1, <3>3
        <5>6. CASE e = f0 \/ e = f1
          <6>1. \A r \in Processes : ~Cites(Left(r)', e)
            BY <5>1, <5>4, <5>6, <1>7
          <6>2. \A r \in Processes : <<r, NOFILE>> \notin S
            BY <5>5, <5>6
          <6> QED BY <6>1, <6>2
        <5>7. CASE e # f0 /\ e # f1
          BY <5>1, <5>2, <5>7, <1>7, <1>8, <1>a
        <5> QED BY <5>6, <5>7
      <4> HIDE DEF S
      <4>7. References(e)' = S
        BY <4>2, <4>5, <4>6, HoldersNext
      <4> QED BY <4>7 DEF S
    <3>13. Cardinality(References(f0)') = 1 /\ Cardinality(References(f1)') = 1
      <4>1. References(f0)' = {<<p, fd0>>} /\ References(f1)' = {<<p, fd1>>}
        BY <3>12, <1>4
      <4> QED BY <4>1, FS_Singleton
    <3>14. /\ \A a \in T : a[1] \notin {"pipe_f1", "pipe_mem", "pipeclose"}
           /\ \A a \in T : a[1] = "fork" => a \in Left(p)
           /\ \A a \in T : a[1] = "fileclose" => a[2] \in 1..NFILE
           /\ \A e \in (1..NFILE) \ {f0, f1} : References(e)' = References(e)
      BY <3>7, <3>12, <1>3, <1>a
    <3>15. Ready(T, ofile'[p], pfd'[p])
      BY <3>11, <1>a
    <3>16. MadeSteps(p, T, f0, f1)
      BY <3>13, <3>14 DEF MadeSteps
    <3> QED BY <1>1, <1>2, <2>1, <3>2, <3>6, <3>9, <3>15, <3>16, PipeMade
  <2> QED BY <2>2, <2>3
<1>17. \/ todo' = [todo EXCEPT ![p] = <<c0, c1, x>>] /\ UNCHANGED <<ftable, pipes, ofile, pfd>>
       \/ /\ free # {}
          /\ pipes' = [pipes EXCEPT ![g] = [NoPipe EXCEPT !.used = TRUE, !.readopen = TRUE,
                                                          !.writeopen = TRUE]]
          /\ ftable' = [ftable EXCEPT ![f0] = EndFile(g, FALSE), ![f1] = EndFile(g, TRUE)]
          /\ IF Cardinality(Closed(p)) < 2
               THEN /\ todo' = [todo EXCEPT ![p] = <<c0, c1, x>>]
                    /\ UNCHANGED <<ofile, pfd>>
               ELSE /\ ofile' = [ofile EXCEPT ![p][fd0] = f0, ![p][fd1] = f1]
                    /\ pfd' = [pfd EXCEPT ![p] = <<fd0, fd1>>]
                    /\ Next_ops(p, <<>>)
  BY <1>a, <1>b, <1>c DEF pipealloc, kernelVars, EndFile
<1>18. c = [NoPipe EXCEPT !.used = TRUE, !.readopen = TRUE, !.writeopen = TRUE]
  BY <1>15, NewPipe
<1> QED BY <1>14, <1>16, <1>17, <1>18

-----------------------------------------------------------------------------
(* runcmd(), and what a child does first.                                  *)

LEMMA PlanFour ==
  ASSUME NEW a, NEW b, NEW c, NEW d, Precedes(a, b), Precedes(a, c), Precedes(a, d),
         Precedes(b, c), Precedes(b, d), Precedes(c, d)
  PROVE  Plan(<<a, b, c, d>>, {a, b, c, d})
<1> DEFINE s == <<a, b, c, d>>
<1>1. s \in Seq({a, b, c, d}) /\ DOMAIN s = {1, 2, 3, 4}
      /\ s[1] = a /\ s[2] = b /\ s[3] = c /\ s[4] = d
  OBVIOUS
<1> HIDE DEF s
<1>2. IsList(s)
  BY <1>1 DEF IsList
<1>3. Steps(s) = {a, b, c, d}
  BY <1>1 DEF Steps
<1>4. InOrder(s)
  BY <1>1 DEF InOrder
<1> QED BY <1>2, <1>3, <1>4 DEF Plan, s

LEMMA PlanEight ==
  ASSUME NEW a, NEW b, NEW c, NEW d, NEW e, NEW f, NEW g,
         \A x \in {b, c, d, e, f, g} : Precedes(a, x),
         \A x \in {c, d, e, f, g} : Precedes(b, x),
         \A x \in {d, e, f, g} : Precedes(c, x),
         \A x \in {e, f, g} : Precedes(d, x),
         \A x \in {f, g} : Precedes(e, x),
         \A x \in {f, g} : Precedes(f, x)
  PROVE  Plan(<<a, b, c, d, e, f, f, g>>, {a, b, c, d, e, f, g})
<1> DEFINE s == <<a, b, c, d, e, f, f, g>>
<1>1. s \in Seq({a, b, c, d, e, f, g}) /\ DOMAIN s = 1..8
      /\ s[1] = a /\ s[2] = b /\ s[3] = c /\ s[4] = d /\ s[5] = e /\ s[6] = f /\ s[7] = f
      /\ s[8] = g
  OBVIOUS
<1> HIDE DEF s
<1>2. IsList(s)
  BY <1>1 DEF IsList
<1>3. Steps(s) = {a, b, c, d, e, f, g}
  <2>1. ASSUME NEW k \in 1..8 PROVE s[k] \in {a, b, c, d, e, f, g}
    <3>1. k \in {1, 2, 3, 4, 5, 6, 7, 8}
      OBVIOUS
    <3> QED BY <3>1, <1>1
  <2>2. {a, b, c, d, e, f, g} \subseteq Steps(s)
    <3>1. /\ 1 \in DOMAIN s /\ 2 \in DOMAIN s /\ 3 \in DOMAIN s /\ 4 \in DOMAIN s
          /\ 5 \in DOMAIN s /\ 6 \in DOMAIN s /\ 8 \in DOMAIN s
      BY <1>1
    <3> QED BY <3>1, <1>1 DEF Steps
  <2> QED BY <2>1, <2>2, <1>1 DEF Steps
<1>4. InOrder(s)
  <2> SUFFICES ASSUME NEW k \in 1..8, NEW l \in 1..8, k < l PROVE Precedes(s[k], s[l])
    BY <1>1 DEF InOrder
  <2>1. CASE k = 1
    <3>1. l \in {2, 3, 4, 5, 6, 7, 8}
      BY <2>1
    <3> QED BY <3>1, <2>1, <1>1
  <2>2. CASE k = 2
    <3>1. l \in {3, 4, 5, 6, 7, 8}
      BY <2>2
    <3> QED BY <3>1, <2>2, <1>1
  <2>3. CASE k = 3
    <3>1. l \in {4, 5, 6, 7, 8}
      BY <2>3
    <3> QED BY <3>1, <2>3, <1>1
  <2>4. CASE k = 4
    <3>1. l \in {5, 6, 7, 8}
      BY <2>4
    <3> QED BY <3>1, <2>4, <1>1
  <2>5. CASE k = 5
    <3>1. l \in {6, 7, 8}
      BY <2>5
    <3> QED BY <3>1, <2>5, <1>1
  <2>6. CASE k = 6 \/ k = 7
    <3>1. s[k] = f /\ (l = 7 \/ l = 8)
      BY <2>6, <1>1
    <3> QED BY <3>1, <1>1
  <2>7. k \in {1, 2, 3, 4, 5, 6, 7}
    OBVIOUS
  <2> QED BY <2>1, <2>2, <2>3, <2>4, <2>5, <2>6, <2>7
<1> QED BY <1>2, <1>3, <1>4 DEF Plan, s

\* The steps of runcmd(): those of a stage of the pipeline, or those of a command.
StageSteps(p) == { <<"pipe">>, <<"fork", p + 1>>, <<"fork", p + 2>>, <<"close_p", 1>>,
                   <<"close_p", 2>>, <<"wait">>, <<"exit">> }
RunSteps(l, p, A) ==
  \/ p % 2 = 1 /\ (p + 1) \div 2 < Len(l) /\ A = StageSteps(p)
  \/ \A a \in A : a[1] \in {"write", "read", "exit"}

LEMMA RunPlan ==
  ASSUME NEW l, NEW p \in Nat
  PROVE  \E A : Plan(runcmd(l, p), A) /\ RunSteps(l, p, A)
<1>1. CASE p % 2 = 1 /\ (p + 1) \div 2 < Len(l)
  <2> DEFINE a == <<"pipe">>
             b == <<"fork", p + 1>>
             c == <<"fork", p + 2>>
             d == <<"close_p", 1>>
             e == <<"close_p", 2>>
             f == <<"wait">>
             g == <<"exit">>
  <2>1. /\ a[1] = "pipe" /\ b[1] = "fork" /\ b[2] = p + 1 /\ c[1] = "fork" /\ c[2] = p + 2
        /\ d[1] = "close_p" /\ d[2] = 1 /\ e[1] = "close_p" /\ e[2] = 2
        /\ f[1] = "wait" /\ g[1] = "exit"
    OBVIOUS
  <2>2. runcmd(l, p) = <<a, b, c, d, e, f, f, g>>
    BY <1>1 DEF runcmd
  <2>3. StageSteps(p) = {a, b, c, d, e, f, g}
    BY DEF StageSteps
  <2> HIDE DEF a, b, c, d, e, f, g
  <2>4. \A x \in {b, c, d, e, f, g} : Precedes(a, x)
    BY <2>1 DEF Precedes
  <2>5. \A x \in {c, d, e, f, g} : Precedes(b, x)
    BY <2>1 DEF Precedes
  <2>6. \A x \in {d, e, f, g} : Precedes(c, x)
    BY <2>1 DEF Precedes
  <2>7. \A x \in {e, f, g} : Precedes(d, x)
    BY <2>1 DEF Precedes
  <2>8. \A x \in {f, g} : Precedes(e, x) /\ Precedes(f, x)
    BY <2>1 DEF Precedes
  <2>9. Plan(<<a, b, c, d, e, f, f, g>>, {a, b, c, d, e, f, g})
    BY <2>4, <2>5, <2>6, <2>7, <2>8, PlanEight
  <2> QED BY <1>1, <2>2, <2>3, <2>9 DEF RunSteps
<1>2. CASE ~(p % 2 = 1 /\ (p + 1) \div 2 < Len(l))
  <2> DEFINE w == <<"write", Message>>
             x == <<"exit">>
             r == <<"read">>
  <2>1. w[1] = "write" /\ x[1] = "exit" /\ r[1] = "read"
    OBVIOUS
  <2>2. runcmd(l, p) = <<w, x>> \/ runcmd(l, p) = <<r>>
    BY <1>2 DEF runcmd, Command
  <2> HIDE DEF w, x, r
  <2>3. Plan(<<w, x>>, {w, x}) /\ Plan(<<r>>, {r})
    <3>1. Precedes(w, x)
      BY <2>1 DEF Precedes
    <3> QED BY <3>1, PlanOne, PlanTwo
  <2>4. (\A a \in {w, x} : a[1] \in {"write", "read", "exit"})
        /\ (\A a \in {r} : a[1] \in {"write", "read", "exit"})
    BY <2>1
  <2>5. RunSteps(l, p, {w, x}) /\ RunSteps(l, p, {r})
    BY <2>4 DEF RunSteps
  <2> QED BY <2>2, <2>3, <2>5
<1> QED BY <1>1, <1>2

ChildSteps(q) == { <<"close", IF q % 2 = 0 THEN 1 ELSE 0>>, <<"dup_p", IF q % 2 = 0 THEN 2 ELSE 1>>,
                   <<"close_up", 1>>, <<"close_up", 2>> }

LEMMA ChildPlan ==
  ASSUME NEW l, NEW q \in Nat
  PROVE  \E A : Plan(Child_of(l, q), ChildSteps(q) \union A) /\ RunSteps(l, q, A)
<1>1. PICK A : Plan(runcmd(l, q), A) /\ RunSteps(l, q, A)
  BY RunPlan
<1> DEFINE a == <<"close", IF q % 2 = 0 THEN 1 ELSE 0>>
           b == <<"dup_p", IF q % 2 = 0 THEN 2 ELSE 1>>
           c == <<"close_up", 1>>
           d == <<"close_up", 2>>
<1>2. a[1] = "close" /\ b[1] = "dup_p" /\ c[1] = "close_up" /\ c[2] = 1
      /\ d[1] = "close_up" /\ d[2] = 2
  OBVIOUS
<1>3. Child_of(l, q) = <<a, b, c, d>> \o runcmd(l, q) /\ ChildSteps(q) = {a, b, c, d}
  BY DEF Child_of, ChildSteps
<1> HIDE DEF a, b, c, d
<1>4. Plan(<<a, b, c, d>>, {a, b, c, d})
  <2>1. /\ Precedes(a, b) /\ Precedes(a, c) /\ Precedes(a, d)
        /\ Precedes(b, c) /\ Precedes(b, d) /\ Precedes(c, d)
    BY <1>2 DEF Precedes
  <2> QED BY <2>1, PlanFour
<1>5. \A y \in {a, b, c, d} : \A x \in A : Precedes(y, x)
  <2>1. \A x \in A : x[1] \in {"write", "read", "exit", "pipe", "fork", "close_p", "wait"}
    BY <1>1 DEF RunSteps, StageSteps
  <2> QED BY <2>1, <1>2 DEF Precedes
<1>6. Plan(<<a, b, c, d>> \o runcmd(l, q), {a, b, c, d} \union A)
  BY <1>1, <1>4, <1>5, PlanConcat
<1> QED BY <1>1, <1>3, <1>6

\* Whom a process forks.
LEMMA ParentOfForked ==
  ASSUME NEW p \in Nat, p % 2 = 1, NEW x \in {p + 1, p + 2}
  PROVE  Parent_of(x) = p /\ x # p /\ x # 1
<1>1. (p + 1) % 2 = 0 /\ (p + 2) % 2 = 1 /\ p >= 1
  OBVIOUS
<1>2. CASE x = p + 1
  BY <1>1, <1>2 DEF Parent_of
<1>3. CASE x = p + 2
  BY <1>1, <1>3 DEF Parent_of
<1> QED BY <1>2, <1>3

LEMMA RunFacts ==
  ASSUME NEW l, Len(l) \in 1..Longest, NEW q \in Processes, NEW A, RunSteps(l, q, A)
  PROVE  /\ \A a \in A : a[1] \in {"pipe", "fork", "close_p", "wait", "exit", "write", "read"}
         /\ \A a \in A : a[1] = "fork" => a[2] \in Processes /\ q % 2 = 1 /\ a[2] \in {q + 1, q + 2}
         /\ \A a \in A : a[1] = "close_p" => a[2] \in {1, 2}
         /\ Has(A, "fork") => HasAt(A, "close_p", 1) /\ HasAt(A, "close_p", 2)
         /\ Has(A, "close_p") \/ Has(A, "fork") => Has(A, "pipe")
         /\ Has(A, "pipe") => q % 2 = 1
<1>1. CASE q % 2 = 1 /\ (q + 1) \div 2 < Len(l) /\ A = StageSteps(q)
  <2>1. q + 1 \in Processes /\ q + 2 \in Processes
    <3>1. q \in Nat /\ q >= 1 /\ Longest \in Nat /\ Len(l) \in Nat /\ Len(l) <= Longest
      BY ProcessesInterval
    <3>2. (q + 1) % 2 = 0
      BY <3>1, <1>1
    <3>3. q + 1 = 2 * ((q + 1) \div 2)
      BY <3>1, <3>2
    <3>4. (q + 1) \div 2 + 1 <= Longest
      BY <3>1, <1>1
    <3>5. q + 2 <= 2 * Longest - 1
      BY <3>1, <3>3, <3>4
    <3> QED BY <3>1, <3>5, ProcessesInterval
  <2> DEFINE a1 == <<"pipe">>
             a2 == <<"fork", q + 1>>
             a3 == <<"fork", q + 2>>
             a4 == <<"close_p", 1>>
             a5 == <<"close_p", 2>>
             a6 == <<"wait">>
             a7 == <<"exit">>
  <2>2. /\ a1[1] = "pipe" /\ a2[1] = "fork" /\ a2[2] = q + 1 /\ a3[1] = "fork" /\ a3[2] = q + 2
        /\ a4[1] = "close_p" /\ a4[2] = 1 /\ a5[1] = "close_p" /\ a5[2] = 2
        /\ a6[1] = "wait" /\ a7[1] = "exit"
    OBVIOUS
  <2>3. A = {a1, a2, a3, a4, a5, a6, a7}
    BY <1>1 DEF StageSteps
  <2> HIDE DEF a1, a2, a3, a4, a5, a6, a7
  <2> QED BY <2>1, <2>2, <2>3, <1>1 DEF Has, HasAt
<1>2. CASE \A a \in A : a[1] \in {"write", "read", "exit"}
  BY <1>2 DEF Has
<1> QED BY <1>1, <1>2 DEF RunSteps

\* runcmd() is ready when its input and output are open.
LEMMA RunReady ==
  ASSUME NEW l, Len(l) \in 1..Longest, NEW q \in Processes, NEW A, RunSteps(l, q, A),
         NEW o, NEW d, o[0] # 0, o[1] # 0
  PROVE  Linked(q, A) /\ Ready(A, o, d)
<1>1. /\ \A a \in A : a[1] \in {"pipe", "fork", "close_p", "wait", "exit", "write", "read"}
      /\ \A a \in A : a[1] = "fork" => a[2] \in Processes /\ q % 2 = 1 /\ a[2] \in {q + 1, q + 2}
      /\ \A a \in A : a[1] = "close_p" => a[2] \in {1, 2}
      /\ Has(A, "fork") => HasAt(A, "close_p", 1) /\ HasAt(A, "close_p", 2)
      /\ Has(A, "close_p") \/ Has(A, "fork") => Has(A, "pipe")
      /\ Has(A, "pipe") => q % 2 = 1
  BY RunFacts
<1>2. /\ ~Has(A, "close") /\ ~Has(A, "dup_p") /\ ~Has(A, "close_up") /\ ~Has(A, "exit_close")
      /\ ~Has(A, "pipe_f1") /\ ~Has(A, "pipe_mem")
  BY <1>1 DEF Has
<1>3. Linked(q, A)
  BY <1>1, <1>2 DEF Linked, Allocs
<1>4. \A a \in A : a[1] = "close_p" => Has(A, "pipe")
  BY <1>1 DEF Has
<1>5. Ready(A, o, d)
  BY <1>1, <1>2, <1>4 DEF Ready, Allocs
<1> QED BY <1>3, <1>5

\* A child is ready with p[] and the descriptors of a process that has opened it.
LEMMA ChildReady ==
  ASSUME NEW l, Len(l) \in 1..Longest, NEW q \in Processes, NEW A, RunSteps(l, q, A),
         NEW o, NEW d, o[0] # 0, o[1] # 0, d[1] # d[2],
         \A k \in {1, 2} : d[k] \in Fds \ {0, 1} /\ o[d[k]] # 0
  PROVE  /\ Linked(q, ChildSteps(q) \union A) /\ Ready(ChildSteps(q) \union A, o, d)
         /\ \A a \in ChildSteps(q) : a[1] \in {"close", "dup_p", "close_up"}
<1> DEFINE a == <<"close", IF q % 2 = 0 THEN 1 ELSE 0>>
           b == <<"dup_p", IF q % 2 = 0 THEN 2 ELSE 1>>
           c == <<"close_up", 1>>
           e == <<"close_up", 2>>
           C == {a, b, c, e}
           K == C \union A
<1>1. /\ a[1] = "close" /\ a[2] = IF q % 2 = 0 THEN 1 ELSE 0
      /\ b[1] = "dup_p" /\ b[2] \in {1, 2}
      /\ c[1] = "close_up" /\ c[2] = 1 /\ e[1] = "close_up" /\ e[2] = 2
  OBVIOUS
<1>2. ChildSteps(q) = C
  BY DEF ChildSteps
<1> HIDE DEF a, b, c, e
<1>3. /\ \A x \in A : x[1] \in {"pipe", "fork", "close_p", "wait", "exit", "write", "read"}
      /\ \A x \in A : x[1] = "fork" => x[2] \in Processes /\ q % 2 = 1 /\ x[2] \in {q + 1, q + 2}
      /\ \A x \in A : x[1] = "close_p" => x[2] \in {1, 2}
      /\ Has(A, "fork") => HasAt(A, "close_p", 1) /\ HasAt(A, "close_p", 2)
      /\ Has(A, "close_p") \/ Has(A, "fork") => Has(A, "pipe")
      /\ Has(A, "pipe") => q % 2 = 1
  BY RunFacts
<1>4. \A x \in C : x[1] \in {"close", "dup_p", "close_up"}
  BY <1>1
<1>5. /\ Has(K, "fork") <=> Has(A, "fork")
      /\ Has(K, "close_p") <=> Has(A, "close_p")
      /\ Has(K, "pipe") <=> Has(A, "pipe")
      /\ ~Has(K, "pipe_f1") /\ ~Has(K, "pipe_mem") /\ ~Has(K, "exit_close")
      /\ \A y : HasAt(K, "close_p", y) <=> HasAt(A, "close_p", y)
  BY <1>3, <1>4 DEF Has, HasAt
<1>6. Has(K, "close") /\ Has(K, "dup_p") /\ HasAt(K, "close_up", 1) /\ HasAt(K, "close_up", 2)
  BY <1>1 DEF Has, HasAt
<1>7. Linked(q, K)
  <2>1. \A x \in K : x[1] = "fork" => x[2] \in Processes /\ q % 2 = 1 /\ x[2] \in {q + 1, q + 2}
    BY <1>3, <1>4
  <2>2. \A x \in K : x[1] \in {"dup_p", "close_up", "close_p"} => x[2] \in {1, 2}
    BY <1>1, <1>3
  <2>3. \A x \in K : x[1] = "close" => x[2] = IF q % 2 = 0 THEN 1 ELSE 0
    BY <1>1, <1>3
  <2> HIDE DEF K
  <2> QED BY <2>1, <2>2, <2>3, <1>3, <1>5, <1>6 DEF Linked, Allocs
<1>8. Ready(K, o, d)
  <2>1. \A x \in K : x[1] = "close" => o[x[2]] # 0
    BY <1>1, <1>3
  <2>2. \A x \in K : x[1] = "close_up" => x[2] \in {1, 2}
    BY <1>1, <1>3
  <2>3. \A x \in K : x[1] = "close_p" => Has(K, "close_p")
    BY DEF Has
  <2> HIDE DEF K
  <2> QED BY <2>1, <2>2, <2>3, <1>3, <1>5, <1>6 DEF Ready, Allocs
<1> QED BY <1>2, <1>4, <1>7, <1>8

-----------------------------------------------------------------------------
(* fork().                                                                 *)

LEMMA PairsCount ==
  ASSUME NEW P, IsFiniteSet(P), NEW c
  PROVE  /\ IsFiniteSet(P \X {c}) /\ Cardinality(P \X {c}) = Cardinality(P)
         /\ IsFiniteSet({c} \X P) /\ Cardinality({c} \X P) = Cardinality(P)
<1>1. [x \in P |-> <<x, c>>] \in Bijection(P, P \X {c})
  BY DEF Bijection, Injection, Surjection, IsInjective
<1>2. [x \in P |-> <<c, x>>] \in Bijection(P, {c} \X P)
  BY DEF Bijection, Injection, Surjection, IsInjective
<1>3. ExistsBijection(P, P \X {c}) /\ ExistsBijection(P, {c} \X P)
  BY <1>1, <1>2 DEF ExistsBijection
<1> QED BY <1>3, FS_Bijection

LEMMA DisjointCount ==
  ASSUME NEW S, NEW T, IsFiniteSet(S), IsFiniteSet(T), S \intersect T = {}
  PROVE  Cardinality(S \union T) = Cardinality(S) + Cardinality(T)
<1>1. Cardinality(S \union T) = Cardinality(S) + Cardinality(T) - Cardinality(S \intersect T)
  BY FS_Union
<1>2. Cardinality(S \intersect T) = 0
  BY FS_EmptySet
<1>3. Cardinality(S) \in Nat /\ Cardinality(T) \in Nat
  BY FS_CardinalityType
<1> QED BY <1>1, <1>2, <1>3

\* The descriptors of o that are file f.
Opens(o, f) == {fd \in Fds : o[fd] = f}

\* fork() gives the child q the open files o of its parent.
LEMMA ForkCounts ==
  ASSUME NEW q \in Processes, NEW o, NEW f \in 1..NFILE,
         \A fd \in Fds : ofile[q][fd] = 0, \A fd \in Fds : ofile'[q][fd] = o[fd],
         \A r \in Processes \ {q} : \A fd \in Fds : ofile'[r][fd] = ofile[r][fd],
         \A r \in Processes : Cites(Left(r)', f) <=> Cites(Left(r), f)
  PROVE  /\ References(f)' = References(f) \union ({q} \X Opens(o, f))
         /\ Cardinality(Opens(o, f)) \in Nat
         /\ Cardinality(References(f)') = Cardinality(References(f)) + Cardinality(Opens(o, f))
<1> DEFINE D == Opens(o, f)
           S == References(f) \union ({q} \X D)
<1>1. IsFiniteSet(D) /\ Cardinality(D) \in Nat /\ Fds \subseteq 0..NOFILE /\ NOFILE \notin Fds
  <2>1. IsFiniteSet(Fds) /\ Fds \subseteq 0..NOFILE /\ NOFILE \notin Fds
    <3>1. 0 \in Int /\ NOFILE - 1 \in Int /\ Fds = 0..(NOFILE - 1)
      BY PipesAssumption DEF Fds
    <3>2. IsFiniteSet(0..(NOFILE - 1))
      BY <3>1, FS_Interval
    <3> QED BY <3>1, <3>2, PipesAssumption
  <2>2. D \subseteq Fds
    BY DEF Opens
  <2> QED BY <2>1, <2>2, FS_Subset, FS_CardinalityType
<1>2. S \subseteq Processes \X (0..NOFILE)
  BY <1>1, HolderMember DEF Opens
<1>3. ASSUME NEW r \in Processes, NEW fd \in Fds PROVE <<r, fd>> \in S <=> ofile'[r][fd] = f
  <2>1. <<r, fd>> \in References(f) <=> ofile[r][fd] = f
    BY HolderMember
  <2>2. CASE r = q
    <3>1. <<r, fd>> \notin References(f)
      BY <2>1, <2>2
    <3> QED BY <3>1, <2>2 DEF Opens
  <2>3. CASE r # q
    BY <2>1, <2>3
  <2> QED BY <2>2, <2>3
<1>4. \A r \in Processes : <<r, NOFILE>> \in S <=> Cites(Left(r)', f)
  BY <1>1, HolderMember DEF Opens
<1>5. References(f) \intersect ({q} \X D) = {}
  BY HolderMember DEF Opens
<1>6. References(f)' = S
  <2> HIDE DEF S
  <2> QED BY <1>2, <1>3, <1>4, HoldersNext
<1>7. IsFiniteSet({q} \X D) /\ Cardinality({q} \X D) = Cardinality(D)
  BY <1>1, PairsCount
<1>8. Cardinality(S) = Cardinality(References(f)) + Cardinality({q} \X D)
  <2> HIDE DEF D
  <2> QED BY <1>5, <1>7, HoldersFinite, DisjointCount
<1> QED BY <1>1, <1>6, <1>7, <1>8

\* The lists of fork(): the parent goes on, the child has its own steps.
LEMMA ForkMoves ==
  ASSUME Lists, NEW p \in Processes, todo[p] # <<>>, NEW q \in Processes \ {p}, NEW s, NEW K,
         Plan(s, K), todo' = [todo EXCEPT ![p] = Tail(todo[p]), ![q] = s]
  PROVE  \E T : /\ First(p, Head(todo[p]), T) /\ Lists'
                /\ Left(p)' = T /\ Left(q)' = K
                /\ \A r \in Processes \ {p, q} : Left(r)' = Left(r)
<1> DEFINE t == todo[p]
<1>1. Plan(t, Left(p))
  BY DEF Lists, Plan, Left
<1>2. PICK T : /\ Plan(Tail(t), T) /\ Left(p) = {Head(t)} \union T
               /\ \A b \in T : Precedes(Head(t), b)
  <2> HIDE DEF t
  <2>1. t # <<>>
    BY DEF t
  <2> QED BY <2>1, <1>1, PlanTail
<1>3. DOMAIN todo' = Processes /\ todo'[p] = Tail(t) /\ todo'[q] = s
      /\ \A r \in Processes \ {p, q} : todo'[r] = todo[r]
  BY DEF Lists
<1>4. Lists'
  BY <1>2, <1>3 DEF Lists, Plan
<1>5. Left(p)' = T /\ Left(q)' = K
  BY <1>2, <1>3 DEF Left, Plan
<1>6. \A r \in Processes \ {p, q} : Left(r)' = Left(r)
  BY <1>3 DEF Left
<1> QED BY <1>2, <1>4, <1>5, <1>6 DEF First

LEMMA Fork_childKeeps == ASSUME PipesInv, NEW p \in Processes, Fork(p) PROVE PipesInv'
<1>a. PICK h, L, o, d : h = Head(todo[p]) /\ L = Left(p) /\ o = ofile[p] /\ d = pfd[p]
  OBVIOUS
<1>b. PICK q : q = h[2]
  OBVIOUS
<1>1. pstate[p] = "run" /\ todo[p] # <<>> /\ h[1] = "fork"
  BY <1>a DEF Fork, InProgram, At_op
<1>2. CASE Exits(p) /\ UNCHANGED <<pline, ftable, ofile, pfd, pstate>>
  <2>1. UNCHANGED pipes
    BY DEF Fork
  <2>2. Head(todo[p])[1] \notin {"fileclose", "pipeclose", "pipe_f1", "pipe_mem"}
    BY <1>1, <1>a
  <2> QED BY <1>1, <1>2, <2>1, <2>2, ExitsStep, PipesStand
<1>3. CASE /\ ftable' = [f \in 1..NFILE |-> [ftable[f] EXCEPT
                           !.ref = @ + Cardinality({fd \in Fds : ofile[p][fd] = f})]]
           /\ ofile'  = [ofile EXCEPT ![q] = ofile[p]]
           /\ pfd'    = [pfd EXCEPT ![q] = pfd[p]]
           /\ pstate' = [pstate EXCEPT ![q] = "run"]
           /\ todo'   = [todo EXCEPT ![p] = Tail(@), ![q] = Child_of(pline, q)]
           /\ UNCHANGED userVars
  <2>1. UNCHANGED <<pline, pipes>>
    BY <1>3 DEF Fork, userVars
  <2>2. h \in L
    <3>1. PICK T : First(p, h, T)
      BY <1>1, <1>a, TurnMoves DEF PipesInv, PipesTypes
    <3> QED BY <3>1, <1>a DEF First
  <2>3. Linked(p, L) /\ Ready(L, o, d)
    BY <1>a DEF PipesInv, Plans
  <2>4. q \in Processes /\ p % 2 = 1 /\ q \in {p + 1, p + 2} /\ p \in Nat
    BY <1>1, <1>b, <2>2, <2>3, ProcessesInterval DEF Linked
  <2>5. Parent_of(q) = p /\ q # p /\ q # 1
    BY <2>4, ParentOfForked
  <2>6. pstate[q] = "unused" /\ Left(q) = {} /\ \A fd \in Fds : ofile[q][fd] = 0
    BY <1>1, <1>a, <1>b, <2>2, <2>4 DEF PipesInv, Unforked
  <2>7. PICK l \in Pipelines : pline = l.cmds
    BY DEF PipesInv, PipesTypes
  <2>8. Len(pline) \in 1..Longest
    BY <2>7, LineFits
  <2>9. PICK A : Plan(Child_of(pline, q), ChildSteps(q) \union A) /\ RunSteps(pline, q, A)
    <3>1. q \in Nat
      BY <2>4
    <3> QED BY <3>1, ChildPlan
  <2>10. PICK K : K = ChildSteps(q) \union A
    OBVIOUS
  <2>11. PICK T : /\ First(p, h, T) /\ Lists' /\ Left(p)' = T /\ Left(q)' = K
                  /\ \A r \in Processes \ {p, q} : Left(r)' = Left(r)
    <3> DEFINE s == Child_of(pline, q)
    <3>1. todo' = [todo EXCEPT ![p] = Tail(todo[p]), ![q] = s]
      BY <1>3
    <3>2. Plan(s, K)
      BY <2>9, <2>10
    <3>3. Lists /\ q \in Processes \ {p}
      BY <2>4, <2>5 DEF PipesInv, PipesTypes
    <3> HIDE DEF s
    <3>4. \E T : /\ First(p, Head(todo[p]), T) /\ Lists'
                 /\ Left(p)' = T /\ Left(q)' = K
                 /\ \A r \in Processes \ {p, q} : Left(r)' = Left(r)
      BY <1>1, <3>1, <3>2, <3>3, ForkMoves
    <3> QED BY <3>4, <1>a
  <2>12. L = {h} \union T /\ \A b \in T : Precedes(h, b)
    BY <2>11, <1>a DEF First
  <2>13. \A b \in T : /\ b[1] \notin {"close", "dup_p", "close_up", "pipe", "pipe_f1", "pipe_mem", "pipeclose",
                                      "fileclose", "exit_close"}
                      /\ b[1] = "fork" => b[2] # q
    BY <1>1, <1>b, <2>12 DEF Precedes
  <2>14. o \in [Fds -> 0..NFILE] /\ 0 \in Fds /\ 1 \in Fds
    BY <1>a, PipesAssumption DEF PipesInv, PipesTypes, Fds
  <2>15. /\ ~Has(L, "dup_p") /\ ~Allocs(L) /\ ~Allocs(T) /\ ~Has(L, "close_up") /\ Has(L, "fork")
         /\ Has(L, "close_p") <=> Has(T, "close_p")
         /\ \A x : HasAt(L, "close_p", x) <=> HasAt(T, "close_p", x)
         /\ Has(T, "fork") => Has(L, "fork")
         /\ ~Has(T, "dup_p") /\ ~Has(T, "close_up") /\ ~Has(T, "close") /\ ~Has(T, "exit_close")
         /\ ~Has(T, "pipe")
    BY <1>1, <2>12, <2>13 DEF Has, HasAt, Allocs
  <2>16. /\ o[0] # 0 /\ o[1] # 0 /\ d[1] # d[2]
         /\ \A k \in {1, 2} : d[k] \in Fds \ {0, 1} /\ o[d[k]] # 0
    <3>1. HasAt(L, "close_p", 1) /\ HasAt(L, "close_p", 2)
      BY <2>3, <2>15 DEF Linked
    <3>2. \A k \in {1, 2} : d[k] \in Fds \ {0, 1} /\ o[d[k]] # 0
      BY <3>1, <2>3, <2>15 DEF Ready, HasAt
    <3>3. Has(L, "close_p")
      BY <3>1 DEF Has, HasAt
    <3> QED BY <3>2, <3>3, <2>3, <2>15 DEF Ready
  <2>17. Linked(p, T) /\ Ready(T, o, d)
    <3>1. Linked(p, T)
      BY <2>3, <2>12, <2>15 DEF Linked
    <3>2. \A b \in T : b[1] = "close_p" => b[2] \in {1, 2}
      BY <3>1 DEF Linked
    <3>3. Ready(T, o, d)
      BY <3>2, <2>13, <2>15, <2>16 DEF Ready
    <3> QED BY <3>1, <3>3
  <2>18. /\ Linked(q, K) /\ Ready(K, o, d)
         /\ \A a \in ChildSteps(q) : a[1] \in {"close", "dup_p", "close_up"}
    BY <2>4, <2>8, <2>9, <2>10, <2>16, ChildReady
  <2>19. \A a \in K : a[1] \in {"close", "dup_p", "close_up", "pipe", "fork", "close_p", "wait", "exit",
                                "write", "read"}
    BY <2>4, <2>8, <2>9, <2>10, <2>18, RunFacts
  <2>20. /\ ofile' \in [Processes -> [Fds -> 0..NFILE]] /\ ofile'[q] = o
         /\ \A r \in Processes \ {q} : ofile'[r] = ofile[r]
         /\ pfd' \in [Processes -> Fds \X Fds] /\ pfd'[q] = d
         /\ \A r \in Processes \ {q} : pfd'[r] = pfd[r]
         /\ pstate' \in [Processes -> {"unused", "run", "zombie", "reaped"}] /\ pstate'[q] = "run"
         /\ \A r \in Processes \ {q} : pstate'[r] = pstate[r]
    BY <1>3, <1>a, <2>4 DEF PipesInv, PipesTypes
  <2>21. \A r \in Processes : \A f : Cites(Left(r)', f) <=> Cites(Left(r), f)
    <3>1. \A f : ~Cites(T, f) /\ ~Cites(L, f) /\ ~Cites(K, f) /\ ~Cites(Left(q), f)
      BY <1>1, <2>6, <2>12, <2>13, <2>19 DEF Cites, Refers
    <3> QED BY <3>1, <2>11, <1>a
  <2>22. ASSUME NEW f \in 1..NFILE
         PROVE  /\ References(f)' = References(f) \union ({q} \X Opens(o, f))
                /\ Cardinality(Opens(o, f)) \in Nat
                /\ Cardinality(References(f)')
                     = Cardinality(References(f)) + Cardinality(Opens(o, f))
    <3>1. \A fd \in Fds : ofile'[q][fd] = o[fd]
      BY <2>20
    <3>2. \A r \in Processes \ {q} : \A fd \in Fds : ofile'[r][fd] = ofile[r][fd]
      BY <2>20
    <3>3. \A r \in Processes : Cites(Left(r)', f) <=> Cites(Left(r), f)
      BY <2>21
    <3>4. q \in Processes /\ \A fd \in Fds : ofile[q][fd] = 0
      BY <2>4, <2>6
    <3> QED BY <3>1, <3>2, <3>3, <3>4, ForkCounts
  <2>23. /\ ftable' \in [1..NFILE -> File]
         /\ \A f \in 1..NFILE :
              /\ ftable'[f].ref = ftable[f].ref + Cardinality(Opens(o, f))
              /\ ftable'[f].ref = 0 => ftable[f].ref = 0
              /\ ftable'[f].type = ftable[f].type /\ ftable'[f].pipe = ftable[f].pipe
              /\ ftable'[f].writable = ftable[f].writable
    <3> DEFINE n(f) == Cardinality(Opens(o, f))
    <3>1. \A f \in 1..NFILE : n(f) \in Nat
      BY <2>22
    <3>2. ftable' = [f \in 1..NFILE |-> [ftable[f] EXCEPT !.ref = @ + n(f)]]
      BY <1>3, <1>a DEF Opens
    <3> HIDE DEF n
    <3>3. ASSUME NEW b \in File, NEW k \in Nat
          PROVE  LET c == [b EXCEPT !.ref = @ + k] IN
                 /\ c \in File /\ c.ref = b.ref + k /\ (c.ref = 0 => b.ref = 0)
                 /\ c.type = b.type /\ c.pipe = b.pipe /\ c.writable = b.writable
      BY <3>3 DEF File
    <3>4. ftable \in [1..NFILE -> File]
      BY DEF PipesInv, PipesTypes
    <3>5. ASSUME NEW f \in 1..NFILE
          PROVE  /\ ftable'[f] \in File
                 /\ ftable'[f].ref = ftable[f].ref + n(f)
                 /\ ftable'[f].ref = 0 => ftable[f].ref = 0
                 /\ ftable'[f].type = ftable[f].type /\ ftable'[f].pipe = ftable[f].pipe
                 /\ ftable'[f].writable = ftable[f].writable
      <4>1. ftable'[f] = [ftable[f] EXCEPT !.ref = @ + n(f)]
        BY <3>2
      <4>2. ftable[f] \in File /\ n(f) \in Nat
        BY <3>1, <3>4
      <4> QED BY <4>1, <4>2, <3>3
    <3> QED BY <3>2, <3>5 DEF n
  <2>24. PipesTypes'
    BY <2>1, <2>11, <2>20, <2>23 DEF PipesInv, PipesTypes, IsPipe, Lists
  <2>25. Plans'
    <3> SUFFICES ASSUME NEW r \in Processes
                 PROVE  Linked(r, Left(r)') /\ Ready(Left(r)', ofile'[r], pfd'[r])
      BY DEF Plans, Linked, Ready, Has, HasAt, Allocs
    <3>1. CASE r = p
      BY <3>1, <1>a, <2>5, <2>11, <2>17, <2>20
    <3>2. CASE r = q
      BY <3>2, <2>11, <2>18, <2>20
    <3>3. CASE r \notin {p, q}
      <4>1. Left(r)' = Left(r) /\ ofile'[r] = ofile[r] /\ pfd'[r] = pfd[r]
        BY <3>3, <2>11, <2>20
      <4>2. Linked(r, Left(r)) /\ Ready(Left(r), ofile[r], pfd[r])
        BY DEF PipesInv, Plans
      <4> QED BY <4>1, <4>2
    <3> QED BY <3>1, <3>2, <3>3
  <2>26. Unforked'
    <3>1. ASSUME NEW r \in Processes, pstate'[r] = "unused"
          PROVE  Left(r)' = {} /\ \A fd \in Fds : ofile'[r][fd] = 0
      <4>1. pstate[r] = "unused" /\ r # q /\ r # p
        BY <3>1, <1>1, <2>20
      <4>2. Left(r)' = Left(r) /\ ofile'[r] = ofile[r]
        BY <4>1, <2>11, <2>20
      <4> QED BY <4>1, <4>2 DEF PipesInv, Unforked
    <3>2. ASSUME NEW r \in Processes, NEW a \in Left(r)', a[1] = "fork"
          PROVE  pstate'[a[2]] = "unused"
      <4>1. a[2] \in Processes /\ r % 2 = 1 /\ a[2] \in {r + 1, r + 2} /\ r \in Nat
        <5>1. Linked(r, Left(r)')
          BY <2>25 DEF Plans, Linked, Has, HasAt, Allocs
        <5> QED BY <3>2, <5>1, ProcessesInterval DEF Linked
      <4>2. Parent_of(a[2]) = r /\ a[2] # r /\ a[2] # 1
        BY <4>1, ParentOfForked
      <4>3. CASE r = q
        <5>1. pstate[a[2]] = "unused"
          BY <4>1, <4>2, <4>3, <2>6 DEF PipesInv, Unforked
        <5> QED BY <5>1, <4>1, <4>2, <4>3, <2>20
      <4>4. CASE r # q
        <5>1. a \in Left(r) /\ a[2] # q
          <6>1. CASE r = p
            BY <6>1, <3>2, <2>11, <2>12, <2>13, <1>a
          <6>2. CASE r # p
            BY <6>2, <4>4, <3>2, <4>2, <2>5, <2>11
          <6> QED BY <6>1, <6>2
        <5>2. pstate[a[2]] = "unused"
          BY <5>1, <3>2 DEF PipesInv, Unforked
        <5> QED BY <5>1, <5>2, <4>1, <2>20
      <4> QED BY <4>3, <4>4
    <3>3. ASSUME NEW x \in Processes \ {1}, pstate'[Parent_of(x)] = "unused" PROVE pstate'[x] = "unused"
      <4>1. Parent_of(x) \in Processes
        BY ParentExists
      <4>2. Parent_of(x) # q /\ pstate[Parent_of(x)] = "unused"
        BY <3>3, <4>1, <2>20
      <4>3. pstate[x] = "unused" /\ x # q
        BY <4>2, <1>1, <2>5 DEF PipesInv, Unforked
      <4> QED BY <4>3, <2>20
    <3> QED BY <3>1, <3>2, <3>3 DEF Unforked, Parent_of
  <2>27. FilesExact'
    <3> SUFFICES ASSUME NEW f \in 1..NFILE PROVE ftable'[f].ref = Cardinality(References(f)')
      BY DEF FilesExact
    <3> QED BY <2>22, <2>23 DEF PipesInv, FilesExact
  <2>28. Calls'
    <3>1. ASSUME NEW r \in Processes, NEW x, Reserved(r, x) PROVE Reserved(r, x)'
      <4>1. x \in 1..NFILE /\ References(x) = {<<r, NOFILE>>} /\ ftable[x].type = "none" /\ NOFILE \notin Fds
        BY <3>1, PipesAssumption DEF Reserved, Fds
      <4>2. Opens(o, x) = {}
        <5>1. \A fd \in Fds : <<p, fd>> \in References(x) <=> o[fd] = x
          BY <1>a, HolderMember
        <5> QED BY <5>1, <4>1 DEF Opens
      <4>3. References(x)' = {<<r, NOFILE>>}
        BY <4>1, <4>2, <2>22
      <4> QED BY <4>1, <4>3, <2>23 DEF Reserved
    <3> SUFFICES ASSUME NEW r \in Processes, NEW a \in Left(r)'
                 PROVE  /\ a[1] = "fileclose" => a[2] \in 1..NFILE
                        /\ a[1] \in {"pipe_f1", "pipe_mem"} => Reserved(r, a[2])'
                        /\ a[1] = "pipe_mem" => Reserved(r, a[3])' /\ a[2] # a[3]
      BY DEF Calls
    <3>2. CASE r = p
      BY <3>2, <2>11, <2>13
    <3>3. CASE r = q
      BY <3>3, <2>11, <2>19
    <3>4. CASE r \notin {p, q}
      <4>1. a \in Left(r)
        BY <3>4, <2>11
      <4>2. /\ a[1] = "fileclose" => a[2] \in 1..NFILE
            /\ a[1] \in {"pipe_f1", "pipe_mem"} => Reserved(r, a[2])
            /\ a[1] = "pipe_mem" => Reserved(r, a[3]) /\ a[2] # a[3]
        BY <4>1 DEF PipesInv, Calls
      <4> QED BY <4>2, <3>1
    <3> QED BY <3>2, <3>3, <3>4
  <2>29. SameEnds
    <3>1. \A e \in 1..NFILE : \A g, w : IsEnd(e, g, w)' <=> IsEnd(e, g, w)
      BY <2>23 DEF IsEnd
    <3>2. \A g, w : ~Shutting(T, g, w) /\ ~Shutting(L, g, w) /\ ~Shutting(K, g, w) /\ ~Shutting(Left(q), g, w)
      BY <1>1, <2>6, <2>12, <2>13, <2>19 DEF Shutting, Shuts
    <3>3. \A r \in Processes : \A g, w : Shutting(Left(r)', g, w) <=> Shutting(Left(r), g, w)
      BY <3>2, <2>11, <1>a
    <3>4. \A r \in Processes : \A b \in Left(r)' : b[1] = "pipeclose" => b \in Left(r)
      BY <2>11, <2>12, <2>19, <1>a
    <3>5. \A r \in Processes : \A b \in Left(r)' :
            b[1] = "pipeclose" => b[2] \in Pages /\ b[3] \in BOOLEAN
      BY <3>4 DEF PipesInv, Ends
    <3>6. \A e \in 1..NFILE : ftable'[e].type = "pipe" => ftable'[e].pipe \in Pages
      BY <2>23 DEF PipesInv, Ends
    <3>7. \A e \in 1..NFILE : ftable'[e].ref = 0 => ftable'[e].type = "none"
      BY <2>23 DEF PipesInv, Ends
    <3> QED BY <3>1, <3>3, <3>5, <3>6, <3>7 DEF SameEnds
  <2>30. Ends'
    BY <2>1, <2>29, EndsKept, PipesStand
  <2> QED BY <2>24, <2>25, <2>26, <2>27, <2>28, <2>30 DEF PipesInv
<1> QED BY <1>2, <1>3, <1>a, <1>b DEF Fork, Arg

-----------------------------------------------------------------------------
(* The invariant, from the start.                                          *)

LEMMA PipesStart == PipesInit => PipesInv
<1> SUFFICES ASSUME PipesInit PROVE PipesInv
  OBVIOUS
<1>1. PICK l \in Pipelines :
        /\ pline = l.cmds
        /\ ftable = [f \in 1..NFILE |-> IF f = 1 THEN [Console EXCEPT !.ref = l.open] ELSE NoFile]
        /\ ofile  = [p \in Processes |-> [fd \in Fds |-> IF p = 1 /\ fd < l.open THEN 1 ELSE 0]]
  BY DEF PipesInit
<1>2. Len(pline) \in 1..Longest /\ l.open \in 3..NOFILE
  BY <1>1, LineFits
<1>3. 1 \in Processes /\ 1 \in 1..NFILE /\ 0 \in Fds /\ 1 \in Fds
  BY <1>2, ProcessesInterval, PipesAssumption DEF Fds
<1>4. PICK A : Plan(runcmd(pline, 1), A) /\ RunSteps(pline, 1, A)
  BY RunPlan
<1>5. /\ todo = [p \in Processes |-> IF p = 1 THEN runcmd(pline, 1) ELSE <<>>]
      /\ pipes = [g \in Pages |-> NoPipe] /\ pfd = [p \in Processes |-> <<0, 0>>]
      /\ pstate = [p \in Processes |-> IF p = 1 THEN "run" ELSE "unused"]
  BY DEF PipesInit
<1>6. Left(1) = A /\ (\A p \in Processes \ {1} : Left(p) = {}) /\ Lists
  <2>1. todo[1] = runcmd(pline, 1) /\ \A p \in Processes \ {1} : todo[p] = <<>>
    BY <1>3, <1>5
  <2>2. DOMAIN todo = Processes
    BY <1>5
  <2>3. Left(1) = A /\ \A p \in Processes \ {1} : Left(p) = {}
    BY <2>1, <1>4, PlanNone DEF Left, Plan
  <2>4. Lists
    BY <2>1, <2>2, <1>4, PlanNone DEF Lists, Plan
  <2> QED BY <2>3, <2>4
<1>7. \A a \in A : a[1] \in {"pipe", "fork", "close_p", "wait", "exit", "write", "read"}
  BY <1>2, <1>3, <1>4, RunFacts
<1>8. \A p \in Processes : \A f : ~Cites(Left(p), f)
  BY <1>6, <1>7 DEF Cites, Refers
<1>9. \A p \in Processes : \A g, w : ~Shutting(Left(p), g, w)
  BY <1>6, <1>7 DEF Shutting, Shuts
<1>10. /\ ftable \in [1..NFILE -> File] /\ \A f \in 1..NFILE : ftable[f].type # "pipe"
       /\ ftable[1].ref = l.open
       /\ \A f \in (1..NFILE) \ {1} : ftable[f].ref = 0 /\ ftable[f].type = "none"
  <2>1. NoFile \in File /\ [Console EXCEPT !.ref = l.open] \in File
    <3>1. NoFile \in File /\ Console \in File
      BY DEF NoFile, Console, File
    <3>2. l.open \in Nat
      BY <1>2, PipesAssumption
    <3> QED BY <3>1, <3>2 DEF File
  <2>2. /\ NoFile.ref = 0 /\ NoFile.type = "none"
        /\ [Console EXCEPT !.ref = l.open].ref = l.open
        /\ [Console EXCEPT !.ref = l.open].type = "device"
    BY DEF NoFile, Console
  <2> HIDE DEF File
  <2> QED BY <2>1, <2>2, <1>1, <1>3
<1>11. /\ \A fd \in Fds : ofile[1][fd] = IF fd < l.open THEN 1 ELSE 0
       /\ \A p \in Processes \ {1} : \A fd \in Fds : ofile[p][fd] = 0
       /\ ofile \in [Processes -> [Fds -> 0..NFILE]]
  <2>1. 0 \in 0..NFILE /\ 1 \in 0..NFILE
    BY PipesAssumption
  <2> QED BY <2>1, <1>1, <1>3
<1>12. PipesTypes
  <2>1. pfd \in [Processes -> Fds \X Fds]
    BY <1>3, <1>5
  <2>2. pstate \in [Processes -> {"unused", "run", "zombie", "reaped"}]
    BY <1>5
  <2>3. DOMAIN pipes = Pages /\ \A g \in Pages : IsPipe(pipes[g])
    BY <1>5 DEF IsPipe, NoPipe
  <2> QED BY <2>1, <2>2, <2>3, <1>1, <1>6, <1>10, <1>11 DEF PipesTypes
<1>13. Plans
  <2> SUFFICES ASSUME NEW p \in Processes PROVE Linked(p, Left(p)) /\ Ready(Left(p), ofile[p], pfd[p])
    BY DEF Plans
  <2>1. CASE p = 1
    <3>1. ofile[1][0] # 0 /\ ofile[1][1] # 0
      BY <1>2, <1>3, <1>11
    <3> QED BY <2>1, <3>1, <1>2, <1>3, <1>4, <1>6, RunReady
  <2>2. CASE p # 1
    <3>1. Left(p) = {}
      BY <2>2, <1>6
    <3> QED BY <3>1 DEF Linked, Ready, Has, HasAt, Allocs
  <2> QED BY <2>1, <2>2
<1>14. Unforked
  <2>1. \A q \in Processes : pstate[q] = "unused" <=> q # 1
    BY <1>5
  <2>2. ASSUME NEW p \in Processes, NEW a \in Left(p), a[1] = "fork" PROVE pstate[a[2]] = "unused"
    <3>1. p = 1
      BY <2>2, <1>6
    <3>2. a[2] \in Processes /\ a[2] \in {1 + 1, 1 + 2}
      BY <3>1, <2>2, <1>2, <1>3, <1>4, <1>6, RunFacts
    <3> QED BY <3>2, <2>1
  <2> QED BY <2>1, <2>2, <1>6, <1>11 DEF Unforked
<1>15. FilesExact
  <2> SUFFICES ASSUME NEW f \in 1..NFILE PROVE ftable[f].ref = Cardinality(References(f))
    BY DEF FilesExact
  <2>1. References(f) = IF f = 1 THEN {1} \X (0..(l.open - 1)) ELSE {}
    <3> DEFINE S == IF f = 1 THEN {1} \X (0..(l.open - 1)) ELSE {}
    <3>1. 0..(l.open - 1) \subseteq Fds /\ NOFILE \notin 0..(l.open - 1) /\ Fds \subseteq 0..NOFILE
      BY <1>2, PipesAssumption DEF Fds
    <3>2. S \subseteq Processes \X (0..NOFILE)
      BY <3>1, <1>3
    <3>3. ASSUME NEW r \in Processes, NEW fd \in Fds PROVE <<r, fd>> \in S <=> ofile[r][fd] = f
      <4>1. fd < l.open <=> fd \in 0..(l.open - 1)
        BY <1>2, PipesAssumption DEF Fds
      <4>2. CASE r = 1
        BY <4>1, <4>2, <1>11
      <4>3. CASE r # 1
        BY <4>3, <1>11
      <4> QED BY <4>2, <4>3
    <3>4. \A r \in Processes : <<r, NOFILE>> \notin S
      BY <3>1
    <3> HIDE DEF S
    <3>5. ASSUME NEW h \in Processes \X (0..NOFILE) PROVE h \in References(f) <=> h \in S
      <4>1. PICK r \in Processes : h = <<r, NOFILE>> \/ \E fd \in Fds : h = <<r, fd>>
        BY HolderMember
      <4>2. CASE h = <<r, NOFILE>>
        BY <4>2, <3>4, <1>8, HolderMember
      <4>3. ASSUME NEW fd \in Fds, h = <<r, fd>> PROVE h \in References(f) <=> h \in S
        BY <4>3, <3>3, HolderMember
      <4> QED BY <4>1, <4>2, <4>3
    <3>6. References(f) = S
      BY <3>2, <3>5, HolderMember
    <3> QED BY <3>6 DEF S
  <2>2. CASE f = 1
    <3> DEFINE D == 0..(l.open - 1)
    <3>1. IsFiniteSet(D) /\ Cardinality(D) = l.open
      <4>1. IsFiniteSet(D)
            /\ Cardinality(D) = IF 0 > l.open - 1 THEN 0 ELSE l.open - 1 - 0 + 1
        <5>1. 0 \in Int /\ l.open - 1 \in Int
          BY <1>2, PipesAssumption
        <5> QED BY <5>1, FS_Interval
      <4> QED BY <4>1, <1>2, PipesAssumption
    <3> HIDE DEF D
    <3>2. Cardinality({1} \X D) = l.open
      BY <3>1, PairsCount
    <3> QED BY <2>1, <2>2, <3>2, <1>10 DEF D
  <2>3. CASE f # 1
    BY <2>1, <2>3, <1>10, FS_EmptySet
  <2> QED BY <2>2, <2>3
<1>16. Calls
  BY <1>6, <1>7 DEF Calls
<1>17. Ends
  <2>1. \A g \in Pages : ~pipes[g].used /\ ~pipes[g].readopen /\ ~pipes[g].writeopen
    BY <1>5 DEF NoPipe
  <2>2. \A g \in Pages, w \in BOOLEAN : ~Opened(g, w)
    BY <2>1 DEF Opened
  <2>3. \A f \in 1..NFILE : \A g, w : ~IsEnd(f, g, w)
    BY <1>10 DEF IsEnd
  <2>4. \A p \in Processes : \A a \in Left(p) : a[1] # "pipeclose"
    BY <1>6, <1>7
  <2>5. \A f \in 1..NFILE : ftable[f].ref = 0 => ftable[f].type = "none"
    BY <1>2, <1>10
  <2> QED BY <2>1, <2>2, <2>3, <2>4, <2>5, <1>9, <1>10 DEF Ends
<1> QED BY <1>12, <1>13, <1>14, <1>15, <1>16, <1>17 DEF PipesInv

LEMMA PipesStutters == ASSUME PipesInv, UNCHANGED pipesVars PROVE PipesInv'
<1>1. UNCHANGED <<pline, ftable, pipes, ofile, pfd, todo, pstate>>
  BY DEF pipesVars, userVars, kernelVars
<1>2. \A p : Left(p)' = Left(p)
  BY <1>1 DEF Left
<1>3. \A p \in Processes : \A f : Cites(Left(p), f)' <=> Cites(Left(p), f)
  BY <1>2 DEF Cites
<1>4. \A f : References(f)' = References(f)
  BY <1>1, <1>3 DEF References, Cites, Left
<1>5. PipesTypes'
  BY <1>1 DEF PipesInv, PipesTypes, Lists
<1>6. Plans'
  BY <1>1, <1>2 DEF PipesInv, Plans, Linked, Ready, Has, HasAt, Allocs
<1>7. Unforked'
  BY <1>1, <1>2 DEF PipesInv, Unforked
<1>8. FilesExact'
  BY <1>1, <1>4 DEF PipesInv, FilesExact
<1>9. Calls'
  BY <1>1, <1>2, <1>4 DEF PipesInv, Calls, Reserved
<1>10. Ends'
  <2>1. \A r \in Processes : \A g, w : Shutting(Left(r)', g, w) <=> Shutting(Left(r), g, w)
    BY <1>2
  <2>2. \A r \in Processes : \A b \in Left(r)' : b[1] = "pipeclose" => b[2] \in Pages /\ b[3] \in BOOLEAN
    BY <1>2 DEF PipesInv, Ends
  <2>3. SameEnds
    BY <2>1, <2>2, <1>1 DEF SameEnds, IsEnd, PipesInv, Ends
  <2> QED BY <1>1, <2>3, EndsKept, PipesStand
<1> QED BY <1>5, <1>6, <1>7, <1>8, <1>9, <1>10 DEF PipesInv

LEMMA PipesKept ==
  ASSUME PipesInv, PipesNext \/ UNCHANGED pipesVars
  PROVE  PipesInv'
<1>1. ASSUME NEW p \in Processes, Run_process(p) \/ Kill_process(p) PROVE PipesInv'
  BY <1>1, DieKeeps, FileallocKeeps, PipeallocKeeps, Fork_childKeeps, DupKeeps, Close_fdKeeps,
     FilecloseKeeps, PipecloseKeeps, PipewriteKeeps, ConsoleWriteKeeps, PipereadKeeps,
     ExitKeeps, ZombieKeeps, WaitKeeps, KillKeeps DEF Run_process
<1> QED BY <1>1, PipesStutters DEF PipesNext

LEMMA PipesCounted == PipesInv => FilesCounted
<1> SUFFICES ASSUME PipesInv PROVE FilesCounted
  OBVIOUS
<1>1. \A p \in Processes : \A f : Cites(Left(p), f) <=> \E k \in DOMAIN todo[p] : Refers(todo[p][k], f)
  BY DEF Cites, Left, Steps
<1>2. \A p \in Processes : \A g, w :
        Shutting(Left(p), g, w) <=> \E k \in DOMAIN todo[p] : Shuts(todo[p][k], g, w)
  BY DEF Shutting, Left, Steps
<1>3. ASSUME NEW f \in 1..NFILE
      PROVE  ftable[f].ref = Cardinality({h \in Processes \X Fds : ofile[h[1]][h[2]] = f})
               + Cardinality({p \in Processes : \E k \in DOMAIN todo[p] : Refers(todo[p][k], f)})
  <2> DEFINE D == {h \in Processes \X Fds : ofile[h[1]][h[2]] = f}
             C == {p \in Processes : Cites(Left(p), f)}
  <2>1. C = {p \in Processes : \E k \in DOMAIN todo[p] : Refers(todo[p][k], f)}
    BY <1>1
  <2>2. NOFILE \notin Fds /\ Fds \subseteq 0..NOFILE /\ NOFILE \in 0..NOFILE
    BY PipesAssumption DEF Fds
  <2>3. References(f) = D \union (C \X {NOFILE})
    <3>1. ASSUME NEW h \in Processes \X (0..NOFILE)
          PROVE  h \in References(f) <=> h \in D \union (C \X {NOFILE})
      <4>1. PICK r \in Processes : h = <<r, NOFILE>> \/ \E fd \in Fds : h = <<r, fd>>
        BY HolderMember
      <4>2. CASE h = <<r, NOFILE>>
        BY <4>2, <2>2, HolderMember
      <4>3. ASSUME NEW fd \in Fds, h = <<r, fd>> PROVE h \in References(f) <=> h \in D \union (C \X {NOFILE})
        BY <4>3, <2>2, HolderMember
      <4> QED BY <4>1, <4>2, <4>3
    <3>2. D \union (C \X {NOFILE}) \subseteq Processes \X (0..NOFILE)
      BY <2>2
    <3> QED BY <3>1, <3>2, HolderMember
  <2>4. IsFiniteSet(C) /\ IsFiniteSet(D) /\ D \intersect (C \X {NOFILE}) = {}
    <3>1. IsFiniteSet(Processes) /\ C \subseteq Processes
      BY ProcessesInterval, FS_Interval
    <3>2. IsFiniteSet(References(f)) /\ D \subseteq References(f)
      BY <2>3, HoldersFinite
    <3>3. IsFiniteSet(C)
      BY <3>1, FS_Subset
    <3>4. IsFiniteSet(D)
      <4> HIDE DEF D
      <4> QED BY <3>2, FS_Subset
    <3> QED BY <3>3, <3>4, <2>2
  <2>5. Cardinality(References(f)) = Cardinality(D) + Cardinality(C)
    <3> HIDE DEF C, D
    <3>1. IsFiniteSet(C \X {NOFILE}) /\ Cardinality(C \X {NOFILE}) = Cardinality(C)
      BY <2>4, PairsCount
    <3> QED BY <3>1, <2>3, <2>4, DisjointCount
  <2> QED BY <2>1, <2>5 DEF PipesInv, FilesExact
<1>4. \A g \in Pages, w \in BOOLEAN :
        (IF w THEN pipes[g].writeopen ELSE pipes[g].readopen) <=>
          \/ \E f \in 1..NFILE : /\ ftable[f].type = "pipe"
                                 /\ ftable[f].pipe = g /\ ftable[f].writable = w
          \/ \E p \in Processes : \E k \in DOMAIN todo[p] : Shuts(todo[p][k], g, w)
  <2> SUFFICES ASSUME NEW g \in Pages, NEW w \in BOOLEAN
               PROVE  Opened(g, w) <=>
                        \/ \E f \in 1..NFILE : IsEnd(f, g, w)
                        \/ \E p \in Processes : \E k \in DOMAIN todo[p] : Shuts(todo[p][k], g, w)
    BY DEF Opened, IsEnd
  <2>1. Opened(g, w) <=> \/ \E f \in 1..NFILE : IsEnd(f, g, w)
                         \/ \E p \in Processes : Shutting(Left(p), g, w)
    BY DEF PipesInv, Ends
  <2> QED BY <2>1, <1>2
<1>5. \A g \in Pages : pipes[g].used <=> pipes[g].readopen \/ pipes[g].writeopen
  BY DEF PipesInv, Ends
<1> QED BY <1>3, <1>4, <1>5 DEF FilesCounted

\* file.c:44-80, pipe.c:59-74: at every step of a pipeline of any length, the count of a
\* file is the number of its descriptors and of the calls that hold it, an end of a pipe
\* is open exactly as long as a file or a closing call stands for it, and the page of a
\* pipe is freed with the last end, whichever call fails and whoever is killed.
THEOREM PipelineFiles == PipesSpec => []FilesCounted
<1>1. PipesInv /\ [PipesNext]_pipesVars => PipesInv'
  BY PipesKept
<1>2. PipesSpec => []PipesInv
  BY <1>1, PipesStart, PTL DEF PipesSpec
<1> QED BY <1>2, PipesCounted, PTL

-----------------------------------------------------------------------------
(* The processes side by side.                                             *)

\* A step of a user's process is a step of the line of xv6's shell, or leaves all that
\* it works on as it is; and so for mybash.
LEMMA PartsMove ==
  ASSUME [UNext]_uvars
  PROVE  /\ PipesNext \/ UNCHANGED pipesVars
         /\ \/ Shell \/ UNCHANGED bashVars
            \/ \E c \in DOMAIN kids : Execvp(c) \/ End_program(c)
<1>1. CASE SemNext \/ PingNext
  <2>1. UNCHANGED <<pipesVars, bashVars>>
    BY <1>1 DEF SemNext, PingNext, InSem, InPing
  <2> QED BY <2>1
<1>2. CASE PipeNext
  <2>1. PICK p \in Processes : (Run_process(p) \/ Kill_process(p)) /\ UNCHANGED bashVars
    BY <1>2 DEF PipeNext, InPipes, Run_process
  <2> QED BY <2>1 DEF PipesNext
<1>3. CASE LineNext
  <2>1. UNCHANGED pipesVars
    BY <1>3 DEF LineNext, InBash
  <2>2. Shell \/ \E c \in DOMAIN kids : Execvp(c) \/ End_program(c)
    BY <1>3 DEF LineNext, InBash, Shell
  <2> QED BY <2>1, <2>2
<1>4. CASE UNCHANGED uvars
  BY <1>4 DEF uvars
<1> QED BY <1>1, <1>2, <1>3, <1>4 DEF UNext

\* The two shells, whatever else runs: a count of a file, or an end of a pipe, that
\* is off would leave a reader of the pipe waiting for ever (file.c:44-80, pipe.c:59-74),
\* and so would an end that mybash keeps, in its own line or in its next (execute.c:141-165).
THEOREM DescriptorsKept == USpec => []DescriptorsRight
<1>1. UInit => PipesInv /\ BashInv
  BY PipesStart, BashStarts DEF UInit
<1>2. PipesInv /\ BashInv /\ [UNext]_uvars => PipesInv' /\ BashInv'
  BY PartsMove, PipesKept, BashKept
<1>3. PipesInv /\ BashInv => DescriptorsRight
  BY PipesCounted, BashLeaves DEF DescriptorsRight
<1> QED BY <1>1, <1>2, <1>3, PTL DEF USpec
=============================================================================
