---------------------------- MODULE ThreadsProofs ----------------------------
(***************************************************************************)
(* Proofs about the two models of threads that MCThreads checks side by    *)
(* side: RoundRobin, the walk over proc[] (for every NPROC and, for        *)
(* Dispatch, any set of CPUs), and Spinlock, the discipline of the locks   *)
(* (for every set of processes and of CPUs).  The two parts share nothing  *)
(* but the library.                                                        *)
(*                                                                         *)
(* RoundRobin.  Binding is what the scheduler owes to p->lock.  For the    *)
(* bound on the quanta, each quantum that p got while q waited is charged  *)
(* to the CPU that gave it: that CPU is now between p and q (Past), and    *)
(* cannot come back to p without passing q, where it would stop.           *)
(*                                                                         *)
(* Spinlock.  What a thread has before it, todo, is a list of operations;  *)
(* Does says what each one needs of the state of the thread (the locks it  *)
(* holds, noff, whether interrupts are on) and what it leaves, and Typed   *)
(* that a list leads from one state to another.  SpinInv: the thread on    *)
(* each CPU is in a state from which its list leads to its end, a          *)
(* suspended one waits for p->lock to be handed to it, and the locks are   *)
(* where these states say, each in one of them at most.                    *)
(***************************************************************************)
EXTENDS RoundRobinBypass, Spinlock, FiniteSetTheorems, SequenceTheorems,
        WellFoundedInduction, TLAPS

WalkTypes ==
  /\ state  \in [Slots -> States]
  /\ at     \in [Cpus -> Points]
  /\ cursor \in [Cpus -> Slots]

Binding ==
  /\ \A c \in Cpus : at[c] \in {"in", "run"} => state[cursor[c]] = "RUNNING"
  /\ \A c \in Cpus : at[c] = "out" =>
                       state[cursor[c]] \in {"RUNNABLE", "SLEEPING", "ZOMBIE"}
  /\ \A c, d \in Cpus : Running(c) /\ Running(d) /\ cursor[c] = cursor[d] => c = d

RRInv == WalkTypes /\ Binding

LEMMA Ranges ==
  /\ Initproc \in Slots /\ NoProc \notin Slots
  /\ \A p \in Slots : p # NPROC => p + 1 \in Slots
BY RoundRobinAssumption, SMT DEF Slots, Initproc, NoProc

LEMMA InitInv == Init => RRInv
BY Ranges DEF Init, RRInv, WalkTypes, Binding, States, Points, Running, Initproc

\* p++ keeps to proc[], and moves no other CPU.
LEMMA NextSlotType ==
  ASSUME WalkTypes, NEW c \in Cpus, NextSlot(c)
  PROVE  /\ cursor' \in [Cpus -> Slots]
         /\ \A d \in Cpus : d # c => cursor'[d] = cursor[d]
<1>1. 1 \in Slots
  BY Ranges DEF Initproc
<1> QED BY <1>1, Ranges DEF WalkTypes, NextSlot

LEMMA SchedulerInv ==
  ASSUME RRInv, NEW c \in Cpus, SchedulerStep(c)
  PROVE  RRInv'
<1> USE DEF RRInv
<1>1. CASE Skip(c)
  <2> USE <1>1 DEF Skip
  <2>1. WalkTypes'
    BY NextSlotType DEF WalkTypes
  <2>2. Binding'
    BY NextSlotType DEF WalkTypes, Binding, Running
  <2> QED BY <2>1, <2>2
<1>2. CASE Run(c)
  <2> USE <1>2 DEF Run
  <2>1. WalkTypes'
    BY DEF WalkTypes, States, Points
  <2>2. \A d \in Cpus : Running(d) => cursor[d] # cursor[c]
    BY DEF WalkTypes, Binding, Running, Unlocked, Points
  <2>3. Binding'
    BY <2>2 DEF WalkTypes, Binding, Running
  <2> QED BY <2>1, <2>3
<1>3. CASE Leave(c)
  <2> USE <1>3 DEF Leave
  <2>1. WalkTypes'
    BY NextSlotType DEF WalkTypes, Points
  <2>2. Binding'
    BY NextSlotType DEF WalkTypes, Binding, Running
  <2> QED BY <2>1, <2>2
<1> QED BY <1>1, <1>2, <1>3 DEF SchedulerStep

LEMMA ProcessInv ==
  ASSUME RRInv, NEW c \in Cpus, ProcessStep(c)
  PROVE  RRInv'
<1> USE DEF RRInv, ProcessStep, Resume, Yield, Sleep, Exit, Stop
<1>1. WalkTypes'
  BY DEF WalkTypes, States, Points
<1>2. Binding'
  BY DEF WalkTypes, Binding, Running
<1> QED BY <1>1, <1>2

\* Whoever finds p->lock free and p not RUNNING finds no CPU on p.
LEMMA OffCpuIfUnlocked ==
  ASSUME RRInv, NEW p \in Slots, Unlocked(p), state[p] # "RUNNING"
  PROVE  \A c \in Cpus : Running(c) => cursor[c] # p
BY DEF RRInv, WalkTypes, Binding, Running, Unlocked, Points

LEMMA OthersInv ==
  ASSUME RRInv, NEW p \in Slots, OtherStep(p)
  PROVE  RRInv'
<1> USE DEF RRInv, OtherStep, allocproc, Forked, wakeup, freeproc, Change
<1>1. WalkTypes'
  BY DEF WalkTypes, States
<1>2. Binding'
  BY OffCpuIfUnlocked DEF WalkTypes, Binding, Running
<1> QED BY <1>1, <1>2

LEMMA NextInv == RRInv /\ [Next]_vars => RRInv'
<1> SUFFICES ASSUME RRInv, [Next]_vars PROVE RRInv'
  OBVIOUS
<1>1. CASE UNCHANGED vars
  BY <1>1 DEF vars, RRInv, WalkTypes, Binding, Running
<1> QED BY <1>1, SchedulerInv, ProcessInv, OthersInv DEF Next

LEMMA Invariance == Spec => []RRInv
BY InitInv, NextInv, PTL DEF Spec

-----------------------------------------------------------------------------
(* The refinement.                                                           *)

LEMMA OffCpuIfFree ==
  ASSUME RRInv, NEW p \in Slots, Unlocked(p), state[p] # "RUNNING"
  PROVE  Abstract!OffCpu(p)
<1>1. ASSUME NEW c \in Cpus PROVE OnCpu[c] # p
  BY <1>1, OffCpuIfUnlocked, Ranges DEF OnCpu
<1> QED BY <1>1 DEF Abstract!OffCpu

LEMMA InitRefines == Init => Abstract!Init
BY DEF Init, OnCpu, Running, Abstract!Init

LEMMA RunRefines ==
  ASSUME RRInv, NEW c \in Cpus, Run(c)
  PROVE  Abstract!Run(c, cursor[c])
<1> USE DEF Run
<1>1. cursor[c] \in Slots
  BY DEF RRInv, WalkTypes
<1>2. OnCpu[c] = NoProc
  BY DEF OnCpu, Running
<1>3. Abstract!OffCpu(cursor[c])
  BY <1>1, OffCpuIfFree
<1>4. OnCpu' = [OnCpu EXCEPT ![c] = cursor[c]]
  BY DEF RRInv, WalkTypes, OnCpu, Running
<1> QED BY <1>2, <1>3, <1>4 DEF Abstract!Run

LEMMA StopRefines ==
  ASSUME RRInv, NEW c \in Cpus, Yield(c) \/ Sleep(c) \/ Exit(c)
  PROVE  Abstract!Stop(c, cursor[c])
<1> USE DEF Yield, Sleep, Exit, Stop
<1>1. OnCpu[c] = cursor[c]
  BY DEF OnCpu, Running
<1>2. state[cursor[c]] = "RUNNING"
  BY DEF RRInv, Binding
<1>3. OnCpu' = OnCpu
  BY DEF RRInv, WalkTypes, OnCpu, Running
<1> QED BY <1>1, <1>2, <1>3 DEF Abstract!Stop

LEMMA LeaveRefines ==
  ASSUME RRInv, NEW c \in Cpus, Leave(c)
  PROVE  Abstract!Leave(c, cursor[c])
<1> USE DEF Leave
<1>1. OnCpu[c] = cursor[c]
  BY DEF OnCpu, Running
<1>2. state[cursor[c]] # "RUNNING"
  BY DEF RRInv, Binding
<1>3. OnCpu' = [OnCpu EXCEPT ![c] = NoProc]
  BY NextSlotType DEF RRInv, WalkTypes, OnCpu, Running
<1> QED BY <1>1, <1>2, <1>3 DEF Abstract!Leave

LEMMA OthersRefine ==
  ASSUME RRInv, NEW p \in Slots, OtherStep(p)
  PROVE  \/ Abstract!Create(p) \/ Abstract!Ready(p) \/ Abstract!Wake(p)
         \/ Abstract!Abort(p) \/ Abstract!Reap(p)
<1> USE DEF OtherStep, allocproc, Forked, wakeup, freeproc, Change
<1>1. OnCpu' = OnCpu
  BY DEF OnCpu, Running
<1>2. Abstract!OffCpu(p)
  BY OffCpuIfFree
<1> QED
  BY <1>1, <1>2 DEF Abstract!Create, Abstract!Ready, Abstract!Wake, Abstract!Abort,
                    Abstract!Reap, Abstract!Move

\* Nobody gets on a CPU or leaves one.
LEMMA ScanRefines ==
  ASSUME RRInv, NEW c \in Cpus, Skip(c) \/ Resume(c)
  PROVE  UNCHANGED <<state, OnCpu>>
<1>1. UNCHANGED state
  BY DEF Skip, Resume
<1>2. ASSUME NEW d \in Cpus
      PROVE  /\ Running(d) <=> Running(d)'
             /\ Running(d) => cursor'[d] = cursor[d]
  BY NextSlotType DEF RRInv, WalkTypes, Skip, Resume, Running
<1> QED BY <1>1, <1>2 DEF OnCpu

LEMMA StepRefines == RRInv /\ [Next]_vars => [Abstract!Next]_<<state, OnCpu>>
<1> SUFFICES ASSUME RRInv, [Next]_vars
             PROVE  Abstract!Next \/ UNCHANGED <<state, OnCpu>>
  OBVIOUS
<1>1. CASE UNCHANGED vars
  BY <1>1 DEF vars, OnCpu, Running
<1>2. ASSUME NEW c \in Cpus, SchedulerStep(c) \/ ProcessStep(c)
      PROVE  Abstract!Next \/ UNCHANGED <<state, OnCpu>>
  <2>1. cursor[c] \in Slots
    BY DEF RRInv, WalkTypes
  <2> QED
    BY <1>2, <2>1, RunRefines, StopRefines, LeaveRefines, ScanRefines
    DEF SchedulerStep, ProcessStep, Abstract!Next
<1>3. ASSUME NEW p \in Slots, OtherStep(p)
      PROVE  Abstract!Next
  BY <1>3, OthersRefine DEF Abstract!Next
<1> QED BY <1>1, <1>2, <1>3 DEF Next

\* LAB2's scheduler runs a process on one CPU at a time, and nobody wakes or frees
\* one that a CPU is still on (proc.c:459-472), as Dispatch promises.
THEOREM Refinement == Spec => ImplementsDispatch
BY InitRefines, StepRefines, Invariance, PTL
   DEF Spec, ImplementsDispatch, Abstract!Spec, Abstract!dvars

-----------------------------------------------------------------------------
(* The bound on the quanta.                                                  *)

\* x comes after p and before q in the walk.
Strictly(p, x, q) == IF p < q THEN p < x /\ x < q ELSE p < x \/ x < q

\* The CPUs that have come by p and not yet by q.
Past(p, q) == {c \in Cpus : \/ cursor[c] = p /\ Running(c)
                            \/ Strictly(p, cursor[c], q)
                            \/ cursor[c] = q /\ ~Running(c)}

Charged ==
  /\ bypass \in [Slots -> [Slots -> Nat]]
  /\ \A p, q \in Slots :
       bypass[q][p] <= IF p = q THEN 0 ELSE Cardinality(Past(p, q))

BypassInv == RRInv /\ Charged

\* Past is finite, and a part of all CPUs.
LEMMA PastSize ==
  ASSUME NEW p, NEW q
  PROVE  IsFiniteSet(Past(p, q)) /\ Cardinality(Past(p, q)) \in Nat
         /\ Cardinality(Past(p, q)) <= Bound
<1>1. Past(p, q) \subseteq Cpus
  BY DEF Past
<1>2. /\ IsFiniteSet(Past(p, q)) /\ Cardinality(Past(p, q)) <= Cardinality(Cpus)
      /\ Cardinality(Cpus) \in Nat /\ Cardinality(Past(p, q)) \in Nat
  BY <1>1, BypassAssumption, FS_Subset, FS_CardinalityType
<1> QED BY <1>2, BypassAssumption, SMT

\* The next slot after one between p and q is between them, or q.
LEMMA Onward ==
  ASSUME NEW p \in Slots, NEW q \in Slots, NEW x \in Slots, p # q,
         x = p \/ Strictly(p, x, q)
  PROVE  LET y == IF x = NPROC THEN 1 ELSE x + 1
         IN  y = q \/ Strictly(p, y, q)
BY RoundRobinAssumption, SMT DEF Slots, Strictly

\* No CPU passes q while it waits, and whoever comes by p gets between p and q.
LEMMA PastGrows ==
  ASSUME RRInv, [Next]_vars, NEW p \in Slots, NEW q \in Slots, p # q, Waits(q)
  PROVE  /\ Past(p, q) \subseteq Past(p, q)'
         /\ Runs(p) => \E c \in Past(p, q)' : c \notin Past(p, q)
<1> USE DEF Waits, Runs, RRInv
<1>1. ASSUME UNCHANGED <<at, cursor>>, ~Runs(p)
      PROVE  /\ Past(p, q) \subseteq Past(p, q)'
             /\ Runs(p) => \E c \in Past(p, q)' : c \notin Past(p, q)
  BY <1>1 DEF Past, Running
<1>2. CASE UNCHANGED vars
  BY <1>1, <1>2 DEF vars
<1>3. CASE \E r \in Slots : OtherStep(r)
  <2>1. ~Runs(p)
    BY <1>3 DEF OtherStep, allocproc, Forked, wakeup, freeproc, Change, WalkTypes
  <2> QED BY <1>1, <1>3, <2>1 DEF OtherStep, allocproc, Forked, wakeup, freeproc, Change
<1>4. ASSUME NEW c \in Cpus, SchedulerStep(c) \/ ProcessStep(c)
      PROVE  /\ Past(p, q) \subseteq Past(p, q)'
             /\ Runs(p) => \E d \in Past(p, q)' : d \notin Past(p, q)
  <2>1. cursor[c] \in Slots
    BY DEF WalkTypes
  <2>2. CASE Skip(c) \/ Leave(c)
    <3>1. ~Runs(p)
      BY <2>2 DEF Skip, Leave
    <3>2. NextSlot(c) /\ ~Running(c)'
      BY <2>2 DEF Skip, Leave, WalkTypes, Running
    <3>3. /\ cursor'[c] = IF cursor[c] = NPROC THEN 1 ELSE cursor[c] + 1
          /\ \A d \in Cpus : d # c => cursor'[d] = cursor[d] /\ at'[d] = at[d]
      BY <2>2 DEF Skip, Leave, NextSlot, WalkTypes
    <3>4. c \in Past(p, q) => cursor[c] = p \/ Strictly(p, cursor[c], q)
      BY <2>2 DEF Past, Skip, Leave, Running
    <3>5. c \in Past(p, q) => c \in Past(p, q)'
      BY <2>1, <3>2, <3>3, <3>4, Onward DEF Past
    <3>6. \A d \in Past(p, q) : d \in Past(p, q)'
      BY <3>3, <3>5 DEF Past, Running
    <3> QED BY <3>1, <3>6
  <2>3. CASE Run(c)
    <3>1. /\ cursor' = cursor /\ ~Running(c) /\ Running(c)'
          /\ \A d \in Cpus : d # c => at'[d] = at[d]
      BY <2>3 DEF Run, Running, WalkTypes
    <3>2. cursor[c] # q
      BY <2>1, <2>3 DEF Run, WalkTypes
    <3>3. Past(p, q) \subseteq Past(p, q)'
      BY <3>1, <3>2 DEF Past, Running
    <3>4. ASSUME cursor[c] = p PROVE c \in Past(p, q)' /\ c \notin Past(p, q)
      BY <3>1, <3>4 DEF Past, Strictly, Slots
    <3>5. Runs(p) => cursor[c] = p
      BY <2>3 DEF Run, WalkTypes
    <3> QED BY <3>3, <3>4, <3>5
  <2>4. CASE ProcessStep(c)
    <3>1. cursor' = cursor /\ \A d \in Cpus : Running(d) <=> Running(d)'
      BY <2>4 DEF ProcessStep, Resume, Yield, Sleep, Exit, Stop, Running, WalkTypes
    <3>2. ~Runs(p)
      BY <2>4 DEF ProcessStep, Resume, Yield, Sleep, Exit, Stop, WalkTypes
    <3> QED BY <3>1, <3>2 DEF Past
  <2> QED BY <1>4, <2>2, <2>3, <2>4 DEF SchedulerStep
<1> QED BY <1>2, <1>3, <1>4 DEF Next

LEMMA ChargedNext ==
  ASSUME BypassInv, [BypassNext]_<<vars, bypass>>
  PROVE  Charged'
<1> USE DEF BypassInv, Charged
<1>1. CASE UNCHANGED <<vars, bypass>>
  BY <1>1 DEF vars, Past, Running
<1>2. CASE BypassNext
  <2>1. /\ [Next]_vars
        /\ bypass' = [q \in Slots |-> [p \in Slots |-> Count(q, p)]]
    BY <1>2 DEF BypassNext
  <2>2. ASSUME NEW p \in Slots, NEW q \in Slots
        PROVE  /\ Count(q, p) \in Nat
               /\ Count(q, p) <= IF p = q THEN 0 ELSE Cardinality(Past(p, q)')
    <3> DEFINE S == Past(p, q)
               T == Past(p, q)'
    <3>1. bypass[q][p] \in Nat /\ IsFiniteSet(S) /\ Cardinality(S) \in Nat
      BY PastSize
    <3>2. IsFiniteSet(T) /\ Cardinality(T) \in Nat
      <4>1. T \subseteq Cpus
        BY DEF Past
      <4> QED BY <4>1, BypassAssumption, FS_Subset, FS_CardinalityType
    <3>3. CASE ~Waits(q)
      BY <3>2, <3>3 DEF Count
    <3>4. CASE Waits(q) /\ p = q
      BY <3>1, <3>4 DEF Count, Waits, Runs
    <3>5. CASE Waits(q) /\ p # q /\ ~Runs(p)
      <4>1. S \subseteq T
        BY <2>1, <3>5, PastGrows
      <4>2. Cardinality(S) <= Cardinality(T)
        BY <3>2, <4>1, FS_Subset
      <4> QED BY <3>1, <3>2, <3>5, <4>2, SMT DEF Count
    <3>6. CASE Waits(q) /\ p # q /\ Runs(p)
      <4>1. PICK c \in T : c \notin S
        BY <2>1, <3>6, PastGrows
      <4>2. S \union {c} \subseteq T
        BY <2>1, <3>6, <4>1, PastGrows
      <4>3. Cardinality(S \union {c}) = Cardinality(S) + 1
        BY <3>1, <4>1, FS_AddElement
      <4>4. Cardinality(S) + 1 <= Cardinality(T)
        BY <3>2, <4>2, <4>3, FS_Subset
      <4> QED BY <3>1, <3>2, <3>6, <4>4, SMT DEF Count
    <3> QED BY <3>3, <3>4, <3>5, <3>6
  <2>3. bypass' \in [Slots -> [Slots -> Nat]]
    BY <2>1, <2>2
  <2>4. \A p, q \in Slots : bypass'[q][p] = Count(q, p)
    BY <2>1
  <2> QED BY <2>2, <2>3, <2>4
<1> QED BY <1>1, <1>2

LEMMA BypassInvariance == BypassSpec => []BypassInv
<1>1. BypassInit => BypassInv
  <2> SUFFICES ASSUME BypassInit PROVE BypassInv
    OBVIOUS
  <2>1. RRInv
    BY InitInv DEF BypassInit
  <2>2. \A p, q \in Slots : bypass[q][p] = 0 /\ Cardinality(Past(p, q)) \in Nat
    BY PastSize DEF BypassInit
  <2>3. bypass \in [Slots -> [Slots -> Nat]]
    BY DEF BypassInit
  <2> QED BY <2>1, <2>2, <2>3, SMT DEF BypassInv, Charged
<1>2. BypassInv /\ [BypassNext]_<<vars, bypass>> => BypassInv'
  <2>1. [BypassNext]_<<vars, bypass>> => [Next]_vars
    BY DEF BypassNext
  <2> QED BY <2>1, NextInv, ChargedNext DEF BypassInv
<1> QED BY <1>1, <1>2, PTL DEF BypassSpec

\* While a process waits, no other one gets more quanta than there are CPUs: none of
\* the walks passes the slot of a RUNNABLE process (proc.c:457-473).
THEOREM WalkIsFair == BypassSpec => []BoundedBypass
<1>1. BypassInv => BoundedBypass
  <2> SUFFICES ASSUME BypassInv, NEW p \in Slots, NEW q \in Slots
               PROVE  bypass[q][p] <= Bound
    BY DEF BoundedBypass
  <2>1. bypass[q][p] \in Nat /\ bypass[q][p] <= IF p = q THEN 0 ELSE Cardinality(Past(p, q))
    BY DEF BypassInv, Charged
  <2> QED BY <2>1, PastSize, BypassAssumption, SMT
<1> QED BY <1>1, BypassInvariance, PTL

-----------------------------------------------------------------------------
\* Every nonempty set of naturals has a least element: the provers' way to an
\* induction, from the well-foundedness of the intervals 0..n.
LEMMA Least ==
  ASSUME NEW T, T \subseteq Nat, T # {}
  PROVE  \E m \in T : \A k \in T : m <= k
<1> DEFINE U == {0..n : n \in T}
<1>1. U \subseteq FiniteSubsetsOf(Nat)
  <2> SUFFICES ASSUME NEW n \in T PROVE 0..n \in FiniteSubsetsOf(Nat)
    OBVIOUS
  <2>1. n \in Int /\ 0 \in Int
    OBVIOUS
  <2>2. IsFiniteSet(0..n)
    BY <2>1, FS_Interval
  <2> QED BY <2>2 DEF FiniteSubsetsOf
<1>2. U # {}
  OBVIOUS
<1>3. \E x \in U : \A y \in U : ~ (<<y, x>> \in StrictSubsetOrdering(Nat))
  <2> HIDE DEF U
  <2> QED BY <1>1, <1>2, FS_StrictSubsetOrderingWellFounded, WFMin
<1>4. PICK m \in T : \A k \in T : ~ (<<0..k, 0..m>> \in StrictSubsetOrdering(Nat))
  BY <1>3
<1>5. ASSUME NEW k \in T, k < m PROVE FALSE
  <2>1. 0..k \subseteq 0..m /\ m \in 0..m /\ m \notin 0..k
    BY <1>5
  <2>2. 0..k # 0..m
    BY <2>1
  <2>3. 0..k \in SUBSET Nat /\ 0..m \in SUBSET Nat
    OBVIOUS
  <2> QED BY <1>4, <2>1, <2>2, <2>3 DEF StrictSubsetOrdering
<1> QED BY <1>5

\* The function that FlattenSeq() is defined by exists.
Flattens(f, seqs, n) ==
  f = [i \in 1..n |-> IF i = 1 THEN seqs[i] ELSE f[i-1] \o seqs[i]]

LEMMA FlattensExists ==
  ASSUME NEW seqs, NEW N \in Nat
  PROVE  \E f : Flattens(f, seqs, N)
<1> DEFINE T == {n \in Nat : ~\E f : Flattens(f, seqs, n)}
<1>1. SUFFICES ASSUME T # {} PROVE FALSE
  OBVIOUS
<1>2. PICK m \in T : \A k \in T : m <= k
  BY <1>1, Least
<1>3. CASE m = 0
  <2>1. Flattens([i \in 1..0 |-> 0], seqs, 0)
    BY DEF Flattens
  <2> QED BY <1>3, <2>1
<1>4. CASE m # 0
  <2>1. m - 1 \in Nat /\ m - 1 \notin T
    BY <1>2, <1>4
  <2>2. PICK f : Flattens(f, seqs, m - 1)
    BY <2>1
  <2> DEFINE g == [i \in 1..m |-> IF i = m THEN IF i = 1 THEN seqs[i] ELSE f[i-1] \o seqs[i]
                                  ELSE f[i]]
  <2>3. ASSUME NEW i \in 1..m
        PROVE  g[i] = IF i = 1 THEN seqs[i] ELSE g[i-1] \o seqs[i]
    <3>1. CASE i = m
      BY <3>1, <2>1
    <3>2. CASE i # m
      <4>1. i \in 1..(m-1)
        BY <3>2
      <4>2. f[i] = IF i = 1 THEN seqs[i] ELSE f[i-1] \o seqs[i]
        BY <2>2, <4>1 DEF Flattens
      <4>3. i # 1 => g[i-1] = f[i-1]
        BY <4>1
      <4> QED BY <3>2, <4>2, <4>3
    <3> QED BY <3>1, <3>2
  <2>4. Flattens(g, seqs, m)
    <3> HIDE DEF g
    <3>1. g = [i \in 1..m |-> g[i]]
      BY DEF g
    <3> QED BY <2>3, <3>1 DEF Flattens
  <2> QED BY <2>4
<1> QED BY <1>3, <1>4

\* What is closed under concatenation and has every element has FlattenSeq() of them.
LEMMA FlattenClosed ==
  ASSUME NEW S, <<>> \in S, \A s, t \in S : s \o t \in S,
         NEW N \in Nat, NEW seqs \in [1..N -> S], Len(seqs) = N
  PROVE  FlattenSeq(seqs) \in S
<1>1. CASE N = 0
  <2>1. seqs = <<>>
    BY <1>1
  <2> QED BY <1>1, <2>1 DEF FlattenSeq
<1>2. CASE N # 0
  <2> DEFINE F == CHOOSE f : Flattens(f, seqs, N)
  <2>1. Flattens(F, seqs, N)
    BY FlattensExists
  <2>2. FlattenSeq(seqs) = F[N]
    BY <1>2 DEF FlattenSeq, Flattens
  <2> HIDE DEF F
  <2>3. \A i \in 1..N : F[i] = IF i = 1 THEN seqs[i] ELSE F[i-1] \o seqs[i]
    BY <2>1 DEF Flattens
  <2> DEFINE T == {n \in 1..N : F[n] \notin S}
  <2>4. SUFFICES T = {}
    BY <2>2, <1>2
  <2>5. SUFFICES ASSUME T # {} PROVE FALSE
    OBVIOUS
  <2>6. PICK m \in T : \A k \in T : m <= k
    <3>1. T \subseteq Nat
      OBVIOUS
    <3> QED BY <3>1, <2>5, Least
  <2>7. m # 1
    BY <2>3, <2>6
  <2>8. m - 1 \in 1..N /\ m - 1 \notin T
    BY <2>6, <2>7
  <2>9. F[m] = F[m-1] \o seqs[m]
    BY <2>3, <2>6, <2>7
  <2> QED BY <2>6, <2>8, <2>9
<1> QED BY <1>1, <1>2

-----------------------------------------------------------------------------
(* Typings of what a thread has still to do.                               *)

Threads == Harts \union Procs

\* Where a thread is: in a handler, "timer" of user mode or "kernel"; in a system
\* call before, between and after intr_on() and intr_off(); before its first return
\* to user mode, with interrupts as they came and then off; in user mode; switched
\* to and about to restore intena; the scheduler.
OffModes == {"timer", "kernel", "pre", "post", "forked"}
OnModes  == {"open", "user"}
Modes    == OffModes \union OnModes \union {"forkret", "resumed", "sched"}

\* A state of a thread: the locks it holds, those between their swap and the store
\* of lk->cpu, or between that store and the unlock; noff; its mode.
ThreadStates == {a \in [held : SUBSET Locks, half : SUBSET Locks, n : Nat, mode : Modes] :
             /\ a.n = 0 => a.held = {} /\ a.half = {}
             /\ a.mode \in {"user", "resumed"} => a.n = IF a.mode = "user" THEN 0 ELSE 1}

At(h, k, m) == [held |-> h, half |-> {}, n |-> k, mode |-> m]
Handed(p, m) == At({p}, 1, m)
End(x) == At({}, 0, IF x \in Procs THEN "user" ELSE "sched")

\* Whether its mode lets interrupts in, where its mode says.
Flag(a, on) == /\ a.mode \in OnModes => on = TRUE
               /\ a.mode \in OffModes => on = FALSE

\* What thread x may do in state a, and the state b it is in then.
Takes(x, o, a, b) ==
  /\ o[1] \in {"acquire", "push_off"}
  /\ a.mode \notin {"resumed", "user"} /\ a.half = {}
  /\ o[2] \in Locks \ a.held
  /\ o[1] = "push_off" /\ a.n = 0 => Flag(a, o[3])
  /\ b = At(a.held \union {o[2]}, a.n + 1, a.mode)

Swaps(x, o, a, b) ==
  /\ o[1] = "swap"
  /\ a.half = {} /\ o[2] \in Locks \ a.held /\ a.n > 0 /\ a.mode # "resumed"
  /\ b = At(a.held \union {o[2]}, a.n, a.mode)

Releases(x, o, a, b) ==
  /\ o[1] = "release"
  /\ a.half = {} /\ o[2] \in a.held /\ a.n > 0 /\ a.mode # "resumed"
  /\ b = At(a.held \ {o[2]}, a.n - 1, a.mode)

Unlocks(x, o, a, b) ==
  /\ o[1] = "unlock"
  /\ o[2] \in a.half \ a.held /\ a.n > 0 /\ a.mode # "resumed"
  /\ b = [a EXCEPT !.half = @ \ {o[2]}]

Pops(x, o, a, b) ==
  /\ o[1] = "pop_off"
  /\ a.half = {} /\ a.n > 0 /\ a.mode # "resumed"
  /\ b = At(a.held, a.n - 1, a.mode)

SetsFlag(x, o, a, b) ==
  /\ o[1] \in {"on", "off"} /\ a.n = 0
  /\ <<o[1], a.mode, b.mode>> \in
       {<<"on", "pre", "open">>, <<"on", "sched", "sched">>, <<"off", "open", "post">>,
        <<"off", "timer", "timer">>, <<"off", "forkret", "forked">>}
  /\ b = At({}, 0, b.mode)

Returns(x, o, a, b) ==
  /\ o[1] = "return" /\ a.n = 0
  /\ <<o[2], a.mode>> \in {<<"timer", "timer">>, <<"syscall", "post">>,
                          <<"forkret", "forked">>, <<"kernel", "kernel">>}
  /\ IF a.mode = "kernel" THEN b.mode \notin OffModes ELSE b.mode = "user"
  /\ b = At({}, 0, b.mode)

Switches(x, o, a, b) ==
  /\ o[1] = "sched" /\ o[2] \in {"RUNNABLE", "SLEEPING"}
  /\ x \in Procs /\ a = Handed(x, a.mode) /\ a.mode \in OffModes \union OnModes
  /\ b = a

Restores(x, o, a, b) ==
  /\ o[1] = "intena"
  /\ x \in Procs /\ a = Handed(x, "resumed")
  /\ b = Handed(x, b.mode) /\ b.mode \in IF o[2] THEN OnModes ELSE OffModes

Visits(x, o, a, b) ==
  /\ \/ o[1] = "pick" /\ x \in Harts /\ o[2] \in Procs /\ a = Handed(o[2], "sched")
     \/ o[1] = "wake" /\ o[2] \in Procs /\ a.n > 0
  /\ a.half = {} /\ a.mode # "resumed"
  /\ b = a

Does(x, o, a, b) ==
  \/ Takes(x, o, a, b) \/ Swaps(x, o, a, b) \/ Releases(x, o, a, b) \/ Unlocks(x, o, a, b)
  \/ Pops(x, o, a, b) \/ SetsFlag(x, o, a, b) \/ Returns(x, o, a, b)
  \/ Switches(x, o, a, b) \/ Restores(x, o, a, b) \/ Visits(x, o, a, b)

Operations ==
  {<<"pop_off">>, <<"on">>, <<"off">>}
    \union ({"acquire", "swap", "release", "unlock"} \X Locks)
    \union ({"push_off"} \X Locks \X BOOLEAN) \union ({"own"} \X Locks \X Harts)
    \union ({"sched"} \X {"RUNNABLE", "SLEEPING"}) \union ({"intena"} \X BOOLEAN)
    \union ({"pick", "wake"} \X Procs)
    \union ({"return"} \X {"timer", "syscall", "forkret", "kernel"})

\* Sequence s leads thread x from state a to state e.
Leads(h, x, s, a, e) ==
  /\ h \in [1..Len(s)+1 -> ThreadStates] /\ h[1] = a /\ h[Len(s)+1] = e
  /\ \A i \in 1..Len(s) : Does(x, s[i], h[i], h[i+1])
Typed(x, s, a, e) == s \in Seq(Operations) /\ \E h : Leads(h, x, s, a, e)

LEMMA TypedEmpty ==
  ASSUME NEW x, NEW a \in ThreadStates
  PROVE  Typed(x, <<>>, a, a)
<1>1. Leads([i \in 1..1 |-> a], x, <<>>, a, a)
  BY DEF Leads
<1>2. <<>> \in Seq(Operations)
  OBVIOUS
<1> QED BY <1>1, <1>2 DEF Typed

LEMMA TypedNothing ==
  ASSUME NEW x, NEW a, NEW e, Typed(x, <<>>, a, e)
  PROVE  a = e
BY DEF Typed, Leads

LEMMA TypedOne ==
  ASSUME NEW x, NEW a \in ThreadStates, NEW b \in ThreadStates, NEW o \in Operations, Does(x, o, a, b)
  PROVE  Typed(x, <<o>>, a, b)
<1> DEFINE h == [i \in 1..2 |-> IF i = 1 THEN a ELSE b]
<1>1. <<o>> \in Seq(Operations) /\ Len(<<o>>) = 1 /\ <<o>>[1] = o
  OBVIOUS
<1>2. h \in [1..2 -> ThreadStates] /\ h[1] = a /\ h[2] = b
  OBVIOUS
<1> HIDE DEF h
<1>3. Leads(h, x, <<o>>, a, b)
  BY <1>1, <1>2 DEF Leads
<1> QED BY <1>1, <1>3 DEF Typed

LEMMA TypedConcat ==
  ASSUME NEW x, NEW a, NEW b, NEW e, NEW s, NEW t, Typed(x, s, a, b), Typed(x, t, b, e)
  PROVE  Typed(x, s \o t, a, e)
<1>1. PICK h : Leads(h, x, s, a, b)
  BY DEF Typed
<1>2. PICK g : Leads(g, x, t, b, e)
  BY DEF Typed
<1>3. s \in Seq(Operations) /\ t \in Seq(Operations)
  BY DEF Typed
<1>4. /\ s \o t \in Seq(Operations) /\ Len(s \o t) = Len(s) + Len(t)
      /\ \A i \in 1..Len(s \o t) : (s \o t)[i] = IF i <= Len(s) THEN s[i] ELSE t[i - Len(s)]
  BY <1>3, ConcatProperties
<1>5. Len(s) \in Nat /\ Len(t) \in Nat
  BY <1>3
<1> DEFINE f == [i \in 1..Len(s)+Len(t)+1 |-> IF i <= Len(s) THEN h[i] ELSE g[i - Len(s)]]
<1>6. \A i \in 1..Len(s)+1 : f[i] = h[i]
  BY <1>1, <1>2, <1>5 DEF Leads
<1>7. \A i \in 1..Len(t)+1 : f[i + Len(s)] = g[i]
  BY <1>5
<1>8. f \in [1..Len(s)+Len(t)+1 -> ThreadStates]
  BY <1>1, <1>2, <1>5 DEF Leads
<1> HIDE DEF f
<1>9. ASSUME NEW i \in 1..Len(s \o t)
      PROVE  Does(x, (s \o t)[i], f[i], f[i+1])
  <2>1. CASE i <= Len(s)
    <3>1. i \in 1..Len(s) /\ i \in 1..Len(s)+1 /\ i + 1 \in 1..Len(s)+1
      BY <1>4, <1>5, <2>1
    <3>2. f[i] = h[i] /\ f[i+1] = h[i+1] /\ (s \o t)[i] = s[i]
      BY <1>4, <1>6, <2>1, <3>1
    <3> QED BY <1>1, <3>1, <3>2 DEF Leads
  <2>2. CASE i > Len(s)
    <3> DEFINE j == i - Len(s)
    <3>1. j \in 1..Len(t) /\ j \in 1..Len(t)+1 /\ j + 1 \in 1..Len(t)+1
      BY <1>4, <1>5, <2>2
    <3>2. f[i] = g[j] /\ f[i+1] = g[j+1] /\ (s \o t)[i] = t[j]
      <4>1. i = j + Len(s) /\ i + 1 = (j + 1) + Len(s)
        BY <1>5
      <4>2. f[j + Len(s)] = g[j] /\ f[(j + 1) + Len(s)] = g[j+1]
        BY <1>7, <3>1
      <4> QED BY <1>4, <1>5, <2>2, <4>1, <4>2
    <3> QED BY <1>2, <3>1, <3>2 DEF Leads
  <2> QED BY <1>5, <2>1, <2>2
<1>10. f[1] = a /\ f[Len(s)+Len(t)+1] = e
  <2>1. 1 \in 1..Len(s)+1 /\ Len(t)+1 \in 1..Len(t)+1
    BY <1>5
  <2>2. f[1] = h[1]
    BY <2>1, <1>6
  <2>3. f[(Len(t)+1) + Len(s)] = g[Len(t)+1]
    BY <2>1, <1>7
  <2>4. (Len(t)+1) + Len(s) = Len(s)+Len(t)+1
    BY <1>5
  <2> QED BY <1>1, <1>2, <2>2, <2>3, <2>4 DEF Leads
<1>11. Leads(f, x, s \o t, a, e)
  BY <1>4, <1>8, <1>9, <1>10 DEF Leads
<1> QED BY <1>4, <1>11 DEF Typed

LEMMA TypedTail ==
  ASSUME NEW x, NEW a, NEW e, NEW s, Typed(x, s, a, e), s # <<>>
  PROVE  /\ Head(s) \in Operations
         /\ \E b \in ThreadStates : Does(x, Head(s), a, b) /\ Typed(x, Tail(s), b, e)
<1>1. PICK h : Leads(h, x, s, a, e)
  BY DEF Typed
<1>2. s \in Seq(Operations)
  BY DEF Typed
<1>3. /\ Len(s) \in Nat \ {0} /\ Head(s) = s[1] /\ Head(s) \in Operations
      /\ Tail(s) \in Seq(Operations) /\ Len(Tail(s)) = Len(s) - 1
      /\ \A i \in 1..Len(Tail(s)) : Tail(s)[i] = s[i+1]
  BY <1>2, HeadTailProperties, EmptySeq
<1> DEFINE g == [i \in 1..Len(s) |-> h[i+1]]
<1>4. Leads(g, x, Tail(s), h[2], e)
  <2>1. g \in [1..Len(Tail(s))+1 -> ThreadStates]
    BY <1>1, <1>3 DEF Leads
  <2>2. g[1] = h[2] /\ g[Len(Tail(s))+1] = e
    BY <1>1, <1>3 DEF Leads
  <2>3. ASSUME NEW i \in 1..Len(Tail(s))
        PROVE  Does(x, Tail(s)[i], g[i], g[i+1])
    <3>1. i + 1 \in 1..Len(s) /\ i \in 1..Len(s)
      BY <1>3
    <3>2. Does(x, s[i+1], h[i+1], h[(i+1)+1])
      BY <1>1, <3>1 DEF Leads
    <3>3. g[i] = h[i+1] /\ g[i+1] = h[(i+1)+1] /\ Tail(s)[i] = s[i+1]
      BY <1>3, <3>1
    <3> QED BY <3>2, <3>3
  <2> HIDE DEF g
  <2> QED BY <2>1, <2>2, <2>3 DEF Leads
<1>5. h[2] \in ThreadStates /\ Does(x, Head(s), a, h[2])
  BY <1>1, <1>3 DEF Leads
<1>6. Typed(x, Tail(s), h[2], e)
  BY <1>3, <1>4 DEF Typed
<1> QED BY <1>3, <1>5, <1>6

-----------------------------------------------------------------------------
(* The typings of what traps and the scheduler give a thread to do.        *)

LEMMA AtIsState ==
  ASSUME NEW H \in SUBSET Locks, NEW k \in Nat, NEW m \in Modes,
         k = 0 => H = {}, m \notin {"user", "resumed"}
  PROVE  At(H, k, m) \in ThreadStates
BY DEF At, ThreadStates

LEMMA AtFields ==
  ASSUME NEW H, NEW k, NEW m
  PROVE  /\ At(H, k, m).held = H /\ At(H, k, m).half = {}
         /\ At(H, k, m).n = k /\ At(H, k, m).mode = m
BY DEF At

LEMMA EndIsState ==
  ASSUME NEW x
  PROVE  End(x) \in ThreadStates
BY DEF End, At, ThreadStates, Modes, OnModes

LEMMA AcquireTyped ==
  ASSUME NEW x, NEW H \in SUBSET Locks, NEW k \in Nat, NEW m \in Modes,
         k = 0 => H = {}, m \notin {"user", "resumed"}, NEW l \in Locks \ H
  PROVE  Typed(x, <<<<"acquire", l>>>>, At(H, k, m), At(H \union {l}, k + 1, m))
<1>1. At(H, k, m) \in ThreadStates /\ At(H \union {l}, k + 1, m) \in ThreadStates
  BY AtIsState
<1>2. <<"acquire", l>> \in Operations
  BY DEF Operations
<1>3. Takes(x, <<"acquire", l>>, At(H, k, m), At(H \union {l}, k + 1, m))
  <2>1. /\ At(H, k, m).mode = m /\ At(H, k, m).half = {} /\ At(H, k, m).held = H
        /\ At(H, k, m).n = k
    BY DEF At
  <2> QED BY <2>1 DEF Takes
<1> QED BY <1>1, <1>2, <1>3, TypedOne DEF Does

LEMMA ReleaseTyped ==
  ASSUME NEW x, NEW H \in SUBSET Locks, NEW k \in Nat \ {0}, NEW m \in Modes,
         m \notin {"user", "resumed"}, NEW l \in H, k = 1 => H = {l}
  PROVE  Typed(x, <<<<"release", l>>>>, At(H, k, m), At(H \ {l}, k - 1, m))
<1>1. At(H, k, m) \in ThreadStates /\ At(H \ {l}, k - 1, m) \in ThreadStates
  BY AtIsState
<1>2. <<"release", l>> \in Operations
  BY DEF Operations
<1>3. Releases(x, <<"release", l>>, At(H, k, m), At(H \ {l}, k - 1, m))
  <2>1. /\ At(H, k, m).mode = m /\ At(H, k, m).half = {} /\ At(H, k, m).held = H
        /\ At(H, k, m).n = k
    BY DEF At
  <2> QED BY <2>1 DEF Releases
<1> QED BY <1>1, <1>2, <1>3, TypedOne DEF Does

LEMMA GuardedTyped ==
  ASSUME NEW x, NEW H \in SUBSET Locks, NEW k \in Nat, NEW m \in Modes,
         k = 0 => H = {}, m \notin {"user", "resumed"}, NEW l \in Locks \ H,
         NEW s, Typed(x, s, At(H \union {l}, k + 1, m), At(H \union {l}, k + 1, m))
  PROVE  Typed(x, Guarded(l, s), At(H, k, m), At(H, k, m))
<1>1. Typed(x, <<<<"acquire", l>>>>, At(H, k, m), At(H \union {l}, k + 1, m))
  BY AcquireTyped
<1>2. Typed(x, <<<<"release", l>>>>, At(H \union {l}, k + 1, m), At(H, k, m))
  <2>1. (H \union {l}) \ {l} = H /\ (k + 1) - 1 = k /\ H \union {l} \in SUBSET Locks
        /\ k + 1 \in Nat \ {0} /\ (k + 1 = 1 => H \union {l} = {l})
    OBVIOUS
  <2> QED BY <2>1, ReleaseTyped
<1> QED BY <1>1, <1>2, TypedConcat DEF Guarded

LEMMA KilledTyped ==
  ASSUME NEW x, NEW H \in SUBSET Locks, NEW k \in Nat, NEW m \in Modes,
         k = 0 => H = {}, m \notin {"user", "resumed"}, NEW p \in Procs, p \notin H
  PROVE  Typed(x, killed(p), At(H, k, m), At(H, k, m))
<1>1. p \in Locks \ H
  BY DEF Locks
<1>2. At(H \union {p}, k + 1, m) \in ThreadStates
  BY <1>1, AtIsState
<1> QED BY <1>1, <1>2, TypedEmpty, GuardedTyped DEF killed

\* What only looks, or stops and comes back, in state a.
LEMMA StillTyped ==
  ASSUME NEW x, NEW a \in ThreadStates, NEW o \in Operations, Switches(x, o, a, a) \/ Visits(x, o, a, a)
  PROVE  Typed(x, <<o>>, a, a)
BY TypedOne DEF Does

LEMMA SchedTyped ==
  ASSUME NEW p \in Procs, NEW m \in Modes, m \in OffModes \union {"open"},
         NEW st \in {"RUNNABLE", "SLEEPING"}
  PROVE  Typed(p, <<<<"sched", st>>>>, At({p}, 1, m), At({p}, 1, m))
<1>1. At({p}, 1, m) \in ThreadStates
  BY AtIsState DEF Locks, OffModes
<1>2. <<"sched", st>> \in Operations
  BY DEF Operations
<1>3. Switches(p, <<"sched", st>>, At({p}, 1, m), At({p}, 1, m))
  BY DEF Switches, Handed, At, OnModes
<1> QED BY <1>1, <1>2, <1>3, StillTyped

LEMMA YieldTyped ==
  ASSUME NEW p \in Procs, NEW m \in {"timer", "kernel"}
  PROVE  Typed(p, yield(p), At({}, 0, m), At({}, 0, m))
<1>1. m \in Modes /\ m \in OffModes /\ m \notin {"user", "resumed"}
  BY DEF Modes, OffModes
<1>2. Typed(p, <<<<"sched", "RUNNABLE">>>>, At({p}, 1, m), At({p}, 1, m))
  BY <1>1, SchedTyped
<1>3. {} \union {p} = {p} /\ 0 + 1 = 1 /\ p \in Locks \ {}
  BY DEF Locks
<1> QED BY <1>1, <1>2, <1>3, GuardedTyped DEF yield

LEMMA SleepTyped ==
  ASSUME NEW p \in Procs
  PROVE  Typed(p, sleep(p, Ticks), At({Ticks}, 1, "open"), At({Ticks}, 1, "open"))
<1> DEFINE m == "open"
<1>1. m \in Modes /\ m \notin {"user", "resumed"}
  BY DEF Modes, OnModes
<1>2. p \in Locks /\ Ticks \in Locks /\ p # Ticks
  BY SpinlockAssumption DEF Locks
<1> HIDE DEF m
<1>3. Typed(p, <<<<"acquire", p>>>>, At({Ticks}, 1, m), At({Ticks, p}, 2, m))
  <2>1. /\ {Ticks} \union {p} = {Ticks, p} /\ 1 + 1 = 2 /\ 1 \in Nat /\ 1 # 0
        /\ {Ticks} \in SUBSET Locks /\ p \in Locks \ {Ticks}
    BY <1>2
  <2> QED BY <1>1, <1>2, <2>1, AcquireTyped
<1>4. Typed(p, <<<<"release", Ticks>>>>, At({Ticks, p}, 2, m), At({p}, 1, m))
  <2>1. {Ticks, p} \ {Ticks} = {p} /\ 2 - 1 = 1
    BY <1>2
  <2> QED BY <1>1, <1>2, <2>1, ReleaseTyped
<1>5. Typed(p, <<<<"sched", "SLEEPING">>>>, At({p}, 1, m), At({p}, 1, m))
  BY <1>1, SchedTyped DEF m
<1>6. Typed(p, <<<<"release", p>>>>, At({p}, 1, m), At({}, 0, m))
  <2>1. {p} \ {p} = {} /\ 1 - 1 = 0 /\ {p} \in SUBSET Locks /\ p \in {p} /\ 1 \in Nat \ {0}
    BY <1>2
  <2> QED BY <1>1, <1>2, <2>1, ReleaseTyped
<1>7. Typed(p, <<<<"acquire", Ticks>>>>, At({}, 0, m), At({Ticks}, 1, m))
  <2>1. {} \union {Ticks} = {Ticks} /\ 0 + 1 = 1
    OBVIOUS
  <2> QED BY <1>1, <1>2, <2>1, AcquireTyped
<1>8. sleep(p, Ticks) = <<<<"acquire", p>>>> \o <<<<"release", Ticks>>>> \o <<<<"sched", "SLEEPING">>>>
                        \o <<<<"release", p>>>> \o <<<<"acquire", Ticks>>>>
  BY DEF sleep
<1>9. Typed(p, <<<<"acquire", p>>>> \o <<<<"release", Ticks>>>> \o <<<<"sched", "SLEEPING">>>>
                        \o <<<<"release", p>>>> \o <<<<"acquire", Ticks>>>>, At({Ticks}, 1, m), At({Ticks}, 1, m))
  BY <1>3, <1>4, <1>5, <1>6, <1>7, TypedConcat
<1> QED BY <1>8, <1>9 DEF m

\* What a loop over proc[] does, when each turn leaves the thread as it was.
LEMMA LoopTyped ==
  ASSUME NEW x, NEW a \in ThreadStates, NEW F, F = [i \in DOMAIN Order |-> F[i]],
         \A i \in DOMAIN Order : Typed(x, F[i], a, a)
  PROVE  Typed(x, FlattenSeq(F), a, a)
<1> DEFINE S == {s \in Seq(Operations) : Typed(x, s, a, a)}
<1>1. <<>> \in S /\ \A s, t \in S : s \o t \in S
  BY TypedEmpty, TypedConcat DEF Typed
<1>2. Len(Order) \in Nat /\ DOMAIN Order = 1..Len(Order)
  BY SpinlockAssumption
<1>3. \A i \in 1..Len(Order) : F[i] \in S
  BY <1>2 DEF Typed
<1>4. F \in [1..Len(Order) -> S] /\ Len(F) = Len(Order)
  BY <1>2, <1>3
<1> HIDE DEF S
<1>5. FlattenSeq(F) \in S
  BY <1>1, <1>2, <1>4, FlattenClosed
<1> QED BY <1>5 DEF S

LEMMA WakeupTyped ==
  ASSUME NEW x, NEW y, NEW m \in Modes, m \notin {"user", "resumed"}
  PROVE  Typed(x, wakeup_ticks(y), At({Ticks}, 1, m), At({Ticks}, 1, m))
<1> DEFINE a == At({Ticks}, 1, m)
           f(p) == IF p = y THEN <<>> ELSE Guarded(p, <<<<"wake", p>>>>)
<1>1. {Ticks} \in SUBSET Locks /\ a \in ThreadStates
  BY AtIsState DEF Locks
<1>2. ASSUME NEW p \in Procs PROVE Typed(x, f(p), a, a)
  <2>1. p \in Locks \ {Ticks}
    BY SpinlockAssumption DEF Locks
  <2>2. /\ At({Ticks} \union {p}, 1 + 1, m) \in ThreadStates
        /\ At({Ticks} \union {p}, 1 + 1, m).n > 0
        /\ At({Ticks} \union {p}, 1 + 1, m).mode = m /\ At({Ticks} \union {p}, 1 + 1, m).half = {}
    <3>1. {Ticks} \union {p} \in SUBSET Locks /\ 1 + 1 \in Nat /\ 1 + 1 # 0
      BY <1>1, <2>1
    <3> QED BY <3>1, AtIsState DEF At
  <2>3. <<"wake", p>> \in Operations
    BY DEF Operations
  <2>4. Visits(x, <<"wake", p>>, At({Ticks} \union {p}, 1 + 1, m), At({Ticks} \union {p}, 1 + 1, m))
    BY <2>2 DEF Visits
  <2>5. Typed(x, <<<<"wake", p>>>>, At({Ticks} \union {p}, 1 + 1, m), At({Ticks} \union {p}, 1 + 1, m))
    BY <2>2, <2>3, <2>4, StillTyped
  <2>6. Typed(x, Guarded(p, <<<<"wake", p>>>>), a, a)
    BY <1>1, <2>1, <2>5, GuardedTyped
  <2> QED BY <1>1, <2>6, TypedEmpty
<1> DEFINE F == [i \in DOMAIN Order |-> f(Order[i])]
<1>3. \A i \in DOMAIN Order : Order[i] \in Procs
  BY SpinlockAssumption
<1>4. F = [i \in DOMAIN Order |-> F[i]] /\ \A i \in DOMAIN Order : F[i] = f(Order[i])
  OBVIOUS
<1>5. \A i \in DOMAIN Order : Typed(x, F[i], a, a)
  <2> HIDE DEF f, F
  <2> QED BY <1>2, <1>3, <1>4
<1> HIDE DEF F, a
<1>6. Typed(x, FlattenSeq(F), a, a)
  BY <1>1, <1>4, <1>5, LoopTyped
<1> QED BY <1>6 DEF wakeup_ticks, a, F

LEMMA DevintrTyped ==
  ASSUME NEW x, NEW c, NEW m \in Modes, m \notin {"user", "resumed"}
  PROVE  Typed(x, devintr(c), At({}, 0, m), At({}, 0, m))
<1>1. Typed(x, wakeup_ticks(cur[c]), At({Ticks}, 1, m), At({Ticks}, 1, m))
  BY WakeupTyped
<1>2. {} \union {Ticks} = {Ticks} /\ 0 + 1 = 1 /\ Ticks \in Locks \ {} /\ {} \in SUBSET Locks
  BY DEF Locks
<1>3. Typed(x, Guarded(Ticks, wakeup_ticks(cur[c])), At({}, 0, m), At({}, 0, m))
  BY <1>1, <1>2, GuardedTyped
<1> QED BY <1>3, TypedEmpty, AtIsState DEF devintr

LEMMA ReturnTyped ==
  ASSUME NEW p, NEW trap \in {"timer", "syscall", "forkret", "kernel"},
         NEW m \in OffModes, NEW e \in ThreadStates,
         <<trap, m>> \in {<<"timer", "timer">>, <<"syscall", "post">>,
                         <<"forkret", "forked">>, <<"kernel", "kernel">>},
         IF m = "kernel" THEN e.mode \notin OffModes ELSE e.mode = "user",
         e = At({}, 0, e.mode)
  PROVE  Typed(p, <<<<"return", trap>>>>, At({}, 0, m), e)
<1>1. At({}, 0, m) \in ThreadStates /\ At({}, 0, m).n = 0 /\ At({}, 0, m).mode = m
  BY AtIsState DEF At, OffModes, Modes
<1>2. <<"return", trap>> \in Operations
  BY DEF Operations
<1>3. Returns(p, <<"return", trap>>, At({}, 0, m), e)
  BY <1>1 DEF Returns
<1> QED BY <1>1, <1>2, <1>3, TypedOne DEF Does

LEMMA FlagTyped ==
  ASSUME NEW x, NEW f \in {"on", "off"}, NEW m, NEW n,
         <<f, m, n>> \in
           {<<"on", "pre", "open">>, <<"on", "sched", "sched">>, <<"off", "open", "post">>,
            <<"off", "timer", "timer">>, <<"off", "forkret", "forked">>}
  PROVE  Typed(x, <<<<f>>>>, At({}, 0, m), At({}, 0, n))
<1>1. m \in Modes /\ n \in Modes /\ m \notin {"user", "resumed"} /\ n \notin {"user", "resumed"}
  BY DEF Modes, OnModes, OffModes
<1>2. At({}, 0, m) \in ThreadStates /\ At({}, 0, n) \in ThreadStates
  BY <1>1, AtIsState
<1>3. <<f>> \in Operations
  BY DEF Operations
<1>4. SetsFlag(x, <<f>>, At({}, 0, m), At({}, 0, n))
  BY DEF SetsFlag, At
<1> QED BY <1>2, <1>3, <1>4, TypedOne DEF Does

\* usertrapret() ends a trap of user mode.
LEMMA UsertrapretTyped ==
  ASSUME NEW p \in Procs, NEW trap, NEW m,
         <<trap, m>> \in {<<"timer", "timer">>, <<"syscall", "open">>, <<"forkret", "forkret">>}
  PROVE  Typed(p, usertrapret(trap), At({}, 0, m), End(p))
<1> DEFINE n == IF m = "open" THEN "post" ELSE IF m = "forkret" THEN "forked" ELSE "timer"
<1>1. Typed(p, <<<<"off">>>>, At({}, 0, m), At({}, 0, n))
  BY FlagTyped
<1>2. End(p) \in ThreadStates /\ End(p).mode = "user" /\ End(p) = At({}, 0, End(p).mode)
  BY EndIsState DEF End, At
<1>3. n \in OffModes /\ n # "kernel"
  BY DEF OffModes
<1>4. Typed(p, <<<<"return", trap>>>>, At({}, 0, n), End(p))
  BY <1>2, <1>3, ReturnTyped
<1>5. usertrapret(trap) = <<<<"off">>>> \o <<<<"return", trap>>>>
  BY DEF usertrapret
<1> QED BY <1>1, <1>4, <1>5, TypedConcat

LEMMA UserTimerTyped ==
  ASSUME NEW p \in Procs, NEW c
  PROVE  Typed(p, devintr(c) \o killed(p) \o yield(p) \o usertrapret("timer"),
               At({}, 0, "timer"), End(p))
<1> DEFINE a == At({}, 0, "timer")
<1>1. "timer" \in Modes /\ {} \in SUBSET Locks
  BY DEF Modes, OffModes
<1>2. Typed(p, devintr(c), a, a)
  BY <1>1, DevintrTyped
<1>3. Typed(p, killed(p), a, a)
  BY <1>1, KilledTyped
<1>4. Typed(p, yield(p), a, a)
  BY YieldTyped
<1>5. Typed(p, usertrapret("timer"), a, End(p))
  BY UsertrapretTyped
<1> QED BY <1>2, <1>3, <1>4, <1>5, TypedConcat

LEMMA SyscallTyped ==
  ASSUME NEW p \in Procs, NEW work \in {<<>>, killed(p) \o sleep(p, Ticks)}
  PROVE  Typed(p, killed(p) \o <<<<"on">>>> \o Guarded(Ticks, work) \o killed(p)
                    \o usertrapret("syscall"), At({}, 0, "pre"), End(p))
<1> DEFINE a == At({}, 0, "pre")
           b == At({}, 0, "open")
           t == At({Ticks}, 1, "open")
<1>1. /\ "pre" \in Modes /\ "open" \in Modes /\ {} \in SUBSET Locks
      /\ {Ticks} \in SUBSET Locks /\ Ticks \in Locks \ {} /\ p \notin {Ticks}
  BY SpinlockAssumption DEF Modes, OffModes, OnModes, Locks
<1>2. Typed(p, killed(p), a, a)
  BY <1>1, KilledTyped
<1>3. Typed(p, <<<<"on">>>>, a, b)
  BY FlagTyped
<1>4. Typed(p, work, t, t)
  <2>1. Typed(p, killed(p), t, t)
    BY <1>1, KilledTyped
  <2>2. t \in ThreadStates
    BY <1>1, AtIsState
  <2> QED BY <2>1, <2>2, SleepTyped, TypedEmpty, TypedConcat
<1>5. Typed(p, Guarded(Ticks, work), b, b)
  <2>1. {} \union {Ticks} = {Ticks} /\ 0 + 1 = 1
    OBVIOUS
  <2> QED BY <1>1, <1>4, <2>1, GuardedTyped
<1>6. Typed(p, killed(p), b, b)
  BY <1>1, KilledTyped
<1>7. Typed(p, usertrapret("syscall"), b, End(p))
  BY UsertrapretTyped
<1> QED BY <1>2, <1>3, <1>5, <1>6, <1>7, TypedConcat

\* kerneltrap() leaves the thread where it was.
LEMMA KernelTimerTyped ==
  ASSUME NEW x, NEW c, NEW m \in Modes \ OffModes, m # "resumed"
  PROVE  Typed(x, devintr(c) \o (IF x \in Procs THEN yield(x) ELSE <<>>) \o <<<<"return", "kernel">>>>,
               At({}, 0, "kernel"), At({}, 0, m))
<1> DEFINE a == At({}, 0, "kernel")
<1>1. "kernel" \in Modes /\ a \in ThreadStates
  BY AtIsState DEF Modes, OffModes
<1>2. Typed(x, devintr(c), a, a)
  BY <1>1, DevintrTyped
<1>3. Typed(x, IF x \in Procs THEN yield(x) ELSE <<>>, a, a)
  BY <1>1, YieldTyped, TypedEmpty
<1>4. Typed(x, <<<<"return", "kernel">>>>, a, At({}, 0, m))
  <2>1. At({}, 0, m) \in ThreadStates /\ At({}, 0, m).mode = m
    BY DEF At, ThreadStates
  <2> QED BY <1>1, <2>1, ReturnTyped DEF OffModes
<1> QED BY <1>2, <1>3, <1>4, TypedConcat

LEMMA RoundTyped ==
  ASSUME NEW c \in Harts
  PROVE  Typed(c, round, At({}, 0, "sched"), At({}, 0, "sched"))
<1> DEFINE a == At({}, 0, "sched")
<1>1. "sched" \in Modes /\ a \in ThreadStates /\ {} \in SUBSET Locks
  BY AtIsState DEF Modes
<1>2. ASSUME NEW p \in Procs PROVE Typed(c, visit(p), a, a)
  <2> DEFINE b == At({} \union {p}, 0 + 1, "sched")
  <2>1. p \in Locks \ {} /\ b \in ThreadStates /\ b = Handed(p, "sched") /\ b.half = {} /\ b.mode = "sched"
    BY <1>1, AtIsState DEF Handed, Locks, At
  <2>2. <<"pick", p>> \in Operations
    BY DEF Operations
  <2>3. Visits(c, <<"pick", p>>, b, b)
    BY <2>1 DEF Visits
  <2>4. Typed(c, <<<<"pick", p>>>>, b, b)
    BY <2>1, <2>2, <2>3, StillTyped
  <2> QED BY <1>1, <2>1, <2>4, GuardedTyped DEF visit
<1>3. Typed(c, <<<<"on">>>>, a, a)
  BY FlagTyped
<1> DEFINE F == [i \in DOMAIN Order |-> visit(Order[i])]
<1>4. F = [i \in DOMAIN Order |-> F[i]] /\ \A i \in DOMAIN Order : Typed(c, F[i], a, a)
  BY <1>2, SpinlockAssumption
<1> HIDE DEF F, a
<1>5. Typed(c, FlattenSeq(F), a, a)
  BY <1>1, <1>4, LoopTyped
<1> QED BY <1>3, <1>5, TypedConcat DEF round, a, F

\* What forkret() does.
LEMMA ForkretTyped ==
  ASSUME NEW p \in Procs
  PROVE  Typed(p, <<<<"release", p>>>> \o usertrapret("forkret"), Handed(p, "forkret"), End(p))
<1>1. /\ "forkret" \in Modes /\ {p} \in SUBSET Locks /\ p \in {p} /\ 1 \in Nat \ {0}
      /\ {p} \ {p} = {} /\ 1 - 1 = 0
  BY DEF Modes, Locks
<1>2. Typed(p, <<<<"release", p>>>>, Handed(p, "forkret"), At({}, 0, "forkret"))
  BY <1>1, ReleaseTyped DEF Handed
<1> QED BY <1>2, UsertrapretTyped, TypedConcat

-----------------------------------------------------------------------------
(* The invariant.                                                          *)

Types ==
  /\ locked \in [Locks -> BOOLEAN] /\ owner \in [Locks -> Harts \union {NoCpu}]
  /\ sie \in [Harts -> BOOLEAN] /\ noff \in [Harts -> Nat] /\ intena \in [Harts -> BOOLEAN]
  /\ cur \in [Harts -> Threads]
  /\ pstate \in [Procs -> {"RUNNABLE", "RUNNING", "SLEEPING"}]
  /\ todo \in [Threads -> Seq(Operations)]
  /\ panicked = FALSE

\* A process is on one CPU at most, and is RUNNING there; the scheduler that
\* switched to it will have p->lock again.
Assigned ==
  /\ \A c \in Harts : \/ cur[c] = c
                      \/ /\ cur[c] \in Procs /\ pstate[cur[c]] = "RUNNING"
                         /\ Typed(c, todo[c], Handed(cur[c], "sched"), End(c))
  /\ \A c, d \in Harts : cur[c] = cur[d] => c = d

\* A process on no CPU will go on under p->lock, which the scheduler acquires for it.
Suspended ==
  \A p \in Procs : (\A c \in Harts : cur[c] # p) =>
    \E m \in {"forkret", "resumed"} : Typed(p, todo[p], Handed(p, m), End(p))

\* The CPU's part of state a of its thread.
Machine(c, a) ==
  /\ noff[c] = a.n
  /\ a.n > 0 => ~sie[c] /\ Flag(a, intena[c])
  /\ a.n = 0 => Flag(a, sie[c])

\* After the swap of acquire(), before the store of lk->cpu.
Storing(c, x, a) == \E l \in Locks :
  /\ todo[x] # <<>> /\ Head(todo[x]) = <<"own", l, c>>
  /\ a.half = {l} /\ l \notin a.held /\ a.n > 0
  /\ Typed(x, Tail(todo[x]), At(a.held \union {l}, a.n, a.mode), End(x))

Local(c, a) ==
  /\ Machine(c, a)
  /\ Typed(cur[c], todo[cur[c]], a, End(cur[c])) \/ Storing(c, cur[c], a)

\* Who has which lock, when A[c] is the state of the thread on CPU c.
Exclusive(A) ==
  /\ \A c \in Harts : /\ \A l \in A[c].held : locked[l] /\ owner[l] = c
                      /\ \A l \in A[c].half : locked[l] /\ owner[l] = NoCpu
  /\ \A c, d \in Harts : c # d => A[c].half \intersect A[d].half = {}
  /\ \A l \in Locks : /\ locked[l] => \E c \in Harts : l \in A[c].held \union A[c].half
                      /\ ~locked[l] => owner[l] = NoCpu

Holds(A) ==
  /\ Types /\ Assigned /\ Suspended
  /\ \A c \in Harts : Local(c, A[c])
  /\ Exclusive(A)

SpinInv == \E A \in [Harts -> ThreadStates] : Holds(A)

\* What a step of CPU c on its own thread leaves as it was.
LEMMA StepKeeps ==
  ASSUME NEW A \in [Harts -> ThreadStates], Holds(A), NEW c \in Harts, NEW b \in ThreadStates,
         NEW t \in Seq(Operations), todo' = [todo EXCEPT ![cur[c]] = t],
         Types', cur' = cur,
         \A p \in Procs : pstate[p] = "RUNNING" => pstate'[p] = "RUNNING",
         \A d \in Harts \ {c} : sie'[d] = sie[d] /\ noff'[d] = noff[d] /\ intena'[d] = intena[d],
         Local(c, b)', Exclusive([A EXCEPT ![c] = b])'
  PROVE  SpinInv'
<1> DEFINE B == [A EXCEPT ![c] = b]
<1>1. B \in [Harts -> ThreadStates] /\ B[c] = b /\ \A d \in Harts \ {c} : B[d] = A[d]
  OBVIOUS
<1>2. Types /\ Assigned /\ Suspended /\ \A d \in Harts : Local(d, A[d])
  BY DEF Holds
<1>3. \A d \in Harts : cur[d] \in Threads /\ (cur[d] = d \/ cur[d] \in Procs)
  BY <1>2 DEF Types, Assigned
<1>4. \A y \in Threads \ {cur[c]} : todo'[y] = todo[y]
  BY <1>2 DEF Types
<1>5. Assigned'
  <2>1. ASSUME NEW d \in Harts, cur[d] # d
        PROVE  todo'[d] = todo[d]
    <3>1. d # cur[c]
      BY <1>3, <2>1, SpinlockAssumption
    <3> QED BY <1>4, <3>1 DEF Threads
  <2> QED BY <1>2, <2>1 DEF Assigned
<1>6. Suspended'
  <2> SUFFICES ASSUME NEW p \in Procs, \A d \in Harts : cur[d] # p
               PROVE  \E m \in {"forkret", "resumed"} : Typed(p, todo'[p], Handed(p, m), End(p))
    BY DEF Suspended
  <2>1. todo'[p] = todo[p]
    BY <1>4 DEF Threads
  <2> QED BY <1>2, <2>1 DEF Suspended
<1>7. ASSUME NEW d \in Harts \ {c}
      PROVE  Local(d, A[d])'
  <2>1. cur[d] # cur[c] /\ cur[d] \in Threads
    BY <1>2, <1>3 DEF Assigned
  <2>2. todo'[cur[d]] = todo[cur[d]]
    BY <1>4, <2>1
  <2>3. Local(d, A[d])
    BY <1>2
  <2>4. Machine(d, A[d])'
    BY <2>3 DEF Local, Machine
  <2>5. cur'[d] = cur[d] /\ todo'[cur'[d]] = todo[cur[d]]
    BY <2>2
  <2> QED BY <2>3, <2>4, <2>5 DEF Local, Storing
<1>8. Holds(B)'
  BY <1>1, <1>5, <1>6, <1>7 DEF Holds
<1> QED BY <1>1, <1>8 DEF SpinInv

\* The operation a CPU is about to do, but for the store of lk->cpu.
LEMMA NextOp ==
  ASSUME NEW A \in [Harts -> ThreadStates], Holds(A), NEW c \in Harts, NEW name,
         Is(c, name), name # "own"
  PROVE  /\ cur[c] \in Threads /\ todo[cur[c]] \in Seq(Operations) /\ Op(c) \in Operations
         /\ Op(c)[1] = name
         /\ \E b \in ThreadStates : /\ Does(cur[c], Op(c), A[c], b)
                              /\ Typed(cur[c], Tail(todo[cur[c]]), b, End(cur[c]))
<1>1. Local(c, A[c]) /\ Types
  BY DEF Holds
<1>2. cur[c] \in Threads /\ todo[cur[c]] \in Seq(Operations)
  BY <1>1 DEF Types
<1>3. todo[cur[c]] # <<>> /\ Op(c)[1] = name /\ Head(todo[cur[c]]) = Op(c)
  BY DEF Is, Op
<1>4. ~Storing(c, cur[c], A[c])
  <2> SUFFICES ASSUME NEW l, Head(todo[cur[c]]) = <<"own", l, c>> PROVE FALSE
    BY DEF Storing
  <2>1. <<"own", l, c>>[1] = "own"
    OBVIOUS
  <2> QED BY <1>3, <2>1
<1>5. Typed(cur[c], todo[cur[c]], A[c], End(cur[c]))
  BY <1>1, <1>4 DEF Local
<1> QED BY <1>2, <1>3, <1>5, TypedTail

\* One operation more in front.
LEMMA TypedCons ==
  ASSUME NEW x, NEW a \in ThreadStates, NEW b \in ThreadStates, NEW e, NEW o \in Operations, NEW s,
         Does(x, o, a, b), Typed(x, s, b, e)
  PROVE  Typed(x, <<o>> \o s, a, e)
BY TypedOne, TypedConcat

LEMMA SameLocks ==
  ASSUME NEW A \in [Harts -> ThreadStates], Exclusive(A), NEW c \in Harts, NEW b \in ThreadStates,
         b.held = A[c].held, b.half = A[c].half, locked' = locked, owner' = owner
  PROVE  Exclusive([A EXCEPT ![c] = b])'
<1> DEFINE B == [A EXCEPT ![c] = b]
<1>1. \A d \in Harts : B[d].held = A[d].held /\ B[d].half = A[d].half
  OBVIOUS
<1> HIDE DEF B
<1>2. Exclusive(B)'
  BY <1>1 DEF Exclusive
<1> QED BY <1>2 DEF B

\* The rule an operation goes by.
LEMMA RuleOf ==
  ASSUME NEW x, NEW o, NEW a, NEW b, Does(x, o, a, b)
  PROVE  /\ o[1] \in {"acquire", "push_off"} => Takes(x, o, a, b)
         /\ o[1] = "swap" => Swaps(x, o, a, b)
         /\ o[1] = "release" => Releases(x, o, a, b)
         /\ o[1] = "unlock" => Unlocks(x, o, a, b)
         /\ o[1] = "pop_off" => Pops(x, o, a, b)
         /\ o[1] \in {"on", "off"} => SetsFlag(x, o, a, b)
         /\ o[1] = "return" => Returns(x, o, a, b)
         /\ o[1] = "sched" => Switches(x, o, a, b)
         /\ o[1] = "intena" => Restores(x, o, a, b)
         /\ o[1] \in {"pick", "wake"} => Visits(x, o, a, b)
BY DEF Does, Takes, Swaps, Releases, Unlocks, Pops, SetsFlag, Returns, Switches, Restores, Visits

LEMMA OperandOf ==
  ASSUME NEW o \in Operations
  PROVE  /\ o[1] = "push_off" => o[3] \in BOOLEAN
         /\ o[1] = "intena" => o[2] \in BOOLEAN
         /\ o[1] = "sched" => o[2] \in {"RUNNABLE", "SLEEPING"}
BY DEF Operations

\* A step of CPU c on its own thread, which goes on with t in state b.
LEMMA StepTyped ==
  ASSUME NEW A \in [Harts -> ThreadStates], Holds(A), NEW c \in Harts, NEW b \in ThreadStates, NEW t,
         todo' = [todo EXCEPT ![cur[c]] = t], cur' = cur,
         Typed(cur[c], t, b, End(cur[c])), Machine(c, b)', Exclusive([A EXCEPT ![c] = b])',
         pstate' \in [Procs -> {"RUNNABLE", "RUNNING", "SLEEPING"}],
         \A p \in Procs : pstate[p] = "RUNNING" => pstate'[p] = "RUNNING",
         locked' \in [Locks -> BOOLEAN], owner' \in [Locks -> Harts \union {NoCpu}],
         sie' \in [Harts -> BOOLEAN], noff' \in [Harts -> Nat], intena' \in [Harts -> BOOLEAN],
         panicked' = FALSE,
         \A d \in Harts \ {c} : sie'[d] = sie[d] /\ noff'[d] = noff[d] /\ intena'[d] = intena[d]
  PROVE  SpinInv'
<1>1. Types /\ cur[c] \in Threads
  BY DEF Holds, Types
<1>2. t \in Seq(Operations)
  BY DEF Typed
<1>3. todo' \in [Threads -> Seq(Operations)] /\ todo'[cur[c]] = t
  BY <1>1, <1>2 DEF Types
<1>4. Types'
  BY <1>1, <1>3 DEF Types
<1>5. Local(c, b)'
  BY <1>3 DEF Local
<1> QED BY <1>2, <1>4, <1>5, StepKeeps

LEMMA ReadFlagKeeps ==
  ASSUME NEW A \in [Harts -> ThreadStates], Holds(A), NEW c \in Harts, ReadFlag(c)
  PROVE  SpinInv'
<1> DEFINE a == A[c]
           x == cur[c]
           o == <<"push_off", Op(c)[2], sie[c]>>
           t == <<o>> \o Tail(todo[x])
<1>1. PICK b \in ThreadStates : Does(x, Op(c), a, b) /\ Typed(x, Tail(todo[x]), b, End(x))
  BY NextOp DEF ReadFlag
<1>2. Takes(x, Op(c), a, b)
  BY <1>1, RuleOf DEF ReadFlag, Is
<1>3. Machine(c, a) /\ Types /\ Exclusive(A) /\ a \in ThreadStates
  BY DEF Holds, Local
<1>4. Op(c)[2] \in Locks \ a.held /\ sie[c] \in BOOLEAN
  BY <1>2, <1>3 DEF Takes, Types
<1>5. o \in Operations /\ o[1] = "push_off" /\ o[2] = Op(c)[2] /\ o[3] = sie[c]
  BY <1>4 DEF Operations
<1>6. Takes(x, o, a, b)
  BY <1>2, <1>3, <1>5 DEF Takes, Machine, Flag
<1>7. Typed(x, t, a, End(x))
  BY <1>1, <1>3, <1>5, <1>6, TypedCons DEF Does
<1>8. todo' = [todo EXCEPT ![x] = t] /\ UNCHANGED <<spinVars, cpuVars, cur, pstate, panicked>>
  BY DEF ReadFlag, Continue
<1>9. Exclusive([A EXCEPT ![c] = a])'
  BY <1>3, <1>8, SameLocks DEF spinVars
<1>10. Machine(c, a)'
  BY <1>3, <1>8 DEF Machine, cpuVars
<1> QED BY <1>3, <1>7, <1>8, <1>9, <1>10, StepTyped DEF Types, spinVars, cpuVars

\* A CPU holds no lock that its thread does not have.
LEMMA HoldsNone ==
  ASSUME NEW A \in [Harts -> ThreadStates], Exclusive(A), NEW c \in Harts, NEW l \in Locks \ A[c].held
  PROVE  ~holding(c, l)
BY SpinlockAssumption DEF Exclusive, holding

LEMMA PushOffKeeps ==
  ASSUME NEW A \in [Harts -> ThreadStates], Holds(A), NEW c \in Harts, PushOff(c)
  PROVE  SpinInv'
<1> DEFINE a == A[c]
           x == cur[c]
           l == Op(c)[2]
           o == <<"swap", l>>
           t == <<o>> \o Tail(todo[x])
           n == At(a.held, a.n + 1, a.mode)
<1>1. PICK b \in ThreadStates : Does(x, Op(c), a, b) /\ Typed(x, Tail(todo[x]), b, End(x))
  BY NextOp DEF PushOff
<1>2. Takes(x, Op(c), a, b) /\ Op(c)[1] = "push_off" /\ Op(c)[3] \in BOOLEAN
  BY <1>1, NextOp, RuleOf, OperandOf DEF PushOff, Is
<1>3. Machine(c, a) /\ Types /\ Exclusive(A) /\ a \in ThreadStates
  BY DEF Holds, Local
<1>4. l \in Locks \ a.held /\ a.half = {} /\ a.mode \in Modes \ {"user", "resumed"} /\ a.n \in Nat
      /\ a.held \in SUBSET Locks
  BY <1>2, <1>3 DEF Takes, ThreadStates
<1>5. n \in ThreadStates /\ n.held = a.held /\ n.half = {} /\ n.n = a.n + 1 /\ n.mode = a.mode
  <2>1. a.n + 1 \in Nat /\ a.n + 1 # 0
    BY <1>4
  <2>2. n \in ThreadStates
    BY <1>4, <2>1, AtIsState
  <2> QED BY <2>2, AtFields
<1>6. o \in Operations /\ o[1] = "swap" /\ o[2] = l
  BY <1>4 DEF Operations
<1>7. Swaps(x, o, n, b)
  <2> HIDE DEF n, o, a
  <2>1. b = At(n.held \union {o[2]}, n.n, n.mode)
    BY <1>2, <1>5, <1>6 DEF Takes
  <2>2. n.n > 0
    BY <1>4, <1>5
  <2>3. n.mode # "resumed"
    BY <1>4, <1>5
  <2> QED BY <1>4, <1>5, <1>6, <2>1, <2>2, <2>3 DEF Swaps
<1>8. Typed(x, t, n, End(x))
  BY <1>1, <1>5, <1>6, <1>7, TypedCons DEF Does
<1>9. todo' = [todo EXCEPT ![x] = t] /\ UNCHANGED <<spinVars, cur, pstate>>
  BY DEF PushOff, Continue
<1>10. /\ sie' = [sie EXCEPT ![c] = FALSE]
       /\ intena' = [intena EXCEPT ![c] = Intena(c, Op(c)[3])]
       /\ noff' = [noff EXCEPT ![c] = @ + 1]
  BY DEF PushOff
<1>11. panicked' = FALSE
  BY <1>3, <1>4, HoldsNone DEF PushOff
<1>12. Exclusive([A EXCEPT ![c] = n])'
  BY <1>3, <1>4, <1>5, <1>9, SameLocks DEF spinVars
<1>13. Flag(a, Intena(c, Op(c)[3]))
  <2>1. CASE noff[c] = 0
    <3>1. a.n = 0
      BY <1>3, <2>1 DEF Machine
    <3>2. Flag(a, Op(c)[3])
      BY <1>2, <3>1 DEF Takes
    <3> QED BY <2>1, <3>2 DEF Intena
  <2>2. CASE noff[c] # 0
    <3>1. Flag(a, intena[c])
      BY <1>3, <1>4, <2>2 DEF Machine
    <3> QED BY <2>2, <3>1 DEF Intena
  <2> QED BY <2>1, <2>2
<1>14. Machine(c, n)'
  BY <1>3, <1>4, <1>5, <1>10, <1>13 DEF Machine, Flag, Types
<1>15. /\ sie' \in [Harts -> BOOLEAN] /\ noff' \in [Harts -> Nat] /\ intena' \in [Harts -> BOOLEAN]
       /\ \A d \in Harts \ {c} : sie'[d] = sie[d] /\ noff'[d] = noff[d] /\ intena'[d] = intena[d]
  BY <1>2, <1>3, <1>10 DEF Types, Intena
<1> QED BY <1>3, <1>5, <1>8, <1>9, <1>11, <1>12, <1>14, <1>15, StepTyped DEF Types, spinVars

\* A lock that the step of CPU c takes, passes on or leaves.
LEMMA LockMoves ==
  ASSUME NEW A \in [Harts -> ThreadStates], Exclusive(A), NEW c \in Harts, NEW b \in ThreadStates,
         NEW l \in Locks, l \in A[c].held \union A[c].half \/ ~locked[l],
         \A k \in Locks \ {l} : /\ locked'[k] = locked[k] /\ owner'[k] = owner[k]
                                /\ k \in b.held <=> k \in A[c].held
                                /\ k \in b.half <=> k \in A[c].half,
         l \in b.held => locked'[l] /\ owner'[l] = c,
         l \in b.half => locked'[l] /\ owner'[l] = NoCpu,
         l \notin b.held \union b.half => ~locked'[l] /\ owner'[l] = NoCpu
  PROVE  Exclusive([A EXCEPT ![c] = b])'
<1> DEFINE B == [A EXCEPT ![c] = b]
<1>1. B[c] = b /\ \A d \in Harts \ {c} : B[d] = A[d]
  OBVIOUS
<1>2. \A d \in Harts : /\ A[d].held \subseteq Locks /\ A[d].half \subseteq Locks
  BY DEF ThreadStates
<1>3. b.held \subseteq Locks /\ b.half \subseteq Locks
  BY DEF ThreadStates
<1>4. ASSUME NEW d \in Harts \ {c}
      PROVE  l \notin A[d].held /\ l \notin A[d].half
  BY SpinlockAssumption DEF Exclusive
<1> HIDE DEF B
<1>5. ASSUME NEW d \in Harts
      PROVE  /\ \A k \in B[d].held : locked'[k] /\ owner'[k] = d
             /\ \A k \in B[d].half : locked'[k] /\ owner'[k] = NoCpu
  <2>1. CASE d = c
    BY <1>1, <1>3, <2>1 DEF Exclusive
  <2>2. CASE d # c
    BY <1>1, <1>2, <1>4, <2>2 DEF Exclusive
  <2> QED BY <2>1, <2>2
<1>6. ASSUME NEW d \in Harts, NEW f \in Harts, d # f
      PROVE  B[d].half \intersect B[f].half = {}
  <2>1. CASE d # c /\ f # c
    BY <1>1, <1>6, <2>1 DEF Exclusive
  <2>2. CASE d = c \/ f = c
    <3>1. \A g \in Harts \ {c} : b.half \intersect A[g].half = {}
      BY <1>2, <1>3, <1>4 DEF Exclusive
    <3> QED BY <1>1, <1>6, <2>2, <3>1
  <2> QED BY <2>1, <2>2
<1>7. ASSUME NEW k \in Locks
      PROVE  /\ locked'[k] => \E d \in Harts : k \in B[d].held \union B[d].half
             /\ ~locked'[k] => owner'[k] = NoCpu
  <2>1. CASE k = l
    BY <1>1, <2>1
  <2>2. CASE k # l
    <3>1. \A d \in Harts : k \in A[d].held \union A[d].half => k \in B[d].held \union B[d].half
      BY <1>1, <2>2
    <3> QED BY <2>2, <3>1 DEF Exclusive
  <2> QED BY <2>1, <2>2
<1>8. Exclusive(B)'
  BY <1>5, <1>6, <1>7 DEF Exclusive
<1> QED BY <1>8 DEF B

Half(h, l, k, m) == [held |-> h, half |-> {l}, n |-> k, mode |-> m]

LEMMA HalfIsState ==
  ASSUME NEW H \in SUBSET Locks, NEW l \in Locks, NEW k \in Nat \ {0}, NEW m \in Modes,
         m \notin {"user", "resumed"}
  PROVE  /\ Half(H, l, k, m) \in ThreadStates
         /\ Half(H, l, k, m).held = H /\ Half(H, l, k, m).half = {l}
         /\ Half(H, l, k, m).n = k /\ Half(H, l, k, m).mode = m
BY DEF Half, ThreadStates

LEMMA SwapKeeps ==
  ASSUME NEW A \in [Harts -> ThreadStates], Holds(A), NEW c \in Harts, Swap(c)
  PROVE  SpinInv'
<1>1. PICK x, l, s : x = cur[c] /\ l = Op(c)[2] /\ s = Tail(todo[x])
  OBVIOUS
<1> DEFINE a == A[c]
           o == <<"own", l, c>>
           t == <<o>> \o s
           n == Half(a.held, l, a.n, a.mode)
<1>2. PICK b \in ThreadStates : Does(x, Op(c), a, b) /\ Typed(x, s, b, End(x))
  BY <1>1, NextOp DEF Swap
<1>3. Swaps(x, Op(c), a, b)
  BY <1>2, RuleOf DEF Swap, Is
<1>4. Machine(c, a) /\ Types /\ Exclusive(A) /\ a \in ThreadStates
  BY DEF Holds, Local
<1>5. /\ l \in Locks /\ l \notin a.held /\ a.half = {} /\ a.mode \in Modes /\ a.mode \notin {"user", "resumed"}
      /\ a.n \in Nat \ {0} /\ a.held \in SUBSET Locks /\ b = At(a.held \union {l}, a.n, a.mode)
  BY <1>1, <1>3, <1>4 DEF Swaps, ThreadStates
<1> HIDE DEF n, a
<1>6. /\ n \in ThreadStates /\ n.held = a.held /\ n.half = {l} /\ n.n = a.n /\ n.mode = a.mode
  <2>1. a.held \in SUBSET Locks /\ l \in Locks /\ a.n \in Nat \ {0}
        /\ a.mode \in Modes /\ a.mode \notin {"user", "resumed"}
    BY <1>5
  <2> DEFINE h == a.held
             k == a.n
             m == a.mode
  <2> HIDE DEF h, k, m
  <2>2. h \in SUBSET Locks /\ k \in Nat \ {0} /\ m \in Modes /\ m \notin {"user", "resumed"}
    BY <2>1 DEF h, k, m
  <2>3. /\ Half(h, l, k, m) \in ThreadStates
        /\ Half(h, l, k, m).held = h /\ Half(h, l, k, m).half = {l}
        /\ Half(h, l, k, m).n = k /\ Half(h, l, k, m).mode = m
    BY <2>1, <2>2, HalfIsState
  <2> QED BY <2>3 DEF n, h, k, m
<1>7. o \in Operations /\ s \in Seq(Operations)
  BY <1>2, <1>5 DEF Operations, Typed
<1>8. t \in Seq(Operations) /\ t # <<>> /\ Head(t) = o /\ Tail(t) = s
  BY <1>7
<1> HIDE DEF o, t
<1>9. todo' = [todo EXCEPT ![x] = t] /\ UNCHANGED <<owner, cpuVars, cur, pstate, panicked>>
  BY <1>1 DEF Swap, Continue, o, t
<1>10. ~locked[l] /\ locked' = [locked EXCEPT ![l] = TRUE]
  BY <1>1 DEF Swap, Free
<1>11. x \in Threads /\ todo' \in [Threads -> Seq(Operations)] /\ todo'[x] = t
  BY <1>1, <1>4, <1>8, <1>9 DEF Types
<1>12. Types'
  BY <1>4, <1>5, <1>9, <1>10, <1>11 DEF Types, cpuVars
<1>13. Machine(c, n)'
  BY <1>4, <1>6, <1>9 DEF Machine, Flag, cpuVars
<1>14. Storing(c, x, n)'
  <2>1. Typed(x, Tail(t), At(n.held \union {l}, n.n, n.mode), End(x))
    BY <1>2, <1>5, <1>6, <1>8
  <2>2. n.n > 0 /\ l \notin n.held /\ n.half = {l}
    BY <1>5, <1>6
  <2> QED BY <1>5, <1>8, <1>11, <2>1, <2>2 DEF Storing, o
<1>15. Local(c, n)'
  BY <1>1, <1>9, <1>13, <1>14 DEF Local
<1>16. Exclusive([A EXCEPT ![c] = n])'
  <2>1. owner[l] = NoCpu
    BY <1>4, <1>5, <1>10 DEF Exclusive
  <2>2. \A k \in Locks \ {l} : /\ locked'[k] = locked[k] /\ owner'[k] = owner[k]
                               /\ k \in n.held <=> k \in A[c].held
                               /\ k \in n.half <=> k \in A[c].half
    BY <1>4, <1>5, <1>6, <1>9, <1>10 DEF Types, a
  <2>3. locked'[l] /\ owner'[l] = NoCpu
    BY <1>4, <1>5, <1>9, <1>10, <2>1 DEF Types
  <2> QED BY <1>4, <1>5, <1>6, <1>10, <2>2, <2>3, LockMoves
<1> QED BY <1>1, <1>6, <1>8, <1>9, <1>12, <1>15, <1>16, StepKeeps DEF cpuVars

LEMMA SetOwnerKeeps ==
  ASSUME NEW A \in [Harts -> ThreadStates], Holds(A), NEW c \in Harts, SetOwner(c)
  PROVE  SpinInv'
<1>1. PICK x, t : x = cur[c] /\ t = Tail(todo[x])
  OBVIOUS
<1> DEFINE a == A[c]
<1>2. todo[x] # <<>> /\ Op(c) = Head(todo[x]) /\ Head(todo[x])[1] = "own"
  BY <1>1 DEF SetOwner, Is, Op
<1>3. ~Typed(x, todo[x], a, End(x))
  <2> SUFFICES ASSUME NEW b, Does(x, Head(todo[x]), a, b) PROVE FALSE
    BY <1>2, TypedTail
  <2> QED BY <1>2 DEF Does, Takes, Swaps, Releases, Unlocks, Pops, SetsFlag, Returns, Switches,
                       Restores, Visits
<1>4. Local(c, a) /\ Machine(c, a) /\ Types /\ Exclusive(A) /\ a \in ThreadStates
  BY DEF Holds, Local
<1>5. PICK l \in Locks : /\ Head(todo[x]) = <<"own", l, c>>
                         /\ a.half = {l} /\ l \notin a.held /\ a.n > 0
                         /\ Typed(x, t, At(a.held \union {l}, a.n, a.mode), End(x))
  BY <1>1, <1>3, <1>4 DEF Local, Storing
<1> DEFINE n == At(a.held \union {l}, a.n, a.mode)
<1>6. /\ a.n \in Nat \ {0} /\ a.held \in SUBSET Locks /\ a.mode \in Modes
      /\ a.mode \in {"user", "resumed"} => a.n = IF a.mode = "user" THEN 0 ELSE 1
  BY <1>4, <1>5 DEF ThreadStates
<1>7. /\ n.held = a.held \union {l} /\ n.half = {} /\ n.n = a.n /\ n.mode = a.mode
  BY AtFields
<1>8. n \in ThreadStates
  <2>1. n \in [held : SUBSET Locks, half : SUBSET Locks, n : Nat, mode : Modes]
    BY <1>6 DEF At
  <2> HIDE DEF n
  <2> QED BY <1>6, <1>7, <2>1 DEF ThreadStates
<1>9. Typed(x, t, n, End(x))
  BY <1>5
<1> HIDE DEF n, a
<1>10. /\ todo' = [todo EXCEPT ![x] = t] /\ UNCHANGED <<locked, cpuVars, cur, pstate, panicked>>
       /\ owner' = [owner EXCEPT ![l] = c]
  <2>1. <<"own", l, c>>[2] = l /\ <<"own", l, c>>[3] = c
    OBVIOUS
  <2>2. <<>> \o t = t
    BY <1>9 DEF Typed
  <2> QED BY <1>1, <1>2, <1>5, <2>1, <2>2 DEF SetOwner, Continue
<1>11. Machine(c, n)'
  BY <1>4, <1>7, <1>10 DEF Machine, Flag, cpuVars
<1>12. Exclusive([A EXCEPT ![c] = n])'
  <2>1. \A k \in Locks \ {l} : /\ locked'[k] = locked[k] /\ owner'[k] = owner[k]
                               /\ k \in n.held <=> k \in A[c].held
                               /\ k \in n.half <=> k \in A[c].half
    BY <1>4, <1>5, <1>7, <1>10 DEF Types, a
  <2>2. locked'[l] /\ owner'[l] = c
    <3>1. locked[l]
      BY <1>4, <1>5 DEF Exclusive, a
    <3> QED BY <1>4, <1>10, <3>1 DEF Types
  <2>3. l \in A[c].half /\ l \in n.held /\ l \notin n.half
    BY <1>5, <1>7 DEF a
  <2> QED BY <1>4, <1>5, <1>8, <2>1, <2>2, <2>3, LockMoves
<1> QED BY <1>1, <1>4, <1>5, <1>8, <1>9, <1>10, <1>11, <1>12, StepTyped DEF Types, cpuVars

LEMMA ClearOwnerKeeps ==
  ASSUME NEW A \in [Harts -> ThreadStates], Holds(A), NEW c \in Harts, ClearOwner(c)
  PROVE  SpinInv'
<1>1. PICK x, l, s : x = cur[c] /\ l = Op(c)[2] /\ s = Tail(todo[x])
  OBVIOUS
<1> DEFINE a == A[c]
           u == <<"unlock", l>>
           o == <<"pop_off">>
           t == <<u>> \o (<<o>> \o s)
           n == Half(a.held \ {l}, l, a.n, a.mode)
           m == At(a.held \ {l}, a.n, a.mode)
<1>2. PICK b \in ThreadStates : Does(x, Op(c), a, b) /\ Typed(x, s, b, End(x))
  BY <1>1, NextOp DEF ClearOwner
<1>3. Releases(x, Op(c), a, b)
  BY <1>2, RuleOf DEF ClearOwner, Is
<1>4. Machine(c, a) /\ Types /\ Exclusive(A) /\ a \in ThreadStates
  BY DEF Holds, Local
<1>5. /\ l \in Locks /\ l \in a.held /\ a.half = {} /\ a.mode \in Modes /\ a.mode \notin {"user", "resumed"}
      /\ a.n \in Nat \ {0} /\ a.held \ {l} \in SUBSET Locks
      /\ b = At(a.held \ {l}, a.n - 1, a.mode)
  BY <1>1, <1>3, <1>4 DEF Releases, ThreadStates
<1>6. /\ n \in ThreadStates /\ n.held = a.held \ {l} /\ n.half = {l} /\ n.n = a.n /\ n.mode = a.mode
  <2>1. PICK H, k, md : H = a.held \ {l} /\ k = a.n /\ md = a.mode
    OBVIOUS
  <2> HIDE DEF a
  <2>2. /\ Half(H, l, k, md) \in ThreadStates /\ Half(H, l, k, md).held = H
        /\ Half(H, l, k, md).half = {l} /\ Half(H, l, k, md).n = k /\ Half(H, l, k, md).mode = md
    <3>1. H \in SUBSET Locks /\ k \in Nat \ {0} /\ md \in Modes /\ md \notin {"user", "resumed"}
          /\ l \in Locks
      BY <1>5, <2>1
    <3> QED BY <3>1 DEF Half, ThreadStates
  <2> QED BY <2>1, <2>2
<1>7. /\ m \in ThreadStates /\ m.held = a.held \ {l} /\ m.half = {} /\ m.n = a.n /\ m.mode = a.mode
  BY <1>5, AtIsState, AtFields
<1>8. u \in Operations /\ o \in Operations /\ u[1] = "unlock" /\ u[2] = l /\ o[1] = "pop_off"
  BY <1>5 DEF Operations
<1>9. m = [n EXCEPT !.half = @ \ {l}]
  <2>1. PICK H, k, md : H = a.held \ {l} /\ k = a.n /\ md = a.mode
    OBVIOUS
  <2>2. At(H, k, md) = [Half(H, l, k, md) EXCEPT !.half = @ \ {l}]
    BY DEF At, Half
  <2> QED BY <2>1, <2>2
<1> HIDE DEF n, m, a, u, o
<1>10. Unlocks(x, u, n, m)
  BY <1>5, <1>6, <1>8, <1>9 DEF Unlocks
<1>11. Pops(x, o, m, b)
  BY <1>5, <1>7, <1>8 DEF Pops
<1>12. Typed(x, t, n, End(x))
  <2>1. Typed(x, <<o>> \o s, m, End(x))
    BY <1>2, <1>7, <1>8, <1>11, TypedCons DEF Does
  <2> QED BY <1>6, <1>7, <1>8, <1>10, <2>1, TypedCons DEF Does
<1>13. s \in Seq(Operations)
  BY <1>2 DEF Typed
<1>14. <<<<"unlock", Op(c)[2]>>, <<"pop_off">>>> \o s = t
  BY <1>1, <1>13 DEF u, o
<1>15. todo' = [todo EXCEPT ![x] = t]
  BY <1>1, <1>14 DEF ClearOwner, Continue
<1> HIDE DEF t
<1>16. /\ owner' = [owner EXCEPT ![l] = NoCpu] /\ UNCHANGED <<locked, cpuVars, cur, pstate>>
       /\ panicked' = ~holding(c, l)
  BY <1>1 DEF ClearOwner
<1>17. panicked' = FALSE
  BY <1>4, <1>5, <1>16 DEF Exclusive, holding, a
<1>18. Machine(c, n)'
  BY <1>4, <1>6, <1>16 DEF Machine, Flag, cpuVars
<1>19. Exclusive([A EXCEPT ![c] = n])'
  <2>1. \A k \in Locks \ {l} : /\ locked'[k] = locked[k] /\ owner'[k] = owner[k]
                               /\ k \in n.held <=> k \in A[c].held
                               /\ k \in n.half <=> k \in A[c].half
    BY <1>4, <1>5, <1>6, <1>16 DEF Types, a
  <2>2. locked'[l] /\ owner'[l] = NoCpu
    BY <1>4, <1>5, <1>16 DEF Types, Exclusive, a
  <2>3. l \in A[c].held /\ l \notin n.held /\ l \in n.half
    BY <1>5, <1>6 DEF a
  <2> QED BY <1>4, <1>5, <1>6, <2>1, <2>2, <2>3, LockMoves
<1> QED BY <1>1, <1>4, <1>5, <1>6, <1>12, <1>15, <1>16, <1>17, <1>18, <1>19, StepTyped DEF Types, cpuVars

LEMMA UnlockKeeps ==
  ASSUME NEW A \in [Harts -> ThreadStates], Holds(A), NEW c \in Harts, Unlock(c)
  PROVE  SpinInv'
<1>1. PICK x, l, s : x = cur[c] /\ l = Op(c)[2] /\ s = Tail(todo[x])
  OBVIOUS
<1> DEFINE a == A[c]
<1>2. PICK b \in ThreadStates : Does(x, Op(c), a, b) /\ Typed(x, s, b, End(x))
  BY <1>1, NextOp DEF Unlock
<1>3. Unlocks(x, Op(c), a, b)
  BY <1>2, RuleOf DEF Unlock, Is
<1>4. Machine(c, a) /\ Types /\ Exclusive(A) /\ a \in ThreadStates
  BY DEF Holds, Local
<1>5. l \in a.half /\ l \notin a.held /\ l \in Locks /\ b = [a EXCEPT !.half = @ \ {l}]
  BY <1>1, <1>3, <1>4 DEF Unlocks, ThreadStates
<1>6. b.held = a.held /\ b.half = a.half \ {l} /\ b.n = a.n /\ b.mode = a.mode
  BY <1>4, <1>5 DEF ThreadStates
<1> HIDE DEF a
<1>7. /\ todo' = [todo EXCEPT ![x] = s] /\ UNCHANGED <<owner, cpuVars, cur, pstate, panicked>>
      /\ locked' = [locked EXCEPT ![l] = FALSE]
  <2>1. <<>> \o s = s
    BY <1>2 DEF Typed
  <2> QED BY <1>1, <2>1 DEF Unlock, Continue
<1>8. Machine(c, b)'
  BY <1>4, <1>6, <1>7 DEF Machine, Flag, cpuVars
<1>9. Exclusive([A EXCEPT ![c] = b])'
  <2>1. \A k \in Locks \ {l} : /\ locked'[k] = locked[k] /\ owner'[k] = owner[k]
                               /\ k \in b.held <=> k \in A[c].held
                               /\ k \in b.half <=> k \in A[c].half
    BY <1>4, <1>5, <1>6, <1>7 DEF Types, a
  <2>2. ~locked'[l] /\ owner'[l] = NoCpu
    BY <1>4, <1>5, <1>7 DEF Types, Exclusive, a
  <2>3. l \in A[c].half /\ l \notin b.held /\ l \notin b.half
    BY <1>5, <1>6 DEF a
  <2> QED BY <1>4, <1>5, <2>1, <2>2, <2>3, LockMoves
<1> QED BY <1>1, <1>2, <1>4, <1>5, <1>7, <1>8, <1>9, StepTyped DEF Types, cpuVars

LEMMA PopOffKeeps ==
  ASSUME NEW A \in [Harts -> ThreadStates], Holds(A), NEW c \in Harts, PopOff(c)
  PROVE  SpinInv'
<1>1. PICK x, s : x = cur[c] /\ s = Tail(todo[x])
  OBVIOUS
<1> DEFINE a == A[c]
<1>2. PICK b \in ThreadStates : Does(x, Op(c), a, b) /\ Typed(x, s, b, End(x))
  BY <1>1, NextOp DEF PopOff
<1>3. Pops(x, Op(c), a, b)
  BY <1>2, RuleOf DEF PopOff, Is
<1>4. Machine(c, a) /\ Types /\ Exclusive(A) /\ a \in ThreadStates
  BY DEF Holds, Local
<1>5. a.n \in Nat \ {0} /\ a.half = {} /\ b = At(a.held, a.n - 1, a.mode)
  BY <1>3, <1>4 DEF Pops, ThreadStates
<1>6. b.held = a.held /\ b.half = a.half /\ b.n = a.n - 1 /\ b.mode = a.mode
  BY <1>5, AtFields
<1> HIDE DEF a
<1>7. /\ todo' = [todo EXCEPT ![x] = s] /\ UNCHANGED <<spinVars, intena, cur, pstate>>
      /\ noff' = [noff EXCEPT ![c] = @ - 1]
      /\ sie' = [sie EXCEPT ![c] = sie[c] \/ (noff[c] = 1 /\ intena[c])]
      /\ panicked' = (sie[c] \/ noff[c] < 1)
  <2>1. <<>> \o s = s
    BY <1>2 DEF Typed
  <2> QED BY <1>1, <2>1 DEF PopOff, Continue
<1>8. noff[c] = a.n /\ sie[c] = FALSE /\ Flag(a, intena[c]) /\ intena[c] \in BOOLEAN
  BY <1>4, <1>5 DEF Machine, Types
<1>9. noff'[c] = a.n - 1 /\ sie'[c] = (a.n = 1 /\ intena[c]) /\ intena'[c] = intena[c]
  BY <1>4, <1>7, <1>8 DEF Types
<1>10. Machine(c, b)'
  <2>1. CASE a.n = 1
    <3>1. sie'[c] = intena[c]
      BY <1>8, <1>9, <2>1
    <3> QED BY <1>5, <1>6, <1>8, <1>9, <2>1, <3>1 DEF Machine, Flag
  <2>2. CASE a.n # 1
    <3>1. sie'[c] = FALSE
      BY <1>8, <1>9, <2>2
    <3> QED BY <1>5, <1>6, <1>8, <1>9, <2>2, <3>1 DEF Machine, Flag
  <2> QED BY <2>1, <2>2
<1>11. Exclusive([A EXCEPT ![c] = b])'
  BY <1>4, <1>6, <1>7, SameLocks DEF spinVars, a
<1>12. panicked' = FALSE
  <2>1. ~(noff[c] < 1)
    BY <1>5, <1>8
  <2> QED BY <1>7, <1>8, <2>1
<1>13. /\ sie' \in [Harts -> BOOLEAN] /\ noff' \in [Harts -> Nat]
       /\ \A d \in Harts \ {c} : sie'[d] = sie[d] /\ noff'[d] = noff[d] /\ intena'[d] = intena[d]
  BY <1>4, <1>5, <1>7, <1>8 DEF Types
<1> QED BY <1>1, <1>2, <1>4, <1>7, <1>10, <1>11, <1>12, <1>13, StepTyped DEF Types, spinVars

LEMMA SetFlagKeeps ==
  ASSUME NEW A \in [Harts -> ThreadStates], Holds(A), NEW c \in Harts, SetFlag(c)
  PROVE  SpinInv'
<1>1. PICK x, s : x = cur[c] /\ s = Tail(todo[x])
  OBVIOUS
<1> DEFINE a == A[c]
<1>2. PICK b \in ThreadStates : Does(x, Op(c), a, b) /\ Typed(x, s, b, End(x))
  BY <1>1, NextOp DEF SetFlag
<1>3. SetsFlag(x, Op(c), a, b)
  BY <1>2, RuleOf DEF SetFlag, Is
<1>4. Machine(c, a) /\ Types /\ Exclusive(A) /\ a \in ThreadStates
  BY DEF Holds, Local
<1>5. /\ a.n = 0 /\ b = At({}, 0, b.mode)
      /\ <<Op(c)[1], a.mode, b.mode>> \in
           {<<"on", "pre", "open">>, <<"on", "sched", "sched">>, <<"off", "open", "post">>,
            <<"off", "timer", "timer">>, <<"off", "forkret", "forked">>}
  BY <1>3 DEF SetsFlag
<1>6. b.held = {} /\ b.half = {} /\ b.n = 0 /\ a.held = {} /\ a.half = {}
  BY <1>4, <1>5, AtFields DEF ThreadStates
<1> HIDE DEF a
<1>7. /\ todo' = [todo EXCEPT ![x] = s] /\ UNCHANGED <<spinVars, noff, intena, cur, pstate, panicked>>
      /\ sie' = [sie EXCEPT ![c] = Op(c)[1] = "on"]
  <2>1. <<>> \o s = s
    BY <1>2 DEF Typed
  <2> QED BY <1>1, <2>1 DEF SetFlag, Continue
<1>8. Flag(b, Op(c)[1] = "on")
  BY <1>5 DEF Flag, OnModes, OffModes
<1>9. Machine(c, b)'
  BY <1>4, <1>5, <1>6, <1>7, <1>8 DEF Machine, Types
<1>10. Exclusive([A EXCEPT ![c] = b])'
  BY <1>4, <1>6, <1>7, SameLocks DEF spinVars, a
<1> QED BY <1>1, <1>2, <1>4, <1>7, <1>9, <1>10, StepTyped DEF Types, spinVars

LEMMA ReturnKeeps ==
  ASSUME NEW A \in [Harts -> ThreadStates], Holds(A), NEW c \in Harts, Return(c)
  PROVE  SpinInv'
<1>1. PICK x, s : x = cur[c] /\ s = Tail(todo[x])
  OBVIOUS
<1> DEFINE a == A[c]
<1>2. PICK b \in ThreadStates : Does(x, Op(c), a, b) /\ Typed(x, s, b, End(x))
  BY <1>1, NextOp DEF Return
<1>3. Returns(x, Op(c), a, b)
  BY <1>2, RuleOf DEF Return, Is
<1>4. Machine(c, a) /\ Types /\ Exclusive(A) /\ a \in ThreadStates
  BY DEF Holds, Local
<1>5. a.n = 0 /\ b = At({}, 0, b.mode) /\ b.mode \notin OffModes
  BY <1>3 DEF Returns, OffModes
<1>6. b.held = {} /\ b.half = {} /\ b.n = 0 /\ a.held = {} /\ a.half = {}
  BY <1>4, <1>5, AtFields DEF ThreadStates
<1> HIDE DEF a
<1>7. /\ todo' = [todo EXCEPT ![x] = s] /\ UNCHANGED <<spinVars, noff, intena, cur, pstate, panicked>>
      /\ sie' = [sie EXCEPT ![c] = TRUE]
  <2>1. <<>> \o s = s
    BY <1>2 DEF Typed
  <2> QED BY <1>1, <2>1 DEF Return, Continue
<1>8. Machine(c, b)'
  BY <1>4, <1>5, <1>6, <1>7 DEF Machine, Types, Flag
<1>9. Exclusive([A EXCEPT ![c] = b])'
  BY <1>4, <1>6, <1>7, SameLocks DEF spinVars, a
<1> QED BY <1>1, <1>2, <1>4, <1>7, <1>8, <1>9, StepTyped DEF Types, spinVars

LEMMA RestoreIntenaKeeps ==
  ASSUME NEW A \in [Harts -> ThreadStates], Holds(A), NEW c \in Harts, RestoreIntena(c)
  PROVE  SpinInv'
<1>1. PICK x, s : x = cur[c] /\ s = Tail(todo[x])
  OBVIOUS
<1> DEFINE a == A[c]
<1>2. PICK b \in ThreadStates : Does(x, Op(c), a, b) /\ Typed(x, s, b, End(x))
  BY <1>1, NextOp DEF RestoreIntena
<1>3. Restores(x, Op(c), a, b) /\ Op(c)[2] \in BOOLEAN
  BY <1>2, NextOp, RuleOf, OperandOf DEF RestoreIntena, Is
<1>4. Machine(c, a) /\ Types /\ Exclusive(A) /\ a \in ThreadStates
  BY DEF Holds, Local
<1>5. /\ a = Handed(x, "resumed") /\ b = Handed(x, b.mode)
      /\ b.mode \in IF Op(c)[2] THEN OnModes ELSE OffModes
  BY <1>3 DEF Restores
<1>6. b.held = a.held /\ b.half = a.half /\ b.n = 1 /\ a.n = 1
  <2>1. PICK md : a = At({x}, 1, "resumed") /\ b = At({x}, 1, md)
    BY <1>5 DEF Handed
  <2> QED BY <2>1 DEF At
<1> HIDE DEF a
<1>7. /\ todo' = [todo EXCEPT ![x] = s] /\ UNCHANGED <<spinVars, sie, noff, cur, pstate, panicked>>
      /\ intena' = [intena EXCEPT ![c] = Op(c)[2]]
  <2>1. <<>> \o s = s
    BY <1>2 DEF Typed
  <2> QED BY <1>1, <2>1 DEF RestoreIntena, Restored, Continue
<1>8. Flag(b, Op(c)[2])
  BY <1>3, <1>5 DEF Flag, OnModes, OffModes
<1>9. Machine(c, b)'
  BY <1>4, <1>6, <1>7, <1>8 DEF Machine, Types
<1>10. Exclusive([A EXCEPT ![c] = b])'
  BY <1>4, <1>6, <1>7, SameLocks DEF spinVars, a
<1> QED BY <1>1, <1>2, <1>3, <1>4, <1>7, <1>9, <1>10, StepTyped DEF Types, spinVars

LEMMA WakeKeeps ==
  ASSUME NEW A \in [Harts -> ThreadStates], Holds(A), NEW c \in Harts, Wake(c)
  PROVE  SpinInv'
<1>1. PICK x, s : x = cur[c] /\ s = Tail(todo[x])
  OBVIOUS
<1> DEFINE a == A[c]
<1>2. PICK b \in ThreadStates : Does(x, Op(c), a, b) /\ Typed(x, s, b, End(x))
  BY <1>1, NextOp DEF Wake
<1>3. b = a
  BY <1>2, RuleOf DEF Wake, Is, Visits
<1>4. Machine(c, a) /\ Types /\ Exclusive(A) /\ a \in ThreadStates
  BY DEF Holds, Local
<1> HIDE DEF a
<1>5. /\ todo' = [todo EXCEPT ![x] = s] /\ UNCHANGED <<spinVars, cpuVars, cur, panicked>>
      /\ pstate' = [pstate EXCEPT ![Op(c)[2]] = IF @ = "SLEEPING" THEN "RUNNABLE" ELSE @]
  <2>1. <<>> \o s = s
    BY <1>2 DEF Typed
  <2> QED BY <1>1, <2>1 DEF Wake, Continue
<1>6. Machine(c, b)'
  BY <1>3, <1>4, <1>5 DEF Machine, cpuVars
<1>7. Exclusive([A EXCEPT ![c] = b])'
  BY <1>3, <1>4, <1>5, SameLocks DEF spinVars, a
<1>8. /\ pstate' \in [Procs -> {"RUNNABLE", "RUNNING", "SLEEPING"}]
      /\ \A p \in Procs : pstate[p] = "RUNNING" => pstate'[p] = "RUNNING"
  BY <1>4, <1>5 DEF Types
<1> QED BY <1>1, <1>2, <1>4, <1>5, <1>6, <1>7, <1>8, StepTyped DEF Types, spinVars, cpuVars

\* A thread that has nothing left to do in its trap.
LEMMA Idle ==
  ASSUME NEW A \in [Harts -> ThreadStates], Holds(A), NEW c \in Harts, todo[cur[c]] = <<>>
  PROVE  A[c] = End(cur[c])
<1>1. Local(c, A[c])
  BY DEF Holds
<1>2. Typed(cur[c], <<>>, A[c], End(cur[c]))
  BY <1>1 DEF Local, Storing
<1> QED BY <1>2, TypedNothing

LEMMA RoundKeeps ==
  ASSUME NEW A \in [Harts -> ThreadStates], Holds(A), NEW c \in Harts, Round(c)
  PROVE  SpinInv'
<1>1. PICK t : t = round
  OBVIOUS
<1>2. cur[c] = c /\ todo[cur[c]] = <<>> /\ panicked = FALSE /\ Types
  BY DEF Round, Holds, Types
<1>3. A[c] = At({}, 0, "sched") /\ A[c] = End(c)
  BY <1>2, Idle, SpinlockAssumption DEF End
<1>4. Typed(c, t, A[c], End(c))
  BY <1>1, <1>3, RoundTyped
<1>5. todo' = [todo EXCEPT ![c] = t] /\ UNCHANGED <<spinVars, cpuVars, cur, pstate, panicked>>
  BY <1>1 DEF Round
<1>6. Machine(c, A[c])'
  BY <1>5 DEF Holds, Local, Machine, cpuVars
<1>7. Exclusive([A EXCEPT ![c] = A[c]])'
  BY <1>5, SameLocks DEF Holds, spinVars
<1> QED BY <1>2, <1>4, <1>5, <1>6, <1>7, StepTyped DEF Types, spinVars, cpuVars

\* A trap that leads the thread back to where it is.
LEMMA TrapKeeps ==
  ASSUME NEW A \in [Harts -> ThreadStates], Holds(A), NEW c \in Harts, NEW m \in OffModes, NEW work,
         Trap(c, work), A[c].n = 0, Typed(cur[c], work, At({}, 0, m), A[c])
  PROVE  SpinInv'
<1>1. PICK x, s : x = cur[c] /\ s = todo[x]
  OBVIOUS
<1> DEFINE a == A[c]
           b == At({}, 0, m)
           t == work \o s
<1>2. Local(c, a) /\ Machine(c, a) /\ Types /\ Exclusive(A) /\ a \in ThreadStates
  BY DEF Holds, Local
<1>3. Typed(x, s, a, End(x))
  BY <1>1, <1>2 DEF Local, Storing
<1>4. Typed(x, t, b, End(x))
  BY <1>1, <1>3, TypedConcat
<1>5. b \in ThreadStates /\ b.held = {} /\ b.half = {} /\ b.n = 0 /\ b.mode = m
  BY AtIsState, AtFields DEF OffModes, Modes
<1>6. a.held = {} /\ a.half = {}
  BY <1>2 DEF ThreadStates
<1> HIDE DEF a, b
<1>7. /\ todo' = [todo EXCEPT ![x] = t] /\ UNCHANGED <<spinVars, noff, intena, cur, pstate, panicked>>
      /\ sie' = [sie EXCEPT ![c] = FALSE]
  BY <1>1 DEF Trap
<1>8. Flag(b, FALSE)
  BY <1>5 DEF Flag, OffModes, OnModes
<1>9. Machine(c, b)'
  <2>1. noff[c] = 0
    BY <1>2 DEF Machine, a
  <2>2. noff'[c] = 0 /\ sie'[c] = FALSE
    BY <1>2, <1>7, <2>1 DEF Types
  <2> QED BY <1>5, <1>8, <2>2 DEF Machine, Flag
<1>10. Exclusive([A EXCEPT ![c] = b])'
  BY <1>2, <1>5, <1>6, <1>7, SameLocks DEF spinVars, a
<1> QED BY <1>1, <1>2, <1>4, <1>5, <1>7, <1>9, <1>10, StepTyped DEF Types, spinVars

LEMMA UserTimerKeeps ==
  ASSUME NEW A \in [Harts -> ThreadStates], Holds(A), NEW c \in Harts, UserTimer(c)
  PROVE  SpinInv'
<1>1. PICK p \in Procs : p = cur[c]
  BY DEF UserTimer, InUser
<1>2. A[c] = End(p) /\ A[c].n = 0
  BY <1>1, Idle, AtFields DEF UserTimer, InUser, End
<1>3. PICK work : work = devintr(c) \o killed(p) \o yield(p) \o usertrapret("timer")
  OBVIOUS
<1>4. Typed(p, work, At({}, 0, "timer"), A[c])
  BY <1>2, <1>3, UserTimerTyped
<1>5. Trap(c, work)
  BY <1>1, <1>3 DEF UserTimer
<1> QED BY <1>1, <1>2, <1>4, <1>5, TrapKeeps DEF OffModes

LEMMA SyscallKeeps ==
  ASSUME NEW A \in [Harts -> ThreadStates], Holds(A), NEW c \in Harts, Syscall(c)
  PROVE  SpinInv'
<1>1. PICK p \in Procs : p = cur[c]
  BY DEF Syscall, InUser
<1>2. A[c] = End(p) /\ A[c].n = 0
  BY <1>1, Idle, AtFields DEF Syscall, InUser, End
<1>3. PICK work \in {<<>>, killed(p) \o sleep(p, Ticks)} :
        Trap(c, killed(p) \o <<<<"on">>>> \o Guarded(Ticks, work) \o killed(p) \o usertrapret("syscall"))
  BY <1>1 DEF Syscall
<1>4. PICK t : t = killed(p) \o <<<<"on">>>> \o Guarded(Ticks, work) \o killed(p) \o usertrapret("syscall")
  OBVIOUS
<1>5. Typed(p, t, At({}, 0, "pre"), A[c])
  BY <1>2, <1>4, SyscallTyped
<1>6. Trap(c, t)
  BY <1>3, <1>4
<1> QED BY <1>1, <1>2, <1>5, <1>6, TrapKeeps DEF OffModes

\* A state without locks.
LEMMA NoLocks ==
  ASSUME NEW a \in ThreadStates, a.n = 0
  PROVE  a = At({}, 0, a.mode) /\ a.mode # "resumed"
<1>1. a.held = {} /\ a.half = {} /\ a.mode # "resumed"
  BY DEF ThreadStates
<1>2. a = [held |-> a.held, half |-> a.half, n |-> a.n, mode |-> a.mode]
  BY DEF ThreadStates
<1> QED BY <1>1, <1>2 DEF At

LEMMA KernelTimerKeeps ==
  ASSUME NEW A \in [Harts -> ThreadStates], Holds(A), NEW c \in Harts, KernelTimer(c)
  PROVE  SpinInv'
<1>1. PICK x \in Threads : x = cur[c]
  BY DEF Holds, Types
<1> DEFINE a == A[c]
<1>2. Machine(c, a) /\ a \in ThreadStates /\ sie[c]
  BY DEF Holds, Local, KernelTimer
<1>3. a.n = 0 /\ a.mode \in Modes \ OffModes
  <2>1. a.n = 0
    BY <1>2 DEF Machine, ThreadStates
  <2>2. a.mode \notin OffModes
    BY <1>2, <2>1 DEF Machine, Flag
  <2> QED BY <1>2, <2>1, <2>2 DEF ThreadStates
<1>4. PICK md : md = a.mode
  OBVIOUS
<1>5. a = At({}, 0, md) /\ md # "resumed"
  BY <1>2, <1>3, <1>4, NoLocks
<1>6. PICK work : work = devintr(c) \o (IF x \in Procs THEN yield(x) ELSE <<>>) \o <<<<"return", "kernel">>>>
  OBVIOUS
<1>7. Typed(x, work, At({}, 0, "kernel"), a)
  BY <1>3, <1>4, <1>5, <1>6, KernelTimerTyped
<1>8. Trap(c, work)
  BY <1>1, <1>6 DEF KernelTimer
<1> QED BY <1>1, <1>3, <1>7, <1>8, TrapKeeps DEF OffModes

LEMMA SchedKeeps ==
  ASSUME NEW A \in [Harts -> ThreadStates], Holds(A), NEW c \in Harts, Sched(c)
  PROVE  SpinInv'
<1>1. PICK p, s : p = cur[c] /\ s = Tail(todo[p])
  OBVIOUS
<1> DEFINE a == A[c]
           n == Handed(p, "sched")
           r == Handed(p, "resumed")
           o == <<"intena", intena[c]>>
           t == <<o>> \o s
           B == [A EXCEPT ![c] = n]
<1>2. PICK b \in ThreadStates : Does(p, Op(c), a, b) /\ Typed(p, s, b, End(p))
  BY <1>1, NextOp DEF Sched
<1>3. Switches(p, Op(c), a, b) /\ Op(c)[2] \in {"RUNNABLE", "SLEEPING"}
  BY <1>2, NextOp, RuleOf, OperandOf DEF Sched, Is
<1>4. /\ Types /\ Assigned /\ Suspended /\ Exclusive(A) /\ a \in ThreadStates
      /\ \A d \in Harts : Local(d, A[d])
  BY DEF Holds
<1>5. p \in Procs /\ a = Handed(p, a.mode) /\ a.mode \in OffModes \union OnModes /\ b = a
  BY <1>3 DEF Switches
<1>6. PICK md : md = a.mode
  OBVIOUS
<1>7. a = At({p}, 1, md) /\ a.held = {p} /\ a.half = {} /\ a.n = 1
  <2>1. a = At({p}, 1, md)
    BY <1>5, <1>6 DEF Handed
  <2> QED BY <2>1, AtFields
<1>8. n \in ThreadStates /\ n.held = {p} /\ n.half = {} /\ n.n = 1 /\ n.mode = "sched"
  BY <1>5, AtIsState, AtFields DEF Handed, Locks, Modes
<1>9. r \in ThreadStates /\ r.mode = "resumed"
  BY <1>5 DEF Handed, Locks, Modes, At, ThreadStates
<1>10. intena[c] \in BOOLEAN /\ o \in Operations /\ o[1] = "intena" /\ o[2] = intena[c]
  BY <1>4 DEF Types, Operations
<1> HIDE DEF a, n, r, o
<1>11. noff[c] = 1 /\ sie[c] = FALSE /\ Flag(a, intena[c])
  BY <1>4, <1>7 DEF Local, Machine, Types, a
<1>12. Restores(p, o, r, a)
  BY <1>5, <1>10, <1>11 DEF Restores, Flag, r
<1>13. Typed(p, t, r, End(p))
  BY <1>2, <1>4, <1>5, <1>9, <1>10, <1>12, TypedCons DEF Does
<1>14. /\ todo' = [todo EXCEPT ![p] = t] /\ cur' = [cur EXCEPT ![c] = c]
       /\ pstate' = [pstate EXCEPT ![p] = Op(c)[2]]
       /\ panicked' = (~holding(c, p) \/ noff[c] # 1 \/ sie[c])
       /\ UNCHANGED <<spinVars, cpuVars>>
  BY <1>1 DEF Sched, Continue, o
<1> HIDE DEF t
<1>15. panicked' = FALSE
  <2>1. holding(c, p)
    <3>1. \A k \in a.held : locked[k] /\ owner[k] = c
      BY <1>4 DEF Exclusive, a
    <3> QED BY <1>7, <3>1 DEF holding
  <2> QED BY <1>11, <1>14, <2>1
<1>16. t \in Seq(Operations)
  BY <1>13 DEF Typed
<1>17. Types'
  BY <1>3, <1>4, <1>14, <1>15, <1>16 DEF Types, spinVars, cpuVars, Threads
<1>18. /\ p \in Threads /\ c \in Threads /\ p # c /\ p \notin Harts
       /\ todo'[p] = t /\ \A y \in Threads \ {p} : todo'[y] = todo[y]
       /\ cur'[c] = c /\ \A d \in Harts \ {c} : cur'[d] = cur[d]
       /\ \A q \in Procs \ {p} : pstate'[q] = pstate[q]
  BY <1>4, <1>5, <1>14, SpinlockAssumption DEF Types, Threads
<1>19. \A d \in Harts \ {c} : cur[d] # p /\ cur[d] # c
  BY <1>1, <1>4, SpinlockAssumption DEF Assigned
<1>20. Assigned'
  <2>1. ASSUME NEW d \in Harts
        PROVE  \/ cur'[d] = d
               \/ /\ cur'[d] \in Procs /\ pstate'[cur'[d]] = "RUNNING"
                  /\ Typed(d, todo'[d], Handed(cur'[d], "sched"), End(d))
    <3>1. CASE d = c
      BY <1>18, <3>1
    <3>2. CASE d # c
      <4>1. todo'[d] = todo[d] /\ cur'[d] = cur[d] /\ cur[d] # p
        BY <1>18, <1>19, <3>2 DEF Threads
      <4> QED BY <1>4, <1>18, <4>1 DEF Assigned
    <3> QED BY <3>1, <3>2
  <2>2. ASSUME NEW d \in Harts, NEW e \in Harts, cur'[d] = cur'[e]
        PROVE  d = e
    BY <1>4, <1>18, <1>19, <2>2 DEF Assigned
  <2> QED BY <2>1, <2>2 DEF Assigned
<1>21. Suspended'
  <2> SUFFICES ASSUME NEW q \in Procs, \A d \in Harts : cur'[d] # q
               PROVE  \E m \in {"forkret", "resumed"} : Typed(q, todo'[q], Handed(q, m), End(q))
    BY DEF Suspended
  <2>1. CASE q = p
    BY <1>13, <1>18, <2>1 DEF r
  <2>2. CASE q # p
    <3>1. \A d \in Harts : cur[d] # q
      BY <1>1, <1>18, <2>2
    <3>2. todo'[q] = todo[q]
      BY <1>18, <2>2 DEF Threads
    <3> QED BY <1>4, <3>1, <3>2 DEF Suspended
  <2> QED BY <2>1, <2>2
<1>22. Local(c, n)'
  <2>1. Typed(c, todo[c], n, End(c))
    BY <1>1, <1>4, <1>18 DEF Assigned, n
  <2>2. Machine(c, n)'
    BY <1>8, <1>11, <1>14 DEF Machine, Flag, cpuVars, OnModes, OffModes
  <2> QED BY <1>18, <2>1, <2>2 DEF Local
<1>23. ASSUME NEW d \in Harts \ {c}
       PROVE  Local(d, A[d])'
  <2>1. cur'[d] = cur[d] /\ todo'[cur[d]] = todo[cur[d]]
    BY <1>4, <1>18, <1>19 DEF Types
  <2>2. Local(d, A[d])
    BY <1>4
  <2> QED BY <1>14, <2>1, <2>2 DEF Local, Machine, Storing, cpuVars
<1>24. Exclusive(B)'
  BY <1>4, <1>7, <1>8, <1>14, SameLocks DEF spinVars, a
<1>25. B \in [Harts -> ThreadStates] /\ B[c] = n /\ \A d \in Harts \ {c} : B[d] = A[d]
  BY <1>8
<1> HIDE DEF B
<1>26. Holds(B)'
  BY <1>17, <1>20, <1>21, <1>22, <1>23, <1>24, <1>25 DEF Holds
<1> QED BY <1>25, <1>26 DEF SpinInv

LEMMA PickKeeps ==
  ASSUME NEW A \in [Harts -> ThreadStates], Holds(A), NEW c \in Harts, Pick(c)
  PROVE  SpinInv'
<1>1. PICK x, p, s : x = cur[c] /\ p = Op(c)[2] /\ s = Tail(todo[x])
  OBVIOUS
<1> DEFINE a == A[c]
<1>2. PICK b \in ThreadStates : Does(x, Op(c), a, b) /\ Typed(x, s, b, End(x))
  BY <1>1, NextOp DEF Pick
<1>3. Visits(x, Op(c), a, b) /\ Op(c)[1] = "pick"
  BY <1>2, RuleOf DEF Pick, Is
<1>4. /\ Types /\ Assigned /\ Suspended /\ Exclusive(A) /\ a \in ThreadStates
      /\ \A d \in Harts : Local(d, A[d])
  BY DEF Holds
<1>5. x = c /\ p \in Procs /\ a = Handed(p, "sched") /\ b = a /\ cur[c] = c
  BY <1>1, <1>3, <1>4, SpinlockAssumption DEF Visits, Assigned
<1>6. a.held = {p} /\ a.half = {} /\ a.n = 1
  BY <1>5, AtFields DEF Handed
<1>7. Machine(c, a)
  BY <1>4 DEF Local
<1>8. /\ todo' = [todo EXCEPT ![c] = s] /\ UNCHANGED <<spinVars, cpuVars, panicked>>
      /\ \/ /\ pstate[p] = "RUNNABLE"
            /\ pstate' = [pstate EXCEPT ![p] = "RUNNING"]
            /\ cur' = [cur EXCEPT ![c] = p]
         \/ UNCHANGED <<pstate, cur>>
  <2>1. <<>> \o s = s
    BY <1>2 DEF Typed
  <2> QED BY <1>1, <1>5, <2>1 DEF Pick, Continue
<1>9. CASE UNCHANGED <<pstate, cur>>
  <2>1. Machine(c, a)'
    BY <1>7, <1>8 DEF Machine, cpuVars
  <2>2. Exclusive([A EXCEPT ![c] = a])'
    BY <1>4, <1>8, SameLocks DEF spinVars
  <2> QED BY <1>2, <1>4, <1>5, <1>8, <1>9, <2>1, <2>2, StepTyped DEF Types, spinVars, cpuVars
<1>10. CASE /\ pstate[p] = "RUNNABLE"
            /\ pstate' = [pstate EXCEPT ![p] = "RUNNING"]
            /\ cur' = [cur EXCEPT ![c] = p]
  <2>1. \A d \in Harts : cur[d] # p
    BY <1>4, <1>5, <1>10, SpinlockAssumption DEF Assigned
  <2>2. PICK m \in {"forkret", "resumed"} : Typed(p, todo[p], Handed(p, m), End(p))
    BY <1>4, <1>5, <2>1 DEF Suspended
  <2> DEFINE n == Handed(p, m)
             B == [A EXCEPT ![c] = n]
  <2>3. n.held = {p} /\ n.half = {} /\ n.n = 1 /\ n.mode = m
    BY AtFields DEF Handed
  <2>4. n \in ThreadStates
    BY <1>5 DEF Handed, Locks, Modes, At, ThreadStates
  <2> HIDE DEF n, a
  <2>5. s \in Seq(Operations)
    BY <1>2 DEF Typed
  <2>6. Types'
    BY <1>4, <1>5, <1>8, <1>10, <2>5 DEF Types, spinVars, cpuVars, Threads
  <2>7. /\ p \in Threads /\ c \in Threads /\ p # c /\ p \notin Harts
        /\ todo'[c] = s /\ \A y \in Threads \ {c} : todo'[y] = todo[y]
        /\ cur'[c] = p /\ \A d \in Harts \ {c} : cur'[d] = cur[d]
        /\ pstate'[p] = "RUNNING" /\ \A q \in Procs \ {p} : pstate'[q] = pstate[q]
    BY <1>4, <1>5, <1>8, <1>10, SpinlockAssumption DEF Types, Threads
  <2>8. \A d \in Harts \ {c} : cur[d] # c
    BY <1>4, <1>5 DEF Assigned
  <2>9. Assigned'
    <3>1. ASSUME NEW d \in Harts
          PROVE  \/ cur'[d] = d
                 \/ /\ cur'[d] \in Procs /\ pstate'[cur'[d]] = "RUNNING"
                    /\ Typed(d, todo'[d], Handed(cur'[d], "sched"), End(d))
      <4>1. CASE d = c
        <5>1. Typed(c, s, Handed(p, "sched"), End(c))
          BY <1>2, <1>5
        <5> QED BY <1>5, <2>7, <4>1, <5>1
      <4>2. CASE d # c
        <5>1. todo'[d] = todo[d] /\ cur'[d] = cur[d] /\ cur[d] # p
          BY <2>1, <2>7, <4>2 DEF Threads
        <5> QED BY <1>4, <2>7, <5>1 DEF Assigned
      <4> QED BY <4>1, <4>2
    <3>2. ASSUME NEW d \in Harts, NEW e \in Harts, cur'[d] = cur'[e]
          PROVE  d = e
      BY <1>4, <2>1, <2>7, <3>2 DEF Assigned
    <3> QED BY <3>1, <3>2 DEF Assigned
  <2>10. Suspended'
    <3> SUFFICES ASSUME NEW q \in Procs, \A d \in Harts : cur'[d] # q
                 PROVE  \E k \in {"forkret", "resumed"} : Typed(q, todo'[q], Handed(q, k), End(q))
      BY DEF Suspended
    <3>1. q # p /\ q # c
      BY <2>7, SpinlockAssumption
    <3>2. \A d \in Harts : cur[d] # q
      BY <1>5, <2>7, <3>1
    <3>3. todo'[q] = todo[q]
      BY <2>7, <3>1 DEF Threads
    <3> QED BY <1>4, <3>2, <3>3 DEF Suspended
  <2>11. Local(c, n)'
    <3>1. todo'[p] = todo[p]
      BY <2>7
    <3>2. Machine(c, n)'
      BY <1>6, <1>7, <1>8, <2>3 DEF Machine, Flag, cpuVars, OnModes, OffModes
    <3> QED BY <2>2, <2>7, <3>1, <3>2 DEF Local, n
  <2>12. ASSUME NEW d \in Harts \ {c}
         PROVE  Local(d, A[d])'
    <3>1. cur'[d] = cur[d] /\ todo'[cur[d]] = todo[cur[d]]
      BY <1>4, <2>7, <2>8 DEF Types
    <3>2. Local(d, A[d])
      BY <1>4
    <3> QED BY <1>8, <3>1, <3>2 DEF Local, Machine, Storing, cpuVars
  <2>13. Exclusive(B)'
    BY <1>4, <1>6, <1>8, <2>3, <2>4, SameLocks DEF spinVars, a
  <2>14. B \in [Harts -> ThreadStates] /\ B[c] = n /\ \A d \in Harts \ {c} : B[d] = A[d]
    BY <2>4
  <2> HIDE DEF B
  <2>15. Holds(B)'
    BY <2>6, <2>9, <2>10, <2>11, <2>12, <2>13, <2>14 DEF Holds
  <2> QED BY <2>14, <2>15 DEF SpinInv
<1> QED BY <1>8, <1>9, <1>10

LEMMA SpinInit == LockInit => SpinInv
<1> SUFFICES ASSUME LockInit PROVE SpinInv
  OBVIOUS
<1>1. PICK A : A = [c \in Harts |-> At({}, 0, "sched")]
  OBVIOUS
<1>2. At({}, 0, "sched") \in ThreadStates
  BY AtIsState DEF Modes
<1>3. A \in [Harts -> ThreadStates]
  BY <1>1, <1>2
<1>4. \A c \in Harts : /\ A[c] = End(c) /\ A[c].held = {} /\ A[c].half = {}
                       /\ A[c].n = 0 /\ A[c].mode = "sched"
  BY <1>1, AtFields, SpinlockAssumption DEF End
<1>5. \A p \in Procs : /\ todo[p] = <<<<"release", p>>>> \o usertrapret("forkret")
                       /\ Typed(p, todo[p], Handed(p, "forkret"), End(p))
  BY ForkretTyped DEF LockInit
<1>6. \A c \in Harts : cur[c] = c /\ todo[c] = <<>> /\ noff[c] = 0
  BY SpinlockAssumption DEF LockInit
<1>7. Types
  <2>1. todo \in [Threads -> Seq(Operations)]
    <3>1. ASSUME NEW y \in Threads PROVE todo[y] \in Seq(Operations)
      <4>1. CASE y \in Harts
        <5>1. <<>> \in Seq(Operations)
          OBVIOUS
        <5> QED BY <1>6, <4>1, <5>1
      <4>2. CASE y \in Procs
        BY <1>5, <4>2 DEF Typed
      <4> QED BY <4>1, <4>2 DEF Threads
    <3>2. todo = [y \in Threads |-> todo[y]]
      BY DEF LockInit, Threads
    <3> QED BY <3>1, <3>2
  <2>2. cur \in [Harts -> Threads]
    BY DEF LockInit, Threads
  <2> QED BY <2>1, <2>2 DEF Types, LockInit
<1>8. Assigned
  BY <1>6 DEF Assigned
<1>9. Suspended
  BY <1>5 DEF Suspended
<1>10. ASSUME NEW c \in Harts
       PROVE  Local(c, A[c])
  <2>1. Typed(c, <<>>, A[c], End(c))
    BY <1>3, <1>4, TypedEmpty
  <2>2. Machine(c, A[c])
    BY <1>4, <1>6 DEF Machine, Flag, OnModes, OffModes
  <2> QED BY <1>6, <2>1, <2>2 DEF Local
<1>11. Exclusive(A)
  BY <1>4 DEF Exclusive, LockInit
<1> QED BY <1>3, <1>7, <1>8, <1>9, <1>10, <1>11 DEF Holds, SpinInv

LEMMA SpinNext == SpinInv /\ [LockNext]_lockVars => SpinInv'
<1> SUFFICES ASSUME SpinInv, [LockNext]_lockVars PROVE SpinInv'
  OBVIOUS
<1>1. PICK A \in [Harts -> ThreadStates] : Holds(A)
  BY DEF SpinInv
<1>2. ASSUME NEW c \in Harts, Step(c) PROVE SpinInv'
  BY <1>1, <1>2, ReadFlagKeeps, PushOffKeeps, SwapKeeps, SetOwnerKeeps, ClearOwnerKeeps, UnlockKeeps,
     PopOffKeeps, SchedKeeps, RestoreIntenaKeeps, RoundKeeps, PickKeeps, WakeKeeps, SetFlagKeeps,
     ReturnKeeps DEF Step
<1>3. ASSUME NEW c \in Harts, UserTimer(c) \/ Syscall(c) \/ KernelTimer(c) PROVE SpinInv'
  BY <1>1, <1>3, UserTimerKeeps, SyscallKeeps, KernelTimerKeeps
<1>4. CASE UNCHANGED lockVars
  <2>1. UNCHANGED <<locked, owner, sie, noff, intena, cur, pstate, todo, panicked>>
    BY <1>4 DEF lockVars, spinVars, cpuVars
  <2>2. Types' /\ Assigned' /\ Suspended' /\ Exclusive(A)'
    BY <1>1, <2>1 DEF Holds, Types, Assigned, Suspended, Exclusive
  <2>3. \A c \in Harts : Local(c, A[c])'
    BY <1>1, <2>1 DEF Holds, Local, Machine, Storing
  <2> QED BY <2>2, <2>3 DEF SpinInv, Holds
<1> QED BY <1>2, <1>3, <1>4 DEF LockNext

\* SpinInvariant: what a CPU's thread has still to do fits the locks it holds, noff, and
\* whether it expects interrupts, and a process on no CPU goes on under its own lock.
THEOREM SpinInvariant == LockSpec => []SpinInv
BY SpinInit, SpinNext, PTL DEF LockSpec

-----------------------------------------------------------------------------
(* What the invariant says of the operations that are first in todo.       *)

Stores(o, a, b) ==
  /\ o[1] = "own"
  /\ a.half = {o[2]} /\ o[2] \notin a.held /\ a.n > 0
  /\ b = At(a.held \union {o[2]}, a.n, a.mode)

Path(h, x, s, a) ==
  /\ h \in [1..Len(s)+1 -> ThreadStates] /\ h[1] = a /\ h[Len(s)+1] = End(x)
  /\ \A i \in 1..Len(s) : Does(x, s[i], h[i], h[i+1]) \/ Stores(s[i], h[i], h[i+1])

LEMMA PathExists ==
  ASSUME NEW c \in Harts, NEW a \in ThreadStates, Types, Local(c, a)
  PROVE  \E h : Path(h, cur[c], todo[cur[c]], a)
<1>1. PICK x, s : x = cur[c] /\ s = todo[x]
  OBVIOUS
<1>2. CASE Typed(x, s, a, End(x))
  BY <1>1, <1>2 DEF Typed, Leads, Path
<1>3. CASE Storing(c, x, a)
  <2>1. PICK l \in Locks : /\ s # <<>> /\ Head(s) = <<"own", l, c>>
                           /\ a.half = {l} /\ l \notin a.held /\ a.n > 0
                           /\ Typed(x, Tail(s), At(a.held \union {l}, a.n, a.mode), End(x))
    BY <1>1, <1>3 DEF Storing
  <2>2. PICK g : Leads(g, x, Tail(s), At(a.held \union {l}, a.n, a.mode), End(x))
    BY <2>1 DEF Typed
  <2>3. s \in Seq(Operations)
    BY <1>1 DEF Types
  <2>4. /\ Len(s) \in Nat \ {0} /\ Head(s) = s[1] /\ Len(Tail(s)) = Len(s) - 1
        /\ \A i \in 1..Len(Tail(s)) : Tail(s)[i] = s[i+1]
    BY <2>1, <2>3, HeadTailProperties, EmptySeq
  <2> DEFINE h == [i \in 1..Len(s)+1 |-> IF i = 1 THEN a ELSE g[i-1]]
  <2>5. h \in [1..Len(s)+1 -> ThreadStates] /\ h[1] = a /\ h[2] = g[1] /\ h[Len(s)+1] = g[Len(s)]
    BY <2>2, <2>4 DEF Leads
  <2>6. ASSUME NEW i \in 1..Len(s)
        PROVE  Does(x, s[i], h[i], h[i+1]) \/ Stores(s[i], h[i], h[i+1])
    <3>1. CASE i = 1
      <4>1. s[1][1] = "own" /\ s[1][2] = l
        BY <2>1, <2>4
      <4>2. h[2] = At(a.held \union {l}, a.n, a.mode)
        BY <2>2, <2>5 DEF Leads
      <4>3. h[i] = a /\ h[i+1] = h[2] /\ s[i] = s[1]
        BY <2>5, <3>1
      <4> HIDE DEF h
      <4> QED BY <2>1, <4>1, <4>2, <4>3 DEF Stores
    <3>2. CASE i # 1
      <4>1. PICK j \in 1..Len(Tail(s)) : i = j + 1
        <5>1. i - 1 \in 1..Len(Tail(s)) /\ i = (i - 1) + 1
          BY <2>4, <3>2
        <5> QED BY <5>1
      <4>2. h[i] = g[j] /\ h[i+1] = g[j+1] /\ s[i] = Tail(s)[j]
        BY <2>4, <4>1
      <4> QED BY <2>2, <4>2 DEF Leads
    <3> QED BY <3>1, <3>2
  <2> HIDE DEF h
  <2>7. g[Len(s)] = End(x)
    <3>1. Len(Tail(s)) + 1 = Len(s)
      BY <2>4
    <3> QED BY <2>2, <3>1 DEF Leads
  <2> QED BY <1>1, <2>5, <2>6, <2>7 DEF Path
<1> QED BY <1>1, <1>2, <1>3 DEF Local

\* What holds at the start, and from one place to the next.
LEMMA Climb ==
  ASSUME NEW m \in Nat \ {0}, NEW Q, 1 \in Q, \A i \in 1..m-1 : i \in Q => i + 1 \in Q
  PROVE  m \in Q
<1> DEFINE T == {i \in 1..m : i \notin Q}
<1>1. SUFFICES ASSUME T # {} PROVE FALSE
  OBVIOUS
<1>2. T \subseteq Nat
  OBVIOUS
<1>3. PICK k \in T : \A i \in T : k <= i
  BY <1>1, <1>2, Least
<1>4. k # 1 /\ k - 1 \in 1..m-1 /\ k - 1 \notin T /\ (k - 1) + 1 = k
  BY <1>3
<1> QED BY <1>3, <1>4

LEMMA FirstIsLeast ==
  ASSUME NEW I, I \subseteq Nat, I # {}
  PROVE  First(I) \in I /\ \A j \in I : First(I) <= j
BY Least DEF First

LockNames == {"acquire", "push_off", "swap", "own", "release", "unlock"}

\* A step that is not on lock l leaves it where it was.
LEMMA OtherLocks ==
  ASSUME NEW x, NEW o, NEW a \in ThreadStates, NEW b \in ThreadStates, NEW l \in Locks,
         Does(x, o, a, b) \/ Stores(o, a, b), ~(o[1] \in LockNames /\ o[2] = l)
  PROVE  l \in a.held \union a.half <=> l \in b.held \union b.half
<1>1. CASE Takes(x, o, a, b)
  BY <1>1, AtFields DEF Takes, LockNames
<1>2. CASE Swaps(x, o, a, b)
  BY <1>2, AtFields DEF Swaps, LockNames
<1>3. CASE Releases(x, o, a, b)
  BY <1>3, AtFields DEF Releases, LockNames
<1>4. CASE Unlocks(x, o, a, b)
  BY <1>4, AtFields DEF Unlocks, LockNames, ThreadStates
<1>5. CASE Pops(x, o, a, b)
  BY <1>5, AtFields DEF Pops
<1>6. CASE SetsFlag(x, o, a, b) \/ Returns(x, o, a, b)
  <2>1. a.n = 0 /\ b = At({}, 0, b.mode)
    BY <1>6 DEF SetsFlag, Returns
  <2>2. a.held = {} /\ a.half = {} /\ b.n = 0
    BY <2>1, AtFields DEF ThreadStates
  <2> QED BY <2>2 DEF ThreadStates
<1>7. CASE Switches(x, o, a, b) \/ Visits(x, o, a, b)
  BY <1>7 DEF Switches, Visits
<1>8. CASE Restores(x, o, a, b)
  <2>1. PICK m : a = At({x}, 1, "resumed") /\ b = At({x}, 1, m)
    BY <1>8 DEF Restores, Handed
  <2> QED BY <2>1 DEF At
<1>9. CASE Stores(o, a, b)
  BY <1>9, AtFields DEF Stores, LockNames
<1> QED BY <1>1, <1>2, <1>3, <1>4, <1>5, <1>6, <1>7, <1>8, <1>9 DEF Does

\* A step on lock l tells whether the thread has it.
LEMMA SameLock ==
  ASSUME NEW x, NEW o, NEW a \in ThreadStates, NEW b \in ThreadStates, NEW l \in Locks,
         Does(x, o, a, b) \/ Stores(o, a, b), o[1] \in LockNames, o[2] = l
  PROVE  l \in a.held \union a.half <=> o[1] \in {"own", "release", "unlock"}
BY DEF Does, Stores, LockNames, Takes, Swaps, Releases, Unlocks, Pops, SetsFlag, Returns, Switches,
       Restores, Visits

\* A thread has lock l just if what it does next with it is to store lk->cpu or to
\* release it.
LEMMA HasLock ==
  ASSUME NEW c \in Harts, NEW a \in ThreadStates, Types, Local(c, a), NEW l \in Locks
  PROVE  c \in Inside(l) <=> l \in a.held \union a.half
<1>1. PICK x, s : x = cur[c] /\ s = todo[x]
  OBVIOUS
<1>2. PICK h : Path(h, x, s, a)
  BY <1>1, PathExists
<1>3. s \in Seq(Operations) /\ Len(s) \in Nat /\ DOMAIN s = 1..Len(s)
  BY <1>1 DEF Types
<1>4. PICK I : I = {i \in 1..Len(s) : s[i][1] \in LockNames /\ s[i][2] = l}
  OBVIOUS
<1>5. I = LockOps(x, l)
  BY <1>1, <1>3, <1>4 DEF LockOps, Named, LockNames
<1>6. c \in Inside(l) <=> I # {} /\ s[First(I)][1] \in {"own", "release", "unlock"}
  BY <1>1, <1>5 DEF Inside
<1> DEFINE Has(b) == l \in b.held \union b.half
<1>7. ASSUME NEW m \in 1..Len(s)+1, \A i \in I : m <= i
      PROVE  Has(a) <=> Has(h[m])
  <2> DEFINE Q == {i \in 1..m : Has(a) <=> Has(h[i])}
  <2>1. 1 \in Q
    BY <1>2 DEF Path
  <2>2. ASSUME NEW i \in 1..m-1, i \in Q PROVE i + 1 \in Q
    <3>1. i \in 1..Len(s) /\ i \in 1..Len(s)+1 /\ i + 1 \in 1..Len(s)+1 /\ i + 1 \in 1..m
      BY <1>3
    <3>2. i \notin I
      BY <1>7, <1>3
    <3>3. ~(s[i][1] \in LockNames /\ s[i][2] = l)
      BY <1>4, <3>1, <3>2
    <3>4. h[i] \in ThreadStates /\ h[i+1] \in ThreadStates
      BY <1>2, <3>1 DEF Path
    <3>5. Has(h[i]) <=> Has(h[i+1])
      <4>1. Does(x, s[i], h[i], h[i+1]) \/ Stores(s[i], h[i], h[i+1])
        BY <1>2, <3>1 DEF Path
      <4>2. ASSUME NEW o, NEW b \in ThreadStates, NEW d \in ThreadStates,
                   Does(x, o, b, d) \/ Stores(o, b, d), ~(o[1] \in LockNames /\ o[2] = l)
            PROVE  Has(b) <=> Has(d)
        BY <4>2, OtherLocks
      <4> HIDE DEF Has
      <4> QED BY <3>3, <3>4, <4>1, <4>2
    <3> QED BY <2>2, <3>1, <3>5
  <2>3. m \in Q
    <3> HIDE DEF Q
    <3>1. m \in Nat \ {0}
      BY <1>3
    <3> QED BY <2>1, <2>2, <3>1, Climb
  <2> QED BY <2>3
<1>8. CASE I = {}
  <2>1. Has(a) <=> Has(h[Len(s)+1])
    BY <1>3, <1>7, <1>8
  <2>2. ~Has(End(x))
    BY AtFields DEF End
  <2> QED BY <1>2, <1>6, <1>8, <2>1, <2>2 DEF Path
<1>9. CASE I # {}
  <2>1. PICK m : m = First(I)
    OBVIOUS
  <2>2. I \subseteq Nat
    BY <1>4
  <2>3. m \in I /\ \A j \in I : m <= j
    BY <1>9, <2>1, <2>2, FirstIsLeast
  <2>4. m \in 1..Len(s) /\ m \in 1..Len(s)+1 /\ m + 1 \in 1..Len(s)+1
    BY <1>3, <1>4, <2>3
  <2>5. h[m] \in ThreadStates /\ h[m+1] \in ThreadStates /\ (Does(x, s[m], h[m], h[m+1]) \/ Stores(s[m], h[m], h[m+1]))
    BY <1>2, <2>4 DEF Path
  <2>6. s[m][1] \in LockNames /\ s[m][2] = l
    BY <1>4, <2>3
  <2>7. Has(h[m]) <=> s[m][1] \in {"own", "release", "unlock"}
    BY <2>5, <2>6, SameLock
  <2>8. Has(a) <=> Has(h[m])
    BY <1>7, <2>3, <2>4
  <2> QED BY <1>6, <1>9, <2>1, <2>7, <2>8
<1> QED BY <1>8, <1>9

LEMMA InvExcludes == SpinInv => LocksExclude
<1> SUFFICES ASSUME SpinInv PROVE LocksExclude
  OBVIOUS
<1>1. PICK A \in [Harts -> ThreadStates] : Holds(A)
  BY DEF SpinInv
<1>2. Types /\ Exclusive(A) /\ \A c \in Harts : Local(c, A[c]) /\ A[c] \in ThreadStates
  BY <1>1 DEF Holds
<1>3. \A l \in Locks : \A c \in Harts : c \in Inside(l) <=> l \in A[c].held \union A[c].half
  BY <1>2, HasLock
<1>4. \A l \in Locks : Inside(l) \subseteq Harts
  BY DEF Inside
<1>5. ASSUME NEW l \in Locks
      PROVE  /\ \A c, d \in Inside(l) : c = d
             /\ locked[l] <=> Inside(l) # {}
  <2>1. \A c \in Harts : l \in A[c].held \union A[c].half => locked[l]
    BY <1>2 DEF Exclusive
  <2>2. locked[l] => \E c \in Harts : l \in A[c].held \union A[c].half
    BY <1>2 DEF Exclusive
  <2>3. ASSUME NEW c \in Harts, NEW d \in Harts, l \in A[c].held \union A[c].half,
               l \in A[d].held \union A[d].half, c # d
        PROVE  FALSE
    <3>1. CASE l \in A[c].half /\ l \in A[d].half
      BY <1>2, <2>3, <3>1 DEF Exclusive
    <3>2. CASE l \in A[c].held
      <4>1. owner[l] = c
        BY <1>2, <3>2 DEF Exclusive
      <4> QED BY <1>2, <2>3, <4>1, SpinlockAssumption DEF Exclusive
    <3>3. CASE l \in A[d].held
      <4>1. owner[l] = d
        BY <1>2, <3>3 DEF Exclusive
      <4> QED BY <1>2, <2>3, <4>1, SpinlockAssumption DEF Exclusive
    <3> QED BY <2>3, <3>1, <3>2, <3>3
  <2> QED BY <1>3, <1>4, <2>1, <2>2, <2>3
<1> QED BY <1>2, <1>5 DEF LocksExclude, Types

\* The trap a process in mode m is in.
TrapIn(m) == CASE m \in {"timer", "kernel", "sched", "user", "resumed"} -> m
               [] m \in {"pre", "open", "post"}                         -> "syscall"
               [] m \in {"forkret", "forked"}                           -> "forkret"

\* A thread changes the trap it is in with a return only, once it has restored intena.
LEMMA SameTrap ==
  ASSUME NEW x, NEW o, NEW a \in ThreadStates, NEW b \in ThreadStates, Does(x, o, a, b) \/ Stores(o, a, b),
         a.mode # "resumed", o[1] # "return"
  PROVE  b.mode # "resumed" /\ TrapIn(b.mode) = TrapIn(a.mode)
<1>1. CASE SetsFlag(x, o, a, b)
  BY <1>1 DEF SetsFlag, TrapIn
<1>2. CASE ~SetsFlag(x, o, a, b)
  <2>1. ~Returns(x, o, a, b) /\ ~Restores(x, o, a, b)
    BY DEF Returns, Restores, Handed, At
  <2>2. b.mode = a.mode
    BY <1>2, <2>1, AtFields DEF Does, Stores, Takes, Swaps, Releases, Unlocks, Pops, Switches, Visits, ThreadStates
  <2> QED BY <2>2
<1> QED BY <1>1, <1>2

LEMMA TrapReturns ==
  ASSUME NEW x, NEW o, NEW a \in ThreadStates, NEW b, Does(x, o, a, b), o[1] = "return"
  PROVE  o[2] = TrapIn(a.mode)
<1>1. Returns(x, o, a, b)
  BY RuleOf
<1> QED BY <1>1 DEF Returns, TrapIn

\* The first return that a process has to do ends the trap it is in.
LEMMA InTrap ==
  ASSUME NEW c \in Harts, NEW a \in ThreadStates, Types, Local(c, a), cur[c] \in Procs,
         a.mode # "resumed", TrapIn(a.mode) # "user"
  PROVE  TrapOf(c) = TrapIn(a.mode)
<1>1. PICK x, s : x = cur[c] /\ s = todo[x]
  OBVIOUS
<1>2. PICK h : Path(h, x, s, a)
  BY <1>1, PathExists
<1>3. s \in Seq(Operations) /\ Len(s) \in Nat /\ DOMAIN s = 1..Len(s)
  BY <1>1 DEF Types
<1>4. PICK I : I = {i \in 1..Len(s) : s[i][1] \in {"return"}}
  OBVIOUS
<1>5. TrapOf(c) = s[First(I)][2]
  BY <1>1, <1>3, <1>4 DEF TrapOf, Named
<1>6. ASSUME NEW m \in 1..Len(s)+1, \A i \in I : m <= i
      PROVE  TrapIn(h[m].mode) = TrapIn(a.mode)
  <2> DEFINE Q == {i \in 1..m : h[i].mode # "resumed" /\ TrapIn(h[i].mode) = TrapIn(a.mode)}
  <2>1. 1 \in Q
    BY <1>2 DEF Path
  <2>2. ASSUME NEW i \in 1..m-1, i \in Q PROVE i + 1 \in Q
    <3>1. i \in 1..Len(s) /\ i \in 1..Len(s)+1 /\ i + 1 \in 1..Len(s)+1 /\ i + 1 \in 1..m
      BY <1>3
    <3>2. i \notin I
      BY <1>6, <1>3
    <3>3. s[i][1] # "return"
      BY <1>4, <3>1, <3>2
    <3>4. h[i] \in ThreadStates /\ h[i+1] \in ThreadStates
      BY <1>2, <3>1 DEF Path
    <3>5. h[i+1].mode # "resumed" /\ TrapIn(h[i+1].mode) = TrapIn(h[i].mode)
      <4>1. h[i].mode # "resumed"
        BY <2>2
      <4>2. Does(x, s[i], h[i], h[i+1]) \/ Stores(s[i], h[i], h[i+1])
        BY <1>2, <3>1 DEF Path
      <4> QED BY <3>3, <3>4, <4>1, <4>2, SameTrap
    <3> QED BY <2>2, <3>1, <3>5
  <2>3. m \in Q
    <3> HIDE DEF Q
    <3>1. m \in Nat \ {0}
      BY <1>3
    <3> QED BY <2>1, <2>2, <3>1, Climb
  <2> QED BY <2>3
<1>7. I # {}
  <2> SUFFICES ASSUME I = {} PROVE FALSE
    OBVIOUS
  <2>1. TrapIn(h[Len(s)+1].mode) = TrapIn(a.mode)
    BY <1>3, <1>6
  <2>2. TrapIn(End(x).mode) = "user"
    BY <1>1, AtFields DEF End, TrapIn
  <2> QED BY <1>2, <2>1, <2>2 DEF Path
<1>8. PICK m : m = First(I)
  OBVIOUS
<1>9. I \subseteq Nat
  BY <1>4
<1>10. m \in I /\ \A j \in I : m <= j
  BY <1>7, <1>8, <1>9, FirstIsLeast
<1>11. m \in 1..Len(s) /\ m \in 1..Len(s)+1
  BY <1>3, <1>4, <1>10
<1>12. h[m] \in ThreadStates /\ (Does(x, s[m], h[m], h[m+1]) \/ Stores(s[m], h[m], h[m+1])) /\ s[m][1] = "return"
  BY <1>2, <1>4, <1>10, <1>11 DEF Path
<1>13. s[m][2] = TrapIn(h[m].mode)
  BY <1>12, TrapReturns DEF Stores
<1> QED BY <1>5, <1>6, <1>8, <1>10, <1>11, <1>13

\* In a system call, intr_off() is the next to set the flag only after intr_on().
LEMMA IsOpened ==
  ASSUME NEW c \in Harts, NEW a \in ThreadStates, Types, Local(c, a), Opened(c),
         TrapIn(a.mode) = "syscall"
  PROVE  a.mode = "open"
<1>1. PICK x, s : x = cur[c] /\ s = todo[x]
  OBVIOUS
<1>2. PICK h : Path(h, x, s, a)
  BY <1>1, PathExists
<1>3. s \in Seq(Operations) /\ Len(s) \in Nat /\ DOMAIN s = 1..Len(s)
  BY <1>1 DEF Types
<1>4. PICK I : I = {i \in 1..Len(s) : s[i][1] \in {"on", "off"}}
  OBVIOUS
<1>5. I # {} /\ s[First(I)][1] = "off"
  BY <1>1, <1>3, <1>4 DEF Opened, Named
<1>6. PICK m : m = First(I)
  OBVIOUS
<1>7. I \subseteq Nat
  BY <1>4
<1>8. m \in I /\ \A j \in I : m <= j
  BY <1>5, <1>6, <1>7, FirstIsLeast
<1>9. m \in 1..Len(s) /\ m \in 1..Len(s)+1 /\ m \in Nat \ {0}
  BY <1>3, <1>4, <1>8
<1>10. a.mode \in {"pre", "open", "post"}
  BY DEF TrapIn, ThreadStates, Modes, OffModes, OnModes
<1> DEFINE Q == {i \in 1..m : h[i].mode = a.mode \/ h[i].mode = "user"}
<1>11. 1 \in Q
  BY <1>2, <1>9 DEF Path
<1>12. ASSUME NEW i \in 1..m-1, i \in Q PROVE i + 1 \in Q
  <2>1. i \in 1..Len(s) /\ i \in 1..Len(s)+1 /\ i + 1 \in 1..Len(s)+1 /\ i + 1 \in 1..m /\ i \notin I
    BY <1>3, <1>8, <1>9
  <2>2. s[i][1] \notin {"on", "off"}
    BY <1>4, <2>1
  <2>3. PICK o, d, e : o = s[i] /\ d = h[i] /\ e = h[i+1]
    OBVIOUS
  <2>4. d \in ThreadStates /\ e \in ThreadStates /\ (Does(x, o, d, e) \/ Stores(o, d, e))
    BY <1>2, <2>1, <2>3 DEF Path
  <2>5. d.mode \in {"pre", "open", "post", "user"}
    BY <1>10, <1>12, <2>3
  <2>6. ~SetsFlag(x, o, d, e) /\ ~Restores(x, o, d, e)
    BY <2>2, <2>3, <2>5 DEF SetsFlag, Restores, Handed, At
  <2>7. CASE Returns(x, o, d, e)
    BY <2>1, <2>3, <2>5, <2>7 DEF Returns
  <2>8. CASE ~Returns(x, o, d, e)
    <3>1. e.mode = d.mode
      BY <2>4, <2>6, <2>8, AtFields DEF Does, Stores, Takes, Swaps, Releases, Unlocks, Pops, Switches,
                                        Visits, ThreadStates
    <3> QED BY <1>12, <2>1, <2>3, <3>1
  <2> QED BY <2>7, <2>8
<1>13. m \in Q
  <2> HIDE DEF Q
  <2> QED BY <1>9, <1>11, <1>12, Climb
<1>14. Does(x, s[m], h[m], h[m+1]) \/ Stores(s[m], h[m], h[m+1])
  BY <1>2, <1>9 DEF Path
<1>15. SetsFlag(x, s[m], h[m], h[m+1]) /\ s[m][1] = "off"
  BY <1>5, <1>6, <1>14, RuleOf DEF Stores
<1> QED BY <1>10, <1>13, <1>15 DEF SetsFlag

LEMMA InvOwnInterrupts == SpinInv => ThreadsOwnInterrupts
<1> SUFFICES ASSUME SpinInv, NEW c \in Harts
             PROVE  /\ noff[c] > 0 => ~sie[c]
                    /\ cur[c] \in Procs /\ todo[cur[c]] # <<>> =>
                         /\ TrapOf(c) \in {"timer", "kernel"} => ~sie[c]
                         /\ TrapOf(c) = "syscall" /\ Opened(c) /\ noff[c] = 0 => sie[c]
  BY DEF ThreadsOwnInterrupts
<1>1. PICK A \in [Harts -> ThreadStates] : Holds(A)
  BY DEF SpinInv
<1>2. PICK a : a = A[c]
  OBVIOUS
<1>3. Types /\ Local(c, a) /\ Machine(c, a) /\ a \in ThreadStates
  BY <1>1, <1>2 DEF Holds, Local
<1>4. a.n \in Nat /\ noff[c] = a.n /\ sie[c] \in BOOLEAN
  BY <1>3 DEF ThreadStates, Types, Machine
<1>5. noff[c] > 0 => ~sie[c]
  BY <1>3 DEF Machine
<1>6. noff[c] = 0 => Flag(a, sie[c])
  BY <1>3, <1>4 DEF Machine
<1>7. ASSUME cur[c] \in Procs, todo[cur[c]] # <<>>
      PROVE  /\ TrapOf(c) \in {"timer", "kernel"} => ~sie[c]
             /\ TrapOf(c) = "syscall" /\ Opened(c) /\ noff[c] = 0 => sie[c]
  <2>1. CASE noff[c] > 0
    BY <1>5, <2>1
  <2>2. CASE noff[c] = 0
    <3>1. a.mode # "resumed"
      BY <1>3, <1>4, <2>2, NoLocks
    <3>2. TrapIn(a.mode) # "user"
      <4> SUFFICES ASSUME a.mode = "user" PROVE FALSE
        BY <1>3 DEF TrapIn, ThreadStates, Modes, OffModes, OnModes
      <4>1. ~Storing(c, cur[c], a)
        BY <1>4, <2>2 DEF Storing
      <4>2. Typed(cur[c], todo[cur[c]], a, End(cur[c]))
        BY <1>3, <4>1 DEF Local
      <4>3. PICK o, b : Does(cur[c], o, a, b)
        BY <1>7, <4>2, TypedTail
      <4>4. a.n = 0
        BY <1>4, <2>2
      <4> QED BY <4>3, <4>4, AtFields DEF Does, Takes, Swaps, Releases, Unlocks, Pops, SetsFlag, Returns, Switches,
                                Restores, Visits, Handed, OffModes, OnModes
    <3>3. TrapOf(c) = TrapIn(a.mode)
      BY <1>3, <1>7, <3>1, <3>2, InTrap
    <3>4. TrapOf(c) \in {"timer", "kernel"} => a.mode \in OffModes
      BY <1>3, <3>3 DEF TrapIn, ThreadStates, Modes, OffModes, OnModes
    <3>5. TrapOf(c) = "syscall" /\ Opened(c) => a.mode \in OnModes
      BY <1>3, <3>3, IsOpened DEF OnModes
    <3> QED BY <1>4, <1>6, <2>2, <3>4, <3>5 DEF Flag
  <2> QED BY <1>4, <2>1, <2>2
<1> QED BY <1>5, <1>7

\* LocksSafe: for any processes and any CPUs, in every interleaving of acquire(), release(),
\* the switches and the timer interrupts, a lock has one holder at most and none of the
\* panics of spinlock.c and sched() is reached.
THEOREM LocksSafe == LockSpec => []LocksExclude
BY SpinInvariant, InvExcludes, PTL

\* InterruptsSafe: intena goes with the thread, for any number of CPUs it moves between.
THEOREM InterruptsSafe == LockSpec => []ThreadsOwnInterrupts
BY SpinInvariant, InvOwnInterrupts, PTL

=============================================================================
