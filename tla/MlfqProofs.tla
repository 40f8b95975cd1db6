----------------------------- MODULE MlfqProofs -----------------------------
(***************************************************************************)
(* Proofs about Mlfq for every set of CPUs, every NPROC and every number   *)
(* of levels.                                                              *)
(*                                                                         *)
(* Binding is what the scheduler owes to p->lock: no two CPUs are on one   *)
(* process, a process on a CPU is RUNNING until it stops, and after that   *)
(* nobody touches its state before the scheduler has stored its priority.  *)
(* The boost takes no lock, so Binding says nothing of the priorities.     *)
(*                                                                         *)
(* For the bound on the quanta a process gets while q waits, each quantum  *)
(* is charged to one of the visits (Left) that the CPU which gives it had  *)
(* left before it finds q.                                                 *)
(***************************************************************************)
EXTENDS MlfqBypass, FiniteSetTheorems, TLAPS

Binding ==
  /\ \A c \in Cpus : at[c] \in {"in", "run"} => state[cursor[c]] = "RUNNING"
  /\ \A c \in Cpus : at[c] \in {"out", "store"} =>
                       state[cursor[c]] \in {"RUNNABLE", "SLEEPING", "ZOMBIE"}
  /\ \A c, d \in Cpus : Running(c) /\ Running(d) /\ cursor[c] = cursor[d] => c = d

MlfqInv == TypeOK /\ Binding /\ Rule3

\* The arithmetic of slots and levels.
LEMMA Ranges ==
  /\ Initproc \in Slots /\ NoProc \notin Slots
  /\ 0 \in Levels /\ NoStore \notin Levels
  /\ \A p \in Slots : p # NPROC => p + 1 \in Slots
  /\ \A n \in Levels : n > 0 => n - 1 \in Levels
  /\ \A n \in Levels : n < NPRIO - 1 => n + 1 \in Levels
BY MlfqAssumption, SMT DEF Slots, Levels, NoStore, Initproc, NoProc

LEMMA NextLevel == \A n \in Levels : (n + 1) % NPRIO \in Levels
<1>1. ASSUME NEW m \in Nat, NEW k \in Nat \ {0}
      PROVE  m % k \in 0..k-1
  BY <1>1, SMT
<1>2. ASSUME NEW n \in Levels
      PROVE  n + 1 \in Nat
  BY <1>2, MlfqAssumption DEF Levels
<1> QED BY <1>1, <1>2, MlfqAssumption DEF Levels

LEMMA InitInv == Init => MlfqInv
BY Ranges DEF Init, MlfqInv, TypeOK, Binding, Rule3, States, Points, Running, Initproc

\* What p++ makes of a CPU that leaves its process alone.
LEMMA NextSlotType ==
  ASSUME TypeOK, NEW c \in Cpus, NextSlot(c)
  PROVE  at' \in [Cpus -> Points] /\ cursor' \in [Cpus -> Slots]
BY Ranges DEF TypeOK, NextSlot, Points

LEMMA SkipInv ==
  ASSUME MlfqInv, NEW c \in Cpus, Skip(c)
  PROVE  MlfqInv'
<1> USE DEF MlfqInv, Skip, procVars
<1>1. TypeOK'
  BY NextSlotType DEF TypeOK
<1>2. Binding'
  BY DEF TypeOK, Binding, Running, NextSlot
<1>3. Rule3'
  BY DEF Rule3
<1> QED BY <1>1, <1>2, <1>3

\* Under p->lock a RUNNABLE process is on no CPU.
LEMMA RunInv ==
  ASSUME MlfqInv, NEW c \in Cpus, Run(c)
  PROVE  MlfqInv'
<1> USE DEF MlfqInv, Run, scanVars, Eligible
<1>1. TypeOK'
  BY DEF TypeOK, States, Points
<1>2. \A d \in Cpus : Running(d) => cursor[d] # cursor[c]
  BY DEF TypeOK, Binding, Running, Unlocked, Holds
<1>3. Binding'
  BY <1>2 DEF TypeOK, Binding, Running
<1>4. Rule3'
  BY DEF TypeOK, Rule3
<1> QED BY <1>1, <1>3, <1>4

LEMMA LoadInv ==
  ASSUME MlfqInv, NEW c \in Cpus, Load(c)
  PROVE  MlfqInv'
<1> USE DEF MlfqInv, Load, procVars, scanVars
<1>1. \A s, n : n \in Levels => Adjusted(s, n) \in Levels \union {NoStore}
  BY Ranges DEF Adjusted
<1>2. TypeOK'
  BY <1>1 DEF TypeOK, Points
<1>3. Binding'
  BY DEF TypeOK, Binding, Running
<1>4. Rule3'
  BY DEF Rule3
<1> QED BY <1>2, <1>3, <1>4

\* The store is about a process that has been created, whose state is locked.
LEMMA StoreInv ==
  ASSUME MlfqInv, NEW c \in Cpus, Store(c)
  PROVE  MlfqInv'
<1> USE DEF MlfqInv, Store
<1>1. TypeOK'
  BY NextSlotType, Ranges DEF TypeOK
<1>2. Binding'
  BY DEF TypeOK, Binding, Running, NextSlot
<1>3. Rule3'
  BY DEF TypeOK, Binding, Rule3
<1> QED BY <1>1, <1>2, <1>3

LEMMA LevelDoneInv ==
  ASSUME MlfqInv, NEW c \in Cpus, LevelDone(c)
  PROVE  MlfqInv'
<1> USE Ranges, NextLevel DEF MlfqInv, LevelDone, procVars
<1>1. TypeOK'
  BY DEF TypeOK, Points, Initproc
<1>2. Binding'
  BY DEF TypeOK, Binding, Running
<1>3. Rule3'
  BY DEF Rule3
<1> QED BY <1>1, <1>2, <1>3

\* The boost stores the level every new process has anyway.
LEMMA BoostInv ==
  ASSUME MlfqInv, NEW c \in Cpus, Boost(c)
  PROVE  MlfqInv'
<1> USE Ranges DEF MlfqInv, Boost
<1>1. TypeOK'
  BY DEF TypeOK, Points, Initproc
<1>2. Binding'
  BY DEF TypeOK, Binding, Running
<1>3. Rule3'
  BY DEF TypeOK, Rule3
<1> QED BY <1>1, <1>2, <1>3

LEMMA ProcessInv ==
  ASSUME MlfqInv, NEW c \in Cpus, Resume(c) \/ Stop(c)
  PROVE  MlfqInv'
<1> USE DEF MlfqInv, Resume, Stop, procVars, scanVars
<1>1. TypeOK'
  BY DEF TypeOK, States, Points
<1>2. Binding'
  BY DEF TypeOK, Binding, Running
<1>3. Rule3'
  BY DEF TypeOK, Rule3
<1> QED BY <1>1, <1>2, <1>3

\* Whoever finds p->lock free and p not RUNNING finds no CPU on p.
LEMMA OffCpuIfUnlocked ==
  ASSUME MlfqInv, NEW p \in Slots, Unlocked(p), state[p] # "RUNNING"
  PROVE  \A c \in Cpus : Running(c) => cursor[c] # p
BY DEF MlfqInv, Binding, Running, Unlocked, Holds

LEMMA OthersInv ==
  ASSUME MlfqInv, NEW p \in Slots, Create(p) \/ Ready(p) \/ Wake(p) \/ Freeproc(p)
  PROVE  MlfqInv'
<1> USE Ranges DEF MlfqInv, Create, Ready, Wake, Freeproc, Change, scanVars
<1>1. TypeOK'
  BY DEF TypeOK, States
<1>2. Binding'
  BY OffCpuIfUnlocked DEF TypeOK, Binding, Running
<1>3. Rule3'
  BY DEF TypeOK, Rule3
<1> QED BY <1>1, <1>2, <1>3

LEMMA NextInv == MlfqInv /\ [Next]_vars => MlfqInv'
<1> SUFFICES ASSUME MlfqInv, [Next]_vars PROVE MlfqInv'
  OBVIOUS
<1>1. CASE UNCHANGED vars
  BY <1>1 DEF vars, procVars, scanVars, MlfqInv, TypeOK, Binding, Rule3, Running
<1> QED
  BY <1>1, SkipInv, RunInv, LoadInv, StoreInv, LevelDoneInv, BoostInv, ProcessInv,
     OthersInv
  DEF Next, SchedulerStep

LEMMA Invariance == Spec => []MlfqInv
BY InitInv, NextInv, PTL DEF Spec

\* No store of the scheduler leaves the levels: a racing boost cannot make it add
\* to the lowest level or subtract from the highest (proc.c:475-480).
THEOREM TypeCorrect == Spec => []TypeOK
<1>1. MlfqInv => TypeOK
  BY DEF MlfqInv
<1> QED BY <1>1, Invariance, PTL

\* Whatever the boosts and the scheduler stored for the last tenant of a slot, a
\* process is created at level 0 (freeproc, proc.c:175).
THEOREM StartsOnTop == Spec => []Rule3
<1>1. MlfqInv => Rule3
  BY DEF MlfqInv
<1> QED BY <1>1, Invariance, PTL

-----------------------------------------------------------------------------
(* The refinement: a CPU is on the stack of its cursor between swtch() and   *)
(* the store of the priority, and whoever changes the state of a process it  *)
(* does not run holds the lock of that process.                              *)

LEMMA OffCpuIfFree ==
  ASSUME MlfqInv, NEW p \in Slots, Unlocked(p), state[p] # "RUNNING"
  PROVE  Abstract!OffCpu(p)
<1>1. ASSUME NEW c \in Cpus PROVE OnCpu[c] # p
  BY <1>1, OffCpuIfUnlocked, Ranges DEF OnCpu
<1> QED BY <1>1 DEF Abstract!OffCpu

LEMMA InitRefines == Init => Abstract!Init
BY DEF Init, OnCpu, Running, Abstract!Init

\* swtch() to a process.
LEMMA RunRefines ==
  ASSUME MlfqInv, NEW c \in Cpus, Run(c)
  PROVE  Abstract!Run(c, cursor[c])
<1> USE DEF Run, scanVars, Eligible
<1>1. cursor[c] \in Slots
  BY DEF MlfqInv, TypeOK
<1>2. OnCpu[c] = NoProc
  BY DEF OnCpu, Running
<1>3. Abstract!OffCpu(cursor[c])
  BY <1>1, OffCpuIfFree
<1>4. OnCpu' = [OnCpu EXCEPT ![c] = cursor[c]]
  BY DEF MlfqInv, TypeOK, OnCpu, Running
<1> QED BY <1>2, <1>3, <1>4 DEF Abstract!Run

\* yield(), sleep() or exit().
LEMMA StopRefines ==
  ASSUME MlfqInv, NEW c \in Cpus, Stop(c)
  PROVE  Abstract!Stop(c, cursor[c])
<1> USE DEF Stop, scanVars
<1>1. OnCpu[c] = cursor[c]
  BY DEF OnCpu, Running
<1>2. state[cursor[c]] = "RUNNING"
  BY DEF MlfqInv, Binding
<1>3. OnCpu' = OnCpu
  BY DEF MlfqInv, TypeOK, OnCpu, Running
<1> QED BY <1>1, <1>2, <1>3 DEF Abstract!Stop

\* The store of the priority, with which the scheduler lets go of p->lock.
LEMMA StoreRefines ==
  ASSUME MlfqInv, NEW c \in Cpus, Store(c)
  PROVE  Abstract!Leave(c, cursor[c])
<1> USE DEF Store
<1>1. OnCpu[c] = cursor[c]
  BY DEF OnCpu, Running
<1>2. state[cursor[c]] # "RUNNING"
  BY DEF MlfqInv, Binding
<1>3. OnCpu' = [OnCpu EXCEPT ![c] = NoProc]
  BY DEF MlfqInv, TypeOK, OnCpu, Running, NextSlot
<1> QED BY <1>1, <1>2, <1>3 DEF Abstract!Leave

\* Nobody gets on a CPU or leaves one in these.
LEMMA OthersRefine ==
  ASSUME MlfqInv, NEW p \in Slots, Create(p) \/ Ready(p) \/ Wake(p) \/ Freeproc(p)
  PROVE  \/ Abstract!Create(p) \/ Abstract!Ready(p) \/ Abstract!Wake(p)
         \/ Abstract!Abort(p) \/ Abstract!Reap(p)
<1> USE DEF Create, Ready, Wake, Freeproc, Change, scanVars
<1>1. OnCpu' = OnCpu
  BY DEF OnCpu, Running
<1>2. Abstract!OffCpu(p)
  BY OffCpuIfFree
<1> QED
  BY <1>1, <1>2 DEF Abstract!Create, Abstract!Ready, Abstract!Wake, Abstract!Abort,
                    Abstract!Reap, Abstract!Move

LEMMA ScanRefines ==
  ASSUME MlfqInv, NEW c \in Cpus,
         Skip(c) \/ Load(c) \/ LevelDone(c) \/ Boost(c) \/ Resume(c)
  PROVE  UNCHANGED <<state, OnCpu>>
<1>1. UNCHANGED state
  BY DEF Skip, Load, LevelDone, Boost, Resume, procVars
<1>2. ASSUME NEW d \in Cpus PROVE (Running(d) <=> Running(d)')
                                 /\ (Running(d) => cursor'[d] = cursor[d])
  BY DEF MlfqInv, TypeOK, Skip, Load, LevelDone, Boost, Resume, NextSlot, scanVars,
         Running
<1> QED BY <1>1, <1>2 DEF OnCpu

LEMMA StepRefines == MlfqInv /\ [Next]_vars => [Abstract!Next]_<<state, OnCpu>>
<1> SUFFICES ASSUME MlfqInv, [Next]_vars
             PROVE  Abstract!Next \/ UNCHANGED <<state, OnCpu>>
  BY DEF Abstract!dvars
<1>1. CASE UNCHANGED vars
  BY <1>1 DEF vars, procVars, scanVars, OnCpu, Running
<1>2. ASSUME NEW c \in Cpus, SchedulerStep(c) \/ Resume(c) \/ Stop(c)
      PROVE  Abstract!Next \/ UNCHANGED <<state, OnCpu>>
  <2>1. cursor[c] \in Slots
    BY DEF MlfqInv, TypeOK
  <2> QED
    BY <1>2, <2>1, RunRefines, StopRefines, StoreRefines, ScanRefines
    DEF SchedulerStep, Abstract!Next
<1>3. ASSUME NEW p \in Slots, Create(p) \/ Ready(p) \/ Wake(p) \/ Freeproc(p)
      PROVE  Abstract!Next
  BY <1>3, OthersRefine DEF Abstract!Next
<1> QED BY <1>1, <1>2, <1>3 DEF Next

\* The multilevel scheduler runs a process on one CPU at a time, and nobody wakes
\* or frees one that a CPU is still on (proc.c:466-486), as Dispatch promises.
THEOREM Refinement == Spec => ImplementsDispatch
<1> QED BY InitRefines, StepRefines, Invariance, PTL
        DEF Spec, ImplementsDispatch, Abstract!Spec, Abstract!dvars

-----------------------------------------------------------------------------
(* The bound on the quanta.                                                  *)

\* The walk of CPU c over its level has come by slot r, or has done it when c is
\* between two levels; a boost comes by nobody.
Passed(c, r) ==
  \/ at[c] = "level"
  \/ at[c] # "boost" /\ (cursor[c] > r \/ (cursor[c] = r /\ Running(c)))

\* The level at which q, which waits, will be found unless it is boosted to 0: a CPU
\* that has not stored q's adjusted priority yet is about to take it below level 0.
Adjusting(q) == \E c \in Cpus : cursor[c] = q /\ at[c] \in {"out", "store"}
Floor(q)     == IF Adjusting(q) /\ NPRIO > 1 THEN 1 ELSE priority[q]

\* How often a CPU can come by a slot p before it finds q, at most: b, it has passed
\* p's slot at its level l; d, it has passed q's; f, the floor of q.  Once q has been
\* boosted to level 0, until the CPU is there; if q is below, until the end of this
\* round over the levels and, should the CPU have missed q in it, of the next one; and
\* once at level 0, to which q can be boosted at any time.
Visits(l, f, b, d) ==
  IF f = 0 /\ l = 0 /\ ~d
    THEN IF b THEN 0 ELSE 1
    ELSE 1 + (IF b THEN NPRIO - l - 1 ELSE NPRIO - l)
           + (IF f > 0 /\ (f < l \/ (f = l /\ d)) THEN NPRIO ELSE 0)

Left(c, p, q) == Visits(level[c], Floor(q), Passed(c, p), Passed(c, q))

\* Each CPU begins with two rounds of visits; those it has none of any more pay for
\* the quanta of p.
Spent(p, q) == {x \in Cpus \X (1..2 * NPRIO) : x[2] > Left(x[1], p, q)}

Charged ==
  /\ bypass \in [Slots -> [Slots -> Nat]]
  /\ \A p, q \in Slots :
       bypass[q][p] <= IF p = q THEN 0 ELSE Cardinality(Spent(p, q))

\* What is about to be stored for a process that yielded is not level 0.
Lowering ==
  \A c \in Cpus : at[c] = "store" /\ state[cursor[c]] = "RUNNABLE" => reg[c] # 0

BypassInv == MlfqInv /\ Lowering /\ Charged

LEMMA VisitsType ==
  ASSUME NEW l \in Levels, NEW f \in Levels, NEW b \in BOOLEAN, NEW d \in BOOLEAN
  PROVE  Visits(l, f, b, d) \in 0..2 * NPRIO
BY MlfqAssumption, SMT DEF Visits, Levels

\* While the CPU stays in its level, it comes by p's slot, never back; q moves to level
\* 0 or down; and the CPU does not pass q where q is.
LEMMA VisitsFall ==
  ASSUME NEW l \in Levels, NEW f \in Levels, NEW g \in Levels,
         NEW a \in BOOLEAN, NEW b \in BOOLEAN, NEW d \in BOOLEAN, NEW e \in BOOLEAN,
         a => b, g = 0 \/ g >= f, f = 0 => g = 0,
         (d <=> e) \/ (f # l /\ g = f /\ e)
  PROVE  /\ Visits(l, g, b, e) <= Visits(l, f, a, d)
         /\ ~a /\ b => Visits(l, g, b, e) < Visits(l, f, a, d)
BY MlfqAssumption, SMT DEF Visits, Levels

\* i++ does not change what is left, and neither does the start of the next round.
LEMMA VisitsTurn ==
  ASSUME NEW l \in Levels, NEW f \in Levels
  PROVE  Visits((l + 1) % NPRIO, f, FALSE, FALSE) = Visits(l, f, TRUE, TRUE)
<1>1. CASE l = NPRIO - 1
  <2>1. (l + 1) % NPRIO = 0
    BY <1>1, MlfqAssumption, SMT
  <2>2. Visits(0, f, FALSE, FALSE) = Visits(NPRIO - 1, f, TRUE, TRUE)
    BY MlfqAssumption, SMT DEF Visits, Levels
  <2> QED BY <1>1, <2>1, <2>2
<1>2. CASE l # NPRIO - 1
  <2>1. l + 1 \in Nat /\ NPRIO \in Nat /\ l + 1 < NPRIO
    BY <1>2, MlfqAssumption, SMT DEF Levels
  <2>2. (l + 1) % NPRIO = l + 1
    BY <2>1, SMT
  <2>3. Visits(l + 1, f, FALSE, FALSE) = Visits(l, f, TRUE, TRUE)
    BY <2>1, MlfqAssumption, SMT DEF Visits, Levels
  <2> QED BY <2>2, <2>3
<1> QED BY <1>1, <1>2
LEMMA FloorType ==
  ASSUME TypeOK, NEW q \in Slots
  PROVE  Floor(q) \in Levels
BY MlfqAssumption, SMT DEF Floor, TypeOK, Levels

LEMMA LeftType ==
  ASSUME TypeOK, NEW c \in Cpus, NEW p \in Slots, NEW q \in Slots
  PROVE  Left(c, p, q) \in 0..2 * NPRIO
<1>1. level[c] \in Levels /\ Floor(q) \in Levels
  BY FloorType DEF TypeOK
<1>2. PICK a \in BOOLEAN, b \in BOOLEAN : a = Passed(c, p) /\ b = Passed(c, q)
  BY DEF Passed
<1> QED BY <1>1, <1>2, VisitsType DEF Left

\* The same in the next state.
LEMMA NextFloorType ==
  ASSUME TypeOK', NEW q \in Slots
  PROVE  Floor(q)' \in Levels
BY MlfqAssumption, SMT DEF Floor, TypeOK, Levels

LEMMA NextLeftType ==
  ASSUME TypeOK', NEW c \in Cpus, NEW p \in Slots, NEW q \in Slots
  PROVE  Left(c, p, q)' \in 0..2 * NPRIO
<1>1. level'[c] \in Levels /\ Floor(q)' \in Levels
  BY NextFloorType DEF TypeOK
<1>2. PICK a \in BOOLEAN, b \in BOOLEAN : a = Passed(c, p)' /\ b = Passed(c, q)'
  BY DEF Passed
<1> QED BY <1>1, <1>2, VisitsType DEF Left

\* The walk of one CPU goes on, or stands still.
LEMMA NextSlotPasses ==
  ASSUME TypeOK, NEW c \in Cpus, NextSlot(c), NEW r \in Slots, at[c] # "level", at[c] # "boost"
  PROVE  Passed(c, r)' <=> cursor[c] >= r
<1>1. cursor[c] \in 1..NPROC /\ r \in 1..NPROC
  BY DEF TypeOK, Slots
<1>2. CASE cursor[c] = NPROC
  <2>1. at'[c] = "level" /\ NPROC >= r
    BY <1>1, <1>2, MlfqAssumption DEF NextSlot, TypeOK
  <2> QED BY <1>2, <2>1 DEF Passed
<1>3. CASE cursor[c] # NPROC
  <2>1. at'[c] = "scan" /\ cursor'[c] = cursor[c] + 1
    BY <1>3 DEF NextSlot, TypeOK
  <2>2. Passed(c, r)' <=> cursor[c] + 1 > r
    BY <2>1 DEF Passed, Running
  <2> QED BY <1>1, <2>2, MlfqAssumption
<1> QED BY <1>2, <1>3

LEMMA SkipPasses ==
  ASSUME TypeOK, NEW c \in Cpus, Skip(c), NEW r \in Slots
  PROVE  Passed(c, r)' <=> Passed(c, r) \/ r = cursor[c]
<1>1. Passed(c, r)' <=> cursor[c] >= r
  BY NextSlotPasses DEF Skip
<1>2. Passed(c, r) <=> cursor[c] > r
  BY DEF Passed, Running, Skip
<1>3. cursor[c] \in 1..NPROC /\ r \in 1..NPROC
  BY DEF TypeOK, Slots
<1> QED BY <1>1, <1>2, <1>3, MlfqAssumption

LEMMA RunPasses ==
  ASSUME TypeOK, NEW c \in Cpus, Run(c), NEW r \in Slots
  PROVE  /\ Passed(c, r)' <=> Passed(c, r) \/ r = cursor[c]
         /\ r = cursor[c] => ~Passed(c, r)
<1>1. cursor[c] \in 1..NPROC /\ r \in 1..NPROC
  BY DEF TypeOK, Slots
<1>2. at[c] = "scan" /\ at'[c] = "in" /\ cursor'[c] = cursor[c]
  BY DEF Run, scanVars, TypeOK
<1> QED BY <1>1, <1>2, MlfqAssumption DEF Passed, Running

LEMMA StorePasses ==
  ASSUME TypeOK, NEW c \in Cpus, Store(c), NEW r \in Slots
  PROVE  Passed(c, r)' <=> Passed(c, r)
<1>1. Passed(c, r)' <=> cursor[c] >= r
  BY NextSlotPasses DEF Store
<1>2. cursor[c] \in 1..NPROC /\ r \in 1..NPROC
  BY DEF TypeOK, Slots
<1>3. Passed(c, r) <=> cursor[c] > r \/ cursor[c] = r
  BY DEF Passed, Running, Store
<1> QED BY <1>1, <1>2, <1>3, MlfqAssumption

LEMMA BoostPasses ==
  ASSUME TypeOK, NEW c \in Cpus, Boost(c), NEW r \in Slots
  PROVE  Passed(c, r)' <=> Passed(c, r)
<1>1. ~Passed(c, r)
  BY DEF Passed, Boost
<1>2. CASE cursor[c] = NPROC
  <2>1. at'[c] = "scan" /\ cursor'[c] = 1 /\ ~(1 > r)
    BY <1>2, MlfqAssumption DEF Boost, TypeOK, Slots
  <2> QED BY <1>1, <2>1 DEF Passed, Running
<1>3. CASE cursor[c] # NPROC
  BY <1>1, <1>3 DEF Passed, Boost
<1> QED BY <1>2, <1>3

LEMMA OnCpuPasses ==
  ASSUME TypeOK, NEW c \in Cpus, Load(c) \/ Resume(c) \/ Stop(c), NEW r \in Slots
  PROVE  Passed(c, r)' <=> Passed(c, r)
BY DEF Passed, Running, Load, Resume, Stop, scanVars, TypeOK

\* The other CPUs stay where they are.
LEMMA OthersStay ==
  ASSUME TypeOK, NEW c \in Cpus, SchedulerStep(c) \/ Resume(c) \/ Stop(c),
         NEW d \in Cpus \ {c}, NEW r \in Slots
  PROVE  /\ at'[d] = at[d] /\ level'[d] = level[d] /\ cursor'[d] = cursor[d]
         /\ Passed(d, r)' <=> Passed(d, r)
<1>1. at'[d] = at[d] /\ level'[d] = level[d] /\ cursor'[d] = cursor[d]
  BY DEF SchedulerStep, Skip, Run, Load, Store, LevelDone, Boost, Resume, Stop, NextSlot,
         scanVars, TypeOK
<1> QED BY <1>1 DEF Passed, Running
-----------------------------------------------------------------------------
\* The scheduler takes a process that yielded to a lower level, or leaves it in the
\* lowest one.
LEMMA LoweringNext ==
  ASSUME MlfqInv, Lowering, [Next]_vars
  PROVE  Lowering'
<1> USE DEF MlfqInv, Lowering
<1>1. CASE UNCHANGED vars
  BY <1>1 DEF vars, procVars, scanVars
<1>2. ASSUME NEW c \in Cpus, Load(c) PROVE Lowering'
  <2>1. \A n \in Levels : Adjusted("RUNNABLE", n) # 0
    BY MlfqAssumption, SMT DEF Adjusted, Levels, NoStore
  <2>2. priority[cursor[c]] \in Levels /\ cursor' = cursor /\ state' = state
    BY <1>2 DEF Load, procVars, scanVars, TypeOK
  <2>3. state[cursor[c]] = "RUNNABLE" => reg'[c] # 0
    BY <1>2, <2>1, <2>2 DEF Load, TypeOK
  <2>4. \A d \in Cpus \ {c} : at'[d] = at[d] /\ reg'[d] = reg[d]
    BY <1>2 DEF Load, TypeOK
  <2> QED BY <2>2, <2>3, <2>4
<1>3. ASSUME NEW c \in Cpus,
             Skip(c) \/ Run(c) \/ Store(c) \/ LevelDone(c) \/ Boost(c) \/ Resume(c) \/ Stop(c)
      PROVE  Lowering'
  <2>1. at'[c] # "store"
    BY <1>3 DEF Skip, Run, Store, LevelDone, Boost, Resume, Stop, NextSlot, TypeOK
  <2>2. \A d \in Cpus \ {c} : at'[d] = at[d] /\ cursor'[d] = cursor[d] /\ reg'[d] = reg[d]
    BY <1>3 DEF Skip, Run, Store, LevelDone, Boost, Resume, Stop, NextSlot, TypeOK, scanVars
  <2>3. ASSUME NEW d \in Cpus, at[d] = "store" PROVE state'[cursor[d]] = state[cursor[d]]
    BY <1>3, <2>3 DEF Skip, Run, Store, LevelDone, Boost, Resume, Stop, procVars, Unlocked, Holds,
                      TypeOK
  <2> QED BY <2>1, <2>2, <2>3
<1>4. ASSUME NEW p \in Slots, Create(p) \/ Ready(p) \/ Wake(p) \/ Freeproc(p) PROVE Lowering'
  <2>1. UNCHANGED <<at, cursor, reg>>
    BY <1>4 DEF Create, Ready, Wake, Freeproc, Change, scanVars
  <2>2. ASSUME NEW d \in Cpus, at[d] = "store" PROVE state'[cursor[d]] = state[cursor[d]]
    BY <1>4, <2>2 DEF Create, Ready, Wake, Freeproc, Change, Unlocked, Holds, TypeOK
  <2> QED BY <2>1, <2>2
<1> QED BY <1>1, <1>2, <1>3, <1>4 DEF Next, SchedulerStep

\* Who does not store a priority does not move a process that waits.
LEMMA FloorKept ==
  ASSUME MlfqInv, NEW c \in Cpus, NEW q \in Slots, Waits(q),
         Skip(c) \/ Run(c) \/ Load(c) \/ LevelDone(c) \/ Resume(c) \/ Stop(c)
  PROVE  Floor(q)' = Floor(q)
<1> USE DEF MlfqInv
<1>1. priority' = priority
  BY DEF Skip, Run, Load, LevelDone, Resume, Stop, procVars
<1>2. \A d \in Cpus \ {c} : at'[d] = at[d] /\ cursor'[d] = cursor[d]
  BY DEF Skip, Run, Load, LevelDone, Resume, Stop, NextSlot, scanVars, TypeOK
<1>3. CASE Skip(c) \/ Run(c) \/ LevelDone(c) \/ Resume(c)
  <2>1. at[c] \notin {"out", "store"} /\ at'[c] \notin {"out", "store"}
    BY <1>3 DEF Skip, Run, LevelDone, Resume, NextSlot, TypeOK
  <2> QED BY <1>1, <1>2, <2>1 DEF Floor, Adjusting
<1>4. CASE Load(c)
  BY <1>1, <1>2, <1>4 DEF Load, scanVars, TypeOK, Floor, Adjusting
<1>5. CASE Stop(c)
  <2>1. cursor[c] # q /\ cursor'[c] = cursor[c]
    BY <1>5 DEF Stop, scanVars, Binding, Waits
  <2> QED BY <1>1, <1>2, <2>1 DEF Floor, Adjusting
<1> QED BY <1>3, <1>4, <1>5

\* The store that was due, or a racing boost, puts it at level 0 or not above its floor.
LEMMA FloorFalls ==
  ASSUME MlfqInv, Lowering, NEW c \in Cpus, NEW q \in Slots, Waits(q), Store(c) \/ Boost(c)
  PROVE  (Floor(q)' = 0 \/ Floor(q)' >= Floor(q)) /\ (Floor(q) = 0 => Floor(q)' = 0)
<1> USE DEF MlfqInv
<1>1. CASE Store(c) /\ cursor[c] = q
  <2>1. Adjusting(q)
    BY <1>1 DEF Store, Adjusting
  <2>2. ~Adjusting(q)'
    <3>1. ASSUME NEW d \in Cpus \ {c}, at[d] \in {"out", "store"} PROVE cursor[d] # q
      BY <1>1, <3>1 DEF Binding, Running, Store
    <3>2. at'[c] \notin {"out", "store"}
      BY <1>1 DEF Store, NextSlot, TypeOK
    <3>3. \A d \in Cpus \ {c} : at'[d] = at[d] /\ cursor'[d] = cursor[d]
      BY <1>1 DEF Store, NextSlot, TypeOK
    <3> QED BY <3>1, <3>2, <3>3 DEF Adjusting
  <2>3. priority'[q] \in {reg[c], priority[q]} /\ priority[q] \in Levels
    BY <1>1 DEF Store, TypeOK
  <2>4. priority'[q] = 0 \/ priority'[q] >= 1
    <3>1. reg[c] \in Nat /\ priority[q] \in Nat
      BY MlfqAssumption DEF TypeOK, Levels, NoStore
    <3> QED BY <2>3, <3>1
  <2>5. CASE NPRIO > 1
    BY <2>1, <2>2, <2>4, <2>5 DEF Floor
  <2>6. CASE ~(NPRIO > 1)
    <3>1. priority[q] = 0 /\ priority'[q] = 0
      <4>1. Levels = {0}
        BY <2>6, MlfqAssumption DEF Levels
      <4>2. reg[c] # 0
        BY <1>1 DEF Lowering, Store, Waits
      <4>3. reg[c] = NoStore
        BY <4>1, <4>2 DEF TypeOK
      <4> QED BY <1>1, <2>3, <4>1, <4>3 DEF Store, TypeOK
    <3> QED BY <2>6, <3>1 DEF Floor
  <2> QED BY <2>5, <2>6
<1>2. CASE Store(c) /\ cursor[c] # q
  <2>1. /\ \A d \in Cpus \ {c} : at'[d] = at[d] /\ cursor'[d] = cursor[d]
        /\ at'[c] \notin {"out", "store"}
    BY <1>2 DEF Store, NextSlot, TypeOK
  <2>2. Adjusting(q)' <=> Adjusting(q)
    BY <1>2, <2>1 DEF Adjusting
  <2>3. priority'[q] = priority[q]
    BY <1>2 DEF Store, TypeOK
  <2>4. Floor(q)' = Floor(q)
    BY <2>2, <2>3 DEF Floor
  <2> QED BY <2>4, FloorType, SMT DEF Levels
<1>3. CASE Boost(c)
  <2>1. Adjusting(q)' <=> Adjusting(q)
    BY <1>3 DEF Boost, Adjusting, TypeOK
  <2>2. priority'[q] \in {0, priority[q]}
    BY <1>3 DEF Boost, TypeOK
  <2>3. Floor(q)' = Floor(q) \/ Floor(q)' = 0
    <3>1. CASE Adjusting(q) /\ NPRIO > 1
      BY <2>1, <3>1 DEF Floor
    <3>2. CASE ~(Adjusting(q) /\ NPRIO > 1)
      BY <2>1, <2>2, <3>2 DEF Floor
    <3> QED BY <3>1, <3>2
  <2> QED BY <2>3, FloorType, SMT DEF Levels
<1> QED BY <1>1, <1>2, <1>3
-----------------------------------------------------------------------------
\* What the CPUs have left only falls while q waits, and a quantum of p costs the CPU
\* that gives it a visit.
LEMMA LeftFalls ==
  ASSUME MlfqInv, Lowering, NEW c \in Cpus, SchedulerStep(c) \/ Resume(c) \/ Stop(c),
         NEW p \in Slots, NEW q \in Slots, Waits(q), NEW d \in Cpus
  PROVE  /\ Left(d, p, q)' <= Left(d, p, q)
         /\ d = c /\ Run(c) /\ cursor[c] = p => Left(d, p, q)' < Left(d, p, q)
<1> USE DEF MlfqInv
<1>1. PICK f \in Levels, g \in Levels : f = Floor(q) /\ g = Floor(q)'
  <2>1. Next
    BY DEF Next
  <2>2. TypeOK'
    BY <2>1, NextInv
  <2> QED BY <2>2, FloorType, NextFloorType
<1>2. g = 0 \/ g >= f
  BY <1>1, FloorKept, FloorFalls, SMT DEF SchedulerStep, Levels
<1>3. f = 0 => g = 0
  BY <1>1, FloorKept, FloorFalls DEF SchedulerStep
<1>4. PICK a \in BOOLEAN, b \in BOOLEAN, e \in BOOLEAN, h \in BOOLEAN :
         a = Passed(d, p) /\ b = Passed(d, p)' /\ e = Passed(d, q) /\ h = Passed(d, q)'
  BY DEF Passed
<1>5. PICK l \in Levels : l = level[d]
  BY DEF TypeOK
<1>6. CASE level'[d] = level[d] /\ (a => b) /\ ((e <=> h) \/ (f # l /\ g = f /\ h))
           /\ (d = c /\ Run(c) /\ cursor[c] = p => ~a /\ b)
  <2>1. Visits(l, g, b, h) <= Visits(l, f, a, e)
        /\ (~a /\ b => Visits(l, g, b, h) < Visits(l, f, a, e))
    BY <1>2, <1>3, <1>6, VisitsFall
  <2>2. Left(d, p, q) = Visits(l, f, a, e) /\ Left(d, p, q)' = Visits(l, g, b, h)
    BY <1>1, <1>4, <1>5, <1>6 DEF Left
  <2> QED BY <1>6, <2>1, <2>2
<1>7. CASE d # c
  BY <1>4, <1>6, <1>7, OthersStay
<1>8. CASE d = c /\ Skip(c)
  <2>1. /\ b <=> a \/ p = cursor[c]
        /\ h <=> e \/ q = cursor[c]
    BY <1>4, <1>8, SkipPasses
  <2>2. q = cursor[c] => f # l /\ g = f
    <3> SUFFICES ASSUME q = cursor[c] PROVE f # l /\ g = f
      OBVIOUS
    <3>1. ~Adjusting(q) /\ priority[q] # level[c]
      BY <1>8 DEF Skip, Unlocked, Holds, Adjusting, Eligible, Waits
    <3> QED BY <1>1, <1>5, <1>8, <3>1, FloorKept DEF Floor
  <2>3. level' = level /\ ~Run(c)
    BY <1>8 DEF Skip, Run
  <2> QED BY <1>6, <2>1, <2>2, <2>3
<1>9. CASE d = c /\ Run(c)
  <2>1. /\ b <=> a \/ p = cursor[c]
        /\ h <=> e \/ q = cursor[c]
        /\ p = cursor[c] => ~a
    BY <1>4, <1>9, RunPasses
  <2>2. q # cursor[c] /\ level' = level
    BY <1>9 DEF Run, scanVars, Waits, TypeOK
  <2> QED BY <1>6, <2>1, <2>2
<1>10. CASE d = c /\ (Store(c) \/ Boost(c) \/ Load(c) \/ Resume(c) \/ Stop(c))
  <2>1. (a <=> b) /\ (e <=> h)
    BY <1>4, <1>10, StorePasses, BoostPasses, OnCpuPasses
  <2>2. level' = level /\ ~Run(c)
    BY <1>10 DEF Store, Boost, Load, Resume, Stop, Run, scanVars
  <2> QED BY <1>6, <2>1, <2>2
<1>11. CASE d = c /\ LevelDone(c)
  <2>1. a /\ e /\ ~Run(c)
    BY <1>4, <1>11 DEF Passed, LevelDone, Run
  <2>2. ~b /\ ~h
    <3>1. at'[c] \in {"scan", "boost"} /\ cursor'[c] = 1
      BY <1>11 DEF LevelDone, TypeOK
    <3>2. ~(1 > p) /\ ~(1 > q)
      BY MlfqAssumption DEF Slots
    <3> QED BY <1>4, <1>11, <3>1, <3>2 DEF Passed, Running
  <2>3. level'[c] = (l + 1) % NPRIO
    BY <1>5, <1>11 DEF LevelDone, TypeOK
  <2>4. g = f
    BY <1>1, <1>11, FloorKept
  <2>5. Left(d, p, q) = Visits(l, f, TRUE, TRUE)
    BY <1>1, <1>4, <1>5, <2>1 DEF Left
  <2>6. Left(d, p, q)' = Visits((l + 1) % NPRIO, f, FALSE, FALSE)
    BY <1>1, <1>4, <1>11, <2>2, <2>3, <2>4 DEF Left
  <2>7. Visits(l, f, TRUE, TRUE) \in Nat
    BY MlfqAssumption, SMT DEF Visits, Levels
  <2>8. Left(d, p, q)' = Left(d, p, q) /\ Left(d, p, q) \in Nat
    BY <2>5, <2>6, <2>7, VisitsTurn
  <2> QED BY <2>1, <2>8
<1> QED BY <1>7, <1>8, <1>9, <1>10, <1>11 DEF SchedulerStep

LEMMA SpentType ==
  ASSUME NEW p, NEW q
  PROVE  /\ IsFiniteSet(Spent(p, q)) /\ Cardinality(Spent(p, q)) \in Nat
         /\ Cardinality(Spent(p, q)) <= Cardinality(Cpus) * (2 * NPRIO)
<1>1. /\ IsFiniteSet(1..2 * NPRIO) /\ Cardinality(1..2 * NPRIO) = 2 * NPRIO
  <2>1. PICK n \in Nat : n = 2 * NPRIO
    BY MlfqAssumption
  <2>2. IsFiniteSet(1..n) /\ Cardinality(1..n) = IF 1 > n THEN 0 ELSE n - 1 + 1
    BY FS_Interval
  <2> QED BY <2>1, <2>2
<1>2. /\ IsFiniteSet(Cpus \X (1..2 * NPRIO))
      /\ Cardinality(Cpus \X (1..2 * NPRIO)) = Cardinality(Cpus) * (2 * NPRIO)
  BY <1>1, BypassAssumption, FS_Product
<1>3. Spent(p, q) \subseteq Cpus \X (1..2 * NPRIO)
  BY DEF Spent
<1> QED BY <1>2, <1>3, FS_Subset, FS_CardinalityType

LEMMA SpentGrows ==
  ASSUME MlfqInv, Lowering, [Next]_vars, NEW p \in Slots, NEW q \in Slots, p # q, Waits(q)
  PROVE  /\ Spent(p, q) \subseteq Spent(p, q)'
         /\ Dispatched(p) => \E x \in Spent(p, q)' : x \notin Spent(p, q)
<1> USE DEF MlfqInv
<1>1. TypeOK'
  BY NextInv
<1>2. ASSUME \A d \in Cpus : Left(d, p, q)' <= Left(d, p, q)
      PROVE  Spent(p, q) \subseteq Spent(p, q)'
  <2> SUFFICES ASSUME NEW x \in Spent(p, q) PROVE x \in Spent(p, q)'
    OBVIOUS
  <2>1. PICK d \in Cpus, n \in 1..2 * NPRIO : x = <<d, n>>
    BY DEF Spent
  <2>2. n > Left(d, p, q)
    BY <2>1 DEF Spent
  <2>3. Left(d, p, q) \in Nat /\ Left(d, p, q)' \in Nat /\ n \in Nat
    BY <1>1, <2>1, LeftType, NextLeftType, MlfqAssumption
  <2>4. n > Left(d, p, q)'
    BY <1>2, <2>2, <2>3
  <2> QED BY <2>1, <2>4 DEF Spent
<1>3. CASE UNCHANGED vars
  <2>1. \A d \in Cpus : Left(d, p, q)' = Left(d, p, q)
    BY <1>3 DEF vars, procVars, scanVars, Left, Floor, Adjusting, Passed, Running
  <2>2. \A d \in Cpus : Left(d, p, q) \in Int
    BY LeftType, MlfqAssumption
  <2>3. \A d \in Cpus : Left(d, p, q)' <= Left(d, p, q)
    BY <2>1, <2>2
  <2>4. ~Dispatched(p)
    BY <1>3 DEF vars, procVars, Dispatched
  <2> QED BY <1>2, <2>3, <2>4
<1>4. ASSUME NEW r \in Slots, Create(r) \/ Ready(r) \/ Wake(r) \/ Freeproc(r)
      PROVE  /\ Spent(p, q) \subseteq Spent(p, q)'
             /\ Dispatched(p) => \E x \in Spent(p, q)' : x \notin Spent(p, q)
  <2>1. UNCHANGED <<at, scanVars, reg>> /\ priority'[q] = priority[q]
    BY <1>4 DEF Create, Ready, Wake, Freeproc, Change, TypeOK, Waits
  <2>2. \A d \in Cpus : Left(d, p, q)' = Left(d, p, q)
    BY <2>1 DEF scanVars, Left, Floor, Adjusting, Passed, Running
  <2>3. \A d \in Cpus : Left(d, p, q) \in Int
    BY LeftType, MlfqAssumption
  <2>4. \A d \in Cpus : Left(d, p, q)' <= Left(d, p, q)
    BY <2>2, <2>3
  <2>5. ~Dispatched(p)
    BY <1>4 DEF Create, Ready, Wake, Freeproc, Change, TypeOK, Dispatched
  <2> QED BY <1>2, <2>4, <2>5
<1>5. ASSUME NEW c \in Cpus, SchedulerStep(c) \/ Resume(c) \/ Stop(c)
      PROVE  /\ Spent(p, q) \subseteq Spent(p, q)'
             /\ Dispatched(p) => \E x \in Spent(p, q)' : x \notin Spent(p, q)
  <2>1. Spent(p, q) \subseteq Spent(p, q)'
    BY <1>2, <1>5, LeftFalls
  <2>2. ASSUME Dispatched(p) PROVE \E x \in Spent(p, q)' : x \notin Spent(p, q)
    <3>1. Run(c) /\ cursor[c] = p
      BY <1>5, <2>2 DEF SchedulerStep, Skip, Run, Load, Store, LevelDone, Boost, Resume, Stop,
                        procVars, Dispatched, TypeOK
    <3>2. Left(c, p, q)' < Left(c, p, q)
      BY <1>5, <3>1, LeftFalls
    <3>3. PICK n \in 1..2 * NPRIO : n = Left(c, p, q)
      <4>1. Left(c, p, q) \in 0..2 * NPRIO /\ Left(c, p, q)' \in 0..2 * NPRIO
        BY <1>1, LeftType, NextLeftType
      <4> QED BY <3>2, <4>1, MlfqAssumption
    <3>4. <<c, n>> \in Spent(p, q)' /\ <<c, n>> \notin Spent(p, q)
      BY <3>2, <3>3, MlfqAssumption DEF Spent
    <3> QED BY <3>4
  <2> QED BY <2>1, <2>2
<1> QED BY <1>3, <1>4, <1>5 DEF Next

LEMMA ChargedNext ==
  ASSUME BypassInv, [BypassNext]_<<vars, bypass>>
  PROVE  Charged'
<1> USE DEF BypassInv, Charged
<1>1. CASE UNCHANGED <<vars, bypass>>
  <2>1. \A c, p, q : Left(c, p, q)' = Left(c, p, q)
    BY <1>1 DEF vars, procVars, scanVars, Left, Floor, Adjusting, Passed, Running
  <2>2. \A p, q : Spent(p, q)' = Spent(p, q)
    BY <2>1 DEF Spent
  <2> QED BY <1>1, <2>2
<1>2. CASE BypassNext
  <2>1. /\ [Next]_vars
        /\ bypass' = [q \in Slots |-> [p \in Slots |-> Count(q, p)]]
    BY <1>2 DEF BypassNext
  <2>2. ASSUME NEW p \in Slots, NEW q \in Slots
        PROVE  /\ Count(q, p) \in Nat
               /\ Count(q, p) <= IF p = q THEN 0 ELSE Cardinality(Spent(p, q)')
    <3> DEFINE S == Spent(p, q)
               T == Spent(p, q)'
    <3>1. bypass[q][p] \in Nat /\ IsFiniteSet(S) /\ Cardinality(S) \in Nat
      BY SpentType
    <3>2. IsFiniteSet(T) /\ Cardinality(T) \in Nat
      <4>1. T \subseteq Cpus \X (1..2 * NPRIO)
        BY DEF Spent
      <4>2. PICK n \in Nat : n = 2 * NPRIO
        BY MlfqAssumption
      <4>3. IsFiniteSet(1..n)
        BY FS_Interval
      <4>4. IsFiniteSet(Cpus \X (1..2 * NPRIO))
        BY <4>2, <4>3, BypassAssumption, FS_Product
      <4> QED BY <4>1, <4>4, FS_Subset, FS_CardinalityType
    <3>3. CASE ~Waits(q)
      BY <3>2, <3>3 DEF Count
    <3>4. CASE Waits(q) /\ p = q
      BY <3>1, <3>4 DEF Count, Waits, Dispatched
    <3>5. CASE Waits(q) /\ p # q /\ ~Dispatched(p)
      <4>1. S \subseteq T
        BY <2>1, <3>5, SpentGrows
      <4>2. Cardinality(S) <= Cardinality(T)
        BY <3>2, <4>1, FS_Subset
      <4> QED BY <3>1, <3>2, <3>5, <4>2, SMT DEF Count
    <3>6. CASE Waits(q) /\ p # q /\ Dispatched(p)
      <4>1. PICK x \in T : x \notin S
        BY <2>1, <3>6, SpentGrows
      <4>2. S \union {x} \subseteq T
        BY <2>1, <3>6, <4>1, SpentGrows
      <4>3. Cardinality(S \union {x}) = Cardinality(S) + 1
        BY <3>1, <4>1, FS_AddElement
      <4>4. Cardinality(S) + 1 <= Cardinality(T)
        BY <3>2, <4>2, <4>3, FS_Subset
      <4> QED BY <3>1, <3>2, <3>6, <4>4, SMT DEF Count
    <3> QED BY <3>3, <3>4, <3>5, <3>6
  <2>3. bypass' \in [Slots -> [Slots -> Nat]]
    BY <2>1, <2>2
  <2>4. \A p, q \in Slots : bypass'[q][p] = Count(q, p)
    BY <2>1
  <2> QED BY <2>2, <2>3, <2>4
<1> QED BY <1>1, <1>2

LEMMA BypassInvariance == BypassSpec => []BypassInv
<1>1. BypassInit => BypassInv
  <2> SUFFICES ASSUME BypassInit PROVE BypassInv
    OBVIOUS
  <2>1. MlfqInv /\ Lowering
    BY InitInv DEF BypassInit, Init, Lowering
  <2>2. \A p, q \in Slots : bypass[q][p] = 0 /\ Cardinality(Spent(p, q)) \in Nat
    BY SpentType DEF BypassInit
  <2>3. bypass \in [Slots -> [Slots -> Nat]]
    BY DEF BypassInit
  <2> QED BY <2>1, <2>2, <2>3, SMT DEF BypassInv, Charged
<1>2. BypassInv /\ [BypassNext]_<<vars, bypass>> => BypassInv'
  <2>1. [BypassNext]_<<vars, bypass>> => [Next]_vars
    BY DEF BypassNext
  <2> QED BY <2>1, NextInv, LoweringNext, ChargedNext DEF BypassInv
<1> QED BY <1>1, <1>2, PTL DEF BypassSpec

\* While a process waits, no other one gets more than two quanta for each level and each
\* CPU, whatever the boosts do at the wrong moment and whatever slot or level either
\* process is in: each CPU misses the one that waits in one round over the levels at
\* most (proc.c:455-494).
THEOREM FewQuanta ==
  ASSUME Cardinality(Cpus) * (2 * NPRIO) <= Bound
  PROVE  BypassSpec => []BoundedBypass
<1>1. BypassInv => BoundedBypass
  <2> SUFFICES ASSUME BypassInv, NEW p \in Slots, NEW q \in Slots
               PROVE  bypass[q][p] <= Bound
    BY DEF BoundedBypass
  <2>1. bypass[q][p] \in Nat /\ bypass[q][p] <= IF p = q THEN 0 ELSE Cardinality(Spent(p, q))
    BY DEF BypassInv, Charged
  <2>2. PICK n \in Nat : n = Cardinality(Cpus) * (2 * NPRIO)
    BY BypassAssumption, MlfqAssumption, FS_CardinalityType
  <2>3. Cardinality(Spent(p, q)) \in Nat /\ Cardinality(Spent(p, q)) <= n /\ n <= Bound
    BY <2>2, SpentType
  <2> QED BY <2>1, <2>3, BypassAssumption, SMT
<1> QED BY <1>1, BypassInvariance, PTL
=============================================================================
