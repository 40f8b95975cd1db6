------------------------------ MODULE DiskProofs ------------------------------
(***************************************************************************)
(* Proofs about the two sides of the disk: Log for every set of processes, *)
(* every number of blocks and every size of the log that LogAssumption     *)
(* allows, and BlockIO for every number of processes, blocks, buffers and  *)
(* descriptors and all programs that unpin what they pin.                  *)
(*                                                                         *)
(* Log.  begin_op() tests len(lh) + (outstanding + 1) * MAXOPBLOCKS <=     *)
(* LOGSIZE once and never again, while the calls it let in go on writing.  *)
(* What stays true of them is Reservation: each block a call has written   *)
(* uses up one of the places begin_op() reserved for that call.  Pairs     *)
(* counts these: what a call wrote and found in the log already is         *)
(* absorbed, and only makes the inequality less tight.                     *)
(*                                                                         *)
(* BlockIO.  IOInv: the sleep lock of a buffer belongs to one of its users;*)
(* refcnt counts the users and those who have yet to unpin the block       *)
(* (RefsCounted); a block whose newest data is not on the disk is owed an  *)
(* installation by somebody, and what is owed is in the cache (Stored); the*)
(* descriptors of a request are its own until the process that made it     *)
(* takes it back (Chains), and until the device has served it the request  *)
(* says what the buffer says (Requests).                                   *)
(***************************************************************************)
EXTENDS Log, BlockIO, FiniteSetTheorems, FunctionTheorems, SequenceTheorems,
        WellFoundedInduction, TLAPS

CommitPcs  == {"write_log", "write_head", "install", "clear", "finish"}
RecoverPcs == {"r_head", "r_install", "r_clear"}
Pcs == {"down", "user", "asleep", "woken", "op"} \union CommitPcs \union RecoverPcs

\* The calls between begin_op() and end_op(), and the blocks each has written.
Ops   == {p \in Procs : pc[p] = "op"}
Pairs == {x \in Procs \X Blocks : x[2] \in wrote[x[1]]}

Types ==
  /\ pc          \in [Procs -> Pcs]
  /\ wrote       \in [Procs -> SUBSET Blocks]
  /\ outstanding \in Nat
  /\ committing  \in BOOLEAN
  /\ lh          \in Seq(Blocks)
  /\ head        \in Seq(Blocks)

\* One process at most commits, after every call has ended.
Committer ==
  /\ committing => outstanding = 0
  /\ \A p \in Procs : pc[p] \in CommitPcs => committing
  /\ \A p, q \in Procs : pc[p] \in CommitPcs /\ pc[q] \in CommitPcs => p = q

\* Only the first process recovers, and the others wait for it.
Recovery ==
  /\ \A p \in Procs : pc[p] \in RecoverPcs => p = Boot
  /\ Booting => \A p \in Procs : p # Boot => pc[p] = "down"

Counted == IsFiniteSet(Ops) /\ outstanding = Cardinality(Ops)

Written == \A p \in Procs :
  /\ IsFiniteSet(wrote[p]) /\ Cardinality(wrote[p]) <= OpBlocks
  /\ pc[p] # "op" => wrote[p] = {}
  /\ wrote[p] \subseteq Range(lh)

Reservation ==
  outstanding > 0 =>
    Len(lh) + outstanding * MAXOPBLOCKS <= LOGSIZE + Cardinality(Pairs)

LogInv == /\ Types /\ Committer /\ Recovery /\ Counted /\ Written /\ Reservation
          /\ NoLostWakeup

-----------------------------------------------------------------------------
(* Arithmetic and counting.                                                *)

LEMMA Sizes ==
  /\ MAXOPBLOCKS \in Nat /\ LOGSIZE \in Nat /\ OpBlocks \in Nat
  /\ NLOG = LOGSIZE /\ OpBlocks + 2 <= MAXOPBLOCKS
BY LogAssumption

\* Each of n calls leaves two of its places free.
LEMMA TwoSpare ==
  ASSUME NEW n \in Nat, n > 0
  PROVE  n * OpBlocks + 2 <= n * MAXOPBLOCKS
<1>1. PICK k \in Nat : MAXOPBLOCKS = OpBlocks + 2 + k
  <2>1. MAXOPBLOCKS - (OpBlocks + 2) \in Nat
    BY Sizes, SMT
  <2> QED BY <2>1, Sizes, SMT
<1>2. n * MAXOPBLOCKS = n * OpBlocks + n * 2 + n * k
  BY <1>1, Sizes, SMT
<1>3. n * k \in Nat /\ n * OpBlocks \in Nat
  BY Sizes, SMT
<1> QED BY <1>2, <1>3, SMT

LEMMA RangeAppend ==
  ASSUME NEW s \in Seq(Blocks), NEW b \in Blocks
  PROVE  /\ Append(s, b) \in Seq(Blocks)
         /\ Len(Append(s, b)) = Len(s) + 1
         /\ Range(Append(s, b)) = Range(s) \union {b}
<1>1. Append(s, b) \in Seq(Blocks) /\ Len(Append(s, b)) = Len(s) + 1
  BY AppendProperties
<1>2. /\ \A i \in 1..Len(s) : Append(s, b)[i] = s[i]
      /\ Append(s, b)[Len(s) + 1] = b
  BY AppendProperties
<1>3. /\ DOMAIN s = 1..Len(s) /\ Len(s) \in Nat
      /\ DOMAIN Append(s, b) = 1..(Len(s) + 1)
  BY <1>1, LenProperties
<1>4. \A i \in 1..(Len(s) + 1) : i \in 1..Len(s) \/ i = Len(s) + 1
  BY <1>3, SMT
<1>5. 1..Len(s) \subseteq 1..(Len(s) + 1) /\ Len(s) + 1 \in 1..(Len(s) + 1)
  BY <1>3, SMT
<1> QED BY <1>1, <1>2, <1>3, <1>4, <1>5 DEF Range

\* A call has written at most OpBlocks blocks: number them.
LEMMA FewPairs ==
  ASSUME Types, Counted, Written
  PROVE  /\ IsFiniteSet(Pairs) /\ Cardinality(Pairs) \in Nat
         /\ Cardinality(Pairs) <= outstanding * OpBlocks
<1> DEFINE Slots      == 1..OpBlocks
           Number(p)  == CHOOSE f \in Injection(wrote[p], Slots) : TRUE
           Place      == [x \in Pairs |-> <<x[1], Number(x[1])[x[2]]>>]
<1>1. IsFiniteSet(Slots) /\ Cardinality(Slots) = OpBlocks
  BY Sizes, FS_Interval
<1>2. ASSUME NEW p \in Procs PROVE Number(p) \in Injection(wrote[p], Slots)
  <2>1. PICK g \in Bijection(1..Cardinality(wrote[p]), wrote[p]) : TRUE
    BY FS_CardinalityType DEF Written, ExistsBijection
  <2>2. ExistsBijection(wrote[p], 1..Cardinality(wrote[p]))
    BY <2>1, Fun_ExistsBijSymmetric DEF ExistsBijection
  <2>3. PICK h \in Injection(wrote[p], 1..Cardinality(wrote[p])) : TRUE
    BY <2>2 DEF ExistsBijection, Bijection
  <2>4. 1..Cardinality(wrote[p]) \subseteq Slots
    BY Sizes, FS_CardinalityType, SMT DEF Written
  <2>5. h \in Injection(wrote[p], Slots)
    BY <2>3, <2>4 DEF Injection, IsInjective
  <2> QED BY <2>5
<1>3. ASSUME NEW x \in Pairs
      PROVE  /\ x[1] \in Ops /\ x[2] \in wrote[x[1]]
             /\ x = <<x[1], x[2]>>
             /\ Number(x[1])[x[2]] \in Slots
  <2>1. x[1] \in Procs /\ x[2] \in wrote[x[1]] /\ x = <<x[1], x[2]>>
    BY DEF Pairs
  <2>2. x[1] \in Ops
    BY <2>1 DEF Ops, Written
  <2>3. Number(x[1]) \in [wrote[x[1]] -> Slots]
    BY <1>2, <2>1 DEF Injection
  <2> QED BY <2>1, <2>2, <2>3
<1>4. Place \in [Pairs -> Ops \X Slots]
  BY <1>3
<1>5. ASSUME NEW x \in Pairs, NEW y \in Pairs, Place[x] = Place[y]
      PROVE  x = y
  <2> HIDE DEF Number
  <2>1. <<x[1], Number(x[1])[x[2]]>> = <<y[1], Number(y[1])[y[2]]>>
    BY <1>5
  <2>2. x[1] = y[1]
    BY <2>1
  <2>3. Number(x[1])[x[2]] = Number(x[1])[y[2]]
    BY <2>1, <2>2
  <2>4. x[1] \in Procs /\ x[2] \in wrote[x[1]] /\ y[2] \in wrote[x[1]]
    BY <1>3, <2>2 DEF Ops
  <2>5. x[2] = y[2]
    <3>1. Number(x[1]) \in Injection(wrote[x[1]], Slots)
      BY <1>2, <2>4
    <3>2. \A a, b \in wrote[x[1]] : Number(x[1])[a] = Number(x[1])[b] => a = b
      BY <3>1, Fun_InjectionProperties
    <3> QED BY <2>3, <2>4, <3>2
  <2> QED BY <1>3, <2>2, <2>5
<1>6. Place \in Injection(Pairs, Ops \X Slots)
  BY <1>4, <1>5 DEF Injection, IsInjective
<1>7. /\ IsFiniteSet(Ops \X Slots)
      /\ Cardinality(Ops \X Slots) = outstanding * OpBlocks
  BY <1>1, FS_Product DEF Counted
<1>8. IsFiniteSet(Pairs) /\ Cardinality(Pairs) <= outstanding * OpBlocks
  BY <1>6, <1>7, FS_Injection
<1> QED BY <1>8, FS_CardinalityType

-----------------------------------------------------------------------------
(* The initial states, and the states after a power failure.               *)

\* Nobody has made a call since the boot.
AtBoot ==
  /\ head \in Seq(Blocks) /\ outstanding = 0 /\ committing = FALSE /\ lh = <<>>
  /\ pc = BootPc /\ wrote = [p \in Procs |-> {}]

LEMMA BootInv == AtBoot => LogInv
<1> SUFFICES ASSUME AtBoot PROVE LogInv
  OBVIOUS
<1> USE Sizes, LogAssumption DEF AtBoot, BootPc
<1>1. Types
  BY EmptySeq DEF Types, Pcs, RecoverPcs
<1>2. Committer /\ Recovery /\ NoLostWakeup /\ Reservation
  BY DEF Committer, Recovery, NoLostWakeup, Reservation, CommitPcs, RecoverPcs, Booting
<1>3. Ops = {}
  BY DEF Ops
<1>4. Counted
  BY <1>3, FS_EmptySet DEF Counted
<1>5. Written
  BY FS_EmptySet DEF Written
<1> QED BY <1>1, <1>2, <1>4, <1>5 DEF LogInv

LEMMA InitInv == Init => LogInv
BY BootInv, EmptySeq DEF Init, AtBoot

LEMMA CrashInv == LogInv /\ Crash => LogInv'
<1>1. LogInv /\ Crash => AtBoot'
  BY DEF LogInv, Types, Crash, diskVars, AtBoot, BootPc
<1>2. AtBoot' => LogInv'
  BY BootInv, PTL
<1> QED BY <1>1, <1>2

-----------------------------------------------------------------------------
(* The calls.                                                              *)

\* Only end_op() and begin_op() change who is in a call.
LEMMA SameOps ==
  ASSUME Counted, Ops' = Ops, UNCHANGED <<outstanding, wrote>>
  PROVE  Counted' /\ Pairs' = Pairs
BY DEF Counted, Pairs

\* While a call is under way nobody commits or recovers.
LEMMA CallFacts ==
  ASSUME LogInv, NEW p \in Procs, pc[p] = "op"
  PROVE  /\ outstanding > 0 /\ ~committing
         /\ \A q \in Procs : pc[q] \notin CommitPcs \union RecoverPcs
<1>1. p \in Ops
  BY DEF Ops
<1>2. outstanding > 0
  BY <1>1, FS_EmptySet DEF LogInv, Types, Counted
<1>3. ~committing /\ \A q \in Procs : pc[q] \notin CommitPcs
  BY <1>2 DEF LogInv, Committer, Types
<1>4. ASSUME NEW q \in Procs, pc[q] \in RecoverPcs
      PROVE  FALSE
  BY <1>4 DEF LogInv, Recovery, Booting, RecoverPcs
<1> QED BY <1>2, <1>3, <1>4

\* begin_op() lets a call in when there is room for all it may write.
LEMMA BeginInv ==
  ASSUME LogInv, NEW p \in Procs, begin_op(p)
  PROVE  LogInv'
<1> DEFINE Sleeps == committing \/ Len(lh) + (outstanding + 1) * MAXOPBLOCKS > LOGSIZE
<1> USE DEF LogInv, begin_op, Goto, diskVars, cacheVars
<1>a. p \notin Ops
  BY DEF Ops
<1>b. ~Booting /\ pc[p] \notin CommitPcs \union RecoverPcs \union {"down"}
  BY DEF Recovery, Booting, CommitPcs, RecoverPcs
<1>1. Types'
  BY DEF Types, Pcs
<1>2. CASE Sleeps
  <2>1. pc' = [pc EXCEPT ![p] = "asleep"] /\ outstanding' = outstanding
    BY <1>2
  <2>2. Ops' = Ops
    BY <1>a, <2>1 DEF Ops, Types
  <2>3. Counted' /\ Reservation'
    BY <2>1, <2>2, SameOps DEF Reservation
  <2>4. Committer'
    BY <2>1 DEF Types, Committer, CommitPcs
  <2>5. Recovery'
    BY <1>b, <2>1 DEF Types, Recovery, RecoverPcs, Booting
  <2>6. Written'
    BY <2>1, <1>a DEF Types, Written, Ops
  <2>7. NoLostWakeup'
    BY <1>2, <2>1 DEF Types, NoLostWakeup
  <2> QED BY <1>1, <2>3, <2>4, <2>5, <2>6, <2>7
<1>3. CASE ~Sleeps
  <2>1. pc' = [pc EXCEPT ![p] = "op"] /\ outstanding' = outstanding + 1 /\ ~committing
    BY <1>3
  <2>2. Ops' = Ops \union {p}
    BY <2>1 DEF Ops, Types
  <2>3. Counted'
    BY <1>a, <2>1, <2>2, FS_AddElement DEF Counted
  <2>4. Types' /\ Counted' /\ Written'
    BY <1>1, <2>1, <2>3, <1>a DEF Types, Written, Ops
  <2>5. Pairs' = Pairs
    BY DEF Pairs
  <2>6. Reservation'
    <3>1. Cardinality(Pairs) \in Nat
      BY FewPairs
    <3>2. Len(lh) + (outstanding + 1) * MAXOPBLOCKS <= LOGSIZE
      <4>1. Len(lh) + (outstanding + 1) * MAXOPBLOCKS \in Int
        BY Sizes, LenProperties DEF Types
      <4> QED BY <1>3, <4>1, Sizes
    <3> HIDE DEF LogInv, begin_op
    <3>3. Len(lh)' = Len(lh) /\ Len(lh) \in Nat /\ outstanding \in Nat
      BY LenProperties DEF LogInv, begin_op, Types, diskVars, cacheVars
    <3> QED BY <2>1, <2>5, <3>1, <3>2, <3>3, Sizes DEF Reservation
  <2>7. Committer'
    BY <2>1 DEF Types, Committer, CommitPcs
  <2>8. Recovery'
    BY <1>b, <2>1 DEF Types, Recovery, RecoverPcs, Booting
  <2>9. NoLostWakeup'
    <3>1. \A q \in Procs : pc'[q] = "asleep" => pc[q] = "asleep"
      BY <2>1 DEF Types
    <3>2. \A q \in Procs : pc[q] # "asleep"
      BY <1>3 DEF NoLostWakeup
    <3> QED BY <3>1, <3>2 DEF NoLostWakeup
  <2> QED BY <2>4, <2>6, <2>7, <2>8, <2>9
<1> QED BY <1>2, <1>3

\* A block that is not in the log yet is new to its call too: it fills one of the
\* places reserved for that call.
LEMMA WriteInv ==
  ASSUME LogInv, NEW p \in Procs, NEW b \in Blocks, NEW v, log_write(p, b, v)
  PROVE  LogInv'
<1> USE DEF LogInv, log_write
<1>1. /\ lh' \in Seq(Blocks) /\ Range(lh') = Range(lh) \union {b}
      /\ Len(lh') = IF b \in Range(lh) THEN Len(lh) ELSE Len(lh) + 1
  <2>1. CASE b \in Range(lh)
    BY <2>1, LenProperties DEF Types
  <2>2. CASE b \notin Range(lh)
    <3>1. lh' = Append(lh, b) /\ lh \in Seq(Blocks)
      BY <2>2 DEF Types
    <3>2. Range(lh') = Range(lh) \union {b} /\ Len(lh') = Len(lh) + 1 /\ lh' \in Seq(Blocks)
      BY <3>1, RangeAppend
    <3> QED BY <2>2, <3>2
  <2> QED BY <2>1, <2>2
<1>2. Types'
  BY <1>1 DEF Types, diskVars
<1>3. Ops' = Ops
  BY DEF Ops
<1>4. Committer' /\ Recovery' /\ Counted'
  BY <1>3 DEF Committer, Recovery, Counted, Booting
<1>5. Written'
  <2>1. IsFiniteSet(wrote[p] \union {b})
    BY FS_AddElement DEF Written
  <2> QED BY <1>1, <2>1 DEF Types, Written
<1>6. Pairs' = Pairs \union {<<p, b>>}
  <2>1. ASSUME NEW q \in Procs, NEW d \in Blocks
        PROVE  d \in wrote'[q] <=> d \in wrote[q] \/ <<q, d>> = <<p, b>>
    BY DEF Types
  <2> QED BY <2>1 DEF Pairs
<1>7. Reservation'
  <2>1. b \notin Range(lh) => <<p, b>> \notin Pairs
    BY DEF Pairs, Written
  <2>2. IsFiniteSet(Pairs) /\ Cardinality(Pairs) \in Nat
    BY FewPairs
  <2>3. /\ Cardinality(Pairs') = IF <<p, b>> \in Pairs THEN Cardinality(Pairs)
                                                       ELSE Cardinality(Pairs) + 1
    BY <1>6, <2>2, FS_AddElement
  <2>5. /\ Len(lh) \in Nat /\ outstanding \in Nat
        /\ outstanding * MAXOPBLOCKS \in Nat /\ outstanding' = outstanding
    BY LenProperties, Sizes, SMT DEF Types
  <2>4. Len(lh) + outstanding * MAXOPBLOCKS <= LOGSIZE + Cardinality(Pairs)
    BY CallFacts DEF Reservation
  <2>6. Len(lh') + Cardinality(Pairs) <= Len(lh) + Cardinality(Pairs')
    BY <1>1, <2>1, <2>2, <2>3, <2>5
  <2>7. Len(lh') \in Nat /\ Cardinality(Pairs') \in Nat
    BY <1>1, <2>2, <2>3, <2>5
  <2>8. Len(lh') + outstanding' * MAXOPBLOCKS <= LOGSIZE + Cardinality(Pairs')
    <3> HIDE DEF LogInv, log_write
    <3> QED BY <2>2, <2>4, <2>5, <2>6, <2>7, Sizes
  <2> QED BY <2>8 DEF Reservation
<1>8. NoLostWakeup'
  <2>1. /\ Len(lh) \in Nat /\ (outstanding + 1) * MAXOPBLOCKS \in Nat
        /\ outstanding' = outstanding
    BY LenProperties, Sizes DEF Types
  <2>2. UNCHANGED <<pc, committing>>
    OBVIOUS
  <2>3. NoLostWakeup
    OBVIOUS
  <2> HIDE DEF LogInv, log_write
  <2> QED BY <1>1, <2>1, <2>2, <2>3, Sizes DEF NoLostWakeup
<1> QED BY <1>2, <1>4, <1>5, <1>7, <1>8

\* end_op() gives back what its call reserved, more than the call wrote.
LEMMA EndInv ==
  ASSUME LogInv, NEW p \in Procs, end_op(p)
  PROVE  LogInv'
<1> USE DEF LogInv, end_op, diskVars, cacheVars
<1>1. /\ outstanding > 0 /\ ~committing
      /\ \A q \in Procs : pc[q] \notin CommitPcs \union RecoverPcs
  BY CallFacts
<1>2. /\ pc' \in [Procs -> Pcs] /\ pc'[p] \in CommitPcs \union {"user"}
      /\ \A q \in Procs : q # p =>
           pc'[q] = pc[q] \/ (pc[q] = "asleep" /\ pc'[q] = "woken")
  <2>1. CASE outstanding = 1
    BY <2>1 DEF Types, Pcs, CommitPcs, Goto, CommitPoint
  <2>2. CASE outstanding # 1
    BY <2>2 DEF Types, Pcs, CommitPcs, WakeAll
  <2> QED BY <2>1, <2>2
<1>3. Types'
  <2>1. outstanding \in Nat /\ outstanding' = outstanding - 1 /\ outstanding > 0
    BY <1>1 DEF Types
  <2>2. outstanding' \in Nat
    BY <2>1, SMT
  <2>3. committing \in BOOLEAN /\ (committing' = TRUE \/ committing' = committing)
    BY DEF Types
  <2>4. wrote' \in [Procs -> SUBSET Blocks] /\ lh' = lh /\ head' = head
    BY DEF Types
  <2> QED BY <1>2, <2>2, <2>3, <2>4 DEF Types
<1>4. Ops' = Ops \ {p} /\ p \in Ops
  BY <1>2 DEF Ops, CommitPcs
<1>5. Counted'
  BY <1>4, FS_RemoveElement DEF Counted
<1>6. Committer'
  <2>1. CASE outstanding = 1
    BY <1>1, <1>2, <2>1 DEF Types, Committer, CommitPcs
  <2>2. CASE outstanding # 1
    BY <1>1, <1>2, <2>2 DEF Types, Committer, CommitPcs, WakeAll
  <2> QED BY <2>1, <2>2
<1>7. Recovery'
  BY <1>1, <1>2, LogAssumption DEF Recovery, RecoverPcs, Booting, CommitPcs
<1>8. Written'
  BY <1>2, FS_EmptySet, Sizes DEF Types, Written
<1>9. NoLostWakeup'
  BY <1>1, <1>2 DEF NoLostWakeup, Types, Goto, WakeAll, CommitPcs
<1>10. Reservation'
  <2>1. Pairs' = Pairs \ ({p} \X wrote[p])
    <3>1. ASSUME NEW q \in Procs, NEW d \in Blocks
          PROVE  d \in wrote'[q] <=> d \in wrote[q] /\ q # p
      BY DEF Types
    <3> QED BY <3>1 DEF Pairs
  <2>2. {p} \X wrote[p] \subseteq Pairs
    BY DEF Pairs, Types
  <2>3. /\ IsFiniteSet({p} \X wrote[p])
        /\ Cardinality({p} \X wrote[p]) = Cardinality(wrote[p])
    <3>1. IsFiniteSet({p}) /\ Cardinality({p}) = 1
      BY FS_Singleton
    <3>2. IsFiniteSet(wrote[p]) /\ Cardinality(wrote[p]) \in Nat
      BY FS_CardinalityType DEF Written
    <3>3. /\ IsFiniteSet({p} \X wrote[p])
          /\ Cardinality({p} \X wrote[p]) = 1 * Cardinality(wrote[p])
      BY <3>1, <3>2, FS_Product
    <3> QED BY <3>2, <3>3
  <2>4. Pairs \cap ({p} \X wrote[p]) = {p} \X wrote[p]
    BY <2>2
  <2>5. Cardinality(Pairs') = Cardinality(Pairs) - Cardinality(wrote[p])
    <3>1. IsFiniteSet(Pairs)
      BY FewPairs
    <3>2. Cardinality(Pairs \ ({p} \X wrote[p]))
            = Cardinality(Pairs) - Cardinality(Pairs \cap ({p} \X wrote[p]))
      BY <3>1, FS_Difference
    <3> QED BY <2>1, <2>3, <2>4, <3>2
  <2>6. Cardinality(wrote[p]) \in Nat /\ Cardinality(wrote[p]) <= OpBlocks
    BY FS_CardinalityType DEF Written
  <2>7. Cardinality(Pairs) \in Nat /\ Len(lh) \in Nat
    BY FewPairs, LenProperties DEF Types
  <2>8. Len(lh) + outstanding * MAXOPBLOCKS <= LOGSIZE + Cardinality(Pairs)
    BY <1>1 DEF Reservation
  <2>9. outstanding \in Nat /\ outstanding' = outstanding - 1 /\ lh' = lh
    BY DEF Types
  <2> HIDE DEF LogInv, end_op
  <2>10. /\ outstanding * MAXOPBLOCKS = (outstanding - 1) * MAXOPBLOCKS + MAXOPBLOCKS
         /\ (outstanding - 1) * MAXOPBLOCKS \in Int
    BY <2>9, Sizes, SMT
  <2> QED BY <2>5, <2>6, <2>7, <2>8, <2>9, <2>10, Sizes DEF Reservation
<1> QED BY <1>3, <1>5, <1>6, <1>7, <1>8, <1>9, <1>10

-----------------------------------------------------------------------------
(* The commit and the recovery.                                            *)

\* Nobody is in a call, or recovers, while somebody commits.
LEMMA CommitFacts ==
  ASSUME LogInv, NEW p \in Procs, pc[p] \in CommitPcs
  PROVE  /\ committing /\ outstanding = 0 /\ Ops = {} /\ ~Booting
         /\ \A q \in Procs : wrote[q] = {}
<1>1. committing /\ outstanding = 0
  BY DEF LogInv, Committer
<1>2. Ops = {}
  BY <1>1, FS_EmptySet DEF LogInv, Counted
<1>3. ~Booting
  BY DEF LogInv, Recovery, Booting, CommitPcs
<1>4. \A q \in Procs : wrote[q] = {}
  BY <1>2 DEF LogInv, Written, Ops
<1> QED BY <1>1, <1>2, <1>3, <1>4

\* From point to point of commit(); the log is emptied at the end of it.
LEMMA CommitInv ==
  ASSUME LogInv, NEW p \in Procs, pc[p] \in CommitPcs,
         write_log(p) \/ write_head(p) \/ install_trans(p) \/ clear(p)
  PROVE  LogInv'
<1> USE DEF LogInv
<1>1. /\ committing /\ outstanding = 0 /\ Ops = {} /\ ~Booting
      /\ \A q \in Procs : wrote[q] = {}
  BY CommitFacts
<1>2. /\ pc' \in [Procs -> Pcs] /\ pc'[p] \in CommitPcs
      /\ \A q \in Procs : q # p => pc'[q] = pc[q]
  BY DEF Types, Pcs, CommitPcs, write_log, write_head, install_trans, clear, Goto,
         NextEntry
<1>3. UNCHANGED <<outstanding, committing, wrote>> /\ (lh' = lh \/ lh' = <<>>)
      /\ (head' = head \/ head' = lh \/ head' = <<>>)
  BY DEF write_log, write_head, install_trans, clear, logVars
<1>4. Types'
  BY <1>2, <1>3, EmptySeq DEF Types
<1>5. Ops' = {}
  BY <1>1, <1>2 DEF Ops, CommitPcs
<1>6. Counted' /\ Reservation'
  BY <1>1, <1>3, <1>5, FS_EmptySet DEF Counted, Reservation
<1>7. Committer' /\ NoLostWakeup'
  BY <1>1, <1>2, <1>3 DEF Committer, NoLostWakeup
<1>8. Recovery'
  BY <1>1, <1>2, LogAssumption DEF Recovery, Booting, CommitPcs, RecoverPcs
<1>9. Written'
  BY <1>1, <1>3, FS_EmptySet, Sizes DEF Written
<1> QED BY <1>4, <1>6, <1>7, <1>8, <1>9

\* The end of the commit wakes everybody.
LEMMA FinishInv ==
  ASSUME LogInv, NEW p \in Procs, finish(p)
  PROVE  LogInv'
<1> USE DEF LogInv, finish, diskVars, cacheVars
<1>1. /\ committing /\ outstanding = 0 /\ Ops = {} /\ ~Booting
      /\ pc[p] \in CommitPcs
  BY CommitFacts DEF CommitPcs
<1>2. /\ pc' \in [Procs -> Pcs] /\ pc'[p] = "user"
      /\ \A q \in Procs : pc'[q] # "asleep"
      /\ \A q \in Procs : q # p =>
           pc'[q] = pc[q] \/ (pc[q] = "asleep" /\ pc'[q] = "woken")
  BY DEF Types, Pcs, WakeAll
<1>3. Types'
  BY <1>2 DEF Types
<1>4. Ops' = {}
  BY <1>1, <1>2 DEF Ops
<1>5. Counted' /\ Reservation'
  BY <1>1, <1>4, FS_EmptySet DEF Counted, Reservation
<1>6. Committer' /\ NoLostWakeup'
  BY <1>1, <1>2 DEF Committer, NoLostWakeup, CommitPcs
<1>7. Recovery'
  BY <1>1, <1>2, LogAssumption DEF Recovery, Booting, RecoverPcs
<1>8. Written'
  BY <1>2 DEF Written
<1> QED BY <1>3, <1>5, <1>6, <1>7, <1>8

\* Nobody but Boot does anything during the recovery.
LEMMA RecoverFacts ==
  ASSUME LogInv, NEW p \in Procs, pc[p] \in RecoverPcs
  PROVE  /\ p = Boot /\ outstanding = 0 /\ Ops = {}
         /\ \A q \in Procs : q # p => pc[q] = "down"
         /\ \A q \in Procs : wrote[q] = {}
<1>1. p = Boot /\ \A q \in Procs : q # p => pc[q] = "down"
  BY DEF LogInv, Recovery, Booting, RecoverPcs
<1>2. Ops = {}
  BY <1>1 DEF Ops, RecoverPcs
<1>3. outstanding = 0
  BY <1>2, FS_EmptySet DEF LogInv, Counted
<1>4. \A q \in Procs : wrote[q] = {}
  BY <1>2 DEF LogInv, Written, Ops
<1> QED BY <1>1, <1>2, <1>3, <1>4

\* The recovery, whose last step lets everybody run.
LEMMA RecoverInv ==
  ASSUME LogInv, NEW p \in Procs, pc[p] \in RecoverPcs,
         read_head(p) \/ install_trans(p) \/ clear(p)
  PROVE  LogInv'
<1> USE DEF LogInv
<1>1. /\ p = Boot /\ outstanding = 0 /\ Ops = {}
      /\ \A q \in Procs : q # p => pc[q] = "down"
      /\ \A q \in Procs : wrote[q] = {}
  BY RecoverFacts
<1>2. /\ pc' \in [Procs -> Pcs]
      /\ \/ pc'[p] \in RecoverPcs /\ \A q \in Procs : q # p => pc'[q] = "down"
         \/ \A q \in Procs : pc'[q] = "user"
  BY <1>1 DEF Types, Pcs, RecoverPcs, read_head, install_trans, clear, Goto, NextEntry
<1>3. UNCHANGED <<outstanding, committing, wrote>>
      /\ (lh' = lh \/ lh' = head \/ lh' = <<>>) /\ (head' = head \/ head' = <<>>)
  BY DEF read_head, install_trans, clear, logVars, diskVars
<1>4. Types'
  BY <1>2, <1>3, EmptySeq DEF Types
<1>5. Ops' = {}
  BY <1>1, <1>2 DEF Ops, RecoverPcs
<1>6. Counted' /\ Reservation'
  BY <1>1, <1>3, <1>5, FS_EmptySet DEF Counted, Reservation
<1>7. Committer' /\ NoLostWakeup'
  BY <1>1, <1>2, <1>3 DEF Committer, NoLostWakeup, RecoverPcs, CommitPcs
<1>8. Recovery'
  BY <1>1, <1>2, LogAssumption DEF Recovery, Booting, RecoverPcs
<1>9. Written'
  BY <1>1, <1>3, FS_EmptySet, Sizes DEF Written
<1> QED BY <1>4, <1>6, <1>7, <1>8, <1>9

\* bread() and bget() change nothing but the cache.
LEMMA CacheInv ==
  LogInv /\ UNCHANGED <<outstanding, committing, lh, head, pc, wrote>> => LogInv'
BY DEF LogInv, Types, Committer, Recovery, Booting, Counted, Ops, Pairs, Written,
       Reservation, NoLostWakeup

LEMMA NextInv == LogInv /\ [Next]_vars => LogInv'
<1> SUFFICES ASSUME LogInv, [Next]_vars PROVE LogInv'
  OBVIOUS
<1>1. CASE UNCHANGED vars
  BY <1>1, CacheInv DEF vars, diskVars, logVars
<1>2. CASE Crash
  BY <1>2, CrashInv
<1>3. ASSUME NEW b \in Blocks, NEW p \in Procs, Recycle(b) \/ bread(p, b)
      PROVE  LogInv'
  BY <1>3, CacheInv DEF Recycle, bread, diskVars, logVars
<1>4. ASSUME NEW p \in Procs, KernelStep(p) PROVE LogInv'
  <2>1. CASE write_log(p) \/ write_head(p)
    <3>1. pc[p] \in CommitPcs
      BY <2>1 DEF write_log, write_head, CommitPcs
    <3> QED BY <2>1, <3>1, CommitInv
  <2>2. CASE install_trans(p) \/ clear(p)
    <3>1. pc[p] \in CommitPcs \/ pc[p] \in RecoverPcs
      BY <2>2 DEF install_trans, clear, CommitPcs, RecoverPcs
    <3> QED BY <2>2, <3>1, CommitInv, RecoverInv
  <2>3. CASE read_head(p)
    <3>1. pc[p] \in RecoverPcs
      BY <2>3 DEF read_head, RecoverPcs
    <3> QED BY <2>3, <3>1, RecoverInv
  <2>4. CASE finish(p)
    BY <2>4, FinishInv
  <2>5. CASE begin_op(p)
    BY <2>5, BeginInv
  <2> QED BY <1>4, <2>1, <2>2, <2>3, <2>4, <2>5 DEF KernelStep
<1>5. ASSUME NEW p \in Procs, end_op(p) \/ begin_op(p) PROVE LogInv'
  BY <1>5, EndInv, BeginInv
<1>6. ASSUME NEW p \in Procs, NEW b \in Blocks, NEW v \in Values, log_write(p, b, v)
      PROVE  LogInv'
  BY <1>6, WriteInv
<1>7. ASSUME NEW b \in Blocks, Recycle(b) PROVE LogInv'
  BY <1>3, <1>7, LogAssumption
<1> QED BY <1>1, <1>2, <1>3, <1>4, <1>5, <1>6, <1>7 DEF Next

LEMMA Invariance == Spec => []LogInv
BY InitInv, NextInv, PTL DEF Spec

-----------------------------------------------------------------------------
\* While a call is under way the log has room for one block more, whatever the
\* other calls write.
LEMMA CallsFit ==
  ASSUME LogInv, NEW p \in Procs, pc[p] = "op"
  PROVE  Fits /\ ~committing
<1>1. outstanding > 0 /\ ~committing
  BY CallFacts
<1>2. Len(lh) + outstanding * MAXOPBLOCKS <= LOGSIZE + Cardinality(Pairs)
  BY <1>1 DEF LogInv, Reservation
<1>3. /\ Cardinality(Pairs) \in Nat
      /\ Cardinality(Pairs) <= outstanding * OpBlocks
  BY FewPairs DEF LogInv
<1>4. outstanding \in Nat /\ Len(lh) \in Nat
  BY LenProperties DEF LogInv, Types
<1>5. outstanding * OpBlocks + 2 <= outstanding * MAXOPBLOCKS
  BY <1>1, <1>4, TwoSpare
<1>6. outstanding * OpBlocks \in Nat /\ outstanding * MAXOPBLOCKS \in Nat
  BY <1>4, Sizes, SMT
<1>7. Len(lh) + 2 <= LOGSIZE
  BY <1>2, <1>3, <1>4, <1>5, <1>6, Sizes
<1> QED BY <1>1, <1>4, <1>7, Sizes DEF Fits

\* log_write() and end_op() never panic (log.c:153, 220-223) and nobody who has
\* room stays asleep in begin_op(), for any number of processes and any size of
\* the log: what begin_op() reserves is enough as long as a call writes at most
\* MAXOPBLOCKS - 2 different blocks.
THEOREM AdmissionIsSound == Spec => []Admission
<1>1. LogInv => NeverPanics
  BY CallsFit DEF NeverPanics
<1>2. LogInv => Admission
  BY <1>1 DEF LogInv, Admission
<1> QED BY <1>2, Invariance, PTL

-----------------------------------------------------------------------------
(***************************************************************************)
(* Log implements AtomicDisk, and what has been committed is durable, for  *)
(* every set of processes and blocks and every size of the log.            *)
(*                                                                         *)
(* DiskInv adds to LogInv what relates the cache, the log and the disk:    *)
(* a buffer differs from its home only while its block is in the log and   *)
(* pinned; each point of commit() and of the recovery knows how far it has *)
(* copied; and the header on the disk is empty except while the log is     *)
(* being installed.                                                        *)
(***************************************************************************)

DiskTypes ==
  /\ home   \in [Blocks -> Values]
  /\ logblk \in [LogSlots -> Values]
  /\ buf    \in [Blocks -> Values \union {Absent}]
  /\ pins   \in [Blocks -> Nat]
  /\ tail   \in [Procs -> Nat]

\* Absorption: no block is twice in the log, and the log fits on the disk.
Distinct(s) == \A i, j \in DOMAIN s : s[i] = s[j] => i = j
Lists == \A s \in {lh, head} : Distinct(s) /\ Len(s) <= NLOG - 1

Loops == {"write_log", "install", "r_install"}
Tails == \A p \in Procs : pc[p] \notin Loops => tail[p] = 1

Clean(b) == buf[b] \in {Absent, home[b]}
Cache == /\ \A b \in Blocks : b \notin Range(lh) => Clean(b)
         /\ Booting => \A b \in Blocks : Clean(b)

\* The first n entries are in the log; the first n are at home.
Saved(n)     == \A i \in 1..n : logblk[i] = Data(lh[i])
Installed(n) == \A i \in 1..n : home[lh[i]] = logblk[i]

CommitPoints == \A p \in Procs :
  /\ pc[p] = "write_log" => tail[p] \in 1..Len(lh) /\ Saved(tail[p] - 1)
  /\ pc[p] = "write_head" => lh # <<>> /\ Saved(Len(lh))
  /\ pc[p] = "install" =>
       /\ head = lh /\ tail[p] \in 1..Len(lh)
       /\ Saved(Len(lh)) /\ Installed(tail[p] - 1)
       /\ \A i \in tail[p]..Len(lh) : pins[lh[i]] >= 1
  /\ pc[p] = "clear" => head = lh /\ Saved(Len(lh)) /\ Installed(Len(lh))
  /\ pc[p] = "finish" => lh = <<>>

RecoverPoints ==
  /\ pc[Boot] = "r_install" =>
       head = lh /\ tail[Boot] \in 1..Len(lh) /\ Installed(tail[Boot] - 1)
  /\ pc[Boot] = "r_clear" => head = lh /\ Installed(Len(lh))

\* Nobody copies blocks to their homes.
Quiet == ~Booting /\ \A p \in Procs : pc[p] \notin {"install", "clear"}
Pinned == Quiet => head = <<>> /\ \A b \in Range(lh) : pins[b] >= 1

NothingLogged == outstanding = 0 /\ ~committing /\ ~Booting => lh = <<>>

DiskParts == /\ DiskTypes /\ Lists /\ Tails /\ Cache /\ CommitPoints
             /\ RecoverPoints /\ Pinned /\ NothingLogged
DiskInv == LogInv /\ DiskParts

-----------------------------------------------------------------------------
\* The entries of a header.
LEMMA Entries ==
  ASSUME NEW s \in Seq(Blocks)
  PROVE  /\ Len(s) \in Nat /\ DOMAIN s = 1..Len(s)
         /\ \A i \in 1..Len(s) : s[i] \in Blocks /\ s[i] \in Range(s)
         /\ \A b \in Range(s) : \E i \in 1..Len(s) : s[i] = b
<1>1. Len(s) \in Nat /\ DOMAIN s = 1..Len(s)
  BY LenProperties
<1>2. \A i \in 1..Len(s) : s[i] \in Blocks
  BY ElementOfSeq
<1> QED BY <1>1, <1>2 DEF Range

LEMMA NoEntries == Len(<<>>) = 0 /\ Range(<<>>) = {} /\ Distinct(<<>>)
BY EmptySeq, SMT DEF Range, Distinct

\* Where log_write() and install_trans() write is inside the log.
LEMMA InLog ==
  ASSUME LogInv, DiskParts, NEW i \in 1..Len(lh)
  PROVE  /\ i \in LogSlots /\ lh[i] \in Blocks /\ lh[i] \in Range(lh)
         /\ logblk[i] \in Values
         /\ Data(lh[i]) \in Values
<1>1. i \in LogSlots
  BY Entries, Sizes DEF LogInv, Types, DiskParts, Lists, LogSlots
<1>2. lh[i] \in Blocks /\ lh[i] \in Range(lh)
  BY Entries DEF LogInv, Types
<1> QED BY <1>1, <1>2 DEF DiskParts, DiskTypes, Data

\* What is true of the disk and of nothing else after a power failure.
AtBootDisk ==
  /\ AtBoot
  /\ home \in [Blocks -> Values] /\ logblk \in [LogSlots -> Values]
  /\ Distinct(head) /\ Len(head) <= NLOG - 1
  /\ buf = NoneCached /\ pins = NonePinned /\ tail = [p \in Procs |-> 1]

LEMMA BootDisk == AtBootDisk => DiskParts
<1> SUFFICES ASSUME AtBootDisk PROVE DiskParts
  OBVIOUS
<1> USE LogAssumption, Sizes DEF AtBootDisk, AtBoot, BootPc, NoneCached, NonePinned
<1>1. DiskTypes /\ Tails
  BY DEF DiskTypes, Tails
<1>2. Lists
  BY NoEntries DEF Lists
<1>3. Cache
  BY DEF Cache, Clean
<1>4. CommitPoints /\ RecoverPoints
  BY DEF CommitPoints, RecoverPoints
<1>5. Pinned /\ NothingLogged
  BY DEF Pinned, Quiet, NothingLogged, Booting
<1> QED BY <1>1, <1>2, <1>3, <1>4, <1>5 DEF DiskParts

LEMMA InitDisk == Init => DiskParts
<1>1. Init => AtBootDisk
  BY LogAssumption, Sizes, EmptySeq, NoEntries DEF Init, AtBootDisk, AtBoot, LogSlots
<1> QED BY <1>1, BootDisk

LEMMA CrashDisk == LogInv /\ DiskParts /\ Crash => DiskParts'
<1>1. LogInv /\ DiskParts /\ Crash => AtBootDisk'
  BY DEF LogInv, Types, DiskParts, DiskTypes, Lists, Crash, diskVars, AtBootDisk,
         AtBoot, BootPc, NoneCached, NonePinned, LogSlots, Distinct
<1>2. AtBootDisk' => DiskParts'
  BY BootDisk, PTL
<1> QED BY <1>1, <1>2

-----------------------------------------------------------------------------
(* The cache and the calls.                                                *)

\* Data does not change when a block is read or an unpinned buffer recycled.
LEMMA SameData ==
  ASSUME LogInv, DiskParts, ~Booting, NEW b \in Blocks,
         (\E p \in Procs : bread(p, b)) \/ Recycle(b)
  PROVE  \A d \in Blocks : Data(d)' = Data(d)
<1> USE DEF LogInv, DiskParts, DiskTypes, diskVars
<1>1. CASE \E p \in Procs : bread(p, b)
  BY <1>1 DEF bread, Loaded, Data
<1>2. CASE Recycle(b)
  <2> USE <1>2 DEF Recycle
  <2>1. Clean(b)
    <3>1. CASE b \notin Range(lh)
      BY <3>1 DEF Cache
    <3>2. CASE b \in Range(lh)
      <4>1. ~Quiet
        BY <3>2 DEF Pinned
      <4>2. PICK p \in Procs : pc[p] \in {"install", "clear"}
        BY <4>1 DEF Quiet
      <4>3. PICK i \in 1..Len(lh) : lh[i] = b
        BY <3>2, Entries DEF Types
      <4>4. logblk[i] = Data(b)
        BY <4>2, <4>3 DEF CommitPoints, Saved
      <4>5. home[b] = logblk[i]
        <5>1. CASE pc[p] = "clear"
          BY <4>3, <5>1 DEF CommitPoints, Installed
        <5>2. CASE pc[p] = "install"
          <6>1. tail[p] \in 1..Len(lh) /\ Len(lh) \in Nat
            BY <5>2, Entries DEF Types, CommitPoints
          <6>2. i \notin tail[p]..Len(lh)
            BY <4>3, <5>2 DEF CommitPoints
          <6>3. i \in 1..(tail[p] - 1)
            BY <6>1, <6>2, SMT
          <6> QED BY <4>3, <5>2, <6>3 DEF CommitPoints, Installed
        <5> QED BY <4>2, <5>1, <5>2
      <4> QED BY <4>4, <4>5 DEF Data, Clean
    <3> QED BY <3>1, <3>2
  <2>2. buf[b] = home[b] /\ buf' = [buf EXCEPT ![b] = Absent] /\ home' = home
    BY <2>1 DEF Clean
  <2> QED BY <2>2 DEF Data
<1> QED BY <1>1, <1>2

\* A step that leaves the disk, the pins and the data of the blocks as they are.
LEMMA CacheDisk ==
  ASSUME LogInv, DiskParts, NEW b \in Blocks,
         (\E p \in Procs : bread(p, b)) \/ Recycle(b)
  PROVE  DiskParts'
<1> USE DEF LogInv, DiskParts
<1>1. UNCHANGED <<diskVars, pins, logVars, pc, wrote, tail>>
  BY DEF bread, Recycle
<1>2. /\ \A d \in Blocks : Clean(d) => Clean(d)'
      /\ buf' \in [Blocks -> Values \union {Absent}]
  BY DEF bread, Recycle, Loaded, Data, Clean, DiskTypes, diskVars
<1>3. (DiskTypes /\ Lists /\ Tails /\ Pinned /\ NothingLogged /\ RecoverPoints)'
  BY <1>1, <1>2 DEF DiskTypes, Lists, Tails, Pinned, Quiet, NothingLogged,
     RecoverPoints, Installed, Booting, diskVars, logVars
<1>4. Cache'
  BY <1>1, <1>2 DEF Cache, Booting, logVars
<1>5. CommitPoints'
  <2>1. CASE Booting
    BY <1>1, <2>1, LogAssumption DEF CommitPoints, Recovery, Booting
  <2>2. CASE ~Booting
    <3>1. \A d \in Blocks : Data(d)' = Data(d)
      BY <2>2, SameData
    <3>2. \A i \in 1..Len(lh) : Data(lh[i])' = Data(lh[i])
      BY <1>1, <3>1, InLog DEF logVars, Data
    <3>3. UNCHANGED <<home, logblk, head, lh, pc, tail, pins>>
      BY <1>1 DEF diskVars, logVars
    <3>4. ASSUME NEW q \in Procs
          PROVE  /\ pc[q] = "write_log" => \A i \in 1..(tail[q] - 1) : i \in 1..Len(lh)
      BY Entries, SMT DEF Types, CommitPoints
    <3>5. \A q \in Procs : pc[q] = "write_log" => Saved(tail[q] - 1)'
      BY <3>2, <3>3, <3>4 DEF CommitPoints, Saved
    <3>6. \A q \in Procs : pc[q] \in {"write_head", "install", "clear"} => Saved(Len(lh))'
      BY <3>2, <3>3 DEF CommitPoints, Saved
    <3> QED BY <3>3, <3>5, <3>6 DEF CommitPoints, Installed
  <2> QED BY <2>1, <2>2
<1> QED BY <1>3, <1>4, <1>5

\* begin_op() copies nothing.
LEMMA BeginDisk ==
  ASSUME LogInv, DiskParts, NEW p \in Procs, begin_op(p)
  PROVE  DiskParts'
<1> USE DEF LogInv, DiskParts
<1>1. UNCHANGED <<diskVars, cacheVars, committing, lh, wrote, tail>>
  BY DEF begin_op
<1>2. /\ pc[p] \in {"user", "woken"} /\ pc'[p] \in {"asleep", "op"}
      /\ \A q \in Procs : q # p => pc'[q] = pc[q]
      /\ pc' \in [Procs -> Pcs]
  BY DEF begin_op, Goto, Types, Pcs
<1>3. (Booting <=> Booting') /\ (Quiet <=> Quiet')
  BY <1>2, LogAssumption DEF Booting, Quiet
<1>4. NothingLogged'
  BY <1>1, <1>2, <1>3 DEF NothingLogged, begin_op, Types
<1>5. (DiskTypes /\ Lists /\ Tails /\ Pinned /\ Cache)'
  BY <1>1, <1>2, <1>3 DEF DiskTypes, Lists, Tails, Loops, Pinned, Cache, Clean,
     diskVars, cacheVars
<1>6. CommitPoints'
  BY <1>1, <1>2 DEF CommitPoints, Saved, Installed, Data, diskVars, cacheVars
<1>7. RecoverPoints'
  BY <1>1, <1>2, LogAssumption DEF RecoverPoints, Installed, diskVars
<1> QED BY <1>4, <1>5, <1>6, <1>7

\* The last end_op() leads to the first point of commit() that has work to do.
LEMMA EndDisk ==
  ASSUME LogInv, DiskParts, NEW p \in Procs, end_op(p)
  PROVE  DiskParts'
<1> USE DEF LogInv, DiskParts
<1>1. UNCHANGED <<diskVars, cacheVars, lh, tail>>
  BY DEF end_op
<1>2. \A q \in Procs : pc[q] \notin CommitPcs \union RecoverPcs
  BY CallFacts DEF end_op
<1>3. /\ \A q \in Procs : q # p =>
           pc'[q] = pc[q] \/ (pc[q] = "asleep" /\ pc'[q] = "woken")
      /\ \/ pc'[p] = "user"
         \/ pc'[p] = "finish" /\ lh = <<>>
         \/ pc'[p] = "write_log" /\ lh # <<>>
      /\ committing' \/ outstanding' # 0
  <2>1. CASE outstanding = 1
    BY <2>1 DEF end_op, Goto, CommitPoint, Types
  <2>2. CASE outstanding # 1
    <3>1. outstanding > 0
      BY CallFacts DEF end_op
    <3> QED BY <2>2, <3>1 DEF end_op, WakeAll, Types
  <2> QED BY <2>1, <2>2
<1>4. ~Booting /\ ~Booting' /\ Quiet /\ Quiet'
  BY <1>2, <1>3, LogAssumption DEF Booting, Quiet, CommitPcs, RecoverPcs
<1>5. tail[p] = 1
  BY DEF end_op, Tails, Loops
<1>6. (DiskTypes /\ Lists /\ Tails /\ Pinned /\ Cache)'
  BY <1>1, <1>2, <1>3, <1>4, <1>5 DEF DiskTypes, Lists, Tails, Loops, Pinned, Cache,
     Clean, diskVars, cacheVars, CommitPcs, RecoverPcs
<1>7. NothingLogged' /\ RecoverPoints'
  BY <1>3, <1>4 DEF NothingLogged, RecoverPoints, Booting
<1>8. lh # <<>> => 1 \in 1..Len(lh)
  BY EmptySeq, SMT DEF Types
<1>9. CommitPoints'
  <2>1. ASSUME NEW q \in Procs, q # p PROVE pc'[q] \notin CommitPcs
    BY <1>2, <1>3, <2>1 DEF CommitPcs
  <2>2. tail'[p] = 1 /\ \A i \in 1..(tail'[p] - 1) : FALSE
    BY <1>1, <1>5, SMT
  <2>3. pc'[p] = "write_log" => tail'[p] \in 1..Len(lh') /\ Saved(tail[p] - 1)'
    BY <1>1, <1>3, <1>8, <2>2 DEF Saved
  <2>4. pc'[p] = "finish" => lh' = <<>>
    BY <1>1, <1>3
  <2>5. pc'[p] \notin {"write_head", "install", "clear"}
    BY <1>3
  <2> QED BY <2>1, <2>3, <2>4, <2>5 DEF CommitPoints, CommitPcs
<1> QED BY <1>6, <1>7, <1>9

\* A block that is changed is pinned from then on.
LEMMA WriteDisk ==
  ASSUME LogInv, DiskParts, NEW p \in Procs, NEW b \in Blocks, NEW v \in Values,
         log_write(p, b, v)
  PROVE  DiskParts'
<1> USE DEF LogInv, DiskParts
<1>1. UNCHANGED <<home, logblk, head, outstanding, committing, pc, tail>>
  BY DEF log_write, diskVars
<1>2. /\ outstanding > 0 /\ \A q \in Procs : pc[q] \notin CommitPcs \union RecoverPcs
  BY CallFacts DEF log_write
<1>3. ~Booting /\ Quiet /\ ~Booting'
  BY <1>1, <1>2, LogAssumption DEF Booting, Quiet, CommitPcs, RecoverPcs
<1>4. /\ buf' = [buf EXCEPT ![b] = v]
      /\ \/ b \in Range(lh) /\ lh' = lh /\ pins' = pins
         \/ b \notin Range(lh) /\ lh' = Append(lh, b) /\ pins' = [pins EXCEPT ![b] = @ + 1]
  BY DEF log_write
<1>5. /\ lh' \in Seq(Blocks) /\ Range(lh') = Range(lh) \union {b}
  <2>1. CASE b \in Range(lh) /\ lh' = lh
    BY <2>1 DEF Types
  <2>2. CASE lh' = Append(lh, b)
    BY <2>2, RangeAppend DEF Types
  <2> QED BY <1>4, <2>1, <2>2
<1>6. DiskTypes'
  BY <1>1, <1>4 DEF DiskTypes
<1>7. Distinct(lh') /\ Len(lh') <= NLOG - 1
  <2>1. CASE lh' = lh
    BY <2>1 DEF Lists
  <2>2. CASE b \notin Range(lh) /\ lh' = Append(lh, b)
    <3>1. /\ Len(lh) \in Nat /\ DOMAIN lh = 1..Len(lh)
          /\ \A i \in 1..Len(lh) : lh[i] # b
      BY <2>2, Entries DEF Types
    <3>2. /\ Len(lh') = Len(lh) + 1 /\ DOMAIN lh' = 1..(Len(lh) + 1)
          /\ \A i \in 1..Len(lh) : lh'[i] = lh[i]
          /\ lh'[Len(lh) + 1] = b
      <4>1. lh \in Seq(Blocks)
        BY DEF Types
      <4> QED BY <1>5, <2>2, <4>1, AppendProperties, LenProperties
    <3>3. \A i \in 1..(Len(lh) + 1) : i \in 1..Len(lh) \/ i = Len(lh) + 1
      BY <3>1, SMT
    <3>4. Distinct(lh)
      BY DEF Lists
    <3>5. Distinct(lh')
      BY <3>1, <3>2, <3>3, <3>4 DEF Distinct
    <3>6. Len(lh) < NLOG - 1
      BY DEF log_write, Fits
    <3> QED BY <3>1, <3>2, <3>5, <3>6, Sizes
  <2> QED BY <1>4, <2>1, <2>2
<1>8. Lists'
  BY <1>1, <1>7 DEF Lists
<1>9. Tails' /\ Cache'
  BY <1>1, <1>3, <1>4, <1>5 DEF Tails, Cache, Clean, DiskTypes
<1>10. CommitPoints' /\ RecoverPoints'
  BY <1>1, <1>2, LogAssumption DEF CommitPoints, RecoverPoints, CommitPcs, RecoverPcs
<1>11. NothingLogged'
  BY <1>1, <1>2 DEF NothingLogged
<1>12. Pinned'
  <2>1. \A d \in Blocks : pins[d] \in Nat
    BY DEF DiskTypes
  <2>2. \A d \in Range(lh) : d \in Blocks
    BY Entries DEF Types
  <2>3. head = <<>> /\ \A d \in Range(lh) : pins[d] >= 1
    BY <1>3 DEF Pinned
  <2>4. \A d \in Range(lh') : pins'[d] >= 1
    BY <1>4, <1>5, <2>1, <2>2, <2>3 DEF DiskTypes
  <2> QED BY <1>1, <2>3, <2>4 DEF Pinned
<1> QED BY <1>6, <1>8, <1>9, <1>10, <1>11, <1>12

-----------------------------------------------------------------------------
(* The commit and the recovery.                                            *)

\* One entry more is in the log.
LEMMA WriteLogDisk ==
  ASSUME LogInv, DiskParts, NEW p \in Procs, write_log(p)
  PROVE  DiskParts'
<1> DEFINE t == tail[p]
<1> USE DEF LogInv, DiskParts, write_log
<1>1. /\ UNCHANGED <<home, head, pins, lh, outstanding, committing, wrote>>
      /\ logblk' = [logblk EXCEPT ![t] = Data(lh[t])] /\ buf' = Loaded(lh[t])
  BY DEF logVars
<1>2. /\ t \in 1..Len(lh) /\ Saved(t - 1) /\ Len(lh) \in Nat
  BY Entries DEF CommitPoints, Types
<1>3. committing /\ ~Booting
  BY CommitFacts DEF CommitPcs
<1>4. \A q \in Procs : q # p => pc[q] \notin CommitPcs /\ pc'[q] = pc[q]
  BY DEF Committer, CommitPcs, NextEntry, Goto, Types
<1>5. \/ /\ t = Len(lh) /\ pc'[p] = "write_head" /\ tail' = [tail EXCEPT ![p] = 1]
      \/ /\ t # Len(lh) /\ pc' = pc /\ tail' = [tail EXCEPT ![p] = t + 1]
  BY DEF NextEntry, Goto, Types
<1>6. \A d \in Blocks : Data(d)' = Data(d) /\ (Clean(d) => Clean(d)')
  BY <1>1, InLog, <1>2 DEF Loaded, Data, Clean, DiskTypes
<1>7. DiskTypes' /\ Lists'
  <2>1. t \in LogSlots /\ lh[t] \in Blocks /\ Data(lh[t]) \in Values
    BY <1>2, InLog
  <2>2. logblk' \in [LogSlots -> Values]
    BY <1>1, <2>1 DEF DiskTypes
  <2>3. buf' \in [Blocks -> Values \union {Absent}]
    BY <1>1, <2>1 DEF DiskTypes, Loaded
  <2>4. tail' \in [Procs -> Nat]
    BY <1>5 DEF DiskTypes
  <2> QED BY <1>1, <2>2, <2>3, <2>4 DEF DiskTypes, Lists
<1>8. Tails'
  BY <1>4, <1>5 DEF Tails, Loops, DiskTypes
<1>9. ~Booting' /\ Quiet /\ Quiet'
  BY <1>3, <1>4, <1>5, LogAssumption DEF Quiet, Booting, CommitPcs
<1>10. Cache' /\ Pinned' /\ NothingLogged' /\ RecoverPoints'
  BY <1>1, <1>3, <1>6, <1>9 DEF Cache, Pinned, NothingLogged, RecoverPoints, Booting
<1>11. \A i \in 1..t : logblk'[i] = Data(lh[i])'
  <2>1. \A i \in 1..t : i \in 1..Len(lh) /\ (i \in 1..(t - 1) \/ i = t)
    BY <1>2, SMT
  <2>2. \A i \in 1..Len(lh) : Data(lh[i])' = Data(lh[i])
    BY <1>1, <1>6, InLog DEF Data
  <2>3. \A i \in 1..(t - 1) : logblk'[i] = logblk[i]
    BY <1>1, <1>2, SMT DEF DiskTypes
  <2>4. logblk'[t] = Data(lh[t])
    BY <1>1, <1>2, InLog DEF DiskTypes
  <2> QED BY <1>1, <1>2, <2>1, <2>2, <2>3, <2>4 DEF Saved, Data
<1>12. CommitPoints'
  <2>1. ASSUME NEW q \in Procs, q # p PROVE pc'[q] \notin CommitPcs
    BY <1>4, <2>1
  <2>2. CASE t = Len(lh) /\ pc'[p] = "write_head"
    <3>1. Saved(Len(lh))'
      BY <1>1, <1>11, <2>2 DEF Saved
    <3>2. lh # <<>>
      BY <1>2, NoEntries, SMT
    <3> QED BY <1>1, <2>1, <2>2, <3>1, <3>2 DEF CommitPoints, CommitPcs
  <2>3. CASE t # Len(lh) /\ pc' = pc /\ tail' = [tail EXCEPT ![p] = t + 1]
    <3>1. tail'[p] = t + 1 /\ tail'[p] \in 1..Len(lh) /\ tail'[p] - 1 = t
      BY <1>2, <2>3 DEF DiskTypes
    <3>2. Saved(tail[p] - 1)'
      BY <1>1, <1>11, <3>1 DEF Saved
    <3> QED BY <1>1, <2>1, <2>3, <3>1, <3>2 DEF CommitPoints, CommitPcs
  <2> QED BY <1>5, <2>2, <2>3
<1> QED BY <1>7, <1>8, <1>10, <1>12

\* The header on the disk now names what the log holds.
LEMMA WriteHeadDisk ==
  ASSUME LogInv, DiskParts, NEW p \in Procs, write_head(p)
  PROVE  DiskParts'
<1> USE DEF LogInv, DiskParts, write_head
<1>1. /\ UNCHANGED <<home, logblk, buf, pins, lh, outstanding, committing, wrote, tail>>
      /\ head' = lh
  BY DEF logVars, cacheVars
<1>2. committing /\ ~Booting /\ Quiet
  <2>1. \A q \in Procs : q # p => pc[q] \notin CommitPcs
    BY DEF Committer, CommitPcs
  <2> QED BY <2>1, CommitFacts DEF CommitPcs, Quiet
<1>3. \A q \in Procs : q # p => pc[q] \notin CommitPcs /\ pc'[q] = pc[q]
  BY DEF Committer, CommitPcs, Goto, Types
<1>4. pc'[p] = "install" /\ tail[p] = 1
  BY DEF Goto, Types, Tails, Loops
<1>5. DiskTypes' /\ Lists' /\ Tails'
  BY <1>1, <1>3, <1>4 DEF DiskTypes, Lists, Tails, Loops
<1>6. ~Booting' /\ ~Quiet'
  BY <1>2, <1>3, <1>4, LogAssumption DEF Quiet, Booting
<1>7. Cache' /\ Pinned' /\ NothingLogged' /\ RecoverPoints'
  BY <1>1, <1>2, <1>6 DEF Cache, Clean, Pinned, NothingLogged, RecoverPoints, Booting
<1>8. CommitPoints'
  <2>1. Saved(Len(lh))'
    BY <1>1 DEF CommitPoints, Saved, Data
  <2>2. tail'[p] \in 1..Len(lh') /\ Installed(tail[p] - 1)'
    <3>1. 1 \in 1..Len(lh) /\ \A i \in 1..(tail[p] - 1) : FALSE
      BY <1>4, EmptySeq, SMT DEF CommitPoints, Types
    <3> QED BY <1>1, <1>4, <3>1 DEF Installed
  <2>3. \A i \in tail'[p]..Len(lh') : pins'[lh'[i]] >= 1
    <3>1. \A i \in 1..Len(lh) : pins[lh[i]] >= 1
      BY <1>2, Entries DEF Types, Pinned
    <3> QED BY <1>1, <1>4, <3>1
  <2> QED BY <1>1, <1>3, <1>4, <2>1, <2>2, <2>3 DEF CommitPoints, CommitPcs
<1> QED BY <1>5, <1>7, <1>8

\* What install_trans() does to the entry at tail, in commit() and in recovery.
LEMMA Copied ==
  ASSUME LogInv, DiskParts, NEW p \in Procs, install_trans(p),
         tail[p] \in 1..Len(lh), Installed(tail[p] - 1)
  PROVE  /\ \A i \in 1..tail[p] : home'[lh[i]] = logblk[i]
         /\ \A i \in 1..Len(lh) : i # tail[p] => lh[i] # lh[tail[p]]
         /\ \A d \in Blocks : d # lh[tail[p]] =>
              UNCHANGED <<home[d], buf[d], pins[d]>>
         /\ home'[lh[tail[p]]] = logblk[tail[p]] /\ buf'[lh[tail[p]]] = logblk[tail[p]]
         /\ home' \in [Blocks -> Values] /\ buf' \in [Blocks -> Values \union {Absent}]
         /\ UNCHANGED <<logblk, head, lh, outstanding, committing, wrote>>
<1> DEFINE t == tail[p]
<1> USE DEF LogInv, DiskParts, install_trans
<1>1. /\ t \in LogSlots /\ lh[t] \in Blocks /\ logblk[t] \in Values
      /\ \A i \in 1..Len(lh) : lh[i] \in Blocks
  BY InLog
<1>2. Len(lh) \in Nat /\ DOMAIN lh = 1..Len(lh)
  BY Entries DEF Types
<1>3. \A i \in 1..Len(lh) : i # t => lh[i] # lh[t]
  BY <1>2 DEF Lists, Distinct
<1>4. /\ home' = [home EXCEPT ![lh[t]] = logblk[t]]
      /\ buf' = [buf EXCEPT ![lh[t]] = logblk[t]]
      /\ pins' = [pins EXCEPT ![lh[t]] = @ - 1] \/ pins' = pins
      /\ UNCHANGED <<logblk, head, lh, outstanding, committing, wrote>>
  BY DEF logVars
<1>5. /\ home' \in [Blocks -> Values] /\ buf' \in [Blocks -> Values \union {Absent}]
      /\ home'[lh[t]] = logblk[t] /\ buf'[lh[t]] = logblk[t]
      /\ \A d \in Blocks : d # lh[t] => UNCHANGED <<home[d], buf[d], pins[d]>>
  BY <1>1, <1>4 DEF DiskTypes
<1>6. \A i \in 1..t : home'[lh[i]] = logblk[i]
  <2>1. \A i \in 1..t : i \in 1..Len(lh) /\ (i \in 1..(t - 1) \/ i = t)
    BY <1>2, SMT
  <2> QED BY <1>1, <1>3, <1>5, <2>1 DEF Installed
<1> QED BY <1>3, <1>4, <1>5, <1>6

\* One entry more is at home; its buffer is not pinned by the log any more.
LEMMA InstallDisk ==
  ASSUME LogInv, DiskParts, NEW p \in Procs, pc[p] = "install", install_trans(p)
  PROVE  DiskParts'
<1> DEFINE t == tail[p]
<1> USE DEF LogInv, DiskParts, install_trans
<1>1. /\ head = lh /\ t \in 1..Len(lh) /\ Len(lh) \in Nat
      /\ Saved(Len(lh)) /\ Installed(t - 1)
      /\ \A i \in t..Len(lh) : pins[lh[i]] >= 1
      /\ \A i \in 1..Len(lh) : lh[i] \in Blocks
  BY Entries, InLog DEF CommitPoints, Types
<1>2. /\ \A i \in 1..t : home'[lh[i]] = logblk[i]
      /\ \A i \in 1..Len(lh) : i # t => lh[i] # lh[t]
      /\ \A d \in Blocks : d # lh[t] => UNCHANGED <<home[d], buf[d], pins[d]>>
      /\ home'[lh[t]] = logblk[t] /\ buf'[lh[t]] = logblk[t]
      /\ home' \in [Blocks -> Values] /\ buf' \in [Blocks -> Values \union {Absent}]
      /\ UNCHANGED <<logblk, head, lh, outstanding, committing, wrote>>
  BY <1>1, Copied
<1>3. pins' = [pins EXCEPT ![lh[t]] = @ - 1]
  OBVIOUS
<1>4. ~Booting /\ committing
  BY CommitFacts DEF CommitPcs
<1>5. \A q \in Procs : q # p => pc[q] \notin CommitPcs /\ pc'[q] = pc[q]
  BY DEF Committer, CommitPcs, NextEntry, Goto, Types
<1>6. \/ t = Len(lh) /\ pc'[p] = "clear" /\ tail' = [tail EXCEPT ![p] = 1]
      \/ t # Len(lh) /\ pc' = pc /\ tail' = [tail EXCEPT ![p] = t + 1]
  BY DEF NextEntry, Goto, Types
<1>7. \A d \in Blocks : Data(d)' = Data(d)
  <2>1. logblk[t] = Data(lh[t]) /\ logblk[t] \in Values
    BY <1>1, InLog DEF Saved
  <2> QED BY <1>1, <1>2, <2>1, LogAssumption DEF Data
<1>8. DiskTypes'
  <2>1. pins' \in [Blocks -> Nat]
    BY <1>1, <1>3 DEF DiskTypes
  <2>2. tail' \in [Procs -> Nat]
    BY <1>6 DEF DiskTypes
  <2> QED BY <1>2, <2>1, <2>2 DEF DiskTypes
<1>9. Lists' /\ Tails'
  <2>1. Lists'
    BY <1>2 DEF Lists
  <2>2. Tails'
    BY <1>5, <1>6 DEF Tails, Loops, DiskTypes
  <2> QED BY <2>1, <2>2
<1>10. ~Booting' /\ ~Quiet'
  BY <1>4, <1>5, <1>6, LogAssumption DEF Booting, Quiet
<1>11. Pinned' /\ NothingLogged' /\ RecoverPoints'
  BY <1>2, <1>4, <1>10 DEF Pinned, NothingLogged, RecoverPoints, Booting
<1>12. Cache'
  BY <1>1, <1>2, <1>10 DEF Cache, Clean
<1>13. CommitPoints'
  <2>1. Saved(Len(lh))'
    BY <1>1, <1>2, <1>7 DEF Saved, Data
  <2>2. CASE t = Len(lh) /\ pc'[p] = "clear"
    <3>1. Installed(Len(lh))'
      BY <1>2, <2>2 DEF Installed
    <3> QED BY <1>1, <1>2, <1>5, <2>1, <2>2, <3>1 DEF CommitPoints, CommitPcs
  <2>3. CASE t # Len(lh) /\ pc' = pc /\ tail' = [tail EXCEPT ![p] = t + 1]
    <3>1. tail'[p] = t + 1 /\ tail'[p] \in 1..Len(lh) /\ tail'[p] - 1 = t
      BY <1>1, <2>3 DEF DiskTypes
    <3>2. Installed(tail[p] - 1)'
      BY <1>2, <3>1 DEF Installed
    <3>3. \A i \in tail'[p]..Len(lh) : i \in t..Len(lh) /\ i \in 1..Len(lh) /\ i # t
      BY <1>1, <3>1, SMT
    <3>4. \A i \in tail'[p]..Len(lh') : pins'[lh'[i]] >= 1
      BY <1>1, <1>2, <3>3
    <3> QED BY <1>1, <1>2, <1>5, <2>1, <2>3, <3>1, <3>2, <3>4
            DEF CommitPoints, CommitPcs
  <2> QED BY <1>6, <2>2, <2>3
<1> QED BY <1>8, <1>9, <1>11, <1>12, <1>13

\* The same in the recovery.
LEMMA RecoverDisk ==
  ASSUME LogInv, DiskParts, NEW p \in Procs, pc[p] = "r_install", install_trans(p)
  PROVE  DiskParts'
<1> DEFINE t == tail[p]
<1> USE DEF LogInv, DiskParts, install_trans
<1>1. p = Boot /\ outstanding = 0 /\ \A q \in Procs : q # p => pc[q] = "down"
  BY RecoverFacts DEF RecoverPcs
<1>2. /\ head = lh /\ t \in 1..Len(lh) /\ Len(lh) \in Nat /\ Installed(t - 1)
      /\ lh[t] \in Blocks /\ Booting
  BY <1>1, Entries, InLog DEF RecoverPoints, Types, Booting
<1>3. /\ \A i \in 1..t : home'[lh[i]] = logblk[i]
      /\ \A d \in Blocks : d # lh[t] => UNCHANGED <<home[d], buf[d], pins[d]>>
      /\ home'[lh[t]] = logblk[t] /\ buf'[lh[t]] = logblk[t]
      /\ home' \in [Blocks -> Values] /\ buf' \in [Blocks -> Values \union {Absent}]
      /\ UNCHANGED <<logblk, head, lh, outstanding, committing, wrote>>
  BY <1>2, Copied
<1>4. \/ t = Len(lh) /\ pc'[p] = "r_clear" /\ tail' = [tail EXCEPT ![p] = 1]
      \/ t # Len(lh) /\ pc' = pc /\ tail' = [tail EXCEPT ![p] = t + 1]
  BY DEF NextEntry, Goto, Types
<1>5. \A q \in Procs : q # p => pc'[q] = "down"
  BY <1>1 DEF NextEntry, Goto, Types
<1>6. pins' = pins
  OBVIOUS
<1>7. DiskTypes'
  <2>1. tail' \in [Procs -> Nat]
    BY <1>4 DEF DiskTypes
  <2> QED BY <1>3, <1>6, <2>1 DEF DiskTypes
<1>8. Lists' /\ Tails'
  <2>1. Lists'
    BY <1>3 DEF Lists
  <2>2. Tails'
    BY <1>1, <1>4, <1>5 DEF Tails, Loops, DiskTypes
  <2> QED BY <2>1, <2>2
<1>9. Booting'
  BY <1>1, <1>4 DEF Booting
<1>10. Pinned' /\ NothingLogged' /\ CommitPoints'
  BY <1>1, <1>4, <1>5, <1>9 DEF Pinned, Quiet, NothingLogged, CommitPoints
<1>11. Cache'
  BY <1>2, <1>3 DEF Cache, Clean
<1>12. RecoverPoints'
  <2>1. CASE t = Len(lh) /\ pc'[p] = "r_clear"
    BY <1>1, <1>2, <1>3, <2>1 DEF RecoverPoints, Installed
  <2>2. CASE t # Len(lh) /\ pc' = pc /\ tail' = [tail EXCEPT ![p] = t + 1]
    <3>1. tail'[p] = t + 1 /\ tail'[p] \in 1..Len(lh) /\ tail'[p] - 1 = t
      BY <1>2, <2>2 DEF DiskTypes
    <3> QED BY <1>1, <1>2, <1>3, <2>2, <3>1 DEF RecoverPoints, Installed
  <2> QED BY <1>4, <2>1, <2>2
<1> QED BY <1>7, <1>8, <1>10, <1>11, <1>12

\* What clear() finds: everything that was logged is at home.
LEMMA AllHome ==
  ASSUME LogInv, DiskParts, NEW p \in Procs, clear(p)
  PROVE  /\ head = lh /\ Installed(Len(lh))
         /\ \A b \in Blocks : Clean(b)
<1> USE DEF LogInv, DiskParts, clear
<1>1. CASE pc[p] = "r_clear"
  <2>1. p = Boot
    BY <1>1 DEF Recovery, RecoverPcs
  <2> QED BY <1>1, <2>1 DEF RecoverPoints, Cache, Booting
<1>2. CASE pc[p] = "clear"
  <2>1. head = lh /\ Installed(Len(lh)) /\ Saved(Len(lh))
    BY <1>2 DEF CommitPoints
  <2>2. ASSUME NEW b \in Range(lh), b \in Blocks PROVE Clean(b)
    <3>1. PICK i \in 1..Len(lh) : lh[i] = b
      BY Entries DEF Types
    <3>2. home[b] = Data(b)
      BY <2>1, <3>1 DEF Saved, Installed
    <3> QED BY <3>2 DEF Data, Clean
  <2> QED BY <2>1, <2>2 DEF Cache
<1> QED BY <1>1, <1>2

\* The empty header, after which nobody needs the log any more.
LEMMA ClearDisk ==
  ASSUME LogInv, DiskParts, NEW p \in Procs, clear(p)
  PROVE  DiskParts'
<1> USE DEF LogInv, DiskParts, clear
<1>1. /\ UNCHANGED <<home, logblk, buf, pins, tail>>
      /\ lh' = <<>> /\ head' = <<>> /\ tail[p] = 1
  BY DEF cacheVars, Tails, Loops
<1>2. \A q \in Procs : q # p => pc[q] \notin CommitPcs \union RecoverPcs
  <2>1. CASE pc[p] = "r_clear"
    BY <2>1, RecoverFacts DEF RecoverPcs, CommitPcs
  <2>2. CASE pc[p] = "clear"
    <3>1. ~Booting
      BY <2>2, CommitFacts DEF CommitPcs
    <3>2. \A q \in Procs : pc[q] \notin RecoverPcs
      BY <3>1 DEF Recovery, Booting, RecoverPcs
    <3> QED BY <2>2, <3>2 DEF Committer, CommitPcs
  <2> QED BY <2>1, <2>2
<1>3. /\ \A q \in Procs : pc'[q] \notin {"install", "clear", "write_log", "write_head"}
      /\ \A q \in Procs : pc'[q] \notin RecoverPcs
      /\ \A q \in Procs : q # p => pc'[q] = pc[q] \/ pc'[q] = "user"
  BY <1>2 DEF Goto, Types, CommitPcs, RecoverPcs
<1>4. ~Booting'
  BY <1>3, LogAssumption DEF Booting, RecoverPcs
<1>5. DiskTypes' /\ Lists'
  BY <1>1, NoEntries, LogAssumption, SMT DEF DiskTypes, Lists
<1>6. Tails'
  BY <1>1, <1>2 DEF Tails, Loops, CommitPcs, RecoverPcs
<1>7. Cache'
  BY <1>1, <1>4, AllHome DEF Cache, Clean
<1>8. CommitPoints' /\ RecoverPoints' /\ NothingLogged'
  BY <1>1, <1>3, LogAssumption DEF CommitPoints, RecoverPoints, NothingLogged,
     RecoverPcs
<1>9. Pinned'
  BY <1>1, NoEntries DEF Pinned
<1> QED BY <1>5, <1>6, <1>7, <1>8, <1>9

\* The header as the power failure left it.
LEMMA ReadHeadDisk ==
  ASSUME LogInv, DiskParts, NEW p \in Procs, read_head(p)
  PROVE  DiskParts'
<1> USE DEF LogInv, DiskParts, read_head
<1>1. p = Boot /\ \A q \in Procs : q # p => pc[q] = "down"
  BY RecoverFacts DEF RecoverPcs
<1>2. /\ UNCHANGED <<home, logblk, head, buf, pins, tail>>
      /\ lh' = head /\ tail[p] = 1
  BY DEF diskVars, cacheVars, Tails, Loops
<1>3. /\ \A q \in Procs : q # p => pc'[q] = "down"
      /\ \/ pc'[p] = "r_clear" /\ head = <<>>
         \/ pc'[p] = "r_install" /\ head # <<>>
  BY <1>1 DEF Goto, Types
<1>4. Booting /\ Booting'
  BY <1>1, <1>3 DEF Booting
<1>5. DiskTypes' /\ Lists'
  BY <1>2 DEF DiskTypes, Lists
<1>6. Tails' /\ Cache' /\ Pinned' /\ NothingLogged'
  BY <1>1, <1>2, <1>3, <1>4 DEF Tails, Loops, Cache, Clean, Pinned, Quiet, NothingLogged
<1>7. CommitPoints'
  BY <1>3 DEF CommitPoints
<1>8. RecoverPoints'
  <2>1. CASE pc'[p] = "r_clear" /\ head = <<>>
    <3>1. \A i \in 1..Len(<<>>) : FALSE
      BY NoEntries, SMT
    <3> QED BY <1>1, <1>2, <2>1, <3>1 DEF RecoverPoints, Installed
  <2>2. CASE pc'[p] = "r_install" /\ head # <<>>
    <3>1. 1 \in 1..Len(head) /\ \A i \in 1..(tail[p] - 1) : FALSE
      BY <1>2, <2>2, EmptySeq, SMT DEF Types
    <3> QED BY <1>1, <1>2, <2>2, <3>1 DEF RecoverPoints, Installed
  <2> QED BY <1>3, <2>1, <2>2
<1> QED BY <1>5, <1>6, <1>7, <1>8

LEMMA FinishDisk ==
  ASSUME LogInv, DiskParts, NEW p \in Procs, finish(p)
  PROVE  DiskParts'
<1> USE DEF LogInv, DiskParts, finish
<1>1. /\ UNCHANGED <<home, logblk, head, buf, pins, lh, tail>> /\ lh = <<>>
  BY DEF diskVars, cacheVars, CommitPoints
<1>2. ~Booting
  BY CommitFacts DEF CommitPcs
<1>3. \A q \in Procs : q # p => pc[q] \notin CommitPcs
  BY DEF Committer, CommitPcs
<1>4. \A q \in Procs : pc'[q] = pc[q] \/ pc'[q] \in {"user", "woken"}
  BY DEF WakeAll
<1>5. \A q \in Procs : pc'[q] \notin CommitPcs
  BY <1>3, <1>4 DEF CommitPcs, WakeAll
<1>6. ~Booting' /\ Quiet
  BY <1>2, <1>3, <1>4, LogAssumption DEF Booting, Quiet, CommitPcs
<1>7. DiskTypes' /\ Lists'
  BY <1>1 DEF DiskTypes, Lists
<1>8. Tails' /\ Cache' /\ Pinned' /\ NothingLogged'
  <2>1. \A q \in Procs : pc[q] \in Loops => pc'[q] = pc[q]
    BY DEF Loops, WakeAll
  <2>2. Tails'
    BY <1>1, <2>1 DEF Tails
  <2>3. Cache' /\ NothingLogged'
    BY <1>1, <1>6 DEF Cache, Clean, NothingLogged
  <2>4. Pinned'
    BY <1>1, <1>6, NoEntries DEF Pinned
  <2> QED BY <2>2, <2>3, <2>4
<1>9. CommitPoints' /\ RecoverPoints'
  BY <1>5, <1>6 DEF CommitPoints, CommitPcs, RecoverPoints, Booting
<1> QED BY <1>7, <1>8, <1>9

LEMMA NextDisk == DiskInv /\ [Next]_vars => DiskParts'
<1> SUFFICES ASSUME LogInv, DiskParts, [Next]_vars PROVE DiskParts'
  BY DEF DiskInv
<1>1. CASE UNCHANGED vars
  <2>1. UNCHANGED <<home, logblk, head, buf, pins, outstanding, committing, lh, pc, wrote, tail>>
    BY <1>1 DEF vars, diskVars, cacheVars, logVars
  <2>2. DiskTypes' /\ Lists' /\ Tails' /\ Cache'
    BY <2>1 DEF DiskParts, DiskTypes, Lists, Tails, Cache, Clean, Booting
  <2>3. CommitPoints' /\ RecoverPoints'
    BY <2>1 DEF DiskParts, CommitPoints, RecoverPoints, Saved, Installed, Data
  <2>4. Pinned' /\ NothingLogged'
    BY <2>1 DEF DiskParts, Pinned, Quiet, NothingLogged, Booting
  <2> QED BY <2>2, <2>3, <2>4 DEF DiskParts
<1>2. CASE Crash
  BY <1>2, CrashDisk
<1>3. ASSUME NEW p \in Procs, KernelStep(p) PROVE DiskParts'
  <2>1. CASE write_log(p)
    BY <2>1, WriteLogDisk
  <2>2. CASE write_head(p)
    BY <2>2, WriteHeadDisk
  <2>3. CASE install_trans(p)
    <3>1. pc[p] = "install" \/ pc[p] = "r_install"
      BY <2>3 DEF install_trans
    <3> QED BY <2>3, <3>1, InstallDisk, RecoverDisk
  <2>4. CASE clear(p)
    BY <2>4, ClearDisk
  <2>5. CASE finish(p)
    BY <2>5, FinishDisk
  <2>6. CASE read_head(p)
    BY <2>6, ReadHeadDisk
  <2>7. CASE begin_op(p)
    BY <2>7, BeginDisk
  <2> QED BY <1>3, <2>1, <2>2, <2>3, <2>4, <2>5, <2>6, <2>7 DEF KernelStep
<1>4. ASSUME NEW p \in Procs, end_op(p) \/ begin_op(p) PROVE DiskParts'
  BY <1>4, EndDisk, BeginDisk
<1>5. ASSUME NEW p \in Procs, NEW b \in Blocks, NEW v \in Values, log_write(p, b, v)
      PROVE  DiskParts'
  BY <1>5, WriteDisk
<1>6. ASSUME NEW b \in Blocks, (\E p \in Procs : bread(p, b)) \/ Recycle(b)
      PROVE  DiskParts'
  BY <1>6, CacheDisk
<1>7. ASSUME NEW p \in Procs, NEW b \in Blocks, bread(p, b) PROVE DiskParts'
  BY <1>6, <1>7
<1> QED BY <1>1, <1>2, <1>3, <1>4, <1>5, <1>6, <1>7 DEF Next

\* DiskInv is inductive.
LEMMA DiskInvariance == Spec => []DiskInv
<1>1. Init => DiskInv
  BY InitInv, InitDisk DEF DiskInv
<1>2. DiskInv /\ [Next]_vars => DiskInv'
  BY NextInv, NextDisk DEF DiskInv
<1> QED BY <1>1, <1>2, PTL DEF Spec

-----------------------------------------------------------------------------
(* What a recovery makes of a header h, of the log l and of the disk d.      *)
Redo(h, l, d) ==
  [b \in Blocks |-> IF b \in Range(h) THEN l[CHOOSE i \in DOMAIN h : h[i] = b]
                                      ELSE d[b]]

\* The choice is unique: no block is in the header twice.
LEMMA RedoEntry ==
  ASSUME NEW h \in Seq(Blocks), Distinct(h), NEW l, NEW d, NEW i \in 1..Len(h)
  PROVE  Redo(h, l, d)[h[i]] = l[i]
<1>1. DOMAIN h = 1..Len(h) /\ h[i] \in Blocks /\ h[i] \in Range(h)
  BY Entries
<1>2. (CHOOSE j \in DOMAIN h : h[j] = h[i]) = i
  <2>1. \A j \in DOMAIN h : h[j] = h[i] <=> j = i
    BY <1>1 DEF Distinct
  <2> QED BY <1>1, <2>1
<1> QED BY <1>1, <1>2 DEF Redo

\* When every entry is at home already, a recovery changes nothing.
LEMMA RedoNothing ==
  ASSUME NEW h \in Seq(Blocks), Distinct(h), NEW l, NEW d \in [Blocks -> Values],
         \A i \in 1..Len(h) : d[h[i]] = l[i]
  PROVE  Redo(h, l, d) = d
<1>1. ASSUME NEW b \in Blocks PROVE Redo(h, l, d)[b] = d[b]
  <2>1. CASE b \in Range(h)
    <3>1. PICK i \in 1..Len(h) : h[i] = b
      BY <2>1, Entries
    <3> QED BY <3>1, RedoEntry
  <2>2. CASE b \notin Range(h)
    BY <2>2 DEF Redo
  <2> QED BY <2>1, <2>2
<1> QED BY <1>1 DEF Redo

LEMMA RedoEmpty == ASSUME NEW l, NEW d \in [Blocks -> Values]
                   PROVE  Redo(<<>>, l, d) = d
BY NoEntries DEF Redo

LEMMA RecoveredIsRedo == Recovered = Redo(head, logblk, home)
BY DEF Recovered, Redo

\* What everybody sees while the log is idle is on the disk.
LEMMA SeenAtRest ==
  ASSUME LogInv, DiskParts, outstanding = 0, ~committing
  PROVE  Seen = Recovered
<1> USE DEF LogInv, DiskParts
<1>1. CASE Booting
  BY <1>1 DEF Seen
<1>2. CASE ~Booting
  <2>1. lh = <<>>
    BY <1>2 DEF NothingLogged
  <2>2. head = <<>>
    BY <1>2 DEF Pinned, Quiet, Committer, CommitPcs
  <2>3. \A b \in Blocks : Data(b) = home[b]
    BY <2>1, NoEntries DEF Cache, Clean, Data
  <2>4. Recovered = home
    BY <2>2, RecoveredIsRedo, RedoEmpty DEF DiskTypes
  <2> QED BY <1>2, <2>3, <2>4 DEF Seen, DiskTypes
<1> QED BY <1>1, <1>2

\* When the last end_op() has returned, what it and all calls before it wrote is
\* found by whoever recovers from a power failure (log.c:26).
THEOREM CommittedIsDurable == Spec => []Durable
<1>1. DiskInv => Durable
  BY SeenAtRest DEF DiskInv, Durable
<1> QED BY <1>1, DiskInvariance, PTL

-----------------------------------------------------------------------------
(* The refinement: write_head() is the abstract Commit, each log_write() an  *)
(* abstract Write; no copy from the cache to the log, from the log to the    *)
(* blocks or in the recovery shows.                                          *)

abstractVars == <<Recovered, Seen, Ops>>

LEMMA InitRefines == Init => Abstract!Init
<1> SUFFICES ASSUME Init PROVE Abstract!Init
  OBVIOUS
<1>1. Recovered = home
  BY RecoveredIsRedo, RedoEmpty, LogAssumption DEF Init
<1>2. Seen = Recovered
  BY LogAssumption DEF Init, BootPc, Seen, Booting
<1> QED BY <1>1, <1>2, LogAssumption DEF Init, BootPc, Abstract!Init

\* The disk and the data of the blocks stay as they are.
LEMMA NothingShown ==
  ASSUME UNCHANGED <<home, logblk, head>>, Booting <=> Booting', ~Booting,
         \A d \in Blocks : Data(d)' = Data(d)
  PROVE  UNCHANGED <<Recovered, Seen>>
BY DEF Recovered, Seen

LEMMA CrashRefines ==
  ASSUME Crash PROVE Abstract!Crash
<1>1. Recovered' = Recovered
  BY DEF Crash, diskVars, Recovered
<1>2. Booting'
  BY LogAssumption DEF Crash, BootPc, Booting
<1>3. Seen' = Recovered'
  BY <1>2 DEF Seen
<1>4. Ops' = {}
  BY DEF Crash, BootPc, Ops
<1> QED BY <1>1, <1>3, <1>4 DEF Abstract!Crash, Ops

LEMMA BeginRefines ==
  ASSUME LogInv, DiskParts, NEW p \in Procs, begin_op(p)
  PROVE  Abstract!Begin(p) \/ UNCHANGED abstractVars
<1> USE DEF begin_op, Goto, LogInv
<1>1. ~Booting /\ ~Booting'
  <2>1. ~Booting
    BY DEF Recovery, Booting
  <2>2. pc'[Boot] = pc[Boot] \/ pc'[Boot] \in {"asleep", "op"}
    BY LogAssumption DEF Types
  <2> QED BY <2>1, <2>2 DEF Booting
<1>2. UNCHANGED <<Recovered, Seen>>
  BY <1>1, NothingShown DEF diskVars, cacheVars, Data
<1>3. p \notin Ops /\ (Ops' = Ops \/ Ops' = Ops \union {p})
  BY DEF Ops, Types
<1> QED BY <1>2, <1>3 DEF abstractVars, Abstract!Begin, Ops

LEMMA WriteRefines ==
  ASSUME LogInv, DiskParts, NEW p \in Procs, NEW b \in Blocks, NEW v \in Values,
         log_write(p, b, v)
  PROVE  Abstract!Write(p, b, v)
<1> USE DEF log_write
<1>1. ~Booting /\ ~Booting'
  BY CallFacts, LogAssumption DEF Booting, RecoverPcs
<1>2. Recovered' = Recovered /\ Ops' = Ops /\ p \in Ops
  BY DEF diskVars, Recovered, Ops
<1>3. \A d \in Blocks : Data(d)' = IF d = b THEN v ELSE Data(d)
  BY LogAssumption DEF Data, DiskParts, DiskTypes, diskVars
<1>4. Seen' = [Seen EXCEPT ![b] = v]
  BY <1>1, <1>3 DEF Seen
<1> QED BY <1>2, <1>4 DEF Abstract!Write, Ops

LEMMA EndRefines ==
  ASSUME LogInv, DiskParts, NEW p \in Procs, end_op(p)
  PROVE  Abstract!End(p)
<1> USE DEF end_op
<1>1. ~Booting /\ ~Booting'
  <2>1. ~Booting
    BY CallFacts, LogAssumption DEF Booting, RecoverPcs
  <2>2. pc'[Boot] \notin RecoverPcs
    <3>1. pc[Boot] \notin RecoverPcs
      BY CallFacts, LogAssumption
    <3>2. CASE outstanding = 1
      BY <3>1, <3>2, LogAssumption DEF LogInv, Types, Goto, CommitPoint, RecoverPcs
    <3>3. CASE outstanding # 1
      BY <3>1, <3>3, LogAssumption DEF WakeAll, RecoverPcs
    <3> QED BY <3>2, <3>3
  <2> QED BY <2>1, <2>2 DEF Booting, RecoverPcs
<1>2. UNCHANGED <<Recovered, Seen>>
  BY <1>1, NothingShown DEF diskVars, cacheVars, Data
<1>3. p \in Ops /\ Ops' = Ops \ {p}
  BY DEF Ops, LogInv, Types, Goto, WakeAll, CommitPoint
<1> QED BY <1>2, <1>3 DEF Abstract!End, Ops

\* The real commit: the header names entries that hold what is seen, and what it
\* does not name is at home.
LEMMA CommitRefines ==
  ASSUME LogInv, DiskParts, NEW p \in Procs, write_head(p)
  PROVE  Abstract!Commit
<1> USE DEF LogInv, DiskParts, write_head
<1>1. Ops = {} /\ ~Booting
  BY CommitFacts DEF CommitPcs
<1>2. Ops' = {} /\ ~Booting'
  BY <1>1 DEF Ops, Booting, Goto, Types
<1>3. \A d \in Blocks : Data(d)' = Data(d)
  BY DEF Data, cacheVars
<1>4. Seen' = Seen /\ Seen = [d \in Blocks |-> Data(d)]
  BY <1>1, <1>2, <1>3 DEF Seen
<1>5. Recovered' = Redo(lh, logblk, home)
  BY DEF Recovered, Redo
<1>6. ASSUME NEW d \in Blocks PROVE Redo(lh, logblk, home)[d] = Data(d)
  <2>1. CASE d \in Range(lh)
    <3>1. PICK i \in 1..Len(lh) : lh[i] = d
      BY <2>1, Entries DEF Types
    <3>2. Redo(lh, logblk, home)[d] = logblk[i]
      BY <3>1, RedoEntry DEF Types, Lists
    <3> QED BY <3>1, <3>2 DEF CommitPoints, Saved
  <2>2. CASE d \notin Range(lh)
    BY <2>2 DEF Redo, Cache, Clean, Data
  <2> QED BY <2>1, <2>2
<1>7. Recovered' = Seen
  BY <1>4, <1>5, <1>6 DEF Redo
<1> QED BY <1>1, <1>2, <1>4, <1>7 DEF Abstract!Commit, Ops

\* One more copy in the log, which no header names yet.
LEMMA WriteLogShowsNothing ==
  ASSUME LogInv, DiskParts, NEW p \in Procs, write_log(p)
  PROVE  UNCHANGED abstractVars
<1> USE DEF LogInv, DiskParts, write_log
<1>1. ~Booting /\ ~Booting' /\ Ops' = Ops
  <2>1. Ops = {} /\ ~Booting
    BY CommitFacts DEF CommitPcs
  <2>2. \A q \in Procs : pc'[q] = pc[q] \/ pc'[q] = "write_head"
    BY DEF NextEntry, Goto, Types
  <2> QED BY <2>1, <2>2, LogAssumption DEF Ops, Booting
<1>2. \A q \in Procs : pc[q] \notin {"install", "clear"}
  BY DEF Committer, CommitPcs
<1>3. head = <<>>
  BY <1>1, <1>2 DEF Pinned, Quiet
<1>4. \A d \in Blocks : Data(d)' = Data(d)
  <2>1. lh[tail[p]] \in Blocks /\ Data(lh[tail[p]]) \in Values
    BY InLog DEF CommitPoints
  <2> QED BY <2>1, LogAssumption DEF Loaded, Data, DiskTypes
<1>5. Recovered = home /\ Recovered' = home
  <2>1. head' = <<>> /\ home' = home
    BY <1>3
  <2>2. \A b \in Blocks : b \notin Range(<<>>)
    BY NoEntries
  <2>3. home = [b \in Blocks |-> home[b]]
    BY DEF DiskTypes
  <2> QED BY <1>3, <2>1, <2>2, <2>3 DEF Recovered
<1>6. Seen' = Seen
  BY <1>1, <1>4 DEF Seen
<1> QED BY <1>1, <1>5, <1>6 DEF abstractVars

\* A home that the header names is not looked at by a recovery, and gets what its
\* buffer holds.
LEMMA InstallShowsNothing ==
  ASSUME LogInv, DiskParts, NEW p \in Procs, install_trans(p)
  PROVE  UNCHANGED abstractVars
<1> DEFINE t == tail[p]
<1> USE DEF LogInv, DiskParts
<1>1. CASE pc[p] = "install"
  <2>1. /\ head = lh /\ t \in 1..Len(lh) /\ Saved(Len(lh)) /\ Installed(t - 1)
    BY <1>1 DEF CommitPoints
  <2>2. Ops = {} /\ ~Booting
    BY <1>1, CommitFacts DEF CommitPcs
  <2>3. Ops' = Ops /\ ~Booting'
    <3>1. \A q \in Procs : pc'[q] = pc[q] \/ pc'[q] = "clear"
      BY <1>1 DEF install_trans, NextEntry, Goto, Types
    <3> QED BY <2>2, <3>1, LogAssumption DEF Ops, Booting
  <2>4. /\ \A d \in Blocks : d # lh[t] => UNCHANGED <<home[d], buf[d]>>
        /\ buf'[lh[t]] = logblk[t] /\ home' \in [Blocks -> Values]
        /\ UNCHANGED <<logblk, head>>
    BY <2>1, Copied
  <2>5. lh[t] \in Range(head) /\ logblk[t] = Data(lh[t]) /\ logblk[t] \in Values
    BY <2>1, InLog DEF Saved
  <2>6. \A d \in Blocks : Data(d)' = Data(d)
    BY <2>4, <2>5, LogAssumption DEF Data
  <2>7. Seen' = Seen
    BY <2>2, <2>3, <2>6 DEF Seen
  <2>8. Recovered' = Recovered
    BY <2>4, <2>5 DEF Recovered
  <2> QED BY <2>3, <2>7, <2>8 DEF abstractVars
<1>2. CASE pc[p] = "r_install"
  <2>1. p = Boot /\ Ops = {}
    BY <1>2, RecoverFacts DEF RecoverPcs
  <2>2. head = lh /\ t \in 1..Len(lh) /\ Installed(t - 1) /\ Booting
    BY <1>2, <2>1 DEF RecoverPoints, Booting
  <2>3. Ops' = Ops /\ Booting'
    <3>1. \A q \in Procs : pc'[q] = pc[q] \/ pc'[q] = "r_clear"
      BY <1>2 DEF install_trans, NextEntry, Goto, Types
    <3>2. pc'[p] \in {"r_install", "r_clear"}
      BY <1>2, <3>1
    <3> QED BY <2>1, <3>1, <3>2 DEF Ops, Booting
  <2>4. /\ \A d \in Blocks : d # lh[t] => UNCHANGED home[d]
        /\ UNCHANGED <<logblk, head>>
    BY <2>2, Copied
  <2>5. lh[t] \in Range(head)
    BY <2>2, InLog
  <2>6. Recovered' = Recovered
    BY <2>4, <2>5 DEF Recovered
  <2> QED BY <2>2, <2>3, <2>6 DEF abstractVars, Seen
<1> QED BY <1>1, <1>2 DEF install_trans

\* The header goes when every home holds what it would be given.
LEMMA ClearShowsNothing ==
  ASSUME LogInv, DiskParts, NEW p \in Procs, clear(p)
  PROVE  UNCHANGED abstractVars
<1> USE DEF LogInv, DiskParts, clear
<1>1. head = lh /\ Installed(Len(lh)) /\ \A b \in Blocks : Clean(b)
  BY AllHome
<1>2. Recovered = home
  <2>1. head \in Seq(Blocks) /\ Distinct(head) /\ home \in [Blocks -> Values]
    BY DEF Types, Lists, DiskTypes
  <2>2. \A i \in 1..Len(head) : home[head[i]] = logblk[i]
    BY <1>1 DEF Installed
  <2>3. Redo(head, logblk, home) = home
    BY <2>1, <2>2, RedoNothing
  <2> QED BY <2>3, RecoveredIsRedo
<1>3. Recovered' = home
  BY NoEntries DEF Recovered, DiskTypes
<1>4. \A b \in Blocks : Data(b)' = home[b] /\ Data(b) = home[b]
  BY <1>1 DEF Data, Clean, cacheVars
<1>5. Seen = home
  BY <1>2, <1>4 DEF Seen, DiskTypes
<1>6. Seen' = home
  BY <1>3, <1>4 DEF Seen, DiskTypes
<1>7. Ops = {} /\ Ops' = {}
  <2>1. CASE pc[p] = "clear"
    BY <2>1, CommitFacts DEF CommitPcs, Ops, Goto, Types
  <2>2. CASE pc[p] = "r_clear"
    BY <2>2, RecoverFacts DEF RecoverPcs, Ops
  <2> QED BY <2>1, <2>2
<1> QED BY <1>2, <1>3, <1>5, <1>6, <1>7 DEF abstractVars

\* The end of end_op(), the reading of the header, and the cache.
LEMMA FinishShowsNothing ==
  ASSUME LogInv, DiskParts, NEW p \in Procs, finish(p)
  PROVE  UNCHANGED abstractVars
<1> USE DEF finish
<1>1. Ops = {} /\ ~Booting
  BY CommitFacts DEF CommitPcs
<1>2. \A q \in Procs : pc'[q] = pc[q] \/ pc'[q] \in {"user", "woken"}
  BY DEF WakeAll
<1>3. Ops' = Ops /\ ~Booting'
  BY <1>1, <1>2, LogAssumption DEF Ops, Booting
<1>4. UNCHANGED <<Recovered, Seen>>
  BY <1>1, <1>3, NothingShown DEF diskVars, cacheVars, Data
<1> QED BY <1>3, <1>4 DEF abstractVars

LEMMA ReadHeadShowsNothing ==
  ASSUME LogInv, DiskParts, NEW p \in Procs, read_head(p)
  PROVE  UNCHANGED abstractVars
<1> USE DEF read_head
<1>1. p = Boot /\ Ops = {} /\ Booting
  BY RecoverFacts DEF RecoverPcs, Booting
<1>2. /\ pc'[p] \in {"r_install", "r_clear"}
      /\ \A q \in Procs : q # p => pc'[q] = pc[q]
  BY DEF Goto, LogInv, Types
<1>3. Ops' = Ops /\ Booting'
  BY <1>1, <1>2 DEF Ops, Booting
<1>4. Recovered' = Recovered
  BY DEF diskVars, Recovered
<1> QED BY <1>1, <1>3, <1>4 DEF abstractVars, Seen

LEMMA CacheShowsNothing ==
  ASSUME LogInv, DiskParts, NEW b \in Blocks,
         (\E p \in Procs : bread(p, b)) \/ Recycle(b)
  PROVE  UNCHANGED abstractVars
<1>1. UNCHANGED <<home, logblk, head, pc>>
  BY DEF Recycle, bread, diskVars
<1>2. Ops' = Ops /\ Booting' = Booting /\ Recovered' = Recovered
  BY <1>1 DEF Ops, Booting, Recovered
<1>3. CASE Booting
  BY <1>2, <1>3 DEF abstractVars, Seen
<1>4. CASE ~Booting
  <2>1. \A d \in Blocks : Data(d)' = Data(d)
    BY <1>4, SameData
  <2> QED BY <1>1, <1>2, <1>4, <2>1, NothingShown DEF abstractVars
<1> QED BY <1>3, <1>4

\* Every step is a step of the abstract disk or a stutter.
LEMMA StepRefines ==
  DiskInv /\ [Next]_vars => [Abstract!Next]_abstractVars
<1> SUFFICES ASSUME LogInv, DiskParts, [Next]_vars
             PROVE  Abstract!Next \/ UNCHANGED abstractVars
  BY DEF DiskInv
<1>1. CASE UNCHANGED vars
  BY <1>1 DEF vars, diskVars, cacheVars, logVars, abstractVars, Recovered, Seen,
     Booting, Data, Ops
<1>2. CASE Crash
  BY <1>2, CrashRefines DEF Abstract!Next
<1>3. ASSUME NEW p \in Procs, begin_op(p)
      PROVE  Abstract!Next \/ UNCHANGED abstractVars
  BY <1>3, BeginRefines DEF Abstract!Next
<1>4. ASSUME NEW p \in Procs, KernelStep(p)
      PROVE  Abstract!Next \/ UNCHANGED abstractVars
  <2>1. CASE write_log(p)
    BY <2>1, WriteLogShowsNothing
  <2>2. CASE write_head(p)
    BY <2>2, CommitRefines DEF Abstract!Next
  <2>3. CASE install_trans(p)
    BY <2>3, InstallShowsNothing
  <2>4. CASE clear(p)
    BY <2>4, ClearShowsNothing
  <2>5. CASE finish(p)
    BY <2>5, FinishShowsNothing
  <2>6. CASE read_head(p)
    BY <2>6, ReadHeadShowsNothing
  <2>7. CASE begin_op(p)
    BY <2>7, <1>3
  <2> QED BY <1>4, <2>1, <2>2, <2>3, <2>4, <2>5, <2>6, <2>7 DEF KernelStep
<1>5. ASSUME NEW p \in Procs, end_op(p) PROVE Abstract!Next
  BY <1>5, EndRefines DEF Abstract!Next
<1>6. ASSUME NEW p \in Procs, NEW b \in Blocks, NEW v \in Values, log_write(p, b, v)
      PROVE  Abstract!Next
  BY <1>6, WriteRefines DEF Abstract!Next
<1>7. ASSUME NEW b \in Blocks, (\E p \in Procs : bread(p, b)) \/ Recycle(b)
      PROVE  UNCHANGED abstractVars
  BY <1>7, CacheShowsNothing
<1>8. ASSUME NEW p \in Procs, NEW b \in Blocks, bread(p, b)
      PROVE  UNCHANGED abstractVars
  BY <1>7, <1>8
<1> QED BY <1>1, <1>2, <1>3, <1>4, <1>5, <1>6, <1>7, <1>8 DEF Next

\* The calls between two commits are atomic, wherever power is lost, and nobody
\* ever sees anything else (log.c:10-22).
THEOREM Refinement == Spec => ImplementsAtomicDisk
<1>1. Init /\ DiskInv => Abstract!Init
  BY InitRefines
<1>2. DiskInv /\ [Next]_vars => [Abstract!Next]_<<Recovered, Seen, Ops>>
  BY StepRefines DEF abstractVars
<1> QED BY <1>1, <1>2, DiskInvariance, PTL DEF Spec, ImplementsAtomicDisk,
           Abstract!Spec, Ops

-----------------------------------------------------------------------------
(* BlockIO: its states.                                                    *)

Points == {"idle", "lock", "use", "rw", "io", "release", "unref"}
Sleeps == {"sleep_lock", "sleep_free", "sleep_io"}
Writers == Tasks \union {NoTask}
Buffer == [blockno : BlockNos \union {NoBlock}, valid : BOOLEAN, refcnt : Nat,
           data : Writers, holder : Writers, disk : BOOLEAN]

IOTypes ==
  /\ bcache \in [Bufs -> Buffer]
  /\ lru \in [Bufs -> Bufs] /\ \A b \in Bufs : \E i \in Bufs : lru[i] = b
  /\ free \subseteq Descriptors
  /\ info \in [Descriptors -> 0..NBUF]
  /\ avail \subseteq [id : Descriptors, buf : Bufs, blockno : BlockNos, write : BOOLEAN]
  /\ used \in Seq(Descriptors)
  /\ platter \in [BlockNos -> Writers] /\ newest \in [BlockNos -> Writers]
  /\ at \in [Tasks -> Points \union Sleeps]
  /\ mine \in [Tasks -> 0..NBUF]
  /\ idx \in [Tasks -> {<<>>} \union (Descriptors \X Descriptors \X Descriptors)]
  /\ todo \in [Tasks -> Seq(Call)]

\* Where t is, asleep or not, and what it has still to do after the call it has
\* almost finished.
Woke(l)  == IF l \in Sleeps THEN Awake(l) ELSE l
Stage(t) == Woke(at[t])
Locked   == {"use", "rw", "io", "release"}
Rest(t)  == IF Stage(t) \in {"release", "unref"} THEN Tail(todo[t]) ELSE todo[t]

Callers ==
  \A t \in Tasks :
    /\ Stage(t) = "idle" <=> mine[t] = 0
    /\ Stage(t) # "idle" =>
         todo[t] # <<>> /\ bcache[mine[t]].blockno = Head(todo[t]).blockno
    /\ Paired(Rest(t))
    /\ Stage(t) \in Locked => bcache[mine[t]].holder = t
    /\ Stage(t) = "use" => bcache[mine[t]].valid = TRUE
    /\ Stage(t) \in {"rw", "io"} /\ bcache[mine[t]].valid = TRUE =>
         Head(todo[t]).op = "install"

Buffers ==
  /\ \A a, b \in Bufs : bcache[a].blockno = bcache[b].blockno /\ bcache[a].blockno # NoBlock => a = b
  /\ \A b \in Bufs :
       /\ bcache[b].valid = TRUE =>
            bcache[b].blockno # NoBlock /\ bcache[b].data = newest[bcache[b].blockno]
       /\ \A t \in Tasks : bcache[b].holder = t => mine[t] = b /\ Stage(t) \in Locked

\* Those who have yet to unpin the block of buffer b.
Pinners(b) == {t \in Tasks : Owed(Rest(t), bcache[b].blockno)}
RefsCounted    == \A b \in Bufs : bcache[b].refcnt = Cardinality(Users(b)) + Cardinality(Pinners(b))

Stored ==
  \A n \in BlockNos :
    /\ platter[n] = newest[n] \/ \E t \in Tasks : Owed(Rest(t), n)
    /\ \A t \in Tasks : Owed(Rest(t), n) =>
         \E b \in Bufs : bcache[b].blockno = n /\ bcache[b].valid = TRUE

Held(t) == IF idx[t] = <<>> THEN {} ELSE {idx[t][1], idx[t][2], idx[t][3]}

Chains ==
  \A t \in Tasks :
    /\ Stage(t) = "io" <=> idx[t] # <<>>
    /\ \A d \in Held(t) : d \notin free
    /\ \A u \in Tasks : \A d \in Held(t) : d \in Held(u) => u = t
    /\ idx[t] # <<>> => info[idx[t][1]] = mine[t]

\* The request of t is with the device; has been served, and not been seen.
Asked(t)  == \E r \in avail : r.id = idx[t][1]
Served(t) == \E i \in DOMAIN used : used[i] = idx[t][1]

Requests ==
  /\ \A r \in avail : \E t \in Tasks :
       /\ idx[t] # <<>> /\ r.id = idx[t][1] /\ r.buf = mine[t]
       /\ r.blockno = bcache[mine[t]].blockno /\ r.write = bcache[mine[t]].valid
  /\ \A i \in DOMAIN used : \E t \in Tasks : idx[t] # <<>> /\ used[i] = idx[t][1]
  /\ \A i, j \in DOMAIN used : used[i] = used[j] => i = j
  /\ \A t \in Tasks : idx[t] # <<>> =>
       /\ Asked(t) \/ Served(t) => bcache[mine[t]].disk = TRUE
       /\ ~(Asked(t) /\ Served(t))
       /\ ~Asked(t) => IF bcache[mine[t]].valid = TRUE
                         THEN platter[bcache[mine[t]].blockno] = newest[bcache[mine[t]].blockno]
                         ELSE bcache[mine[t]].data = newest[bcache[mine[t]].blockno]

IOInv == IOTypes /\ Callers /\ Buffers /\ RefsCounted /\ Stored /\ Chains /\ Requests
-----------------------------------------------------------------------------
(* Programs.                                                               *)

\* The provers' way to an induction: a set of naturals has a least element.
LEMMA Least ==
  ASSUME NEW T, T \subseteq Nat, T # {}
  PROVE  \E m \in T : \A k \in T : m <= k
<1> DEFINE U == {0..n : n \in T}
<1>1. U \subseteq FiniteSubsetsOf(Nat)
  <2> SUFFICES ASSUME NEW n \in T PROVE 0..n \in FiniteSubsetsOf(Nat)
    OBVIOUS
  <2>1. n \in Int /\ 0 \in Int
    OBVIOUS
  <2>2. IsFiniteSet(0..n)
    BY <2>1, FS_Interval
  <2> QED BY <2>2 DEF FiniteSubsetsOf
<1>2. U # {}
  OBVIOUS
<1>3. \E x \in U : \A y \in U : ~ (<<y, x>> \in StrictSubsetOrdering(Nat))
  <2> HIDE DEF U
  <2> QED BY <1>1, <1>2, FS_StrictSubsetOrderingWellFounded, WFMin
<1>4. PICK m \in T : \A k \in T : ~ (<<0..k, 0..m>> \in StrictSubsetOrdering(Nat))
  BY <1>3
<1>5. ASSUME NEW k \in T, k < m PROVE FALSE
  <2>1. 0..k \subseteq 0..m /\ m \in 0..m /\ m \notin 0..k
    BY <1>5
  <2>2. 0..k # 0..m
    BY <2>1
  <2>3. 0..k \subseteq Nat /\ 0..m \subseteq Nat
    OBVIOUS
  <2> QED BY <1>4, <2>1, <2>2, <2>3 DEF StrictSubsetOrdering
<1> QED BY <1>5

\* The parts of a call sequence after its first call.
LEMMA Shifted ==
  ASSUME NEW s \in Seq(Call), s # <<>>
  PROVE  /\ Tail(s) \in Seq(Call) /\ Head(s) = s[1] /\ s[1] \in Call
         /\ Len(s) \in Nat /\ Len(s) >= 1 /\ Len(Tail(s)) = Len(s) - 1
         /\ DOMAIN s = 1..Len(s) /\ DOMAIN Tail(s) = 1..Len(s)-1
         /\ \A i \in 1..Len(s)-1 : Tail(s)[i] = s[i + 1]
<1>1. Tail(s) \in Seq(Call) /\ Len(Tail(s)) = Len(s) - 1 /\ Head(s) = s[1] /\ Len(s) >= 1
  OBVIOUS
<1> QED BY <1>1

LEMMA PairedTail ==
  ASSUME NEW s \in Seq(Call), s # <<>>, Paired(s)
  PROVE  Paired(Tail(s))
<1> DEFINE r == Tail(s)
<1>1. /\ Len(s) \in Nat /\ Len(s) >= 1 /\ Len(r) = Len(s) - 1
      /\ DOMAIN s = 1..Len(s) /\ DOMAIN r = 1..Len(s)-1
      /\ \A i \in 1..Len(s)-1 : r[i] = s[i + 1]
  BY Shifted
<1> HIDE DEF r
<1>2. ASSUME NEW n \in BlockNos, NEW i \in DOMAIN r, r[i] = Pins(n)
      PROVE  \E k \in i+1..Len(r) : r[k] = Unpins(n) /\ \A j \in i+1..k-1 : r[j] # Pins(n)
  <2>1. i + 1 \in DOMAIN s /\ s[i + 1] = Pins(n)
    BY <1>1, <1>2
  <2>2. PICK k \in (i+1)+1..Len(s) : s[k] = Unpins(n) /\ \A j \in (i+1)+1..k-1 : s[j] # Pins(n)
    BY <2>1 DEF Paired
  <2>3. k - 1 \in i+1..Len(r) /\ r[k - 1] = Unpins(n)
    BY <1>1, <2>2
  <2>4. ASSUME NEW j \in i+1..(k-1)-1 PROVE r[j] # Pins(n)
    <3>1. j + 1 \in (i+1)+1..k-1 /\ r[j] = s[j + 1]
      BY <1>1, <2>2
    <3> QED BY <2>2, <3>1
  <2> QED BY <2>3, <2>4
<1>3. ASSUME NEW n \in BlockNos, NEW i \in DOMAIN r, NEW k \in DOMAIN r, i < k,
             r[i] = Unpins(n), r[k] = Unpins(n)
      PROVE  \E j \in i+1..k-1 : r[j] = Pins(n)
  <2>1. /\ i + 1 \in DOMAIN s /\ s[i + 1] = Unpins(n) /\ k + 1 \in DOMAIN s /\ s[k + 1] = Unpins(n)
        /\ i + 1 < k + 1
    BY <1>1, <1>3
  <2>2. PICK j \in (i+1)+1..(k+1)-1 : s[j] = Pins(n)
    BY <2>1 DEF Paired
  <2>3. j - 1 \in i+1..k-1 /\ r[j - 1] = s[j]
    BY <1>1, <2>2
  <2> QED BY <2>2, <2>3
<1> QED BY <1>2, <1>3 DEF Paired, r

\* What the first call changes of what is owed.
LEMMA OwedTail ==
  ASSUME NEW s \in Seq(Call), s # <<>>, Paired(s), NEW n \in BlockNos
  PROVE  /\ Head(s) = Pins(n) => ~Owed(s, n) /\ Owed(Tail(s), n)
         /\ Head(s) = Unpins(n) => Owed(s, n) /\ ~Owed(Tail(s), n)
         /\ Head(s) \notin {Pins(n), Unpins(n)} => (Owed(Tail(s), n) <=> Owed(s, n))
<1> DEFINE r == Tail(s)
<1>1. /\ Len(s) \in Nat /\ Len(s) >= 1 /\ Len(r) = Len(s) - 1
      /\ DOMAIN s = 1..Len(s) /\ DOMAIN r = 1..Len(s)-1
      /\ Head(s) = s[1]
      /\ \A i \in 1..Len(s)-1 : r[i] = s[i + 1]
  BY Shifted
<1> HIDE DEF r
<1>2. Pins(n) # Unpins(n)
  BY DEF Pins, Unpins
<1>3. CASE Head(s) = Pins(n)
  <2>1. ~Owed(s, n)
    BY <1>1, <1>2, <1>3 DEF Owed
  <2>2. PICK k \in 2..Len(s) : s[k] = Unpins(n) /\ \A j \in 2..k-1 : s[j] # Pins(n)
    BY <1>1, <1>3 DEF Paired
  <2>3. k - 1 \in DOMAIN r /\ r[k - 1] = Unpins(n)
    BY <1>1, <2>2
  <2>4. ASSUME NEW j \in 1..(k-1)-1 PROVE r[j] # Pins(n)
    <3>1. j + 1 \in 2..k-1 /\ r[j] = s[j + 1]
      BY <1>1, <2>2
    <3> QED BY <2>2, <3>1
  <2> QED BY <1>2, <1>3, <2>1, <2>3, <2>4 DEF Owed, r
<1>4. CASE Head(s) = Unpins(n)
  <2>1. Owed(s, n)
    <3>1. 1 \in DOMAIN s /\ s[1] = Unpins(n) /\ \A j \in 1..1-1 : s[j] # Pins(n)
      BY <1>1, <1>4
    <3> QED BY <3>1 DEF Owed
  <2>2. ASSUME NEW i \in DOMAIN r, r[i] = Unpins(n), \A j \in 1..i-1 : r[j] # Pins(n) PROVE FALSE
    <3>1. i + 1 \in DOMAIN s /\ s[i + 1] = Unpins(n) /\ 1 \in DOMAIN s /\ s[1] = Unpins(n) /\ 1 < i + 1
      BY <1>1, <1>4, <2>2
    <3>2. PICK j \in 1+1..(i+1)-1 : s[j] = Pins(n)
      BY <3>1 DEF Paired
    <3>3. j - 1 \in 1..i-1 /\ r[j - 1] = s[j]
      BY <1>1, <2>2, <3>2
    <3> QED BY <2>2, <3>2, <3>3
  <2> QED BY <1>2, <1>4, <2>1, <2>2 DEF Owed, r
<1>5. CASE Head(s) \notin {Pins(n), Unpins(n)}
  <2>1. ASSUME NEW i \in DOMAIN s, s[i] = Unpins(n), \A j \in 1..i-1 : s[j] # Pins(n)
        PROVE  Owed(r, n)
    <3>1. i - 1 \in DOMAIN r /\ r[i - 1] = Unpins(n)
      BY <1>1, <1>5, <2>1
    <3>2. ASSUME NEW j \in 1..(i-1)-1 PROVE r[j] # Pins(n)
      <4>1. j + 1 \in 1..i-1 /\ r[j] = s[j + 1]
        BY <1>1, <2>1
      <4> QED BY <2>1, <4>1
    <3> QED BY <3>1, <3>2 DEF Owed
  <2>2. ASSUME NEW i \in DOMAIN r, r[i] = Unpins(n), \A j \in 1..i-1 : r[j] # Pins(n)
        PROVE  Owed(s, n)
    <3>1. i + 1 \in DOMAIN s /\ s[i + 1] = Unpins(n)
      BY <1>1, <2>2
    <3>2. ASSUME NEW j \in 1..(i+1)-1 PROVE s[j] # Pins(n)
      <4>1. CASE j = 1
        BY <1>1, <1>5, <4>1
      <4>2. CASE j # 1
        <5>1. j - 1 \in 1..i-1 /\ r[j - 1] = s[j]
          BY <1>1, <2>2, <4>2
        <5> QED BY <2>2, <5>1
      <4> QED BY <4>1, <4>2
    <3> QED BY <3>1, <3>2 DEF Owed
  <2> QED BY <1>5, <2>1, <2>2 DEF Owed, r
<1> QED BY <1>3, <1>4, <1>5

LEMMA NothingOwed ==
  ASSUME NEW s \in Seq(Call), NEW n, Owed(s, n)
  PROVE  n \in BlockNos
<1>1. PICK i \in DOMAIN s : s[i] = Unpins(n)
  BY DEF Owed
<1>2. s[i] \in Call /\ s[i].blockno = n
  BY <1>1 DEF Unpins
<1> QED BY <1>2 DEF Call

LEMMA IOInit_Inv == IOInit => IOInv
<1> SUFFICES ASSUME IOInit PROVE IOInv
  OBVIOUS
<1> USE BlockIOAssumption, ProgramsAssumption
<1>1. PICK w \in Programs : todo = w.calls
  BY DEF IOInit
<1>2. /\ todo \in [Tasks -> Seq(Call)]
      /\ \A t \in Tasks : Paired(todo[t]) /\ \A n : ~Owed(todo[t], n)
  BY <1>1, NothingOwed
<1>3. /\ bcache = [b \in Bufs |-> [blockno |-> NoBlock, valid |-> FALSE, refcnt |-> 0,
                                   data |-> NoTask, holder |-> NoTask, disk |-> FALSE]]
      /\ lru = [i \in Bufs |-> NBUF + 1 - i] /\ free = Descriptors
      /\ info = [d \in Descriptors |-> 0] /\ avail = {} /\ used = <<>>
      /\ platter = [n \in BlockNos |-> NoTask] /\ newest = [n \in BlockNos |-> NoTask]
      /\ at = [t \in Tasks |-> "idle"] /\ mine = [t \in Tasks |-> 0] /\ idx = [t \in Tasks |-> <<>>]
  BY DEF IOInit, Fresh
<1>4. \A t \in Tasks : Stage(t) = "idle" /\ Rest(t) = todo[t]
  BY <1>3 DEF Stage, Woke, Rest, Sleeps
<1>5. IOTypes
  <2>1. \A b \in Bufs : NBUF + 1 - b \in Bufs /\ lru[NBUF + 1 - b] = b
    BY <1>3 DEF Bufs
  <2>2. bcache \in [Bufs -> Buffer]
    BY <1>3 DEF Buffer, Writers
  <2>3. lru \in [Bufs -> Bufs]
    BY <1>3 DEF Bufs
  <2>4. info \in [Descriptors -> 0..NBUF] /\ mine \in [Tasks -> 0..NBUF]
    BY <1>3
  <2>5. used \in Seq(Descriptors) /\ avail = {} /\ free \subseteq Descriptors
    BY <1>3
  <2>6. /\ platter \in [BlockNos -> Writers] /\ newest \in [BlockNos -> Writers]
        /\ at \in [Tasks -> Points \union Sleeps]
        /\ idx \in [Tasks -> {<<>>} \union (Descriptors \X Descriptors \X Descriptors)]
    BY <1>3 DEF Writers, Points
  <2>7. \A b \in Bufs : \E i \in Bufs : lru[i] = b
    BY <2>1
  <2> QED BY <1>2, <2>2, <2>3, <2>4, <2>5, <2>6, <2>7 DEF IOTypes
<1>6. Callers
  BY <1>2, <1>3, <1>4 DEF Callers, Locked
<1>7. Buffers
  BY <1>3, BlockIOAssumption DEF Buffers
<1>8. RefsCounted
  <2> SUFFICES ASSUME NEW b \in Bufs PROVE bcache[b].refcnt = Cardinality(Users(b)) + Cardinality(Pinners(b))
    BY DEF RefsCounted
  <2>1. Users(b) = {}
    BY <1>3 DEF Users, Bufs
  <2>2. Pinners(b) = {}
    BY <1>2, <1>4 DEF Pinners
  <2> QED BY <1>3, <2>1, <2>2, FS_EmptySet
<1>9. Stored
  BY <1>2, <1>3, <1>4 DEF Stored
<1>10. Chains
  BY <1>3, <1>4 DEF Chains, Held
<1>11. Requests
  BY <1>3 DEF Requests
<1> QED BY <1>5, <1>6, <1>7, <1>8, <1>9, <1>10, <1>11 DEF IOInv
-----------------------------------------------------------------------------
(* What steps leave alone.                                                 *)

LEMMA Stages ==
  ASSUME IOTypes
  PROVE  \A t \in Tasks : Stage(t) \in Points
BY DEF IOTypes, Stage, Woke, Points, Sleeps, Awake

LEMMA RestType ==
  ASSUME IOTypes, Callers, NEW t \in Tasks
  PROVE  Rest(t) \in Seq(Call)
<1>1. todo[t] \in Seq(Call)
  BY DEF IOTypes
<1>2. Stage(t) \in {"release", "unref"} => todo[t] # <<>>
  BY DEF Callers
<1> QED BY <1>1, <1>2, Shifted DEF Rest

\* A wakeup moves nobody who is not asleep, and a sleeper to where he goes on.
LEMMA WokenStages ==
  ASSUME NEW l \in Sleeps, NEW S, NEW pcs \in [Tasks -> Points \union Sleeps]
  PROVE  /\ Woken(l, S, pcs) \in [Tasks -> Points \union Sleeps]
         /\ \A t \in Tasks : Woke(Woken(l, S, pcs)[t]) = Woke(pcs[t])
<1>1. Awake(l) \in Points /\ Awake(l) \notin Sleeps
  BY DEF Sleeps, Points, Awake
<1>2. ASSUME NEW t \in Tasks
      PROVE  /\ Woken(l, S, pcs)[t] \in Points \union Sleeps
             /\ Woke(Woken(l, S, pcs)[t]) = Woke(pcs[t])
  BY <1>1 DEF Woken, Woke
<1>3. Woken(l, S, pcs) = [t \in Tasks |-> Woken(l, S, pcs)[t]]
  BY DEF Woken
<1> QED BY <1>2, <1>3

LEMMA PointStages ==
  ASSUME IOTypes, NEW t \in Tasks, NEW l \in Points \union Sleeps
  PROVE  /\ Point(t, l) \in [Tasks -> Points \union Sleeps]
         /\ Woke(Point(t, l)[t]) = Woke(l)
         /\ \A u \in Tasks \ {t} : Woke(Point(t, l)[u]) = Stage(u)
BY DEF IOTypes, Point, Stage

\* The driver's part of the state, and what it says of a request.
LEMMA QueueFrame ==
  ASSUME Chains, Requests, UNCHANGED <<free, info, avail, used, idx, platter>>,
         \A u \in Tasks : Stage(u)' = "io" <=> Stage(u) = "io",
         \A u \in Tasks : idx[u] # <<>> =>
           /\ mine'[u] = mine[u]
           /\ bcache'[mine[u]].blockno = bcache[mine[u]].blockno
           /\ bcache'[mine[u]].valid = bcache[mine[u]].valid
           /\ bcache'[mine[u]].data = bcache[mine[u]].data
           /\ bcache'[mine[u]].disk = bcache[mine[u]].disk
           /\ newest'[bcache[mine[u]].blockno] = newest[bcache[mine[u]].blockno]
  PROVE  Chains' /\ Requests'
<1>1. Chains'
  <2>1. \A u \in Tasks : Held(u)' = Held(u)
    BY DEF Held
  <2> QED BY <2>1 DEF Chains
<1>2. \A u \in Tasks : (Asked(u)' <=> Asked(u)) /\ (Served(u)' <=> Served(u))
  BY DEF Asked, Served
<1>3. Requests'
  BY <1>2 DEF Requests
<1> QED BY <1>1, <1>3

\* What is owed stays owed.
LEMMA StoredFrame ==
  ASSUME Stored, UNCHANGED <<platter, newest>>,
         \A u \in Tasks : \A n : Owed(Rest(u)', n) <=> Owed(Rest(u), n),
         \A b \in Bufs : /\ bcache'[b].blockno = bcache[b].blockno
                         /\ bcache[b].valid = TRUE => bcache'[b].valid = TRUE
  PROVE  Stored'
<1>1. \A n \in BlockNos : platter'[n] = newest'[n] \/ \E t \in Tasks : Owed(Rest(t)', n)
  BY DEF Stored
<1>2. ASSUME NEW n \in BlockNos, NEW t \in Tasks, Owed(Rest(t)', n)
      PROVE  \E b \in Bufs : bcache'[b].blockno = n /\ bcache'[b].valid = TRUE
  <2>1. PICK b \in Bufs : bcache[b].blockno = n /\ bcache[b].valid = TRUE
    BY <1>2 DEF Stored
  <2> QED BY <2>1
<1> QED BY <1>1, <1>2 DEF Stored

LEMMA PinnersFrame ==
  ASSUME \A u \in Tasks : \A n : Owed(Rest(u)', n) <=> Owed(Rest(u), n),
         NEW b \in Bufs, bcache'[b].blockno = bcache[b].blockno
  PROVE  Pinners(b)' = Pinners(b)
BY DEF Pinners

LEMMA CountedFrame ==
  ASSUME RefsCounted, UNCHANGED mine,
         \A u \in Tasks : \A n : Owed(Rest(u)', n) <=> Owed(Rest(u), n),
         \A b \in Bufs : /\ bcache'[b].blockno = bcache[b].blockno
                         /\ bcache'[b].refcnt = bcache[b].refcnt
  PROVE  RefsCounted'
<1> SUFFICES ASSUME NEW b \in Bufs
             PROVE  bcache'[b].refcnt = Cardinality(Users(b)') + Cardinality(Pinners(b)')
  BY DEF RefsCounted
<1>1. Users(b)' = Users(b)
  BY DEF Users
<1>2. Pinners(b)' = Pinners(b)
  BY PinnersFrame
<1> QED BY <1>1, <1>2 DEF RefsCounted

\* The fields of a buffer, and of one of which a step stores a field.
LEMMA Fields ==
  ASSUME IOTypes, NEW b \in Bufs
  PROVE  /\ bcache[b] \in Buffer
         /\ bcache[b].blockno \in BlockNos \union {NoBlock} /\ bcache[b].valid \in BOOLEAN
         /\ bcache[b].refcnt \in Nat /\ bcache[b].data \in Writers /\ bcache[b].holder \in Writers
BY DEF IOTypes, Buffer

LEMMA SetRefcnt ==
  ASSUME NEW r \in Buffer, NEW k \in Nat
  PROVE  /\ [r EXCEPT !.refcnt = k] \in Buffer /\ [r EXCEPT !.refcnt = k].refcnt = k
         /\ [r EXCEPT !.refcnt = k].blockno = r.blockno /\ [r EXCEPT !.refcnt = k].valid = r.valid
         /\ [r EXCEPT !.refcnt = k].data = r.data /\ [r EXCEPT !.refcnt = k].holder = r.holder
         /\ [r EXCEPT !.refcnt = k].disk = r.disk
BY DEF Buffer

LEMMA StoreBuffer ==
  ASSUME IOTypes, NEW b \in Bufs, NEW r \in Buffer, bcache' = [bcache EXCEPT ![b] = r]
  PROVE  /\ bcache' \in [Bufs -> Buffer] /\ bcache'[b] = r
         /\ \A c \in Bufs \ {b} : bcache'[c] = bcache[c]
BY DEF IOTypes

\* Steps that move nobody to another stage.
LEMMA SameStages ==
  ASSUME IOInv, at' \in [Tasks -> Points \union Sleeps], \A u \in Tasks : Stage(u)' = Stage(u),
         UNCHANGED <<bcache, lru, free, info, avail, used, platter, mine, idx, todo, newest>>
  PROVE  IOInv'
<1> USE DEF IOInv
<1>1. \A u \in Tasks : Rest(u)' = Rest(u)
  BY DEF Rest
<1>2. IOTypes'
  BY DEF IOTypes
<1>3. Callers'
  BY <1>1 DEF Callers
<1>4. Buffers'
  BY DEF Buffers, IOTypes, Buffer, Writers
<1>5. RefsCounted'
  BY <1>1, CountedFrame
<1>6. Stored'
  BY <1>1, StoredFrame
<1>7. Chains' /\ Requests'
  BY QueueFrame
<1> QED BY <1>2, <1>3, <1>4, <1>5, <1>6, <1>7

-----------------------------------------------------------------------------
(* The buffer cache.                                                       *)

LEMMA Counts ==
  ASSUME NEW b
  PROVE  /\ IsFiniteSet(Users(b)) /\ Cardinality(Users(b)) \in Nat
         /\ IsFiniteSet(Pinners(b)) /\ Cardinality(Pinners(b)) \in Nat
         /\ Cardinality(Users(b)) = 0 => Users(b) = {}
         /\ Cardinality(Pinners(b)) = 0 => Pinners(b) = {}
<1>1. Users(b) \subseteq Tasks /\ Pinners(b) \subseteq Tasks
  BY DEF Users, Pinners
<1>2. IsFiniteSet(Users(b)) /\ IsFiniteSet(Pinners(b))
  BY <1>1, BlockIOAssumption, FS_Subset
<1> QED BY <1>2, FS_CardinalityType, FS_EmptySet

LEMMA OldestIdle ==
  ASSUME IOTypes, NEW S \in SUBSET Bufs, S # {}
  PROVE  Oldest(S) \in S
<1> USE BlockIOAssumption DEF Bufs
<1> DEFINE T == {k \in 0..NBUF : NBUF - k \in Bufs /\ lru[NBUF - k] \in S}
<1>1. PICK b \in S : TRUE
  OBVIOUS
<1>2. PICK i \in Bufs : lru[i] = b
  BY <1>1 DEF IOTypes
<1>3. NBUF - i \in T
  <2>1. NBUF - (NBUF - i) = i /\ NBUF - i \in 0..NBUF
    BY <1>2
  <2> QED BY <1>1, <1>2, <2>1
<1>4. PICK m \in T : \A k \in T : m <= k
  <2>1. T # {}
    BY <1>3
  <2>2. T \subseteq Nat
    OBVIOUS
  <2> HIDE DEF T
  <2> QED BY <2>1, <2>2, Least
<1>5. ASSUME NEW j \in (NBUF - m)+1..NBUF, lru[j] \in S PROVE FALSE
  <2>1. NBUF - j \in T
    <3>1. NBUF - (NBUF - j) = j /\ NBUF - j \in 0..NBUF /\ j \in Bufs
      BY <1>4, <1>5
    <3> QED BY <1>5, <3>1
  <2>2. m <= NBUF - j
    BY <1>4, <2>1
  <2> QED BY <1>4, <1>5, <2>2
<1>6. \E k \in Bufs : lru[k] \in S /\ \A j \in k+1..NBUF : lru[j] \notin S
  BY <1>4, <1>5
<1> QED BY <1>6 DEF Oldest

\* bget() finds the block, ...
LEMMA HitKeeps ==
  ASSUME IOInv, NEW t \in Tasks, at[t] = "idle", todo[t] # <<>>,
         NEW b \in Cached(Head(todo[t]).blockno),
         mine' = [mine EXCEPT ![t] = b], bcache' = [bcache EXCEPT ![b].refcnt = @ + 1],
         at' = Point(t, "lock"),
         UNCHANGED <<lru, driver, platter, idx, todo, kills, newest>>
  PROVE  IOInv'
<1> USE DEF IOInv
<1>1. UNCHANGED <<lru, free, info, avail, used, platter, idx, todo, newest>>
  BY DEF driver
<1>2. /\ at' \in [Tasks -> Points \union Sleeps]
      /\ Stage(t) = "idle" /\ Stage(t)' = "lock"
      /\ \A u \in Tasks \ {t} : Stage(u)' = Stage(u)
  BY PointStages DEF Points, Sleeps, Stage, Woke
<1>3. \A u \in Tasks : Rest(u)' = Rest(u)
  BY <1>1, <1>2 DEF Rest
<1>4. b \in Bufs /\ bcache[b].blockno = Head(todo[t]).blockno /\ b # 0
  BY DEF Cached, Bufs
<1>5. /\ bcache' \in [Bufs -> Buffer]
      /\ bcache'[b].refcnt = bcache[b].refcnt + 1
      /\ \A c \in Bufs : /\ bcache'[c].blockno = bcache[c].blockno
                         /\ bcache'[c].valid = bcache[c].valid
                         /\ bcache'[c].data = bcache[c].data
                         /\ bcache'[c].holder = bcache[c].holder
                         /\ bcache'[c].disk = bcache[c].disk
      /\ \A c \in Bufs \ {b} : bcache'[c].refcnt = bcache[c].refcnt
  <2>1. bcache[b] \in Buffer /\ bcache[b].refcnt + 1 \in Nat
    BY <1>4, Fields
  <2>2. [bcache[b] EXCEPT !.refcnt = bcache[b].refcnt + 1] \in Buffer
    BY <2>1, SetRefcnt
  <2>3. /\ bcache' \in [Bufs -> Buffer]
        /\ bcache'[b] = [bcache[b] EXCEPT !.refcnt = bcache[b].refcnt + 1]
        /\ \A c \in Bufs \ {b} : bcache'[c] = bcache[c]
    BY <1>4, <2>2, StoreBuffer
  <2> QED BY <2>1, <2>3, SetRefcnt
<1>6. /\ mine[t] = 0 /\ mine'[t] = b /\ mine' \in [Tasks -> 0..NBUF]
      /\ \A u \in Tasks \ {t} : mine'[u] = mine[u]
      /\ \A u \in Tasks : mine[u] \in Bufs \union {0}
  BY <1>2, <1>4 DEF Callers, IOTypes, Bufs
<1>7. IOTypes'
  BY <1>1, <1>2, <1>5, <1>6 DEF IOTypes
<1>8. Callers'
  BY <1>1, <1>2, <1>3, <1>4, <1>5, <1>6 DEF Callers, Locked
<1>9. Buffers'
  <2>1. \A c \in Bufs : bcache[c].holder # t
    BY <1>2 DEF Buffers, Locked
  <2> QED BY <1>1, <1>2, <1>5, <1>6, <2>1 DEF Buffers
<1>10. RefsCounted'
  <2> SUFFICES ASSUME NEW c \in Bufs
               PROVE  bcache'[c].refcnt = Cardinality(Users(c)') + Cardinality(Pinners(c)')
    BY DEF RefsCounted
  <2>1. Pinners(c)' = Pinners(c)
    BY <1>3, <1>5 DEF Pinners
  <2>2. CASE c = b
    <3>1. Users(c)' = Users(c) \union {t} /\ t \notin Users(c)
      BY <1>4, <1>6, <2>2 DEF Users
    <3>2. IsFiniteSet(Users(c))
      BY Counts
    <3>3. Cardinality(Users(c)') = Cardinality(Users(c)) + 1
      BY <3>1, <3>2, FS_AddElement
    <3> QED BY <1>5, <2>1, <2>2, <3>3, Counts DEF RefsCounted
  <2>3. CASE c # b
    <3>1. Users(c)' = Users(c)
      BY <1>6, <2>3 DEF Users, Bufs
    <3> QED BY <1>5, <2>1, <2>3, <3>1 DEF RefsCounted
  <2> QED BY <2>2, <2>3
<1>11. Stored'
  BY <1>1, <1>3, <1>5, StoredFrame
<1>12. Chains' /\ Requests'
  <2>1. \A u \in Tasks : idx[u] # <<>> => u # t /\ mine[u] \in Bufs
    BY <1>2, <1>6 DEF Chains, Callers
  <2> QED BY <1>1, <1>2, <1>5, <1>6, <2>1, QueueFrame
<1> QED BY <1>7, <1>8, <1>9, <1>10, <1>11, <1>12

\* ... or recycles the buffer of a block that nobody uses or has pinned.
LEMMA MissKeeps ==
  ASSUME IOInv, NEW t \in Tasks, at[t] = "idle", todo[t] # <<>>,
         Cached(Head(todo[t]).blockno) = {}, NEW b \in Idle,
         mine' = [mine EXCEPT ![t] = b],
         bcache' = [bcache EXCEPT ![b] =
                      [@ EXCEPT !.blockno = Head(todo[t]).blockno, !.valid = FALSE, !.refcnt = 1]],
         at' = Point(t, "lock"),
         UNCHANGED <<lru, driver, platter, idx, todo, kills, newest>>
  PROVE  IOInv'
<1> USE DEF IOInv
<1>1. UNCHANGED <<lru, free, info, avail, used, platter, idx, todo, newest>>
  BY DEF driver
<1>2. /\ at' \in [Tasks -> Points \union Sleeps]
      /\ Stage(t) = "idle" /\ Stage(t)' = "lock"
      /\ \A u \in Tasks \ {t} : Stage(u)' = Stage(u)
  BY PointStages DEF Points, Sleeps, Stage, Woke
<1>3. \A u \in Tasks : Rest(u)' = Rest(u) /\ Rest(u) \in Seq(Call)
  BY <1>1, <1>2, RestType DEF Rest
<1>4. PICK n \in BlockNos : n = Head(todo[t]).blockno
  <2>1. todo[t] \in Seq(Call)
    BY DEF IOTypes
  <2> QED BY <2>1, Shifted DEF Call
<1>5. b \in Bufs /\ bcache[b].refcnt = 0 /\ b # 0 /\ n # NoBlock
  BY BlockIOAssumption DEF Idle, Bufs
<1>6. /\ bcache' \in [Bufs -> Buffer]
      /\ bcache'[b].blockno = n /\ bcache'[b].valid = FALSE /\ bcache'[b].refcnt = 1
      /\ bcache'[b].holder = bcache[b].holder
      /\ \A c \in Bufs \ {b} : bcache'[c] = bcache[c]
  <2> DEFINE r == [bcache[b] EXCEPT !.blockno = Head(todo[t]).blockno, !.valid = FALSE, !.refcnt = 1]
  <2>1. /\ r \in Buffer /\ r.blockno = n /\ r.valid = FALSE /\ r.refcnt = 1
        /\ r.holder = bcache[b].holder
    BY <1>4, <1>5, Fields DEF Buffer
  <2>2. bcache' = [bcache EXCEPT ![b] = r]
    OBVIOUS
  <2> HIDE DEF r
  <2> QED BY <1>5, <2>1, <2>2, StoreBuffer
<1>7. Users(b) = {} /\ Pinners(b) = {}
  BY <1>5, Counts DEF RefsCounted
<1>8. \A c \in Bufs : bcache[c].blockno # n
  BY <1>4 DEF Cached
<1>9. \A u \in Tasks : ~Owed(Rest(u), n)
  BY <1>8 DEF Stored
<1>10. /\ mine[t] = 0 /\ mine'[t] = b /\ mine' \in [Tasks -> 0..NBUF]
       /\ \A u \in Tasks \ {t} : mine'[u] = mine[u]
       /\ \A u \in Tasks : mine[u] \in Bufs \union {0} /\ mine[u] # b
  BY <1>2, <1>5, <1>7 DEF Callers, IOTypes, Bufs, Users
<1>11. IOTypes'
  BY <1>1, <1>2, <1>6, <1>10 DEF IOTypes
<1>12. Callers'
  BY <1>1, <1>2, <1>3, <1>4, <1>5, <1>6, <1>10 DEF Callers, Locked
<1>13. Buffers'
  <2>1. \A c \in Bufs : bcache[c].holder # t
    BY <1>2 DEF Buffers, Locked
  <2>2. \A c, d \in Bufs : bcache'[c].blockno = bcache'[d].blockno /\ bcache'[c].blockno # NoBlock => c = d
    BY <1>6, <1>8 DEF Buffers
  <2>3. \A c \in Bufs : bcache'[c].valid = TRUE =>
          bcache'[c].blockno # NoBlock /\ bcache'[c].data = newest'[bcache'[c].blockno]
    BY <1>1, <1>6 DEF Buffers
  <2>4. \A c \in Bufs : \A u \in Tasks : bcache'[c].holder = u => mine'[u] = c /\ Stage(u)' \in Locked
    <3>1. \A c \in Bufs : bcache'[c].holder = bcache[c].holder
      BY <1>6
    <3> QED BY <1>2, <1>10, <2>1, <3>1 DEF Buffers
  <2> QED BY <2>2, <2>3, <2>4 DEF Buffers
<1>14. RefsCounted'
  <2> SUFFICES ASSUME NEW c \in Bufs
               PROVE  bcache'[c].refcnt = Cardinality(Users(c)') + Cardinality(Pinners(c)')
    BY DEF RefsCounted
  <2>1. CASE c = b
    <3>1. Users(c)' = {t}
      BY <1>10, <2>1 DEF Users
    <3>2. Pinners(c)' = {}
      BY <1>3, <1>6, <1>9, <2>1 DEF Pinners
    <3>3. Cardinality({t}) = 1 /\ Cardinality({}) = 0
      BY FS_Singleton, FS_EmptySet
    <3> QED BY <1>6, <2>1, <3>1, <3>2, <3>3
  <2>2. CASE c # b
    <3>1. Users(c)' = Users(c)
      BY <1>10, <2>2 DEF Users, Bufs
    <3>2. Pinners(c)' = Pinners(c)
      BY <1>3, <1>6, <2>2 DEF Pinners
    <3> QED BY <1>6, <2>2, <3>1, <3>2 DEF RefsCounted
  <2> QED BY <2>1, <2>2
<1>15. Stored'
  <2>1. ASSUME NEW m \in BlockNos, NEW u \in Tasks, Owed(Rest(u), m)
        PROVE  \E c \in Bufs : bcache'[c].blockno = m /\ bcache'[c].valid = TRUE
    <3>1. PICK c \in Bufs : bcache[c].blockno = m /\ bcache[c].valid = TRUE
      BY <2>1 DEF Stored
    <3>2. c # b
      BY <1>7, <2>1, <3>1 DEF Pinners
    <3> QED BY <1>6, <3>1, <3>2
  <2>2. \A m \in BlockNos : platter'[m] = newest'[m] \/ \E u \in Tasks : Owed(Rest(u)', m)
    BY <1>1, <1>3 DEF Stored
  <2>3. ASSUME NEW m \in BlockNos, NEW u \in Tasks, Owed(Rest(u)', m)
        PROVE  \E c \in Bufs : bcache'[c].blockno = m /\ bcache'[c].valid = TRUE
    <3>1. Owed(Rest(u), m)
      BY <1>3, <2>3
    <3> QED BY <2>1, <3>1
  <2> QED BY <2>2, <2>3 DEF Stored
<1>16. Chains' /\ Requests'
  <2>1. \A u \in Tasks : idx[u] # <<>> => u # t /\ mine[u] \in Bufs \ {b}
    BY <1>2, <1>10 DEF Chains, Callers
  <2> QED BY <1>1, <1>2, <1>6, <1>10, <2>1, QueueFrame
<1> QED BY <1>11, <1>12, <1>13, <1>14, <1>15, <1>16

LEMMA BreadKeeps ==
  ASSUME IOInv, NEW t \in Tasks, bread_call(t)
  PROVE  IOInv'
<1>1. CASE Cached(Head(todo[t]).blockno) # {}
  BY <1>1, HitKeeps DEF bread_call, bget
<1>2. CASE Cached(Head(todo[t]).blockno) = {}
  <2>1. Idle # {} /\ Idle \subseteq Bufs
    BY <1>2 DEF bread_call, bget, Idle
  <2>2. Oldest(Idle) \in Idle
    BY <2>1, OldestIdle DEF IOInv
  <2> QED BY <1>2, <2>2, MissKeeps DEF bread_call, bget
<1> QED BY <1>1, <1>2
-----------------------------------------------------------------------------
(* Sleep locks, and what a process does with the block.                    *)

\* A process at a stage other than "idle" has a buffer and a call.
LEMMA Busy ==
  ASSUME IOInv, NEW t \in Tasks, Stage(t) # "idle"
  PROVE  /\ mine[t] \in Bufs
         /\ todo[t] \in Seq(Call) /\ todo[t] # <<>> /\ Head(todo[t]) \in Call
         /\ bcache[mine[t]].blockno = Head(todo[t]).blockno
         /\ Head(todo[t]).blockno \in BlockNos
         /\ Stage(t) \in Locked =>
              \A u \in Tasks \ {t} : mine[u] = mine[t] => Stage(u) \notin Locked
<1> USE DEF IOInv
<1>1. mine[t] \in Bufs /\ todo[t] \in Seq(Call) /\ todo[t] # <<>>
  BY DEF IOTypes, Callers, Bufs
<1>2. Head(todo[t]) \in Call
  BY <1>1, Shifted
<1> QED BY <1>1, <1>2 DEF Callers, Call

LEMMA AcquireKeeps ==
  ASSUME IOInv, NEW t \in Tasks, acquiresleep(t)
  PROVE  IOInv'
<1> USE DEF IOInv
<1>1. UNCHANGED <<lru, free, info, avail, used, platter, mine, idx, todo, newest>> /\ Stage(t) = "lock"
  BY DEF acquiresleep, driver, Stage, Woke, Sleeps
<1>2. CASE bcache[mine[t]].holder # NoTask
  <2>1. at' = Point(t, "sleep_lock") /\ UNCHANGED bcache
    BY <1>2 DEF acquiresleep
  <2>2. at' \in [Tasks -> Points \union Sleeps] /\ \A u \in Tasks : Stage(u)' = Stage(u)
    BY <1>1, <2>1, PointStages DEF Sleeps, Stage, Woke, Awake
  <2> QED BY <1>1, <2>1, <2>2, SameStages
<1>3. CASE bcache[mine[t]].holder = NoTask
  <2> DEFINE b == mine[t]
             r == [bcache[b] EXCEPT !.holder = t]
             l == IF bcache[b].valid = TRUE THEN "use" ELSE "rw"
  <2>1. b \in Bufs /\ bcache[b] \in Buffer /\ bcache[b].valid \in BOOLEAN
    BY <1>1, Busy, Fields
  <2>2. /\ r \in Buffer /\ r.blockno = bcache[b].blockno /\ r.valid = bcache[b].valid
        /\ r.refcnt = bcache[b].refcnt /\ r.data = bcache[b].data /\ r.disk = bcache[b].disk
        /\ r.holder = t
    BY <2>1 DEF Buffer, Writers
  <2>3. at' = Point(t, l) /\ bcache' = [bcache EXCEPT ![b] = r]
    BY <1>3, <2>1 DEF acquiresleep
  <2>4. /\ at' \in [Tasks -> Points \union Sleeps]
        /\ Stage(t)' = l /\ \A u \in Tasks \ {t} : Stage(u)' = Stage(u)
    BY <2>3, PointStages DEF Points, Sleeps, Stage, Woke
  <2> HIDE DEF r
  <2>5. /\ bcache' \in [Bufs -> Buffer] /\ bcache'[b] = r
        /\ \A c \in Bufs \ {b} : bcache'[c] = bcache[c]
    BY <2>1, <2>2, <2>3, StoreBuffer
  <2>6. /\ \A c \in Bufs : /\ bcache'[c].blockno = bcache[c].blockno
                           /\ bcache'[c].valid = bcache[c].valid
                           /\ bcache'[c].refcnt = bcache[c].refcnt
                           /\ bcache'[c].data = bcache[c].data
                           /\ bcache'[c].disk = bcache[c].disk
        /\ bcache'[b].holder = t /\ \A c \in Bufs \ {b} : bcache'[c].holder = bcache[c].holder
    BY <2>2, <2>5
  <2> HIDE DEF b
  <2>7. \A u \in Tasks : Rest(u)' = Rest(u)
    BY <1>1, <2>4 DEF Rest
  <2>8. IOTypes'
    BY <1>1, <2>4, <2>5 DEF IOTypes
  <2>9. \A u \in Tasks : Stage(u) \in Locked => u # t /\ mine[u] # b /\ mine[u] \in Bufs
    <3> SUFFICES ASSUME NEW u \in Tasks, Stage(u) \in Locked
                 PROVE  u # t /\ mine[u] # b /\ mine[u] \in Bufs
      OBVIOUS
    <3>1. u # t
      BY <1>1 DEF Locked
    <3>2. mine[u] \in Bufs /\ bcache[mine[u]].holder = u
      BY Busy DEF Callers, Locked
    <3>3. mine[u] # b
      BY <1>3, <3>2, BlockIOAssumption DEF b
    <3> QED BY <3>1, <3>2, <3>3
  <2>10. \A u \in Tasks : mine[u] \in Bufs \/ (mine[u] = 0 /\ Stage(u) = "idle")
    BY Busy DEF Callers
  <2>11. Callers'
    <3>1. ASSUME NEW u \in Tasks \ {t}
          PROVE  /\ Stage(u)' = "idle" <=> mine'[u] = 0
                 /\ Stage(u)' # "idle" =>
                      todo'[u] # <<>> /\ bcache'[mine'[u]].blockno = Head(todo'[u]).blockno
                 /\ Paired(Rest(u)')
                 /\ Stage(u)' \in Locked => bcache'[mine'[u]].holder = u
                 /\ Stage(u)' = "use" => bcache'[mine'[u]].valid = TRUE
                 /\ Stage(u)' \in {"rw", "io"} /\ bcache'[mine'[u]].valid = TRUE =>
                      Head(todo'[u]).op = "install"
      BY <1>1, <2>4, <2>6, <2>7, <2>9, <2>10 DEF Callers
    <3>2. /\ Stage(t)' \in Locked /\ mine'[t] = b /\ mine'[t] # 0
          /\ todo'[t] # <<>> /\ bcache'[mine'[t]].blockno = Head(todo'[t]).blockno
          /\ Paired(Rest(t)')
          /\ bcache'[mine'[t]].holder = t
          /\ Stage(t)' = "use" => bcache'[mine'[t]].valid = TRUE
          /\ ~(Stage(t)' \in {"rw", "io"} /\ bcache'[mine'[t]].valid = TRUE)
      BY <1>1, <2>1, <2>4, <2>6, <2>7 DEF Callers, Locked, b
    <3>3. Stage(t)' # "idle"
      BY <3>2 DEF Locked
    <3> QED BY <3>1, <3>2, <3>3 DEF Callers
  <2>12. Buffers'
    <3>1. Stage(t)' \in Locked
      BY <2>4 DEF Locked
    <3>2. \A u \in Tasks \ {t} : Stage(u)' = Stage(u) /\ u # t
      BY <2>4
    <3> QED BY <1>1, <2>1, <2>6, <3>1, <3>2 DEF Buffers, b
  <2>13. RefsCounted' /\ Stored'
    BY <1>1, <2>6, <2>7, CountedFrame, StoredFrame
  <2>14. Chains' /\ Requests'
    <3>1. \A u \in Tasks : idx[u] # <<>> => u # t /\ mine[u] \in Bufs
      BY <1>1, <2>10 DEF Chains
    <3>2. Stage(t)' # "io" /\ Stage(t) # "io"
      BY <1>1, <2>4
    <3> QED BY <1>1, <2>4, <2>6, <3>1, <3>2, QueueFrame
  <2> QED BY <2>8, <2>11, <2>12, <2>13, <2>14
<1> QED BY <1>2, <1>3

\* What a step keeps of the others: their stage, their buffer, their calls and
\* what they see of the buffer.
LEMMA OthersCall ==
  ASSUME IOInv, NEW t \in Tasks, NEW u \in Tasks \ {t},
         Stage(u)' = Stage(u), mine'[u] = mine[u], todo'[u] = todo[u],
         mine[u] \in Bufs =>
           /\ bcache'[mine[u]].blockno = bcache[mine[u]].blockno
           /\ Stage(u) \in Locked => bcache'[mine[u]].valid = bcache[mine[u]].valid
           /\ bcache[mine[u]].holder = u => bcache'[mine[u]].holder = u
  PROVE  /\ Stage(u)' = "idle" <=> mine'[u] = 0
         /\ Stage(u)' # "idle" =>
              todo'[u] # <<>> /\ bcache'[mine'[u]].blockno = Head(todo'[u]).blockno
         /\ Paired(Rest(u)')
         /\ Stage(u)' \in Locked => bcache'[mine'[u]].holder = u
         /\ Stage(u)' = "use" => bcache'[mine'[u]].valid = TRUE
         /\ Stage(u)' \in {"rw", "io"} /\ bcache'[mine'[u]].valid = TRUE =>
              Head(todo'[u]).op = "install"
<1> USE DEF IOInv
<1>1. Rest(u)' = Rest(u)
  BY DEF Rest
<1>2. CASE Stage(u) = "idle"
  BY <1>1, <1>2 DEF Callers, Locked
<1>3. CASE Stage(u) # "idle"
  <2>1. mine[u] \in Bufs
    BY <1>3, Busy
  <2>2. Stage(u) = "use" \/ Stage(u) \in {"rw", "io"} => Stage(u) \in Locked
    BY DEF Locked
  <2> QED BY <1>1, <1>3, <2>1, <2>2 DEF Callers
<1> QED BY <1>2, <1>3

LEMMA CallersFrame ==
  ASSUME IOInv, NEW t \in Tasks,
         \A u \in Tasks \ {t} :
           /\ Stage(u)' = Stage(u) /\ mine'[u] = mine[u] /\ todo'[u] = todo[u]
           /\ mine[u] \in Bufs =>
                /\ bcache'[mine[u]].blockno = bcache[mine[u]].blockno
                /\ Stage(u) \in Locked => bcache'[mine[u]].valid = bcache[mine[u]].valid
                /\ bcache[mine[u]].holder = u => bcache'[mine[u]].holder = u,
         Stage(t)' = "idle" <=> mine'[t] = 0,
         Stage(t)' # "idle" =>
           todo'[t] # <<>> /\ bcache'[mine'[t]].blockno = Head(todo'[t]).blockno,
         Paired(Rest(t)'),
         Stage(t)' \in Locked => bcache'[mine'[t]].holder = t,
         Stage(t)' = "use" => bcache'[mine'[t]].valid = TRUE,
         Stage(t)' \in {"rw", "io"} /\ bcache'[mine'[t]].valid = TRUE =>
           Head(todo'[t]).op = "install"
  PROVE  Callers'
<1>1. ASSUME NEW u \in Tasks \ {t}
      PROVE  /\ Stage(u)' = "idle" <=> mine'[u] = 0
             /\ Stage(u)' # "idle" =>
                  todo'[u] # <<>> /\ bcache'[mine'[u]].blockno = Head(todo'[u]).blockno
             /\ Paired(Rest(u)')
             /\ Stage(u)' \in Locked => bcache'[mine'[u]].holder = u
             /\ Stage(u)' = "use" => bcache'[mine'[u]].valid = TRUE
             /\ Stage(u)' \in {"rw", "io"} /\ bcache'[mine'[u]].valid = TRUE =>
                  Head(todo'[u]).op = "install"
  BY <1>1, OthersCall
<1> QED BY <1>1 DEF Callers

\* Reading a block, and going on to write it.
LEMMA UseKeeps ==
  ASSUME IOInv, NEW t \in Tasks, Use(t), Head(todo[t]).op # "log"
  PROVE  IOInv'
<1> USE DEF IOInv
<1> DEFINE l == IF Head(todo[t]).op = "install" THEN "rw" ELSE "release"
<1>1. /\ UNCHANGED <<lru, free, info, avail, used, platter, mine, idx, todo, newest, bcache>>
      /\ Stage(t) = "use" /\ at' = Point(t, l)
  BY DEF Use, driver, Stage, Woke, Sleeps
<1>2. /\ at' \in [Tasks -> Points \union Sleeps]
      /\ Stage(t)' = l /\ \A u \in Tasks \ {t} : Stage(u)' = Stage(u)
  BY <1>1, PointStages DEF Points, Sleeps, Stage, Woke
<1>3. /\ mine[t] \in Bufs /\ todo[t] \in Seq(Call) /\ todo[t] # <<>> /\ Head(todo[t]) \in Call
      /\ Rest(t) = todo[t] /\ Paired(todo[t])
  BY <1>1, Busy DEF Rest, Callers
<1>4. /\ Rest(t)' = IF Head(todo[t]).op = "install" THEN todo[t] ELSE Tail(todo[t])
      /\ \A u \in Tasks \ {t} : Rest(u)' = Rest(u)
  BY <1>1, <1>2 DEF Rest
<1>5. \A n : Owed(Rest(t)', n) <=> Owed(Rest(t), n)
  <2>1. CASE Head(todo[t]).op = "install"
    BY <1>3, <1>4, <2>1
  <2>2. CASE Head(todo[t]).op # "install"
    <3>1. \A n \in BlockNos : Head(todo[t]) \notin {Pins(n), Unpins(n)}
      BY <2>2 DEF Pins, Unpins
    <3>2. \A n \in BlockNos : Owed(Tail(todo[t]), n) <=> Owed(todo[t], n)
      BY <1>3, <3>1, OwedTail
    <3>3. \A n : n \notin BlockNos => ~Owed(Tail(todo[t]), n) /\ ~Owed(todo[t], n)
      BY <1>3, NothingOwed, Shifted
    <3> QED BY <1>3, <1>4, <2>2, <3>2, <3>3
  <2> QED BY <2>1, <2>2
<1>6. \A u \in Tasks : \A n : Owed(Rest(u)', n) <=> Owed(Rest(u), n)
  BY <1>4, <1>5
<1>7. IOTypes'
  BY <1>1, <1>2 DEF IOTypes
<1>8. Callers'
  <2>1. Paired(Rest(t)')
    BY <1>3, <1>4, PairedTail
  <2>2. /\ Stage(t)' \in Locked /\ Stage(t)' # "idle" /\ Stage(t)' # "use"
        /\ Stage(t)' \in {"rw", "io"} => Head(todo[t]).op = "install"
    BY <1>2 DEF Locked
  <2>3. /\ mine[t] # 0 /\ bcache[mine[t]].blockno = Head(todo[t]).blockno
        /\ bcache[mine[t]].holder = t
    BY <1>1 DEF Callers, Locked
  <2> QED BY <1>1, <1>2, <1>3, <2>1, <2>2, <2>3, CallersFrame
<1>9. Buffers'
  BY <1>1, <1>2 DEF Buffers, Locked
<1>10. RefsCounted' /\ Stored'
  BY <1>1, <1>6, CountedFrame, StoredFrame
<1>11. Chains' /\ Requests'
  BY <1>1, <1>2, QueueFrame
<1> QED BY <1>7, <1>8, <1>9, <1>10, <1>11

\* log_write(): new data, and a pin that is owed an installation.
LEMMA LogKeeps ==
  ASSUME IOInv, NEW t \in Tasks, Use(t), Head(todo[t]).op = "log"
  PROVE  IOInv'
<1> USE DEF IOInv
<1> DEFINE b == mine[t]
           n == Head(todo[t]).blockno
           r == [bcache[b] EXCEPT !.data = t, !.refcnt = bcache[b].refcnt + 1]
<1>1. /\ UNCHANGED <<lru, free, info, avail, used, platter, mine, idx, todo>>
      /\ Stage(t) = "use" /\ at' = Point(t, "release")
      /\ newest' = [newest EXCEPT ![n] = t]
      /\ bcache' = [bcache EXCEPT ![b] = r]
  <2>1. bcache[b] \in Buffer /\ b \in Bufs
    <3>1. Stage(t) = "use"
      BY DEF Use, Stage, Woke, Sleeps
    <3> QED BY <3>1, Busy, Fields
  <2> QED BY <2>1 DEF Use, driver, Stage, Woke, Sleeps
<1>2. /\ at' \in [Tasks -> Points \union Sleeps]
      /\ Stage(t)' = "release" /\ \A u \in Tasks \ {t} : Stage(u)' = Stage(u)
  BY <1>1, PointStages DEF Points, Sleeps, Stage, Woke
<1>3. /\ b \in Bufs /\ todo[t] \in Seq(Call) /\ todo[t] # <<>> /\ Head(todo[t]) = Pins(n)
      /\ Rest(t) = todo[t] /\ Paired(todo[t]) /\ n \in BlockNos /\ bcache[b].blockno = n
  <2>1. Head(todo[t]) = Pins(n)
    BY <1>1, Busy DEF Call, Pins
  <2> QED BY <1>1, <2>1, Busy DEF Rest, Callers
<1>4. Rest(t)' = Tail(todo[t]) /\ \A u \in Tasks \ {t} : Rest(u)' = Rest(u)
  BY <1>1, <1>2 DEF Rest
<1>5. /\ r \in Buffer /\ r.blockno = bcache[b].blockno /\ r.valid = bcache[b].valid
      /\ r.refcnt = bcache[b].refcnt + 1 /\ r.data = t /\ r.disk = bcache[b].disk
      /\ r.holder = bcache[b].holder
  <2>1. PICK x \in Buffer, k \in Nat : x = bcache[b] /\ k = bcache[b].refcnt + 1
    BY <1>3, Fields
  <2>2. t \in Writers
    BY DEF Writers
  <2> DEFINE q == [x EXCEPT !.data = t, !.refcnt = k]
  <2>3. /\ q \in Buffer /\ q.refcnt = k /\ q.data = t /\ q.blockno = x.blockno
        /\ q.valid = x.valid /\ q.holder = x.holder /\ q.disk = x.disk
    BY <2>2 DEF Buffer
  <2>4. q = r
    BY <2>1
  <2> HIDE DEF q, r
  <2> QED BY <2>1, <2>3, <2>4
<1> HIDE DEF r
<1>6. /\ bcache' \in [Bufs -> Buffer] /\ bcache'[b] = r
      /\ \A c \in Bufs \ {b} : bcache'[c] = bcache[c]
  BY <1>1, <1>3, <1>5, StoreBuffer
<1>7. \A c \in Bufs : /\ bcache'[c].blockno = bcache[c].blockno
                      /\ bcache'[c].valid = bcache[c].valid
                      /\ bcache'[c].holder = bcache[c].holder
                      /\ bcache'[c].disk = bcache[c].disk
  BY <1>5, <1>6
<1>8. /\ newest' \in [BlockNos -> Writers] /\ newest'[n] = t
      /\ \A m \in BlockNos \ {n} : newest'[m] = newest[m]
  BY <1>1, <1>3 DEF IOTypes, Writers
<1>9. \A c \in Bufs \ {b} : bcache[c].blockno # n
  BY <1>3, BlockIOAssumption DEF Buffers
<1>10. /\ ~Owed(Rest(t), n) /\ Owed(Rest(t)', n)
       /\ \A m : m # n => (Owed(Rest(t)', m) <=> Owed(Rest(t), m))
  <2>1. ~Owed(Rest(t), n) /\ Owed(Rest(t)', n)
    BY <1>3, <1>4, OwedTail
  <2>2. \A m \in BlockNos \ {n} : Pins(n) \notin {Pins(m), Unpins(m)}
    BY DEF Pins, Unpins
  <2>3. \A m \in BlockNos \ {n} : Owed(Rest(t)', m) <=> Owed(Rest(t), m)
    BY <1>3, <1>4, <2>2, OwedTail
  <2>4. \A m : m \notin BlockNos => ~Owed(Rest(t)', m) /\ ~Owed(Rest(t), m)
    BY <1>3, <1>4, NothingOwed, Shifted
  <2> QED BY <2>1, <2>3, <2>4
<1>11. bcache[b].valid = TRUE /\ bcache[b].holder = t
  BY <1>1 DEF Callers, Locked
<1> HIDE DEF n, b
<1>12. IOTypes'
  BY <1>1, <1>2, <1>6, <1>8 DEF IOTypes
<1>13. Callers'
  <2>1. Paired(Rest(t)')
    BY <1>3, <1>4, PairedTail
  <2>2. /\ Stage(t)' \in Locked /\ Stage(t)' # "idle" /\ Stage(t)' # "use"
        /\ Stage(t)' \notin {"rw", "io"}
    BY <1>2 DEF Locked
  <2>3. mine'[t] = b /\ mine'[t] # 0 /\ todo'[t] # <<>> /\ bcache'[b].blockno = Head(todo'[t]).blockno
    BY <1>1, <1>3, <1>7 DEF Callers, b, n
  <2>4. bcache'[b].holder = t
    BY <1>3, <1>7, <1>11
  <2>5. \A u \in Tasks \ {t} : mine[u] \in Bufs =>
           /\ bcache'[mine[u]].blockno = bcache[mine[u]].blockno
           /\ bcache'[mine[u]].valid = bcache[mine[u]].valid
           /\ bcache[mine[u]].holder = u => bcache'[mine[u]].holder = u
    BY <1>7
  <2> QED BY <1>1, <1>2, <2>1, <2>2, <2>3, <2>4, <2>5, CallersFrame
<1>14. Buffers'
  <2>1. \A c \in Bufs : bcache'[c].valid = TRUE =>
           bcache'[c].blockno # NoBlock /\ bcache'[c].data = newest'[bcache'[c].blockno]
    <3> SUFFICES ASSUME NEW c \in Bufs, bcache'[c].valid = TRUE
                 PROVE  bcache'[c].blockno # NoBlock /\ bcache'[c].data = newest'[bcache'[c].blockno]
      OBVIOUS
    <3>1. CASE c = b
      BY <1>3, <1>5, <1>6, <1>8, <3>1, BlockIOAssumption
    <3>2. CASE c # b
      <4>1. bcache'[c] = bcache[c] /\ bcache[c].blockno \in BlockNos \ {n}
        BY <1>6, <1>9, <3>2, Fields DEF Buffers
      <4> QED BY <1>8, <4>1 DEF Buffers
    <3> QED BY <3>1, <3>2
  <2>2. \A c, d \in Bufs : bcache'[c].blockno = bcache'[d].blockno /\ bcache'[c].blockno # NoBlock => c = d
    BY <1>7 DEF Buffers
  <2>3. Stage(t)' \in Locked
    BY <1>2 DEF Locked
  <2>4. \A c \in Bufs : \A u \in Tasks : bcache'[c].holder = u => mine'[u] = c /\ Stage(u)' \in Locked
    BY <1>1, <1>2, <1>7, <2>3 DEF Buffers
  <2> QED BY <2>1, <2>2, <2>4 DEF Buffers
<1>15. RefsCounted'
  <2> SUFFICES ASSUME NEW c \in Bufs
               PROVE  bcache'[c].refcnt = Cardinality(Users(c)') + Cardinality(Pinners(c)')
    BY DEF RefsCounted
  <2>1. Users(c)' = Users(c)
    BY <1>1 DEF Users
  <2>2. CASE c = b
    <3>1. Pinners(c)' = Pinners(c) \union {t} /\ t \notin Pinners(c)
      <4>1. bcache'[c].blockno = bcache[c].blockno
        BY <1>7
      <4>2. \A u \in Tasks \ {t} : Rest(u)' = Rest(u)
        BY <1>4
      <4> QED BY <1>3, <1>7, <1>10, <2>2, <4>1, <4>2 DEF Pinners
    <3>2. Cardinality(Pinners(c)') = Cardinality(Pinners(c)) + 1
      <4>1. IsFiniteSet(Pinners(c))
        BY Counts
      <4> QED BY <3>1, <4>1, FS_AddElement
    <3> QED BY <1>5, <1>6, <2>1, <2>2, <3>2, Counts DEF RefsCounted
  <2>3. CASE c # b
    <3>1. Pinners(c)' = Pinners(c)
      BY <1>4, <1>7, <1>9, <1>10, <2>3 DEF Pinners
    <3> QED BY <1>6, <2>1, <2>3, <3>1 DEF RefsCounted
  <2> QED BY <2>2, <2>3
<1>16. Stored'
  <2>1. \A m \in BlockNos : platter'[m] = newest'[m] \/ \E u \in Tasks : Owed(Rest(u)', m)
    <3> SUFFICES ASSUME NEW m \in BlockNos
                 PROVE  platter'[m] = newest'[m] \/ \E u \in Tasks : Owed(Rest(u)', m)
      OBVIOUS
    <3>1. CASE m = n
      BY <1>10, <3>1
    <3>2. CASE m # n
      <4>1. \A u \in Tasks : Owed(Rest(u)', m) <=> Owed(Rest(u), m)
        BY <1>4, <1>10, <3>2
      <4> QED BY <1>1, <1>8, <3>2, <4>1 DEF Stored
    <3> QED BY <3>1, <3>2
  <2>2. ASSUME NEW m \in BlockNos, NEW u \in Tasks, Owed(Rest(u)', m)
        PROVE  \E c \in Bufs : bcache'[c].blockno = m /\ bcache'[c].valid = TRUE
    <3>1. CASE m = n
      BY <1>3, <1>7, <1>11, <3>1
    <3>2. CASE m # n
      <4>1. Owed(Rest(u), m)
        BY <1>4, <1>10, <2>2, <3>2
      <4>2. PICK c \in Bufs : bcache[c].blockno = m /\ bcache[c].valid = TRUE
        BY <4>1 DEF Stored
      <4> QED BY <1>7, <4>2
    <3> QED BY <3>1, <3>2
  <2> QED BY <2>1, <2>2 DEF Stored
<1>17. Chains' /\ Requests'
  <2>1. ASSUME NEW u \in Tasks, idx[u] # <<>>
        PROVE  /\ mine[u] \in Bufs \ {b} /\ bcache[mine[u]].blockno \in BlockNos \ {n}
    <3>1. Stage(u) = "io"
      BY <2>1 DEF Chains
    <3>2. u # t /\ Stage(u) \in Locked /\ Stage(t) \in Locked
      BY <1>1, <3>1 DEF Locked
    <3>3. mine[u] \in Bufs /\ mine[u] # b /\ bcache[mine[u]].blockno \in BlockNos
      BY <3>1, <3>2, Busy DEF b
    <3> QED BY <1>9, <3>3
  <2>2. \A u \in Tasks : idx[u] # <<>> =>
           /\ mine'[u] = mine[u] /\ bcache'[mine[u]] = bcache[mine[u]]
           /\ newest'[bcache[mine[u]].blockno] = newest[bcache[mine[u]].blockno]
    BY <1>1, <1>6, <1>8, <2>1
  <2>3. \A u \in Tasks : Stage(u)' = "io" <=> Stage(u) = "io"
    BY <1>1, <1>2
  <2> QED BY <1>1, <2>2, <2>3, QueueFrame
<1> QED BY <1>12, <1>13, <1>14, <1>15, <1>16, <1>17

LEMMA ReleaseKeeps ==
  ASSUME IOInv, NEW t \in Tasks, releasesleep(t)
  PROVE  IOInv'
<1> USE DEF IOInv
<1> DEFINE b == mine[t]
           r == [bcache[b] EXCEPT !.holder = NoTask]
<1>1. /\ UNCHANGED <<lru, free, info, avail, used, platter, mine, idx, todo, newest>>
      /\ Stage(t) = "release"
      /\ at' = Woken("sleep_lock", Users(b), Point(t, "unref"))
      /\ bcache' = [bcache EXCEPT ![b] = r]
  BY DEF releasesleep, driver, Stage, Woke, Sleeps
<1>2. /\ at' \in [Tasks -> Points \union Sleeps]
      /\ Stage(t)' = "unref" /\ \A u \in Tasks \ {t} : Stage(u)' = Stage(u)
  <2>1. /\ Point(t, "unref") \in [Tasks -> Points \union Sleeps]
        /\ Woke(Point(t, "unref")[t]) = "unref"
        /\ \A u \in Tasks \ {t} : Woke(Point(t, "unref")[u]) = Stage(u)
    BY PointStages DEF Points, Sleeps, Woke
  <2>2. \A u \in Tasks : Woke(at'[u]) = Woke(Point(t, "unref")[u])
    BY <1>1, <2>1, WokenStages DEF Sleeps
  <2>3. at' \in [Tasks -> Points \union Sleeps]
    BY <1>1, <2>1, WokenStages DEF Sleeps
  <2> QED BY <2>1, <2>2, <2>3 DEF Stage
<1>3. /\ b \in Bufs /\ todo[t] \in Seq(Call) /\ todo[t] # <<>> /\ b # 0
      /\ bcache[b].blockno = Head(todo[t]).blockno /\ Paired(Rest(t))
  BY <1>1, Busy DEF Callers, Bufs
<1>4. \A u \in Tasks : Rest(u)' = Rest(u)
  BY <1>1, <1>2 DEF Rest
<1>5. /\ r \in Buffer /\ r.blockno = bcache[b].blockno /\ r.valid = bcache[b].valid
      /\ r.refcnt = bcache[b].refcnt /\ r.data = bcache[b].data /\ r.disk = bcache[b].disk
      /\ r.holder = NoTask
  BY <1>3, Fields DEF Buffer, Writers
<1> HIDE DEF r
<1>6. /\ bcache' \in [Bufs -> Buffer] /\ bcache'[b] = r
      /\ \A c \in Bufs \ {b} : bcache'[c] = bcache[c]
  BY <1>1, <1>3, <1>5, StoreBuffer
<1>7. /\ \A c \in Bufs : /\ bcache'[c].blockno = bcache[c].blockno
                         /\ bcache'[c].valid = bcache[c].valid
                         /\ bcache'[c].refcnt = bcache[c].refcnt
                         /\ bcache'[c].data = bcache[c].data
                         /\ bcache'[c].disk = bcache[c].disk
      /\ bcache'[b].holder = NoTask /\ \A c \in Bufs \ {b} : bcache'[c].holder = bcache[c].holder
  BY <1>5, <1>6
<1>8. bcache[b].holder = t /\ t # NoTask
  BY <1>1, BlockIOAssumption DEF Callers, Locked
<1> HIDE DEF b
<1>9. IOTypes'
  BY <1>1, <1>2, <1>6 DEF IOTypes
<1>10. Callers'
  <2>1. Stage(t)' # "idle" /\ Stage(t)' \notin Locked /\ Stage(t)' \notin {"rw", "io", "use"}
    BY <1>2 DEF Locked
  <2>2. mine'[t] = b /\ mine'[t] # 0 /\ todo'[t] # <<>> /\ bcache'[b].blockno = Head(todo'[t]).blockno
    BY <1>1, <1>3, <1>7 DEF b
  <2>3. Paired(Rest(t)')
    BY <1>3, <1>4
  <2>4. \A u \in Tasks \ {t} : mine[u] \in Bufs =>
           /\ bcache'[mine[u]].blockno = bcache[mine[u]].blockno
           /\ bcache'[mine[u]].valid = bcache[mine[u]].valid
           /\ bcache[mine[u]].holder = u => bcache'[mine[u]].holder = u
    BY <1>7, <1>8
  <2> QED BY <1>1, <1>2, <2>1, <2>2, <2>3, <2>4, CallersFrame
<1>11. Buffers'
  <2>1. \A c, d \in Bufs : bcache'[c].blockno = bcache'[d].blockno /\ bcache'[c].blockno # NoBlock => c = d
    BY <1>7 DEF Buffers
  <2>2. \A c \in Bufs : bcache'[c].valid = TRUE =>
          bcache'[c].blockno # NoBlock /\ bcache'[c].data = newest'[bcache'[c].blockno]
    BY <1>1, <1>7 DEF Buffers
  <2>3. ASSUME NEW c \in Bufs, NEW u \in Tasks, bcache'[c].holder = u
        PROVE  mine'[u] = c /\ Stage(u)' \in Locked
    <3>1. c # b
      BY <1>7, <2>3, BlockIOAssumption
    <3>2. bcache[c].holder = u
      BY <1>7, <2>3, <3>1
    <3>3. mine[u] = c /\ Stage(u) \in Locked
      BY <3>2 DEF Buffers
    <3>4. u # t
      BY <3>1, <3>3 DEF b
    <3> QED BY <1>1, <1>2, <3>3, <3>4
  <2> QED BY <2>1, <2>2, <2>3 DEF Buffers
<1>12. RefsCounted' /\ Stored'
  BY <1>1, <1>4, <1>7, CountedFrame, StoredFrame
<1>13. Chains' /\ Requests'
  <2>1. \A u \in Tasks : idx[u] # <<>> => mine[u] \in Bufs
    BY Busy DEF Chains
  <2> QED BY <1>1, <1>2, <1>7, <2>1, QueueFrame
<1> QED BY <1>9, <1>10, <1>11, <1>12, <1>13

\* The list keeps every buffer.
LEMMA ToFrontKeeps ==
  ASSUME IOTypes, NEW b \in Bufs
  PROVE  /\ ToFront(b) \in [Bufs -> Bufs]
         /\ \A c \in Bufs : \E i \in Bufs : ToFront(b)[i] = c
<1> USE BlockIOAssumption DEF Bufs
<1> DEFINE p == CHOOSE i \in Bufs : lru[i] = b
<1>1. p \in Bufs /\ lru[p] = b
  BY DEF IOTypes
<1>2. ToFront(b) = [i \in Bufs |-> IF i = 1 THEN b ELSE IF i <= p THEN lru[i - 1] ELSE lru[i]]
  BY DEF ToFront
<1> HIDE DEF p
<1>3. lru \in [Bufs -> Bufs]
  BY DEF IOTypes
<1>4. ToFront(b) \in [Bufs -> Bufs]
  <2>1. ASSUME NEW i \in Bufs
        PROVE  (IF i = 1 THEN b ELSE IF i <= p THEN lru[i - 1] ELSE lru[i]) \in Bufs
    <3>1. i # 1 => i - 1 \in Bufs
      OBVIOUS
    <3> QED BY <1>3, <3>1
  <2> QED BY <1>2, <2>1
<1>5. ASSUME NEW c \in Bufs PROVE \E i \in Bufs : ToFront(b)[i] = c
  <2>1. PICK i \in Bufs : lru[i] = c
    BY DEF IOTypes
  <2>2. CASE c = b
    BY <1>2, <2>2
  <2>3. CASE c # b /\ i < p
    <3>1. i + 1 \in Bufs /\ i + 1 # 1 /\ i + 1 <= p /\ (i + 1) - 1 = i
      BY <1>1, <2>3
    <3> QED BY <1>2, <2>1, <3>1
  <2>4. CASE c # b /\ i > p
    <3>1. i # 1 /\ ~(i <= p)
      BY <1>1, <2>4
    <3> QED BY <1>2, <2>1, <3>1
  <2>5. i # p \/ c = b
    BY <1>1, <2>1
  <2> QED BY <1>1, <2>2, <2>3, <2>4, <2>5
<1> QED BY <1>4, <1>5

LEMMA BrelseKeeps ==
  ASSUME IOInv, NEW t \in Tasks, brelse(t)
  PROVE  IOInv'
<1> USE DEF IOInv
<1> DEFINE b == mine[t]
           r == [bcache[b] EXCEPT !.refcnt = bcache[b].refcnt - 1]
<1>1. /\ UNCHANGED <<free, info, avail, used, platter, idx, newest>>
      /\ Stage(t) = "unref" /\ at' = Point(t, "idle")
      /\ bcache' = [bcache EXCEPT ![b] = r] /\ lru' \in {lru, ToFront(b)}
      /\ mine' = [mine EXCEPT ![t] = 0] /\ todo' = [todo EXCEPT ![t] = Tail(todo[t])]
  BY DEF brelse, driver, Stage, Woke, Sleeps
<1>2. /\ at' \in [Tasks -> Points \union Sleeps]
      /\ Stage(t)' = "idle" /\ \A u \in Tasks \ {t} : Stage(u)' = Stage(u)
  BY <1>1, PointStages DEF Points, Sleeps, Stage, Woke
<1>3. /\ b \in Bufs /\ todo[t] \in Seq(Call) /\ todo[t] # <<>> /\ Paired(Rest(t))
      /\ Tail(todo[t]) \in Seq(Call)
  BY <1>1, Busy, Shifted DEF Callers
<1>4. /\ todo'[t] = Tail(todo[t]) /\ \A u \in Tasks \ {t} : todo'[u] = todo[u]
      /\ todo' \in [Tasks -> Seq(Call)]
      /\ mine'[t] = 0 /\ \A u \in Tasks \ {t} : mine'[u] = mine[u]
      /\ mine' \in [Tasks -> 0..NBUF]
  BY <1>1, <1>3, BlockIOAssumption DEF IOTypes
<1>5. \A u \in Tasks : Rest(u)' = Rest(u)
  BY <1>1, <1>2, <1>4 DEF Rest
<1>6. t \in Users(b) /\ Cardinality(Users(b)) \in Nat \ {0}
  <2>1. t \in Users(b)
    BY DEF Users
  <2> QED BY <2>1, Counts
<1>7. bcache[b].refcnt - 1 \in Nat /\ bcache[b] \in Buffer
  BY <1>3, <1>6, Counts, Fields DEF RefsCounted
<1>8. /\ r \in Buffer /\ r.blockno = bcache[b].blockno /\ r.valid = bcache[b].valid
      /\ r.refcnt = bcache[b].refcnt - 1 /\ r.data = bcache[b].data /\ r.disk = bcache[b].disk
      /\ r.holder = bcache[b].holder
  BY <1>7, SetRefcnt
<1> HIDE DEF r
<1>9. /\ bcache' \in [Bufs -> Buffer] /\ bcache'[b] = r
      /\ \A c \in Bufs \ {b} : bcache'[c] = bcache[c]
  BY <1>1, <1>3, <1>8, StoreBuffer
<1>10. \A c \in Bufs : /\ bcache'[c].blockno = bcache[c].blockno
                       /\ bcache'[c].valid = bcache[c].valid
                       /\ bcache'[c].data = bcache[c].data
                       /\ bcache'[c].disk = bcache[c].disk
                       /\ bcache'[c].holder = bcache[c].holder
  BY <1>8, <1>9
<1> HIDE DEF b
<1>11. IOTypes'
  <2>1. lru' \in [Bufs -> Bufs] /\ \A c \in Bufs : \E i \in Bufs : lru'[i] = c
    <3>1. CASE lru' = lru
      BY <3>1 DEF IOTypes
    <3>2. CASE lru' = ToFront(b)
      BY <1>3, <3>2, ToFrontKeeps
    <3> QED BY <1>1, <3>1, <3>2
  <2> QED BY <1>1, <1>2, <1>4, <1>9, <2>1 DEF IOTypes
<1>12. Callers'
  <2>1. Stage(t)' = "idle" /\ Stage(t)' \notin Locked /\ Stage(t)' \notin {"rw", "io", "use"}
    BY <1>2 DEF Locked
  <2>2. Paired(Rest(t)')
    BY <1>3, <1>5
  <2> QED BY <1>2, <1>4, <1>10, <2>1, <2>2, CallersFrame
<1>13. Buffers'
  <2>1. \A c \in Bufs : bcache[c].holder # t
    BY <1>1 DEF Buffers, Locked
  <2>2. \A c, d \in Bufs : bcache'[c].blockno = bcache'[d].blockno /\ bcache'[c].blockno # NoBlock => c = d
    BY <1>10 DEF Buffers
  <2>3. \A c \in Bufs : bcache'[c].valid = TRUE =>
          bcache'[c].blockno # NoBlock /\ bcache'[c].data = newest'[bcache'[c].blockno]
    BY <1>1, <1>10 DEF Buffers
  <2>4. ASSUME NEW c \in Bufs, NEW u \in Tasks, bcache'[c].holder = u
        PROVE  mine'[u] = c /\ Stage(u)' \in Locked
    <3>1. bcache[c].holder = u
      BY <1>10, <2>4
    <3>2. u # t /\ mine[u] = c /\ Stage(u) \in Locked
      BY <2>1, <3>1 DEF Buffers
    <3> QED BY <1>2, <1>4, <3>2
  <2> QED BY <2>2, <2>3, <2>4 DEF Buffers
<1>14. RefsCounted'
  <2> SUFFICES ASSUME NEW c \in Bufs
               PROVE  bcache'[c].refcnt = Cardinality(Users(c)') + Cardinality(Pinners(c)')
    BY DEF RefsCounted
  <2>1. Pinners(c)' = Pinners(c)
    BY <1>5, <1>10 DEF Pinners
  <2>2. CASE c = b
    <3>1. Users(c)' = Users(c) \ {t}
      BY <1>3, <1>4, <2>2, BlockIOAssumption DEF Users, Bufs
    <3>2. Cardinality(Users(c)') = Cardinality(Users(c)) - 1
      <4>1. IsFiniteSet(Users(c)) /\ t \in Users(c)
        BY <1>6, <2>2, Counts
      <4> QED BY <3>1, <4>1, FS_RemoveElement
    <3> QED BY <1>6, <1>8, <1>9, <2>1, <2>2, <3>2, Counts DEF RefsCounted
  <2>3. CASE c # b
    <3>1. Users(c)' = Users(c)
      BY <1>4, <2>3, BlockIOAssumption DEF Users, Bufs, b
    <3> QED BY <1>9, <2>1, <2>3, <3>1 DEF RefsCounted
  <2> QED BY <2>2, <2>3
<1>15. Stored'
  BY <1>1, <1>5, <1>10, StoredFrame
<1>16. Chains' /\ Requests'
  <2>1. \A u \in Tasks : idx[u] # <<>> => u # t /\ mine[u] \in Bufs
    BY <1>1, Busy DEF Chains
  <2> QED BY <1>1, <1>2, <1>4, <1>10, <2>1, QueueFrame
<1> QED BY <1>11, <1>12, <1>13, <1>14, <1>15, <1>16-----------------------------------------------------------------------------
(* The driver.                                                             *)

\* A process whose request is under way has a buffer and descriptors of its own.
LEMMA InFlight ==
  ASSUME IOInv, NEW t \in Tasks, idx[t] # <<>>
  PROVE  /\ Stage(t) = "io" /\ mine[t] \in Bufs /\ bcache[mine[t]].blockno \in BlockNos
         /\ bcache[mine[t]].blockno = Head(todo[t]).blockno
         /\ idx[t] \in Descriptors \X Descriptors \X Descriptors
         /\ idx[t][1] \in Descriptors /\ idx[t][1] \in Held(t)
         /\ Held(t) = {idx[t][1], idx[t][2], idx[t][3]} /\ Held(t) \subseteq Descriptors
         /\ bcache[mine[t]].holder = t
         /\ \A u \in Tasks \ {t} : idx[u] # <<>> =>
              /\ mine[u] # mine[t] /\ idx[u][1] # idx[t][1]
              /\ bcache[mine[u]].blockno # bcache[mine[t]].blockno
<1> USE DEF IOInv
<1>1. Stage(t) = "io" /\ \A u \in Tasks : idx[u] # <<>> => Stage(u) = "io"
  BY DEF Chains
<1>2. /\ mine[t] \in Bufs /\ bcache[mine[t]].blockno \in BlockNos
      /\ bcache[mine[t]].blockno = Head(todo[t]).blockno
  BY <1>1, Busy
<1>3. idx[t] \in Descriptors \X Descriptors \X Descriptors
  BY DEF IOTypes
<1>4. Held(t) = {idx[t][1], idx[t][2], idx[t][3]} /\ Held(t) \subseteq Descriptors
  BY <1>3 DEF Held
<1>5. ASSUME NEW u \in Tasks \ {t}, idx[u] # <<>>
      PROVE  /\ mine[u] # mine[t] /\ idx[u][1] # idx[t][1]
             /\ bcache[mine[u]].blockno # bcache[mine[t]].blockno
  <2>1. mine[u] \in Bufs /\ mine[u] # mine[t]
    BY <1>1, <1>5, Busy DEF Locked
  <2>2. idx[u][1] \in Held(u) /\ idx[t][1] \in Held(t)
    BY <1>4, <1>5 DEF Held
  <2>3. idx[u][1] # idx[t][1]
    BY <2>2 DEF Chains
  <2>4. bcache[mine[u]].blockno # bcache[mine[t]].blockno
    BY <1>2, <2>1, BlockIOAssumption DEF Buffers
  <2> QED BY <2>1, <2>3, <2>4
<1>6. bcache[mine[t]].holder = t
  BY <1>1 DEF Callers, Locked
<1> QED BY <1>1, <1>2, <1>3, <1>4, <1>5, <1>6

LEMMA LowestFree ==
  ASSUME NEW S \in SUBSET Descriptors, S # {}
  PROVE  Lowest(S) \in S
<1>1. \E d \in S : \A e \in S : d <= e
  <2>1. S \subseteq Nat
    BY BlockIOAssumption DEF Descriptors
  <2> QED BY <2>1, Least
<1> QED BY <1>1 DEF Lowest

LEMMA Allocated ==
  ASSUME NEW S \in SUBSET Descriptors, ~(Cardinality(S) < 3)
  PROVE  /\ alloc3_desc(S) \in Descriptors \X Descriptors \X Descriptors
         /\ \A k \in 1..3 : alloc3_desc(S)[k] \in S
<1> DEFINE i == Lowest(S)
           j == Lowest(S \ {i})
           k == Lowest(S \ {i, j})
<1>1. IsFiniteSet(S) /\ Cardinality(S) \in Nat
  <2>1. 0 \in Int /\ NUM - 1 \in Int
    BY BlockIOAssumption
  <2> QED BY <2>1, FS_Interval, FS_Subset, FS_CardinalityType DEF Descriptors
<1>2. i \in S
  <2>1. S # {}
    BY <1>1, FS_EmptySet
  <2> QED BY <2>1, LowestFree
<1>3. IsFiniteSet(S \ {i}) /\ Cardinality(S \ {i}) = Cardinality(S) - 1
  BY <1>1, <1>2, FS_RemoveElement
<1>4. j \in S \ {i}
  <2>1. S \ {i} # {}
    BY <1>1, <1>3, FS_EmptySet
  <2> HIDE DEF i
  <2> QED BY <2>1, LowestFree
<1>5. Cardinality((S \ {i}) \ {j}) = Cardinality(S \ {i}) - 1 /\ IsFiniteSet((S \ {i}) \ {j})
  <2> HIDE DEF i, j
  <2> QED BY <1>3, <1>4, FS_RemoveElement
<1>6. k \in S \ {i, j}
  <2> HIDE DEF i, j
  <2>1. (S \ {i}) \ {j} = S \ {i, j}
    OBVIOUS
  <2>2. S \ {i, j} # {}
    BY <1>1, <1>3, <1>5, <2>1, FS_EmptySet
  <2> QED BY <2>2, LowestFree
<1>7. alloc3_desc(S) = <<i, j, k>>
  BY DEF alloc3_desc
<1> HIDE DEF i, j, k
<1> QED BY <1>2, <1>4, <1>6, <1>7
LEMMA QueueKeeps ==
  ASSUME IOInv, NEW t \in Tasks, virtio_disk_rw(t)
  PROVE  IOInv'
<1> USE DEF IOInv
<1>1. /\ UNCHANGED <<lru, used, platter, mine, todo, newest>>
      /\ Stage(t) = "rw"
  BY DEF virtio_disk_rw, Stage, Woke, Sleeps
<1>2. CASE Cardinality(free) < 3
  <2>1. /\ UNCHANGED <<bcache, free, info, avail, idx>>
        /\ at' \in {Point(t, "sleep_free"), Woken("sleep_free", Tasks \ {t}, Point(t, "sleep_free"))}
    BY <1>2 DEF virtio_disk_rw
  <2> DEFINE pcs == Point(t, "sleep_free")
  <2>2. pcs \in [Tasks -> Points \union Sleeps] /\ \A u \in Tasks : Woke(pcs[u]) = Stage(u)
    <3>1. Woke("sleep_free") = "rw"
      BY DEF Woke, Awake, Sleeps
    <3> QED BY <1>1, <3>1, PointStages DEF Sleeps
  <2> HIDE DEF pcs
  <2>3. /\ Woken("sleep_free", Tasks \ {t}, pcs) \in [Tasks -> Points \union Sleeps]
        /\ \A u \in Tasks : Woke(Woken("sleep_free", Tasks \ {t}, pcs)[u]) = Woke(pcs[u])
    BY <2>2, WokenStages DEF Sleeps
  <2>4. at' \in [Tasks -> Points \union Sleeps] /\ \A u \in Tasks : Woke(at'[u]) = Stage(u)
    BY <2>1, <2>2, <2>3 DEF pcs
  <2>5. \A u \in Tasks : Stage(u)' = Stage(u)
    BY <2>4 DEF Stage
  <2> QED BY <1>1, <2>1, <2>4, <2>5, SameStages
<1>3. CASE ~(Cardinality(free) < 3)
  <2> DEFINE b == mine[t]
             d == alloc3_desc(free)
             r == [bcache[b] EXCEPT !.disk = TRUE]
             q == [id |-> d[1], buf |-> b, blockno |-> bcache[b].blockno, write |-> bcache[b].valid]
  <2>1. /\ idx' = [idx EXCEPT ![t] = d] /\ free' = free \ {d[1], d[2], d[3]}
        /\ info' = [info EXCEPT ![d[1]] = b] /\ bcache' = [bcache EXCEPT ![b] = r]
        /\ avail' = avail \union {q} /\ at' = Point(t, "sleep_io")
    BY <1>3 DEF virtio_disk_rw
  <2>2. /\ d \in Descriptors \X Descriptors \X Descriptors /\ d # <<>>
        /\ d[1] \in free /\ d[2] \in free /\ d[3] \in free /\ d[1] \in Descriptors
    <3>1. free \subseteq Descriptors
      BY DEF IOTypes
    <3>2. d \in Descriptors \X Descriptors \X Descriptors /\ \A k \in 1..3 : d[k] \in free
      BY <1>3, <3>1, Allocated
    <3> HIDE DEF d
    <3>3. d # <<>> /\ d[1] \in Descriptors
      <4>1. PICK i \in Descriptors, j \in Descriptors, k \in Descriptors : d = <<i, j, k>>
        BY <3>2
      <4> QED BY <4>1
    <3>4. d[1] \in free /\ d[2] \in free /\ d[3] \in free
      BY <3>2
    <3> QED BY <3>2, <3>3, <3>4
  <2> HIDE DEF d
  <2>3. /\ at' \in [Tasks -> Points \union Sleeps]
        /\ Stage(t)' = "io" /\ \A u \in Tasks \ {t} : Stage(u)' = Stage(u)
    <3>1. Woke("sleep_io") = "io"
      BY DEF Woke, Awake, Sleeps
    <3> QED BY <2>1, <3>1, PointStages DEF Sleeps, Stage
  <2>4. /\ b \in Bufs /\ b # 0 /\ bcache[b].blockno \in BlockNos /\ bcache[b].holder = t
        /\ todo[t] # <<>> /\ bcache[b].blockno = Head(todo[t]).blockno /\ Paired(Rest(t))
        /\ bcache[b].valid = TRUE => Head(todo[t]).op = "install"
        /\ idx[t] = <<>> /\ bcache[b].valid \in BOOLEAN
    <3>1. b \in Bufs
      BY <1>1, Busy
    <3> QED BY <1>1, <3>1, Busy, Fields DEF Callers, Locked, Chains, Bufs
  <2>5. \A u \in Tasks : Rest(u)' = Rest(u)
    BY <1>1, <2>3 DEF Rest
  <2>6. /\ r \in Buffer /\ r.blockno = bcache[b].blockno /\ r.valid = bcache[b].valid
        /\ r.refcnt = bcache[b].refcnt /\ r.data = bcache[b].data /\ r.disk = TRUE
        /\ r.holder = bcache[b].holder
    BY <2>4, Fields DEF Buffer
  <2> HIDE DEF r
  <2>7. /\ bcache' \in [Bufs -> Buffer] /\ bcache'[b] = r
        /\ \A c \in Bufs \ {b} : bcache'[c] = bcache[c]
    BY <2>1, <2>4, <2>6, StoreBuffer
  <2>8. /\ \A c \in Bufs : /\ bcache'[c].blockno = bcache[c].blockno
                           /\ bcache'[c].valid = bcache[c].valid
                           /\ bcache'[c].refcnt = bcache[c].refcnt
                           /\ bcache'[c].data = bcache[c].data
                           /\ bcache'[c].holder = bcache[c].holder
        /\ bcache'[b].disk = TRUE /\ \A c \in Bufs \ {b} : bcache'[c].disk = bcache[c].disk
    BY <2>6, <2>7
  <2>9. /\ idx'[t] = d /\ \A u \in Tasks \ {t} : idx'[u] = idx[u]
        /\ idx' \in [Tasks -> {<<>>} \union (Descriptors \X Descriptors \X Descriptors)]
        /\ info'[d[1]] = b /\ \A e \in Descriptors \ {d[1]} : info'[e] = info[e]
        /\ info' \in [Descriptors -> 0..NBUF]
    BY <2>1, <2>2, <2>4, BlockIOAssumption DEF IOTypes, Bufs
  <2>10. /\ q \in [id : Descriptors, buf : Bufs, blockno : BlockNos, write : BOOLEAN]
         /\ q.id = d[1] /\ q.buf = b /\ q.blockno = bcache[b].blockno /\ q.write = bcache[b].valid
    BY <2>2, <2>4
  <2> HIDE DEF q
  <2>11. IOTypes'
    <3>1. /\ free' \subseteq Descriptors
          /\ avail' \subseteq [id : Descriptors, buf : Bufs, blockno : BlockNos, write : BOOLEAN]
      BY <2>1, <2>10 DEF IOTypes
    <3> QED BY <1>1, <2>3, <2>7, <2>9, <3>1 DEF IOTypes
  <2>12. Callers'
    <3>1. Stage(t)' # "idle" /\ Stage(t)' # "use"
      BY <2>3
    <3>2. mine'[t] = b /\ todo'[t] = todo[t] /\ Paired(Rest(t)')
      BY <1>1, <2>4, <2>5 DEF b
    <3>3. \A u \in Tasks \ {t} : mine[u] \in Bufs =>
             /\ bcache'[mine[u]].blockno = bcache[mine[u]].blockno
             /\ bcache'[mine[u]].valid = bcache[mine[u]].valid
             /\ bcache'[mine[u]].holder = bcache[mine[u]].holder
      BY <2>8
    <3>4. /\ mine'[t] # 0 /\ todo'[t] # <<>> /\ bcache'[mine'[t]].holder = t
          /\ bcache'[mine'[t]].blockno = Head(todo'[t]).blockno
          /\ bcache'[mine'[t]].valid = TRUE => Head(todo'[t]).op = "install"
      BY <2>4, <2>8, <3>2
    <3>5. \A u \in Tasks \ {t} : Stage(u)' = Stage(u) /\ mine'[u] = mine[u] /\ todo'[u] = todo[u]
      BY <1>1, <2>3
    <3>6. Paired(Rest(t)')
      BY <3>2
    <3> HIDE DEF b
    <3> QED BY <3>1, <3>3, <3>4, <3>5, <3>6, CallersFrame
  <2>13. Buffers'
    <3>1. \A c, e \in Bufs : bcache'[c].blockno = bcache'[e].blockno /\ bcache'[c].blockno # NoBlock => c = e
      BY <2>8 DEF Buffers
    <3>2. \A c \in Bufs : bcache'[c].valid = TRUE =>
            bcache'[c].blockno # NoBlock /\ bcache'[c].data = newest'[bcache'[c].blockno]
      BY <1>1, <2>8 DEF Buffers
    <3>3. \A u \in Tasks : Stage(u) \in Locked => Stage(u)' \in Locked
      BY <2>3 DEF Locked
    <3>4. \A c \in Bufs : \A u \in Tasks : bcache'[c].holder = u => mine'[u] = c /\ Stage(u)' \in Locked
      BY <1>1, <2>8, <3>3 DEF Buffers
    <3> QED BY <3>1, <3>2, <3>4 DEF Buffers
  <2>14. RefsCounted' /\ Stored'
    BY <1>1, <2>5, <2>8, CountedFrame, StoredFrame
  <2>15. \A u \in Tasks \ {t} : idx[u] # <<>> =>
            /\ Held(u)' = Held(u) /\ d[1] \notin Held(u) /\ d[2] \notin Held(u) /\ d[3] \notin Held(u)
            /\ idx[u][1] \in Held(u) /\ idx[u][1] \in Descriptors /\ idx[u][1] # d[1]
    <3>1. \A u \in Tasks \ {t} : idx[u] # <<>> => /\ idx[u][1] \in Held(u) /\ idx[u][1] \in Descriptors
                                                  /\ Held(u)' = Held(u)
      BY <2>9, InFlight DEF Held
    <3>2. \A u \in Tasks : \A e \in Held(u) : e \notin free
      BY DEF Chains
    <3> QED BY <2>2, <3>1, <3>2
  <2>16. Held(t)' = {d[1], d[2], d[3]}
    BY <2>2, <2>9 DEF Held
  <2>17. \A u \in Tasks \ {t} : Held(u) = {} \/ idx[u] # <<>>
    BY DEF Held
  <2>18. \A u \in Tasks \ {t} : idx[u] = <<>> => Held(u)' = {}
    BY <2>9 DEF Held
  <2>19. Chains'
    <3>1. \A u \in Tasks : Stage(u)' = "io" <=> idx'[u] # <<>>
      BY <2>2, <2>3, <2>9 DEF Chains
    <3>2. \A u \in Tasks : \A e \in Held(u)' : e \notin free'
      <4>1. \A e \in Held(t)' : e \notin free'
        BY <2>1, <2>16
      <4>2. \A u \in Tasks \ {t} : \A e \in Held(u)' : e \notin free'
        BY <2>1, <2>15, <2>18 DEF Chains
      <4> QED BY <4>1, <4>2
    <3>3. \A u, v \in Tasks : \A e \in Held(u)' : e \in Held(v)' => v = u
      <4>1. \A u \in Tasks \ {t} : \A e \in Held(u)' : e \notin Held(t)' /\ e \in Held(u)
        BY <2>15, <2>16, <2>18
      <4> QED BY <4>1 DEF Chains
    <3>4. \A u \in Tasks : idx'[u] # <<>> => info'[idx'[u][1]] = mine'[u]
      <4>1. idx'[t] # <<>> => info'[idx'[t][1]] = mine'[t]
        BY <1>1, <2>9 DEF b
      <4>2. \A u \in Tasks \ {t} : idx'[u] # <<>> => info'[idx'[u][1]] = mine'[u]
        BY <1>1, <2>9, <2>15 DEF Chains
      <4> QED BY <4>1, <4>2
    <3> QED BY <3>1, <3>2, <3>3, <3>4 DEF Chains
  <2>20. \A u \in Tasks \ {t} : idx[u] # <<>> =>
            /\ mine'[u] = mine[u] /\ mine[u] \in Bufs /\ idx'[u] = idx[u]
            /\ Asked(u)' <=> Asked(u)
            /\ Served(u)' <=> Served(u)
            /\ bcache[mine[u]].disk = TRUE => bcache'[mine[u]].disk = TRUE
    BY <1>1, <2>1, <2>8, <2>9, <2>10, <2>15, InFlight DEF Asked, Served
  <2>21. Asked(t)' /\ ~Served(t)'
    <3>1. Asked(t)'
      BY <2>1, <2>9, <2>10 DEF Asked
    <3>2. ASSUME NEW i \in DOMAIN used, used[i] = d[1] PROVE FALSE
      <4>1. PICK u \in Tasks : idx[u] # <<>> /\ used[i] = idx[u][1]
        BY DEF Requests
      <4>2. u # t
        BY <2>4, <4>1
      <4> QED BY <2>15, <3>2, <4>1, <4>2
    <3> QED BY <1>1, <2>9, <3>1, <3>2 DEF Served
  <2>22. Requests'
    <3>1. ASSUME NEW x \in avail'
          PROVE  \E u \in Tasks :
                   /\ idx'[u] # <<>> /\ x.id = idx'[u][1] /\ x.buf = mine'[u]
                   /\ x.blockno = bcache'[mine'[u]].blockno /\ x.write = bcache'[mine'[u]].valid
      <4>1. CASE x = q
        BY <1>1, <2>2, <2>4, <2>8, <2>9, <2>10, <4>1 DEF b
      <4>2. CASE x \in avail
        <5>1. PICK u \in Tasks :
                 /\ idx[u] # <<>> /\ x.id = idx[u][1] /\ x.buf = mine[u]
                 /\ x.blockno = bcache[mine[u]].blockno /\ x.write = bcache[mine[u]].valid
          BY <4>2 DEF Requests
        <5>2. u # t
          BY <2>4, <5>1
        <5> QED BY <2>8, <2>20, <5>1, <5>2
      <4> QED BY <2>1, <4>1, <4>2
    <3>2. \A i \in DOMAIN used' : \E u \in Tasks : idx'[u] # <<>> /\ used'[i] = idx'[u][1]
      BY <1>1, <2>4, <2>9 DEF Requests
    <3>3. \A i, j \in DOMAIN used' : used'[i] = used'[j] => i = j
      BY <1>1 DEF Requests
    <3>4. ASSUME NEW u \in Tasks \ {t}, idx'[u] # <<>>
          PROVE  /\ Asked(u)' \/ Served(u)' => bcache'[mine'[u]].disk = TRUE
                 /\ ~(Asked(u)' /\ Served(u)')
                 /\ ~Asked(u)' => IF bcache'[mine'[u]].valid = TRUE
                      THEN platter'[bcache'[mine'[u]].blockno] = newest'[bcache'[mine'[u]].blockno]
                      ELSE bcache'[mine'[u]].data = newest'[bcache'[mine'[u]].blockno]
      <4>1. idx[u] # <<>>
        BY <2>9, <3>4
      <4> QED BY <1>1, <2>8, <2>20, <4>1 DEF Requests
    <3>5. /\ bcache'[mine'[t]].disk = TRUE
      BY <1>1, <2>8 DEF b
    <3> QED BY <2>21, <3>1, <3>2, <3>3, <3>4, <3>5 DEF Requests
  <2> QED BY <2>11, <2>12, <2>13, <2>14, <2>19, <2>22
<1> QED BY <1>2, <1>3
\* free_chain(): a process gives back the descriptors of a request it has seen done.
LEMMA ChainFreed ==
  ASSUME IOInv, NEW t \in Tasks, idx[t] # <<>>, ~Asked(t), ~Served(t),
         idx' = [idx EXCEPT ![t] = <<>>], free' = free \union Held(t),
         info' = [info EXCEPT ![idx[t][1]] = 0],
         UNCHANGED <<avail, used, platter, mine, newest>>,
         Stage(t)' # "io", \A u \in Tasks \ {t} : Stage(u)' = Stage(u),
         \A u \in Tasks \ {t} : idx[u] # <<>> => bcache'[mine[u]] = bcache[mine[u]]
  PROVE  /\ free' \subseteq Descriptors /\ info' \in [Descriptors -> 0..NBUF]
         /\ idx' \in [Tasks -> {<<>>} \union (Descriptors \X Descriptors \X Descriptors)]
         /\ Chains' /\ Requests'
<1> USE DEF IOInv
<1>1. idx'[t] = <<>> /\ \A u \in Tasks \ {t} : idx'[u] = idx[u]
  BY DEF IOTypes
<1>2. idx[t][1] \in Descriptors /\ Held(t) \subseteq Descriptors /\ idx[t][1] \in Held(t)
  BY InFlight
<1>3. \A d \in Descriptors \ {idx[t][1]} : info'[d] = info[d]
  BY DEF IOTypes
<1>4. free' \subseteq Descriptors
  BY <1>2 DEF IOTypes
<1>5. info' \in [Descriptors -> 0..NBUF]
  <2>1. 0 \in 0..NBUF
    BY BlockIOAssumption
  <2> QED BY <1>2, <2>1 DEF IOTypes
<1>6. idx' \in [Tasks -> {<<>>} \union (Descriptors \X Descriptors \X Descriptors)]
  BY DEF IOTypes
<1>7. Held(t)' = {} /\ \A u \in Tasks \ {t} : Held(u)' = Held(u)
  BY <1>1 DEF Held
<1>8. \A u \in Tasks \ {t} : idx[u] # <<>> =>
         /\ idx[u][1] \in Descriptors /\ idx[u][1] # idx[t][1] /\ idx[u][1] \in Held(u)
         /\ info'[idx[u][1]] = info[idx[u][1]]
  BY <1>3, InFlight
<1>9. Chains'
  <2>1. \A u \in Tasks : Stage(u)' = "io" <=> idx'[u] # <<>>
    BY <1>1 DEF Chains
  <2>2. \A u \in Tasks : \A d \in Held(u)' : d \notin free'
    <3>1. \A u \in Tasks \ {t} : \A d \in Held(u) : d \notin free /\ d \notin Held(t)
      BY DEF Chains
    <3> QED BY <1>7, <3>1
  <2>3. \A u, v \in Tasks : \A d \in Held(u)' : d \in Held(v)' => v = u
    BY <1>7 DEF Chains
  <2>4. \A u \in Tasks : idx'[u] # <<>> => info'[idx'[u][1]] = mine'[u]
    BY <1>1, <1>8 DEF Chains
  <2> QED BY <2>1, <2>2, <2>3, <2>4 DEF Chains
<1>10. \A u \in Tasks \ {t} : (Asked(u)' <=> Asked(u)) /\ (Served(u)' <=> Served(u))
  BY <1>1 DEF Asked, Served
<1>11. Requests'
  <2>1. ASSUME NEW r \in avail'
        PROVE  \E u \in Tasks :
                 /\ idx'[u] # <<>> /\ r.id = idx'[u][1] /\ r.buf = mine'[u]
                 /\ r.blockno = bcache'[mine'[u]].blockno /\ r.write = bcache'[mine'[u]].valid
    <3>1. PICK u \in Tasks :
             /\ idx[u] # <<>> /\ r.id = idx[u][1] /\ r.buf = mine[u]
             /\ r.blockno = bcache[mine[u]].blockno /\ r.write = bcache[mine[u]].valid
      BY DEF Requests
    <3>2. u # t
      BY <3>1 DEF Asked
    <3> QED BY <1>1, <3>1, <3>2
  <2>2. ASSUME NEW i \in DOMAIN used' PROVE \E u \in Tasks : idx'[u] # <<>> /\ used'[i] = idx'[u][1]
    <3>1. PICK u \in Tasks : idx[u] # <<>> /\ used[i] = idx[u][1]
      BY DEF Requests
    <3>2. u # t
      BY <3>1 DEF Served
    <3> QED BY <1>1, <3>1, <3>2
  <2>3. \A i, j \in DOMAIN used' : used'[i] = used'[j] => i = j
    BY DEF Requests
  <2>4. ASSUME NEW u \in Tasks, idx'[u] # <<>>
        PROVE  /\ Asked(u)' \/ Served(u)' => bcache'[mine'[u]].disk = TRUE
               /\ ~(Asked(u)' /\ Served(u)')
               /\ ~Asked(u)' => IF bcache'[mine'[u]].valid = TRUE
                    THEN platter'[bcache'[mine'[u]].blockno] = newest'[bcache'[mine'[u]].blockno]
                    ELSE bcache'[mine'[u]].data = newest'[bcache'[mine'[u]].blockno]
    <3>1. u # t /\ idx[u] # <<>>
      BY <1>1, <2>4
    <3> QED BY <1>10, <3>1 DEF Requests
  <2> QED BY <2>1, <2>2, <2>3, <2>4 DEF Requests
<1> QED BY <1>4, <1>5, <1>6, <1>9, <1>11

\* A request that is not done yet sends its process back to sleep.
LEMMA StillWaiting ==
  ASSUME IOInv, NEW t \in Tasks, EndOfIO(t), bcache[mine[t]].disk = TRUE
  PROVE  IOInv'
<1>1. /\ at' = Point(t, "sleep_io") /\ Stage(t) = "io"
      /\ UNCHANGED <<bcache, lru, free, info, avail, used, platter, mine, idx, todo, newest>>
  BY DEF EndOfIO, Stage, Woke, Sleeps
<1>2. Woke("sleep_io") = "io"
  BY DEF Woke, Awake, Sleeps
<1>3. at' \in [Tasks -> Points \union Sleeps] /\ \A u \in Tasks : Stage(u)' = Stage(u)
  BY <1>1, <1>2, PointStages DEF IOInv, Sleeps, Stage
<1> QED BY <1>1, <1>3, SameStages

\* What the two ends of a request have in common.
LEMMA Ended ==
  ASSUME IOInv, NEW t \in Tasks, EndOfIO(t), bcache[mine[t]].disk # TRUE,
         NEW l \in {"use", "release"}, at' = Freeing(t, l)
  PROVE  /\ idx[t] # <<>> /\ ~Asked(t) /\ ~Served(t) /\ Stage(t) = "io"
         /\ idx' = [idx EXCEPT ![t] = <<>>] /\ free' = free \union Held(t)
         /\ info' = [info EXCEPT ![idx[t][1]] = 0]
         /\ UNCHANGED <<lru, avail, used, platter, mine, todo, newest>>
         /\ at' \in [Tasks -> Points \union Sleeps]
         /\ Stage(t)' = l /\ \A u \in Tasks \ {t} : Stage(u)' = Stage(u)
         /\ mine[t] \in Bufs /\ mine[t] # 0 /\ bcache[mine[t]].blockno \in BlockNos
         /\ bcache[mine[t]].blockno = Head(todo[t]).blockno /\ bcache[mine[t]].holder = t
         /\ Rest(t) = todo[t] /\ todo[t] \in Seq(Call) /\ todo[t] # <<>> /\ Paired(todo[t])
         /\ IF bcache[mine[t]].valid = TRUE
              THEN platter[bcache[mine[t]].blockno] = newest[bcache[mine[t]].blockno]
              ELSE bcache[mine[t]].data = newest[bcache[mine[t]].blockno]
<1> USE DEF IOInv
<1>1. Stage(t) = "io" /\ UNCHANGED <<lru, avail, used, platter, mine, todo, newest>>
  BY DEF EndOfIO, Stage, Woke, Sleeps
<1>2. idx[t] # <<>>
  BY <1>1 DEF Chains
<1>3. ~Asked(t) /\ ~Served(t)
  BY <1>2 DEF Requests
<1>4. /\ mine[t] \in Bufs /\ mine[t] # 0 /\ bcache[mine[t]].blockno \in BlockNos
      /\ bcache[mine[t]].blockno = Head(todo[t]).blockno /\ bcache[mine[t]].holder = t
      /\ Held(t) = {idx[t][1], idx[t][2], idx[t][3]}
  BY <1>2, InFlight DEF Bufs
<1>5. /\ idx' = [idx EXCEPT ![t] = <<>>] /\ free' = free \union Held(t)
      /\ info' = [info EXCEPT ![idx[t][1]] = 0]
  BY <1>4 DEF EndOfIO
<1>6. /\ Point(t, l) \in [Tasks -> Points \union Sleeps]
      /\ Woke(Point(t, l)[t]) = l
      /\ \A u \in Tasks \ {t} : Woke(Point(t, l)[u]) = Stage(u)
  BY PointStages DEF Points, Sleeps, Woke
<1>7. \A u \in Tasks : Woke(at'[u]) = Woke(Point(t, l)[u])
  BY <1>6, WokenStages DEF Freeing, Sleeps
<1>8. at' \in [Tasks -> Points \union Sleeps]
  BY <1>6, WokenStages DEF Freeing, Sleeps
<1>9. Stage(t)' = l /\ \A u \in Tasks \ {t} : Stage(u)' = Stage(u)
  BY <1>6, <1>7 DEF Stage
<1>10. Rest(t) = todo[t] /\ todo[t] \in Seq(Call) /\ todo[t] # <<>> /\ Paired(todo[t])
  BY <1>1, Busy DEF Rest, Callers
<1>11. IF bcache[mine[t]].valid = TRUE
         THEN platter[bcache[mine[t]].blockno] = newest[bcache[mine[t]].blockno]
         ELSE bcache[mine[t]].data = newest[bcache[mine[t]].blockno]
  BY <1>2, <1>3 DEF Requests
<1> QED BY <1>1, <1>2, <1>3, <1>4, <1>5, <1>8, <1>9, <1>10, <1>11
\* bread() after the request: the buffer has what is newest, and is valid.
LEMMA ReadEnds ==
  ASSUME IOInv, NEW t \in Tasks, EndOfIO(t), bcache[mine[t]].disk # TRUE,
         bcache[mine[t]].valid # TRUE
  PROVE  IOInv'
<1> USE DEF IOInv
<1> DEFINE b == mine[t]
           r == [bcache[b] EXCEPT !.valid = TRUE]
<1>1. at' = Freeing(t, "use") /\ bcache' = [bcache EXCEPT ![b] = r]
  <2>1. b \in Bufs /\ bcache[b] \in Buffer /\ bcache[b].valid \in BOOLEAN /\ bcache[b].disk \in BOOLEAN
    <3>1. Stage(t) # "idle"
      BY DEF EndOfIO, Stage, Woke, Sleeps
    <3>2. b \in Bufs /\ bcache[b] \in Buffer
      BY <3>1, Busy, Fields
    <3> HIDE DEF b
    <3> QED BY <3>2 DEF Buffer
  <2>2. ~bcache[b].disk /\ ~bcache[b].valid
    BY <2>1
  <2> QED BY <2>2 DEF EndOfIO
<1>2. /\ idx[t] # <<>> /\ ~Asked(t) /\ ~Served(t) /\ Stage(t) = "io"
      /\ idx' = [idx EXCEPT ![t] = <<>>] /\ free' = free \union Held(t)
      /\ info' = [info EXCEPT ![idx[t][1]] = 0]
      /\ UNCHANGED <<lru, avail, used, platter, mine, todo, newest>>
      /\ at' \in [Tasks -> Points \union Sleeps]
      /\ Stage(t)' = "use" /\ \A u \in Tasks \ {t} : Stage(u)' = Stage(u)
      /\ b \in Bufs /\ b # 0 /\ bcache[b].blockno \in BlockNos
      /\ bcache[b].blockno = Head(todo[t]).blockno /\ bcache[b].holder = t
      /\ todo[t] \in Seq(Call) /\ todo[t] # <<>> /\ Paired(Rest(t))
      /\ bcache[b].data = newest[bcache[b].blockno]
  <2>1. bcache[mine[t]].data = newest[bcache[mine[t]].blockno]
    BY <1>1, Ended
  <2> QED BY <1>1, <2>1, Ended
<1>3. \A u \in Tasks : Rest(u)' = Rest(u)
  BY <1>2 DEF Rest
<1>4. /\ r \in Buffer /\ r.blockno = bcache[b].blockno /\ r.valid = TRUE
      /\ r.refcnt = bcache[b].refcnt /\ r.data = bcache[b].data /\ r.disk = bcache[b].disk
      /\ r.holder = bcache[b].holder
  BY <1>2, Fields DEF Buffer
<1> HIDE DEF r
<1>5. /\ bcache' \in [Bufs -> Buffer] /\ bcache'[b] = r
      /\ \A c \in Bufs \ {b} : bcache'[c] = bcache[c]
  BY <1>1, <1>2, <1>4, StoreBuffer
<1>6. /\ \A c \in Bufs : /\ bcache'[c].blockno = bcache[c].blockno
                         /\ bcache[c].valid = TRUE => bcache'[c].valid = TRUE
                         /\ bcache'[c].refcnt = bcache[c].refcnt
                         /\ bcache'[c].data = bcache[c].data
                         /\ bcache'[c].disk = bcache[c].disk
                         /\ bcache'[c].holder = bcache[c].holder
      /\ bcache'[b].valid = TRUE
  BY <1>4, <1>5
<1>7. \A u \in Tasks \ {t} : idx[u] # <<>> => bcache'[mine[u]] = bcache[mine[u]]
  BY <1>2, <1>5, InFlight
<1>8. /\ free' \subseteq Descriptors /\ info' \in [Descriptors -> 0..NBUF]
      /\ idx' \in [Tasks -> {<<>>} \union (Descriptors \X Descriptors \X Descriptors)]
      /\ Chains' /\ Requests'
  BY <1>2, <1>7, ChainFreed
<1>9. IOTypes'
  BY <1>2, <1>5, <1>8 DEF IOTypes
<1>10. \A u \in Tasks \ {t} : mine[u] = b => Stage(u) \notin Locked
  <2>1. Stage(t) \in Locked /\ Stage(t) # "idle"
    BY <1>2 DEF Locked
  <2> QED BY <2>1, Busy
<1>11. Callers'
  <2>1. Stage(t)' # "idle" /\ Stage(t)' \notin {"rw", "io"}
    BY <1>2
  <2>2. /\ mine'[t] # 0 /\ todo'[t] # <<>> /\ bcache'[mine'[t]].holder = t
        /\ bcache'[mine'[t]].blockno = Head(todo'[t]).blockno /\ bcache'[mine'[t]].valid = TRUE
    BY <1>2, <1>6
  <2>3. Paired(Rest(t)')
    BY <1>2, <1>3
  <2>4. ASSUME NEW u \in Tasks \ {t}, mine[u] \in Bufs
        PROVE  /\ bcache'[mine[u]].blockno = bcache[mine[u]].blockno
               /\ Stage(u) \in Locked => bcache'[mine[u]].valid = bcache[mine[u]].valid
               /\ bcache'[mine[u]].holder = bcache[mine[u]].holder
    BY <1>5, <1>6, <1>10, <2>4
  <2>5. \A u \in Tasks \ {t} : Stage(u)' = Stage(u) /\ mine'[u] = mine[u] /\ todo'[u] = todo[u]
    BY <1>2
  <2> QED BY <2>1, <2>2, <2>3, <2>4, <2>5, CallersFrame
<1>12. Buffers'
  <2>1. \A c, d \in Bufs : bcache'[c].blockno = bcache'[d].blockno /\ bcache'[c].blockno # NoBlock => c = d
    BY <1>6 DEF Buffers
  <2>2. ASSUME NEW c \in Bufs, bcache'[c].valid = TRUE
        PROVE  bcache'[c].blockno # NoBlock /\ bcache'[c].data = newest'[bcache'[c].blockno]
    <3>1. CASE c = b
      BY <1>2, <1>6, <3>1, BlockIOAssumption
    <3>2. CASE c # b
      BY <1>2, <1>5, <2>2, <3>2 DEF Buffers
    <3> QED BY <3>1, <3>2
  <2>3. \A u \in Tasks : Stage(u) \in Locked => Stage(u)' \in Locked
    BY <1>2 DEF Locked
  <2>4. \A c \in Bufs : \A u \in Tasks : bcache'[c].holder = u => mine'[u] = c /\ Stage(u)' \in Locked
    BY <1>2, <1>6, <2>3 DEF Buffers
  <2> QED BY <2>1, <2>2, <2>4 DEF Buffers
<1>13. RefsCounted' /\ Stored'
  <2>1. UNCHANGED <<mine, platter, newest>>
    BY <1>2
  <2> QED BY <1>3, <1>6, <2>1, CountedFrame, StoredFrame
<1> QED BY <1>8, <1>9, <1>11, <1>12, <1>13

\* install_trans() after the request: the block is on the disk, and unpinned.
LEMMA WriteEnds ==
  ASSUME IOInv, NEW t \in Tasks, EndOfIO(t), bcache[mine[t]].disk # TRUE,
         bcache[mine[t]].valid = TRUE
  PROVE  IOInv'
<1> USE DEF IOInv
<1> DEFINE b == mine[t]
           n == Head(todo[t]).blockno
           r == [bcache[b] EXCEPT !.refcnt = bcache[b].refcnt - 1]
<1>1. at' = Freeing(t, "release") /\ bcache' = [bcache EXCEPT ![b] = r]
  <2>1. b \in Bufs /\ bcache[b] \in Buffer /\ bcache[b].disk \in BOOLEAN
    <3>1. Stage(t) # "idle"
      BY DEF EndOfIO, Stage, Woke, Sleeps
    <3>2. b \in Bufs /\ bcache[b] \in Buffer
      BY <3>1, Busy, Fields
    <3> HIDE DEF b
    <3> QED BY <3>2 DEF Buffer
  <2>2. ~bcache[b].disk
    BY <2>1
  <2> QED BY <2>2 DEF EndOfIO
<1>2. /\ idx[t] # <<>> /\ ~Asked(t) /\ ~Served(t) /\ Stage(t) = "io"
      /\ idx' = [idx EXCEPT ![t] = <<>>] /\ free' = free \union Held(t)
      /\ info' = [info EXCEPT ![idx[t][1]] = 0]
      /\ UNCHANGED <<lru, avail, used, platter, mine, todo, newest>>
      /\ at' \in [Tasks -> Points \union Sleeps]
      /\ Stage(t)' = "release" /\ \A u \in Tasks \ {t} : Stage(u)' = Stage(u)
      /\ b \in Bufs /\ b # 0 /\ n \in BlockNos
      /\ bcache[b].blockno = n /\ bcache[b].holder = t
      /\ Rest(t) = todo[t] /\ todo[t] \in Seq(Call) /\ todo[t] # <<>> /\ Paired(todo[t])
      /\ platter[n] = newest[n]
  <2>1. mine[t] \in Bufs /\ bcache[mine[t]].blockno = n /\ n \in BlockNos
    BY <1>1, Ended
  <2>2. platter[bcache[mine[t]].blockno] = newest[bcache[mine[t]].blockno]
    BY <1>1, Ended
  <2>3. platter[n] = newest[n]
    BY <2>1, <2>2
  <2> QED BY <1>1, <2>1, <2>3, Ended
<1>3. Rest(t)' = Tail(todo[t]) /\ \A u \in Tasks \ {t} : Rest(u)' = Rest(u)
  BY <1>2 DEF Rest
<1>4. Head(todo[t]) = Unpins(n)
  <2>1. Head(todo[t]) \in Call /\ Head(todo[t]).op = "install"
    BY <1>2, Busy DEF Callers
  <2> QED BY <2>1 DEF Call, Unpins
<1>5. /\ Owed(Rest(t), n) /\ ~Owed(Rest(t)', n)
      /\ \A m : m # n => (Owed(Rest(t)', m) <=> Owed(Rest(t), m))
  <2>1. Owed(Rest(t), n) /\ ~Owed(Rest(t)', n)
    BY <1>2, <1>3, <1>4, OwedTail
  <2>2. \A m \in BlockNos \ {n} : Unpins(n) \notin {Pins(m), Unpins(m)}
    BY DEF Pins, Unpins
  <2>3. \A m \in BlockNos \ {n} : Owed(Rest(t)', m) <=> Owed(Rest(t), m)
    BY <1>2, <1>3, <1>4, <2>2, OwedTail
  <2>4. \A m : m \notin BlockNos => ~Owed(Rest(t)', m) /\ ~Owed(Rest(t), m)
    BY <1>2, <1>3, NothingOwed, Shifted
  <2> QED BY <2>1, <2>3, <2>4
<1>6. t \in Pinners(b) /\ Cardinality(Pinners(b)) \in Nat \ {0}
  <2>1. t \in Pinners(b)
    BY <1>2, <1>5 DEF Pinners
  <2> QED BY <2>1, Counts
<1>7. bcache[b].refcnt - 1 \in Nat /\ bcache[b] \in Buffer
  BY <1>2, <1>6, Counts, Fields DEF RefsCounted
<1>8. /\ r \in Buffer /\ r.blockno = bcache[b].blockno /\ r.valid = bcache[b].valid
      /\ r.refcnt = bcache[b].refcnt - 1 /\ r.data = bcache[b].data /\ r.disk = bcache[b].disk
      /\ r.holder = bcache[b].holder
  BY <1>7, SetRefcnt
<1> HIDE DEF r
<1>9. /\ bcache' \in [Bufs -> Buffer] /\ bcache'[b] = r
      /\ \A c \in Bufs \ {b} : bcache'[c] = bcache[c]
  BY <1>1, <1>2, <1>8, StoreBuffer
<1>10. \A c \in Bufs : /\ bcache'[c].blockno = bcache[c].blockno
                       /\ bcache'[c].valid = bcache[c].valid
                       /\ bcache'[c].data = bcache[c].data
                       /\ bcache'[c].disk = bcache[c].disk
                       /\ bcache'[c].holder = bcache[c].holder
  BY <1>8, <1>9
<1>11. \A u \in Tasks \ {t} : idx[u] # <<>> => bcache'[mine[u]] = bcache[mine[u]]
  BY <1>2, <1>9, InFlight
<1>12. /\ free' \subseteq Descriptors /\ info' \in [Descriptors -> 0..NBUF]
       /\ idx' \in [Tasks -> {<<>>} \union (Descriptors \X Descriptors \X Descriptors)]
       /\ Chains' /\ Requests'
  BY <1>2, <1>11, ChainFreed
<1>13. IOTypes'
  BY <1>2, <1>9, <1>12 DEF IOTypes
<1>14. Callers'
  <2>1. Stage(t)' # "idle" /\ Stage(t)' \notin {"rw", "io", "use"}
    BY <1>2
  <2>2. /\ mine'[t] # 0 /\ todo'[t] # <<>> /\ bcache'[mine'[t]].holder = t
        /\ bcache'[mine'[t]].blockno = Head(todo'[t]).blockno
    BY <1>2, <1>10
  <2>3. Paired(Rest(t)')
    BY <1>2, <1>3, PairedTail
  <2>4. \A u \in Tasks \ {t} : mine[u] \in Bufs =>
           /\ bcache'[mine[u]].blockno = bcache[mine[u]].blockno
           /\ bcache'[mine[u]].valid = bcache[mine[u]].valid
           /\ bcache'[mine[u]].holder = bcache[mine[u]].holder
    BY <1>10
  <2>5. \A u \in Tasks \ {t} : Stage(u)' = Stage(u) /\ mine'[u] = mine[u] /\ todo'[u] = todo[u]
    BY <1>2
  <2> QED BY <2>1, <2>2, <2>3, <2>4, <2>5, CallersFrame
<1>15. Buffers'
  <2>1. \A c, d \in Bufs : bcache'[c].blockno = bcache'[d].blockno /\ bcache'[c].blockno # NoBlock => c = d
    BY <1>10 DEF Buffers
  <2>2. \A c \in Bufs : bcache'[c].valid = TRUE =>
          bcache'[c].blockno # NoBlock /\ bcache'[c].data = newest'[bcache'[c].blockno]
    BY <1>2, <1>10 DEF Buffers
  <2>3. \A u \in Tasks : Stage(u) \in Locked => Stage(u)' \in Locked
    BY <1>2 DEF Locked
  <2>4. \A c \in Bufs : \A u \in Tasks : bcache'[c].holder = u => mine'[u] = c /\ Stage(u)' \in Locked
    BY <1>2, <1>10, <2>3 DEF Buffers
  <2> QED BY <2>1, <2>2, <2>4 DEF Buffers
<1>16. RefsCounted'
  <2> SUFFICES ASSUME NEW c \in Bufs
               PROVE  bcache'[c].refcnt = Cardinality(Users(c)') + Cardinality(Pinners(c)')
    BY DEF RefsCounted
  <2>1. Users(c)' = Users(c)
    BY <1>2 DEF Users
  <2>2. CASE c = b
    <3> HIDE DEF b, n
    <3>1. Pinners(c)' = Pinners(c) \ {t}
      BY <1>2, <1>3, <1>5, <1>10, <2>2 DEF Pinners
    <3>2. Cardinality(Pinners(c)') = Cardinality(Pinners(c)) - 1
      <4>1. IsFiniteSet(Pinners(c)) /\ t \in Pinners(c)
        BY <1>6, <2>2, Counts
      <4> QED BY <3>1, <4>1, FS_RemoveElement
    <3> QED BY <1>6, <1>8, <1>9, <2>1, <2>2, <3>2, Counts DEF RefsCounted
  <2>3. CASE c # b
    <3>1. bcache[c].blockno # n
      BY <1>2, <2>3, BlockIOAssumption DEF Buffers
    <3> HIDE DEF b, n
    <3>2. Pinners(c)' = Pinners(c)
      <4>1. bcache'[c].blockno = bcache[c].blockno
        BY <1>10
      <4>2. \A u \in Tasks : Owed(Rest(u)', bcache[c].blockno) <=> Owed(Rest(u), bcache[c].blockno)
        BY <1>3, <1>5, <3>1
      <4> QED BY <4>1, <4>2 DEF Pinners
    <3> QED BY <1>9, <2>1, <2>3, <3>2 DEF RefsCounted
  <2> QED BY <2>2, <2>3
<1>17. Stored'
  <2> HIDE DEF b, n
  <2>1. ASSUME NEW m \in BlockNos
        PROVE  platter'[m] = newest'[m] \/ \E u \in Tasks : Owed(Rest(u)', m)
    <3>1. CASE m = n
      BY <1>2, <3>1
    <3>2. CASE m # n
      <4>1. platter'[m] = platter[m] /\ newest'[m] = newest[m]
        BY <1>2, <3>2
      <4>2. \A u \in Tasks : Owed(Rest(u), m) => Owed(Rest(u)', m)
        BY <1>3, <1>5, <3>2
      <4> QED BY <4>1, <4>2 DEF Stored
    <3> QED BY <3>1, <3>2
  <2>2. \A m \in BlockNos, u \in Tasks : Owed(Rest(u)', m) => Owed(Rest(u), m)
    BY <1>3, <1>5
  <2>3. ASSUME NEW m \in BlockNos, NEW u \in Tasks, Owed(Rest(u)', m)
        PROVE  \E c \in Bufs : bcache'[c].blockno = m /\ bcache'[c].valid = TRUE
    <3>1. PICK c \in Bufs : bcache[c].blockno = m /\ bcache[c].valid = TRUE
      BY <2>2, <2>3 DEF Stored
    <3> QED BY <1>10, <3>1
  <2> QED BY <2>1, <2>3 DEF Stored
<1> QED BY <1>12, <1>13, <1>14, <1>15, <1>16, <1>17
LEMMA EndOfIOKeeps ==
  ASSUME IOInv, NEW t \in Tasks, EndOfIO(t)
  PROVE  IOInv'
BY StillWaiting, ReadEnds, WriteEnds
-----------------------------------------------------------------------------
(* The device and its interrupt.                                           *)

\* The device takes the request r of process t.
LEMMA Taken ==
  ASSUME IOInv, NEW r \in avail, NEW t \in Tasks, idx[t] # <<>>, r.id = idx[t][1],
         avail' = avail \ {r}, used' = Append(used, r.id),
         UNCHANGED idx
  PROVE  /\ avail' \subseteq [id : Descriptors, buf : Bufs, blockno : BlockNos, write : BOOLEAN]
         /\ used' \in Seq(Descriptors)
         /\ \A i \in DOMAIN used' : \E u \in Tasks : idx[u] # <<>> /\ used'[i] = idx[u][1]
         /\ \A i, j \in DOMAIN used' : used'[i] = used'[j] => i = j
         /\ ~Asked(t)' /\ Served(t)' /\ bcache[mine[t]].disk = TRUE
         /\ \A u \in Tasks \ {t} : idx[u] # <<>> =>
              (Asked(u)' <=> Asked(u)) /\ (Served(u)' <=> Served(u))
<1> USE DEF IOInv
<1>1. r.id \in Descriptors /\ used \in Seq(Descriptors) /\ Len(used) \in Nat
  BY DEF IOTypes
<1>2. /\ used' \in Seq(Descriptors) /\ DOMAIN used' = 1..Len(used)+1 /\ DOMAIN used = 1..Len(used)
      /\ used'[Len(used) + 1] = r.id /\ \A i \in 1..Len(used) : used'[i] = used[i]
  BY <1>1
<1>3. avail' \subseteq [id : Descriptors, buf : Bufs, blockno : BlockNos, write : BOOLEAN]
  BY DEF IOTypes
<1>4. Asked(t) /\ ~Served(t) /\ bcache[mine[t]].disk = TRUE
  BY DEF Asked, Requests
<1>5. \A i \in 1..Len(used) : used[i] # r.id
  BY <1>2, <1>4 DEF Served
<1>6. \A i \in DOMAIN used' : \E u \in Tasks : idx[u] # <<>> /\ used'[i] = idx[u][1]
  <2>1. \A i \in 1..Len(used) : \E u \in Tasks : idx[u] # <<>> /\ used[i] = idx[u][1]
    BY <1>2 DEF Requests
  <2> QED BY <1>1, <1>2, <2>1
<1>7. \A i, j \in DOMAIN used' : used'[i] = used'[j] => i = j
  <2>1. \A i, j \in 1..Len(used) : used[i] = used[j] => i = j
    BY <1>2 DEF Requests
  <2>2. \A i \in 1..Len(used)+1 : i \in 1..Len(used) \/ i = Len(used) + 1
    BY <1>1
  <2> QED BY <1>2, <1>5, <2>1, <2>2
<1>8. ~Asked(t)'
  <2> SUFFICES ASSUME NEW q \in avail, q # r, q.id = idx[t][1] PROVE FALSE
    BY DEF Asked
  <2>1. PICK u \in Tasks :
           /\ idx[u] # <<>> /\ q.id = idx[u][1] /\ q.buf = mine[u]
           /\ q.blockno = bcache[mine[u]].blockno /\ q.write = bcache[mine[u]].valid
    BY DEF Requests
  <2>2. PICK v \in Tasks :
           /\ idx[v] # <<>> /\ r.id = idx[v][1] /\ r.buf = mine[v]
           /\ r.blockno = bcache[mine[v]].blockno /\ r.write = bcache[mine[v]].valid
    BY DEF Requests
  <2>3. u = t /\ v = t
    <3>1. \A w \in Tasks \ {t} : idx[w] # <<>> => idx[w][1] # idx[t][1]
      BY InFlight
    <3>2. idx[u][1] = idx[t][1] /\ idx[v][1] = idx[t][1]
      BY <2>1, <2>2
    <3> QED BY <2>1, <2>2, <3>1, <3>2
  <2>4. q.id = r.id /\ q.buf = r.buf /\ q.blockno = r.blockno /\ q.write = r.write
    BY <2>1, <2>2, <2>3
  <2>5. /\ q \in [id : Descriptors, buf : Bufs, blockno : BlockNos, write : BOOLEAN]
        /\ r \in [id : Descriptors, buf : Bufs, blockno : BlockNos, write : BOOLEAN]
    BY DEF IOTypes
  <2> QED BY <2>4, <2>5
<1>9. Served(t)'
  <2>1. Len(used) + 1 \in DOMAIN used' /\ used'[Len(used) + 1] = idx'[t][1]
    BY <1>1, <1>2
  <2> QED BY <2>1 DEF Served
<1>10. ASSUME NEW u \in Tasks \ {t}, idx[u] # <<>>
       PROVE  (Asked(u)' <=> Asked(u)) /\ (Served(u)' <=> Served(u))
  <2>1. idx[u][1] # r.id
    BY <1>10, InFlight
  <2>2. Asked(u)' <=> Asked(u)
    BY <2>1 DEF Asked
  <2>3. Served(u)' <=> Served(u)
    <3>1. \A i \in DOMAIN used' : used'[i] = idx[u][1] => i \in DOMAIN used /\ used[i] = idx[u][1]
      <4>1. \A i \in 1..Len(used)+1 : i \in 1..Len(used) \/ i = Len(used) + 1
        BY <1>1
      <4> QED BY <1>2, <2>1, <4>1
    <3>2. \A i \in DOMAIN used : i \in DOMAIN used' /\ used'[i] = used[i]
      BY <1>1, <1>2
    <3> QED BY <3>1, <3>2 DEF Served
  <2> QED BY <2>2, <2>3
<1> QED BY <1>2, <1>3, <1>4, <1>6, <1>7, <1>8, <1>9, <1>10
\* What a request says.
LEMMA RequestOf ==
  ASSUME IOInv, NEW r \in avail
  PROVE  \E t \in Tasks :
           /\ idx[t] # <<>> /\ r.id = idx[t][1] /\ r.buf = mine[t]
           /\ r.blockno = bcache[mine[t]].blockno /\ r.write = bcache[mine[t]].valid
BY DEF IOInv, Requests

\* A block that is not valid in its buffer is on the disk.
LEMMA OnDisk ==
  ASSUME IOInv, NEW b \in Bufs, bcache[b].valid # TRUE, bcache[b].blockno \in BlockNos
  PROVE  platter[bcache[b].blockno] = newest[bcache[b].blockno]
<1> USE DEF IOInv
<1>1. \A c \in Bufs : bcache[c].blockno = bcache[b].blockno => c = b
  BY BlockIOAssumption DEF Buffers
<1>2. \A t \in Tasks : ~Owed(Rest(t), bcache[b].blockno)
  BY <1>1 DEF Stored
<1> QED BY <1>2 DEF Stored

LEMMA WriteServed ==
  ASSUME IOInv, NEW r \in avail, r.write = TRUE,
         platter' = [platter EXCEPT ![r.blockno] = bcache[r.buf].data],
         avail' = avail \ {r}, used' = Append(used, r.id),
         UNCHANGED <<bcache, lru, free, info, at, mine, idx, todo, newest>>
  PROVE  IOInv'
<1> USE DEF IOInv
<1>1. PICK t \in Tasks :
         /\ idx[t] # <<>> /\ r.id = idx[t][1] /\ r.buf = mine[t]
         /\ r.blockno = bcache[mine[t]].blockno /\ r.write = bcache[mine[t]].valid
  BY RequestOf
<1>2. PICK n \in BlockNos, b \in Bufs : n = r.blockno /\ b = r.buf
  BY DEF IOTypes
<1>3. /\ bcache[b].blockno = n /\ bcache[b].valid = TRUE /\ bcache[b].data = newest[n]
      /\ bcache[b].data \in Writers /\ mine[t] = b
  BY <1>1, <1>2, Fields DEF Buffers
<1>4. /\ platter' \in [BlockNos -> Writers] /\ platter'[n] = newest[n]
      /\ \A m \in BlockNos \ {n} : platter'[m] = platter[m]
  BY <1>2, <1>3 DEF IOTypes
<1>5. /\ avail' \subseteq [id : Descriptors, buf : Bufs, blockno : BlockNos, write : BOOLEAN]
      /\ used' \in Seq(Descriptors)
      /\ \A i \in DOMAIN used' : \E u \in Tasks : idx[u] # <<>> /\ used'[i] = idx[u][1]
      /\ \A i, j \in DOMAIN used' : used'[i] = used'[j] => i = j
      /\ ~Asked(t)' /\ Served(t)' /\ bcache[mine[t]].disk = TRUE
      /\ \A u \in Tasks \ {t} : idx[u] # <<>> =>
           (Asked(u)' <=> Asked(u)) /\ (Served(u)' <=> Served(u))
  BY <1>1, Taken
<1>6. \A u \in Tasks : Rest(u)' = Rest(u) /\ Stage(u)' = Stage(u)
  BY DEF Rest, Stage
<1>7. IOTypes'
  BY <1>4, <1>5 DEF IOTypes
<1>8. Callers'
  BY <1>6 DEF Callers
<1>9. Buffers'
  BY <1>6 DEF Buffers
<1>10. RefsCounted'
  BY <1>6, CountedFrame
<1>11. Stored'
  <2>1. \A m \in BlockNos : platter'[m] = newest'[m] \/ \E u \in Tasks : Owed(Rest(u)', m)
    BY <1>4, <1>6 DEF Stored
  <2> QED BY <1>6, <2>1 DEF Stored
<1>12. Chains'
  <2>1. \A u \in Tasks : Held(u)' = Held(u)
    BY DEF Held
  <2> QED BY <1>6, <2>1 DEF Chains
<1>13. Requests'
  <2>1. \A q \in avail' : \E u \in Tasks :
           /\ idx'[u] # <<>> /\ q.id = idx'[u][1] /\ q.buf = mine'[u]
           /\ q.blockno = bcache'[mine'[u]].blockno /\ q.write = bcache'[mine'[u]].valid
    BY DEF Requests
  <2>2. \A i \in DOMAIN used' : \E u \in Tasks : idx'[u] # <<>> /\ used'[i] = idx'[u][1]
    BY <1>5
  <2>3. ASSUME NEW u \in Tasks, idx'[u] # <<>>
        PROVE  /\ Asked(u)' \/ Served(u)' => bcache'[mine'[u]].disk = TRUE
               /\ ~(Asked(u)' /\ Served(u)')
               /\ ~Asked(u)' => IF bcache'[mine'[u]].valid = TRUE
                    THEN platter'[bcache'[mine'[u]].blockno] = newest'[bcache'[mine'[u]].blockno]
                    ELSE bcache'[mine'[u]].data = newest'[bcache'[mine'[u]].blockno]
    <3>1. CASE u = t
      BY <1>3, <1>4, <1>5, <3>1
    <3>2. CASE u # t
      <4>1. idx[u] # <<>> /\ bcache[mine[u]].blockno \in BlockNos \ {n}
        BY <1>1, <1>3, <2>3, <3>2, InFlight
      <4> QED BY <1>4, <1>5, <2>3, <3>2, <4>1 DEF Requests
    <3> QED BY <3>1, <3>2
  <2>4. \A i, j \in DOMAIN used' : used'[i] = used'[j] => i = j
    BY <1>5
  <2> QED BY <2>1, <2>2, <2>3, <2>4 DEF Requests
<1> QED BY <1>7, <1>8, <1>9, <1>10, <1>11, <1>12, <1>13

LEMMA ReadServed ==
  ASSUME IOInv, NEW r \in avail, r.write # TRUE,
         bcache' = [bcache EXCEPT ![r.buf].data = platter[r.blockno]],
         avail' = avail \ {r}, used' = Append(used, r.id),
         UNCHANGED <<platter, lru, free, info, at, mine, idx, todo, newest>>
  PROVE  IOInv'
<1> USE DEF IOInv
<1>1. PICK t \in Tasks :
         /\ idx[t] # <<>> /\ r.id = idx[t][1] /\ r.buf = mine[t]
         /\ r.blockno = bcache[mine[t]].blockno /\ r.write = bcache[mine[t]].valid
  BY RequestOf
<1>2. PICK n \in BlockNos, b \in Bufs : n = r.blockno /\ b = r.buf
  BY DEF IOTypes
<1>3. /\ bcache[b].blockno = n /\ bcache[b].valid # TRUE /\ platter[n] = newest[n] /\ mine[t] = b
      /\ platter[n] \in Writers
  <2>1. bcache[b].blockno = n /\ bcache[b].valid # TRUE /\ mine[t] = b
    BY <1>1, <1>2
  <2>2. platter[n] = newest[n] /\ platter[n] \in Writers
    BY <1>2, <2>1, OnDisk DEF IOTypes
  <2> QED BY <2>1, <2>2
<1> DEFINE q == [bcache[b] EXCEPT !.data = platter[n]]
<1>4. /\ q \in Buffer /\ q.blockno = bcache[b].blockno /\ q.valid = bcache[b].valid
      /\ q.refcnt = bcache[b].refcnt /\ q.data = newest[n] /\ q.disk = bcache[b].disk
      /\ q.holder = bcache[b].holder
  BY <1>3, Fields DEF Buffer
<1>5. bcache' = [bcache EXCEPT ![b] = q]
  BY <1>2
<1> HIDE DEF q
<1>6. /\ bcache' \in [Bufs -> Buffer] /\ bcache'[b] = q
      /\ \A c \in Bufs \ {b} : bcache'[c] = bcache[c]
  BY <1>4, <1>5, StoreBuffer
<1>7. /\ \A c \in Bufs : /\ bcache'[c].blockno = bcache[c].blockno
                         /\ bcache'[c].valid = bcache[c].valid
                         /\ bcache'[c].refcnt = bcache[c].refcnt
                         /\ bcache'[c].disk = bcache[c].disk
                         /\ bcache'[c].holder = bcache[c].holder
      /\ bcache'[b].data = newest[n]
  BY <1>4, <1>6
<1>8. /\ avail' \subseteq [id : Descriptors, buf : Bufs, blockno : BlockNos, write : BOOLEAN]
      /\ used' \in Seq(Descriptors)
      /\ \A i \in DOMAIN used' : \E u \in Tasks : idx[u] # <<>> /\ used'[i] = idx[u][1]
      /\ \A i, j \in DOMAIN used' : used'[i] = used'[j] => i = j
      /\ ~Asked(t)' /\ Served(t)' /\ bcache[mine[t]].disk = TRUE
      /\ \A u \in Tasks \ {t} : idx[u] # <<>> =>
           (Asked(u)' <=> Asked(u)) /\ (Served(u)' <=> Served(u))
  BY <1>1, Taken
<1>9. \A u \in Tasks : Rest(u)' = Rest(u) /\ Stage(u)' = Stage(u)
  BY DEF Rest, Stage
<1>10. IOTypes'
  BY <1>6, <1>8 DEF IOTypes
<1>11. Callers'
  <2>1. \A u \in Tasks \ {t} : Stage(u)' = Stage(u) /\ mine'[u] = mine[u] /\ todo'[u] = todo[u]
    BY <1>9
  <2>2. /\ Stage(t)' = "io" /\ mine'[t] = b /\ b # 0 /\ todo'[t] # <<>> /\ bcache'[b].holder = t
        /\ bcache'[b].blockno = Head(todo'[t]).blockno /\ bcache'[b].valid # TRUE
    <3>1. Stage(t) = "io" /\ bcache[b].holder = t /\ bcache[b].blockno = Head(todo[t]).blockno
      BY <1>1, <1>3, InFlight
    <3>2. todo[t] # <<>>
      BY <3>1, Busy
    <3>3. b # 0
      BY DEF Bufs
    <3>4. /\ bcache'[b].holder = t /\ bcache'[b].blockno = Head(todo'[t]).blockno
          /\ bcache'[b].valid # TRUE
      BY <1>3, <1>7, <3>1
    <3> QED BY <1>3, <1>9, <3>1, <3>2, <3>3, <3>4
  <2>3. Paired(Rest(t)')
    BY <1>9 DEF Callers
  <2>4. \A u \in Tasks \ {t} : mine[u] \in Bufs =>
           /\ bcache'[mine[u]].blockno = bcache[mine[u]].blockno
           /\ bcache'[mine[u]].valid = bcache[mine[u]].valid
           /\ bcache'[mine[u]].holder = bcache[mine[u]].holder
    BY <1>7
  <2> QED BY <2>1, <2>2, <2>3, <2>4, CallersFrame
<1>12. Buffers'
  <2>1. \A c, d \in Bufs : bcache'[c].blockno = bcache'[d].blockno /\ bcache'[c].blockno # NoBlock => c = d
    BY <1>7 DEF Buffers
  <2>2. ASSUME NEW c \in Bufs, bcache'[c].valid = TRUE
        PROVE  bcache'[c].blockno # NoBlock /\ bcache'[c].data = newest'[bcache'[c].blockno]
    <3>1. c # b
      BY <1>3, <1>7, <2>2
    <3>2. bcache'[c] = bcache[c]
      BY <1>6, <3>1
    <3> QED BY <2>2, <3>2 DEF Buffers
  <2>3. \A c \in Bufs : \A u \in Tasks : bcache'[c].holder = u => mine'[u] = c /\ Stage(u)' \in Locked
    BY <1>7, <1>9 DEF Buffers
  <2> QED BY <2>1, <2>2, <2>3 DEF Buffers
<1>13. RefsCounted' /\ Stored'
  BY <1>7, <1>9, CountedFrame, StoredFrame
<1>14. Chains'
  <2>1. \A u \in Tasks : Held(u)' = Held(u)
    BY DEF Held
  <2> QED BY <1>9, <2>1 DEF Chains
<1>15. Requests'
  <2>1. ASSUME NEW x \in avail'
        PROVE  \E u \in Tasks :
                 /\ idx'[u] # <<>> /\ x.id = idx'[u][1] /\ x.buf = mine'[u]
                 /\ x.blockno = bcache'[mine'[u]].blockno /\ x.write = bcache'[mine'[u]].valid
    <3>1. PICK u \in Tasks :
             /\ idx[u] # <<>> /\ x.id = idx[u][1] /\ x.buf = mine[u]
             /\ x.blockno = bcache[mine[u]].blockno /\ x.write = bcache[mine[u]].valid
      BY RequestOf
    <3>2. mine[u] \in Bufs
      BY <3>1, InFlight
    <3> QED BY <1>7, <3>1, <3>2
  <2>2. \A i \in DOMAIN used' : \E u \in Tasks : idx'[u] # <<>> /\ used'[i] = idx'[u][1]
    BY <1>8
  <2>3. ASSUME NEW u \in Tasks, idx'[u] # <<>>
        PROVE  /\ Asked(u)' \/ Served(u)' => bcache'[mine'[u]].disk = TRUE
               /\ ~(Asked(u)' /\ Served(u)')
               /\ ~Asked(u)' => IF bcache'[mine'[u]].valid = TRUE
                    THEN platter'[bcache'[mine'[u]].blockno] = newest'[bcache'[mine'[u]].blockno]
                    ELSE bcache'[mine'[u]].data = newest'[bcache'[mine'[u]].blockno]
    <3>1. CASE u = t
      BY <1>2, <1>3, <1>7, <1>8, <3>1
    <3>2. CASE u # t
      <4>1. idx[u] # <<>> /\ mine[u] \in Bufs \ {b}
        BY <1>1, <1>3, <2>3, <3>2, InFlight
      <4>2. bcache'[mine'[u]] = bcache[mine[u]]
        BY <1>6, <4>1
      <4>3. (Asked(u)' <=> Asked(u)) /\ (Served(u)' <=> Served(u))
        BY <1>8, <3>2, <4>1
      <4> QED BY <4>1, <4>2, <4>3 DEF Requests
    <3> QED BY <3>1, <3>2
  <2>4. \A i, j \in DOMAIN used' : used'[i] = used'[j] => i = j
    BY <1>8
  <2> QED BY <2>1, <2>2, <2>3, <2>4 DEF Requests
<1> QED BY <1>10, <1>11, <1>12, <1>13, <1>14, <1>15

LEMMA DeviceKeeps ==
  ASSUME IOInv, Device
  PROVE  IOInv'
<1>1. PICK r \in avail :
         /\ IF r.write
              THEN platter' = [platter EXCEPT ![r.blockno] = bcache[r.buf].data] /\ UNCHANGED bcache
              ELSE bcache' = [bcache EXCEPT ![r.buf].data = platter[r.blockno]] /\ UNCHANGED platter
         /\ avail' = avail \ {r} /\ used' = Append(used, r.id)
         /\ UNCHANGED <<lru, free, info, intr, at, mine, idx, todo, kills, newest>>
  BY DEF Device
<1>2. r.write \in BOOLEAN
  BY DEF IOInv, IOTypes
<1>3. CASE r.write = TRUE
  BY <1>1, <1>3, WriteServed
<1>4. CASE r.write = FALSE
  BY <1>1, <1>4, ReadServed
<1> QED BY <1>2, <1>3, <1>4
\* virtio_disk_intr() tells a process that its request is done.
LEMMA ServeKeeps ==
  ASSUME IOInv, ServeUsed
  PROVE  IOInv'
<1> USE DEF IOInv
<1>1. /\ used # <<>> /\ used' = Tail(used)
      /\ bcache' = [bcache EXCEPT ![info[Head(used)]].disk = FALSE]
      /\ at' = Woken("sleep_io", Users(info[Head(used)]), at)
      /\ UNCHANGED <<lru, free, info, avail, platter, mine, idx, todo, newest>>
  BY DEF ServeUsed
<1>2. /\ used \in Seq(Descriptors) /\ used' \in Seq(Descriptors) /\ Len(used) \in Nat /\ Len(used) >= 1
      /\ Head(used) = used[1] /\ DOMAIN used = 1..Len(used) /\ DOMAIN used' = 1..Len(used)-1
      /\ \A i \in 1..Len(used)-1 : used'[i] = used[i + 1]
  <2>1. used \in Seq(Descriptors)
    BY DEF IOTypes
  <2> QED BY <1>1, <2>1
<1>3. PICK t \in Tasks : idx[t] # <<>> /\ used[1] = idx[t][1]
  BY <1>2 DEF Requests
<1>4. PICK b \in Bufs : b = mine[t] /\ info[Head(used)] = b
  <2>1. info[idx[t][1]] = mine[t] /\ mine[t] \in Bufs
    BY <1>3, InFlight DEF Chains
  <2> QED BY <1>2, <1>3, <2>1
<1> DEFINE r == [bcache[b] EXCEPT !.disk = FALSE]
<1>5. /\ r \in Buffer /\ r.blockno = bcache[b].blockno /\ r.valid = bcache[b].valid
      /\ r.refcnt = bcache[b].refcnt /\ r.data = bcache[b].data /\ r.holder = bcache[b].holder
  BY Fields DEF Buffer
<1>6. bcache' = [bcache EXCEPT ![b] = r]
  BY <1>1, <1>4
<1> HIDE DEF r
<1>7. /\ bcache' \in [Bufs -> Buffer] /\ bcache'[b] = r
      /\ \A c \in Bufs \ {b} : bcache'[c] = bcache[c]
  BY <1>5, <1>6, StoreBuffer
<1>8. /\ \A c \in Bufs : /\ bcache'[c].blockno = bcache[c].blockno
                         /\ bcache'[c].valid = bcache[c].valid
                         /\ bcache'[c].refcnt = bcache[c].refcnt
                         /\ bcache'[c].data = bcache[c].data
                         /\ bcache'[c].holder = bcache[c].holder
  BY <1>5, <1>7
<1>9. at' \in [Tasks -> Points \union Sleeps] /\ \A u \in Tasks : Stage(u)' = Stage(u)
  <2>1. at \in [Tasks -> Points \union Sleeps]
    BY DEF IOTypes
  <2> QED BY <1>1, <2>1, WokenStages DEF Sleeps, Stage
<1>10. \A u \in Tasks : Rest(u)' = Rest(u)
  BY <1>1, <1>9 DEF Rest
<1>11. IOTypes'
  BY <1>1, <1>2, <1>7, <1>9 DEF IOTypes
<1>12. Callers'
  <2>1. ASSUME NEW u \in Tasks, mine[u] \in Bufs
        PROVE  /\ bcache'[mine[u]].blockno = bcache[mine[u]].blockno
               /\ bcache'[mine[u]].valid = bcache[mine[u]].valid
               /\ bcache'[mine[u]].holder = bcache[mine[u]].holder
    BY <1>8, <2>1
  <2>2. \A u \in Tasks : mine[u] \in Bufs \/ (mine[u] = 0 /\ Stage(u) = "idle")
    BY Busy DEF Callers
  <2> QED BY <1>1, <1>9, <1>10, <2>1, <2>2 DEF Callers, Locked
<1>13. Buffers'
  BY <1>1, <1>8, <1>9 DEF Buffers
<1>14. RefsCounted' /\ Stored'
  BY <1>1, <1>8, <1>10, CountedFrame, StoredFrame
<1>15. Chains'
  <2>1. \A u \in Tasks : Held(u)' = Held(u)
    BY <1>1 DEF Held
  <2> QED BY <1>1, <1>9, <2>1 DEF Chains
<1>16. ~Served(t)' /\ ~Asked(t)'
  <2>1. Served(t)
    BY <1>2, <1>3 DEF Served
  <2>2. ~Asked(t)
    BY <1>3, <2>1 DEF Requests
  <2>3. ASSUME NEW i \in 1..Len(used)-1, used'[i] = idx[t][1] PROVE FALSE
    <3>1. i + 1 \in DOMAIN used /\ 1 \in DOMAIN used /\ used[i + 1] = used[1] /\ i + 1 # 1
      BY <1>2, <1>3, <2>3
    <3> QED BY <3>1 DEF Requests
  <2> QED BY <1>1, <1>2, <2>2, <2>3 DEF Served, Asked
<1>17. ASSUME NEW u \in Tasks \ {t}, idx[u] # <<>>
       PROVE  /\ Asked(u)' <=> Asked(u)
              /\ Served(u)' <=> Served(u)
              /\ mine[u] \in Bufs \ {b}
  <2>1. idx[u][1] # used[1] /\ mine[u] \in Bufs \ {b}
    BY <1>3, <1>4, <1>17, InFlight
  <2>2. ASSUME NEW i \in DOMAIN used, used[i] = idx[u][1] PROVE i - 1 \in DOMAIN used' /\ used'[i - 1] = idx[u][1]
    <3>1. i # 1
      BY <2>1, <2>2
    <3> QED BY <1>2, <2>2, <3>1
  <2>3. ASSUME NEW i \in DOMAIN used', used'[i] = idx[u][1] PROVE i + 1 \in DOMAIN used /\ used[i + 1] = idx[u][1]
    BY <1>2, <2>3
  <2> QED BY <1>1, <2>1, <2>2, <2>3 DEF Asked, Served
<1>18. Requests'
  <2>1. ASSUME NEW x \in avail'
        PROVE  \E u \in Tasks :
                 /\ idx'[u] # <<>> /\ x.id = idx'[u][1] /\ x.buf = mine'[u]
                 /\ x.blockno = bcache'[mine'[u]].blockno /\ x.write = bcache'[mine'[u]].valid
    <3>1. PICK u \in Tasks :
             /\ idx[u] # <<>> /\ x.id = idx[u][1] /\ x.buf = mine[u]
             /\ x.blockno = bcache[mine[u]].blockno /\ x.write = bcache[mine[u]].valid
      BY <1>1, RequestOf
    <3>2. mine[u] \in Bufs
      BY <3>1, InFlight
    <3> QED BY <1>1, <1>8, <3>1, <3>2
  <2>2. ASSUME NEW i \in DOMAIN used' PROVE \E u \in Tasks : idx'[u] # <<>> /\ used'[i] = idx'[u][1]
    <3>1. i + 1 \in DOMAIN used /\ used'[i] = used[i + 1]
      BY <1>2
    <3>2. PICK u \in Tasks : idx[u] # <<>> /\ used[i + 1] = idx[u][1]
      BY <3>1 DEF Requests
    <3> QED BY <1>1, <3>1, <3>2
  <2>3. ASSUME NEW i \in DOMAIN used', NEW j \in DOMAIN used', used'[i] = used'[j] PROVE i = j
    <3>1. i + 1 \in DOMAIN used /\ j + 1 \in DOMAIN used /\ used[i + 1] = used[j + 1]
      BY <1>2, <2>3
    <3>2. i + 1 = j + 1 /\ i \in Int /\ j \in Int
      BY <1>2, <3>1 DEF Requests
    <3> QED BY <3>2
  <2>4. ASSUME NEW u \in Tasks, idx'[u] # <<>>
        PROVE  /\ Asked(u)' \/ Served(u)' => bcache'[mine'[u]].disk = TRUE
               /\ ~(Asked(u)' /\ Served(u)')
               /\ ~Asked(u)' => IF bcache'[mine'[u]].valid = TRUE
                    THEN platter'[bcache'[mine'[u]].blockno] = newest'[bcache'[mine'[u]].blockno]
                    ELSE bcache'[mine'[u]].data = newest'[bcache'[mine'[u]].blockno]
    <3>1. CASE u = t
      <4>1. Served(t) /\ ~Asked(t)
        <5>1. Served(t)
          BY <1>2, <1>3 DEF Served
        <5> QED BY <1>3, <5>1 DEF Requests
      <4>2. IF bcache[b].valid = TRUE
              THEN platter[bcache[b].blockno] = newest[bcache[b].blockno]
              ELSE bcache[b].data = newest[bcache[b].blockno]
        BY <1>3, <1>4, <4>1 DEF Requests
      <4>3. bcache'[b].valid = bcache[b].valid /\ bcache'[b].blockno = bcache[b].blockno
            /\ bcache'[b].data = bcache[b].data
        BY <1>4, <1>8
      <4>4. mine'[u] = b /\ ~Served(u)' /\ ~Asked(u)'
        BY <1>1, <1>4, <1>16, <3>1
      <4>5. bcache'[b].disk # TRUE \/ ~(Asked(u)' \/ Served(u)')
        BY <4>4
      <4>6. IF bcache'[b].valid = TRUE
              THEN platter'[bcache'[b].blockno] = newest'[bcache'[b].blockno]
              ELSE bcache'[b].data = newest'[bcache'[b].blockno]
        BY <1>1, <4>2, <4>3
      <4> QED BY <4>4, <4>5, <4>6
    <3>2. CASE u # t
      <4>1. idx[u] # <<>>
        BY <1>1, <2>4
      <4>2. bcache'[mine'[u]] = bcache[mine[u]] /\ (Asked(u)' <=> Asked(u)) /\ (Served(u)' <=> Served(u))
        BY <1>1, <1>7, <1>17, <3>2, <4>1
      <4> QED BY <1>1, <4>1, <4>2 DEF Requests
    <3> QED BY <3>1, <3>2
  <2> QED BY <2>1, <2>2, <2>3, <2>4 DEF Requests
<1> QED BY <1>11, <1>12, <1>13, <1>14, <1>15, <1>18

LEMMA KillKeeps ==
  ASSUME IOInv, NEW t \in Tasks, KillTask(t)
  PROVE  IOInv'
<1>1. /\ UNCHANGED <<bcache, lru, free, info, avail, used, platter, mine, idx, todo, newest>>
      /\ at[t] \in Sleeps /\ at' = Point(t, Awake(at[t]))
  BY DEF KillTask, cacheState, driver, Sleeps
<1>2. /\ Awake(at[t]) \in Points /\ Awake(at[t]) \notin Sleeps /\ Stage(t) = Awake(at[t])
  BY <1>1 DEF Awake, Sleeps, Points, Stage, Woke
<1>3. at' \in [Tasks -> Points \union Sleeps] /\ \A u \in Tasks : Stage(u)' = Stage(u)
  BY <1>1, <1>2, PointStages DEF IOInv, Stage, Woke
<1> QED BY <1>1, <1>3, SameStages
-----------------------------------------------------------------------------
(* The theorem.                                                            *)

LEMMA IONext_Inv ==
  ASSUME IOInv, [IONext]_ioVars
  PROVE  IOInv'
<1>1. ASSUME NEW t \in Tasks, TaskStep(t) PROVE IOInv'
  <2>1. Use(t) => IOInv'
    BY UseKeeps, LogKeeps
  <2> QED BY <1>1, <2>1, BreadKeeps, AcquireKeeps, ReleaseKeeps, BrelseKeeps, QueueKeeps,
             EndOfIOKeeps DEF TaskStep
<1>2. ASSUME NEW t \in Tasks, KillTask(t) PROVE IOInv'
  BY <1>2, KillKeeps
<1>3. CASE Device
  BY <1>3, DeviceKeeps
<1>4. CASE ServeUsed
  BY <1>4, ServeKeeps
<1>5. CASE TakeInterrupt \/ EndInterrupt \/ UNCHANGED ioVars
  <2>1. UNCHANGED <<bcache, lru, free, info, avail, used, platter, at, mine, idx, todo, newest>>
    BY <1>5 DEF TakeInterrupt, EndInterrupt, ioVars, cacheState, driver
  <2>2. at' \in [Tasks -> Points \union Sleeps] /\ \A u \in Tasks : Stage(u)' = Stage(u)
    BY <2>1 DEF IOInv, IOTypes, Stage
  <2> QED BY <2>1, <2>2, SameStages
<1> QED BY <1>1, <1>2, <1>3, <1>4, <1>5 DEF IONext, Interrupt

LEMMA IOInv_Latest == IOInv => LatestData
<1> SUFFICES ASSUME IOInv PROVE LatestData
  OBVIOUS
<1> USE DEF IOInv
<1>1. ASSUME NEW t \in Tasks, at[t] = "use"
      PROVE  bcache[mine[t]].data = newest[Head(todo[t]).blockno]
  <2>1. Stage(t) = "use"
    BY <1>1 DEF Stage, Woke, Sleeps
  <2>2. /\ mine[t] \in Bufs /\ bcache[mine[t]].valid = TRUE
        /\ bcache[mine[t]].blockno = Head(todo[t]).blockno
    BY <2>1, Busy DEF Callers
  <2>3. bcache[mine[t]].data = newest[bcache[mine[t]].blockno]
    BY <2>2 DEF Buffers
  <2> QED BY <2>2, <2>3
<1>2. ASSUME AllDone PROVE platter = newest
  <2>1. \A t \in Tasks : Rest(t) = <<>>
    <3>1. \A t \in Tasks : Stage(t) = "idle"
      BY <1>2 DEF AllDone, Stage, Woke, Sleeps
    <3> QED BY <1>2, <3>1 DEF AllDone, Rest
  <2>2. \A n : ~Owed(<<>>, n)
    BY DEF Owed
  <2>3. \A n \in BlockNos : platter[n] = newest[n]
    BY <2>1, <2>2 DEF Stored
  <2>4. platter \in [BlockNos -> Writers] /\ newest \in [BlockNos -> Writers]
    BY DEF IOTypes
  <2> QED BY <2>3, <2>4
<1> QED BY <1>1, <1>2 DEF LatestData

\* The inductive invariant: buffers, reference counts, descriptors and requests agree
\* in every reachable state, for any number of processes, buffers and blocks.
THEOREM IOInvariant == IOSpec => []IOInv
<1>1. IOInit => IOInv
  BY IOInit_Inv
<1>2. IOInv /\ [IONext]_ioVars => IOInv'
  BY IONext_Inv
<1> QED BY <1>1, <1>2, PTL DEF IOSpec

\* Whoever is between bread() and brelse() sees what was stored in the block last,
\* whichever way bget(), the driver and the interrupt interleave, and when all calls
\* are done the disk has it.
THEOREM DataIsLatest == IOSpec => []LatestData
<1>1. IOInv => LatestData
  BY IOInv_Latest
<1> QED BY <1>1, IOInvariant, PTL
=============================================================================
