------------------------------ MODULE FsProofs ------------------------------
(***************************************************************************)
(* Proofs about Fs for every finite set of processes, every disk and all   *)
(* programs made of the system calls of kernel/sysfile.c.                  *)
(*                                                                         *)
(* What makes a valid copy of an inode sound is who may change it, and     *)
(* that is in what the processes have still to do: todo[p] is a plan, a    *)
(* list of steps in an order that fs.c and sysfile.c keep (Tidy), and a    *)
(* step of the plan tells what its process holds meanwhile: the lock of    *)
(* an inode (LockedAt), an inode it found valid and keeps so (FirmAt), one *)
(* that it is freeing (FreedAt), a pointer that counts in ip->ref (UsedAt).*)
(* FsInv says so of the table: every reference is counted, once            *)
(* (RefsExact), no pointer outlives its use (Clear), a process has the     *)
(* locks that its plan says, of inodes that differ, and nobody frees an    *)
(* inode that another one goes on with (Keeping).  Then a copy in memory   *)
(* is valid and not that of the disk only between the two halves of the    *)
(* freeing of its inode, under its lock (Cached).                          *)
(*                                                                         *)
(* The actions fall in four kinds, each with a lemma that gives FsInv'     *)
(* from what the action does to plan, pointers and table: a step under     *)
(* the lock of an inode (LockStep), one that takes no lock (LocalStep),    *)
(* one of the freeing of an inode in iput() (FreeingStep), a boot.         *)
(*                                                                         *)
(* Layout, the second half, says who has which block (BlocksOwned).  It    *)
(* rests on FsInv: the inode whose blocks a step changes is under its      *)
(* lock, so its copy is that of the disk, and the pointers that the rest   *)
(* of a plan needs lead to inodes of the right type (Aimed).               *)
(***************************************************************************)
EXTENDS Fs, FiniteSetTheorems, SequenceTheorems, WellFoundedInduction, TLAPS

-----------------------------------------------------------------------------
(* Plans.                                                                  *)

\* The pointers of a call, and all the places that hold a reference to an inode.
Ptrs  == {"ip", "dp", "x"}
Cells == Ptrs \union {"cwd", "fd"}

\* The steps of each pointer: v's name is the second part of a step, and a walk also
\* has the name to look up.
OnDp  == {"parent", "unlink_dp", "create_dp", "link_dp"}
OnIp  == {"open_ip", "link_ip", "chdir_ip", "unlink_ip", "create_ip", "exists", "opened",
          "nlink", "link_bad", "cwd"}
Puts  == {"put", "free", "drop", "deref"}
KindSet == (({"unlock"} \union Puts) \X Ptrs) \union ({"walk"} \X {"ip", "dp"})
           \union (OnDp \X {"dp"}) \union (OnIp \X {"ip"})
Items == KindSet \union ({"walk"} \X {"ip", "dp"} \X STRING)

\* A step but for the name it looks up; the steps of a plan.
Kind(b) == <<b[1], b[2]>>
Kinds(s) == {Kind(s[k]) : k \in DOMAIN s}

\* Steps that are put at the head of a plan and go on with the work of the one before;
\* steps that end what was planned; the steps after a walk.
HeadOnly == {"free", "drop", "deref", "unlink_ip", "create_ip"}
LastOps  == {"unlink_dp", "create_dp", "link_dp", "unlink_ip", "create_ip", "exists", "open_ip",
             "link_ip", "chdir_ip", "opened", "link_bad", "cwd"}
AfterWalk == {"walk", "parent", "unlink_dp", "create_dp", "link_dp", "open_ip", "link_ip", "chdir_ip"}

\* Step a may come before step b in a plan.
Before(a, b) ==
  /\ b[1] \notin HeadOnly /\ a[1] \notin LastOps
  /\ a[1] = "unlock" => ~(b[2] = a[2] /\ b[1] \in {"unlock", "opened", "nlink"})
  /\ a[1] \in Puts => b[2] # a[2] /\ (a[2] # "x" => b[1] # "link_dp")
  /\ a[1] \in {"walk", "parent"} => b[2] = a[2] /\ b[1] \in AfterWalk
  /\ a[1] = "parent" => b[1] \notin {"walk", "parent"}

\* A plan in order.
Tidy(s) == \A k, l \in DOMAIN s : k < l => Before(Kind(s[k]), Kind(s[l]))

\* The kind of a step is one of the finitely many kinds.
LEMMA KindOf == \A b \in Items : Kind(b) \in KindSet /\ Kind(b)[1] = b[1] /\ Kind(b)[2] = b[2]
<1> TAKE b \in Items
<1>0. Kind(b)[1] = b[1] /\ Kind(b)[2] = b[2]
  BY DEF Kind
<1>1. CASE b \in KindSet
  <2>1. b = <<b[1], b[2]>>
    BY <1>1 DEF KindSet
  <2> QED BY <2>1, <1>1, <1>0 DEF Kind
<1>2. CASE b \in {"walk"} \X {"ip", "dp"} \X STRING
  <2>1. b[1] = "walk" /\ b[2] \in {"ip", "dp"}
    BY <1>2
  <2> QED BY <2>1, <1>0 DEF Kind, KindSet
<1> QED BY <1>1, <1>2 DEF Items

\* A plan of two plans: their steps, in order if each is and the first may come first.
LEMMA ConcatKinds ==
  ASSUME NEW s \in Seq(Items), NEW t \in Seq(Items)
  PROVE  /\ s \o t \in Seq(Items)
         /\ Kinds(s \o t) = Kinds(s) \union Kinds(t)
         /\ Tidy(s) /\ Tidy(t) /\ (\A a \in Kinds(s) : \A b \in Kinds(t) : Before(a, b)) =>
              Tidy(s \o t)
<1> DEFINE c == s \o t
<1>3. c \in Seq(Items) /\ Len(c) = Len(s) + Len(t)
      /\ \A k \in 1..Len(c) : c[k] = IF k <= Len(s) THEN s[k] ELSE t[k - Len(s)]
  BY ConcatProperties
<1>4. DOMAIN s = 1..Len(s) /\ DOMAIN t = 1..Len(t) /\ DOMAIN c = 1..Len(c)
      /\ Len(s) \in Nat /\ Len(t) \in Nat
  BY <1>3
<1> HIDE DEF c
<1>5. ASSUME NEW k \in 1..Len(s) PROVE k \in 1..Len(c) /\ c[k] = s[k]
  BY <1>3, <1>4
<1>6. ASSUME NEW k \in 1..Len(t) PROVE k + Len(s) \in 1..Len(c) /\ c[k + Len(s)] = t[k]
  <2>1. k + Len(s) \in 1..Len(c) /\ ~(k + Len(s) <= Len(s)) /\ (k + Len(s)) - Len(s) = k
    BY <1>3, <1>4
  <2> QED BY <2>1, <1>3
<1>7. ASSUME NEW k \in 1..Len(c), ~(k <= Len(s))
      PROVE  k - Len(s) \in 1..Len(t) /\ c[k] = t[k - Len(s)]
  BY <1>7, <1>3, <1>4
<1>8. ASSUME NEW b PROVE b \in Kinds(c) <=> b \in Kinds(s) \union Kinds(t)
  <2>1. ASSUME b \in Kinds(c) PROVE b \in Kinds(s) \union Kinds(t)
    <3>1. PICK k \in 1..Len(c) : b = Kind(c[k])
      BY <2>1, <1>4 DEF Kinds
    <3>2. CASE k <= Len(s)
      BY <3>1, <3>2, <1>3, <1>4 DEF Kinds
    <3>3. CASE ~(k <= Len(s))
      BY <1>7, <3>3, <3>1, <1>4 DEF Kinds
    <3> QED BY <3>2, <3>3
  <2>2. ASSUME b \in Kinds(s) PROVE b \in Kinds(c)
    <3>1. PICK k \in 1..Len(s) : b = Kind(s[k])
      BY <2>2, <1>4 DEF Kinds
    <3> QED BY <3>1, <1>5, <1>4 DEF Kinds
  <2>3. ASSUME b \in Kinds(t) PROVE b \in Kinds(c)
    <3>1. PICK k \in 1..Len(t) : b = Kind(t[k])
      BY <2>3, <1>4 DEF Kinds
    <3> QED BY <3>1, <1>6, <1>4 DEF Kinds
  <2> QED BY <2>1, <2>2, <2>3
<1>9. ASSUME Tidy(s), Tidy(t), \A a \in Kinds(s) : \A b \in Kinds(t) : Before(a, b)
      PROVE  Tidy(c)
  <2> SUFFICES ASSUME NEW k \in 1..Len(c), NEW l \in 1..Len(c), k < l
               PROVE  Before(Kind(c[k]), Kind(c[l]))
    BY <1>4 DEF Tidy
  <2>1. CASE l <= Len(s)
    <3>1. k \in DOMAIN s /\ l \in DOMAIN s /\ c[k] = s[k] /\ c[l] = s[l]
      BY <2>1, <1>3, <1>4
    <3> QED BY <3>1, <1>9 DEF Tidy
  <2>2. CASE ~(k <= Len(s))
    <3>1. ~(l <= Len(s)) /\ k - Len(s) < l - Len(s)
      BY <2>2, <1>4, <1>3
    <3>2. k - Len(s) \in DOMAIN t /\ l - Len(s) \in DOMAIN t
          /\ c[k] = t[k - Len(s)] /\ c[l] = t[l - Len(s)]
      BY <2>2, <3>1, <1>7, <1>4
    <3> QED BY <3>1, <3>2, <1>9 DEF Tidy
  <2>3. CASE k <= Len(s) /\ ~(l <= Len(s))
    <3>1. k \in DOMAIN s /\ c[k] = s[k]
      BY <2>3, <1>3, <1>4
    <3>2. l - Len(s) \in DOMAIN t /\ c[l] = t[l - Len(s)]
      BY <2>3, <1>7, <1>4
    <3>3. Kind(c[k]) \in Kinds(s) /\ Kind(c[l]) \in Kinds(t)
      BY <3>1, <3>2 DEF Kinds
    <3> QED BY <3>3, <1>9
  <2> QED BY <2>1, <2>2, <2>3
<1> QED BY <1>3, <1>8, <1>9 DEF c

\* A plan without its first step.
LEMMA TailKinds ==
  ASSUME NEW s \in Seq(Items), s # <<>>
  PROVE  /\ Tail(s) \in Seq(Items) /\ Head(s) \in Items
         /\ Kinds(s) = {Kind(Head(s))} \union Kinds(Tail(s))
         /\ Kinds(s) \subseteq KindSet
         /\ Head(s)[1] = Kind(Head(s))[1] /\ Head(s)[2] = Kind(Head(s))[2]
         /\ Tidy(s) => Tidy(Tail(s)) /\ \A b \in Kinds(Tail(s)) : Before(Kind(Head(s)), b)
<1> DEFINE t == Tail(s)
<1>1. t \in Seq(Items) /\ Head(s) \in Items /\ Len(t) = Len(s) - 1 /\ Len(s) \in Nat \ {0}
      /\ Head(s) = s[1]
  BY HeadTailProperties
<1>2. \A k \in 1..Len(t) : t[k] = s[k + 1]
  BY HeadTailProperties
<1>3. DOMAIN s = 1..Len(s) /\ DOMAIN t = 1..Len(t)
  BY <1>1
<1> HIDE DEF t
<1>4. ASSUME NEW b PROVE b \in Kinds(s) <=> b \in {Kind(Head(s))} \union Kinds(t)
  <2>1. ASSUME b \in Kinds(s) PROVE b \in {Kind(Head(s))} \union Kinds(t)
    <3>1. PICK k \in 1..Len(s) : b = Kind(s[k])
      BY <2>1, <1>3 DEF Kinds
    <3>2. CASE k = 1
      BY <3>1, <3>2, <1>1
    <3>3. CASE k # 1
      <4>1. k - 1 \in 1..Len(t) /\ t[k - 1] = s[k]
        BY <3>3, <1>1, <1>2
      <4> QED BY <4>1, <3>1, <1>3 DEF Kinds
    <3> QED BY <3>2, <3>3
  <2>2. Kind(Head(s)) \in Kinds(s)
    BY <1>1, <1>3 DEF Kinds
  <2>3. ASSUME b \in Kinds(t) PROVE b \in Kinds(s)
    <3>1. PICK k \in 1..Len(t) : b = Kind(t[k])
      BY <2>3, <1>3 DEF Kinds
    <3>2. k + 1 \in 1..Len(s) /\ s[k + 1] = t[k]
      BY <1>1, <1>2
    <3> QED BY <3>1, <3>2, <1>3 DEF Kinds
  <2> QED BY <2>1, <2>2, <2>3
<1>5. Kinds(s) \subseteq KindSet
  <2>1. \A k \in 1..Len(s) : s[k] \in Items
    OBVIOUS
  <2> QED BY <2>1, <1>3, KindOf DEF Kinds
<1>6. ASSUME Tidy(s) PROVE Tidy(t)
  <2> SUFFICES ASSUME NEW k \in 1..Len(t), NEW l \in 1..Len(t), k < l
               PROVE  Before(Kind(t[k]), Kind(t[l]))
    BY <1>3 DEF Tidy
  <2>1. k + 1 \in DOMAIN s /\ l + 1 \in DOMAIN s /\ k + 1 < l + 1
        /\ t[k] = s[k + 1] /\ t[l] = s[l + 1]
    BY <1>1, <1>2, <1>3
  <2> QED BY <2>1, <1>6 DEF Tidy
<1>7. ASSUME Tidy(s), NEW b \in Kinds(t) PROVE Before(Kind(Head(s)), b)
  <2>1. PICK k \in 1..Len(t) : b = Kind(t[k])
    BY <1>3 DEF Kinds
  <2>2. k + 1 \in DOMAIN s /\ 1 \in DOMAIN s /\ 1 < k + 1 /\ b = Kind(s[k + 1])
    BY <1>1, <1>2, <1>3, <2>1
  <2> QED BY <2>2, <1>1, <1>7 DEF Tidy
<1> QED BY <1>1, <1>4, <1>5, <1>6, <1>7, KindOf DEF t

\* Plans of no, of one and of two steps.
LEMMA Kinds0 == <<>> \in Seq(Items) /\ Kinds(<<>>) = {} /\ Tidy(<<>>)
BY DEF Kinds, Tidy

LEMMA Kinds1 ==
  ASSUME NEW a \in Items
  PROVE  /\ <<a>> \in Seq(Items) /\ Kinds(<<a>>) = {Kind(a)} /\ Tidy(<<a>>)
BY DEF Kinds, Tidy

LEMMA Kinds2 ==
  ASSUME NEW a \in Items, NEW b \in Items, Before(Kind(a), Kind(b))
  PROVE  /\ <<a, b>> \in Seq(Items) /\ Kinds(<<a, b>>) = {Kind(a), Kind(b)} /\ Tidy(<<a, b>>)
BY DEF Kinds, Tidy

\* A list of steps with these kinds.
Plan(s, A) == s \in Seq(Items) /\ Tidy(s) /\ Kinds(s) = A

\* The same of plans whose steps are known.
LEMMA PlanConcat ==
  ASSUME NEW s, NEW t, NEW A, NEW B, Plan(s, A), Plan(t, B),
         \A a \in A : \A b \in B : Before(a, b)
  PROVE  Plan(s \o t, A \union B)
BY ConcatKinds DEF Plan

\* What the guards of the steps say.
LEMMA IsAt ==
  ASSUME NEW p, NEW op, At(p, op) PROVE todo[p] # <<>> /\ Head(todo[p])[1] = op
BY DEF At

-----------------------------------------------------------------------------

(* The invariant.                                                          *)

\* What p has still to do.
Pending(p) == Kinds(todo[p])

\* With the plan K a process has the inode of its pointer v locked: it is to unlock it,
\* to go on in open() or in iput(), or v is the directory of a step on an entry of it.
LockedAt(K, v) ==
  \/ <<"unlock", v>> \in K \/ <<"opened", v>> \in K \/ <<"nlink", v>> \in K
  \/ <<"free", v>> \in K \/ <<"drop", v>> \in K
  \/ v = "dp" /\ (<<"unlink_ip", "ip">> \in K \/ <<"create_ip", "ip">> \in K)

\* It found the inode of v valid, and nobody may free that inode until K is done: the
\* inode is locked for itself, or has a link that the call took or keeps.
FirmAt(K, v) ==
  \/ <<"unlock", v>> \in K \/ <<"opened", v>> \in K \/ <<"nlink", v>> \in K
  \/ <<"link_bad", v>> \in K
  \/ v = "dp" /\ (<<"unlink_ip", "ip">> \in K \/ <<"create_ip", "ip">> \in K)
  \/ v = "dp" /\ <<"parent", "dp">> \notin K
              /\ (<<"unlink_dp", "dp">> \in K \/ <<"create_dp", "dp">> \in K \/ <<"link_dp", "dp">> \in K)
  \/ v = "ip" /\ <<"link_dp", "dp">> \in K

\* It frees the inode of v: the last reference and no link, the lock taken in iput().
FreedAt(K, v) == <<"free", v>> \in K \/ <<"drop", v>> \in K

\* It needs v, and so v holds a reference.
UsedAt(K, v) ==
  \/ <<"put", v>> \in K \/ <<"free", v>> \in K \/ <<"drop", v>> \in K \/ <<"deref", v>> \in K
  \/ v = "dp" /\ \/ <<"unlink_dp", "dp">> \in K \/ <<"create_dp", "dp">> \in K
                 \/ <<"link_dp", "dp">> \in K
                 \/ <<"unlink_ip", "ip">> \in K \/ <<"create_ip", "ip">> \in K
  \/ v = "ip" /\ \/ <<"open_ip", "ip">> \in K \/ <<"link_ip", "ip">> \in K \/ <<"chdir_ip", "ip">> \in K
                 \/ <<"exists", "ip">> \in K \/ <<"opened", "ip">> \in K \/ <<"link_bad", "ip">> \in K
                 \/ <<"cwd", "ip">> \in K \/ <<"link_dp", "dp">> \in K
                 \/ <<"unlink_ip", "ip">> \in K \/ <<"create_ip", "ip">> \in K

\* What is to be walked is walked for a step of call c that uses it.
Linked(K, c) ==
  /\ <<"walk", "dp">> \in K => <<"parent", "dp">> \in K
  /\ <<"walk", "ip">> \in K =>
       <<"open_ip", "ip">> \in K \/ <<"link_ip", "ip">> \in K \/ <<"chdir_ip", "ip">> \in K
  /\ <<"parent", "dp">> \in K =>
       <<"unlink_dp", "dp">> \in K \/ <<"create_dp", "dp">> \in K \/ <<"link_dp", "dp">> \in K
  /\ <<"parent", "dp">> \in K /\ c.op = "link" => <<"link_dp", "dp">> \in K
  /\ <<"link_ip", "ip">> \in K \/ <<"link_dp", "dp">> \in K => c.op = "link"

\* The shapes of an inode, of an entry of itable, of itable and of the disk.
IsNode(n)  == n = [type |-> n.type, nlink |-> n.nlink, addrs |-> n.addrs]
IsEntry(e) == /\ e = [ref |-> e.ref, valid |-> e.valid, lock |-> e.lock, node |-> e.node]
              /\ e.ref \in Nat /\ e.valid \in BOOLEAN /\ e.lock \in Procs \union {NoProc}
              /\ IsNode(e.node)
IsTable(t) == DOMAIN t = Inums /\ \A j \in Inums : IsEntry(t[j])
IsDisk(t)  == DOMAIN t = Inums /\ \A j \in Inums : IsNode(t[j])

\* The references: cell c of p leads to inode Held(p, c).  Between the iput() of the old
\* directory and the store of the new one, p->cwd is the old one, which has gone.
Held(p, c) == IF c = "cwd" THEN IF <<"cwd", "ip">> \in Pending(p) THEN 0 ELSE cwd[p]
              ELSE IF c = "fd" THEN fd[p] ELSE ptr[p][c]
Grip       == [h \in Procs \X Cells |-> Held(h[1], h[2])]
Count(F, i) == Cardinality({h \in DOMAIN F : F[h] = i})

\* Inode j is free on the disk and its copy is about to be made invalid.
Dropping(j) == \E p \in Procs : /\ itable[j].lock = p
                                /\ \E v \in Ptrs : ptr[p][v] = j /\ <<"drop", v>> \in Pending(p)
Sound(j)    == itable[j].node = disk[j] /\ disk[j].type # "none"

\* Types.
FsTypes ==
  /\ IsTable(itable) /\ IsDisk(disk)
  /\ DOMAIN ptr = Procs /\ DOMAIN cwd = Procs /\ DOMAIN fd = Procs
  /\ \A p \in Procs : DOMAIN ptr[p] = Ptrs
  /\ work \in [Procs -> Seq(Requests)] /\ rest \in [Procs -> Seq(Requests)]
  /\ call \in [Procs -> Requests \union {NoCall}]

\* Plans are in order, and made for the call.
Ordered    == /\ todo \in [Procs -> Seq(Items)]
              /\ \A p \in Procs : Tidy(todo[p]) /\ Linked(Pending(p), call[p])
\* ip->ref is the number of the references.
RefsExact  == \A i \in Inums : Count(Grip, i) = itable[i].ref
\* A pointer that the plan has no use for leads nowhere.
Clear      == \A p \in Procs : \A v \in Ptrs : ~UsedAt(Pending(p), v) => ptr[p][v] \notin Inums
\* The plan tells the locks, and they are of inodes that differ.
LocksHeld  == \A p \in Procs : \A v \in Ptrs :
                LockedAt(Pending(p), v) /\ ptr[p][v] \in Inums => itable[ptr[p][v]].lock = p
LocksApart == \A p \in Procs : \A v, w \in Ptrs :
                LockedAt(Pending(p), v) /\ LockedAt(Pending(p), w) /\ v # w /\ ptr[p][v] \in Inums
                  => ptr[p][v] # ptr[p][w]
\* An inode that a process found valid stays so, and no other process frees it.
FirmValid  == \A p \in Procs : \A v \in Ptrs :
                FirmAt(Pending(p), v) /\ ptr[p][v] \in Inums => itable[ptr[p][v]].valid
FirmKept   == \A p, q \in Procs : \A v, w \in Ptrs :
                FirmAt(Pending(p), v) /\ ptr[p][v] \in Inums /\ FreedAt(Pending(q), w)
                  => ptr[p][v] # ptr[q][w]
\* A valid copy is the inode of the disk, and that one is not free, but while one drops it.
Cached     == \A j \in Inums : itable[j].valid => Sound(j) \/ Dropping(j)

Keeping == LocksHeld /\ LocksApart /\ FirmValid /\ FirmKept
FsInv   == FsTypes /\ Ordered /\ RefsExact /\ Clear /\ Keeping /\ Cached

\* An inode that is being dropped is locked, so the invariant makes the free ones sound.
LEMMA InvCoherent == FsInv => Coherent
<1> SUFFICES ASSUME FsInv, NEW i \in Inums, itable[i].valid, Free(i)
             PROVE  itable[i].node = disk[i]
  BY DEF Coherent
<1>1. ~Dropping(i)
  BY FsAssumption DEF Dropping, Free
<1> QED BY <1>1 DEF FsInv, Cached, Sound

-----------------------------------------------------------------------------
(* Counting.                                                               *)

\* A function that differs from F at c only.
LEMMA CountOne ==
  ASSUME NEW D, IsFiniteSet(D), NEW F, NEW G, DOMAIN F = D, DOMAIN G = D, NEW c \in D,
         NEW i, \A h \in D : h # c => (G[h] = i <=> F[h] = i)
  PROVE  /\ Count(F, i) \in Nat /\ Count(G, i) \in Nat
         /\ F[c] # i /\ G[c] # i => Count(G, i) = Count(F, i)
         /\ F[c] = i /\ G[c] = i => Count(G, i) = Count(F, i)
         /\ F[c] # i /\ G[c] = i => Count(G, i) = Count(F, i) + 1
         /\ F[c] = i /\ G[c] # i => Count(F, i) = Count(G, i) + 1
<1> DEFINE f == {h \in D : F[h] = i}
           g == {h \in D : G[h] = i}
           r == {h \in D : h # c /\ F[h] = i}
<1>1. IsFiniteSet(f) /\ IsFiniteSet(g) /\ IsFiniteSet(r)
  BY FS_Subset, f \subseteq D, g \subseteq D, r \subseteq D
<1>2. Cardinality(r) \in Nat /\ Cardinality(f) \in Nat /\ Cardinality(g) \in Nat
  BY <1>1, FS_CardinalityType
<1>3. c \notin r /\ Cardinality(r \union {c}) = Cardinality(r) + 1
  BY <1>1, FS_AddElement
<1>4. F[c] = i => f = r \union {c}
  OBVIOUS
<1>5. F[c] # i => f = r
  OBVIOUS
<1>6. G[c] = i => g = r \union {c}
  OBVIOUS
<1>7. G[c] # i => g = r
  OBVIOUS
<1> HIDE DEF f, g, r
<1>8. Count(F, i) = Cardinality(f) /\ Count(G, i) = Cardinality(g)
  BY DEF Count, f, g
<1> QED BY <1>2, <1>3, <1>4, <1>5, <1>6, <1>7, <1>8

\* There are finitely many cells: three pointers, p->cwd and a file for each process.
LEMMA CellsFinite == IsFiniteSet(Procs \X Cells)
<1>1. IsFiniteSet({"ip", "dp", "x", "cwd", "fd"})
  <2>1. IsFiniteSet({}) BY FS_EmptySet
  <2>2. IsFiniteSet({} \union {"ip"}) BY <2>1, FS_AddElement
  <2>3. IsFiniteSet(({} \union {"ip"}) \union {"dp"}) BY <2>2, FS_AddElement
  <2>4. IsFiniteSet((({} \union {"ip"}) \union {"dp"}) \union {"x"}) BY <2>3, FS_AddElement
  <2>5. IsFiniteSet(((({} \union {"ip"}) \union {"dp"}) \union {"x"}) \union {"cwd"}) BY <2>4, FS_AddElement
  <2>6. IsFiniteSet((((({} \union {"ip"}) \union {"dp"}) \union {"x"}) \union {"cwd"}) \union {"fd"})
    BY <2>5, FS_AddElement
  <2>7. {"ip", "dp", "x", "cwd", "fd"} =
        (((({} \union {"ip"}) \union {"dp"}) \union {"x"}) \union {"cwd"}) \union {"fd"}
    OBVIOUS
  <2> QED BY <2>6, <2>7
<1>2. Cells = {"ip", "dp", "x", "cwd", "fd"}
  BY DEF Cells, Ptrs
<1> QED BY <1>1, <1>2, FS_Product, FsAssumption

\* Two functions that differ at two places: what c had in F, d has in G.
LEMMA CountMove ==
  ASSUME NEW D, IsFiniteSet(D), NEW F, NEW G, DOMAIN F = D, DOMAIN G = D, NEW c \in D, NEW d \in D,
         c # d, NEW i, \A h \in D : h # c /\ h # d => (G[h] = i <=> F[h] = i),
         F[d] # i, (F[c] = i) <=> (G[d] = i), NEW n, G[c] = i => n = 1, G[c] # i => n = 0
  PROVE  Count(G, i) = Count(F, i) + n
<1> DEFINE M == [F EXCEPT ![d] = G[d]]
<1>1. DOMAIN M = D /\ (\A h \in D : h # d => M[h] = F[h]) /\ M[d] = G[d] /\ M[c] = F[c]
      /\ (\A h \in D : h # c => (G[h] = i <=> M[h] = i)) /\ (\A h \in D : h # d => (M[h] = i <=> F[h] = i))
  OBVIOUS
<1> HIDE DEF M
<1>2. /\ Count(F, i) \in Nat /\ Count(M, i) \in Nat
      /\ M[d] # i => Count(M, i) = Count(F, i)
      /\ M[d] = i => Count(M, i) = Count(F, i) + 1
  BY CountOne, <1>1
<1>3. /\ Count(G, i) \in Nat
      /\ M[c] # i /\ G[c] # i => Count(G, i) = Count(M, i)
      /\ M[c] = i /\ G[c] = i => Count(G, i) = Count(M, i)
      /\ M[c] # i /\ G[c] = i => Count(G, i) = Count(M, i) + 1
      /\ M[c] = i /\ G[c] # i => Count(M, i) = Count(G, i) + 1
  BY CountOne, <1>1
<1> QED BY <1>1, <1>2, <1>3

-----------------------------------------------------------------------------
(* What a state says.                                                      *)

\* A pointer counts.
LEMMA HolderRef ==
  ASSUME FsTypes, RefsExact, NEW j \in Inums,
         NEW p \in Procs, NEW c \in Cells, Held(p, c) = j
  PROVE  /\ itable[j].ref \in Nat /\ itable[j].ref > 0
         /\ \A q \in Procs, d \in Cells : itable[j].ref = 1 /\ Held(q, d) = j => q = p /\ d = c
<1> DEFINE H == {h \in DOMAIN Grip : Grip[h] = j}
<1>1. DOMAIN Grip = Procs \X Cells /\ \A q \in Procs, d \in Cells : Grip[<<q, d>>] = Held(q, d)
  BY DEF Grip
<1>2. IsFiniteSet(H)
  BY <1>1, CellsFinite, FS_Subset, H \subseteq Procs \X Cells
<1>3. <<p, c>> \in H
  BY <1>1
<1>4. Cardinality(H) \in Nat /\ Cardinality(H) > 0
  BY <1>2, <1>3, FS_CardinalityType, FS_EmptySet
<1>5. ASSUME NEW q \in Procs, NEW d \in Cells, Cardinality(H) = 1, Held(q, d) = j
      PROVE  q = p /\ d = c
  <2>1. <<q, d>> \in H
    BY <1>1, <1>5
  <2>2. PICK e : H = {e}
    BY <1>2, <1>5, FS_Singleton
  <2> QED BY <2>1, <2>2, <1>3
<1>6. itable[j].ref = Cardinality(H)
  BY DEF RefsExact, Count
<1> QED BY <1>4, <1>5, <1>6

\* A pointer holds what it leads to.
LEMMA PtrHeld == \A p \in Procs : \A v \in Ptrs : v \in Cells /\ Held(p, v) = ptr[p][v]
BY DEF Held, Ptrs, Cells

\* An inode with a pointer to it has a reference.
LEMMA PtrRef ==
  ASSUME FsTypes, RefsExact, NEW p \in Procs, NEW v \in Ptrs, ptr[p][v] \in Inums
  PROVE  itable[ptr[p][v]].ref \in Nat /\ itable[ptr[p][v]].ref > 0
BY HolderRef, PtrHeld

\* One reference is one pointer.
LEMMA OnlyPtr ==
  ASSUME FsTypes, RefsExact, NEW p \in Procs, NEW v \in Ptrs, ptr[p][v] \in Inums,
         itable[ptr[p][v]].ref = 1,
         NEW q \in Procs, NEW w \in Ptrs, ptr[q][w] = ptr[p][v]
  PROVE  q = p /\ w = v
BY HolderRef, PtrHeld

\* An inode that is not locked is nobody's to use or to free.
LEMMA FreeNobody ==
  ASSUME FsInv, NEW i \in Inums, Free(i), NEW p \in Procs, NEW v \in Ptrs, ptr[p][v] = i
  PROVE  ~LockedAt(Pending(p), v) /\ ~FreedAt(Pending(p), v)
<1>1. FreedAt(Pending(p), v) => LockedAt(Pending(p), v)
  BY DEF FreedAt, LockedAt
<1>2. LockedAt(Pending(p), v) => itable[i].lock = p
  BY DEF FsInv, Keeping, LocksHeld
<1> QED BY <1>1, <1>2, FsAssumption DEF Free

\* What ilock() finds in memory or reads is what is on the disk.
LEMMA NodeOnDisk ==
  ASSUME FsInv, NEW i \in Inums, Free(i)
  PROVE  Node(i) = disk[i] /\ (itable[i].valid => Sound(i))
<1>1. ~Dropping(i)
  BY FsAssumption DEF Dropping, Free
<1>2. itable[i].valid => Sound(i)
  BY <1>1 DEF FsInv, Cached
<1> QED BY <1>2 DEF Node, Sound

\* What a process locked earlier and still refers to has not been freed since.
LEMMA FirmSound ==
  ASSUME FsInv, NEW p \in Procs, NEW v \in Ptrs, FirmAt(Pending(p), v), ptr[p][v] \in Inums
  PROVE  itable[ptr[p][v]].valid /\ Sound(ptr[p][v])
<1>1. itable[ptr[p][v]].valid
  BY DEF FsInv, Keeping, FirmValid
<1>2. ~Dropping(ptr[p][v])
  BY DEF FsInv, Keeping, FirmKept, Dropping, FreedAt
<1> QED BY <1>1, <1>2 DEF FsInv, Cached

-----------------------------------------------------------------------------
(* The operators of the table.                                             *)

\* Updates of an inode and of an entry, field by field.
LEMMA NodeFields ==
  ASSUME NEW n, IsNode(n), NEW x
  PROVE  /\ [n EXCEPT !.nlink = x] = [type |-> n.type, nlink |-> x, addrs |-> n.addrs]
         /\ [n EXCEPT !.addrs = x] = [type |-> n.type, nlink |-> n.nlink, addrs |-> x]
         /\ [n EXCEPT !.type = x] = [type |-> x, nlink |-> n.nlink, addrs |-> n.addrs]
         /\ IsNode([n EXCEPT !.nlink = x]) /\ IsNode([n EXCEPT !.addrs = x])
         /\ IsNode([n EXCEPT !.type = x])
<1>1. PICK t, l, a : n = [type |-> t, nlink |-> l, addrs |-> a]
  BY DEF IsNode
<1> QED BY <1>1 DEF IsNode

LEMMA EntryFields ==
  ASSUME NEW e, IsEntry(e), NEW x
  PROVE  /\ x \in Nat => /\ IsEntry([e EXCEPT !.ref = x])
                         /\ [e EXCEPT !.ref = x] = [ref |-> x, valid |-> e.valid, lock |-> e.lock, node |-> e.node]
         /\ x \in Procs \union {NoProc} =>
              /\ IsEntry([e EXCEPT !.lock = x])
              /\ [e EXCEPT !.lock = x] = [ref |-> e.ref, valid |-> e.valid, lock |-> x, node |-> e.node]
         /\ IsNode(x) => /\ IsEntry([e EXCEPT !.node = x])
                         /\ [e EXCEPT !.node = x] = [ref |-> e.ref, valid |-> e.valid, lock |-> e.lock, node |-> x]
<1>1. PICK r, b, l, n : e = [ref |-> r, valid |-> b, lock |-> l, node |-> n]
  BY DEF IsEntry
<1> QED BY <1>1 DEF IsEntry

LEMMA EntryIs ==
  ASSUME NEW r, NEW b, NEW l, NEW n, NEW e, e = [ref |-> r, valid |-> b, lock |-> l, node |-> n]
  PROVE  e.ref = r /\ e.valid = b /\ e.lock = l /\ e.node = n
BY Zenon

\* An entry that iget() takes.
LEMMA FreshEntry ==
  /\ IsNode(FreeNode) /\ IsEntry(NoInode)
  /\ NoInode.ref = 0 /\ NoInode.valid = FALSE /\ NoInode.lock = NoProc
  /\ \A n \in Nat : /\ IsEntry(Taken(n)) /\ Taken(n).ref = n
                    /\ Taken(n).valid = FALSE /\ Taken(n).lock = NoProc
<1>1. IsNode(FreeNode)
  BY DEF IsNode, FreeNode
<1>2. NoInode = [ref |-> 0, valid |-> FALSE, lock |-> NoProc, node |-> FreeNode]
  BY DEF NoInode
<1>3. NoInode.valid = FALSE
  BY <1>2, Zenon
<1>4. IsEntry(NoInode)
  <2>1. NoInode.ref = 0 /\ NoInode.lock = NoProc /\ NoInode.node = FreeNode
    BY <1>2
  <2>2. NoInode = [ref |-> NoInode.ref, valid |-> NoInode.valid, lock |-> NoInode.lock, node |-> NoInode.node]
    BY <2>1, <1>2, <1>3, Zenon
  <2>3. NoInode.valid \in BOOLEAN
    BY <1>3
  <2> QED BY <1>1, <2>1, <2>2, <2>3 DEF IsEntry
<1>5. ASSUME NEW n \in Nat
      PROVE  /\ IsEntry(Taken(n)) /\ Taken(n).ref = n
             /\ Taken(n).valid = FALSE /\ Taken(n).lock = NoProc
  <2>1. IsEntry([NoInode EXCEPT !.ref = n])
        /\ [NoInode EXCEPT !.ref = n] =
             [ref |-> n, valid |-> NoInode.valid, lock |-> NoInode.lock, node |-> NoInode.node]
    BY <1>4, EntryFields
  <2>2. Taken(n) = [NoInode EXCEPT !.ref = n]
    BY DEF Taken
  <2>3. Taken(n) = [ref |-> n, valid |-> NoInode.valid, lock |-> NoInode.lock, node |-> NoInode.node]
    BY <2>1, <2>2, Zenon
  <2>4. IsEntry(Taken(n))
    BY <2>1, <2>2, Zenon
  <2>5. Taken(n).ref = n /\ Taken(n).lock = NoProc
    BY <2>3, <1>2
  <2>6. Taken(n).valid = FALSE
    <3>1. Taken(n).valid = NoInode.valid
      BY <2>3, EntryIs
    <3> QED BY <3>1, <1>3, Zenon
  <2> QED BY <2>4, <2>5, <2>6
<1> QED BY <1>1, <1>2, <1>3, <1>4, <1>5

\* One reference more, one fewer.
LEMMA MoreFewer ==
  ASSUME NEW e, IsEntry(e)
  PROVE  /\ IsEntry(More(e)) /\ More(e).ref = e.ref + 1 /\ More(e).valid = e.valid
         /\ More(e).lock = e.lock /\ More(e).node = e.node
         /\ e.ref > 0 => IsEntry(Fewer(e)) /\ Fewer(e).ref = e.ref - 1
         /\ e.ref > 1 => /\ Fewer(e).valid = e.valid
                         /\ Fewer(e).lock = e.lock /\ Fewer(e).node = e.node
         /\ e.ref = 1 => Fewer(e).valid = FALSE /\ Fewer(e).lock = NoProc
<1>1. e.ref \in Nat /\ e.ref + 1 \in Nat /\ (e.ref > 0 => e.ref - 1 \in Nat)
  BY DEF IsEntry
<1>2. /\ IsEntry([e EXCEPT !.ref = e.ref + 1])
      /\ [e EXCEPT !.ref = e.ref + 1] =
           [ref |-> e.ref + 1, valid |-> e.valid, lock |-> e.lock, node |-> e.node]
  BY <1>1, EntryFields
<1>3. More(e) = [e EXCEPT !.ref = e.ref + 1]
  BY DEF More
<1>4. More(e) = [ref |-> e.ref + 1, valid |-> e.valid, lock |-> e.lock, node |-> e.node]
  BY <1>2, <1>3, Zenon
<1>5. IsEntry(More(e))
  BY <1>2, <1>3, Zenon
<1>6. /\ More(e).ref = e.ref + 1 /\ More(e).valid = e.valid
      /\ More(e).lock = e.lock /\ More(e).node = e.node
  BY <1>4, EntryIs
<1>7. ASSUME e.ref = 1
      PROVE  Fewer(e) = NoInode
  BY <1>7 DEF Fewer
<1>8. ASSUME e.ref > 0, e.ref # 1
      PROVE  /\ IsEntry(Fewer(e)) /\ Fewer(e).ref = e.ref - 1 /\ Fewer(e).valid = e.valid
             /\ Fewer(e).lock = e.lock /\ Fewer(e).node = e.node
  <2>1. /\ IsEntry([e EXCEPT !.ref = e.ref - 1])
        /\ [e EXCEPT !.ref = e.ref - 1] =
             [ref |-> e.ref - 1, valid |-> e.valid, lock |-> e.lock, node |-> e.node]
    BY <1>1, <1>8, EntryFields
  <2>2. Fewer(e) = [e EXCEPT !.ref = e.ref - 1]
    BY <1>8, Zenon DEF Fewer
  <2>3. Fewer(e) = [ref |-> e.ref - 1, valid |-> e.valid, lock |-> e.lock, node |-> e.node]
    BY <2>1, <2>2, Zenon
  <2>4. IsEntry(Fewer(e))
    BY <2>1, <2>2, Zenon
  <2>5. /\ Fewer(e).ref = e.ref - 1 /\ Fewer(e).valid = e.valid
        /\ Fewer(e).lock = e.lock /\ Fewer(e).node = e.node
    BY <2>3, EntryIs
  <2> QED BY <2>4, <2>5
<1>9. e.ref > 1 => e.ref > 0 /\ e.ref # 1
  BY <1>1
<1> QED BY <1>1, <1>5, <1>6, <1>7, <1>8, <1>9, FreshEntry

\* ilock() reads the inode in, and leaves the others alone.
LEMMA ilockAt ==
  ASSUME IsTable(itable), IsDisk(disk), NEW i, NEW o \in Procs \union {NoProc}
  PROVE  /\ IsTable(ilock(o, i))
         /\ \A j \in Inums : j # i => ilock(o, i)[j] = itable[j]
         /\ i \in Inums => /\ ilock(o, i)[i].ref = itable[i].ref /\ ilock(o, i)[i].valid
                           /\ ilock(o, i)[i].lock = o /\ ilock(o, i)[i].node = Node(i)
<1>1. i \in Inums => IsNode(Node(i))
  BY DEF Node, IsTable, IsDisk, IsEntry
<1>2. ASSUME i \in Inums
      PROVE  ilock(o, i)[i] = [ref |-> itable[i].ref, valid |-> TRUE, lock |-> o, node |-> Node(i)]
  BY <1>2 DEF ilock, IsTable
<1>3. \A j \in Inums : j # i => ilock(o, i)[j] = itable[j]
  BY DEF ilock, IsTable
<1>4. DOMAIN ilock(o, i) = Inums
  BY DEF ilock, IsTable
<1>5. ASSUME i \in Inums PROVE IsEntry(ilock(o, i)[i])
  <2>1. itable[i].ref \in Nat
    BY <1>5 DEF IsEntry, IsTable
  <2>2. PICK e : e = [ref |-> itable[i].ref, valid |-> TRUE, lock |-> o, node |-> Node(i)]
    OBVIOUS
  <2>3. e.ref = itable[i].ref /\ e.lock = o /\ e.node = Node(i)
    BY <2>2
  <2>4. e.valid = TRUE
    BY <2>2, Zenon
  <2>5. e.valid \in BOOLEAN
    BY <2>4
  <2>6. e = [ref |-> e.ref, valid |-> e.valid, lock |-> e.lock, node |-> e.node]
    BY <2>2, <2>3, <2>4, Zenon
  <2>7. IsEntry(e)
    BY <2>1, <2>3, <2>5, <2>6, <1>1, <1>5 DEF IsEntry
  <2> QED BY <2>2, <2>7, <1>2, <1>5, Zenon
<1> QED BY <1>2, <1>3, <1>4, <1>5 DEF IsTable

\* u is t with one more reference to n.
Got(t, u, n) ==
  /\ IsTable(u) /\ \A j \in Inums : j # n => u[j] = t[j]
  /\ n \in Inums =>
       /\ t[n].ref \in Nat /\ u[n].ref = t[n].ref + 1
       /\ t[n].ref > 0 => u[n].valid = t[n].valid /\ u[n].lock = t[n].lock /\ u[n].node = t[n].node
       /\ ~(t[n].ref > 0) => u[n].valid = FALSE /\ u[n].lock = NoProc

\* iget() counts one reference.
LEMMA igetAt ==
  ASSUME NEW t, IsTable(t), NEW n
  PROVE  Got(t, iget(t, n), n)
<1>1. DOMAIN iget(t, n) = Inums /\ \A j \in Inums : j # n => iget(t, n)[j] = t[j]
  BY DEF iget, IsTable
<1>2. CASE n \notin Inums
  BY <1>1, <1>2 DEF IsTable, Got
<1>3. CASE n \in Inums
  <2>1. IsEntry(t[n]) /\ t[n].ref \in Nat
    BY <1>3 DEF IsTable, IsEntry
  <2>2. CASE t[n].ref > 0
    <3>1. iget(t, n)[n] = More(t[n])
      BY <1>3, <2>2 DEF iget, IsTable
    <3> QED BY <1>1, <1>3, <2>1, <2>2, <3>1, MoreFewer DEF IsTable, Got
  <2>3. CASE ~(t[n].ref > 0)
    <3>1. iget(t, n)[n] = Taken(1) /\ t[n].ref = 0
      BY <1>3, <2>1, <2>3 DEF iget, IsTable
    <3> QED BY <1>1, <1>3, <2>1, <2>3, <3>1, FreshEntry DEF IsTable, Got
  <2> QED BY <2>2, <2>3
<1> QED BY <1>2, <1>3

\* A change of the inode in memory.
LEMMA NodeAt ==
  ASSUME NEW t, IsTable(t), NEW d, NEW n, d \in Inums => IsNode(n)
  PROVE  /\ IsTable([t EXCEPT ![d].node = n])
         /\ \A j \in Inums : j # d => [t EXCEPT ![d].node = n][j] = t[j]
         /\ d \in Inums => LET e == [t EXCEPT ![d].node = n][d] IN
                             /\ e.ref = t[d].ref /\ e.valid = t[d].valid /\ e.lock = t[d].lock
                             /\ e.node = n
<1> DEFINE u == [t EXCEPT ![d].node = n]
<1>1. DOMAIN u = Inums /\ \A j \in Inums : j # d => u[j] = t[j]
  BY DEF IsTable
<1>2. ASSUME d \in Inums PROVE u[d] = [t[d] EXCEPT !.node = n] /\ IsEntry(t[d])
  BY <1>2 DEF IsTable
<1> HIDE DEF u
<1>3. ASSUME d \in Inums
      PROVE  IsEntry(u[d]) /\ u[d] = [ref |-> t[d].ref, valid |-> t[d].valid, lock |-> t[d].lock, node |-> n]
  <2>1. PICK e : e = t[d] /\ IsEntry(e)
    BY <1>2, <1>3, Zenon
  <2>2. IsNode(n)
    BY <1>3
  <2>3. IsEntry([e EXCEPT !.node = n])
        /\ [e EXCEPT !.node = n] = [ref |-> e.ref, valid |-> e.valid, lock |-> e.lock, node |-> n]
    BY <2>1, <2>2, EntryFields, ZenonT(40)
  <2> QED BY <2>1, <2>3, <1>2, <1>3, Zenon
<1>4. IsTable(u)
  BY <1>1, <1>3 DEF IsTable
<1>5. ASSUME d \in Inums
      PROVE  u[d].ref = t[d].ref /\ u[d].valid = t[d].valid /\ u[d].lock = t[d].lock /\ u[d].node = n
  BY <1>3, <1>5, EntryIs
<1> QED BY <1>1, <1>4, <1>5 DEF u

-----------------------------------------------------------------------------
(* A step of p.                                                            *)

\* What a step of p does to the plans: the others keep theirs, all are in order.
Turn(p) ==
  /\ todo' \in [Procs -> Seq(Items)] /\ \A q \in Procs : Tidy(todo'[q])
  /\ \A q \in Procs : q # p => Pending(q)' = Pending(q)

\* p goes on with ops before the steps that were left, or instead of them.
LEMMA Proceed ==
  ASSUME FsInv, NEW p \in Procs, NEW op, At(p, op), NEW ops, NEW A, Plan(ops, A),
         \A a \in A : \A b \in KindSet : Before(<<op, V(p)>>, b) => Before(a, b),
         Then(p, ops)
  PROVE  /\ <<op, V(p)>> \in KindSet /\ Turn(p)
         /\ \E T \in SUBSET KindSet :
              /\ Pending(p) = {<<op, V(p)>>} \union T
              /\ \A b \in T : Before(<<op, V(p)>>, b)
              /\ Pending(p)' = A \union T
<1> DEFINE s == todo[p]
           h == Kind(Head(s))
           T == Kinds(Tail(s))
<1>1. todo \in [Procs -> Seq(Items)] /\ s \in Seq(Items) /\ s # <<>> /\ Head(s)[1] = op
      /\ \A q \in Procs : Tidy(todo[q])
  BY IsAt DEF FsInv, Ordered
<1>2. /\ Tail(s) \in Seq(Items) /\ Kinds(s) = {h} \union T /\ Kinds(s) \subseteq KindSet
      /\ Head(s)[1] = h[1] /\ Head(s)[2] = h[2]
      /\ Tidy(Tail(s)) /\ \A b \in T : Before(h, b)
  BY <1>1, TailKinds
<1>3. h = <<op, V(p)>>
  BY <1>1, <1>2 DEF Kind, V
<1>4. \A a \in A : \A b \in T : Before(a, b)
  BY <1>2, <1>3
<1>5. /\ ops \o Tail(s) \in Seq(Items) /\ Kinds(ops \o Tail(s)) = A \union T
      /\ Tidy(ops \o Tail(s))
  <2>1. Plan(Tail(s), T)
    BY <1>2 DEF Plan
  <2>2. Plan(ops \o Tail(s), A \union T)
    BY <1>4, <2>1, PlanConcat
  <2> QED BY <2>2 DEF Plan
<1>6. \A q \in Procs : q # p => todo'[q] = todo[q]
  BY <1>1 DEF Then
<1>7. /\ todo' \in [Procs -> Seq(Items)]
      /\ todo'[p] = ops \o Tail(s)
  BY <1>1, <1>5 DEF Then
<1> HIDE DEF s, h, T
<1>8. \A q \in Procs : Tidy(todo'[q])
  BY <1>1, <1>5, <1>6, <1>7
<1>9. /\ Pending(p) = {<<op, V(p)>>} \union T
      /\ \A b \in T : Before(<<op, V(p)>>, b)
      /\ Kinds(todo'[p]) = A \union T
      /\ T \in SUBSET KindSet
  BY <1>2, <1>3, <1>5, <1>7 DEF Pending, s
<1>10. \A q \in Procs : q # p => Kinds(todo'[q]) = Kinds(todo[q])
  BY <1>6
<1> QED BY <1>2, <1>3, <1>7, <1>8, <1>9, <1>10 DEF Pending, Turn

\* p goes on with ops instead of the steps that were left.
LEMMA ProceedOnly ==
  ASSUME FsInv, NEW p \in Procs, NEW op, At(p, op), NEW ops, NEW A, Plan(ops, A), Only(p, ops)
  PROVE  /\ <<op, V(p)>> \in KindSet /\ Turn(p) /\ Pending(p)' = A
         /\ \E T \in SUBSET KindSet :
              /\ Pending(p) = {<<op, V(p)>>} \union T
              /\ \A b \in T : Before(<<op, V(p)>>, b)
<1> DEFINE s == todo[p]
           h == Kind(Head(s))
           T == Kinds(Tail(s))
<1>1. todo \in [Procs -> Seq(Items)] /\ s \in Seq(Items) /\ s # <<>> /\ Head(s)[1] = op
      /\ \A q \in Procs : Tidy(todo[q])
  BY IsAt DEF FsInv, Ordered
<1>2. /\ Kinds(s) = {h} \union T /\ Kinds(s) \subseteq KindSet
      /\ Head(s)[1] = h[1] /\ Head(s)[2] = h[2]
      /\ \A b \in T : Before(h, b)
  BY <1>1, TailKinds
<1>3. h = <<op, V(p)>>
  BY <1>1, <1>2 DEF Kind, V
<1>4. /\ todo' \in [Procs -> Seq(Items)] /\ todo'[p] = ops
      /\ \A q \in Procs : q # p => todo'[q] = todo[q]
  BY <1>1 DEF Only, Plan
<1> HIDE DEF s, h, T
<1>5. \A q \in Procs : Tidy(todo'[q])
  BY <1>1, <1>4 DEF Plan
<1>6. /\ Pending(p) = {<<op, V(p)>>} \union T
      /\ \A b \in T : Before(<<op, V(p)>>, b)
      /\ T \in SUBSET KindSet
  BY <1>2, <1>3 DEF Pending, s
<1>7. /\ \A q \in Procs : q # p => Kinds(todo'[q]) = Kinds(todo[q])
      /\ Kinds(todo'[p]) = A
  BY <1>4 DEF Plan
<1> QED BY <1>2, <1>3, <1>4, <1>5, <1>6, <1>7 DEF Pending, Turn

\* Conjuncts of the invariant after a step of p, from what p does to its own plan and
\* pointers and to the inodes that the others hold.
LEMMA OrderedStep ==
  ASSUME FsInv, NEW p \in Procs, Turn(p), \A q \in Procs : q # p => call'[q] = call[q],
         Linked(Pending(p)', call'[p])
  PROVE  Ordered'
<1>1. \A q \in Procs : Linked(Pending(q)', call'[q])
  BY DEF FsInv, Ordered, Turn
<1> QED BY <1>1 DEF Ordered, Turn

LEMMA KeepingStep ==
  ASSUME FsInv, NEW p \in Procs,
         \A q \in Procs : q # p => Pending(q)' = Pending(q) /\ ptr'[q] = ptr[q],
         \A q \in Procs, v \in Ptrs :
           q # p /\ ptr[q][v] \in Inums /\ itable[ptr[q][v]].lock = q => itable'[ptr[q][v]].lock = q,
         \A q \in Procs, v \in Ptrs :
           q # p /\ FirmAt(Pending(q), v) /\ ptr[q][v] \in Inums =>
             /\ itable'[ptr[q][v]].valid
             /\ \A w \in Ptrs : FreedAt(Pending(p)', w) => ptr[q][v] # ptr'[p][w],
         \A v \in Ptrs : LockedAt(Pending(p)', v) /\ ptr'[p][v] \in Inums => itable'[ptr'[p][v]].lock = p,
         \A v, w \in Ptrs : LockedAt(Pending(p)', v) /\ LockedAt(Pending(p)', w) /\ v # w
                            /\ ptr'[p][v] \in Inums => ptr'[p][v] # ptr'[p][w],
         \A v \in Ptrs : FirmAt(Pending(p)', v) /\ ptr'[p][v] \in Inums =>
           /\ itable'[ptr'[p][v]].valid
           /\ \A w \in Ptrs : FreedAt(Pending(p)', w) => ptr'[p][v] # ptr'[p][w]
           /\ \A q \in Procs, w \in Ptrs : q # p /\ FreedAt(Pending(q), w) => ptr'[p][v] # ptr[q][w]
  PROVE  Keeping'
<1>1. LocksHeld'
  <2> SUFFICES ASSUME NEW q \in Procs, NEW v \in Ptrs, LockedAt(Pending(q)', v), ptr'[q][v] \in Inums
               PROVE  itable'[ptr'[q][v]].lock = q
    BY DEF LocksHeld
  <2>1. CASE q = p
    BY <2>1
  <2>2. CASE q # p
    <3>1. LockedAt(Pending(q), v) /\ ptr'[q][v] = ptr[q][v]
      BY <2>2
    <3>2. itable[ptr[q][v]].lock = q
      BY <3>1 DEF FsInv, Keeping, LocksHeld
    <3> QED BY <3>1, <3>2, <2>2
  <2> QED BY <2>1, <2>2
<1>2. LocksApart'
  <2> SUFFICES ASSUME NEW q \in Procs, NEW v \in Ptrs, NEW w \in Ptrs, v # w,
                      LockedAt(Pending(q)', v), LockedAt(Pending(q)', w), ptr'[q][v] \in Inums
               PROVE  ptr'[q][v] # ptr'[q][w]
    BY DEF LocksApart
  <2>1. CASE q = p
    BY <2>1
  <2>2. CASE q # p
    BY <2>2 DEF FsInv, Keeping, LocksApart
  <2> QED BY <2>1, <2>2
<1>3. FirmValid'
  <2> SUFFICES ASSUME NEW q \in Procs, NEW v \in Ptrs, FirmAt(Pending(q)', v), ptr'[q][v] \in Inums
               PROVE  itable'[ptr'[q][v]].valid
    BY DEF FirmValid
  <2> QED OBVIOUS
<1>4. FirmKept'
  <2> SUFFICES ASSUME NEW q \in Procs, NEW r \in Procs, NEW v \in Ptrs, NEW w \in Ptrs,
                      FirmAt(Pending(q)', v), ptr'[q][v] \in Inums, FreedAt(Pending(r)', w)
               PROVE  ptr'[q][v] # ptr'[r][w]
    BY DEF FirmKept
  <2>1. CASE q # p /\ r # p
    BY <2>1 DEF FsInv, Keeping, FirmKept
  <2>2. CASE q = p \/ r = p
    BY <2>2
  <2> QED BY <2>1, <2>2
<1> QED BY <1>1, <1>2, <1>3, <1>4 DEF Keeping

LEMMA CachedStep ==
  ASSUME FsInv, NEW p \in Procs,
         \A q \in Procs : q # p => Pending(q)' = Pending(q) /\ ptr'[q] = ptr[q],
         \A q \in Procs, v \in Ptrs :
           q # p /\ ptr[q][v] \in Inums /\ itable[ptr[q][v]].lock = q => itable'[ptr[q][v]].lock = q,
         \A v \in Ptrs : <<"drop", v>> \in Pending(p) /\ ptr[p][v] \in Inums => ~itable'[ptr[p][v]].valid,
         \A j \in Inums : itable'[j].valid => Sound(j)' \/ Dropping(j) \/ Dropping(j)'
  PROVE  Cached'
<1> SUFFICES ASSUME NEW j \in Inums, Dropping(j), itable'[j].valid PROVE Dropping(j)'
  BY DEF Cached
<1>1. PICK q \in Procs, v \in Ptrs : itable[j].lock = q /\ ptr[q][v] = j /\ <<"drop", v>> \in Pending(q)
  BY DEF Dropping
<1>2. q # p
  BY <1>1
<1>3. itable'[j].lock = q /\ ptr'[q][v] = j /\ <<"drop", v>> \in Pending(q)'
  BY <1>1, <1>2
<1> QED BY <1>3 DEF Dropping

\* A pointer to a locked inode is u, which leads to i, or one that was so before.
Takes(p, i, o, u) ==
  \A v \in Ptrs : LockedAt(Pending(p)', v) /\ ptr'[p][v] \in Inums =>
    \/ v = u /\ ptr'[p][v] = i /\ o = p
    \/ LockedAt(Pending(p), v) /\ ptr'[p][v] = ptr[p][v]

\* What a step of p under the lock of i, which it takes, does to the table.
LEMMA Settle ==
  ASSUME FsInv, NEW p \in Procs, NEW i, Free(i), NEW o \in Procs \union {NoProc}, NEW u,
         \A q \in Procs : q # p => Pending(q)' = Pending(q) /\ ptr'[q] = ptr[q],
         \A v \in Ptrs : ~FreedAt(Pending(p), v) /\ ~FreedAt(Pending(p)', v),
         \A j \in Inums : j = i => itable'[j].lock = o /\ itable'[j].valid /\ Sound(j)',
         \A j \in Inums : j # i /\ itable[j].ref > 0 =>
           itable'[j].lock = itable[j].lock /\ (itable[j].valid => itable'[j].valid),
         \A j \in Inums : j # i /\ itable'[j].valid =>
           \/ Sound(j)'
           \/ itable[j].valid /\ itable'[j].node = itable[j].node /\ disk'[j] = disk[j]
           \/ itable[j].valid /\ disk[j].type = "none",
         Takes(p, i, o, u),
         \A v \in Ptrs : FirmAt(Pending(p)', v) /\ ptr'[p][v] \in Inums =>
           ptr'[p][v] = i \/ (FirmAt(Pending(p), v) /\ ptr'[p][v] = ptr[p][v])
  PROVE  Keeping' /\ Cached'
<1>1. \A q \in Procs, v \in Ptrs : ptr[q][v] \in Inums => itable[ptr[q][v]].ref > 0
  BY PtrRef DEF FsInv
<1>2. ASSUME NEW q \in Procs, NEW v \in Ptrs, ptr[q][v] \in Inums, itable[ptr[q][v]].lock = q
      PROVE  itable'[ptr[q][v]].lock = q /\ ptr[q][v] # i
  <2>1. ptr[q][v] # i
    BY <1>2, FsAssumption DEF Free
  <2> QED BY <2>1, <1>1, <1>2
<1>3. ASSUME NEW q \in Procs, NEW v \in Ptrs, FirmAt(Pending(q), v), ptr[q][v] \in Inums
      PROVE  itable'[ptr[q][v]].valid
  <2>1. itable[ptr[q][v]].valid
    BY <1>3 DEF FsInv, Keeping, FirmValid
  <2> QED BY <2>1, <1>1, <1>3
<1>4. ASSUME NEW v \in Ptrs, LockedAt(Pending(p), v), ptr[p][v] \in Inums
      PROVE  itable[ptr[p][v]].lock = p /\ ptr[p][v] # i
  <2>1. itable[ptr[p][v]].lock = p
    BY <1>4 DEF FsInv, Keeping, LocksHeld
  <2> QED BY <2>1, <1>2, <1>4
<1>a. \A v \in Ptrs : LockedAt(Pending(p)', v) /\ ptr'[p][v] \in Inums =>
        \/ v = u /\ ptr'[p][v] = i /\ o = p
        \/ LockedAt(Pending(p), v) /\ ptr'[p][v] = ptr[p][v]
  BY DEF Takes
<1>5. ASSUME NEW v \in Ptrs, LockedAt(Pending(p)', v), ptr'[p][v] \in Inums
      PROVE  itable'[ptr'[p][v]].lock = p
  BY <1>2, <1>4, <1>5, <1>a
<1>6. ASSUME NEW v \in Ptrs, NEW w \in Ptrs, LockedAt(Pending(p)', v), LockedAt(Pending(p)', w), v # w,
             ptr'[p][v] \in Inums, ptr'[p][v] = ptr'[p][w]
      PROVE  FALSE
  <2>1. CASE ptr'[p][v] = i
    <3>1. v = u
      BY <1>4, <1>6, <1>a, <2>1
    <3>2. w = u
      BY <1>4, <1>6, <1>a, <2>1
    <3> QED BY <3>1, <3>2, <1>6
  <2>2. CASE ptr'[p][v] # i
    BY <1>6, <1>a, <2>2 DEF FsInv, Keeping, LocksApart
  <2> QED BY <2>1, <2>2
<1>7. ASSUME NEW v \in Ptrs, FirmAt(Pending(p)', v), ptr'[p][v] \in Inums
      PROVE  /\ itable'[ptr'[p][v]].valid
             /\ \A q \in Procs, w \in Ptrs : q # p /\ FreedAt(Pending(q), w) => ptr'[p][v] # ptr[q][w]
  <2>1. CASE ptr'[p][v] = i
    <3>1. i \in Inums
      BY <1>7, <2>1
    <3> QED BY <2>1, <3>1, FreeNobody
  <2>2. CASE FirmAt(Pending(p), v) /\ ptr'[p][v] = ptr[p][v]
    <3>1. \A q \in Procs, w \in Ptrs : FreedAt(Pending(q), w) => ptr[p][v] # ptr[q][w]
      BY <1>7, <2>2 DEF FsInv, Keeping, FirmKept
    <3> QED BY <1>3, <1>7, <2>2, <3>1
  <2> QED BY <1>7, <2>1, <2>2
<1>8. Keeping'
  BY <1>2, <1>3, <1>5, <1>6, <1>7, KeepingStep
<1>9. ASSUME NEW j \in Inums, itable'[j].valid PROVE Sound(j)' \/ Dropping(j)
  <2>1. itable[j].valid => Sound(j) \/ Dropping(j)
    BY DEF FsInv, Cached
  <2>2. CASE j = i
    BY <2>2
  <2>3. CASE j # i
    BY <2>1, <2>3, <1>9 DEF Sound
  <2> QED BY <2>2, <2>3
<1>10. \A v \in Ptrs : <<"drop", v>> \notin Pending(p)
  BY DEF FreedAt
<1>11. Cached'
  BY <1>2, <1>9, <1>10, CachedStep
<1> QED BY <1>8, <1>11

LEMMA ClearStep ==
  ASSUME FsInv, NEW p \in Procs,
         \A q \in Procs : q # p => Pending(q)' = Pending(q) /\ ptr'[q] = ptr[q],
         \A v \in Ptrs : ~UsedAt(Pending(p)', v) => ptr'[p][v] \notin Inums
  PROVE  Clear'
<1> SUFFICES ASSUME NEW q \in Procs, NEW v \in Ptrs, ~UsedAt(Pending(q)', v)
             PROVE  ptr'[q][v] \notin Inums
  BY DEF Clear
<1>1. CASE q = p
  BY <1>1
<1>2. CASE q # p
  BY <1>2 DEF FsInv, Clear
<1> QED BY <1>1, <1>2

\* References: no pointer changes; one does; one moves and is replaced.
LEMMA GripAt == /\ DOMAIN Grip = Procs \X Cells
                /\ \A q \in Procs, c \in Cells : Grip[<<q, c>>] = Held(q, c)
                /\ \A h \in Procs \X Cells : h[1] \in Procs /\ h[2] \in Cells /\ h = <<h[1], h[2]>>
BY DEF Grip

\* References after a step that moves none, that moves one, and that moves p's
\* reference of cell c to d and takes another one in c.
LEMMA RefsSame ==
  ASSUME RefsExact, \A q \in Procs, c \in Cells : Held(q, c)' = Held(q, c),
         \A j \in Inums : itable'[j].ref = itable[j].ref
  PROVE  RefsExact'
<1>1. Grip' = Grip
  <2>1. \A h \in Procs \X Cells : Held(h[1], h[2])' = Held(h[1], h[2])
    BY GripAt
  <2> QED BY <2>1 DEF Grip
<1>2. \A j \in Inums : Count(Grip', j) = Count(Grip, j)
  BY <1>1
<1> QED BY <1>2 DEF RefsExact

LEMMA RefsOne ==
  ASSUME RefsExact, NEW p \in Procs, NEW c \in Cells,
         \A q \in Procs, d \in Cells : ~(q = p /\ d = c) => Held(q, d)' = Held(q, d),
         \A j \in Inums :
           /\ itable[j].ref \in Nat
           /\ Held(p, c) # j /\ Held(p, c)' # j => itable'[j].ref = itable[j].ref
           /\ Held(p, c) = j /\ Held(p, c)' = j => itable'[j].ref = itable[j].ref
           /\ Held(p, c) # j /\ Held(p, c)' = j => itable'[j].ref = itable[j].ref + 1
           /\ Held(p, c) = j /\ Held(p, c)' # j => itable'[j].ref = itable[j].ref - 1
  PROVE  RefsExact'
<1> DEFINE F == Grip
           G == Grip'
           e == <<p, c>>
<1>1. DOMAIN F = Procs \X Cells /\ DOMAIN G = Procs \X Cells /\ e \in Procs \X Cells
      /\ F[e] = Held(p, c) /\ G[e] = Held(p, c)'
  BY DEF Grip
<1>2. \A h \in Procs \X Cells : h # e => G[h] = F[h]
  <2> SUFFICES ASSUME NEW h \in Procs \X Cells, h # e PROVE G[h] = F[h]
    OBVIOUS
  <2>1. h[1] \in Procs /\ h[2] \in Cells /\ ~(h[1] = p /\ h[2] = c)
    BY GripAt
  <2>2. Held(h[1], h[2])' = Held(h[1], h[2])
    BY <2>1
  <2> QED BY <2>2 DEF Grip
<1> HIDE DEF F, G, e
<1>3. ASSUME NEW j \in Inums PROVE Count(G, j) = itable'[j].ref
  <2>1. /\ Count(F, j) \in Nat /\ Count(G, j) \in Nat
        /\ F[e] # j /\ G[e] # j => Count(G, j) = Count(F, j)
        /\ F[e] = j /\ G[e] = j => Count(G, j) = Count(F, j)
        /\ F[e] # j /\ G[e] = j => Count(G, j) = Count(F, j) + 1
        /\ F[e] = j /\ G[e] # j => Count(F, j) = Count(G, j) + 1
    BY <1>1, <1>2, CellsFinite, CountOne
  <2>2. Count(F, j) = itable[j].ref
    BY DEF RefsExact, F
  <2> QED BY <1>1, <2>1, <2>2
<1> QED BY <1>3 DEF RefsExact, G

LEMMA RefsTwo ==
  ASSUME RefsExact, NEW p \in Procs, NEW c \in Cells, NEW d \in Cells, c # d,
         \A q \in Procs, e \in Cells : ~(q = p /\ e \in {c, d}) =>
           Held(q, e)' = Held(q, e) \/ (Held(q, e) \notin Inums /\ Held(q, e)' \notin Inums),
         Held(p, d) \notin Inums, Held(p, d)' = Held(p, c),
         \A j \in Inums :
           /\ itable[j].ref \in Nat
           /\ Held(p, c)' = j => itable'[j].ref = itable[j].ref + 1
           /\ Held(p, c)' # j => itable'[j].ref = itable[j].ref
  PROVE  RefsExact'
<1> DEFINE F == Grip
           G == Grip'
           a == <<p, c>>
           b == <<p, d>>
<1>1. /\ DOMAIN F = Procs \X Cells /\ DOMAIN G = Procs \X Cells
      /\ a \in Procs \X Cells /\ b \in Procs \X Cells /\ a # b
      /\ F[a] = Held(p, c) /\ G[a] = Held(p, c)' /\ F[b] = Held(p, d) /\ G[b] = Held(p, d)'
  BY DEF Grip
<1>2. ASSUME NEW j \in Inums, NEW h \in Procs \X Cells, h # a, h # b PROVE G[h] = j <=> F[h] = j
  <2>1. h[1] \in Procs /\ h[2] \in Cells /\ ~(h[1] = p /\ h[2] \in {c, d})
    BY <1>2, GripAt
  <2>2. \/ Held(h[1], h[2])' = Held(h[1], h[2])
        \/ Held(h[1], h[2]) \notin Inums /\ Held(h[1], h[2])' \notin Inums
    BY <2>1
  <2>3. F[h] = Held(h[1], h[2]) /\ G[h] = Held(h[1], h[2])'
    BY DEF Grip
  <2> QED BY <2>2, <2>3
<1> HIDE DEF F, G, a, b
<1>3. ASSUME NEW j \in Inums PROVE Count(G, j) = itable'[j].ref
  <2>1. F[b] # j /\ (F[a] = j <=> G[b] = j)
    BY <1>1
  <2>2. PICK n \in Nat : (G[a] = j => n = 1) /\ (G[a] # j => n = 0)
    <3>1. CASE G[a] = j
      BY <3>1
    <3>2. CASE G[a] # j
      BY <3>2
    <3> QED BY <3>1, <3>2
  <2>3. Count(G, j) = Count(F, j) + n
    BY <1>1, <1>2, <2>1, <2>2, CellsFinite, CountMove
  <2>4. Count(F, j) = itable[j].ref
    BY DEF RefsExact, F
  <2> QED BY <1>1, <2>2, <2>3, <2>4
<1> QED BY <1>3 DEF RefsExact, G

\* One pointer of p set.
LEMMA PtrSet ==
  ASSUME FsTypes, NEW p \in Procs, NEW v \in Ptrs, NEW n, ptr' = [ptr EXCEPT ![p][v] = n]
  PROVE  /\ DOMAIN ptr' = Procs /\ \A q \in Procs : DOMAIN ptr'[q] = Ptrs
         /\ ptr'[p][v] = n /\ \A w \in Ptrs : w # v => ptr'[p][w] = ptr[p][w]
         /\ \A q \in Procs : q # p => ptr'[q] = ptr[q]
BY DEF FsTypes

\* A step that leaves p's pointers and the counts alone.
LEMMA RefsAlone ==
  ASSUME RefsExact, NEW p \in Procs,
         \A q \in Procs : q # p => Pending(q)' = Pending(q),
         <<"cwd", "ip">> \in Pending(p)' <=> <<"cwd", "ip">> \in Pending(p),
         ptr' = ptr, cwd' = cwd, fd' = fd,
         \A j \in Inums : itable'[j].ref = itable[j].ref
  PROVE  RefsExact'
<1>1. \A q \in Procs, c \in Cells : Held(q, c)' = Held(q, c)
  BY DEF Held
<1> QED BY <1>1, RefsSame

\* The last step that was planned.
LEMMA LastStep ==
  ASSUME FsInv, NEW p \in Procs, NEW op \in LastOps, At(p, op), NEW ops, NEW A, Plan(ops, A),
         Then(p, ops) \/ Only(p, ops)
  PROVE  /\ <<op, V(p)>> \in KindSet /\ Pending(p) = {<<op, V(p)>>}
         /\ Turn(p) /\ Pending(p)' = A
<1>0. \A b \in KindSet : ~Before(<<op, V(p)>>, b)
  BY DEF Before
<1>1. CASE Then(p, ops)
  <2>1. \A a \in A : \A b \in KindSet : Before(<<op, V(p)>>, b) => Before(a, b)
    BY <1>0
  <2>2. /\ <<op, V(p)>> \in KindSet /\ Turn(p)
        /\ \E T \in SUBSET KindSet :
             /\ Pending(p) = {<<op, V(p)>>} \union T
             /\ \A b \in T : Before(<<op, V(p)>>, b)
             /\ Pending(p)' = A \union T
    BY <1>1, <2>1, Proceed
  <2>3. PICK T \in SUBSET KindSet : /\ Pending(p) = {<<op, V(p)>>} \union T
                                    /\ \A b \in T : Before(<<op, V(p)>>, b)
                                    /\ Pending(p)' = A \union T
    BY <2>2
  <2>4. T = {}
    BY <1>0, <2>3
  <2> QED BY <2>2, <2>3, <2>4
<1>2. CASE Only(p, ops)
  <2>2. /\ <<op, V(p)>> \in KindSet /\ Turn(p) /\ Pending(p)' = A
        /\ \E T \in SUBSET KindSet :
             /\ Pending(p) = {<<op, V(p)>>} \union T
             /\ \A b \in T : Before(<<op, V(p)>>, b)
    BY <1>2, ProceedOnly
  <2>3. PICK T \in SUBSET KindSet : /\ Pending(p) = {<<op, V(p)>>} \union T
                                    /\ \A b \in T : Before(<<op, V(p)>>, b)
    BY <2>2
  <2>4. T = {}
    BY <1>0, <2>3
  <2> QED BY <2>2, <2>3, <2>4
<1> QED BY <1>1, <1>2

\* The plans that the actions make.
LEMMA PairItems == \A b \in KindSet : b \in Items /\ Kind(b) = b
<1> TAKE b \in KindSet
<1>1. b = <<b[1], b[2]>>
  BY DEF KindSet
<1> QED BY <1>1 DEF Items, Kind

LEMMA PlanNone == Plan(<<>>, {})
BY Kinds0 DEF Plan

LEMMA PlanOne == ASSUME NEW a \in KindSet PROVE Plan(<<a>>, {a})
BY PairItems, Kinds1 DEF Plan

LEMMA PlanTwo == ASSUME NEW a \in KindSet, NEW b \in KindSet, Before(a, b) PROVE Plan(<<a, b>>, {a, b})
BY PairItems, Kinds2 DEF Plan

\* The steps of iunlockput().
Unlocking(v) == {<<"unlock", v>>, <<"put", v>>}

LEMMA PlanUnlockPut == ASSUME NEW v \in Ptrs PROVE Plan(UnlockPut(v), Unlocking(v))
<1>1. <<"unlock", v>> \in KindSet /\ <<"put", v>> \in KindSet
  BY DEF KindSet, Puts
<1>2. Before(<<"unlock", v>>, <<"put", v>>)
  BY DEF Before, HeadOnly, LastOps, Puts
<1> QED BY <1>1, <1>2, PlanTwo DEF UnlockPut, Unlocking

\* Where what a step plans goes together.
LEMMA Follows ==
  /\ \A a \in Unlocking("ip") : \A b \in Unlocking("dp") : Before(a, b)
  /\ \A a \in Unlocking("dp") : \A b \in Unlocking("ip") : Before(a, b)
  /\ \A a \in {<<"nlink", "ip">>} : \A b \in Unlocking("ip") : Before(a, b)
  /\ \A op \in {"exists", "opened", "put", "link_bad", "nlink"} :
        \A a \in Unlocking("dp") : \A b \in {<<op, "ip">>} : Before(a, b)
  /\ \A a \in {<<"put", "x">>} : \A b \in Unlocking("dp") : Before(a, b)
  /\ \A a \in {<<"put", "x">>} : \A b \in {<<"link_bad", "ip">>} : Before(a, b)
  /\ \A a \in {<<"put", "dp">>} : \A b \in {<<"link_bad", "ip">>} : Before(a, b)
  /\ Before(<<"put", "x">>, <<"cwd", "ip">>)
BY DEF Before, HeadOnly, LastOps, Puts, AfterWalk, Unlocking

LEMMA PlanOf ==
  /\ \A op \in {"exists", "opened", "put", "link_bad", "nlink", "unlink_ip", "create_ip"} :
        <<op, "ip">> \in KindSet /\ Plan(<< <<op, "ip">> >>, {<<op, "ip">>})
  /\ \A v \in Ptrs : Plan(<< <<"put", v>> >>, {<<"put", v>>})
  /\ Plan(UnlockPut("ip") \o UnlockPut("dp"), Unlocking("ip") \union Unlocking("dp"))
  /\ Plan(UnlockPut("dp") \o UnlockPut("ip"), Unlocking("dp") \union Unlocking("ip"))
  /\ Plan(<< <<"nlink", "ip">> >> \o UnlockPut("ip"), {<<"nlink", "ip">>} \union Unlocking("ip"))
  /\ Plan(UnlockPut("dp") \o << <<"nlink", "ip">> >> \o UnlockPut("ip"),
          (Unlocking("dp") \union {<<"nlink", "ip">>}) \union Unlocking("ip"))
  /\ \A op \in {"exists", "opened", "put", "link_bad"} :
        Plan(UnlockPut("dp") \o << <<op, "ip">> >>, Unlocking("dp") \union {<<op, "ip">>})
  /\ Plan(<< <<"put", "x">> >> \o UnlockPut("dp") \o << <<"link_bad", "ip">> >>,
          ({<<"put", "x">>} \union Unlocking("dp")) \union {<<"link_bad", "ip">>})
  /\ Plan(<< <<"put", "dp">> >> \o << <<"link_bad", "ip">> >>, {<<"put", "dp">>} \union {<<"link_bad", "ip">>})
  /\ Plan(<< <<"put", "x">>, <<"cwd", "ip">> >>, {<<"put", "x">>, <<"cwd", "ip">>})
<1>1. \A op \in {"exists", "opened", "put", "link_bad", "nlink", "unlink_ip", "create_ip"} :
        <<op, "ip">> \in KindSet
  BY DEF KindSet, Puts, OnIp, Ptrs
<1>2. \A v \in Ptrs : <<"put", v>> \in KindSet
  BY DEF KindSet, Puts
<1>3. \A op \in {"exists", "opened", "put", "link_bad", "nlink", "unlink_ip", "create_ip"} :
        Plan(<< <<op, "ip">> >>, {<<op, "ip">>})
  BY <1>1, PlanOne
<1>4. \A v \in Ptrs : Plan(<< <<"put", v>> >>, {<<"put", v>>})
  BY <1>2, PlanOne
<1>5. Plan(UnlockPut("ip"), Unlocking("ip")) /\ Plan(UnlockPut("dp"), Unlocking("dp"))
  BY PlanUnlockPut DEF Ptrs
<1>6. Plan(UnlockPut("ip") \o UnlockPut("dp"), Unlocking("ip") \union Unlocking("dp"))
  BY <1>5, Follows, PlanConcat
<1>7. Plan(UnlockPut("dp") \o UnlockPut("ip"), Unlocking("dp") \union Unlocking("ip"))
  BY <1>5, Follows, PlanConcat
<1>8. Plan(<< <<"nlink", "ip">> >> \o UnlockPut("ip"), {<<"nlink", "ip">>} \union Unlocking("ip"))
  <2>1. Plan(<< <<"nlink", "ip">> >>, {<<"nlink", "ip">>})
    BY <1>3
  <2> QED BY <2>1, <1>5, Follows, PlanConcat
<1>9. ASSUME NEW op \in {"exists", "opened", "put", "link_bad", "nlink"}
      PROVE  Plan(UnlockPut("dp") \o << <<op, "ip">> >>, Unlocking("dp") \union {<<op, "ip">>})
  <2>1. Plan(<< <<op, "ip">> >>, {<<op, "ip">>})
    BY <1>3
  <2>2. \A a \in Unlocking("dp") : \A b \in {<<op, "ip">>} : Before(a, b)
    BY Follows
  <2> QED BY <2>1, <2>2, <1>5, PlanConcat
<1>10. Plan(UnlockPut("dp") \o << <<"nlink", "ip">> >> \o UnlockPut("ip"),
            (Unlocking("dp") \union {<<"nlink", "ip">>}) \union Unlocking("ip"))
  <2>1. \A a \in Unlocking("dp") \union {<<"nlink", "ip">>} : \A b \in Unlocking("ip") : Before(a, b)
    BY Follows
  <2>2. Plan(UnlockPut("dp") \o << <<"nlink", "ip">> >>, Unlocking("dp") \union {<<"nlink", "ip">>})
    BY <1>9
  <2> QED BY <2>1, <2>2, <1>5, PlanConcat
<1>11. Plan(<< <<"put", "x">> >> \o UnlockPut("dp") \o << <<"link_bad", "ip">> >>,
            ({<<"put", "x">>} \union Unlocking("dp")) \union {<<"link_bad", "ip">>})
  <2>1. Plan(<< <<"put", "x">> >>, {<<"put", "x">>}) /\ Plan(<< <<"link_bad", "ip">> >>, {<<"link_bad", "ip">>})
    BY <1>3, <1>4 DEF Ptrs
  <2>2. Plan(<< <<"put", "x">> >> \o UnlockPut("dp"), {<<"put", "x">>} \union Unlocking("dp"))
    BY <2>1, <1>5, Follows, PlanConcat
  <2>3. \A a \in Unlocking("dp") : \A b \in {<<"link_bad", "ip">>} : Before(a, b)
    BY Follows
  <2>4. \A a \in {<<"put", "x">>} \union Unlocking("dp") : \A b \in {<<"link_bad", "ip">>} : Before(a, b)
    BY <2>3, Follows
  <2> QED BY <2>1, <2>2, <2>4, PlanConcat
<1>12. Plan(<< <<"put", "dp">> >> \o << <<"link_bad", "ip">> >>, {<<"put", "dp">>} \union {<<"link_bad", "ip">>})
  <2>1. Plan(<< <<"put", "dp">> >>, {<<"put", "dp">>}) /\ Plan(<< <<"link_bad", "ip">> >>, {<<"link_bad", "ip">>})
    BY <1>3, <1>4 DEF Ptrs
  <2> QED BY <2>1, Follows, PlanConcat
<1>13. Plan(<< <<"put", "x">>, <<"cwd", "ip">> >>, {<<"put", "x">>, <<"cwd", "ip">>})
  <2>1. <<"put", "x">> \in KindSet /\ <<"cwd", "ip">> \in KindSet
    BY DEF KindSet, Puts, OnIp, Ptrs
  <2> QED BY <2>1, Follows, PlanTwo
<1> QED BY <1>1, <1>3, <1>4, <1>6, <1>7, <1>8, <1>9, <1>10, <1>11, <1>12, <1>13

\* What a path that leads nowhere leaves to do.
Backed(c, v) == {<<"put", v>>} \union (IF c.op = "link" /\ v = "dp" THEN {<<"link_bad", "ip">>} ELSE {})

\* The way back when a path leads nowhere.
LEMMA PlanNowhere ==
  ASSUME NEW p, V(p) \in {"ip", "dp"}, Nowhere(p)
  PROVE  \E ops : Plan(ops, Backed(call[p], V(p))) /\ Only(p, ops)
<1>1. Plan(<< <<"put", V(p)>> >>, {<<"put", V(p)>>})
  BY PlanOf DEF Ptrs
<1>2. CASE call[p].op = "link" /\ V(p) = "dp"
  <2>1. Plan(<< <<"put", V(p)>> >> \o << <<"link_bad", "ip">> >>, {<<"put", V(p)>>} \union {<<"link_bad", "ip">>})
    BY <1>2, PlanOf
  <2>2. Only(p, << <<"put", V(p)>> >> \o << <<"link_bad", "ip">> >>)
    BY <1>2 DEF Nowhere
  <2> QED BY <2>1, <2>2, <1>2 DEF Backed
<1>3. CASE ~(call[p].op = "link" /\ V(p) = "dp")
  <2>1. Plan(<< <<"put", V(p)>> >> \o <<>>, {<<"put", V(p)>>} \union {})
    BY <1>1, PlanNone, PlanConcat
  <2>2. Only(p, << <<"put", V(p)>> >> \o <<>>)
    BY <1>3 DEF Nowhere
  <2> QED BY <2>1, <2>2, <1>3 DEF Backed
<1> QED BY <1>2, <1>3

-----------------------------------------------------------------------------
(* A step of p under the lock of i, which it takes and leaves with o.      *)

\* What a step of p does to the pointers.
Points(p) ==
  DOMAIN ptr' = Procs /\ DOMAIN ptr'[p] = Ptrs /\ \A q \in Procs : q # p => ptr'[q] = ptr[q]

\* What it does to the table and to the disk.
TableMove(i, o) ==
  /\ IsTable(itable') /\ IsDisk(disk')
  /\ \A j \in Inums : j = i => itable'[j].lock = o /\ itable'[j].valid /\ Sound(j)'
  /\ \A j \in Inums : j # i /\ itable[j].ref > 0 =>
       itable'[j].lock = itable[j].lock /\ (itable[j].valid => itable'[j].valid)
  /\ \A j \in Inums : j # i /\ itable'[j].valid =>
       \/ Sound(j)'
       \/ itable[j].valid /\ itable'[j].node = itable[j].node /\ disk'[j] = disk[j]
       \/ itable[j].valid /\ disk[j].type = "none"

\* What it does to its plan, K and then L, and its pointers, P and then Q.  It leaves
\* the lock to its pointer u, if that is one.
PlanMove(K, L, P, Q, c, i, u) ==
  /\ Linked(L, c)
  /\ \A v \in Ptrs : ~UsedAt(L, v) => Q[v] \notin Inums
  /\ \A v \in Ptrs : ~FreedAt(K, v) /\ ~FreedAt(L, v)
  /\ \A v \in Ptrs : LockedAt(L, v) /\ Q[v] \in Inums =>
       (v = u /\ Q[v] = i) \/ (LockedAt(K, v) /\ Q[v] = P[v])
  /\ \A v \in Ptrs : FirmAt(L, v) /\ Q[v] \in Inums =>
       Q[v] = i \/ (FirmAt(K, v) /\ Q[v] = P[v])

\* The step of p that works under the lock of inode i keeps the invariant.
LEMMA LockStep ==
  ASSUME FsInv, NEW p \in Procs, NEW i, Free(i), NEW o \in Procs \union {NoProc}, NEW u,
         u \in Ptrs => o = p,
         UNCHANGED <<cwd, fd, work, rest, call>>, Turn(p), Points(p), RefsExact', TableMove(i, o),
         PlanMove(Pending(p), Pending(p)', ptr[p], ptr'[p], call[p], i, u)
  PROVE  FsInv'
<1>0. cwd' = cwd /\ fd' = fd /\ work' = work /\ rest' = rest /\ call' = call
  OBVIOUS
<1>1. \A q \in Procs : q # p => Pending(q)' = Pending(q) /\ ptr'[q] = ptr[q]
  BY DEF Turn, Points
<1>2. PICK K, L, P, Q, c : /\ K = Pending(p) /\ L = Pending(p)' /\ P = ptr[p] /\ Q = ptr'[p] /\ c = call[p]
                           /\ PlanMove(K, L, P, Q, c, i, u)
  OBVIOUS
<1>3. /\ Linked(L, c)
      /\ \A v \in Ptrs : ~UsedAt(L, v) => Q[v] \notin Inums
      /\ \A v \in Ptrs : ~FreedAt(K, v) /\ ~FreedAt(L, v)
      /\ \A v \in Ptrs : LockedAt(L, v) /\ Q[v] \in Inums =>
           (v = u /\ Q[v] = i) \/ (LockedAt(K, v) /\ Q[v] = P[v])
      /\ \A v \in Ptrs : FirmAt(L, v) /\ Q[v] \in Inums =>
           Q[v] = i \/ (FirmAt(K, v) /\ Q[v] = P[v])
  BY <1>2 DEF PlanMove
<1>4. Linked(Pending(p)', call'[p])
  BY <1>0, <1>2, <1>3
<1>5. \A v \in Ptrs : ~UsedAt(Pending(p)', v) => ptr'[p][v] \notin Inums
  BY <1>2, <1>3
<1>6. \A v \in Ptrs : ~FreedAt(Pending(p), v) /\ ~FreedAt(Pending(p)', v)
  BY <1>2, <1>3
<1>7. Takes(p, i, o, u)
  BY <1>2, <1>3 DEF Takes
<1>8. \A v \in Ptrs : FirmAt(Pending(p)', v) /\ ptr'[p][v] \in Inums =>
           ptr'[p][v] = i \/ (FirmAt(Pending(p), v) /\ ptr'[p][v] = ptr[p][v])
  BY <1>2, <1>3
<1>9. /\ IsTable(itable') /\ IsDisk(disk')
      /\ \A j \in Inums : j = i => itable'[j].lock = o /\ itable'[j].valid /\ Sound(j)'
      /\ \A j \in Inums : j # i /\ itable[j].ref > 0 =>
           itable'[j].lock = itable[j].lock /\ (itable[j].valid => itable'[j].valid)
      /\ \A j \in Inums : j # i /\ itable'[j].valid =>
           \/ Sound(j)'
           \/ itable[j].valid /\ itable'[j].node = itable[j].node /\ disk'[j] = disk[j]
           \/ itable[j].valid /\ disk[j].type = "none"
  BY DEF TableMove
<1>11. Keeping' /\ Cached'
  BY <1>1, <1>6, <1>7, <1>8, <1>9, Settle
<1>12. Clear'
  BY <1>1, <1>5, ClearStep
<1>13. \A q \in Procs : q # p => call'[q] = call[q]
  BY <1>0
<1>14. Ordered'
  BY <1>4, <1>13, OrderedStep
<1>15. FsTypes'
  BY <1>0, <1>1, <1>9 DEF FsInv, FsTypes, Points
<1> QED BY <1>11, <1>12, <1>14, <1>15 DEF FsInv

\* The lock alone.
LEMMA TableLock ==
  ASSUME FsInv, NEW i, Free(i), NEW o \in Procs \union {NoProc}, i \in Inums => Node(i).type # "none",
         itable' = ilock(o, i), disk' = disk
  PROVE  TableMove(i, o) /\ \A j \in Inums : itable'[j].ref = itable[j].ref
<1>1. IsTable(itable) /\ IsDisk(disk)
  BY DEF FsInv, FsTypes
<1>2. /\ IsTable(itable') /\ \A j \in Inums : j # i => itable'[j] = itable[j]
      /\ i \in Inums => /\ itable'[i].ref = itable[i].ref /\ itable'[i].valid
                        /\ itable'[i].lock = o /\ itable'[i].node = disk[i]
                        /\ disk[i].type # "none"
  BY <1>1, ilockAt, NodeOnDisk
<1>3. \A j \in Inums : j = i => itable'[j].lock = o /\ itable'[j].valid /\ Sound(j)'
  BY <1>2 DEF Sound
<1> QED BY <1>1, <1>2, <1>3 DEF TableMove

\* The lock, and a reference to n.
LEMMA TableGet ==
  ASSUME FsInv, NEW i, Free(i), NEW o \in Procs \union {NoProc}, i \in Inums => Node(i).type # "none",
         i \in Inums => itable[i].ref > 0, NEW n,
         itable' = iget(ilock(o, i), n), disk' = disk
  PROVE  /\ TableMove(i, o)
         /\ \A j \in Inums : /\ itable[j].ref \in Nat
                             /\ j = n => itable'[j].ref = itable[j].ref + 1
                             /\ j # n => itable'[j].ref = itable[j].ref
<1>1. IsTable(itable) /\ IsDisk(disk)
  BY DEF FsInv, FsTypes
<1> DEFINE t == ilock(o, i)
<1>2. /\ IsTable(t) /\ \A j \in Inums : j # i => t[j] = itable[j]
      /\ i \in Inums => /\ t[i].ref = itable[i].ref /\ t[i].valid
                        /\ t[i].lock = o /\ t[i].node = disk[i]
                        /\ disk[i].type # "none"
  BY <1>1, ilockAt, NodeOnDisk
<1>3. itable' = iget(t, n)
  OBVIOUS
<1> HIDE DEF t
<1>4. Got(t, itable', n)
  <2>1. IsTable(t)
    BY <1>2
  <2> QED BY <1>3, <2>1, igetAt
<1>5. \A j \in Inums : itable[j].ref \in Nat
  BY <1>1 DEF IsTable, IsEntry
<1>6. \A j \in Inums : j = i => itable'[j].lock = o /\ itable'[j].valid /\ itable'[j].node = disk[j] /\ disk[j].type # "none"
  BY <1>2, <1>4 DEF Got
<1>7. \A j \in Inums : j # i /\ itable[j].ref > 0 =>
        /\ itable'[j].lock = itable[j].lock /\ (itable[j].valid => itable'[j].valid)
  BY <1>2, <1>4 DEF Got
<1>8. \A j \in Inums : j # i /\ itable'[j].valid => itable[j].valid /\ itable'[j].node = itable[j].node
  BY <1>2, <1>4 DEF Got
<1>9. \A j \in Inums : j = i => itable'[j].lock = o /\ itable'[j].valid /\ Sound(j)'
  BY <1>6 DEF Sound
<1>10. TableMove(i, o)
  <2>1. IsTable(itable')
    BY <1>4 DEF Got
  <2> QED BY <1>1, <2>1, <1>7, <1>8, <1>9 DEF TableMove
<1>11. \A j \in Inums : /\ j = n => itable'[j].ref = itable[j].ref + 1
                        /\ j # n => itable'[j].ref = itable[j].ref
  BY <1>2, <1>4 DEF Got
<1> QED BY <1>5, <1>10, <1>11

\* A free pointer of p becomes one to n.
LEMMA RefsGain ==
  ASSUME FsTypes, RefsExact, NEW p \in Procs, NEW v \in Ptrs, NEW n, ptr[p][v] \notin Inums,
         ptr'[p][v] = n, \A w \in Ptrs : w # v => ptr'[p][w] = ptr[p][w],
         \A q \in Procs : q # p => Pending(q)' = Pending(q) /\ ptr'[q] = ptr[q],
         <<"cwd", "ip">> \in Pending(p)' <=> <<"cwd", "ip">> \in Pending(p),
         cwd' = cwd, fd' = fd,
         \A j \in Inums : /\ itable[j].ref \in Nat
                          /\ j = n => itable'[j].ref = itable[j].ref + 1
                          /\ j # n => itable'[j].ref = itable[j].ref
  PROVE  RefsExact'
<1>1. v \in Cells /\ Held(p, v) = ptr[p][v] /\ Held(p, v)' = n
  BY DEF Held, Ptrs, Cells
<1>2. \A q \in Procs, d \in Cells : q # p => Held(q, d)' = Held(q, d)
  BY DEF Held
<1>3. \A d \in Cells : d # v => Held(p, d)' = Held(p, d)
  BY DEF Held, Cells
<1>4. \A q \in Procs, d \in Cells : ~(q = p /\ d = v) => Held(q, d)' = Held(q, d)
  BY <1>2, <1>3
<1>5. \A j \in Inums :
           /\ itable[j].ref \in Nat
           /\ Held(p, v) # j /\ Held(p, v)' # j => itable'[j].ref = itable[j].ref
           /\ Held(p, v) = j /\ Held(p, v)' = j => itable'[j].ref = itable[j].ref
           /\ Held(p, v) # j /\ Held(p, v)' = j => itable'[j].ref = itable[j].ref + 1
           /\ Held(p, v) = j /\ Held(p, v)' # j => itable'[j].ref = itable[j].ref - 1
  BY <1>1
<1> QED BY <1>1, <1>4, <1>5, RefsOne

\* The step p is at is pending.
LEMMA HeadKind ==
  ASSUME FsInv, NEW p \in Procs, NEW op, At(p, op)
  PROVE  <<op, V(p)>> \in KindSet /\ <<op, V(p)>> \in Pending(p)
<1> DEFINE s == todo[p]
<1>1. s \in Seq(Items) /\ s # <<>> /\ Head(s)[1] = op
  BY IsAt DEF FsInv, Ordered
<1>2. Kind(Head(s)) \in Kinds(s) /\ Kinds(s) \subseteq KindSet
  BY <1>1, TailKinds
<1>3. Kind(Head(s)) = <<op, V(p)>>
  BY <1>1 DEF Kind, V
<1> QED BY <1>2, <1>3 DEF Pending

\* What is left after the head of a walk.
LEMMA AfterParent ==
  ASSUME NEW T \in SUBSET KindSet, NEW v, \A b \in T : Before(<<"parent", v>>, b), <<"parent", v>> \in KindSet
  PROVE  v = "dp" /\ T \subseteq {<<"unlink_dp", "dp">>, <<"create_dp", "dp">>, <<"link_dp", "dp">>}
<1>1. v = "dp"
  BY DEF KindSet, OnDp, OnIp, Puts, Ptrs
<1>2. ASSUME NEW b \in T PROVE b \in {<<"unlink_dp", "dp">>, <<"create_dp", "dp">>, <<"link_dp", "dp">>}
  <2>1. b \in KindSet /\ b[2] = "dp" /\ b[1] \in AfterWalk \ {"walk", "parent"}
    BY <1>1 DEF Before
  <2> QED BY <2>1 DEF KindSet, OnDp, OnIp, Puts, Ptrs, AfterWalk
<1> QED BY <1>1, <1>2

\* What may follow a walk.
LEMMA AfterWalkKinds ==
  ASSUME NEW T \in SUBSET KindSet, NEW v, \A b \in T : Before(<<"walk", v>>, b), <<"walk", v>> \in KindSet
  PROVE  \/ /\ v = "dp" /\ T \subseteq {<<"walk", "dp">>, <<"parent", "dp">>, <<"unlink_dp", "dp">>,
                                         <<"create_dp", "dp">>, <<"link_dp", "dp">>}
         \/ /\ v = "ip" /\ T \subseteq {<<"walk", "ip">>, <<"open_ip", "ip">>, <<"link_ip", "ip">>,
                                         <<"chdir_ip", "ip">>}
<1>1. v \in {"ip", "dp"}
  BY DEF KindSet, OnDp, OnIp, Puts, Ptrs
<1>2. ASSUME NEW b \in T PROVE b \in KindSet /\ b[2] = v /\ b[1] \in AfterWalk
  BY DEF Before
<1>3. ASSUME v = "dp", NEW b \in T
      PROVE  b \in {<<"walk", "dp">>, <<"parent", "dp">>, <<"unlink_dp", "dp">>,
                    <<"create_dp", "dp">>, <<"link_dp", "dp">>}
  BY <1>2, <1>3 DEF KindSet, OnDp, OnIp, Puts, Ptrs, AfterWalk
<1>4. ASSUME v = "ip", NEW b \in T
      PROVE  b \in {<<"walk", "ip">>, <<"open_ip", "ip">>, <<"link_ip", "ip">>, <<"chdir_ip", "ip">>}
  BY <1>2, <1>4 DEF KindSet, OnDp, OnIp, Puts, Ptrs, AfterWalk
<1> QED BY <1>1, <1>3, <1>4

\* nameiparent(): the last directory of a path, and namex(): one element of it.
LEMMA ParentStep ==
  ASSUME FsInv, NEW p \in Procs, Parent(p) PROVE FsInv'
<1> DEFINE i == I(p)
<1>1. /\ At(p, "parent") /\ Free(i) /\ Node(i).type # "none"
      /\ itable' = ilock(NoProc, i)
      /\ UNCHANGED <<fsVars, others, ptr, history>>
  BY DEF Parent
<1>2. FsTypes /\ RefsExact /\ Linked(Pending(p), call[p])
  BY DEF FsInv, Ordered
<1>3. disk' = disk /\ cwd' = cwd /\ fd' = fd /\ work' = work /\ rest' = rest /\ call' = call /\ ptr' = ptr
  BY <1>1 DEF fsVars, others, progVars
<1>4. /\ Turn(p) /\ V(p) = "dp" /\ <<"parent", "dp">> \in Pending(p)
      /\ Pending(p) \subseteq {<<"parent", "dp">>, <<"unlink_dp", "dp">>, <<"create_dp", "dp">>, <<"link_dp", "dp">>}
      /\ Pending(p)' = Pending(p) \ {<<"parent", "dp">>} \/ Pending(p)' = Backed(call[p], "dp")
  <2>0. <<"parent", V(p)>> \in KindSet
    BY <1>1, HeadKind
  <2>1. CASE Then(p, <<>>)
    <3>2. /\ Turn(p)
          /\ \E T \in SUBSET KindSet :
               /\ Pending(p) = {<<"parent", V(p)>>} \union T
               /\ \A b \in T : Before(<<"parent", V(p)>>, b)
               /\ Pending(p)' = {} \union T
      BY <1>1, <2>1, PlanNone, Proceed
    <3>3. PICK T \in SUBSET KindSet : /\ Pending(p) = {<<"parent", V(p)>>} \union T
                                      /\ \A b \in T : Before(<<"parent", V(p)>>, b)
                                      /\ Pending(p)' = {} \union T
      BY <3>2
    <3>5. \A b \in T : Before(<<"parent", V(p)>>, b)
      BY <3>3
    <3>4. V(p) = "dp" /\ T \subseteq {<<"unlink_dp", "dp">>, <<"create_dp", "dp">>, <<"link_dp", "dp">>}
      BY <2>0, <3>5, AfterParent
    <3> QED BY <3>2, <3>3, <3>4
  <2>2. CASE Nowhere(p)
    <3>1. V(p) \in {"ip", "dp"}
      BY <2>0 DEF KindSet, OnDp, OnIp, Puts, Ptrs
    <3>2. PICK ops : Plan(ops, Backed(call[p], V(p))) /\ Only(p, ops)
      BY <2>2, <3>1, PlanNowhere
    <3>4. /\ Turn(p) /\ Pending(p)' = Backed(call[p], V(p))
          /\ \E T \in SUBSET KindSet :
               /\ Pending(p) = {<<"parent", V(p)>>} \union T
               /\ \A b \in T : Before(<<"parent", V(p)>>, b)
      BY <1>1, <3>2, ProceedOnly
    <3>5. PICK T \in SUBSET KindSet : /\ Pending(p) = {<<"parent", V(p)>>} \union T
                                      /\ \A b \in T : Before(<<"parent", V(p)>>, b)
      BY <3>4
    <3>6. V(p) = "dp" /\ T \subseteq {<<"unlink_dp", "dp">>, <<"create_dp", "dp">>, <<"link_dp", "dp">>}
      BY <2>0, <3>5, AfterParent
    <3> QED BY <3>4, <3>5, <3>6
  <2> QED BY <2>1, <2>2 DEF Parent
<1>5. TableMove(i, NoProc) /\ \A j \in Inums : itable'[j].ref = itable[j].ref
  BY <1>1, <1>3, TableLock
<1>6. RefsExact'
  <2>1. <<"cwd", "ip">> \in Pending(p)' <=> <<"cwd", "ip">> \in Pending(p)
    BY <1>4 DEF Backed
  <2> QED BY <1>2, <1>3, <1>4, <1>5, <2>1, RefsAlone DEF Turn
<1>7. PlanMove(Pending(p), Pending(p)', ptr[p], ptr'[p], call[p], i, "none")
  <2>1. PICK K, L, c : K = Pending(p) /\ L = Pending(p)' /\ c = call[p]
    OBVIOUS
  <2>2. Linked(L, c)
    BY <1>2, <1>4, <2>1 DEF Linked, Backed
  <2>3. \A v \in Ptrs : ~UsedAt(L, v) => ~UsedAt(K, v)
    BY <1>2, <1>4, <2>1 DEF UsedAt, Linked, Backed
  <2>4. \A v \in Ptrs : ~LockedAt(L, v) /\ ~FreedAt(K, v) /\ ~FreedAt(L, v)
    BY <1>4, <2>1 DEF LockedAt, FreedAt, Backed
  <2>5. \A v \in Ptrs : FirmAt(L, v) => v = "dp" \/ FirmAt(K, v)
    BY <1>2, <1>4, <2>1 DEF FirmAt, Linked, Backed
  <2>6. \A v \in Ptrs : ~UsedAt(K, v) => ptr[p][v] \notin Inums
    BY <2>1 DEF FsInv, Clear
  <2>7. ptr[p]["dp"] = i
    BY <1>4 DEF I
  <2> HIDE DEF i
  <2> QED BY <1>3, <2>1, <2>2, <2>3, <2>4, <2>5, <2>6, <2>7 DEF PlanMove
<1>8. Points(p)
  BY <1>2, <1>3 DEF FsTypes, Points
<1>9. "none" \notin Ptrs
  BY DEF Ptrs
<1> QED BY <1>1, <1>3, <1>4, <1>5, <1>6, <1>7, <1>8, <1>9, LockStep

LEMMA WalkStep ==
  ASSUME FsInv, NEW p \in Procs, Walk(p) PROVE FsInv'
<1> DEFINE i    == I(p)
           next == dirlookup(data[i], Head(todo[p])[3])
<1>1. /\ At(p, "walk") /\ Free(i) /\ Node(i).type # "none"
      /\ UNCHANGED <<fsVars, others, lost, slipped>>
      /\ \/ itable' = ilock(NoProc, i) /\ Nowhere(p) /\ ptr' = ptr
         \/ /\ itable' = iget(ilock(NoProc, i), next)
            /\ ptr'    = [ptr EXCEPT ![p].x = i, ![p][V(p)] = next]
            /\ Then(p, << <<"put", "x">> >>)
  BY DEF Walk
<1>2. FsTypes /\ RefsExact /\ Linked(Pending(p), call[p])
  BY DEF FsInv, Ordered
<1>3. disk' = disk /\ cwd' = cwd /\ fd' = fd /\ work' = work /\ rest' = rest /\ call' = call
  BY <1>1 DEF fsVars, others, progVars
<1>4. <<"walk", V(p)>> \in KindSet /\ <<"walk", V(p)>> \in Pending(p) /\ V(p) \in {"ip", "dp"}
  <2>1. <<"walk", V(p)>> \in KindSet /\ <<"walk", V(p)>> \in Pending(p)
    BY <1>1, HeadKind
  <2> QED BY <2>1 DEF KindSet, OnDp, OnIp, Puts, Ptrs
<1>5. i = ptr[p][V(p)]
  BY DEF I
<1> HIDE DEF i, next
<1>6. \A v \in Ptrs : ~UsedAt(Pending(p), v) => ptr[p][v] \notin Inums
  BY DEF FsInv, Clear
<1>7. "none" \notin Ptrs
  BY DEF Ptrs
<1>8. CASE itable' = ilock(NoProc, i) /\ Nowhere(p) /\ ptr' = ptr
  <2>1. PICK ops : Plan(ops, Backed(call[p], V(p))) /\ Only(p, ops)
    BY <1>4, <1>8, PlanNowhere
  <2>2. /\ Turn(p) /\ Pending(p)' = Backed(call[p], V(p))
        /\ \E T \in SUBSET KindSet :
             /\ Pending(p) = {<<"walk", V(p)>>} \union T
             /\ \A b \in T : Before(<<"walk", V(p)>>, b)
    BY <1>1, <2>1, ProceedOnly
  <2>3. PICK T \in SUBSET KindSet : /\ Pending(p) = {<<"walk", V(p)>>} \union T
                                    /\ \A b \in T : Before(<<"walk", V(p)>>, b)
    BY <2>2
  <2>4. \A b \in T : Before(<<"walk", V(p)>>, b)
    BY <2>3
  <2>5. \/ /\ V(p) = "dp" /\ T \subseteq {<<"walk", "dp">>, <<"parent", "dp">>, <<"unlink_dp", "dp">>,
                                           <<"create_dp", "dp">>, <<"link_dp", "dp">>}
        \/ /\ V(p) = "ip" /\ T \subseteq {<<"walk", "ip">>, <<"open_ip", "ip">>, <<"link_ip", "ip">>,
                                           <<"chdir_ip", "ip">>}
    BY <1>4, <2>4, AfterWalkKinds
  <2>6. TableMove(i, NoProc) /\ \A j \in Inums : itable'[j].ref = itable[j].ref
    BY <1>1, <1>3, <1>8, TableLock
  <2>7. RefsExact'
    <3>1. <<"cwd", "ip">> \in Pending(p)' <=> <<"cwd", "ip">> \in Pending(p)
      BY <2>2, <2>3, <2>5 DEF Backed
    <3> QED BY <1>2, <1>3, <1>8, <2>2, <2>6, <3>1, RefsAlone DEF Turn
  <2>8. PlanMove(Pending(p), Pending(p)', ptr[p], ptr'[p], call[p], i, "none")
    <3>1. PICK K, L, c, v : /\ K = Pending(p) /\ L = Pending(p)' /\ c = call[p] /\ v = V(p)
                            /\ K = {<<"walk", v>>} \union T /\ L = Backed(c, v) /\ Linked(K, c)
      BY <1>2, <2>2, <2>3
    <3>2. v = "dp" \/ v = "ip"
      BY <1>4, <3>1
    <3>3. Linked(L, c)
      BY <3>1, <3>2 DEF Linked, Backed
    <3>4. \A w \in Ptrs : ~UsedAt(L, w) => ~UsedAt(K, w)
      BY <2>5, <3>1 DEF UsedAt, Linked, Backed
    <3>5. \A w \in Ptrs : ~LockedAt(L, w) /\ ~FreedAt(K, w) /\ ~FreedAt(L, w)
      BY <2>5, <3>1 DEF LockedAt, FreedAt, Backed
    <3>6. \A w \in Ptrs : FirmAt(L, w) => FirmAt(K, w)
      BY <2>5, <3>1 DEF FirmAt, Linked, Backed
    <3> QED BY <1>6, <1>8, <3>1, <3>3, <3>4, <3>5, <3>6 DEF PlanMove
  <2>9. Points(p)
    BY <1>2, <1>8 DEF FsTypes, Points
  <2> QED BY <1>1, <1>3, <1>7, <2>2, <2>6, <2>7, <2>8, <2>9, LockStep
<1>9. CASE /\ itable' = iget(ilock(NoProc, i), next)
           /\ ptr'    = [ptr EXCEPT ![p].x = i, ![p][V(p)] = next]
           /\ Then(p, << <<"put", "x">> >>)
  <2>1. \A a \in {<<"put", "x">>} : \A b \in KindSet : Before(<<"walk", V(p)>>, b) => Before(a, b)
    BY <1>4 DEF Before, AfterWalk, HeadOnly, LastOps, Puts
  <2>2. /\ Turn(p)
        /\ \E T \in SUBSET KindSet :
             /\ Pending(p) = {<<"walk", V(p)>>} \union T
             /\ \A b \in T : Before(<<"walk", V(p)>>, b)
             /\ Pending(p)' = {<<"put", "x">>} \union T
    <3>1. Plan(<< <<"put", "x">> >>, {<<"put", "x">>})
      BY PlanOf DEF Ptrs
    <3> QED BY <1>1, <1>9, <2>1, <3>1, Proceed
  <2>3. PICK T \in SUBSET KindSet : /\ Pending(p) = {<<"walk", V(p)>>} \union T
                                    /\ \A b \in T : Before(<<"walk", V(p)>>, b)
                                    /\ Pending(p)' = {<<"put", "x">>} \union T
    BY <2>2
  <2>4. \A b \in T : Before(<<"walk", V(p)>>, b)
    BY <2>3
  <2>5. \/ /\ V(p) = "dp" /\ T \subseteq {<<"walk", "dp">>, <<"parent", "dp">>, <<"unlink_dp", "dp">>,
                                           <<"create_dp", "dp">>, <<"link_dp", "dp">>}
        \/ /\ V(p) = "ip" /\ T \subseteq {<<"walk", "ip">>, <<"open_ip", "ip">>, <<"link_ip", "ip">>,
                                           <<"chdir_ip", "ip">>}
    BY <1>4, <2>4, AfterWalkKinds
  <2>6. /\ DOMAIN ptr' = Procs /\ \A q \in Procs : DOMAIN ptr'[q] = Ptrs
        /\ ptr'[p]["x"] = i /\ ptr'[p][V(p)] = next
        /\ \A w \in Ptrs : w # "x" /\ w # V(p) => ptr'[p][w] = ptr[p][w]
        /\ \A q \in Procs : q # p => ptr'[q] = ptr[q]
    <3>1. "x" \in Ptrs /\ V(p) \in Ptrs /\ "x" # V(p)
      BY <1>4 DEF Ptrs
    <3>2. PICK w : w = V(p) /\ w \in Ptrs /\ "x" # w
      BY <3>1
    <3>3. ptr' = [ptr EXCEPT ![p]["x"] = i, ![p][w] = next]
      BY <1>9, <3>2
    <3>4. /\ DOMAIN ptr' = Procs /\ \A q \in Procs : DOMAIN ptr'[q] = Ptrs
          /\ ptr'[p]["x"] = i /\ ptr'[p][w] = next /\ \A z \in Ptrs : z # "x" /\ z # w => ptr'[p][z] = ptr[p][z]
          /\ \A q \in Procs : q # p => ptr'[q] = ptr[q]
      BY <1>2, <3>1, <3>2, <3>3 DEF FsTypes
    <3> QED BY <3>2, <3>4
  <2>7. /\ TableMove(i, NoProc)
        /\ \A j \in Inums : /\ itable[j].ref \in Nat
                            /\ j = next => itable'[j].ref = itable[j].ref + 1
                            /\ j # next => itable'[j].ref = itable[j].ref
    <3>1. i \in Inums => itable[i].ref > 0
      BY <1>2, <1>4, <1>5, PtrRef DEF Ptrs
    <3> QED BY <1>1, <1>3, <1>9, <3>1, TableGet
  <2>8. PICK K, L, c, v : /\ K = Pending(p) /\ L = Pending(p)' /\ c = call[p] /\ v = V(p)
                          /\ K = {<<"walk", v>>} \union T /\ L = {<<"put", "x">>} \union T /\ Linked(K, c)
    BY <1>2, <2>2, <2>3
  <2>9. v = "dp" \/ v = "ip"
    BY <1>4, <2>8
  <2>10. RefsExact'
    <3>1. /\ "x" \in Cells /\ v \in Cells /\ v # "x" /\ v \in Ptrs
          /\ Held(p, "x") = ptr[p]["x"] /\ Held(p, "x")' = ptr'[p]["x"]
          /\ Held(p, v) = ptr[p][v] /\ Held(p, v)' = ptr'[p][v]
      BY <2>9 DEF Held, Ptrs, Cells
    <3>2. ptr[p]["x"] \notin Inums
      <4>1. ~UsedAt(K, "x")
        BY <2>5, <2>8 DEF UsedAt
      <4> QED BY <1>6, <2>8, <4>1 DEF Ptrs
    <3>3. \A q \in Procs, d \in Cells : q # p => Held(q, d)' = Held(q, d)
      BY <1>3, <2>2, <2>6 DEF Held, Turn
    <3>4. \A d \in Cells : d \notin {v, "x"} => Held(p, d)' = Held(p, d)
      <4>1. <<"cwd", "ip">> \notin K /\ <<"cwd", "ip">> \notin L
        BY <2>5, <2>8
      <4> QED BY <1>3, <2>6, <2>8, <4>1 DEF Held, Cells
    <3>5. \A q \in Procs, d \in Cells : ~(q = p /\ d \in {v, "x"}) =>
            Held(q, d)' = Held(q, d) \/ (Held(q, d) \notin Inums /\ Held(q, d)' \notin Inums)
      <4> SUFFICES ASSUME NEW q \in Procs, NEW d \in Cells, ~(q = p /\ d \in {v, "x"})
                   PROVE  Held(q, d)' = Held(q, d) \/ (Held(q, d) \notin Inums /\ Held(q, d)' \notin Inums)
        OBVIOUS
      <4>1. Held(q, d)' = Held(q, d)
        BY <3>3, <3>4
      <4> QED BY <4>1
    <3>6. Held(p, "x") \notin Inums /\ Held(p, "x")' = Held(p, v) /\ Held(p, v)' = next
      BY <1>5, <2>6, <2>8, <3>1, <3>2
    <3>7. \A j \in Inums :
           /\ itable[j].ref \in Nat
           /\ Held(p, v)' = j => itable'[j].ref = itable[j].ref + 1
           /\ Held(p, v)' # j => itable'[j].ref = itable[j].ref
      BY <2>7, <3>6
    <3> QED BY <1>2, <3>1, <3>5, <3>6, <3>7, RefsTwo
  <2>11. PlanMove(Pending(p), Pending(p)', ptr[p], ptr'[p], call[p], i, "none")
    <3>3. Linked(L, c)
      BY <2>5, <2>8 DEF Linked
    <3>4. \A w \in Ptrs : ~UsedAt(L, w) => ~UsedAt(K, w) /\ w # v /\ w # "x"
      BY <2>5, <2>8 DEF UsedAt, Linked
    <3>5. \A w \in Ptrs : ~LockedAt(L, w) /\ ~FreedAt(K, w) /\ ~FreedAt(L, w)
      BY <2>5, <2>8 DEF LockedAt, FreedAt
    <3>6. \A w \in Ptrs : FirmAt(L, w) => FirmAt(K, w) /\ w # v /\ w # "x"
      BY <2>5, <2>8 DEF FirmAt, Linked
    <3>7. \A w \in Ptrs : w # "x" /\ w # v => ptr'[p][w] = ptr[p][w]
      BY <2>6, <2>8
    <3> QED BY <1>6, <2>8, <3>3, <3>4, <3>5, <3>6, <3>7 DEF PlanMove
  <2>12. Points(p)
    BY <2>6 DEF Points
  <2> QED BY <1>1, <1>3, <1>7, <2>2, <2>7, <2>10, <2>11, <2>12, LockStep
<1> QED BY <1>1, <1>8, <1>9

-----------------------------------------------------------------------------
(* The steps that a call ends its plan with, and how they go on.           *)

\* K then L, where the step is about its pointer v, whose lock it keeps if u = v.
Onward(K, L, c, v, u) ==
  /\ Linked(L, c)
  /\ \A w \in Ptrs : ~UsedAt(L, w) => ~UsedAt(K, w)
  /\ \A w \in Ptrs : ~FreedAt(K, w) /\ ~FreedAt(L, w)
  /\ \A w \in Ptrs : LockedAt(L, w) => (w = v /\ u = v) \/ LockedAt(K, w)
  /\ \A w \in Ptrs : FirmAt(L, w) => w = v \/ FirmAt(K, w)
  /\ <<"cwd", "ip">> \notin K \union L

\* The step also sets pointer w.
Sets(K, L, v, w) ==
  /\ w \in Ptrs /\ w # v /\ ~UsedAt(K, w) /\ UsedAt(L, w) /\ ~LockedAt(L, w) /\ ~FirmAt(L, w)

\* A step that sets no pointer.
LEMMA OnwardMove ==
  ASSUME NEW K, NEW L, NEW P, NEW c, NEW v \in Ptrs, NEW u, Onward(K, L, c, v, u),
         \A w \in Ptrs : ~UsedAt(K, w) => P[w] \notin Inums
  PROVE  PlanMove(K, L, P, P, c, P[v], u)
BY DEF PlanMove, Onward

\* What a step at pointer v finds.
LEMMA Found ==
  ASSUME FsInv, NEW p \in Procs, NEW v \in Ptrs, Free(ptr[p][v])
  PROVE  /\ FsTypes /\ RefsExact /\ Linked(Pending(p), call[p])
         /\ \A w \in Ptrs : ~UsedAt(Pending(p), w) => ptr[p][w] \notin Inums
         /\ ptr[p][v] \in Inums => /\ Node(ptr[p][v]) = disk[ptr[p][v]]
                                   /\ itable[ptr[p][v]].ref > 0
                                   /\ FirmAt(Pending(p), v) => Node(ptr[p][v]).type # "none"
<1>1. FsTypes /\ RefsExact /\ Linked(Pending(p), call[p])
  BY DEF FsInv, Ordered
<1>2. \A w \in Ptrs : ~UsedAt(Pending(p), w) => ptr[p][w] \notin Inums
  BY DEF FsInv, Clear
<1>3. ptr[p][v] \in Inums => Node(ptr[p][v]) = disk[ptr[p][v]] /\ itable[ptr[p][v]].ref > 0
  BY <1>1, NodeOnDisk, PtrRef
<1>4. ptr[p][v] \in Inums /\ FirmAt(Pending(p), v) => Sound(ptr[p][v])
  BY FirmSound
<1> QED BY <1>1, <1>2, <1>3, <1>4 DEF Sound

\* A step that leaves the pointers alone.
LEMMA LockKeep ==
  ASSUME FsInv, NEW p \in Procs, NEW op \in LastOps, At(p, op), Free(I(p)),
         NEW o \in Procs \union {NoProc}, NEW u, u \in Ptrs => o = p,
         TableMove(I(p), o), \A j \in Inums : itable'[j].ref = itable[j].ref, ptr' = ptr,
         UNCHANGED <<cwd, fd, work, rest, call>>,
         NEW ops, NEW A, Plan(ops, A), Then(p, ops) \/ Only(p, ops),
         Onward({<<op, V(p)>>}, A, call[p], V(p), u)
  PROVE  FsInv'
<1> DEFINE i == I(p)
<1>0. cwd' = cwd /\ fd' = fd
  OBVIOUS
<1>1. <<op, V(p)>> \in KindSet /\ Pending(p) = {<<op, V(p)>>} /\ Turn(p) /\ Pending(p)' = A
  BY LastStep
<1>2. PICK v : v = V(p)
  OBVIOUS
<1>3. v \in Ptrs /\ i = ptr[p][v]
  BY <1>1, <1>2 DEF KindSet, Puts, OnIp, OnDp, Ptrs, I
<1>4. /\ FsTypes /\ RefsExact
      /\ \A w \in Ptrs : ~UsedAt(Pending(p), w) => ptr[p][w] \notin Inums
  BY <1>1, <1>2, <1>3, Found
<1> HIDE DEF i
<1>5. TableMove(i, o) /\ \A j \in Inums : itable'[j].ref = itable[j].ref
  BY DEF i
<1>6. PICK K, L, P, c : /\ K = Pending(p) /\ L = Pending(p)' /\ P = ptr[p] /\ c = call[p]
                        /\ Onward(K, L, c, v, u)
  BY <1>1, <1>2
<1>7. PlanMove(Pending(p), Pending(p)', ptr[p], ptr'[p], call[p], i, u)
  <2>1. \A w \in Ptrs : ~UsedAt(K, w) => P[w] \notin Inums
    BY <1>4, <1>6
  <2>2. PlanMove(K, L, P, P, c, P[v], u)
    BY <1>3, <1>6, <2>1, OnwardMove
  <2> QED BY <1>3, <1>6, <2>2
<1>8. RefsExact'
  <2>1. <<"cwd", "ip">> \in Pending(p)' <=> <<"cwd", "ip">> \in Pending(p)
    BY <1>6 DEF Onward
  <2> QED BY <1>0, <1>1, <1>4, <1>5, <2>1, RefsAlone DEF Turn
<1>9. Points(p)
  BY <1>4 DEF FsTypes, Points
<1>10. Free(i)
  BY DEF i
<1> QED BY <1>1, <1>5, <1>7, <1>8, <1>9, <1>10, LockStep

\* A step that only takes the lock.
LEMMA LockOnly ==
  ASSUME FsInv, NEW p \in Procs, NEW op \in LastOps, At(p, op), Free(I(p)),
         NEW o \in Procs \union {NoProc}, NEW u, u \in Ptrs => o = p,
         Node(I(p)).type # "none" \/ FirmAt({<<op, V(p)>>}, V(p)),
         itable' = ilock(o, I(p)), disk' = disk, ptr' = ptr,
         UNCHANGED <<cwd, fd, work, rest, call>>,
         NEW ops, NEW A, Plan(ops, A), Then(p, ops) \/ Only(p, ops),
         Onward({<<op, V(p)>>}, A, call[p], V(p), u)
  PROVE  FsInv'
<1>1. I(p) \in Inums => Node(I(p)).type # "none"
  <2>1. <<op, V(p)>> \in KindSet /\ Pending(p) = {<<op, V(p)>>}
    BY LastStep
  <2>2. PICK v : v = V(p)
    OBVIOUS
  <2>3. v \in Ptrs /\ I(p) = ptr[p][v]
    BY <2>1, <2>2 DEF KindSet, Puts, OnIp, OnDp, Ptrs, I
  <2> QED BY <2>1, <2>2, <2>3, Found
<1>2. TableMove(I(p), o) /\ \A j \in Inums : itable'[j].ref = itable[j].ref
  BY <1>1, TableLock
<1> QED BY <1>2, LockKeep

\* A step that takes the lock and a reference to n.
LEMMA LockGet ==
  ASSUME FsInv, NEW p \in Procs, NEW op \in LastOps, At(p, op), Free(I(p)),
         NEW o \in Procs \union {NoProc}, NEW u, u \in Ptrs => o = p,
         Node(I(p)).type # "none" \/ FirmAt({<<op, V(p)>>}, V(p)),
         NEW w, NEW n, ptr' = [ptr EXCEPT ![p][w] = n],
         UNCHANGED <<cwd, fd, work, rest, call>>,
         TableMove(I(p), o), \A j \in Inums : /\ itable[j].ref \in Nat
                                              /\ j = n => itable'[j].ref = itable[j].ref + 1
                                              /\ j # n => itable'[j].ref = itable[j].ref,
         NEW ops, NEW A, Plan(ops, A), Then(p, ops) \/ Only(p, ops),
         Onward({<<op, V(p)>>}, A, call[p], V(p), u), Sets({<<op, V(p)>>}, A, V(p), w)
  PROVE  FsInv'
<1> DEFINE i == I(p)
<1>0. cwd' = cwd /\ fd' = fd
  OBVIOUS
<1>1. <<op, V(p)>> \in KindSet /\ Pending(p) = {<<op, V(p)>>} /\ Turn(p) /\ Pending(p)' = A
  BY LastStep
<1>2. PICK v : v = V(p)
  OBVIOUS
<1>3. v \in Ptrs /\ i = ptr[p][v] /\ w \in Ptrs
  BY <1>1, <1>2 DEF KindSet, Puts, OnIp, OnDp, Ptrs, I, Sets
<1>4. /\ FsTypes /\ RefsExact
      /\ \A z \in Ptrs : ~UsedAt(Pending(p), z) => ptr[p][z] \notin Inums
  BY <1>1, <1>2, <1>3, Found
<1> HIDE DEF i
<1>5. /\ DOMAIN ptr' = Procs /\ \A q \in Procs : DOMAIN ptr'[q] = Ptrs
      /\ ptr'[p][w] = n /\ \A z \in Ptrs : z # w => ptr'[p][z] = ptr[p][z]
      /\ \A q \in Procs : q # p => ptr'[q] = ptr[q]
  BY <1>3, <1>4, PtrSet
<1>6. PICK K, L, P, Q, c : /\ K = Pending(p) /\ L = Pending(p)' /\ P = ptr[p] /\ Q = ptr'[p] /\ c = call[p]
                           /\ Onward(K, L, c, v, u) /\ Sets(K, L, v, w)
  BY <1>1, <1>2
<1>7. PlanMove(Pending(p), Pending(p)', ptr[p], ptr'[p], call[p], i, u)
  <2>1. \A z \in Ptrs : ~UsedAt(K, z) => P[z] \notin Inums
    BY <1>4, <1>6
  <2>2. \A z \in Ptrs : z # w => Q[z] = P[z]
    BY <1>5, <1>6
  <2>3. PlanMove(K, L, P, Q, c, P[v], u)
    BY <1>3, <1>6, <2>1, <2>2 DEF PlanMove, Onward, Sets
  <2> QED BY <1>3, <1>6, <2>3
<1>8. RefsExact'
  <2>1. <<"cwd", "ip">> \in Pending(p)' <=> <<"cwd", "ip">> \in Pending(p)
    BY <1>6 DEF Onward
  <2>2. ptr[p][w] \notin Inums
    BY <1>3, <1>4, <1>6 DEF Sets
  <2>3. \A q \in Procs : q # p => Pending(q)' = Pending(q) /\ ptr'[q] = ptr[q]
    BY <1>1, <1>5 DEF Turn
  <2> QED BY <1>0, <1>3, <1>4, <1>5, <2>1, <2>2, <2>3, RefsGain
<1>9. Points(p)
  BY <1>5 DEF Points
<1>10. Free(i) /\ TableMove(i, o)
  BY DEF i
<1> QED BY <1>1, <1>7, <1>8, <1>9, <1>10, LockStep

\* Its cases.
LEMMA OnwardOf ==
  ASSUME NEW c
  PROVE  /\ \A op \in {"exists", "open_ip"} :
              /\ Onward({<<op, "ip">>}, Unlocking("ip"), c, "ip", "ip")
              /\ Onward({<<op, "ip">>}, {<<"opened", "ip">>}, c, "ip", "ip")
         /\ \A op \in {"link_ip", "chdir_ip"} : Onward({<<op, "ip">>}, {<<"put", "ip">>}, c, "ip", "none")
         /\ Onward({<<"link_bad", "ip">>}, {<<"nlink", "ip">>} \union Unlocking("ip"), c, "ip", "ip")
         /\ \A op \in {"unlink_dp", "create_dp"} : Onward({<<op, "dp">>}, Unlocking("dp"), c, "dp", "dp")
         /\ Onward({<<"unlink_ip", "ip">>}, Unlocking("ip") \union Unlocking("dp"), c, "ip", "ip")
<1>1. \A op \in {"exists", "open_ip"} :
              /\ Onward({<<op, "ip">>}, Unlocking("ip"), c, "ip", "ip")
              /\ Onward({<<op, "ip">>}, {<<"opened", "ip">>}, c, "ip", "ip")
  BY DEF Onward, Linked, UsedAt, FreedAt, LockedAt, FirmAt, Unlocking
<1>2. \A op \in {"link_ip", "chdir_ip"} : Onward({<<op, "ip">>}, {<<"put", "ip">>}, c, "ip", "none")
  BY DEF Onward, Linked, UsedAt, FreedAt, LockedAt, FirmAt
<1>3. Onward({<<"link_bad", "ip">>}, {<<"nlink", "ip">>} \union Unlocking("ip"), c, "ip", "ip")
  BY DEF Onward, Linked, UsedAt, FreedAt, LockedAt, FirmAt, Unlocking
<1>4. \A op \in {"unlink_dp", "create_dp"} : Onward({<<op, "dp">>}, Unlocking("dp"), c, "dp", "dp")
  BY DEF Onward, Linked, UsedAt, FreedAt, LockedAt, FirmAt, Unlocking
<1>5. Onward({<<"unlink_ip", "ip">>}, Unlocking("ip") \union Unlocking("dp"), c, "ip", "ip")
  BY DEF Onward, Linked, UsedAt, FreedAt, LockedAt, FirmAt, Unlocking
<1> QED BY <1>1, <1>2, <1>3, <1>4, <1>5

\* The pointers that the steps are about.
LEMMA PtrOf ==
  ASSUME NEW v
  PROVE  /\ \A op \in OnIp : <<op, v>> \in KindSet => v = "ip"
         /\ \A op \in OnDp : <<op, v>> \in KindSet => v = "dp"
         /\ \A op \in {"unlock"} \union Puts : <<op, v>> \in KindSet => v \in Ptrs
BY DEF KindSet, OnDp, OnIp, Puts, Ptrs

\* sysfile.c, the steps under one lock.
LEMMA ExistsStep ==
  ASSUME FsInv, NEW p \in Procs, Exists(p) PROVE FsInv'
<1>1. /\ At(p, "exists") /\ Free(I(p)) /\ Node(I(p)).type # "none"
      /\ itable' = ilock(p, I(p)) /\ disk' = disk /\ ptr' = ptr
      /\ UNCHANGED <<cwd, fd, work, rest, call>>
      /\ Then(p, << <<"opened", "ip">> >>) \/ Then(p, UnlockPut("ip"))
  BY DEF Exists, fsVars, others, progVars
<1>2. V(p) = "ip"
  BY <1>1, HeadKind, PtrOf DEF OnIp
<1>3. "exists" \in LastOps
  BY DEF LastOps
<1>4. PICK ops, A : /\ Plan(ops, A) /\ Then(p, ops)
                    /\ Onward({<<"exists", V(p)>>}, A, call[p], V(p), "ip")
  <2>1. CASE Then(p, << <<"opened", "ip">> >>)
    <3>1. Plan(<< <<"opened", "ip">> >>, {<<"opened", "ip">>})
      BY PlanOf
    <3> QED BY <1>2, <2>1, <3>1, OnwardOf
  <2>2. CASE Then(p, UnlockPut("ip"))
    <3>1. Plan(UnlockPut("ip"), Unlocking("ip"))
      BY PlanUnlockPut DEF Ptrs
    <3> QED BY <1>2, <2>2, <3>1, OnwardOf
  <2> QED BY <1>1, <2>1, <2>2
<1> QED BY <1>1, <1>3, <1>4, LockOnly

LEMMA OpenIpStep ==
  ASSUME FsInv, NEW p \in Procs, OpenIp(p) PROVE FsInv'
<1>1. /\ At(p, "open_ip") /\ Free(I(p)) /\ Node(I(p)).type # "none"
      /\ itable' = ilock(p, I(p)) /\ disk' = disk /\ ptr' = ptr
      /\ UNCHANGED <<cwd, fd, work, rest, call>>
      /\ Then(p, << <<"opened", "ip">> >>) \/ Then(p, UnlockPut("ip"))
  BY DEF OpenIp, fsVars, others, progVars
<1>2. V(p) = "ip"
  BY <1>1, HeadKind, PtrOf DEF OnIp
<1>3. "open_ip" \in LastOps
  BY DEF LastOps
<1>4. PICK ops, A : /\ Plan(ops, A) /\ Then(p, ops)
                    /\ Onward({<<"open_ip", V(p)>>}, A, call[p], V(p), "ip")
  <2>1. CASE Then(p, << <<"opened", "ip">> >>)
    <3>1. Plan(<< <<"opened", "ip">> >>, {<<"opened", "ip">>})
      BY PlanOf
    <3> QED BY <1>2, <2>1, <3>1, OnwardOf
  <2>2. CASE Then(p, UnlockPut("ip"))
    <3>1. Plan(UnlockPut("ip"), Unlocking("ip"))
      BY PlanUnlockPut DEF Ptrs
    <3> QED BY <1>2, <2>2, <3>1, OnwardOf
  <2> QED BY <1>1, <2>1, <2>2
<1> QED BY <1>1, <1>3, <1>4, LockOnly

LEMMA LinkBadStep ==
  ASSUME FsInv, NEW p \in Procs, LinkBad(p) PROVE FsInv'
<1>1. /\ At(p, "link_bad") /\ Free(I(p))
      /\ itable' = ilock(p, I(p)) /\ disk' = disk /\ ptr' = ptr
      /\ UNCHANGED <<cwd, fd, work, rest, call>>
      /\ Then(p, << <<"nlink", "ip">> >> \o UnlockPut("ip"))
  BY DEF LinkBad, fsVars, others, progVars
<1>2. V(p) = "ip"
  BY <1>1, HeadKind, PtrOf DEF OnIp
<1>3. "link_bad" \in LastOps
  BY DEF LastOps
<1>4. PICK ops, A : /\ Plan(ops, A) /\ Then(p, ops)
                    /\ Onward({<<"link_bad", V(p)>>}, A, call[p], V(p), "ip")
  <2>1. Plan(<< <<"nlink", "ip">> >> \o UnlockPut("ip"), {<<"nlink", "ip">>} \union Unlocking("ip"))
    BY PlanOf
  <2> QED BY <1>1, <1>2, <2>1, OnwardOf
<1>5. FirmAt({<<"link_bad", V(p)>>}, V(p))
  BY DEF FirmAt
<1> QED BY <1>1, <1>3, <1>4, <1>5, LockOnly

\* Cases of the steps that look up an entry.
LEMMA SetsOf ==
  ASSUME NEW c
  PROVE  /\ Onward({<<"unlink_dp", "dp">>}, {<<"unlink_ip", "ip">>}, c, "dp", "dp")
         /\ Sets({<<"unlink_dp", "dp">>}, {<<"unlink_ip", "ip">>}, "dp", "ip")
         /\ Onward({<<"create_dp", "dp">>}, Unlocking("dp") \union {<<"exists", "ip">>}, c, "dp", "dp")
         /\ Sets({<<"create_dp", "dp">>}, Unlocking("dp") \union {<<"exists", "ip">>}, "dp", "ip")
         /\ Onward({<<"create_dp", "dp">>}, {<<"create_ip", "ip">>}, c, "dp", "dp")
         /\ Sets({<<"create_dp", "dp">>}, {<<"create_ip", "ip">>}, "dp", "ip")
         /\ Onward({<<"link_dp", "dp">>}, ({<<"put", "x">>} \union Unlocking("dp")) \union {<<"link_bad", "ip">>},
                   c, "dp", "dp")
         /\ Sets({<<"link_dp", "dp">>}, ({<<"put", "x">>} \union Unlocking("dp")) \union {<<"link_bad", "ip">>},
                 "dp", "x")
         /\ \A op \in {"put", "link_bad"} :
              Onward({<<"link_dp", "dp">>}, Unlocking("dp") \union {<<op, "ip">>}, c, "dp", "dp")
<1>1. /\ Onward({<<"unlink_dp", "dp">>}, {<<"unlink_ip", "ip">>}, c, "dp", "dp")
      /\ Sets({<<"unlink_dp", "dp">>}, {<<"unlink_ip", "ip">>}, "dp", "ip")
  BY DEF Onward, Sets, Linked, UsedAt, FreedAt, LockedAt, FirmAt, Ptrs
<1>2. Onward({<<"create_dp", "dp">>}, Unlocking("dp") \union {<<"exists", "ip">>}, c, "dp", "dp")
  BY DEF Onward, Linked, UsedAt, FreedAt, LockedAt, FirmAt, Unlocking
<1>3. Sets({<<"create_dp", "dp">>}, Unlocking("dp") \union {<<"exists", "ip">>}, "dp", "ip")
  BY DEF Sets, UsedAt, LockedAt, FirmAt, Unlocking, Ptrs
<1>4. /\ Onward({<<"create_dp", "dp">>}, {<<"create_ip", "ip">>}, c, "dp", "dp")
      /\ Sets({<<"create_dp", "dp">>}, {<<"create_ip", "ip">>}, "dp", "ip")
  BY DEF Onward, Sets, Linked, UsedAt, FreedAt, LockedAt, FirmAt, Ptrs
<1>5. Onward({<<"link_dp", "dp">>}, ({<<"put", "x">>} \union Unlocking("dp")) \union {<<"link_bad", "ip">>},
             c, "dp", "dp")
  BY DEF Onward, Linked, UsedAt, FreedAt, LockedAt, FirmAt, Unlocking
<1>6. Sets({<<"link_dp", "dp">>}, ({<<"put", "x">>} \union Unlocking("dp")) \union {<<"link_bad", "ip">>},
           "dp", "x")
  BY DEF Sets, UsedAt, LockedAt, FirmAt, Unlocking, Ptrs
<1>7. \A op \in {"put", "link_bad"} :
        Onward({<<"link_dp", "dp">>}, Unlocking("dp") \union {<<op, "ip">>}, c, "dp", "dp")
  BY DEF Onward, Linked, UsedAt, FreedAt, LockedAt, FirmAt, Unlocking
<1> QED BY <1>1, <1>2, <1>3, <1>4, <1>5, <1>6, <1>7

\* What a step of the last ops at pointer v finds.
LEMMA FoundLast ==
  ASSUME FsInv, NEW p \in Procs, NEW op \in LastOps, At(p, op), Free(I(p)),
         Node(I(p)).type # "none" \/ FirmAt({<<op, V(p)>>}, V(p))
  PROVE  /\ <<op, V(p)>> \in KindSet /\ V(p) \in Ptrs /\ Pending(p) = {<<op, V(p)>>}
         /\ FsTypes /\ RefsExact /\ Linked({<<op, V(p)>>}, call[p])
         /\ I(p) \in Inums => Node(I(p)) = disk[I(p)] /\ itable[I(p)].ref > 0 /\ Node(I(p)).type # "none"
<1>1. <<op, V(p)>> \in KindSet /\ <<op, V(p)>> \in Pending(p)
  BY HeadKind
<1>2. Pending(p) = {<<op, V(p)>>}
  <2> DEFINE s == todo[p]
  <2>1. s \in Seq(Items) /\ s # <<>> /\ Head(s)[1] = op /\ Tidy(s)
    BY IsAt DEF FsInv, Ordered
  <2>2. /\ Kinds(s) = {Kind(Head(s))} \union Kinds(Tail(s))
        /\ \A b \in Kinds(Tail(s)) : Before(Kind(Head(s)), b)
    BY <2>1, TailKinds
  <2>3. Kind(Head(s)) = <<op, V(p)>>
    BY <2>1 DEF Kind, V
  <2>4. Kinds(Tail(s)) = {}
    BY <2>2, <2>3 DEF Before
  <2> QED BY <2>2, <2>3, <2>4 DEF Pending
<1>3. PICK v : v = V(p)
  OBVIOUS
<1>4. v \in Ptrs /\ I(p) = ptr[p][v]
  BY <1>1, <1>3 DEF KindSet, Puts, OnIp, OnDp, Ptrs, I
<1>5. /\ FsTypes /\ RefsExact /\ Linked(Pending(p), call[p])
      /\ ptr[p][v] \in Inums => /\ Node(ptr[p][v]) = disk[ptr[p][v]]
                                /\ itable[ptr[p][v]].ref > 0
                                /\ FirmAt(Pending(p), v) => Node(ptr[p][v]).type # "none"
  BY <1>4, Found
<1> QED BY <1>1, <1>2, <1>3, <1>4, <1>5

\* sys_unlink(), the directory.
LEMMA UnlinkDpStep ==
  ASSUME FsInv, NEW p \in Procs, UnlinkDp(p) PROVE FsInv'
<1> DEFINE next == dirlookup(data[I(p)], Name(p))
<1>1. /\ At(p, "unlink_dp") /\ Free(I(p)) /\ disk' = disk
      /\ UNCHANGED <<cwd, fd, work, rest, call>>
      /\ \/ itable' = ilock(p, I(p)) /\ Then(p, UnlockPut("dp")) /\ ptr' = ptr
         \/ /\ itable' = iget(ilock(p, I(p)), next)
            /\ ptr' = [ptr EXCEPT ![p]["ip"] = next]
            /\ Then(p, << <<"unlink_ip", "ip">> >>)
  BY DEF UnlinkDp, fsVars, others, progVars
<1> HIDE DEF next
<1>2. V(p) = "dp"
  BY <1>1, HeadKind, PtrOf DEF OnDp
<1>3. "unlink_dp" \in LastOps
  BY DEF LastOps
<1>4. FirmAt({<<"unlink_dp", V(p)>>}, V(p))
  BY <1>2 DEF FirmAt
<1>5. CASE itable' = ilock(p, I(p)) /\ Then(p, UnlockPut("dp")) /\ ptr' = ptr
  <2>1. Plan(UnlockPut("dp"), Unlocking("dp")) /\ Onward({<<"unlink_dp", V(p)>>}, Unlocking("dp"), call[p], V(p), "dp")
    BY <1>2, PlanUnlockPut, OnwardOf DEF Ptrs
  <2> QED BY <1>1, <1>3, <1>4, <1>5, <2>1, LockOnly
<1>6. CASE /\ itable' = iget(ilock(p, I(p)), next)
           /\ ptr' = [ptr EXCEPT ![p]["ip"] = next]
           /\ Then(p, << <<"unlink_ip", "ip">> >>)
  <2>1. /\ Plan(<< <<"unlink_ip", "ip">> >>, {<<"unlink_ip", "ip">>})
        /\ Onward({<<"unlink_dp", V(p)>>}, {<<"unlink_ip", "ip">>}, call[p], V(p), "dp")
        /\ Sets({<<"unlink_dp", V(p)>>}, {<<"unlink_ip", "ip">>}, V(p), "ip")
    BY <1>2, PlanOf, SetsOf
  <2>2. /\ TableMove(I(p), p)
        /\ \A j \in Inums : /\ itable[j].ref \in Nat
                            /\ j = next => itable'[j].ref = itable[j].ref + 1
                            /\ j # next => itable'[j].ref = itable[j].ref
    <3>1. I(p) \in Inums => itable[I(p)].ref > 0 /\ Node(I(p)).type # "none"
      BY <1>1, <1>3, <1>4, FoundLast
    <3> QED BY <1>1, <1>6, <3>1, TableGet
  <2> QED BY <1>1, <1>3, <1>4, <1>6, <2>1, <2>2, LockGet
<1> QED BY <1>1, <1>5, <1>6

\* ialloc() takes the first free inode.
LEMMA MinOf ==
  ASSUME NEW S, S \subseteq Nat, S # {}
  PROVE  \E m \in S : \A k \in S : m <= k
<1>1. PICK m \in S : \A k \in S : <<k, m>> \notin OpToRel(<, Nat)
  BY NatLessThanWellFounded, WFMin
<1>2. ASSUME NEW k \in S PROVE m <= k
  <2>1. ~(k < m)
    BY <1>1 DEF OpToRel
  <2> QED BY <2>1
<1> QED BY <1>2

\* The disk with one inode changed.
LEMMA DiskAt ==
  ASSUME NEW t, IsDisk(t), NEW d, NEW n, d \in Inums => IsNode(n)
  PROVE  /\ IsDisk([t EXCEPT ![d] = n])
         /\ \A j \in Inums : j # d => [t EXCEPT ![d] = n][j] = t[j]
         /\ d \in Inums => [t EXCEPT ![d] = n][d] = n
BY DEF IsDisk

\* ialloc() of a free inode under the lock of i.
LEMMA TableNew ==
  ASSUME FsInv, NEW i, Free(i), NEW o \in Procs \union {NoProc}, i \in Inums => Node(i).type # "none",
         i \in Inums => itable[i].ref > 0, NEW n \in Inums, disk[n].type = "none", NEW t,
         itable' = iget(ilock(o, i), n), disk' = [disk EXCEPT ![n].type = t]
  PROVE  /\ TableMove(i, o)
         /\ \A j \in Inums : /\ itable[j].ref \in Nat
                             /\ j = n => itable'[j].ref = itable[j].ref + 1
                             /\ j # n => itable'[j].ref = itable[j].ref
<1>1. IsTable(itable) /\ IsDisk(disk)
  BY DEF FsInv, FsTypes
<1>2. IsDisk(disk') /\ \A j \in Inums : j # n => disk'[j] = disk[j]
  <2>1. PICK m : m = disk[n] /\ IsNode(m)
    BY <1>1 DEF IsDisk
  <2>2. PICK b : b = [m EXCEPT !.type = t]
    OBVIOUS
  <2>3. IsNode(b)
    BY <2>1, <2>2, NodeFields
  <2>4. disk' = [disk EXCEPT ![n] = b]
    BY <1>1, <2>1, <2>2 DEF IsDisk
  <2> QED BY <1>1, <2>3, <2>4 DEF IsDisk
<1> DEFINE u == ilock(o, i)
<1>3. /\ IsTable(u) /\ \A j \in Inums : j # i => u[j] = itable[j]
      /\ i \in Inums => /\ u[i].ref = itable[i].ref /\ u[i].valid
                        /\ u[i].lock = o /\ u[i].node = disk[i]
                        /\ disk[i].type # "none"
  BY <1>1, ilockAt, NodeOnDisk
<1>4. itable' = iget(u, n)
  OBVIOUS
<1> HIDE DEF u
<1>5. Got(u, itable', n)
  <2>1. IsTable(u)
    BY <1>3
  <2> QED BY <1>4, <2>1, igetAt
<1>6. i # n
  BY <1>3
<1>7. \A j \in Inums : itable[j].ref \in Nat
  BY <1>1 DEF IsTable, IsEntry
<1>8. \A j \in Inums : j = i => itable'[j].lock = o /\ itable'[j].valid /\ itable'[j].node = disk'[j] /\ disk'[j].type # "none"
  BY <1>2, <1>3, <1>5, <1>6 DEF Got
<1>9. \A j \in Inums : j # i /\ itable[j].ref > 0 =>
        /\ itable'[j].lock = itable[j].lock /\ (itable[j].valid => itable'[j].valid)
  BY <1>3, <1>5 DEF Got
<1>10. \A j \in Inums : j # i /\ itable'[j].valid => itable[j].valid /\ itable'[j].node = itable[j].node
  BY <1>3, <1>5 DEF Got
<1>11. \A j \in Inums : j # i /\ itable'[j].valid =>
        \/ itable[j].valid /\ itable'[j].node = itable[j].node /\ disk'[j] = disk[j]
        \/ itable[j].valid /\ disk[j].type = "none"
  BY <1>2, <1>10
<1>12. TableMove(i, o)
  <2>1. IsTable(itable')
    BY <1>5 DEF Got
  <2>2. \A j \in Inums : j = i => itable'[j].lock = o /\ itable'[j].valid /\ Sound(j)'
    BY <1>8 DEF Sound
  <2> QED BY <1>2, <1>9, <1>11, <2>1, <2>2 DEF TableMove
<1>13. \A j \in Inums : /\ j = n => itable'[j].ref = itable[j].ref + 1
                        /\ j # n => itable'[j].ref = itable[j].ref
  BY <1>3, <1>5 DEF Got
<1> QED BY <1>7, <1>12, <1>13

\* create(), the directory.
LEMMA CreateDpStep ==
  ASSUME FsInv, NEW p \in Procs, CreateDp(p) PROVE FsInv'
<1> DEFINE next == dirlookup(data[I(p)], Name(p))
           none == {j \in Inums : disk[j].type = "none"}
           new  == First_of(none)
           kind == IF call[p].op = "mkdir" THEN "dir" ELSE "file"
<1>1. /\ At(p, "create_dp") /\ Free(I(p))
      /\ UNCHANGED <<cwd, fd, work, rest, call>>
      /\ \/ /\ itable' = iget(ilock(p, I(p)), next)
            /\ ptr' = [ptr EXCEPT ![p]["ip"] = next]
            /\ Then(p, UnlockPut("dp") \o << <<"exists", "ip">> >>)
            /\ disk' = disk
         \/ itable' = ilock(p, I(p)) /\ Then(p, UnlockPut("dp")) /\ ptr' = ptr /\ disk' = disk
         \/ /\ none # {}
            /\ disk' = [disk EXCEPT ![new].type = kind]
            /\ itable' = iget(ilock(p, I(p)), new)
            /\ ptr' = [ptr EXCEPT ![p]["ip"] = new]
            /\ Then(p, << <<"create_ip", "ip">> >>)
  BY DEF CreateDp, fsVars, others, progVars
<1>a. none # {} => new \in none
  BY MinOf, FsAssumption DEF First_of
<1>b. new \in none => new \in Inums /\ disk[new].type = "none"
  OBVIOUS
<1> HIDE DEF next, none, new, kind
<1>2. V(p) = "dp"
  BY <1>1, HeadKind, PtrOf DEF OnDp
<1>3. "create_dp" \in LastOps
  BY DEF LastOps
<1>4. FirmAt({<<"create_dp", V(p)>>}, V(p))
  BY <1>2 DEF FirmAt
<1>5. I(p) \in Inums => itable[I(p)].ref > 0 /\ Node(I(p)).type # "none"
  BY <1>1, <1>3, <1>4, FoundLast
<1>6. CASE itable' = ilock(p, I(p)) /\ Then(p, UnlockPut("dp")) /\ ptr' = ptr /\ disk' = disk
  <2>1. Plan(UnlockPut("dp"), Unlocking("dp")) /\ Onward({<<"create_dp", V(p)>>}, Unlocking("dp"), call[p], V(p), "dp")
    BY <1>2, PlanUnlockPut, OnwardOf DEF Ptrs
  <2> QED BY <1>1, <1>3, <1>4, <1>6, <2>1, LockOnly
<1>7. CASE /\ itable' = iget(ilock(p, I(p)), next)
           /\ ptr' = [ptr EXCEPT ![p]["ip"] = next]
           /\ Then(p, UnlockPut("dp") \o << <<"exists", "ip">> >>)
           /\ disk' = disk
  <2>1. /\ Plan(UnlockPut("dp") \o << <<"exists", "ip">> >>, Unlocking("dp") \union {<<"exists", "ip">>})
        /\ Onward({<<"create_dp", V(p)>>}, Unlocking("dp") \union {<<"exists", "ip">>}, call[p], V(p), "dp")
        /\ Sets({<<"create_dp", V(p)>>}, Unlocking("dp") \union {<<"exists", "ip">>}, V(p), "ip")
    BY <1>2, PlanOf, SetsOf
  <2>2. /\ TableMove(I(p), p)
        /\ \A j \in Inums : /\ itable[j].ref \in Nat
                            /\ j = next => itable'[j].ref = itable[j].ref + 1
                            /\ j # next => itable'[j].ref = itable[j].ref
    BY <1>1, <1>5, <1>7, TableGet
  <2> QED BY <1>1, <1>3, <1>4, <1>7, <2>1, <2>2, LockGet
<1>8. CASE /\ none # {}
           /\ disk' = [disk EXCEPT ![new].type = kind]
           /\ itable' = iget(ilock(p, I(p)), new)
           /\ ptr' = [ptr EXCEPT ![p]["ip"] = new]
           /\ Then(p, << <<"create_ip", "ip">> >>)
  <2>1. /\ Plan(<< <<"create_ip", "ip">> >>, {<<"create_ip", "ip">>})
        /\ Onward({<<"create_dp", V(p)>>}, {<<"create_ip", "ip">>}, call[p], V(p), "dp")
        /\ Sets({<<"create_dp", V(p)>>}, {<<"create_ip", "ip">>}, V(p), "ip")
    BY <1>2, PlanOf, SetsOf
  <2>2. /\ TableMove(I(p), p)
        /\ \A j \in Inums : /\ itable[j].ref \in Nat
                            /\ j = new => itable'[j].ref = itable[j].ref + 1
                            /\ j # new => itable'[j].ref = itable[j].ref
    BY <1>1, <1>5, <1>8, <1>a, <1>b, TableNew
  <2> QED BY <1>1, <1>3, <1>4, <1>8, <2>1, <2>2, LockGet
<1> QED BY <1>1, <1>6, <1>7, <1>8

-----------------------------------------------------------------------------
(* Steps that write inodes.                                                *)

\* From table t and disk d to u and e some inodes were changed on both.
Touched(t, u, d, e) ==
  /\ IsTable(u) /\ IsDisk(e)
  /\ \A j \in Inums : /\ u[j].ref = t[j].ref /\ u[j].valid = t[j].valid /\ u[j].lock = t[j].lock
                      /\ \/ u[j].node = t[j].node /\ e[j] = d[j]
                         \/ u[j].node = e[j] /\ e[j].type # "none"

\* n was written to inode i.
Wrote(u, w, e, f, i, n) ==
  /\ i \in Inums => IsNode(n) /\ n.type # "none"
  /\ w = [u EXCEPT ![i].node = n] /\ f = [e EXCEPT ![i] = n]

\* Inodes changed, none and one more.
LEMMA TouchNone ==
  ASSUME NEW t, NEW d, IsTable(t), IsDisk(d) PROVE Touched(t, t, d, d)
BY DEF Touched

LEMMA TouchAt ==
  ASSUME NEW t, NEW u, NEW d, NEW e, Touched(t, u, d, e),
         NEW i, NEW n, NEW w, NEW f, Wrote(u, w, e, f, i, n)
  PROVE  /\ Touched(t, w, d, f)
         /\ i \in Inums => w[i].node = n /\ f[i] = n
         /\ \A j \in Inums : j # i => w[j] = u[j] /\ f[j] = e[j]
<1>1. IsTable(u) /\ IsDisk(e)
  BY DEF Touched
<1>2. i \in Inums => IsNode(n) /\ n.type # "none"
  BY DEF Wrote
<1>3. /\ IsTable(w)
      /\ \A j \in Inums : j # i => w[j] = u[j]
      /\ i \in Inums => w[i].ref = u[i].ref /\ w[i].valid = u[i].valid /\ w[i].lock = u[i].lock /\ w[i].node = n
  <2> DEFINE z == [u EXCEPT ![i].node = n]
  <2>1. /\ IsTable(z)
        /\ \A j \in Inums : j # i => z[j] = u[j]
        /\ i \in Inums => z[i].ref = u[i].ref /\ z[i].valid = u[i].valid /\ z[i].lock = u[i].lock /\ z[i].node = n
    BY <1>1, <1>2, NodeAt
  <2>2. w = z
    BY DEF Wrote
  <2> QED BY <2>1, <2>2, Zenon
<1>4. IsDisk(f) /\ (\A j \in Inums : j # i => f[j] = e[j]) /\ (i \in Inums => f[i] = n)
  <2> DEFINE z == [e EXCEPT ![i] = n]
  <2>1. IsDisk(z) /\ (\A j \in Inums : j # i => z[j] = e[j]) /\ (i \in Inums => z[i] = n)
    BY <1>1, <1>2, DiskAt
  <2>2. f = z
    BY DEF Wrote
  <2> QED BY <2>1, <2>2, Zenon
<1>5. Touched(t, w, d, f)
  <2> SUFFICES ASSUME NEW j \in Inums
               PROVE  /\ w[j].ref = t[j].ref /\ w[j].valid = t[j].valid /\ w[j].lock = t[j].lock
                      /\ \/ w[j].node = t[j].node /\ f[j] = d[j]
                         \/ w[j].node = f[j] /\ f[j].type # "none"
    BY <1>3, <1>4 DEF Touched
  <2>1. /\ u[j].ref = t[j].ref /\ u[j].valid = t[j].valid /\ u[j].lock = t[j].lock
        /\ \/ u[j].node = t[j].node /\ e[j] = d[j]
           \/ u[j].node = e[j] /\ e[j].type # "none"
    BY DEF Touched
  <2>2. CASE j = i
    BY <1>2, <1>3, <1>4, <2>1, <2>2
  <2>3. CASE j # i
    BY <1>3, <1>4, <2>1, <2>3
  <2> QED BY <2>2, <2>3
<1> QED BY <1>3, <1>4, <1>5

\* A step that changes inodes under locks, and one that also takes a reference.
LEMMA TableTouched ==
  ASSUME FsInv, NEW i, Free(i), NEW o \in Procs \union {NoProc}, NEW u,
         Touched(ilock(o, i), u, disk, disk'),
         i \in Inums => u[i].node = disk'[i] /\ disk'[i].type # "none", itable' = u
  PROVE  TableMove(i, o) /\ \A j \in Inums : itable'[j].ref = itable[j].ref
<1>1. IsTable(itable) /\ IsDisk(disk)
  BY DEF FsInv, FsTypes
<1> DEFINE t == ilock(o, i)
<1>2. /\ IsTable(t) /\ \A j \in Inums : j # i => t[j] = itable[j]
      /\ i \in Inums => /\ t[i].ref = itable[i].ref /\ t[i].valid
                        /\ t[i].lock = o /\ t[i].node = disk[i]
  BY <1>1, ilockAt, NodeOnDisk
<1>3. Touched(t, u, disk, disk')
  OBVIOUS
<1> HIDE DEF t
<1>4. /\ IsTable(u) /\ IsDisk(disk')
      /\ \A j \in Inums : /\ u[j].ref = t[j].ref /\ u[j].valid = t[j].valid /\ u[j].lock = t[j].lock
                          /\ \/ u[j].node = t[j].node /\ disk'[j] = disk[j]
                             \/ u[j].node = disk'[j] /\ disk'[j].type # "none"
  BY <1>3 DEF Touched
<1>5. \A j \in Inums : j = i => u[j].lock = o /\ u[j].valid /\ u[j].node = disk'[j] /\ disk'[j].type # "none"
  BY <1>2, <1>4
<1>6. \A j \in Inums : j # i => u[j].lock = itable[j].lock /\ u[j].valid = itable[j].valid
  BY <1>2, <1>4
<1>7. \A j \in Inums : j # i =>
        \/ u[j].node = disk'[j] /\ disk'[j].type # "none"
        \/ u[j].node = itable[j].node /\ disk'[j] = disk[j]
  BY <1>2, <1>4
<1>8. TableMove(i, o)
  <2>1. \A j \in Inums : j = i => itable'[j].lock = o /\ itable'[j].valid /\ Sound(j)'
    BY <1>5 DEF Sound
  <2>2. \A j \in Inums : j # i /\ itable[j].ref > 0 =>
          itable'[j].lock = itable[j].lock /\ (itable[j].valid => itable'[j].valid)
    BY <1>6
  <2>3. \A j \in Inums : j # i /\ itable'[j].valid =>
          \/ Sound(j)'
          \/ itable[j].valid /\ itable'[j].node = itable[j].node /\ disk'[j] = disk[j]
          \/ itable[j].valid /\ disk[j].type = "none"
    BY <1>6, <1>7 DEF Sound
  <2> QED BY <1>4, <2>1, <2>2, <2>3 DEF TableMove
<1>9. \A j \in Inums : itable'[j].ref = itable[j].ref
  BY <1>2, <1>4
<1> QED BY <1>8, <1>9

LEMMA TableTouchedGet ==
  ASSUME FsInv, NEW i, Free(i), NEW o \in Procs \union {NoProc}, NEW u,
         Touched(ilock(o, i), u, disk, disk'), i \in Inums => itable[i].ref > 0,
         i \in Inums => u[i].node = disk'[i] /\ disk'[i].type # "none",
         NEW n, itable' = iget(u, n)
  PROVE  /\ TableMove(i, o)
         /\ \A j \in Inums : /\ itable[j].ref \in Nat
                             /\ j = n => itable'[j].ref = itable[j].ref + 1
                             /\ j # n => itable'[j].ref = itable[j].ref
<1>1. IsTable(itable) /\ IsDisk(disk)
  BY DEF FsInv, FsTypes
<1> DEFINE t == ilock(o, i)
<1>2. /\ IsTable(t) /\ \A j \in Inums : j # i => t[j] = itable[j]
      /\ i \in Inums => /\ t[i].ref = itable[i].ref /\ t[i].valid
                        /\ t[i].lock = o /\ t[i].node = disk[i]
  BY <1>1, ilockAt, NodeOnDisk
<1>3. Touched(t, u, disk, disk')
  OBVIOUS
<1> HIDE DEF t
<1>4. /\ IsTable(u) /\ IsDisk(disk')
      /\ \A j \in Inums : /\ u[j].ref = t[j].ref /\ u[j].valid = t[j].valid /\ u[j].lock = t[j].lock
                          /\ \/ u[j].node = t[j].node /\ disk'[j] = disk[j]
                             \/ u[j].node = disk'[j] /\ disk'[j].type # "none"
  BY <1>3 DEF Touched
<1>5. Got(u, itable', n)
  <2>1. IsTable(u)
    BY <1>4
  <2> QED BY <2>1, igetAt
<1>6. \A j \in Inums : j = i => u[j].lock = o /\ u[j].valid /\ u[j].node = disk'[j] /\ disk'[j].type # "none"
                                /\ u[j].ref > 0
  BY <1>2, <1>4
<1>7. \A j \in Inums : j # i => u[j].lock = itable[j].lock /\ u[j].valid = itable[j].valid /\ u[j].ref = itable[j].ref
  BY <1>2, <1>4
<1>8. \A j \in Inums : j # i =>
        \/ u[j].node = disk'[j] /\ disk'[j].type # "none"
        \/ u[j].node = itable[j].node /\ disk'[j] = disk[j]
  BY <1>2, <1>4
<1>9. \A j \in Inums : j = i => itable'[j].lock = o /\ itable'[j].valid /\ itable'[j].node = disk'[j] /\ disk'[j].type # "none"
  BY <1>5, <1>6 DEF Got
<1>10. \A j \in Inums : j # i /\ itable[j].ref > 0 =>
         itable'[j].lock = itable[j].lock /\ (itable[j].valid => itable'[j].valid)
  BY <1>5, <1>7 DEF Got
<1>11. \A j \in Inums : itable'[j].valid => u[j].valid /\ itable'[j].node = u[j].node
  BY <1>5 DEF Got
<1>12. TableMove(i, o)
  <2>1. \A j \in Inums : j = i => itable'[j].lock = o /\ itable'[j].valid /\ Sound(j)'
    BY <1>9 DEF Sound
  <2>2. IsTable(itable')
    BY <1>5 DEF Got
  <2>3. \A j \in Inums : j # i /\ itable'[j].valid =>
          \/ Sound(j)'
          \/ itable[j].valid /\ itable'[j].node = itable[j].node /\ disk'[j] = disk[j]
          \/ itable[j].valid /\ disk[j].type = "none"
    BY <1>7, <1>8, <1>11 DEF Sound
  <2> QED BY <1>4, <1>10, <2>1, <2>2, <2>3 DEF TableMove
<1>13. \A j \in Inums : itable[j].ref \in Nat
  BY <1>1 DEF IsTable, IsEntry
<1>14. \A j \in Inums : u[j].ref = itable[j].ref
  BY <1>2, <1>4
<1>15. \A j \in Inums : /\ j = n => itable'[j].ref = itable[j].ref + 1
                        /\ j # n => itable'[j].ref = itable[j].ref
  BY <1>5, <1>14 DEF Got
<1> QED BY <1>12, <1>13, <1>15

\* A step that stops the kernel.
LEMMA FsInvSame ==
  ASSUME FsInv, UNCHANGED <<disk, itable, ptr, cwd, fd, work, rest, call, todo>> PROVE FsInv'
<1>1. /\ disk' = disk /\ itable' = itable /\ ptr' = ptr /\ cwd' = cwd /\ fd' = fd
      /\ work' = work /\ rest' = rest /\ call' = call /\ todo' = todo
  OBVIOUS
<1>2. \A p : Pending(p)' = Pending(p)
  BY <1>1 DEF Pending
<1>3. FsTypes'
  BY <1>1 DEF FsInv, FsTypes
<1>4. Ordered'
  BY <1>1, <1>2 DEF FsInv, Ordered
<1>5. RefsExact'
  <2>1. \A q \in Procs, c \in Cells : Held(q, c)' = Held(q, c)
    BY <1>1, <1>2 DEF Held
  <2> QED BY <1>1, <2>1, RefsSame DEF FsInv
<1>6. Clear'
  BY <1>1, <1>2 DEF FsInv, Clear
<1>7. LocksHeld' /\ LocksApart'
  BY <1>1, <1>2 DEF FsInv, Keeping, LocksHeld, LocksApart
<1>8. FirmValid' /\ FirmKept'
  BY <1>1, <1>2 DEF FsInv, Keeping, FirmValid, FirmKept
<1>9. Cached'
  <2>1. \A j \in Inums : Dropping(j) => Dropping(j)'
    BY <1>1, <1>2 DEF Dropping
  <2>2. \A j \in Inums : Sound(j) => Sound(j)'
    BY <1>1 DEF Sound
  <2> QED BY <1>1, <2>1, <2>2 DEF FsInv, Cached
<1> QED BY <1>3, <1>4, <1>5, <1>6, <1>7, <1>8, <1>9 DEF FsInv, Keeping

\* A panic stops everything.
LEMMA FailsStep ==
  ASSUME FsInv, NEW why, Fails(why) PROVE FsInv'
BY FsInvSame DEF Fails, fsVars, progVars

LEMMA NoTypeStep ==
  ASSUME FsInv, NEW p \in Procs, NoType(p) PROVE FsInv'
BY FailsStep DEF NoType

\* sys_link(), the directory.
LEMMA LinkDpStep ==
  ASSUME FsInv, NEW p \in Procs, LinkDp(p) PROVE FsInv'
<1> DEFINE i   == I(p)
           old == dirlookup(data[i], Name(p))
           up  == dirlink(data[i], Node(i).addrs, bitmap, Name(p), ptr[p].ip)
           nd  == [Node(i) EXCEPT !.addrs = up.addrs]
           op  == IF up.ok THEN "put" ELSE "link_bad"
<1>1. /\ At(p, "link_dp") /\ Free(i)
      /\ UNCHANGED <<cwd, fd, work, rest, call>>
      /\ \/ /\ itable' = iget(ilock(p, i), old)
            /\ ptr' = [ptr EXCEPT ![p]["x"] = old]
            /\ Then(p, << <<"put", "x">> >> \o UnlockPut("dp") \o << <<"link_bad", "ip">> >>)
            /\ disk' = disk
         \/ /\ itable' = [ilock(p, i) EXCEPT ![i].node = nd]
            /\ disk'   = [disk EXCEPT ![i] = nd]
            /\ Then(p, UnlockPut("dp") \o << <<op, "ip">> >>)
            /\ ptr' = ptr
  BY DEF LinkDp, fsVars, others, progVars
<1>a. op \in {"put", "link_bad"}
  OBVIOUS
<1>2. V(p) = "dp"
  BY <1>1, HeadKind, PtrOf DEF OnDp
<1>3. "link_dp" \in LastOps
  BY DEF LastOps
<1>4. FirmAt({<<"link_dp", V(p)>>}, V(p))
  BY <1>2 DEF FirmAt
<1>5. i \in Inums => itable[i].ref > 0 /\ Node(i).type # "none" /\ Node(i) = disk[i]
  BY <1>1, <1>3, <1>4, FoundLast
<1>6. i \in Inums => IsNode(nd) /\ nd.type # "none"
  <2>1. i \in Inums => IsNode(Node(i))
    BY <1>5 DEF FsInv, FsTypes, IsDisk
  <2>2. PICK m, b : m = Node(i) /\ b = up.addrs
    OBVIOUS
  <2>3. IsNode(m) => /\ IsNode([m EXCEPT !.addrs = b])
                     /\ [m EXCEPT !.addrs = b] = [type |-> m.type, nlink |-> m.nlink, addrs |-> b]
    BY NodeFields
  <2>4. IsNode(m) => [m EXCEPT !.addrs = b].type = m.type
    BY <2>3
  <2> QED BY <1>5, <2>1, <2>2, <2>3, <2>4
<1> HIDE DEF old, nd, op, up
<1>7. CASE /\ itable' = iget(ilock(p, i), old)
           /\ ptr' = [ptr EXCEPT ![p]["x"] = old]
           /\ Then(p, << <<"put", "x">> >> \o UnlockPut("dp") \o << <<"link_bad", "ip">> >>)
           /\ disk' = disk
  <2> DEFINE A == ({<<"put", "x">>} \union Unlocking("dp")) \union {<<"link_bad", "ip">>}
  <2>1. /\ Plan(<< <<"put", "x">> >> \o UnlockPut("dp") \o << <<"link_bad", "ip">> >>, A)
        /\ Onward({<<"link_dp", V(p)>>}, A, call[p], V(p), "dp")
        /\ Sets({<<"link_dp", V(p)>>}, A, V(p), "x")
    BY <1>2, PlanOf, SetsOf
  <2> HIDE DEF A
  <2>2. /\ TableMove(i, p)
        /\ \A j \in Inums : /\ itable[j].ref \in Nat
                            /\ j = old => itable'[j].ref = itable[j].ref + 1
                            /\ j # old => itable'[j].ref = itable[j].ref
    BY <1>1, <1>5, <1>7, TableGet
  <2> QED BY <1>1, <1>3, <1>4, <1>7, <2>1, <2>2, LockGet
<1>8. CASE /\ itable' = [ilock(p, i) EXCEPT ![i].node = nd]
           /\ disk'   = [disk EXCEPT ![i] = nd]
           /\ Then(p, UnlockPut("dp") \o << <<op, "ip">> >>)
           /\ ptr' = ptr
  <2>1. /\ Plan(UnlockPut("dp") \o << <<op, "ip">> >>, Unlocking("dp") \union {<<op, "ip">>})
        /\ Onward({<<"link_dp", V(p)>>}, Unlocking("dp") \union {<<op, "ip">>}, call[p], V(p), "dp")
    BY <1>2, <1>a, PlanOf, SetsOf
  <2>2. TableMove(i, p) /\ \A j \in Inums : itable'[j].ref = itable[j].ref
    <3> DEFINE t == ilock(p, i)
    <3>1. IsTable(t) /\ IsDisk(disk)
      BY ilockAt DEF FsInv, FsTypes
    <3>2. itable' = [t EXCEPT ![i].node = nd]
      BY <1>8
    <3> HIDE DEF t
    <3>3. Touched(t, t, disk, disk)
      BY <3>1, TouchNone
    <3>4. Touched(t, itable', disk, disk') /\ (i \in Inums => itable'[i].node = nd /\ disk'[i] = nd)
      <4>1. Wrote(t, itable', disk, disk', i, nd)
        BY <1>6, <1>8, <3>2 DEF Wrote
      <4> QED BY <3>3, <4>1, TouchAt
    <3>5. i \in Inums => itable'[i].node = disk'[i] /\ disk'[i].type # "none"
      BY <1>6, <3>4
    <3> QED BY <1>1, <3>4, <3>5, TableTouched DEF t
  <2> QED BY <1>1, <1>3, <1>8, <2>1, <2>2, LockKeep
<1> QED BY <1>1, <1>7, <1>8

\* The directory that unlink() and create() keep locked.
LEMMA Directory ==
  ASSUME FsInv, NEW p \in Procs, NEW op \in {"unlink_ip", "create_ip"}, At(p, op), Free(I(p)),
         ptr[p].dp \in Inums
  PROVE  LET d == ptr[p].dp IN
           /\ d # I(p) /\ itable[d].node = disk[d] /\ IsNode(disk[d]) /\ disk[d].type # "none"
<1> DEFINE d == ptr[p]["dp"]
<1>1. <<op, V(p)>> \in Pending(p) /\ V(p) = "ip"
  BY HeadKind, PtrOf DEF OnIp
<1>2. FirmAt(Pending(p), "dp") /\ LockedAt(Pending(p), "dp") /\ "dp" \in Ptrs
  BY <1>1 DEF FirmAt, LockedAt, Ptrs
<1>3. Sound(d)
  BY <1>2, FirmSound
<1>4. itable[d].lock = p
  BY <1>2 DEF FsInv, Keeping, LocksHeld
<1>5. d # I(p)
  BY <1>4, FsAssumption DEF Free
<1> QED BY <1>3, <1>5 DEF Sound, FsInv, FsTypes, IsDisk

\* sys_unlink(), the inode unlinked.
LEMMA UnlinkIpOnward ==
  ASSUME NEW c
  PROVE  LET A == (Unlocking("dp") \union {<<"nlink", "ip">>}) \union Unlocking("ip") IN
           /\ Plan(UnlockPut("dp") \o << <<"nlink", "ip">> >> \o UnlockPut("ip"), A)
           /\ Onward({<<"unlink_ip", "ip">>}, A, c, "ip", "ip")
BY PlanOf DEF Onward, Linked, UsedAt, FreedAt, LockedAt, FirmAt, Unlocking

LEMMA UnlinkIpStep ==
  ASSUME FsInv, NEW p \in Procs, UnlinkIp(p) PROVE FsInv'
<1> DEFINE i  == I(p)
           d  == ptr[p].dp
           n  == itable[d].node
           nd == IF Node(i).type = "dir" THEN [n EXCEPT !.nlink = @ - 1] ELSE n
<1>1. /\ At(p, "unlink_ip") /\ Free(i) /\ Node(i).type # "none"
      /\ \/ Fails("unlink: nlink < 1")
         \/ /\ itable' = ilock(p, i) /\ disk' = disk /\ ptr' = ptr
            /\ Then(p, UnlockPut("ip") \o UnlockPut("dp"))
            /\ UNCHANGED <<cwd, fd, work, rest, call>>
         \/ /\ disk'   = [disk EXCEPT ![d] = nd]
            /\ itable' = [ilock(p, i) EXCEPT ![d].node = nd]
            /\ Then(p, UnlockPut("dp") \o << <<"nlink", "ip">> >> \o UnlockPut("ip"))
            /\ ptr' = ptr /\ UNCHANGED <<cwd, fd, work, rest, call>>
  BY DEF UnlinkIp, fsVars, others, progVars
<1>2. V(p) = "ip"
  BY <1>1, HeadKind, PtrOf DEF OnIp
<1>3. "unlink_ip" \in LastOps
  BY DEF LastOps
<1>4. d \in Inums => d # i /\ itable[d].node = disk[d] /\ IsNode(disk[d]) /\ disk[d].type # "none"
  BY <1>1, Directory
<1>5. d \in Inums => IsNode(nd) /\ nd.type # "none"
  <2>1. PICK m, b : m = itable[d].node /\ b = m.nlink - 1
    OBVIOUS
  <2>2. nd = m \/ nd = [m EXCEPT !.nlink = b]
    BY <2>1
  <2>3. IsNode(m) => /\ IsNode([m EXCEPT !.nlink = b])
                     /\ [m EXCEPT !.nlink = b] = [type |-> m.type, nlink |-> b, addrs |-> m.addrs]
    BY NodeFields
  <2>4. IsNode(m) => [m EXCEPT !.nlink = b].type = m.type
    BY <2>3
  <2> HIDE DEF nd
  <2> QED BY <1>4, <2>1, <2>2, <2>3, <2>4
<1> HIDE DEF nd, n
<1>6. CASE Fails("unlink: nlink < 1")
  BY <1>6, FailsStep
<1>7. CASE /\ itable' = ilock(p, i) /\ disk' = disk /\ ptr' = ptr
           /\ Then(p, UnlockPut("ip") \o UnlockPut("dp"))
           /\ UNCHANGED <<cwd, fd, work, rest, call>>
  <2> DEFINE A == Unlocking("ip") \union Unlocking("dp")
  <2>1. Plan(UnlockPut("ip") \o UnlockPut("dp"), A) /\ Onward({<<"unlink_ip", V(p)>>}, A, call[p], V(p), "ip")
    BY <1>2, PlanOf, OnwardOf
  <2> HIDE DEF A
  <2> QED BY <1>1, <1>3, <1>7, <2>1, LockOnly
<1>8. CASE /\ disk'   = [disk EXCEPT ![d] = nd]
           /\ itable' = [ilock(p, i) EXCEPT ![d].node = nd]
           /\ Then(p, UnlockPut("dp") \o << <<"nlink", "ip">> >> \o UnlockPut("ip"))
           /\ ptr' = ptr /\ UNCHANGED <<cwd, fd, work, rest, call>>
  <2> DEFINE A == (Unlocking("dp") \union {<<"nlink", "ip">>}) \union Unlocking("ip")
  <2>1. /\ Plan(UnlockPut("dp") \o << <<"nlink", "ip">> >> \o UnlockPut("ip"), A)
        /\ Onward({<<"unlink_ip", V(p)>>}, A, call[p], V(p), "ip")
    BY <1>2, UnlinkIpOnward
  <2> HIDE DEF A
  <2>2. TableMove(i, p) /\ \A j \in Inums : itable'[j].ref = itable[j].ref
    <3> DEFINE t == ilock(p, i)
    <3>1. /\ IsTable(t) /\ IsDisk(disk)
          /\ i \in Inums => t[i].node = disk[i] /\ disk[i].type # "none"
      BY <1>1, ilockAt, NodeOnDisk DEF FsInv, FsTypes
    <3>2. itable' = [t EXCEPT ![d].node = nd]
      BY <1>8
    <3> HIDE DEF t, d
    <3>3. Touched(t, t, disk, disk)
      BY <3>1, TouchNone
    <3>4. /\ Touched(t, itable', disk, disk')
          /\ \A j \in Inums : j # d => itable'[j] = t[j] /\ disk'[j] = disk[j]
      <4>1. Wrote(t, itable', disk, disk', d, nd)
        BY <1>5, <1>8, <3>2 DEF Wrote
      <4> QED BY <3>3, <4>1, TouchAt
    <3>5. i \in Inums => itable'[i].node = disk'[i] /\ disk'[i].type # "none"
      BY <1>4, <3>1, <3>4
    <3> QED BY <1>1, <3>4, <3>5, TableTouched DEF t
  <2> QED BY <1>1, <1>3, <1>8, <2>1, <2>2, LockKeep
<1> QED BY <1>1, <1>6, <1>7, <1>8

\* create(), the inode made.
LEMMA CreateIpOnward ==
  ASSUME NEW c
  PROVE  /\ Onward({<<"create_ip", "ip">>}, Unlocking("ip") \union Unlocking("dp"), c, "ip", "ip")
         /\ Onward({<<"create_ip", "ip">>}, Unlocking("dp") \union Unlocking("ip"), c, "ip", "ip")
         /\ Onward({<<"create_ip", "ip">>}, Unlocking("dp") \union {<<"opened", "ip">>}, c, "ip", "ip")
<1>1. Onward({<<"create_ip", "ip">>}, Unlocking("ip") \union Unlocking("dp"), c, "ip", "ip")
  BY DEF Onward, Linked, UsedAt, FreedAt, LockedAt, FirmAt, Unlocking
<1>2. Onward({<<"create_ip", "ip">>}, Unlocking("dp") \union {<<"opened", "ip">>}, c, "ip", "ip")
  BY DEF Onward, Linked, UsedAt, FreedAt, LockedAt, FirmAt, Unlocking
<1>3. Unlocking("dp") \union Unlocking("ip") = Unlocking("ip") \union Unlocking("dp")
  OBVIOUS
<1> QED BY <1>1, <1>2, <1>3

LEMMA CreateIpStep ==
  ASSUME FsInv, NEW p \in Procs, CreateIp(p) PROVE FsInv'
<1> DEFINE i   == I(p)
           d   == ptr[p].dp
           dir == call[p].op = "mkdir"
<1>1. PICK new, up : LET nd == [itable[d].node EXCEPT !.addrs = up.addrs,
                                                      !.nlink = IF up.ok /\ dir THEN @ + 1 ELSE @]
                         ni == [type |-> IF dir THEN "dir" ELSE "file",
                                nlink |-> IF up.ok THEN 1 ELSE 0, addrs |-> new.addrs] IN
         /\ At(p, "create_ip") /\ Free(i)
         /\ itable' = [ilock(p, i) EXCEPT ![i].node = ni, ![d].node = nd]
         /\ disk'   = [disk EXCEPT ![i] = ni, ![d] = nd]
         /\ Then(p, IF ~up.ok THEN UnlockPut("ip") \o UnlockPut("dp")
                    ELSE UnlockPut("dp") \o
                         (IF dir THEN UnlockPut("ip") ELSE << <<"opened", "ip">> >>))
         /\ ptr' = ptr /\ UNCHANGED <<cwd, fd, work, rest, call>>
  BY DEF CreateIp, fsVars, others, progVars
<1> DEFINE nd == [itable[d].node EXCEPT !.addrs = up.addrs, !.nlink = IF up.ok /\ dir THEN @ + 1 ELSE @]
           ni == [type |-> IF dir THEN "dir" ELSE "file", nlink |-> IF up.ok THEN 1 ELSE 0, addrs |-> new.addrs]
<1>2. /\ At(p, "create_ip") /\ Free(i)
      /\ itable' = [ilock(p, i) EXCEPT ![i].node = ni, ![d].node = nd]
      /\ disk'   = [disk EXCEPT ![i] = ni, ![d] = nd]
      /\ ptr' = ptr /\ UNCHANGED <<cwd, fd, work, rest, call>>
      /\ \/ Then(p, UnlockPut("ip") \o UnlockPut("dp"))
         \/ Then(p, UnlockPut("dp") \o UnlockPut("ip"))
         \/ Then(p, UnlockPut("dp") \o << <<"opened", "ip">> >>)
  BY <1>1
<1>3. V(p) = "ip"
  BY <1>2, HeadKind, PtrOf DEF OnIp
<1>4. "create_ip" \in LastOps
  BY DEF LastOps
<1>5. d \in Inums => d # i /\ itable[d].node = disk[d] /\ IsNode(disk[d]) /\ disk[d].type # "none"
  BY <1>2, Directory
<1>6. d \in Inums => IsNode(nd) /\ nd.type # "none"
  <2>1. PICK m : m = itable[d].node
    OBVIOUS
  <2>2. PICK a, l : a = up.addrs /\ l = IF up.ok /\ dir THEN m.nlink + 1 ELSE m.nlink
    OBVIOUS
  <2>3. ASSUME IsNode(m) PROVE nd = [type |-> m.type, nlink |-> l, addrs |-> a]
    <3>1. PICK b : b = [m EXCEPT !.addrs = a]
      OBVIOUS
    <3>2. IsNode(b) /\ b = [type |-> m.type, nlink |-> m.nlink, addrs |-> a]
      BY <2>3, <3>1, NodeFields
    <3>3. [b EXCEPT !.nlink = l] = [type |-> b.type, nlink |-> l, addrs |-> b.addrs]
      BY <3>2, NodeFields
    <3>4. [m EXCEPT !.addrs = a, !.nlink = l] = [[m EXCEPT !.addrs = a] EXCEPT !.nlink = l]
      OBVIOUS
    <3>5. nd = [m EXCEPT !.addrs = a, !.nlink = l]
      BY <2>1, <2>2, Zenon
    <3>6. b.type = m.type /\ b.addrs = a
      BY <3>2
    <3> QED BY <3>1, <3>3, <3>4, <3>5, <3>6, Zenon
  <2> HIDE DEF nd
  <2>4. IsNode(m) => nd.type = m.type /\ IsNode(nd)
    BY <2>3 DEF IsNode
  <2> QED BY <1>5, <2>1, <2>4
<1>7. IsNode(ni) /\ ni.type # "none"
  BY DEF IsNode
<1> HIDE DEF nd, ni
<1>8. TableMove(i, p) /\ \A j \in Inums : itable'[j].ref = itable[j].ref
  <2> DEFINE t == ilock(p, i)
             u == [t EXCEPT ![i].node = ni]
             e == [disk EXCEPT ![i] = ni]
  <2>1. IsTable(t) /\ IsDisk(disk)
    BY ilockAt DEF FsInv, FsTypes
  <2>2. itable' = [u EXCEPT ![d].node = nd] /\ disk' = [e EXCEPT ![d] = nd]
    BY <1>2
  <2> HIDE DEF t, d, i
  <2>3. Touched(t, t, disk, disk)
    BY <2>1, TouchNone
  <2>a. Wrote(t, u, disk, e, i, ni)
    BY <1>7 DEF Wrote
  <2> HIDE DEF u, e
  <2>4. Touched(t, u, disk, e) /\ (i \in Inums => u[i].node = ni /\ e[i] = ni)
    BY <2>3, <2>a, TouchAt
  <2>5. /\ Touched(t, itable', disk, disk')
        /\ \A j \in Inums : j # d => itable'[j] = u[j] /\ disk'[j] = e[j]
    <3>1. Wrote(u, itable', e, disk', d, nd)
      BY <1>6, <2>2 DEF Wrote
    <3> QED BY <2>4, <3>1, TouchAt
  <2>6. Touched(t, itable', disk, disk')
    BY <2>5
  <2>7. i \in Inums => itable'[i] = u[i] /\ disk'[i] = e[i]
    BY <1>5, <2>2, <2>5
  <2>8. i \in Inums => itable'[i].node = disk'[i] /\ disk'[i].type # "none"
    BY <1>7, <2>4, <2>7
  <2> QED BY <1>2, <2>6, <2>8, TableTouched DEF t
<1>9. PICK ops, A : /\ Plan(ops, A) /\ Then(p, ops)
                    /\ Onward({<<"create_ip", V(p)>>}, A, call[p], V(p), "ip")
  <2>1. CASE Then(p, UnlockPut("ip") \o UnlockPut("dp"))
    <3>1. Plan(UnlockPut("ip") \o UnlockPut("dp"), Unlocking("ip") \union Unlocking("dp"))
      BY PlanOf
    <3> QED BY <1>3, <2>1, <3>1, CreateIpOnward
  <2>2. CASE Then(p, UnlockPut("dp") \o UnlockPut("ip"))
    <3>1. Plan(UnlockPut("dp") \o UnlockPut("ip"), Unlocking("dp") \union Unlocking("ip"))
      BY PlanOf
    <3> QED BY <1>3, <2>2, <3>1, CreateIpOnward
  <2>3. CASE Then(p, UnlockPut("dp") \o << <<"opened", "ip">> >>)
    <3>1. Plan(UnlockPut("dp") \o << <<"opened", "ip">> >>, Unlocking("dp") \union {<<"opened", "ip">>})
      BY PlanOf
    <3> QED BY <1>3, <2>3, <3>1, CreateIpOnward
  <2> QED BY <1>2, <2>1, <2>2, <2>3
<1> QED BY <1>2, <1>4, <1>8, <1>9, LockKeep

-----------------------------------------------------------------------------
(* Paths.                                                                  *)

\* The plan of a path: its walks and the step they are for.
LEMMA PlanRounds ==
  ASSUME NEW v \in {"ip", "dp"}, NEW names \in Seq(STRING)
  PROVE  \E W \in SUBSET {<<"walk", v>>} : Plan(Rounds(v, names), W)
<1> DEFINE s == Rounds(v, names)
<1>1. s = [k \in 1..Len(names) |-> <<"walk", v, names[k]>>] /\ Len(names) \in Nat
  BY DEF Rounds
<1>2. \A k \in 1..Len(names) : s[k] \in {"walk"} \X {"ip", "dp"} \X STRING
  BY <1>1
<1>3. s \in Seq(Items) /\ DOMAIN s = 1..Len(names)
  BY <1>1, <1>2 DEF Items
<1>4. \A k \in DOMAIN s : Kind(s[k]) = <<"walk", v>>
  BY <1>1 DEF Kind
<1> HIDE DEF s
<1>5. Kinds(s) \subseteq {<<"walk", v>>}
  BY <1>4 DEF Kinds
<1>6. Before(<<"walk", v>>, <<"walk", v>>)
  BY DEF Before, HeadOnly, LastOps, Puts, AfterWalk
<1>7. Tidy(s)
  BY <1>4, <1>6 DEF Tidy
<1> QED BY <1>3, <1>5, <1>7 DEF Plan, s

LEMMA NamesOf ==
  /\ \A path \in Paths : Names(path) \in Seq(STRING)
  /\ \A path \in Named : path \in Paths /\ Front(Names(path)) \in Seq(STRING)
<1>1. ASSUME NEW path \in Paths PROVE Names(path) \in Seq(STRING)
  <2>1. path \in Seq(STRING) /\ path # <<>>
    BY DEF Paths
  <2>2. Tail(path) \in Seq(STRING)
    BY <2>1, HeadTailProperties
  <2> QED BY <2>1, <2>2 DEF Names
<1>2. ASSUME NEW path \in Named PROVE path \in Paths /\ Front(Names(path)) \in Seq(STRING)
  <2>1. path \in Paths /\ Names(path) # <<>>
    BY DEF Named
  <2>2. PICK s \in Seq(STRING) : s = Names(path) /\ s # <<>>
    BY <1>1, <2>1
  <2>3. SubSeq(s, 1, Len(s) - 1) \in Seq(STRING)
    BY <2>2
  <2>4. Front(s) = SubSeq(s, 1, Len(s) - 1)
    BY DEF Front
  <2> QED BY <2>1, <2>2, <2>3, <2>4
<1> QED BY <1>1, <1>2

LEMMA PlanParent ==
  ASSUME NEW path \in Named, NEW op \in {"unlink_dp", "create_dp", "link_dp"}
  PROVE  \E W \in SUBSET {<<"walk", "dp">>} :
           Plan(nameiparent("dp", path) \o << <<op, "dp">> >>, (W \union {<<"parent", "dp">>}) \union {<<op, "dp">>})
<1>1. PICK W \in SUBSET {<<"walk", "dp">>} : Plan(Rounds("dp", Front(Names(path))), W)
  BY NamesOf, PlanRounds
<1>2. <<"parent", "dp">> \in KindSet /\ <<op, "dp">> \in KindSet
  BY DEF KindSet, OnDp
<1>3. Plan(<< <<"parent", "dp">> >>, {<<"parent", "dp">>}) /\ Plan(<< <<op, "dp">> >>, {<<op, "dp">>})
  BY <1>2, PlanOne
<1>4. \A a \in W : \A b \in {<<"parent", "dp">>} : Before(a, b)
  BY DEF Before, HeadOnly, LastOps, Puts, AfterWalk
<1>5. \A a \in W \union {<<"parent", "dp">>} : \A b \in {<<op, "dp">>} : Before(a, b)
  BY DEF Before, HeadOnly, LastOps, Puts, AfterWalk
<1>6. Plan(nameiparent("dp", path), W \union {<<"parent", "dp">>})
  BY <1>1, <1>3, <1>4, PlanConcat DEF nameiparent
<1>7. Plan(nameiparent("dp", path) \o << <<op, "dp">> >>, (W \union {<<"parent", "dp">>}) \union {<<op, "dp">>})
  BY <1>3, <1>5, <1>6, PlanConcat
<1> QED BY <1>7

LEMMA PlanNamei ==
  ASSUME NEW path \in Paths, NEW op \in {"open_ip", "chdir_ip", "link_ip"}
  PROVE  \E W \in SUBSET {<<"walk", "ip">>} : Plan(namei("ip", path) \o << <<op, "ip">> >>, W \union {<<op, "ip">>})
<1>1. PICK W \in SUBSET {<<"walk", "ip">>} : Plan(Rounds("ip", Names(path)), W)
  BY NamesOf, PlanRounds
<1>2. <<op, "ip">> \in KindSet
  BY DEF KindSet, OnIp
<1>3. Plan(<< <<op, "ip">> >>, {<<op, "ip">>})
  BY <1>2, PlanOne
<1>4. \A a \in W : \A b \in {<<op, "ip">>} : Before(a, b)
  BY DEF Before, HeadOnly, LastOps, Puts, AfterWalk
<1>5. Plan(namei("ip", path) \o << <<op, "ip">> >>, W \union {<<op, "ip">>})
  BY <1>1, <1>3, <1>4, PlanConcat DEF namei
<1> QED BY <1>5

LEMMA RequestOf ==
  ASSUME NEW c \in Requests
  PROVE  /\ c.op = "link" => c.path \in Paths /\ c.new \in Named
         /\ c.op \in {"open", "chdir"} => c.path \in Paths
         /\ c.op \in {"unlink", "creat", "mkdir"} => c.path \in Named
BY DEF Requests

\* sys_link(), the inode linked.
LEMMA LinkIpOnward ==
  ASSUME NEW W \in SUBSET {<<"walk", "dp">>}, NEW c, c.op = "link"
  PROVE  LET A == (W \union {<<"parent", "dp">>}) \union {<<"link_dp", "dp">>} IN
           /\ Onward({<<"link_ip", "ip">>}, A, c, "ip", "none")
           /\ Sets({<<"link_ip", "ip">>}, A, "ip", "dp")
<1> DEFINE A == (W \union {<<"parent", "dp">>}) \union {<<"link_dp", "dp">>}
<1>1. Onward({<<"link_ip", "ip">>}, A, c, "ip", "none")
  BY DEF Onward, Linked, UsedAt, FreedAt, LockedAt, FirmAt
<1>2. Sets({<<"link_ip", "ip">>}, A, "ip", "dp")
  BY DEF Sets, UsedAt, LockedAt, FirmAt, Ptrs
<1> QED BY <1>1, <1>2

LEMMA LinkIpStep ==
  ASSUME FsInv, NEW p \in Procs, LinkIp(p) PROVE FsInv'
<1> DEFINE i   == I(p)
           up  == [Node(i) EXCEPT !.nlink = @ + 1]
           d   == From(p, call[p].new)
           ops == nameiparent("dp", call[p].new) \o << <<"link_dp", "dp">> >>
<1>1. /\ At(p, "link_ip") /\ Free(i) /\ Node(i).type # "none"
      /\ UNCHANGED <<cwd, fd, work, rest, call>>
      /\ \/ itable' = ilock(NoProc, i) /\ Only(p, << <<"put", "ip">> >>) /\ disk' = disk /\ ptr' = ptr
         \/ /\ disk'   = [disk EXCEPT ![i] = up]
            /\ itable' = iget([ilock(NoProc, i) EXCEPT ![i].node = up], d)
            /\ ptr'    = [ptr EXCEPT ![p]["dp"] = d]
            /\ Only(p, ops)
  BY DEF LinkIp, fsVars, others, progVars
<1>2. V(p) = "ip"
  BY <1>1, HeadKind, PtrOf DEF OnIp
<1>3. "link_ip" \in LastOps /\ "none" \notin Ptrs
  BY DEF LastOps, Ptrs
<1>4. i \in Inums => itable[i].ref > 0 /\ Node(i) = disk[i]
  BY <1>1, <1>3, FoundLast
<1>5. i \in Inums => IsNode(up) /\ up.type # "none"
  <2>1. i \in Inums => IsNode(Node(i))
    BY <1>4 DEF FsInv, FsTypes, IsDisk
  <2>2. PICK m, b : m = Node(i) /\ b = m.nlink + 1
    OBVIOUS
  <2>3. IsNode(m) => /\ IsNode([m EXCEPT !.nlink = b])
                     /\ [m EXCEPT !.nlink = b] = [type |-> m.type, nlink |-> b, addrs |-> m.addrs]
    BY NodeFields
  <2>4. IsNode(m) => [m EXCEPT !.nlink = b].type = m.type
    BY <2>3
  <2>5. up = [m EXCEPT !.nlink = b]
    BY <2>2
  <2> HIDE DEF up
  <2> QED BY <1>1, <2>1, <2>2, <2>3, <2>4, <2>5
<1>6. call[p].op = "link" /\ call[p].new \in Named
  <2>1. Linked(Pending(p), call[p]) /\ call[p] \in Requests \union {NoCall}
    BY DEF FsInv, Ordered, FsTypes
  <2>2. <<"link_ip", "ip">> \in Pending(p)
    BY <1>1, <1>2, HeadKind
  <2>3. call[p].op = "link"
    BY <2>1, <2>2 DEF Linked
  <2> QED BY <2>1, <2>3, RequestOf DEF NoCall
<1> HIDE DEF d, ops, up
<1>7. CASE itable' = ilock(NoProc, i) /\ Only(p, << <<"put", "ip">> >>) /\ disk' = disk /\ ptr' = ptr
  <2>1. /\ Plan(<< <<"put", "ip">> >>, {<<"put", "ip">>})
        /\ Onward({<<"link_ip", V(p)>>}, {<<"put", "ip">>}, call[p], V(p), "none")
    BY <1>2, PlanOf, OnwardOf
  <2> QED BY <1>1, <1>3, <1>7, <2>1, LockOnly
<1>8. CASE /\ disk'   = [disk EXCEPT ![i] = up]
           /\ itable' = iget([ilock(NoProc, i) EXCEPT ![i].node = up], d)
           /\ ptr'    = [ptr EXCEPT ![p]["dp"] = d]
           /\ Only(p, ops)
  <2>1. PICK W \in SUBSET {<<"walk", "dp">>} :
          Plan(ops, (W \union {<<"parent", "dp">>}) \union {<<"link_dp", "dp">>})
    BY <1>6, PlanParent DEF ops
  <2> DEFINE A == (W \union {<<"parent", "dp">>}) \union {<<"link_dp", "dp">>}
  <2>2. /\ Onward({<<"link_ip", V(p)>>}, A, call[p], V(p), "none")
        /\ Sets({<<"link_ip", V(p)>>}, A, V(p), "dp")
    BY <1>2, <1>6, LinkIpOnward
  <2>3. Plan(ops, A)
    BY <2>1
  <2> HIDE DEF A
  <2>4. /\ TableMove(i, NoProc)
        /\ \A j \in Inums : /\ itable[j].ref \in Nat
                            /\ j = d => itable'[j].ref = itable[j].ref + 1
                            /\ j # d => itable'[j].ref = itable[j].ref
    <3> DEFINE t == ilock(NoProc, i)
               u == [t EXCEPT ![i].node = up]
    <3>1. IsTable(t) /\ IsDisk(disk)
      BY ilockAt DEF FsInv, FsTypes
    <3>2. itable' = iget(u, d)
      BY <1>8
    <3> HIDE DEF t
    <3>3. Touched(t, t, disk, disk)
      BY <3>1, TouchNone
    <3>a. Wrote(t, u, disk, disk', i, up)
      BY <1>5, <1>8 DEF Wrote
    <3> HIDE DEF u
    <3>4. Touched(t, u, disk, disk') /\ (i \in Inums => u[i].node = up /\ disk'[i] = up)
      BY <3>3, <3>a, TouchAt
    <3>5. i \in Inums => u[i].node = disk'[i] /\ disk'[i].type # "none"
      BY <1>5, <3>4
    <3> QED BY <1>1, <1>4, <3>2, <3>4, <3>5, TableTouchedGet DEF t
  <2> QED BY <1>1, <1>3, <1>8, <2>2, <2>3, <2>4, LockGet
<1> QED BY <1>1, <1>7, <1>8

-----------------------------------------------------------------------------
(* Steps that take no lock.                                                *)

\* What such a step of p does to its plan and its pointers.
Inherit(K, L, P, Q, c) ==
  /\ Linked(L, c)
  /\ \A v \in Ptrs : ~UsedAt(L, v) => Q[v] \notin Inums
  /\ \A v \in Ptrs : <<"drop", v>> \notin K /\ ~FreedAt(L, v)
  /\ \A v \in Ptrs : LockedAt(L, v) /\ Q[v] \in Inums => LockedAt(K, v) /\ Q[v] = P[v]
  /\ \A v \in Ptrs : FirmAt(L, v) /\ Q[v] \in Inums => FirmAt(K, v) /\ Q[v] = P[v]

\* What it does to the table.
Local(p) ==
  /\ \A q \in Procs, v \in Ptrs :
       q # p /\ ptr[q][v] \in Inums /\ itable[ptr[q][v]].lock = q => itable'[ptr[q][v]].lock = q
  /\ \A v \in Ptrs : LockedAt(Pending(p)', v) /\ ptr'[p][v] \in Inums => itable'[ptr'[p][v]].lock = p
  /\ \A q \in Procs, v \in Ptrs :
       FirmAt(Pending(q)', v) /\ ptr'[q][v] \in Inums => itable'[ptr'[q][v]].valid
  /\ \A j \in Inums : itable'[j].valid => Sound(j)' \/ Dropping(j)

\* A step of p that goes on with what p has, and takes no lock.
LEMMA LocalStep ==
  ASSUME FsInv, NEW p \in Procs, Turn(p), Points(p), FsTypes', RefsExact',
         \A q \in Procs : q # p => call'[q] = call[q],
         Inherit(Pending(p), Pending(p)', ptr[p], ptr'[p], call'[p]), Local(p)
  PROVE  FsInv'
<1>1. \A q \in Procs : q # p => Pending(q)' = Pending(q) /\ ptr'[q] = ptr[q]
  BY DEF Turn, Points
<1>2. PICK K, L, P, Q, c : /\ K = Pending(p) /\ L = Pending(p)' /\ P = ptr[p] /\ Q = ptr'[p] /\ c = call'[p]
                           /\ Inherit(K, L, P, Q, c)
  OBVIOUS
<1>3. /\ Linked(L, c)
      /\ \A v \in Ptrs : ~UsedAt(L, v) => Q[v] \notin Inums
      /\ \A v \in Ptrs : <<"drop", v>> \notin K /\ ~FreedAt(L, v)
      /\ \A v \in Ptrs : LockedAt(L, v) /\ Q[v] \in Inums => LockedAt(K, v) /\ Q[v] = P[v]
      /\ \A v \in Ptrs : FirmAt(L, v) /\ Q[v] \in Inums => FirmAt(K, v) /\ Q[v] = P[v]
  BY <1>2 DEF Inherit
<1>4. \A v \in Ptrs : ~UsedAt(Pending(p)', v) => ptr'[p][v] \notin Inums
  BY <1>2, <1>3
<1>5. \A v \in Ptrs : <<"drop", v>> \notin Pending(p) /\ ~FreedAt(Pending(p)', v)
  BY <1>2, <1>3
<1>6. \A v \in Ptrs : LockedAt(Pending(p)', v) /\ ptr'[p][v] \in Inums =>
        LockedAt(Pending(p), v) /\ ptr'[p][v] = ptr[p][v]
  BY <1>2, <1>3
<1>7. \A v \in Ptrs : FirmAt(Pending(p)', v) /\ ptr'[p][v] \in Inums =>
        FirmAt(Pending(p), v) /\ ptr'[p][v] = ptr[p][v]
  BY <1>2, <1>3
<1>8. Linked(Pending(p)', call'[p])
  BY <1>2, <1>3
<1>9. /\ \A q \in Procs, v \in Ptrs :
           q # p /\ ptr[q][v] \in Inums /\ itable[ptr[q][v]].lock = q => itable'[ptr[q][v]].lock = q
      /\ \A v \in Ptrs : LockedAt(Pending(p)', v) /\ ptr'[p][v] \in Inums => itable'[ptr'[p][v]].lock = p
      /\ \A q \in Procs, v \in Ptrs :
           FirmAt(Pending(q)', v) /\ ptr'[q][v] \in Inums => itable'[ptr'[q][v]].valid
      /\ \A j \in Inums : itable'[j].valid => Sound(j)' \/ Dropping(j)
  BY DEF Local
<1>10. \A q \in Procs, v \in Ptrs :
         q # p /\ FirmAt(Pending(q), v) /\ ptr[q][v] \in Inums =>
           /\ itable'[ptr[q][v]].valid
           /\ \A w \in Ptrs : FreedAt(Pending(p)', w) => ptr[q][v] # ptr'[p][w]
  BY <1>1, <1>5, <1>9
<1>11. \A v, w \in Ptrs : LockedAt(Pending(p)', v) /\ LockedAt(Pending(p)', w) /\ v # w
                          /\ ptr'[p][v] \in Inums => ptr'[p][v] # ptr'[p][w]
  <2> SUFFICES ASSUME NEW v \in Ptrs, NEW w \in Ptrs, LockedAt(Pending(p)', v), LockedAt(Pending(p)', w),
                      v # w, ptr'[p][v] \in Inums, ptr'[p][v] = ptr'[p][w]
               PROVE  FALSE
    OBVIOUS
  <2>1. /\ LockedAt(Pending(p), v) /\ ptr'[p][v] = ptr[p][v]
        /\ LockedAt(Pending(p), w) /\ ptr'[p][w] = ptr[p][w]
    BY <1>6
  <2> QED BY <2>1 DEF FsInv, Keeping, LocksApart
<1>12. \A v \in Ptrs : FirmAt(Pending(p)', v) /\ ptr'[p][v] \in Inums =>
           /\ itable'[ptr'[p][v]].valid
           /\ \A w \in Ptrs : FreedAt(Pending(p)', w) => ptr'[p][v] # ptr'[p][w]
           /\ \A q \in Procs, w \in Ptrs : q # p /\ FreedAt(Pending(q), w) => ptr'[p][v] # ptr[q][w]
  <2> SUFFICES ASSUME NEW v \in Ptrs, FirmAt(Pending(p)', v), ptr'[p][v] \in Inums
               PROVE  /\ itable'[ptr'[p][v]].valid
                      /\ \A w \in Ptrs : FreedAt(Pending(p)', w) => ptr'[p][v] # ptr'[p][w]
                      /\ \A q \in Procs, w \in Ptrs : q # p /\ FreedAt(Pending(q), w) => ptr'[p][v] # ptr[q][w]
    OBVIOUS
  <2>1. FirmAt(Pending(p), v) /\ ptr'[p][v] = ptr[p][v]
    BY <1>7
  <2>2. \A q \in Procs, w \in Ptrs : FreedAt(Pending(q), w) => ptr[p][v] # ptr[q][w]
    BY <2>1 DEF FsInv, Keeping, FirmKept
  <2>3. itable'[ptr'[p][v]].valid
    BY <1>9
  <2>4. \A w \in Ptrs : ~FreedAt(Pending(p)', w)
    BY <1>5
  <2>5. \A q \in Procs, w \in Ptrs : FreedAt(Pending(q), w) => ptr'[p][v] # ptr[q][w]
    BY <2>1, <2>2
  <2> QED BY <2>3, <2>4, <2>5
<1>13. Keeping'
  BY <1>1, <1>9, <1>10, <1>11, <1>12, KeepingStep
<1>14. Cached'
  <2>1. \A v \in Ptrs : <<"drop", v>> \in Pending(p) /\ ptr[p][v] \in Inums => ~itable'[ptr[p][v]].valid
    BY <1>5
  <2>2. \A j \in Inums : itable'[j].valid => Sound(j)' \/ Dropping(j) \/ Dropping(j)'
    BY <1>9
  <2> QED BY <1>1, <1>9, <2>1, <2>2, CachedStep
<1>15. Clear'
  BY <1>1, <1>4, ClearStep
<1>16. Ordered'
  BY <1>8, OrderedStep
<1> QED BY <1>13, <1>14, <1>15, <1>16 DEF FsInv

\* u is t with lock d given to o.
Relocked(t, u, d, o) ==
  /\ IsTable(u) /\ \A j \in Inums : j # d => u[j] = t[j]
  /\ d \in Inums => /\ u[d].ref = t[d].ref /\ u[d].valid = t[d].valid
                     /\ u[d].node = t[d].node /\ u[d].lock = o

\* The change of a lock.
LEMMA LockAt ==
  ASSUME NEW t, IsTable(t), NEW d, NEW o \in Procs \union {NoProc}
  PROVE  Relocked(t, [t EXCEPT ![d].lock = o], d, o)
<1> DEFINE u == [t EXCEPT ![d].lock = o]
<1>1. DOMAIN u = Inums /\ \A j \in Inums : j # d => u[j] = t[j]
  BY DEF IsTable
<1>2. ASSUME d \in Inums PROVE u[d] = [t[d] EXCEPT !.lock = o] /\ IsEntry(t[d])
  BY <1>2 DEF IsTable
<1> HIDE DEF u
<1>3. ASSUME d \in Inums
      PROVE  IsEntry(u[d]) /\ u[d] = [ref |-> t[d].ref, valid |-> t[d].valid, lock |-> o, node |-> t[d].node]
  <2>1. PICK e : e = t[d] /\ IsEntry(e) /\ u[d] = [e EXCEPT !.lock = o]
    BY <1>2, <1>3, Zenon
  <2>2. /\ IsEntry([e EXCEPT !.lock = o])
        /\ [e EXCEPT !.lock = o] = [ref |-> e.ref, valid |-> e.valid, lock |-> o, node |-> e.node]
    BY <2>1, EntryFields
  <2> QED BY <2>1, <2>2, Zenon
<1>4. IsTable(u)
  BY <1>1, <1>3 DEF IsTable
<1>5. ASSUME d \in Inums
      PROVE  u[d].ref = t[d].ref /\ u[d].valid = t[d].valid /\ u[d].lock = o /\ u[d].node = t[d].node
  BY <1>3, <1>5, EntryIs
<1>6. Relocked(t, u, d, o)
  BY <1>1, <1>4, <1>5 DEF Relocked
<1> QED BY <1>6 DEF u

\* The step op at pointer v comes before T, which is K without it; P are the pointers.
Heads(K, op, v, T, P, c) ==
  /\ T \in SUBSET KindSet /\ v \in Ptrs /\ K = {<<op, v>>} \union T
  /\ \A b \in T : Before(<<op, v>>, b)
  /\ Linked(K, c)
  /\ \A w \in Ptrs : ~UsedAt(K, w) => P[w] \notin Inums

\* iunlock().
LEMMA UnlockInherit ==
  ASSUME NEW T, NEW v, NEW P, NEW c, NEW K, Heads(K, "unlock", v, T, P, c)
  PROVE  /\ Inherit(K, T, P, P, c) /\ LockedAt(K, v)
         /\ \A w \in Ptrs : LockedAt(T, w) => w # v /\ LockedAt(K, w)
         /\ <<"cwd", "ip">> \in K <=> <<"cwd", "ip">> \in T
<1>0. /\ T \in SUBSET KindSet /\ v \in Ptrs /\ K = {<<"unlock", v>>} \union T
      /\ \A b \in T : Before(<<"unlock", v>>, b)
      /\ Linked(K, c)
      /\ \A w \in Ptrs : ~UsedAt(K, w) => P[w] \notin Inums
  BY DEF Heads
<1>1. \A b \in T : /\ b[1] \notin {"free", "drop", "deref", "unlink_ip", "create_ip"}
                   /\ ~(b[2] = v /\ b[1] \in {"unlock", "opened", "nlink"})
  BY <1>0 DEF Before, HeadOnly
<1>2. \A w \in Ptrs : LockedAt(T, w) => w # v /\ LockedAt(K, w)
  BY <1>0, <1>1 DEF LockedAt
<1>3. \A w \in Ptrs : FirmAt(T, w) => FirmAt(K, w)
  BY <1>0 DEF FirmAt
<1>4. \A w \in Ptrs : UsedAt(K, w) <=> UsedAt(T, w)
  BY <1>0 DEF UsedAt
<1>5. \A w \in Ptrs : <<"drop", w>> \notin K /\ ~FreedAt(T, w)
  BY <1>0, <1>1 DEF FreedAt
<1>6. Linked(T, c)
  BY <1>0 DEF Linked
<1>7. LockedAt(K, v)
  BY <1>0 DEF LockedAt
<1> QED BY <1>0, <1>2, <1>3, <1>4, <1>5, <1>6, <1>7 DEF Inherit

\* iunlock().
LEMMA UnlockStep ==
  ASSUME FsInv, NEW p \in Procs, Unlock(p) PROVE FsInv'
<1> DEFINE i == I(p)
<1>1. /\ At(p, "unlock") /\ itable' = [itable EXCEPT ![i].lock = NoProc] /\ Then(p, <<>>)
      /\ disk' = disk /\ ptr' = ptr /\ cwd' = cwd /\ fd' = fd /\ work' = work /\ rest' = rest /\ call' = call
  BY DEF Unlock, fsVars, others, progVars
<1>2. FsTypes /\ RefsExact /\ Linked(Pending(p), call[p])
      /\ \A w \in Ptrs : ~UsedAt(Pending(p), w) => ptr[p][w] \notin Inums
  BY DEF FsInv, Ordered, Clear
<1>3. /\ <<"unlock", V(p)>> \in KindSet /\ Turn(p)
      /\ \E T \in SUBSET KindSet :
           /\ Pending(p) = {<<"unlock", V(p)>>} \union T
           /\ \A b \in T : Before(<<"unlock", V(p)>>, b)
           /\ Pending(p)' = {} \union T
  BY <1>1, PlanNone, Proceed
<1>4. PICK T, v, K, P, c :
        /\ T \in SUBSET KindSet /\ v = V(p) /\ K = Pending(p) /\ P = ptr[p] /\ c = call[p] /\ K = {<<"unlock", v>>} \union T
        /\ \A b \in T : Before(<<"unlock", v>>, b)
        /\ Pending(p)' = T
  BY <1>3
<1>5. v \in Ptrs /\ i = P[v]
  BY <1>3, <1>4, PtrOf DEF I
<1>6. /\ Inherit(K, T, P, P, c) /\ LockedAt(K, v)
      /\ \A w \in Ptrs : LockedAt(T, w) => w # v /\ LockedAt(K, w)
      /\ <<"cwd", "ip">> \in K <=> <<"cwd", "ip">> \in T
  <2>1. \A w \in Ptrs : ~UsedAt(K, w) => P[w] \notin Inums
    BY <1>2, <1>4
  <2>2. Heads(K, "unlock", v, T, P, c)
    BY <1>2, <1>4, <1>5, <2>1 DEF Heads
  <2> QED BY <2>2, UnlockInherit
<1>7. /\ IsTable(itable') /\ \A j \in Inums : j # i => itable'[j] = itable[j]
      /\ i \in Inums => /\ itable'[i].ref = itable[i].ref /\ itable'[i].valid = itable[i].valid
                        /\ itable'[i].node = itable[i].node /\ itable[i].lock = p
  <2>1. IsTable(itable)
    BY <1>2 DEF FsTypes
  <2>2. i \in Inums => itable[i].lock = p
    BY <1>4, <1>5, <1>6 DEF FsInv, Keeping, LocksHeld
  <2>3. Relocked(itable, itable', i, NoProc)
    BY <1>1, <2>1, LockAt
  <2> QED BY <2>2, <2>3 DEF Relocked
<1> HIDE DEF i
<1>8. \A j \in Inums : itable'[j].ref = itable[j].ref /\ itable'[j].valid = itable[j].valid
                       /\ itable'[j].node = itable[j].node
  BY <1>7
<1>9. Local(p)
  <2>1. \A q \in Procs, w \in Ptrs :
          q # p /\ ptr[q][w] \in Inums /\ itable[ptr[q][w]].lock = q => itable'[ptr[q][w]].lock = q
    BY <1>7
  <2>2. ASSUME NEW w \in Ptrs, LockedAt(Pending(p)', w), ptr'[p][w] \in Inums
        PROVE  itable'[ptr'[p][w]].lock = p
    <3>1. w # v /\ LockedAt(Pending(p), w) /\ ptr[p][w] \in Inums /\ ptr'[p][w] = ptr[p][w]
      BY <1>1, <1>4, <1>6, <2>2
    <3>2. itable[ptr[p][w]].lock = p /\ ptr[p][w] # i
      BY <1>4, <1>5, <1>6, <3>1 DEF FsInv, Keeping, LocksHeld, LocksApart
    <3> QED BY <1>7, <3>1, <3>2
  <2>3. ASSUME NEW q \in Procs, NEW w \in Ptrs, FirmAt(Pending(q)', w), ptr'[q][w] \in Inums
        PROVE  itable'[ptr'[q][w]].valid
    <3>1. FirmAt(Pending(q), w) /\ ptr'[q][w] = ptr[q][w]
      <4>1. CASE q = p
        BY <1>1, <1>4, <1>6, <2>3, <4>1 DEF Inherit
      <4>2. CASE q # p
        BY <1>1, <1>3, <2>3, <4>2 DEF Turn
      <4> QED BY <4>1, <4>2
    <3>2. itable[ptr[q][w]].valid
      BY <2>3, <3>1 DEF FsInv, Keeping, FirmValid
    <3> QED BY <1>8, <2>3, <3>1, <3>2
  <2>4. \A j \in Inums : itable'[j].valid => Sound(j)' \/ Dropping(j)
    BY <1>1, <1>8 DEF FsInv, Cached, Sound
  <2> QED BY <2>1, <2>2, <2>3, <2>4 DEF Local
<1>10. RefsExact'
  <2>1. <<"cwd", "ip">> \in Pending(p)' <=> <<"cwd", "ip">> \in Pending(p)
    BY <1>4, <1>6
  <2> QED BY <1>1, <1>2, <1>3, <1>8, <2>1, RefsAlone DEF Turn
<1>11. Points(p) /\ FsTypes'
  BY <1>1, <1>2, <1>7 DEF FsTypes, Points
<1>12. Inherit(Pending(p), Pending(p)', ptr[p], ptr'[p], call'[p])
  BY <1>1, <1>4, <1>6
<1>13. \A q \in Procs : q # p => call'[q] = call[q]
  BY <1>1
<1> QED BY <1>3, <1>9, <1>10, <1>11, <1>12, <1>13, LocalStep

\* iput() up to where it gives a reference back.
Dropped(t, u, d) ==
  /\ IsTable(u) /\ \A j \in Inums : j # d => u[j] = t[j]
  /\ d \in Inums => /\ u[d].ref = t[d].ref - 1
                    /\ t[d].ref > 1 => /\ u[d].valid = t[d].valid /\ u[d].lock = t[d].lock
                                       /\ u[d].node = t[d].node
                    /\ t[d].ref = 1 => u[d].valid = FALSE

\* The change of a count.
LEMMA FewerAt ==
  ASSUME NEW t, IsTable(t), NEW d, d \in Inums => t[d].ref > 0
  PROVE  Dropped(t, [t EXCEPT ![d] = Fewer(@)], d)
<1> DEFINE u == [t EXCEPT ![d] = Fewer(@)]
<1>1. DOMAIN u = Inums /\ \A j \in Inums : j # d => u[j] = t[j]
  BY DEF IsTable
<1>2. ASSUME d \in Inums PROVE u[d] = Fewer(t[d]) /\ IsEntry(t[d])
  BY <1>2 DEF IsTable
<1> HIDE DEF u
<1>3. ASSUME d \in Inums
      PROVE  /\ IsEntry(u[d]) /\ u[d].ref = t[d].ref - 1
             /\ t[d].ref > 1 => u[d].valid = t[d].valid /\ u[d].lock = t[d].lock /\ u[d].node = t[d].node
             /\ t[d].ref = 1 => u[d].valid = FALSE
  <2>1. PICK e : e = t[d] /\ IsEntry(e) /\ u[d] = Fewer(e) /\ e.ref > 0
    BY <1>2, <1>3
  <2>2. /\ IsEntry(Fewer(e)) /\ Fewer(e).ref = e.ref - 1
        /\ e.ref > 1 => /\ Fewer(e).valid = e.valid
                        /\ Fewer(e).lock = e.lock /\ Fewer(e).node = e.node
        /\ e.ref = 1 => Fewer(e).valid = FALSE
    BY <2>1, MoreFewer
  <2> QED BY <2>1, <2>2, Zenon
<1>4. IsTable(u)
  BY <1>1, <1>3 DEF IsTable
<1>5. Dropped(t, u, d)
  BY <1>1, <1>3, <1>4 DEF Dropped
<1> QED BY <1>5 DEF u

\* Pointer v of Q is cleared.
Cleared(P, Q, v) == Q[v] \notin Inums /\ \A w \in Ptrs : w # v => Q[w] = P[w]

\* A reference given back, at the end of iput().
LEMMA DerefInherit ==
  ASSUME NEW op \in {"put", "deref"}, NEW T, NEW v, NEW P, NEW Q, NEW c, NEW K,
         Heads(K, op, v, T, P, c), Cleared(P, Q, v)
  PROVE  /\ Inherit(K, T, P, Q, c)
         /\ \A w \in Ptrs : (LockedAt(T, w) /\ Q[w] \in Inums => w # v /\ LockedAt(K, w))
         /\ \A w \in Ptrs : (FirmAt(T, w) /\ Q[w] \in Inums => w # v /\ FirmAt(K, w))
         /\ <<"cwd", "ip">> \in K <=> <<"cwd", "ip">> \in T
<1>0. /\ T \in SUBSET KindSet /\ v \in Ptrs /\ K = {<<op, v>>} \union T
      /\ \A b \in T : Before(<<op, v>>, b)
      /\ Linked(K, c)
      /\ \A w \in Ptrs : ~UsedAt(K, w) => P[w] \notin Inums
      /\ Q[v] \notin Inums /\ \A w \in Ptrs : w # v => Q[w] = P[w]
  BY DEF Heads, Cleared
<1>1. \A b \in T : b[1] \notin {"free", "drop", "deref", "unlink_ip", "create_ip"}
  BY <1>0 DEF Before, HeadOnly
<1>2. \A w \in Ptrs : LockedAt(T, w) => LockedAt(K, w)
  BY <1>0, <1>1 DEF LockedAt
<1>3. \A w \in Ptrs : FirmAt(T, w) => FirmAt(K, w)
  BY <1>0 DEF FirmAt
<1>4. \A w \in Ptrs : w # v => (UsedAt(K, w) <=> UsedAt(T, w))
  BY <1>0 DEF UsedAt
<1>5. \A w \in Ptrs : <<"drop", w>> \notin K /\ ~FreedAt(T, w)
  BY <1>0, <1>1 DEF FreedAt
<1>6. Linked(T, c)
  BY <1>0 DEF Linked
<1>7. \A w \in Ptrs : ~UsedAt(T, w) => Q[w] \notin Inums
  BY <1>0, <1>4
<1>8. Inherit(K, T, P, Q, c)
  BY <1>0, <1>2, <1>3, <1>5, <1>6, <1>7 DEF Inherit
<1>9. <<"cwd", "ip">> \in K <=> <<"cwd", "ip">> \in T
  BY <1>0
<1> QED BY <1>0, <1>2, <1>3, <1>8, <1>9

LEMMA DerefStep ==
  ASSUME FsInv, NEW p \in Procs, NEW op \in {"put", "deref"}, At(p, op), Deref(p),
         UNCHANGED <<disk, cwd, fd, work, rest, call>>
  PROVE  FsInv'
<1> DEFINE i == I(p)
<1>1. /\ itable' = [itable EXCEPT ![i] = Fewer(@)] /\ ptr' = [ptr EXCEPT ![p][V(p)] = 0] /\ Then(p, <<>>)
      /\ disk' = disk /\ cwd' = cwd /\ fd' = fd /\ work' = work /\ rest' = rest /\ call' = call
  BY DEF Deref
<1>2. FsTypes /\ RefsExact /\ Linked(Pending(p), call[p])
      /\ \A w \in Ptrs : ~UsedAt(Pending(p), w) => ptr[p][w] \notin Inums
  BY DEF FsInv, Ordered, Clear
<1>3. /\ <<op, V(p)>> \in KindSet /\ Turn(p)
      /\ \E T \in SUBSET KindSet :
           /\ Pending(p) = {<<op, V(p)>>} \union T
           /\ \A b \in T : Before(<<op, V(p)>>, b)
           /\ Pending(p)' = {} \union T
  BY <1>1, PlanNone, Proceed
<1>4. PICK T, v, K, P, Q, c :
        /\ T \in SUBSET KindSet /\ v = V(p) /\ K = Pending(p) /\ P = ptr[p] /\ Q = ptr'[p] /\ c = call[p]
        /\ K = {<<op, v>>} \union T
        /\ \A b \in T : Before(<<op, v>>, b)
        /\ Pending(p)' = T
  BY <1>3
<1>5. v \in Ptrs /\ i = P[v]
  BY <1>3, <1>4, PtrOf DEF I, Puts
<1>a. /\ DOMAIN ptr' = Procs /\ \A q \in Procs : DOMAIN ptr'[q] = Ptrs
      /\ ptr'[p][v] = 0 /\ \A w \in Ptrs : w # v => ptr'[p][w] = ptr[p][w]
      /\ \A q \in Procs : q # p => ptr'[q] = ptr[q]
  BY <1>1, <1>2, <1>4, <1>5, PtrSet, ZenonT(40)
<1>b. 0 \notin Inums
  BY FsAssumption
<1>6. /\ Inherit(K, T, P, Q, c)
      /\ \A w \in Ptrs : (LockedAt(T, w) /\ Q[w] \in Inums => w # v /\ LockedAt(K, w))
      /\ \A w \in Ptrs : (FirmAt(T, w) /\ Q[w] \in Inums => w # v /\ FirmAt(K, w))
      /\ <<"cwd", "ip">> \in K <=> <<"cwd", "ip">> \in T
  <2>1. \A w \in Ptrs : ~UsedAt(K, w) => P[w] \notin Inums
    BY <1>2, <1>4
  <2>2. Heads(K, op, v, T, P, c)
    BY <1>2, <1>4, <1>5, <2>1 DEF Heads
  <2>3. Cleared(P, Q, v)
    BY <1>4, <1>a, <1>b DEF Cleared
  <2> QED BY <2>2, <2>3, DerefInherit
<1>7. Dropped(itable, itable', i)
  <2>1. IsTable(itable)
    BY <1>2 DEF FsTypes
  <2>2. i \in Inums => itable[i].ref > 0
    BY <1>2, <1>4, <1>5, PtrRef
  <2> QED BY <1>1, <2>1, <2>2, FewerAt
<1>8. ASSUME NEW q \in Procs, NEW w \in Ptrs, ptr'[q][w] \in Inums
      PROVE  /\ ptr'[q][w] = ptr[q][w]
             /\ itable'[ptr[q][w]].lock = itable[ptr[q][w]].lock
             /\ itable'[ptr[q][w]].valid = itable[ptr[q][w]].valid
  <2>1. ptr'[q][w] = ptr[q][w] /\ ~(q = p /\ w = v)
    BY <1>a, <1>b, <1>8
  <2>2. CASE ptr[q][w] # i
    BY <1>7, <1>8, <2>1, <2>2 DEF Dropped
  <2>3. CASE ptr[q][w] = i
    <3>1. i \in Inums /\ i = ptr[p][v]
      BY <1>4, <1>5, <1>8, <2>1, <2>3
    <3>2. itable[i].ref \in Nat /\ itable[i].ref > 0
      BY <1>2, <1>5, <3>1, PtrRef
    <3>3. itable[i].ref # 1
      BY <1>2, <1>5, <2>1, <2>3, <3>1, OnlyPtr
    <3> QED BY <1>7, <2>1, <2>3, <3>1, <3>2, <3>3 DEF Dropped
  <2> QED BY <2>2, <2>3, <2>1
<1>c. i \in Inums => itable[i].ref \in Nat /\ itable[i].ref > 0
  BY <1>2, <1>4, <1>5, PtrRef
<1> HIDE DEF i
<1>9. Local(p)
  <2>1. ASSUME NEW q \in Procs, NEW w \in Ptrs, q # p, ptr[q][w] \in Inums, itable[ptr[q][w]].lock = q
        PROVE  itable'[ptr[q][w]].lock = q
    <3>1. ptr'[q][w] = ptr[q][w]
      BY <1>a, <2>1
    <3> QED BY <1>8, <2>1, <3>1
  <2>2. ASSUME NEW w \in Ptrs, LockedAt(Pending(p)', w), ptr'[p][w] \in Inums
        PROVE  itable'[ptr'[p][w]].lock = p
    <3>1. LockedAt(Pending(p), w) /\ ptr'[p][w] = ptr[p][w]
      BY <1>4, <1>6, <1>8, <2>2
    <3>2. itable[ptr[p][w]].lock = p
      BY <2>2, <3>1 DEF FsInv, Keeping, LocksHeld
    <3> QED BY <1>8, <2>2, <3>1, <3>2
  <2>3. ASSUME NEW q \in Procs, NEW w \in Ptrs, FirmAt(Pending(q)', w), ptr'[q][w] \in Inums
        PROVE  itable'[ptr'[q][w]].valid
    <3>1. FirmAt(Pending(q), w) /\ ptr'[q][w] = ptr[q][w]
      <4>1. CASE q = p
        BY <1>4, <1>6, <1>8, <2>3, <4>1
      <4>2. CASE q # p
        BY <1>3, <1>8, <2>3, <4>2 DEF Turn
      <4> QED BY <4>1, <4>2
    <3>2. itable[ptr[q][w]].valid
      BY <2>3, <3>1 DEF FsInv, Keeping, FirmValid
    <3> QED BY <1>8, <2>3, <3>1, <3>2
  <2>4. ASSUME NEW j \in Inums, itable'[j].valid PROVE Sound(j)' \/ Dropping(j)
    <3>1. itable[j].valid /\ itable'[j].node = itable[j].node
      BY <1>7, <1>c, <2>4 DEF Dropped
    <3> QED BY <1>1, <3>1 DEF FsInv, Cached, Sound
  <2> QED BY <2>1, <2>2, <2>3, <2>4 DEF Local
<1>10. RefsExact'
  <2>1. v \in Cells /\ Held(p, v) = i /\ Held(p, v)' = 0
    BY <1>4, <1>5, <1>a DEF Held, Ptrs, Cells
  <2>2. \A q \in Procs, d \in Cells : ~(q = p /\ d = v) => Held(q, d)' = Held(q, d)
    <3>1. \A q \in Procs, d \in Cells : q # p => Held(q, d)' = Held(q, d)
      BY <1>1, <1>3, <1>a DEF Held, Turn
    <3>2. \A d \in Cells : d # v => Held(p, d)' = Held(p, d)
      BY <1>1, <1>4, <1>6, <1>a DEF Held, Cells
    <3> QED BY <3>1, <3>2
  <2>3. \A j \in Inums :
           /\ itable[j].ref \in Nat
           /\ Held(p, v) # j /\ Held(p, v)' # j => itable'[j].ref = itable[j].ref
           /\ Held(p, v) = j /\ Held(p, v)' = j => itable'[j].ref = itable[j].ref
           /\ Held(p, v) # j /\ Held(p, v)' = j => itable'[j].ref = itable[j].ref + 1
           /\ Held(p, v) = j /\ Held(p, v)' # j => itable'[j].ref = itable[j].ref - 1
    BY <1>2, <1>7, <1>b, <2>1 DEF FsTypes, IsTable, IsEntry, Dropped
  <2> QED BY <1>2, <2>1, <2>2, <2>3, RefsOne
<1>11. Points(p) /\ FsTypes'
  BY <1>1, <1>2, <1>7, <1>a DEF FsTypes, Points, Dropped
<1>12. Inherit(Pending(p), Pending(p)', ptr[p], ptr'[p], call'[p])
  BY <1>1, <1>4, <1>6
<1>13. \A q \in Procs : q # p => call'[q] = call[q]
  BY <1>1
<1> QED BY <1>3, <1>9, <1>10, <1>11, <1>12, <1>13, LocalStep

LEMMA PutStep ==
  ASSUME FsInv, NEW p \in Procs, Put(p) PROVE FsInv'
<1>1. At(p, "put") /\ Deref(p) /\ UNCHANGED <<disk, cwd, fd, work, rest, call>>
  BY DEF Put, fsVars, others, progVars
<1> QED BY <1>1, DerefStep

LEMMA PutFreedStep ==
  ASSUME FsInv, NEW p \in Procs, PutFreed(p) PROVE FsInv'
<1>1. At(p, "deref") /\ Deref(p) /\ UNCHANGED <<disk, cwd, fd, work, rest, call>>
  BY DEF PutFreed, fsVars, others, progVars
<1> QED BY <1>1, DerefStep

\* iupdate() of an inode that sys_unlink() or sys_link() has locked.
LEMMA NlinkInherit ==
  ASSUME NEW T, NEW P, NEW c, NEW K, Heads(K, "nlink", "ip", T, P, c)
  PROVE  /\ Inherit(K, T, P, P, c) /\ FirmAt(K, "ip")
         /\ <<"cwd", "ip">> \in K <=> <<"cwd", "ip">> \in T
<1>0. /\ T \in SUBSET KindSet /\ K = {<<"nlink", "ip">>} \union T
      /\ \A b \in T : Before(<<"nlink", "ip">>, b)
      /\ Linked(K, c)
      /\ \A w \in Ptrs : ~UsedAt(K, w) => P[w] \notin Inums
  BY DEF Heads
<1>1. \A b \in T : b[1] \notin {"free", "drop", "deref", "unlink_ip", "create_ip"}
  BY <1>0 DEF Before, HeadOnly
<1>2. \A w \in Ptrs : LockedAt(T, w) => LockedAt(K, w)
  BY <1>0 DEF LockedAt
<1>3. \A w \in Ptrs : FirmAt(T, w) => FirmAt(K, w)
  BY <1>0 DEF FirmAt
<1>4. \A w \in Ptrs : UsedAt(K, w) <=> UsedAt(T, w)
  BY <1>0 DEF UsedAt
<1>5. \A w \in Ptrs : <<"drop", w>> \notin K /\ ~FreedAt(T, w)
  BY <1>0, <1>1 DEF FreedAt
<1>6. Linked(T, c)
  BY <1>0 DEF Linked
<1>7. FirmAt(K, "ip")
  BY <1>0 DEF FirmAt
<1>8. <<"cwd", "ip">> \in K <=> <<"cwd", "ip">> \in T
  BY <1>0
<1> QED BY <1>0, <1>2, <1>3, <1>4, <1>5, <1>6, <1>7, <1>8 DEF Inherit

\* What a step that changes no lock does to the table, when it takes or gives no reference.
LEMMA TouchLocal ==
  ASSUME FsInv, NEW p \in Procs, Turn(p), Touched(itable, itable', disk, disk'), ptr' = ptr,
         cwd' = cwd, fd' = fd, <<"cwd", "ip">> \in Pending(p)' <=> <<"cwd", "ip">> \in Pending(p),
         \A v \in Ptrs : LockedAt(Pending(p)', v) /\ ptr'[p][v] \in Inums => LockedAt(Pending(p), v),
         \A v \in Ptrs : FirmAt(Pending(p)', v) /\ ptr'[p][v] \in Inums => FirmAt(Pending(p), v)
  PROVE  Local(p) /\ RefsExact' /\ Points(p)
<1>1. \A j \in Inums : /\ itable'[j].ref = itable[j].ref /\ itable'[j].valid = itable[j].valid
                       /\ itable'[j].lock = itable[j].lock
                       /\ \/ itable'[j].node = itable[j].node /\ disk'[j] = disk[j]
                          \/ itable'[j].node = disk'[j] /\ disk'[j].type # "none"
  BY DEF Touched
<1>2. \A q \in Procs, w \in Ptrs :
        q # p /\ ptr[q][w] \in Inums /\ itable[ptr[q][w]].lock = q => itable'[ptr[q][w]].lock = q
  BY <1>1
<1>3. ASSUME NEW w \in Ptrs, LockedAt(Pending(p)', w), ptr'[p][w] \in Inums
      PROVE  itable'[ptr'[p][w]].lock = p
  BY <1>1, <1>3 DEF FsInv, Keeping, LocksHeld
<1>4. ASSUME NEW q \in Procs, NEW w \in Ptrs, FirmAt(Pending(q)', w), ptr'[q][w] \in Inums
      PROVE  itable'[ptr'[q][w]].valid
  <2>1. FirmAt(Pending(q), w) /\ ptr'[q][w] = ptr[q][w]
    <3>1. CASE q = p
      BY <1>4, <3>1
    <3>2. CASE q # p
      BY <1>4, <3>2 DEF Turn
    <3> QED BY <3>1, <3>2
  <2>2. itable[ptr[q][w]].valid
    BY <1>4, <2>1 DEF FsInv, Keeping, FirmValid
  <2> QED BY <1>1, <1>4, <2>1, <2>2
<1>5. \A j \in Inums : itable'[j].valid => Sound(j)' \/ Dropping(j)
  <2> SUFFICES ASSUME NEW j \in Inums, itable'[j].valid PROVE Sound(j)' \/ Dropping(j)
    OBVIOUS
  <2>1. itable[j].valid
    BY <1>1
  <2>2. Sound(j) \/ Dropping(j)
    BY <2>1 DEF FsInv, Cached
  <2>3. \/ itable'[j].node = itable[j].node /\ disk'[j] = disk[j]
        \/ itable'[j].node = disk'[j] /\ disk'[j].type # "none"
    BY <1>1
  <2>4. Sound(j) => Sound(j)'
    BY <2>3 DEF Sound
  <2> QED BY <2>2, <2>4
<1>6. Local(p)
  BY <1>2, <1>3, <1>4, <1>5 DEF Local
<1>7. RefsExact'
  BY <1>1, RefsAlone DEF FsInv, Turn
<1>8. Points(p)
  BY DEF FsInv, FsTypes, Points
<1> QED BY <1>6, <1>7, <1>8

\* iupdate() of a link more or fewer.
LEMMA NlinkStep ==
  ASSUME FsInv, NEW p \in Procs, Nlink(p) PROVE FsInv'
<1> DEFINE i == I(p)
           n == [itable[i].node EXCEPT !.nlink = @ - 1]
<1>1. /\ At(p, "nlink") /\ Then(p, <<>>)
      /\ itable' = [itable EXCEPT ![i].node = n] /\ disk' = [disk EXCEPT ![i] = n]
      /\ ptr' = ptr /\ cwd' = cwd /\ fd' = fd /\ work' = work /\ rest' = rest /\ call' = call
  BY DEF Nlink, others, progVars
<1> HIDE DEF n
<1>2. FsTypes /\ RefsExact /\ Linked(Pending(p), call[p])
      /\ \A w \in Ptrs : ~UsedAt(Pending(p), w) => ptr[p][w] \notin Inums
  BY DEF FsInv, Ordered, Clear
<1>3. /\ <<"nlink", V(p)>> \in KindSet /\ Turn(p)
      /\ \E T \in SUBSET KindSet :
           /\ Pending(p) = {<<"nlink", V(p)>>} \union T
           /\ \A b \in T : Before(<<"nlink", V(p)>>, b)
           /\ Pending(p)' = {} \union T
  BY <1>1, PlanNone, Proceed
<1>a. V(p) = "ip"
  BY <1>3, PtrOf DEF OnIp
<1>4. PICK T, K, P, c :
        /\ T \in SUBSET KindSet /\ K = Pending(p) /\ P = ptr[p] /\ c = call[p]
        /\ K = {<<"nlink", "ip">>} \union T
        /\ \A b \in T : Before(<<"nlink", "ip">>, b)
        /\ Pending(p)' = T
  BY <1>3, <1>a
<1>5. "ip" \in Ptrs /\ i = P["ip"]
  BY <1>4, <1>a DEF I, Ptrs
<1>6. /\ Inherit(K, T, P, P, c) /\ FirmAt(K, "ip")
      /\ <<"cwd", "ip">> \in K <=> <<"cwd", "ip">> \in T
  <2>1. \A w \in Ptrs : ~UsedAt(K, w) => P[w] \notin Inums
    BY <1>2, <1>4
  <2>2. Heads(K, "nlink", "ip", T, P, c)
    BY <1>2, <1>4, <1>5, <2>1 DEF Heads
  <2> QED BY <2>2, NlinkInherit
<1>7. i \in Inums => IsNode(n) /\ n.type # "none"
  <2>1. PICK m, b : m = itable[i].node /\ b = m.nlink - 1
    OBVIOUS
  <2>2. n = [m EXCEPT !.nlink = b]
    BY <2>1 DEF n
  <2>3. IsNode(m) => /\ IsNode([m EXCEPT !.nlink = b])
                     /\ [m EXCEPT !.nlink = b] = [type |-> m.type, nlink |-> b, addrs |-> m.addrs]
    BY NodeFields
  <2>4. IsNode(m) => [m EXCEPT !.nlink = b].type = m.type
    BY <2>3
  <2>5. i \in Inums => Sound(i)
    BY <1>4, <1>5, <1>6, FirmSound
  <2>6. i \in Inums => IsNode(m) /\ m.type # "none"
    BY <1>2, <2>1, <2>5 DEF Sound, FsTypes, IsDisk
  <2> QED BY <2>2, <2>3, <2>4, <2>6
<1>8. Touched(itable, itable', disk, disk')
  <2>1. Wrote(itable, itable', disk, disk', i, n)
    BY <1>1, <1>7 DEF Wrote
  <2>2. Touched(itable, itable, disk, disk)
    BY <1>2, TouchNone DEF FsTypes
  <2> QED BY <2>1, <2>2, TouchAt
<1>9. Local(p) /\ RefsExact' /\ Points(p)
  <2>1. <<"cwd", "ip">> \in Pending(p)' <=> <<"cwd", "ip">> \in Pending(p)
    BY <1>4, <1>6
  <2>2. \A v \in Ptrs : LockedAt(Pending(p)', v) /\ ptr'[p][v] \in Inums => LockedAt(Pending(p), v)
    BY <1>1, <1>4, <1>6 DEF Inherit
  <2>3. \A v \in Ptrs : FirmAt(Pending(p)', v) /\ ptr'[p][v] \in Inums => FirmAt(Pending(p), v)
    BY <1>1, <1>4, <1>6 DEF Inherit
  <2> QED BY <1>1, <1>3, <1>8, <2>1, <2>2, <2>3, TouchLocal
<1>10. FsTypes'
  BY <1>1, <1>2, <1>8 DEF FsTypes, Touched
<1>11. Inherit(Pending(p), Pending(p)', ptr[p], ptr'[p], call'[p])
  BY <1>1, <1>4, <1>6
<1>12. \A q \in Procs : q # p => call'[q] = call[q]
  BY <1>1
<1> QED BY <1>3, <1>9, <1>10, <1>11, <1>12, LocalStep

\* The last steps of open() and of chdir().
LEMMA OpenedInherit ==
  ASSUME NEW P, NEW c, \A w \in Ptrs : ~UsedAt({<<"opened", "ip">>}, w) => P[w] \notin Inums
  PROVE  Inherit({<<"opened", "ip">>}, Unlocking("ip"), P, P, c)
<1>1. \A w \in Ptrs : UsedAt(Unlocking("ip"), w) <=> UsedAt({<<"opened", "ip">>}, w)
  BY DEF UsedAt, Unlocking
<1>2. \A w \in Ptrs : LockedAt(Unlocking("ip"), w) => LockedAt({<<"opened", "ip">>}, w)
  BY DEF LockedAt, Unlocking
<1>3. \A w \in Ptrs : FirmAt(Unlocking("ip"), w) => FirmAt({<<"opened", "ip">>}, w)
  BY DEF FirmAt, Unlocking
<1>4. Linked(Unlocking("ip"), c)
  BY DEF Linked, Unlocking
<1>5. \A w \in Ptrs : <<"drop", w>> \notin {<<"opened", "ip">>} /\ ~FreedAt(Unlocking("ip"), w)
  BY DEF FreedAt, Unlocking
<1> QED BY <1>1, <1>2, <1>3, <1>4, <1>5 DEF Inherit

LEMMA NothingLeft ==
  ASSUME NEW op \in {"opened", "cwd"}, NEW P, NEW Q, NEW c, \A w \in Ptrs : Q[w] \notin Inums
  PROVE  Inherit({<<op, "ip">>}, {}, P, Q, c)
<1>1. \A w \in Ptrs : ~LockedAt({}, w) /\ ~FirmAt({}, w) /\ ~FreedAt({}, w)
  BY DEF LockedAt, FirmAt, FreedAt
<1>2. Linked({}, c)
  BY DEF Linked
<1> QED BY <1>1, <1>2 DEF Inherit

\* The steps "opened" and "cwd", when they end the call: the reference of ip becomes that of d.
LEMMA RefsHandOver ==
  ASSUME FsInv, NEW p \in Procs, Turn(p), NEW d \in {"cwd", "fd"},
         Held(p, d) \notin Inums, Held(p, d)' = ptr[p]["ip"],
         \A e \in {"cwd", "fd"} : e # d => Held(p, e)' = Held(p, e),
         \A q \in Procs : q # p => ptr'[q] = ptr[q] /\ cwd'[q] = cwd[q] /\ fd'[q] = fd[q],
         ptr'[p]["ip"] \notin Inums,
         \A w \in {"dp", "x"} : ptr'[p][w] = ptr[p][w] \/ (ptr'[p][w] \notin Inums /\ ptr[p][w] \notin Inums),
         \A j \in Inums : itable'[j].ref = itable[j].ref
  PROVE  RefsExact'
<1>1. /\ "ip" \in Cells /\ d \in Cells /\ "ip" # d
      /\ Held(p, "ip") = ptr[p]["ip"] /\ Held(p, "ip")' = ptr'[p]["ip"]
      /\ \A w \in {"dp", "x"} : Held(p, w) = ptr[p][w] /\ Held(p, w)' = ptr'[p][w]
  BY DEF Cells, Ptrs, Held
<1>2. \A q \in Procs, e \in Cells : q # p => Held(q, e)' = Held(q, e)
  BY DEF Held, Turn
<1>3. ASSUME NEW e \in Cells, e \notin {"ip", d}
      PROVE  Held(p, e)' = Held(p, e) \/ (Held(p, e) \notin Inums /\ Held(p, e)' \notin Inums)
  BY <1>1, <1>3 DEF Cells, Ptrs
<1>4. ASSUME NEW q \in Procs, NEW e \in Cells, ~(q = p /\ e \in {"ip", d})
      PROVE  Held(q, e)' = Held(q, e) \/ (Held(q, e) \notin Inums /\ Held(q, e)' \notin Inums)
  <2>1. CASE q = p
    BY <1>3, <1>4, <2>1
  <2>2. CASE q # p
    <3>1. Held(q, e)' = Held(q, e)
      BY <1>2, <2>2
    <3> QED BY <3>1
  <2> QED BY <2>1, <2>2
<1>5. \A j \in Inums :
           /\ itable[j].ref \in Nat
           /\ Held(p, "ip")' = j => itable'[j].ref = itable[j].ref + 1
           /\ Held(p, "ip")' # j => itable'[j].ref = itable[j].ref
  BY <1>1 DEF FsInv, FsTypes, IsTable, IsEntry
<1>6. Held(p, d)' = Held(p, "ip")
  BY <1>1
<1> QED BY <1>1, <1>4, <1>5, <1>6, RefsTwo DEF FsInv

LEMMA SetCwdStep ==
  ASSUME FsInv, NEW p \in Procs, SetCwd(p) PROVE FsInv'
<1>1. /\ At(p, "cwd") /\ Then(p, <<>>)
      /\ cwd' = [cwd EXCEPT ![p] = I(p)] /\ ptr' = [ptr EXCEPT ![p] = NoPtr]
      /\ disk' = disk /\ itable' = itable /\ fd' = fd /\ work' = work /\ rest' = rest /\ call' = call
  BY DEF SetCwd, fsVars, progVars
<1>2. FsTypes /\ RefsExact /\ \A w \in Ptrs : ~UsedAt(Pending(p), w) => ptr[p][w] \notin Inums
  BY DEF FsInv, Clear
<1>3. <<"cwd", V(p)>> \in KindSet /\ Pending(p) = {<<"cwd", V(p)>>} /\ Turn(p) /\ Pending(p)' = {}
  BY <1>1, PlanNone, LastStep DEF LastOps
<1>4. V(p) = "ip"
  BY <1>3, PtrOf DEF OnIp
<1>5. I(p) = ptr[p]["ip"]
  BY <1>4 DEF I
<1>6. /\ DOMAIN ptr' = Procs /\ ptr'[p] = NoPtr /\ \A q \in Procs : q # p => ptr'[q] = ptr[q]
      /\ DOMAIN cwd' = Procs /\ cwd'[p] = I(p) /\ \A q \in Procs : q # p => cwd'[q] = cwd[q]
  BY <1>1, <1>2 DEF FsTypes
<1>7. DOMAIN NoPtr = Ptrs /\ \A w \in Ptrs : NoPtr[w] \notin Inums
  BY FsAssumption DEF NoPtr, Ptrs
<1>8. Points(p)
  BY <1>6, <1>7 DEF Points
<1>9. FsTypes'
  BY <1>1, <1>2, <1>6, <1>7 DEF FsTypes
<1>10. RefsExact'
  <2>1. Held(p, "cwd") = 0 /\ Held(p, "cwd")' = ptr[p]["ip"] /\ Held(p, "fd")' = Held(p, "fd")
    BY <1>1, <1>3, <1>4, <1>5, <1>6 DEF Held
  <2>2. \A w \in {"dp", "x"} : ptr'[p][w] \notin Inums /\ ptr[p][w] \notin Inums
    <3>1. \A w \in {"dp", "x"} : w \in Ptrs /\ ~UsedAt({<<"cwd", "ip">>}, w)
      BY DEF UsedAt, Ptrs
    <3> QED BY <1>2, <1>3, <1>4, <1>6, <1>7, <3>1
  <2>3. ptr'[p]["ip"] \notin Inums
    BY <1>6, <1>7 DEF Ptrs
  <2>4. 0 \notin Inums
    BY FsAssumption
  <2>5. \A q \in Procs : q # p => ptr'[q] = ptr[q] /\ cwd'[q] = cwd[q] /\ fd'[q] = fd[q]
    BY <1>1, <1>6
  <2>6. \A j \in Inums : itable'[j].ref = itable[j].ref
    BY <1>1
  <2>7. Held(p, "cwd") \notin Inums
    BY <2>1, <2>4
  <2>8. \A e \in {"cwd", "fd"} : e # "cwd" => Held(p, e)' = Held(p, e)
    BY <2>1
  <2>9. \A w \in {"dp", "x"} : ptr'[p][w] = ptr[p][w] \/ (ptr'[p][w] \notin Inums /\ ptr[p][w] \notin Inums)
    BY <2>2
  <2> QED BY <1>3, <2>1, <2>3, <2>5, <2>6, <2>7, <2>8, <2>9, RefsHandOver
<1>11. Inherit(Pending(p), Pending(p)', ptr[p], ptr'[p], call'[p])
  <2>1. PICK Q : Q = ptr'[p] /\ \A w \in Ptrs : Q[w] \notin Inums
    BY <1>6, <1>7
  <2>2. Inherit({<<"cwd", "ip">>}, {}, ptr[p], Q, call'[p])
    BY <2>1, NothingLeft
  <2> QED BY <1>3, <1>4, <2>1, <2>2
<1>12. Local(p)
  <2>1. \A v \in Ptrs : ptr'[p][v] \notin Inums
    BY <1>6, <1>7
  <2>2. ASSUME NEW q \in Procs, NEW w \in Ptrs, FirmAt(Pending(q)', w), ptr'[q][w] \in Inums
        PROVE  itable'[ptr'[q][w]].valid
    <3>1. q # p
      BY <2>1, <2>2
    <3> QED BY <1>1, <1>3, <1>6, <2>2, <3>1 DEF Turn, FsInv, Keeping, FirmValid
  <2>3. \A j \in Inums : itable'[j].valid => Sound(j)' \/ Dropping(j)
    BY <1>1 DEF FsInv, Cached, Sound
  <2> QED BY <1>1, <2>1, <2>2, <2>3 DEF Local
<1>13. \A q \in Procs : q # p => call'[q] = call[q]
  BY <1>1
<1> QED BY <1>3, <1>8, <1>9, <1>10, <1>11, <1>12, <1>13, LocalStep

\* sys_open() when there is no descriptor left.
LEMMA OpenedFullStep ==
  ASSUME FsInv, NEW p \in Procs, At(p, "opened"), Then(p, UnlockPut("ip")),
         UNCHANGED <<disk, itable, cwd, fd, ptr, work, rest, call>>
  PROVE  FsInv'
<1>1. /\ disk' = disk /\ itable' = itable /\ cwd' = cwd /\ fd' = fd /\ ptr' = ptr
      /\ work' = work /\ rest' = rest /\ call' = call
  OBVIOUS
<1>2. FsTypes /\ RefsExact /\ \A w \in Ptrs : ~UsedAt(Pending(p), w) => ptr[p][w] \notin Inums
  BY DEF FsInv, Clear
<1>a. Plan(UnlockPut("ip"), Unlocking("ip"))
  BY PlanUnlockPut DEF Ptrs
<1>3. <<"opened", V(p)>> \in KindSet /\ Pending(p) = {<<"opened", V(p)>>} /\ Turn(p) /\ Pending(p)' = Unlocking("ip")
  BY <1>a, LastStep DEF LastOps
<1>4. V(p) = "ip"
  BY <1>3, PtrOf DEF OnIp
<1>5. Inherit({<<"opened", "ip">>}, Unlocking("ip"), ptr[p], ptr[p], call[p])
  <2>1. PICK P : P = ptr[p] /\ \A w \in Ptrs : ~UsedAt({<<"opened", "ip">>}, w) => P[w] \notin Inums
    BY <1>2, <1>3, <1>4
  <2> QED BY <2>1, OpenedInherit
<1>6. Inherit(Pending(p), Pending(p)', ptr[p], ptr'[p], call'[p])
  BY <1>1, <1>3, <1>4, <1>5
<1>7. Local(p) /\ RefsExact' /\ Points(p)
  <2>1. <<"cwd", "ip">> \in Pending(p)' <=> <<"cwd", "ip">> \in Pending(p)
    BY <1>3, <1>4 DEF Unlocking
  <2>2. \A v \in Ptrs : LockedAt(Pending(p)', v) /\ ptr'[p][v] \in Inums => LockedAt(Pending(p), v)
    BY <1>6 DEF Inherit
  <2>3. \A v \in Ptrs : FirmAt(Pending(p)', v) /\ ptr'[p][v] \in Inums => FirmAt(Pending(p), v)
    BY <1>6 DEF Inherit
  <2>4. Touched(itable, itable', disk, disk')
    BY <1>1, <1>2, TouchNone DEF FsTypes
  <2> QED BY <1>1, <1>3, <2>1, <2>2, <2>3, <2>4, TouchLocal
<1>8. FsTypes'
  BY <1>1, <1>2 DEF FsTypes
<1>9. \A q \in Procs : q # p => call'[q] = call[q]
  BY <1>1
<1> QED BY <1>3, <1>6, <1>7, <1>8, <1>9, LocalStep

\* sys_open() when it hands the file over.
LEMMA OpenedFileStep ==
  ASSUME FsInv, NEW p \in Procs, At(p, "opened"), Then(p, <<>>), fd[p] = 0,
         fd' = [fd EXCEPT ![p] = I(p)], ptr' = [ptr EXCEPT ![p]["ip"] = 0],
         NEW u, Touched(itable, u, disk, disk'), Relocked(u, itable', I(p), NoProc),
         UNCHANGED <<cwd, work, rest, call>>
  PROVE  FsInv'
<1> DEFINE i == I(p)
<1>1. cwd' = cwd /\ work' = work /\ rest' = rest /\ call' = call
  OBVIOUS
<1>2. FsTypes /\ RefsExact /\ \A w \in Ptrs : ~UsedAt(Pending(p), w) => ptr[p][w] \notin Inums
  BY DEF FsInv, Clear
<1>3. <<"opened", V(p)>> \in KindSet /\ Pending(p) = {<<"opened", V(p)>>} /\ Turn(p) /\ Pending(p)' = {}
  BY PlanNone, LastStep DEF LastOps
<1>4. V(p) = "ip"
  BY <1>3, PtrOf DEF OnIp
<1>5. i = ptr[p]["ip"] /\ "ip" \in Ptrs /\ 0 \notin Inums
  BY <1>4, FsAssumption DEF I, Ptrs
<1>6. /\ DOMAIN ptr' = Procs /\ \A q \in Procs : DOMAIN ptr'[q] = Ptrs
      /\ ptr'[p]["ip"] = 0 /\ \A w \in Ptrs : w # "ip" => ptr'[p][w] = ptr[p][w]
      /\ \A q \in Procs : q # p => ptr'[q] = ptr[q]
  BY <1>2, <1>5 DEF FsTypes
<1>7. DOMAIN fd' = Procs /\ fd'[p] = i /\ \A q \in Procs : q # p => fd'[q] = fd[q]
  BY <1>2 DEF FsTypes
<1>8. \A w \in Ptrs : ptr'[p][w] \notin Inums
  <2>1. \A w \in Ptrs : w # "ip" => ~UsedAt({<<"opened", "ip">>}, w)
    BY DEF UsedAt
  <2> QED BY <1>2, <1>3, <1>4, <1>5, <1>6, <2>1
<1>9. i \in Inums => itable[i].lock = p
  <2>1. LockedAt({<<"opened", "ip">>}, "ip")
    BY DEF LockedAt
  <2> QED BY <1>3, <1>4, <1>5, <2>1 DEF FsInv, Keeping, LocksHeld
<1> HIDE DEF i
<1>10. /\ IsTable(itable') /\ IsDisk(disk')
       /\ \A j \in Inums : /\ itable'[j].ref = itable[j].ref /\ itable'[j].valid = itable[j].valid
                           /\ j # i => itable'[j].lock = itable[j].lock
                           /\ \/ itable'[j].node = itable[j].node /\ disk'[j] = disk[j]
                              \/ itable'[j].node = disk'[j] /\ disk'[j].type # "none"
  <2>1. Relocked(u, itable', i, NoProc)
    BY DEF i
  <2>2. IsTable(itable') /\ IsDisk(disk')
    BY <2>1 DEF Relocked, Touched
  <2>3. ASSUME NEW j \in Inums
        PROVE  /\ itable'[j].ref = itable[j].ref /\ itable'[j].valid = itable[j].valid
               /\ j # i => itable'[j].lock = itable[j].lock
               /\ \/ itable'[j].node = itable[j].node /\ disk'[j] = disk[j]
                  \/ itable'[j].node = disk'[j] /\ disk'[j].type # "none"
    <3>1. /\ u[j].ref = itable[j].ref /\ u[j].valid = itable[j].valid /\ u[j].lock = itable[j].lock
          /\ \/ u[j].node = itable[j].node /\ disk'[j] = disk[j]
             \/ u[j].node = disk'[j] /\ disk'[j].type # "none"
      BY DEF Touched
    <3>2. /\ itable'[j].ref = u[j].ref /\ itable'[j].valid = u[j].valid /\ itable'[j].node = u[j].node
          /\ j # i => itable'[j].lock = u[j].lock
      BY <2>1 DEF Relocked
    <3> QED BY <3>1, <3>2
  <2> QED BY <2>2, <2>3
<1>11. Points(p)
  BY <1>6 DEF Points
<1>12. FsTypes'
  BY <1>1, <1>2, <1>6, <1>7, <1>10 DEF FsTypes
<1>13. RefsExact'
  <2>1. /\ Held(p, "fd") \notin Inums /\ Held(p, "fd")' = ptr[p]["ip"]
        /\ \A e \in {"cwd", "fd"} : e # "fd" => Held(p, e)' = Held(p, e)
    BY <1>1, <1>3, <1>4, <1>5, <1>7 DEF Held
  <2>2. \A q \in Procs : q # p => ptr'[q] = ptr[q] /\ cwd'[q] = cwd[q] /\ fd'[q] = fd[q]
    BY <1>1, <1>6, <1>7
  <2>3. \A j \in Inums : itable'[j].ref = itable[j].ref
    BY <1>10
  <2>4. ptr'[p]["ip"] \notin Inums
    BY <1>5, <1>6
  <2>5. \A w \in {"dp", "x"} : ptr'[p][w] = ptr[p][w] \/ (ptr'[p][w] \notin Inums /\ ptr[p][w] \notin Inums)
    BY <1>6 DEF Ptrs
  <2> QED BY <1>3, <2>1, <2>2, <2>3, <2>4, <2>5, RefsHandOver
<1>14. Inherit(Pending(p), Pending(p)', ptr[p], ptr'[p], call'[p])
  <2>1. PICK Q : Q = ptr'[p] /\ \A w \in Ptrs : Q[w] \notin Inums
    BY <1>8
  <2>2. Inherit({<<"opened", "ip">>}, {}, ptr[p], Q, call'[p])
    BY <2>1, NothingLeft
  <2> QED BY <1>3, <1>4, <2>1, <2>2
<1>15. Local(p)
  <2>1. ASSUME NEW q \in Procs, NEW w \in Ptrs, q # p, ptr[q][w] \in Inums, itable[ptr[q][w]].lock = q
        PROVE  itable'[ptr[q][w]].lock = q
    <3>1. ptr[q][w] # i
      BY <1>9, <2>1
    <3> QED BY <1>10, <2>1, <3>1
  <2>2. ASSUME NEW q \in Procs, NEW w \in Ptrs, FirmAt(Pending(q)', w), ptr'[q][w] \in Inums
        PROVE  itable'[ptr'[q][w]].valid
    <3>1. q # p
      BY <1>8, <2>2
    <3>2. ptr'[q][w] = ptr[q][w] /\ itable[ptr[q][w]].valid
      BY <1>3, <1>6, <2>2, <3>1 DEF Turn, FsInv, Keeping, FirmValid
    <3> QED BY <1>10, <2>2, <3>2
  <2>3. ASSUME NEW j \in Inums, itable'[j].valid PROVE Sound(j)' \/ Dropping(j)
    <3>1. itable[j].valid
      BY <1>10, <2>3
    <3>2. Sound(j) \/ Dropping(j)
      BY <3>1 DEF FsInv, Cached
    <3>3. Sound(j) => Sound(j)'
      BY <1>10 DEF Sound
    <3> QED BY <3>2, <3>3
  <2> QED BY <1>8, <2>1, <2>2, <2>3 DEF Local
<1>16. \A q \in Procs : q # p => call'[q] = call[q]
  BY <1>1
<1> QED BY <1>3, <1>11, <1>12, <1>13, <1>14, <1>15, <1>16, LocalStep

LEMMA OpenedStep ==
  ASSUME FsInv, NEW p \in Procs, Opened(p) PROVE FsInv'
<1> DEFINE i   == I(p)
           n   == itable[i].node
           cut == [n EXCEPT !.addrs = NoBlocks]
<1>1. /\ At(p, "opened") /\ UNCHANGED <<cwd, work, rest, call>>
      /\ \/ Then(p, UnlockPut("ip")) /\ UNCHANGED <<disk, itable, fd, ptr>>
         \/ /\ fd[p] = 0 /\ fd' = [fd EXCEPT ![p] = i]
            /\ ptr' = [ptr EXCEPT ![p]["ip"] = 0]
            /\ Then(p, <<>>)
            /\ \/ /\ n.type = "file" /\ disk' = [disk EXCEPT ![i] = cut]
                  /\ itable' = [itable EXCEPT ![i].node = cut, ![i].lock = NoProc]
               \/ itable' = [itable EXCEPT ![i].lock = NoProc] /\ disk' = disk
  BY DEF Opened, fsVars, progVars
<1>2. IsTable(itable) /\ IsDisk(disk)
  BY DEF FsInv, FsTypes
<1>3. CASE Then(p, UnlockPut("ip")) /\ UNCHANGED <<disk, itable, fd, ptr>>
  BY <1>1, <1>3, OpenedFullStep
<1>4. ASSUME itable' = [itable EXCEPT ![i].lock = NoProc], disk' = disk
      PROVE  \E u : Touched(itable, u, disk, disk') /\ Relocked(u, itable', i, NoProc)
  <2>1. Touched(itable, itable, disk, disk)
    BY <1>2, TouchNone
  <2>2. Relocked(itable, itable', i, NoProc)
    BY <1>2, <1>4, LockAt
  <2> QED BY <1>4, <2>1, <2>2
<1>5. ASSUME n.type = "file", disk' = [disk EXCEPT ![i] = cut],
             itable' = [itable EXCEPT ![i].node = cut, ![i].lock = NoProc]
      PROVE  \E u : Touched(itable, u, disk, disk') /\ Relocked(u, itable', i, NoProc)
  <2>1. i \in Inums => IsNode(cut) /\ cut.type # "none"
    <3>1. PICK m : m = n
      OBVIOUS
    <3>2. i \in Inums => IsNode(m)
      BY <1>2, <3>1 DEF IsTable, IsEntry
    <3>3. IsNode(m) => /\ IsNode([m EXCEPT !.addrs = NoBlocks])
                       /\ [m EXCEPT !.addrs = NoBlocks] = [type |-> m.type, nlink |-> m.nlink, addrs |-> NoBlocks]
      BY NodeFields
    <3>4. IsNode(m) => [m EXCEPT !.addrs = NoBlocks].type = m.type
      BY <3>3
    <3>5. cut = [m EXCEPT !.addrs = NoBlocks] /\ m.type = "file"
      BY <1>5, <3>1
    <3> HIDE DEF cut
    <3> QED BY <3>2, <3>3, <3>4, <3>5
  <2> HIDE DEF cut
  <2> DEFINE u == [itable EXCEPT ![i].node = cut]
  <2>2. itable' = [u EXCEPT ![i].lock = NoProc]
    BY <1>2, <1>5 DEF IsTable
  <2>3. Wrote(itable, u, disk, disk', i, cut)
    BY <1>5, <2>1 DEF Wrote
  <2> HIDE DEF u
  <2>4. Touched(itable, itable, disk, disk)
    BY <1>2, TouchNone
  <2>5. Touched(itable, u, disk, disk')
    BY <2>3, <2>4, TouchAt
  <2>6. Relocked(u, itable', i, NoProc)
    <3>1. IsTable(u)
      BY <2>5 DEF Touched
    <3> QED BY <2>2, <3>1, LockAt
  <2> QED BY <2>5, <2>6
<1>6. CASE /\ fd[p] = 0 /\ fd' = [fd EXCEPT ![p] = i]
           /\ ptr' = [ptr EXCEPT ![p]["ip"] = 0]
           /\ Then(p, <<>>)
           /\ \/ /\ n.type = "file" /\ disk' = [disk EXCEPT ![i] = cut]
                 /\ itable' = [itable EXCEPT ![i].node = cut, ![i].lock = NoProc]
              \/ itable' = [itable EXCEPT ![i].lock = NoProc] /\ disk' = disk
  <2>1. PICK u : Touched(itable, u, disk, disk') /\ Relocked(u, itable', i, NoProc)
    BY <1>4, <1>5, <1>6
  <2> QED BY <1>1, <1>6, <2>1, OpenedFileStep
<1> QED BY <1>1, <1>3, <1>6

\* sys_chdir(), the new directory.
LEMMA ChdirMove ==
  ASSUME NEW P, NEW Q, NEW c, NEW i, \A w \in Ptrs : ~UsedAt({<<"chdir_ip", "ip">>}, w) => P[w] \notin Inums,
         \A w \in Ptrs : w # "x" => Q[w] = P[w]
  PROVE  PlanMove({<<"chdir_ip", "ip">>}, {<<"put", "x">>, <<"cwd", "ip">>}, P, Q, c, i, "none")
<1> DEFINE K == {<<"chdir_ip", "ip">>}
           L == {<<"put", "x">>, <<"cwd", "ip">>}
<1>1. Linked(L, c)
  BY DEF Linked
<1>2. \A w \in Ptrs : ~UsedAt(L, w) => ~UsedAt(K, w) /\ w # "x"
  BY DEF UsedAt
<1>3. \A w \in Ptrs : ~LockedAt(L, w) /\ ~FirmAt(L, w) /\ ~FreedAt(L, w) /\ ~FreedAt(K, w)
  BY DEF LockedAt, FirmAt, FreedAt
<1> QED BY <1>1, <1>2, <1>3 DEF PlanMove

LEMMA ChdirIpStep ==
  ASSUME FsInv, NEW p \in Procs, ChdirIp(p) PROVE FsInv'
<1> DEFINE i == I(p)
<1>1. /\ At(p, "chdir_ip") /\ Free(i) /\ Node(i).type # "none"
      /\ itable' = ilock(NoProc, i) /\ disk' = disk
      /\ cwd' = cwd /\ fd' = fd /\ work' = work /\ rest' = rest /\ call' = call
      /\ \/ Then(p, << <<"put", "ip">> >>) /\ ptr' = ptr
         \/ /\ ptr' = [ptr EXCEPT ![p]["x"] = cwd[p]]
            /\ Then(p, << <<"put", "x">>, <<"cwd", "ip">> >>)
  BY DEF ChdirIp, fsVars, others, progVars
<1>2. V(p) = "ip"
  BY <1>1, HeadKind, PtrOf DEF OnIp
<1>3. "chdir_ip" \in LastOps /\ "none" \notin Ptrs
  BY DEF LastOps, Ptrs
<1>4. CASE Then(p, << <<"put", "ip">> >>) /\ ptr' = ptr
  <2>1. /\ Plan(<< <<"put", "ip">> >>, {<<"put", "ip">>})
        /\ Onward({<<"chdir_ip", V(p)>>}, {<<"put", "ip">>}, call[p], V(p), "none")
    BY <1>2, PlanOf, OnwardOf
  <2> QED BY <1>1, <1>3, <1>4, <2>1, LockOnly
<1>5. CASE /\ ptr' = [ptr EXCEPT ![p]["x"] = cwd[p]]
           /\ Then(p, << <<"put", "x">>, <<"cwd", "ip">> >>)
  <2>1. /\ Pending(p) = {<<"chdir_ip", "ip">>} /\ Turn(p)
        /\ Pending(p)' = {<<"put", "x">>, <<"cwd", "ip">>}
    BY <1>1, <1>2, <1>3, <1>5, PlanOf, LastStep
  <2>2. FsTypes /\ RefsExact /\ \A w \in Ptrs : ~UsedAt(Pending(p), w) => ptr[p][w] \notin Inums
    BY DEF FsInv, Clear
  <2>3. /\ DOMAIN ptr' = Procs /\ \A q \in Procs : DOMAIN ptr'[q] = Ptrs
        /\ ptr'[p]["x"] = cwd[p] /\ \A w \in Ptrs : w # "x" => ptr'[p][w] = ptr[p][w]
        /\ \A q \in Procs : q # p => ptr'[q] = ptr[q]
    BY <1>5, <2>2 DEF FsTypes, Ptrs
  <2>4. TableMove(i, NoProc) /\ \A j \in Inums : itable'[j].ref = itable[j].ref
    BY <1>1, TableLock
  <2>5. RefsExact'
    <3>1. /\ "x" \in Cells /\ "cwd" \in Cells /\ "x" # "cwd"
          /\ Held(p, "cwd") = cwd[p] /\ Held(p, "cwd")' = 0
          /\ Held(p, "x") = ptr[p]["x"] /\ Held(p, "x")' = cwd[p]
      BY <2>1, <2>3 DEF Held, Cells, Ptrs
    <3>2. ptr[p]["x"] \notin Inums
      <4>1. "x" \in Ptrs /\ ~UsedAt({<<"chdir_ip", "ip">>}, "x")
        BY DEF UsedAt, Ptrs
      <4> QED BY <2>1, <2>2, <4>1
    <3>3. \A q \in Procs, d \in Cells : q # p => Held(q, d)' = Held(q, d)
      BY <1>1, <2>1, <2>3 DEF Held, Turn
    <3>4. \A d \in Cells : d \notin {"cwd", "x"} => Held(p, d)' = Held(p, d)
      BY <1>1, <2>3 DEF Held, Cells
    <3>5. ASSUME NEW q \in Procs, NEW d \in Cells, ~(q = p /\ d \in {"cwd", "x"})
          PROVE  Held(q, d)' = Held(q, d) \/ (Held(q, d) \notin Inums /\ Held(q, d)' \notin Inums)
      <4>1. Held(q, d)' = Held(q, d)
        BY <3>3, <3>4, <3>5
      <4> QED BY <4>1
    <3>6. \A j \in Inums :
           /\ itable[j].ref \in Nat
           /\ Held(p, "cwd")' = j => itable'[j].ref = itable[j].ref + 1
           /\ Held(p, "cwd")' # j => itable'[j].ref = itable[j].ref
      BY <2>2, <2>4, <3>1, FsAssumption DEF FsTypes, IsTable, IsEntry
    <3>7. Held(p, "x") \notin Inums /\ Held(p, "x")' = Held(p, "cwd")
      BY <3>1, <3>2
    <3> QED BY <2>2, <3>1, <3>5, <3>6, <3>7, RefsTwo
  <2>6. PlanMove(Pending(p), Pending(p)', ptr[p], ptr'[p], call[p], i, "none")
    <3>1. PICK P, Q : /\ P = ptr[p] /\ Q = ptr'[p]
                      /\ \A w \in Ptrs : ~UsedAt({<<"chdir_ip", "ip">>}, w) => P[w] \notin Inums
                      /\ \A w \in Ptrs : w # "x" => Q[w] = P[w]
      BY <2>1, <2>2, <2>3
    <3>2. PlanMove({<<"chdir_ip", "ip">>}, {<<"put", "x">>, <<"cwd", "ip">>}, P, Q, call[p], i, "none")
      BY <3>1, ChdirMove
    <3> QED BY <2>1, <3>1, <3>2
  <2>7. Points(p)
    BY <2>3 DEF Points
  <2> QED BY <1>1, <1>3, <2>1, <2>4, <2>5, <2>6, <2>7, LockStep
<1> QED BY <1>1, <1>4, <1>5

-----------------------------------------------------------------------------
(* iput() of an inode without links.                                       *)

\* The plan K and the pointers P of a process that goes on with to at pointer v.
Freeing(K, L, P, c, v, op, to) ==
  /\ Linked(L, c)
  /\ \A w \in Ptrs : ~UsedAt(L, w) => P[w] \notin Inums
  /\ \A w \in Ptrs : w # v /\ LockedAt(L, w) => LockedAt(K, w)
  /\ \A w \in Ptrs : FirmAt(L, w) => w # v /\ FirmAt(K, w)
  /\ \A w \in Ptrs : FreedAt(L, w) => w = v
  /\ to = "deref" => ~FreedAt(L, v) /\ ~LockedAt(L, v)
  /\ \A w \in Ptrs : <<"drop", w>> \in K => op = "drop" /\ w = v
  /\ <<"cwd", "ip">> \in K <=> <<"cwd", "ip">> \in L
  /\ <<op, v>> \in K /\ <<to, v>> \in L /\ (op = "drop" => to = "deref")

\* L is T after step to.
Joined(L, to, v, T) == L = {<<to, v>>} \union T

\* iput() of the last reference, step by step.
LEMMA UnusedPlan ==
  ASSUME NEW T, NEW v, NEW P, NEW c, NEW K, NEW op, NEW to, NEW L,
         <<op, to>> \in {<<"put", "free">>, <<"free", "drop">>, <<"drop", "deref">>},
         Heads(K, op, v, T, P, c), Joined(L, to, v, T)
  PROVE  Freeing(K, L, P, c, v, op, to)
<1>b. L = {<<to, v>>} \union T
  BY DEF Joined
<1>0. /\ T \in SUBSET KindSet /\ v \in Ptrs /\ K = {<<op, v>>} \union T
      /\ \A b \in T : Before(<<op, v>>, b)
      /\ Linked(K, c)
      /\ \A w \in Ptrs : ~UsedAt(K, w) => P[w] \notin Inums
  BY DEF Heads
<1>a. op \in Puts /\ op \in {"put", "free", "drop"} /\ to \in {"free", "drop", "deref"}
      /\ (op = "drop" <=> to = "deref")
  BY DEF Puts
<1>1. \A b \in T : /\ b[1] \notin {"free", "drop", "deref", "unlink_ip", "create_ip"}
                   /\ b[2] # v /\ (v # "x" => b[1] # "link_dp")
  BY <1>0, <1>a DEF Before, HeadOnly
<1>2. Linked(L, c)
  BY <1>0, <1>a, <1>b DEF Linked
<1>3. \A w \in Ptrs : UsedAt(K, w) => UsedAt(L, w)
  BY <1>0, <1>a, <1>b DEF UsedAt
<1>4. \A w \in Ptrs : w # v /\ LockedAt(L, w) => LockedAt(K, w)
  BY <1>0, <1>a, <1>b DEF LockedAt
<1>5. \A w \in Ptrs : FirmAt(L, w) => FirmAt(K, w)
  BY <1>0, <1>a, <1>b DEF FirmAt
<1>6. ~FirmAt(L, v)
  BY <1>0, <1>a, <1>b, <1>1 DEF FirmAt, Ptrs
<1>7. \A w \in Ptrs : FreedAt(L, w) => w = v
  BY <1>0, <1>b, <1>1 DEF FreedAt
<1>8. to = "deref" => ~FreedAt(L, v) /\ ~LockedAt(L, v)
  BY <1>0, <1>b, <1>1 DEF FreedAt, LockedAt
<1>9. \A w \in Ptrs : <<"drop", w>> \in K => op = "drop" /\ w = v
  BY <1>0, <1>1
<1>10. <<"cwd", "ip">> \in K <=> <<"cwd", "ip">> \in L
  BY <1>0, <1>a, <1>b
<1>11. <<op, v>> \in K /\ <<to, v>> \in L /\ (op = "drop" => to = "deref")
  BY <1>0, <1>a, <1>b
<1> QED BY <1>0, <1>11, <1>2, <1>3, <1>4, <1>5, <1>6, <1>7, <1>8, <1>9, <1>10 DEF Freeing

LEMMA FreeingTurn ==
  ASSUME FsInv, NEW p \in Procs, NEW op, NEW to,
         <<op, to>> \in {<<"put", "free">>, <<"free", "drop">>, <<"drop", "deref">>},
         At(p, op), Then(p, << <<to, V(p)>> >>)
  PROVE  /\ V(p) \in Ptrs /\ Turn(p)
         /\ Freeing(Pending(p), Pending(p)', ptr[p], call[p], V(p), op, to)
<1>1. op \in Puts /\ to \in Puts /\ to # "put"
  BY DEF Puts
<1>2. \A b \in KindSet : Before(<<op, V(p)>>, b) => Before(<<to, V(p)>>, b)
  BY <1>1 DEF Before, LastOps, Puts
<1>3. V(p) \in Ptrs
  <2>1. \A b \in KindSet : b[1] \in Puts => b[2] \in Ptrs
    BY DEF KindSet, Puts, OnDp, OnIp
  <2>2. todo[p] \in Seq(Items) /\ todo[p] # <<>> /\ Head(todo[p])[1] = op
    BY IsAt DEF FsInv, Ordered
  <2>3. Kind(Head(todo[p])) \in KindSet /\ Kind(Head(todo[p]))[1] = op /\ Kind(Head(todo[p]))[2] = V(p)
    BY <2>2, TailKinds, KindOf DEF V
  <2> QED BY <1>1, <2>1, <2>3
<1>4. <<to, V(p)>> \in KindSet
  BY <1>1, <1>3 DEF KindSet
<1>5. Plan(<< <<to, V(p)>> >>, {<<to, V(p)>>})
  BY <1>4, PlanOne
<1>6. /\ Turn(p)
      /\ \E T \in SUBSET KindSet :
           /\ Pending(p) = {<<op, V(p)>>} \union T
           /\ \A b \in T : Before(<<op, V(p)>>, b)
           /\ Pending(p)' = {<<to, V(p)>>} \union T
  <2>1. \A a \in {<<to, V(p)>>} : \A b \in KindSet : Before(<<op, V(p)>>, b) => Before(a, b)
    BY <1>2
  <2> QED BY <1>5, <2>1, Proceed
<1>7. PICK T, v, K, P, c, L :
        /\ T \in SUBSET KindSet /\ v = V(p) /\ K = Pending(p) /\ P = ptr[p] /\ c = call[p] /\ L = Pending(p)'
        /\ K = {<<op, v>>} \union T /\ L = {<<to, v>>} \union T
        /\ \A b \in T : Before(<<op, v>>, b)
  BY <1>6
<1>8. Heads(K, op, v, T, P, c)
  <2>1. Linked(Pending(p), call[p]) /\ \A w \in Ptrs : ~UsedAt(Pending(p), w) => ptr[p][w] \notin Inums
    BY DEF FsInv, Ordered, Clear
  <2>2. \A w \in Ptrs : ~UsedAt(K, w) => P[w] \notin Inums
    BY <1>7, <2>1
  <2> QED BY <1>3, <1>7, <2>1, <2>2 DEF Heads
<1>9. Freeing(K, L, P, c, v, op, to)
  BY <1>7, <1>8, UnusedPlan DEF Joined
<1> QED BY <1>3, <1>6, <1>7, <1>9

\* What it does to the table and the disk: inode i alone changes, and keeps its count.
Confined(p, i, to) ==
  /\ IsTable(itable') /\ IsDisk(disk')
  /\ \A j \in Inums : j # i => itable'[j] = itable[j] /\ disk'[j] = disk[j]
  /\ i \in Inums =>
       /\ itable'[i].ref = itable[i].ref /\ itable[i].lock \in {NoProc, p}
       /\ to # "deref" => itable'[i].lock = p
       /\ itable'[i].valid => to # "deref" /\ (to = "drop" \/ (itable'[i].node = disk'[i] /\ disk'[i].type # "none"))

\* Nothing else is to find inode ptr[p][v] as it was.
Alone(p, v) ==
  \A q \in Procs, w \in Ptrs :
    (q # p \/ w # v) /\ ptr[q][w] \in Inums
      /\ (FirmAt(Pending(q), w) \/ (q = p /\ LockedAt(Pending(p), w))) => ptr[q][w] # ptr[p][v]

LEMMA FreeingStep ==
  ASSUME FsInv, NEW p \in Procs, NEW op, NEW to, NEW v \in Ptrs, Turn(p),
         Freeing(Pending(p), Pending(p)', ptr[p], call[p], v, op, to),
         UNCHANGED <<ptr, cwd, fd, work, rest, call>>, Confined(p, ptr[p][v], to), Alone(p, v),
         to \in {"free", "drop", "deref"}
  PROVE  FsInv'
<1> DEFINE i == ptr[p][v]
<1>1. ptr' = ptr /\ cwd' = cwd /\ fd' = fd /\ work' = work /\ rest' = rest /\ call' = call
  OBVIOUS
<1>2. PICK K, L, P, c : /\ K = Pending(p) /\ L = Pending(p)' /\ P = ptr[p] /\ c = call[p]
                        /\ Freeing(K, L, P, c, v, op, to)
  OBVIOUS
<1>3. /\ Linked(L, c)
      /\ \A w \in Ptrs : ~UsedAt(L, w) => P[w] \notin Inums
      /\ \A w \in Ptrs : w # v /\ LockedAt(L, w) => LockedAt(K, w)
      /\ \A w \in Ptrs : FirmAt(L, w) => w # v /\ FirmAt(K, w)
      /\ \A w \in Ptrs : FreedAt(L, w) => w = v
      /\ to = "deref" => ~FreedAt(L, v) /\ ~LockedAt(L, v)
      /\ \A w \in Ptrs : <<"drop", w>> \in K => op = "drop" /\ w = v
      /\ <<"cwd", "ip">> \in K <=> <<"cwd", "ip">> \in L
      /\ <<to, v>> \in L /\ (op = "drop" => to = "deref")
  BY <1>2 DEF Freeing
<1>4. /\ IsTable(itable') /\ IsDisk(disk')
      /\ \A j \in Inums : j # i => itable'[j] = itable[j] /\ disk'[j] = disk[j]
      /\ i \in Inums =>
           /\ itable'[i].ref = itable[i].ref /\ itable[i].lock \in {NoProc, p}
           /\ to # "deref" => itable'[i].lock = p
           /\ itable'[i].valid => to # "deref" /\ (to = "drop" \/ (itable'[i].node = disk'[i] /\ disk'[i].type # "none"))
  BY DEF Confined
<1>5. \A q \in Procs, w \in Ptrs :
        (q # p \/ w # v) /\ ptr[q][w] \in Inums
          /\ (FirmAt(Pending(q), w) \/ (q = p /\ LockedAt(Pending(p), w))) => ptr[q][w] # i
  BY DEF Alone
<1>6. i = ptr[p][v]
  OBVIOUS
<1> HIDE DEF i
<1>7. \A q \in Procs : q # p => Pending(q)' = Pending(q) /\ ptr'[q] = ptr[q]
  BY <1>1 DEF Turn
<1>8. \A q \in Procs, w \in Ptrs :
        q # p /\ ptr[q][w] \in Inums /\ itable[ptr[q][w]].lock = q => itable'[ptr[q][w]].lock = q
  BY <1>4, FsAssumption
<1>9. \A q \in Procs, w \in Ptrs :
        q # p /\ FirmAt(Pending(q), w) /\ ptr[q][w] \in Inums =>
          /\ itable'[ptr[q][w]].valid
          /\ \A x \in Ptrs : FreedAt(Pending(p)', x) => ptr[q][w] # ptr'[p][x]
  <2> SUFFICES ASSUME NEW q \in Procs, NEW w \in Ptrs, q # p, FirmAt(Pending(q), w), ptr[q][w] \in Inums
               PROVE  /\ itable'[ptr[q][w]].valid
                      /\ \A x \in Ptrs : FreedAt(Pending(p)', x) => ptr[q][w] # ptr'[p][x]
    OBVIOUS
  <2>1. itable[ptr[q][w]].valid /\ ptr[q][w] # i
    BY <1>5 DEF FsInv, Keeping, FirmValid
  <2> QED BY <1>1, <1>2, <1>3, <1>4, <1>6, <2>1
<1>10. \A w \in Ptrs : LockedAt(Pending(p)', w) /\ ptr'[p][w] \in Inums => itable'[ptr'[p][w]].lock = p
  <2> SUFFICES ASSUME NEW w \in Ptrs, LockedAt(Pending(p)', w), ptr'[p][w] \in Inums
               PROVE  itable'[ptr'[p][w]].lock = p
    OBVIOUS
  <2>1. CASE w = v
    BY <1>1, <1>2, <1>3, <1>4, <1>6, <2>1
  <2>2. CASE w # v
    <3>1. LockedAt(Pending(p), w)
      BY <1>2, <1>3, <2>2
    <3>2. itable[ptr[p][w]].lock = p /\ ptr[p][w] # i
      BY <1>1, <1>5, <2>2, <3>1 DEF FsInv, Keeping, LocksHeld
    <3> QED BY <1>1, <1>4, <3>2
  <2> QED BY <2>1, <2>2
<1>11. \A u, w \in Ptrs : LockedAt(Pending(p)', u) /\ LockedAt(Pending(p)', w) /\ u # w
                          /\ ptr'[p][u] \in Inums => ptr'[p][u] # ptr'[p][w]
  <2> SUFFICES ASSUME NEW u \in Ptrs, NEW w \in Ptrs, LockedAt(Pending(p)', u), LockedAt(Pending(p)', w),
                      u # w, ptr'[p][u] \in Inums, ptr'[p][u] = ptr'[p][w]
               PROVE  FALSE
    OBVIOUS
  <2>1. (u # v => LockedAt(Pending(p), u)) /\ (w # v => LockedAt(Pending(p), w))
    BY <1>2, <1>3
  <2>2. CASE u = v
    BY <1>1, <1>5, <1>6, <2>1, <2>2
  <2>3. CASE w = v
    BY <1>1, <1>5, <1>6, <2>1, <2>3
  <2>4. CASE u # v /\ w # v
    BY <1>1, <2>1, <2>4 DEF FsInv, Keeping, LocksApart
  <2> QED BY <2>2, <2>3, <2>4
<1>12. \A w \in Ptrs : FirmAt(Pending(p)', w) /\ ptr'[p][w] \in Inums =>
         /\ itable'[ptr'[p][w]].valid
         /\ \A x \in Ptrs : FreedAt(Pending(p)', x) => ptr'[p][w] # ptr'[p][x]
         /\ \A q \in Procs, x \in Ptrs : q # p /\ FreedAt(Pending(q), x) => ptr'[p][w] # ptr[q][x]
  <2> SUFFICES ASSUME NEW w \in Ptrs, FirmAt(Pending(p)', w), ptr'[p][w] \in Inums
               PROVE  /\ itable'[ptr'[p][w]].valid
                      /\ \A x \in Ptrs : FreedAt(Pending(p)', x) => ptr'[p][w] # ptr'[p][x]
                      /\ \A q \in Procs, x \in Ptrs : q # p /\ FreedAt(Pending(q), x) => ptr'[p][w] # ptr[q][x]
    OBVIOUS
  <2>1. w # v /\ FirmAt(Pending(p), w) /\ ptr[p][w] \in Inums
    BY <1>1, <1>2, <1>3
  <2>2. itable[ptr[p][w]].valid /\ ptr[p][w] # i
        /\ \A q \in Procs, x \in Ptrs : FreedAt(Pending(q), x) => ptr[p][w] # ptr[q][x]
    BY <1>5, <2>1 DEF FsInv, Keeping, FirmValid, FirmKept
  <2>3. itable'[ptr'[p][w]].valid
    BY <1>1, <1>4, <2>1, <2>2
  <2>4. \A x \in Ptrs : FreedAt(Pending(p)', x) => ptr'[p][w] # ptr'[p][x]
    BY <1>1, <1>2, <1>3, <1>6, <2>2
  <2>5. \A q \in Procs, x \in Ptrs : q # p /\ FreedAt(Pending(q), x) => ptr'[p][w] # ptr[q][x]
    BY <1>1, <2>2
  <2> QED BY <2>3, <2>4, <2>5
<1>13. Keeping'
  BY <1>7, <1>8, <1>9, <1>10, <1>11, <1>12, KeepingStep
<1>14. Cached'
  <2>1. ASSUME NEW w \in Ptrs, <<"drop", w>> \in Pending(p), ptr[p][w] \in Inums
        PROVE  ~itable'[ptr[p][w]].valid
    <3>1. op = "drop" /\ w = v
      BY <1>2, <1>3, <2>1
    <3>2. to = "deref"
      BY <1>3, <3>1
    <3> QED BY <1>4, <1>6, <2>1, <3>1, <3>2
  <2>2. ASSUME NEW j \in Inums, itable'[j].valid PROVE Sound(j)' \/ Dropping(j) \/ Dropping(j)'
    <3>1. CASE j = i
      <4>1. ASSUME to = "drop" PROVE Dropping(j)'
        <5>1. itable'[j].lock = p /\ ptr'[p][v] = j /\ <<"drop", v>> \in Pending(p)'
          BY <1>1, <1>2, <1>3, <1>4, <1>6, <3>1, <4>1
        <5> QED BY <5>1 DEF Dropping
      <4>2. to = "drop" \/ Sound(j)'
        BY <1>4, <2>2, <3>1 DEF Sound
      <4> QED BY <4>1, <4>2
    <3>2. CASE j # i
      BY <1>4, <2>2, <3>2 DEF FsInv, Cached, Sound
    <3> QED BY <3>1, <3>2
  <2> QED BY <1>7, <1>8, <2>1, <2>2, CachedStep
<1>15. Clear'
  <2>1. \A w \in Ptrs : ~UsedAt(Pending(p)', w) => ptr'[p][w] \notin Inums
    BY <1>1, <1>2, <1>3
  <2> QED BY <1>7, <2>1, ClearStep
<1>16. Ordered'
  <2>1. Linked(Pending(p)', call'[p]) /\ \A q \in Procs : q # p => call'[q] = call[q]
    BY <1>1, <1>2, <1>3
  <2> QED BY <2>1, OrderedStep
<1>17. RefsExact'
  <2>1. \A j \in Inums : itable'[j].ref = itable[j].ref
    BY <1>4
  <2>2. <<"cwd", "ip">> \in Pending(p)' <=> <<"cwd", "ip">> \in Pending(p)
    BY <1>2, <1>3
  <2> QED BY <1>1, <1>7, <2>1, <2>2, RefsAlone DEF FsInv
<1>18. FsTypes'
  BY <1>1, <1>4 DEF FsInv, FsTypes
<1> QED BY <1>13, <1>14, <1>15, <1>16, <1>17, <1>18 DEF FsInv

LEMMA PutUnusedStep ==
  ASSUME FsInv, NEW p \in Procs, PutUnused(p) PROVE FsInv'
<1> DEFINE i == I(p)
<1>1. /\ At(p, "put") /\ Unused(i) /\ Free(i) /\ itable' = [itable EXCEPT ![i].lock = p]
      /\ Then(p, << <<"free", V(p)>> >>)
      /\ disk' = disk /\ ptr' = ptr /\ cwd' = cwd /\ fd' = fd /\ work' = work /\ rest' = rest /\ call' = call
  BY DEF PutUnused, fsVars, others, progVars
<1>2. FsTypes /\ RefsExact
  BY DEF FsInv
<1>3. /\ V(p) \in Ptrs /\ Turn(p)
      /\ Freeing(Pending(p), Pending(p)', ptr[p], call[p], V(p), "put", "free")
  BY <1>1, FreeingTurn
<1>4. PICK v : v = V(p) /\ v \in Ptrs /\ i = ptr[p][v]
  BY <1>3 DEF I
<1> HIDE DEF i
<1>5. /\ IsTable(itable') /\ \A j \in Inums : j # i => itable'[j] = itable[j]
      /\ i \in Inums => /\ itable'[i].ref = itable[i].ref /\ itable'[i].valid = itable[i].valid
                        /\ itable'[i].node = itable[i].node /\ itable'[i].lock = p
  <2>1. IsTable(itable)
    BY <1>2 DEF FsTypes
  <2>2. Relocked(itable, itable', i, p)
    BY <1>1, <2>1, LockAt
  <2> QED BY <2>2 DEF Relocked
<1>6. Confined(p, i, "free")
  <2>1. i \in Inums => itable[i].lock = NoProc /\ (itable[i].valid => Sound(i))
    BY <1>1, NodeOnDisk DEF Free
  <2> QED BY <1>1, <1>2, <1>5, <2>1 DEF Confined, Sound, FsTypes
<1>7. Alone(p, v)
  BY <1>1, <1>2, <1>4, OnlyPtr DEF Alone, Unused
<1> QED BY <1>1, <1>3, <1>4, <1>6, <1>7, FreeingStep

\* No other pointer that a step relies on leads to an inode that p is freeing.
LEMMA FreeingAlone ==
  ASSUME FsInv, NEW p \in Procs, NEW v \in Ptrs, FreedAt(Pending(p), v)
  PROVE  Alone(p, v) /\ (ptr[p][v] \in Inums => itable[ptr[p][v]].lock = p)
<1>1. LockedAt(Pending(p), v)
  BY DEF FreedAt, LockedAt
<1>2. ASSUME NEW q \in Procs, NEW w \in Ptrs, ptr[q][w] \in Inums, FirmAt(Pending(q), w)
      PROVE  ptr[q][w] # ptr[p][v]
  BY <1>2 DEF FsInv, Keeping, FirmKept
<1>3. ASSUME NEW w \in Ptrs, w # v, ptr[p][w] \in Inums, LockedAt(Pending(p), w)
      PROVE  ptr[p][w] # ptr[p][v]
  BY <1>1, <1>3 DEF FsInv, Keeping, LocksApart
<1>4. ptr[p][v] \in Inums => itable[ptr[p][v]].lock = p
  BY <1>1 DEF FsInv, Keeping, LocksHeld
<1> QED BY <1>2, <1>3, <1>4 DEF Alone

LEMMA FreeInodeStep ==
  ASSUME FsInv, NEW p \in Procs, FreeInode(p) PROVE FsInv'
<1> DEFINE i == I(p)
<1>0. CASE ~(Range(itable[i].node.addrs) \subseteq bitmap)
  BY <1>0, FailsStep DEF FreeInode
<1>a. CASE Range(itable[i].node.addrs) \subseteq bitmap
  <2>1. /\ At(p, "free") /\ itable' = [itable EXCEPT ![i].node = FreeNode]
        /\ disk' = [disk EXCEPT ![i] = FreeNode]
        /\ Then(p, << <<"drop", V(p)>> >>)
        /\ ptr' = ptr /\ cwd' = cwd /\ fd' = fd /\ work' = work /\ rest' = rest /\ call' = call
    BY <1>a DEF FreeInode, others, progVars
  <2>2. FsTypes /\ RefsExact
    BY DEF FsInv
  <2>3. /\ V(p) \in Ptrs /\ Turn(p)
        /\ Freeing(Pending(p), Pending(p)', ptr[p], call[p], V(p), "free", "drop")
    BY <2>1, FreeingTurn
  <2>4. PICK v : v = V(p) /\ v \in Ptrs /\ i = ptr[p][v]
    BY <2>3 DEF I
  <2> HIDE DEF i
  <2>5. Alone(p, v) /\ (i \in Inums => itable[i].lock = p)
    <3>1. FreedAt(Pending(p), v)
      BY <2>3, <2>4 DEF Freeing, FreedAt
    <3> QED BY <2>4, <3>1, FreeingAlone
  <2>a. IsTable(itable) /\ IsDisk(disk) /\ IsNode(FreeNode)
    BY <2>2, FreshEntry DEF FsTypes
  <2>b. PICK n : n = FreeNode /\ (i \in Inums => IsNode(n))
    BY <2>a
  <2>6. /\ IsTable(itable') /\ \A j \in Inums : j # i => itable'[j] = itable[j]
        /\ i \in Inums => itable'[i].ref = itable[i].ref /\ itable'[i].lock = itable[i].lock
    <3> DEFINE u == [itable EXCEPT ![i].node = n]
    <3>1. /\ IsTable(u) /\ \A j \in Inums : j # i => u[j] = itable[j]
          /\ i \in Inums => u[i].ref = itable[i].ref /\ u[i].lock = itable[i].lock
      BY <2>a, <2>b, NodeAt
    <3>2. itable' = u
      BY <2>1, <2>b
    <3> HIDE DEF u
    <3> QED BY <3>1, <3>2
  <2>7. IsDisk(disk') /\ \A j \in Inums : j # i => disk'[j] = disk[j]
    <3> DEFINE u == [disk EXCEPT ![i] = n]
    <3>1. IsDisk(u) /\ \A j \in Inums : j # i => u[j] = disk[j]
      BY <2>a, <2>b, DiskAt
    <3>2. disk' = u
      BY <2>1, <2>b
    <3> HIDE DEF u
    <3> QED BY <3>1, <3>2
  <2>8. Confined(p, i, "drop")
    BY <2>5, <2>6, <2>7 DEF Confined
  <2> QED BY <2>1, <2>3, <2>4, <2>5, <2>8, FreeingStep
<1> QED BY <1>0, <1>a

LEMMA DropStep ==
  ASSUME FsInv, NEW p \in Procs, Drop(p) PROVE FsInv'
<1> DEFINE i == I(p)
<1>1. /\ At(p, "drop") /\ itable' = [itable EXCEPT ![i] = Taken(@.ref)]
      /\ Then(p, << <<"deref", V(p)>> >>)
      /\ disk' = disk /\ ptr' = ptr /\ cwd' = cwd /\ fd' = fd /\ work' = work /\ rest' = rest /\ call' = call
  BY DEF Drop, fsVars, others, progVars
<1>2. FsTypes /\ RefsExact
  BY DEF FsInv
<1>3. /\ V(p) \in Ptrs /\ Turn(p)
      /\ Freeing(Pending(p), Pending(p)', ptr[p], call[p], V(p), "drop", "deref")
  BY <1>1, FreeingTurn
<1>4. PICK v : v = V(p) /\ v \in Ptrs /\ i = ptr[p][v]
  BY <1>3 DEF I
<1> HIDE DEF i
<1>5. Alone(p, v) /\ (i \in Inums => itable[i].lock = p)
  <2>1. FreedAt(Pending(p), v)
    BY <1>3, <1>4 DEF Freeing, FreedAt
  <2> QED BY <1>4, <2>1, FreeingAlone
<1>6. DOMAIN itable = Inums /\ \A j \in Inums : IsEntry(itable[j]) /\ itable[j].ref \in Nat
  BY <1>2 DEF FsTypes, IsTable, IsEntry
<1>7. /\ DOMAIN itable' = Inums /\ \A j \in Inums : j # i => itable'[j] = itable[j]
      /\ i \in Inums => itable'[i] = Taken(itable[i].ref)
  BY <1>1, <1>6
<1>8. i \in Inums => IsEntry(itable'[i]) /\ itable'[i].ref = itable[i].ref /\ itable'[i].valid = FALSE
  BY <1>6, <1>7, FreshEntry
<1>9. IsTable(itable')
  BY <1>6, <1>7, <1>8 DEF IsTable
<1>10. Confined(p, i, "deref")
  BY <1>1, <1>2, <1>5, <1>7, <1>8, <1>9 DEF Confined, FsTypes
<1> QED BY <1>1, <1>3, <1>4, <1>5, <1>10, FreeingStep

-----------------------------------------------------------------------------
(* The calls begin.                                                        *)

\* The next call of a program, and its plan.
LEMMA NextCallAt ==
  ASSUME FsInv, NEW p \in Procs, NEW ops, NextCall(p, ops)
  PROVE  /\ Head(rest[p]) \in Requests /\ Head(rest[p]).op \in ops /\ call'[p] = Head(rest[p])
         /\ \A q \in Procs : q # p => call'[q] = call[q]
         /\ rest' \in [Procs -> Seq(Requests)] /\ call' \in [Procs -> Requests \union {NoCall}]
         /\ work' = work /\ todo[p] = <<>> /\ Pending(p) = {}
         /\ \A w \in Ptrs : ptr[p][w] \notin Inums
<1>1. /\ todo[p] = <<>> /\ rest[p] # <<>> /\ Head(rest[p]).op \in ops
      /\ call' = [call EXCEPT ![p] = Head(rest[p])]
      /\ rest' = [rest EXCEPT ![p] = Tail(@)]
      /\ work' = work
  BY DEF NextCall
<1>2. rest \in [Procs -> Seq(Requests)] /\ call \in [Procs -> Requests \union {NoCall}]
  BY DEF FsInv, FsTypes
<1>3. Head(rest[p]) \in Requests /\ Tail(rest[p]) \in Seq(Requests)
  BY <1>1, <1>2, HeadTailProperties
<1>4. Pending(p) = {}
  BY <1>1, Kinds0 DEF Pending
<1>5. \A w \in Ptrs : ~UsedAt(Pending(p), w)
  BY <1>4 DEF UsedAt
<1>6. \A w \in Ptrs : ptr[p][w] \notin Inums
  BY <1>5 DEF FsInv, Clear
<1>7. rest' \in [Procs -> Seq(Requests)] /\ call' \in [Procs -> Requests \union {NoCall}]
  BY <1>1, <1>2, <1>3
<1> QED BY <1>1, <1>2, <1>3, <1>4, <1>6, <1>7

LEMMA OnlyTurn ==
  ASSUME FsInv, NEW p \in Procs, NEW ops, NEW A, Plan(ops, A), Only(p, ops)
  PROVE  Turn(p) /\ Pending(p)' = A
<1>1. todo \in [Procs -> Seq(Items)] /\ \A q \in Procs : Tidy(todo[q])
  BY DEF FsInv, Ordered
<1>2. /\ todo' \in [Procs -> Seq(Items)] /\ todo'[p] = ops
      /\ \A q \in Procs : q # p => todo'[q] = todo[q]
  BY <1>1 DEF Only, Plan
<1>3. \A q \in Procs : Tidy(todo'[q])
  BY <1>1, <1>2 DEF Plan
<1>4. /\ \A q \in Procs : q # p => Kinds(todo'[q]) = Kinds(todo[q])
      /\ Kinds(todo'[p]) = A
  BY <1>2 DEF Plan
<1> QED BY <1>2, <1>3, <1>4 DEF Pending, Turn

\* The plan of a call that begins needs its first pointer alone, and locks nothing yet.
Begins(L, c, u) ==
  /\ Linked(L, c) /\ u \in Ptrs /\ \A w \in Ptrs : UsedAt(L, w) <=> w = u
  /\ \A w \in Ptrs : ~FreedAt(L, w) /\ ~LockedAt(L, w) /\ ~FirmAt(L, w)
  /\ <<"cwd", "ip">> \notin L

LEMMA BeginsParent ==
  ASSUME NEW W \in SUBSET {<<"walk", "dp">>}, NEW op \in {"unlink_dp", "create_dp"}, NEW c, c.op # "link"
  PROVE  Begins((W \union {<<"parent", "dp">>}) \union {<<op, "dp">>}, c, "dp")
<1> DEFINE L == (W \union {<<"parent", "dp">>}) \union {<<op, "dp">>}
<1>1. Linked(L, c)
  BY DEF Linked
<1>2. "dp" \in Ptrs /\ \A w \in Ptrs : UsedAt(L, w) <=> w = "dp"
  BY DEF Ptrs, UsedAt
<1>3. \A w \in Ptrs : ~FreedAt(L, w) /\ ~LockedAt(L, w)
  BY DEF FreedAt, LockedAt
<1>4. \A w \in Ptrs : ~FirmAt(L, w)
  BY DEF FirmAt
<1>5. <<"cwd", "ip">> \notin L
  OBVIOUS
<1> QED BY <1>1, <1>2, <1>3, <1>4, <1>5 DEF Begins

LEMMA BeginsNamei ==
  ASSUME NEW W \in SUBSET {<<"walk", "ip">>}, NEW op \in {"open_ip", "chdir_ip", "link_ip"}, NEW c,
         op = "link_ip" => c.op = "link"
  PROVE  Begins(W \union {<<op, "ip">>}, c, "ip")
<1> DEFINE L == W \union {<<op, "ip">>}
<1>1. Linked(L, c)
  BY DEF Linked
<1>2. "ip" \in Ptrs /\ \A w \in Ptrs : UsedAt(L, w) <=> w = "ip"
  BY DEF Ptrs, UsedAt
<1>3. \A w \in Ptrs : ~FreedAt(L, w) /\ ~LockedAt(L, w)
  BY DEF FreedAt, LockedAt
<1>4. \A w \in Ptrs : ~FirmAt(L, w)
  BY DEF FirmAt
<1>5. <<"cwd", "ip">> \notin L
  OBVIOUS
<1> QED BY <1>1, <1>2, <1>3, <1>4, <1>5 DEF Begins

LEMMA CallPlan ==
  ASSUME NEW c \in Requests, c.op \in Calls
  PROVE  \E L : Plan(Steps(c), L) /\ Begins(L, c, First(c))
<1>1. /\ c.op = "link" => c.path \in Paths
      /\ c.op \in {"open", "chdir"} => c.path \in Paths
      /\ c.op \in {"unlink", "creat", "mkdir"} => c.path \in Named
  BY RequestOf
<1>2. CASE c.op = "unlink"
  <2>1. Steps(c) = nameiparent("dp", c.path) \o << <<"unlink_dp", "dp">> >> /\ First(c) = "dp"
    BY <1>2 DEF Steps, First
  <2>2. PICK W \in SUBSET {<<"walk", "dp">>} :
          Plan(nameiparent("dp", c.path) \o << <<"unlink_dp", "dp">> >>,
               (W \union {<<"parent", "dp">>}) \union {<<"unlink_dp", "dp">>})
    BY <1>1, <1>2, PlanParent
  <2>3. Begins((W \union {<<"parent", "dp">>}) \union {<<"unlink_dp", "dp">>}, c, "dp")
    BY <1>2, BeginsParent
  <2> QED BY <2>1, <2>2, <2>3
<1>3. CASE c.op \in {"creat", "mkdir"}
  <2>1. Steps(c) = nameiparent("dp", c.path) \o << <<"create_dp", "dp">> >> /\ First(c) = "dp"
    BY <1>3 DEF Steps, First
  <2>2. PICK W \in SUBSET {<<"walk", "dp">>} :
          Plan(nameiparent("dp", c.path) \o << <<"create_dp", "dp">> >>,
               (W \union {<<"parent", "dp">>}) \union {<<"create_dp", "dp">>})
    BY <1>1, <1>3, PlanParent
  <2>3. Begins((W \union {<<"parent", "dp">>}) \union {<<"create_dp", "dp">>}, c, "dp")
    BY <1>3, BeginsParent
  <2> QED BY <2>1, <2>2, <2>3
<1>4. CASE c.op = "open"
  <2>1. Steps(c) = namei("ip", c.path) \o << <<"open_ip", "ip">> >> /\ First(c) = "ip"
    BY <1>4 DEF Steps, First
  <2>2. PICK W \in SUBSET {<<"walk", "ip">>} :
          Plan(namei("ip", c.path) \o << <<"open_ip", "ip">> >>, W \union {<<"open_ip", "ip">>})
    BY <1>1, <1>4, PlanNamei
  <2>3. Begins(W \union {<<"open_ip", "ip">>}, c, "ip")
    BY <1>4, BeginsNamei
  <2> QED BY <2>1, <2>2, <2>3
<1>5. CASE c.op = "chdir"
  <2>1. Steps(c) = namei("ip", c.path) \o << <<"chdir_ip", "ip">> >> /\ First(c) = "ip"
    BY <1>5 DEF Steps, First
  <2>2. PICK W \in SUBSET {<<"walk", "ip">>} :
          Plan(namei("ip", c.path) \o << <<"chdir_ip", "ip">> >>, W \union {<<"chdir_ip", "ip">>})
    BY <1>1, <1>5, PlanNamei
  <2>3. Begins(W \union {<<"chdir_ip", "ip">>}, c, "ip")
    BY <1>5, BeginsNamei
  <2> QED BY <2>1, <2>2, <2>3
<1>6. CASE c.op = "link"
  <2>1. Steps(c) = namei("ip", c.path) \o << <<"link_ip", "ip">> >> /\ First(c) = "ip"
    BY <1>6 DEF Steps, First
  <2>2. PICK W \in SUBSET {<<"walk", "ip">>} :
          Plan(namei("ip", c.path) \o << <<"link_ip", "ip">> >>, W \union {<<"link_ip", "ip">>})
    BY <1>1, <1>6, PlanNamei
  <2>3. Begins(W \union {<<"link_ip", "ip">>}, c, "ip")
    BY <1>6, BeginsNamei
  <2> QED BY <2>1, <2>2, <2>3
<1> QED BY <1>2, <1>3, <1>4, <1>5, <1>6 DEF Calls

LEMMA BeginInherit ==
  ASSUME NEW L, NEW c, NEW u, Begins(L, c, u), NEW P, NEW Q, \A w \in Ptrs : w # u => Q[w] \notin Inums
  PROVE  Inherit({}, L, P, Q, c)
BY DEF Inherit, Begins

LEMMA CallStep ==
  ASSUME FsInv, NEW p \in Procs, Call(p) PROVE FsInv'
<1> DEFINE r    == Head(rest[p])
           from == From(p, r.path)
<1>1. /\ NextCall(p, Calls) /\ itable' = iget(itable, from)
      /\ ptr' = [ptr EXCEPT ![p][First(r)] = from] /\ Only(p, Steps(r))
      /\ disk' = disk /\ cwd' = cwd /\ fd' = fd
  BY DEF Call, fsVars
<1>2. FsTypes /\ RefsExact
  BY DEF FsInv
<1>3. /\ r \in Requests /\ r.op \in Calls /\ call'[p] = r
      /\ \A q \in Procs : q # p => call'[q] = call[q]
      /\ rest' \in [Procs -> Seq(Requests)] /\ call' \in [Procs -> Requests \union {NoCall}]
      /\ work' = work /\ Pending(p) = {}
      /\ \A w \in Ptrs : ptr[p][w] \notin Inums
  BY <1>1, NextCallAt
<1>4. PICK c, u, n : c = r /\ u = First(r) /\ n = from
  OBVIOUS
<1>5. PICK L : Plan(Steps(c), L) /\ Begins(L, c, u)
  BY <1>3, <1>4, CallPlan
<1>6. Turn(p) /\ Pending(p)' = L
  BY <1>1, <1>4, <1>5, OnlyTurn
<1>7. u \in Ptrs /\ (\A w \in Ptrs : ~FreedAt(L, w) /\ ~LockedAt(L, w) /\ ~FirmAt(L, w)) /\ <<"cwd", "ip">> \notin L
  BY <1>5 DEF Begins
<1>8. /\ DOMAIN ptr' = Procs /\ \A q \in Procs : DOMAIN ptr'[q] = Ptrs
      /\ ptr'[p][u] = n /\ \A w \in Ptrs : w # u => ptr'[p][w] = ptr[p][w]
      /\ \A q \in Procs : q # p => ptr'[q] = ptr[q]
  <2>1. ptr' = [ptr EXCEPT ![p][u] = n]
    BY <1>1, <1>4
  <2> QED BY <1>2, <1>7, <2>1, PtrSet
<1>9. Got(itable, itable', n)
  <2>1. IsTable(itable) /\ itable' = iget(itable, n)
    BY <1>1, <1>2, <1>4 DEF FsTypes
  <2> QED BY <2>1, igetAt
<1> HIDE DEF r, from
<1>10. \A j \in Inums :
         /\ itable[j].ref \in Nat
         /\ j = n => itable'[j].ref = itable[j].ref + 1
         /\ j # n => itable'[j].ref = itable[j].ref
  BY <1>2, <1>9 DEF Got, FsTypes, IsTable, IsEntry
<1>11. \A j \in Inums : itable[j].ref > 0 =>
         itable'[j].lock = itable[j].lock /\ itable'[j].valid = itable[j].valid
  BY <1>9 DEF Got
<1>12. \A j \in Inums : itable'[j].valid => itable[j].valid /\ itable'[j].node = itable[j].node
  BY <1>9, <1>10 DEF Got
<1>13. RefsExact'
  <2>1. /\ ptr[p][u] \notin Inums
        /\ \A q \in Procs : q # p => Pending(q)' = Pending(q) /\ ptr'[q] = ptr[q]
        /\ <<"cwd", "ip">> \in Pending(p)' <=> <<"cwd", "ip">> \in Pending(p)
    BY <1>3, <1>6, <1>7, <1>8 DEF Turn
  <2> QED BY <1>1, <1>2, <1>7, <1>8, <1>10, <2>1, RefsGain
<1>14. FsTypes'
  BY <1>1, <1>2, <1>3, <1>8, <1>9 DEF FsTypes, Got
<1>15. Inherit(Pending(p), Pending(p)', ptr[p], ptr'[p], call'[p])
  <2>1. \A w \in Ptrs : w # u => ptr'[p][w] \notin Inums
    BY <1>3, <1>8
  <2>2. PICK P, Q : P = ptr[p] /\ Q = ptr'[p] /\ \A w \in Ptrs : w # u => Q[w] \notin Inums
    BY <2>1
  <2>3. Inherit({}, L, P, Q, c)
    BY <1>5, <2>2, BeginInherit
  <2> QED BY <1>3, <1>4, <1>6, <2>2, <2>3
<1>16. Local(p)
  <2>1. \A q \in Procs, w \in Ptrs : ptr[q][w] \in Inums => itable[ptr[q][w]].ref > 0
    BY <1>2, PtrRef
  <2>2. \A q \in Procs, w \in Ptrs :
          q # p /\ ptr[q][w] \in Inums /\ itable[ptr[q][w]].lock = q => itable'[ptr[q][w]].lock = q
    BY <1>11, <2>1
  <2>3. \A w \in Ptrs : LockedAt(Pending(p)', w) /\ ptr'[p][w] \in Inums => itable'[ptr'[p][w]].lock = p
    BY <1>6, <1>7
  <2>4. ASSUME NEW q \in Procs, NEW w \in Ptrs, FirmAt(Pending(q)', w), ptr'[q][w] \in Inums
        PROVE  itable'[ptr'[q][w]].valid
    <3>1. q # p
      BY <1>6, <1>7, <2>4
    <3>2. FirmAt(Pending(q), w) /\ ptr'[q][w] = ptr[q][w]
      BY <1>6, <1>8, <2>4, <3>1 DEF Turn
    <3>3. itable[ptr[q][w]].valid
      BY <2>4, <3>2 DEF FsInv, Keeping, FirmValid
    <3> QED BY <1>11, <2>1, <2>4, <3>2, <3>3
  <2>5. \A j \in Inums : itable'[j].valid => Sound(j)' \/ Dropping(j)
    <3> SUFFICES ASSUME NEW j \in Inums, itable'[j].valid PROVE Sound(j)' \/ Dropping(j)
      OBVIOUS
    <3>1. itable[j].valid /\ itable'[j].node = itable[j].node /\ disk'[j] = disk[j]
      BY <1>1, <1>12
    <3>2. Sound(j) \/ Dropping(j)
      BY <3>1 DEF FsInv, Cached
    <3>3. Sound(j) => Sound(j)'
      BY <3>1 DEF Sound
    <3> QED BY <3>2, <3>3
  <2> QED BY <2>2, <2>3, <2>4, <2>5 DEF Local
<1>17. Points(p)
  BY <1>8 DEF Points
<1> QED BY <1>3, <1>6, <1>13, <1>14, <1>15, <1>16, <1>17, LocalStep

\* Where the table stays, and p has locked nothing.
LEMMA StillLocal ==
  ASSUME FsInv, NEW p \in Procs, Turn(p), \A q \in Procs : q # p => ptr'[q] = ptr[q],
         itable' = itable, disk' = disk,
         \A w \in Ptrs : ~LockedAt(Pending(p)', w) /\ ~FirmAt(Pending(p)', w)
  PROVE  Local(p)
<1>1. ASSUME NEW q \in Procs, NEW w \in Ptrs, FirmAt(Pending(q)', w), ptr'[q][w] \in Inums
      PROVE  itable'[ptr'[q][w]].valid
  <2>1. q # p
    BY <1>1
  <2>2. FirmAt(Pending(q), w) /\ ptr'[q][w] = ptr[q][w]
    BY <1>1, <2>1 DEF Turn
  <2> QED BY <1>1, <2>2 DEF FsInv, Keeping, FirmValid
<1>2. \A j \in Inums : itable'[j].valid => Sound(j)' \/ Dropping(j)
  BY DEF FsInv, Cached, Sound
<1> QED BY <1>1, <1>2 DEF Local

\* sys_close() and sys_write().
LEMMA CloseInherit ==
  ASSUME NEW L, L \in {{}, {<<"put", "ip">>}}, NEW P, NEW Q, NEW c,
         \A w \in Ptrs : w # "ip" => Q[w] \notin Inums, L = {} => Q["ip"] \notin Inums
  PROVE  /\ Inherit({}, L, P, Q, c)
         /\ \A w \in Ptrs : ~LockedAt(L, w) /\ ~FirmAt(L, w)
         /\ <<"cwd", "ip">> \notin L
<1>1. \A w \in Ptrs : ~LockedAt(L, w) /\ ~FirmAt(L, w) /\ ~FreedAt(L, w)
  BY DEF LockedAt, FirmAt, FreedAt
<1>2. Linked(L, c)
  BY DEF Linked
<1>3. \A w \in Ptrs : ~UsedAt(L, w) => Q[w] \notin Inums
  BY DEF UsedAt
<1> QED BY <1>1, <1>2, <1>3 DEF Inherit

LEMMA CloseStep ==
  ASSUME FsInv, NEW p \in Procs, Close(p) PROVE FsInv'
<1> DEFINE ops == IF fd[p] = 0 THEN <<>> ELSE << <<"put", "ip">> >>
           L   == IF fd[p] = 0 THEN {} ELSE {<<"put", "ip">>}
<1>1. /\ NextCall(p, {"close"}) /\ fd' = [fd EXCEPT ![p] = 0]
      /\ ptr' = [ptr EXCEPT ![p]["ip"] = fd[p]] /\ Only(p, ops)
      /\ disk' = disk /\ cwd' = cwd /\ itable' = itable
  BY DEF Close, fsVars
<1>2. FsTypes /\ RefsExact
  BY DEF FsInv
<1>3. /\ \A q \in Procs : q # p => call'[q] = call[q]
      /\ rest' \in [Procs -> Seq(Requests)] /\ call' \in [Procs -> Requests \union {NoCall}]
      /\ work' = work /\ Pending(p) = {}
      /\ \A w \in Ptrs : ptr[p][w] \notin Inums
  BY <1>1, NextCallAt
<1>4. Plan(ops, L)
  BY PlanNone, PlanOf DEF Ptrs
<1>5. Turn(p) /\ Pending(p)' = L
  BY <1>1, <1>4, OnlyTurn
<1>6. L \in {{}, {<<"put", "ip">>}} /\ (L = {} => fd[p] = 0) /\ 0 \notin Inums
  BY FsAssumption
<1> HIDE DEF L, ops
<1>7. /\ DOMAIN ptr' = Procs /\ \A q \in Procs : DOMAIN ptr'[q] = Ptrs
      /\ ptr'[p]["ip"] = fd[p] /\ \A w \in Ptrs : w # "ip" => ptr'[p][w] = ptr[p][w]
      /\ \A q \in Procs : q # p => ptr'[q] = ptr[q]
  BY <1>1, <1>2 DEF FsTypes, Ptrs
<1>8. DOMAIN fd' = Procs /\ fd'[p] = 0 /\ \A q \in Procs : q # p => fd'[q] = fd[q]
  BY <1>1, <1>2 DEF FsTypes
<1>9. /\ Inherit(Pending(p), Pending(p)', ptr[p], ptr'[p], call'[p])
      /\ \A w \in Ptrs : ~LockedAt(Pending(p)', w) /\ ~FirmAt(Pending(p)', w)
      /\ <<"cwd", "ip">> \notin Pending(p)'
  <2>1. (\A w \in Ptrs : w # "ip" => ptr'[p][w] \notin Inums) /\ (L = {} => ptr'[p]["ip"] \notin Inums)
    BY <1>3, <1>6, <1>7
  <2>2. PICK M, P, Q, c : /\ M = L /\ P = ptr[p] /\ Q = ptr'[p] /\ c = call'[p]
                          /\ (\A w \in Ptrs : w # "ip" => Q[w] \notin Inums) /\ (M = {} => Q["ip"] \notin Inums)
                          /\ M \in {{}, {<<"put", "ip">>}}
    BY <1>6, <2>1
  <2>3. /\ Inherit({}, M, P, Q, c)
        /\ \A w \in Ptrs : ~LockedAt(M, w) /\ ~FirmAt(M, w)
        /\ <<"cwd", "ip">> \notin M
    BY <2>2, CloseInherit
  <2> QED BY <1>3, <1>5, <2>2, <2>3
<1>10. RefsExact'
  <2>1. /\ "fd" \in Cells /\ "ip" \in Cells /\ "fd" # "ip" /\ "ip" \in Ptrs
        /\ Held(p, "fd") = fd[p] /\ Held(p, "fd")' = 0
        /\ Held(p, "ip") = ptr[p]["ip"] /\ Held(p, "ip")' = fd[p]
        /\ \A w \in {"dp", "x"} : w \in Ptrs /\ Held(p, w)' = Held(p, w)
    BY <1>7, <1>8 DEF Held, Cells, Ptrs
  <2>2. Held(p, "cwd")' = Held(p, "cwd")
    BY <1>1, <1>3, <1>9 DEF Held
  <2>3. \A q \in Procs, e \in Cells : q # p => Held(q, e)' = Held(q, e)
    BY <1>1, <1>5, <1>7, <1>8 DEF Held, Turn
  <2>4. \A e \in Cells : e \notin {"fd", "ip"} => Held(p, e)' = Held(p, e)
    BY <2>1, <2>2 DEF Cells, Ptrs
  <2>5. \A q \in Procs, e \in Cells : ~(q = p /\ e \in {"fd", "ip"}) =>
          Held(q, e)' = Held(q, e) \/ (Held(q, e) \notin Inums /\ Held(q, e)' \notin Inums)
    BY <2>3, <2>4
  <2>6. Held(p, "ip") \notin Inums /\ Held(p, "ip")' = Held(p, "fd")
    BY <1>3, <2>1
  <2>7. \A j \in Inums :
          /\ itable[j].ref \in Nat
          /\ Held(p, "fd")' = j => itable'[j].ref = itable[j].ref + 1
          /\ Held(p, "fd")' # j => itable'[j].ref = itable[j].ref
    BY <1>1, <1>2, <1>6, <2>1 DEF FsTypes, IsTable, IsEntry
  <2> QED BY <1>2, <2>1, <2>5, <2>6, <2>7, RefsTwo
<1>11. FsTypes'
  BY <1>1, <1>2, <1>3, <1>7, <1>8 DEF FsTypes
<1>12. Local(p)
  BY <1>1, <1>5, <1>7, <1>9, StillLocal
<1>13. Points(p)
  BY <1>7 DEF Points
<1> QED BY <1>3, <1>5, <1>9, <1>10, <1>11, <1>12, <1>13, LocalStep

LEMMA NothingPending ==
  /\ \A w \in Ptrs : ~LockedAt({}, w) /\ ~FirmAt({}, w) /\ ~FreedAt({}, w) /\ ~UsedAt({}, w)
  /\ \A c : Linked({}, c)
BY DEF LockedAt, FirmAt, FreedAt, UsedAt, Linked

\* write(): p takes and gives back the lock of i, and has no step pending.
LEMMA SettleIdle ==
  ASSUME FsInv, NEW p \in Procs, NEW i, Free(i), NEW o \in Procs \union {NoProc}, TableMove(i, o),
         \A w \in Ptrs : /\ ~FreedAt(Pending(p), w) /\ ~FreedAt(Pending(p)', w)
                         /\ ~LockedAt(Pending(p)', w) /\ ~FirmAt(Pending(p)', w),
         \A q \in Procs : q # p => Pending(q)' = Pending(q) /\ ptr'[q] = ptr[q]
  PROVE  Keeping' /\ Cached'
<1>1. PICK u : u \in Ptrs
  BY DEF Ptrs
<1>2. /\ \A j \in Inums : j = i => itable'[j].lock = o /\ itable'[j].valid /\ Sound(j)'
      /\ \A j \in Inums : j # i /\ itable[j].ref > 0 =>
           itable'[j].lock = itable[j].lock /\ (itable[j].valid => itable'[j].valid)
      /\ \A j \in Inums : j # i /\ itable'[j].valid =>
           \/ Sound(j)'
           \/ itable[j].valid /\ itable'[j].node = itable[j].node /\ disk'[j] = disk[j]
           \/ itable[j].valid /\ disk[j].type = "none"
  BY DEF TableMove
<1>3. \A v \in Ptrs : ~FreedAt(Pending(p), v) /\ ~FreedAt(Pending(p)', v)
  OBVIOUS
<1>4. Takes(p, i, o, u)
  BY DEF Takes
<1>5. \A v \in Ptrs : FirmAt(Pending(p)', v) /\ ptr'[p][v] \in Inums =>
        ptr'[p][v] = i \/ (FirmAt(Pending(p), v) /\ ptr'[p][v] = ptr[p][v])
  OBVIOUS
<1> QED BY <1>1, <1>2, <1>3, <1>4, <1>5, Settle

LEMMA WriteStep ==
  ASSUME FsInv, NEW p \in Procs, Write(p) PROVE FsInv'
<1> DEFINE i  == fd[p]
           n  == Len(data[i]) + 1
           as == IF n <= MAXFILE THEN Grown(Node(i).addrs, bitmap, n) ELSE Node(i).addrs
           nd == [Node(i) EXCEPT !.addrs = as]
<1>1. /\ NextCall(p, {"write"}) /\ (i # 0 => Free(i))
      /\ cwd' = cwd /\ fd' = fd /\ ptr' = ptr /\ todo' = todo
  BY DEF Write
<1>2. \/ disk' = disk /\ itable' = itable
      \/ /\ i # 0 /\ Node(i).type = "file"
         /\ itable' = [ilock(NoProc, i) EXCEPT ![i].node = nd] /\ disk' = [disk EXCEPT ![i] = nd]
  BY DEF Write, fsVars
<1> HIDE DEF nd
<1>3. FsTypes /\ RefsExact
  BY DEF FsInv
<1>4. /\ \A q \in Procs : q # p => call'[q] = call[q]
      /\ rest' \in [Procs -> Seq(Requests)] /\ call' \in [Procs -> Requests \union {NoCall}]
      /\ work' = work /\ Pending(p) = {}
      /\ \A w \in Ptrs : ptr[p][w] \notin Inums
  BY <1>1, NextCallAt
<1>5. \A q \in Procs : Pending(q)' = Pending(q) /\ ptr'[q] = ptr[q]
  BY <1>1 DEF Pending
<1>6. Turn(p)
  BY <1>1, <1>5 DEF FsInv, Ordered, Turn
<1>7. \A w \in Ptrs : /\ ~LockedAt(Pending(p)', w) /\ ~FirmAt(Pending(p)', w) /\ ~FreedAt(Pending(p)', w)
                      /\ ~FreedAt(Pending(p), w) /\ ptr'[p][w] \notin Inums
  BY <1>4, <1>5, NothingPending
<1>8. Linked(Pending(p)', call'[p])
  BY <1>4, <1>5, NothingPending
<1>9. Ordered' /\ Clear'
  <2>1. Ordered'
    BY <1>4, <1>6, <1>8, OrderedStep
  <2>2. Clear'
    BY <1>5, <1>7, ClearStep
  <2> QED BY <2>1, <2>2
<1>10. CASE disk' = disk /\ itable' = itable
  <2>1. RefsExact'
    <3>1. \A j \in Inums : itable'[j].ref = itable[j].ref
      BY <1>10
    <3> QED BY <1>1, <1>3, <1>5, <3>1, RefsAlone
  <2>2. FsTypes'
    BY <1>1, <1>3, <1>4, <1>10 DEF FsTypes
  <2>3. Local(p)
    BY <1>5, <1>6, <1>7, <1>10, StillLocal
  <2>4. Points(p)
    BY <1>1, <1>3 DEF FsTypes, Points
  <2>5. Inherit(Pending(p), Pending(p)', ptr[p], ptr'[p], call'[p])
    <3>1. PICK P, Q, c : P = ptr[p] /\ Q = ptr'[p] /\ c = call'[p] /\ \A w \in Ptrs : Q[w] \notin Inums
      BY <1>7
    <3>2. Inherit({}, {}, P, Q, c)
      BY <3>1, NothingPending DEF Inherit
    <3> QED BY <1>4, <1>5, <3>1, <3>2
  <2> QED BY <1>4, <1>6, <2>1, <2>2, <2>3, <2>4, <2>5, LocalStep
<1>11. CASE /\ i # 0 /\ Node(i).type = "file"
            /\ itable' = [ilock(NoProc, i) EXCEPT ![i].node = nd] /\ disk' = [disk EXCEPT ![i] = nd]
  <2>1. Free(i) /\ (i \in Inums => itable[i].ref > 0 /\ Node(i) = disk[i])
    <3>1. Free(i)
      BY <1>1, <1>11
    <3>2. "fd" \in Cells /\ Held(p, "fd") = i
      BY DEF Cells, Held
    <3> QED BY <1>3, <3>1, <3>2, HolderRef, NodeOnDisk
  <2>2. i \in Inums => IsNode(nd) /\ nd.type # "none"
    <3>1. PICK m, a : m = Node(i) /\ a = as
      OBVIOUS
    <3>2. nd = [m EXCEPT !.addrs = a]
      BY <3>1 DEF nd
    <3>3. IsNode(m) => /\ IsNode([m EXCEPT !.addrs = a])
                       /\ [m EXCEPT !.addrs = a] = [type |-> m.type, nlink |-> m.nlink, addrs |-> a]
      BY NodeFields
    <3>4. IsNode(m) => [m EXCEPT !.addrs = a].type = m.type
      BY <3>3
    <3>5. i \in Inums => IsNode(m) /\ m.type # "none"
      BY <1>3, <1>11, <2>1, <3>1 DEF FsTypes, IsDisk
    <3> QED BY <3>2, <3>3, <3>4, <3>5
  <2>3. TableMove(i, NoProc) /\ \A j \in Inums : itable'[j].ref = itable[j].ref
    <3> DEFINE t == ilock(NoProc, i)
               u == [t EXCEPT ![i].node = nd]
    <3>1. IsTable(t) /\ IsDisk(disk)
      BY <1>3, ilockAt DEF FsTypes
    <3>2. itable' = u
      BY <1>11
    <3> HIDE DEF t
    <3>3. Touched(t, t, disk, disk)
      BY <3>1, TouchNone
    <3>4. Wrote(t, u, disk, disk', i, nd)
      BY <1>11, <2>2 DEF Wrote
    <3> HIDE DEF u
    <3>5. Touched(t, u, disk, disk') /\ (i \in Inums => u[i].node = nd /\ disk'[i] = nd)
      BY <3>3, <3>4, TouchAt
    <3>6. i \in Inums => u[i].node = disk'[i] /\ disk'[i].type # "none"
      BY <2>2, <3>5
    <3> QED BY <2>1, <3>2, <3>5, <3>6, TableTouched DEF t
  <2>4. Keeping' /\ Cached'
    <3>1. Free(i) /\ TableMove(i, NoProc)
      BY <2>1, <2>3
    <3>2. /\ \A w \in Ptrs : /\ ~FreedAt(Pending(p), w) /\ ~FreedAt(Pending(p)', w)
                             /\ ~LockedAt(Pending(p)', w) /\ ~FirmAt(Pending(p)', w)
          /\ \A q \in Procs : q # p => Pending(q)' = Pending(q) /\ ptr'[q] = ptr[q]
      BY <1>5, <1>7
    <3> QED BY <3>1, <3>2, SettleIdle
  <2>5. RefsExact'
    BY <1>1, <1>3, <1>5, <2>3, RefsAlone
  <2>6. FsTypes'
    BY <1>1, <1>3, <1>4, <2>3 DEF FsTypes, TableMove
  <2> QED BY <1>9, <2>4, <2>5, <2>6 DEF FsInv
<1> QED BY <1>2, <1>10, <1>11

-----------------------------------------------------------------------------
(* Boots.                                                                  *)

\* Memory as a boot makes it, whatever the disk.
Booted ==
  /\ itable = BootTable /\ cwd = BootCwd /\ fd = [p \in Procs |-> 0]
  /\ call = [p \in Procs |-> NoCall] /\ ptr = [p \in Procs |-> NoPtr]
  /\ \A p \in Procs : todo[p] = <<>>
  /\ todo \in [Procs -> Seq(Items)] /\ IsDisk(disk)
  /\ work \in [Procs -> Seq(Requests)] /\ rest \in [Procs -> Seq(Requests)]

\* After a boot the only references are the working directories, the root's.
LEMMA BootedRefs == Booted => RefsExact
<1> SUFFICES ASSUME Booted PROVE RefsExact
  OBVIOUS
<1>1. /\ itable = BootTable /\ cwd = BootCwd /\ fd = [p \in Procs |-> 0]
      /\ ptr = [p \in Procs |-> NoPtr] /\ \A p \in Procs : todo[p] = <<>>
  BY DEF Booted
<1>2. \A p \in Procs : Pending(p) = {}
  BY <1>1, Kinds0 DEF Pending
<1>3. \A p \in Procs : Held(p, "cwd") = Root /\ \A c \in Cells : c # "cwd" => Held(p, c) = 0
  BY <1>1, <1>2 DEF Held, BootCwd, NoPtr, Cells, Ptrs
<1>4. 0 \notin Inums /\ Root \in Inums /\ 0 # Root /\ "cwd" \in Cells
  BY FsAssumption DEF Root, Cells
<1> SUFFICES ASSUME NEW i \in Inums PROVE Count(Grip, i) = itable[i].ref
  BY DEF RefsExact
<1> DEFINE H == {h \in DOMAIN Grip : Grip[h] = i}
<1>5. ASSUME i # Root PROVE Count(Grip, i) = itable[i].ref
  <2>1. H = {}
    <3> SUFFICES ASSUME NEW h \in H PROVE FALSE
      OBVIOUS
    <3>1. h \in Procs \X Cells /\ Grip[h] = Held(h[1], h[2]) /\ h[1] \in Procs /\ h[2] \in Cells /\ Grip[h] = i
      BY DEF Grip
    <3> QED BY <1>3, <1>4, <1>5, <3>1
  <2>2. itable[i].ref = 0
    BY <1>1, <1>5, FreshEntry DEF BootTable
  <2> QED BY <2>1, <2>2, FS_EmptySet DEF Count
<1>6. ASSUME i = Root PROVE Count(Grip, i) = itable[i].ref
  <2>1. itable[i].ref = Cardinality(Procs)
    <3>1. Cardinality(Procs) \in Nat
      BY FsAssumption, FS_CardinalityType
    <3>2. itable[i] = Taken(Cardinality(Procs))
      BY <1>1, <1>6 DEF BootTable
    <3> QED BY <3>1, <3>2, FreshEntry
  <2>2. H = {<<p, "cwd">> : p \in Procs}
    <3>1. ASSUME NEW h \in H PROVE h \in {<<p, "cwd">> : p \in Procs}
      <4>1. h \in Procs \X Cells /\ Grip[h] = Held(h[1], h[2]) /\ h[1] \in Procs /\ h[2] \in Cells
            /\ Grip[h] = i /\ h = <<h[1], h[2]>>
        BY DEF Grip
      <4>2. h[2] = "cwd"
        BY <1>3, <1>4, <1>6, <4>1
      <4> QED BY <4>1, <4>2
    <3>2. ASSUME NEW p \in Procs PROVE <<p, "cwd">> \in H
      BY <1>3, <1>4, <1>6, GripAt
    <3> QED BY <3>1, <3>2
  <2>3. Cardinality(H) = Cardinality(Procs)
    <3> DEFINE f == [p \in Procs |-> <<p, "cwd">>]
    <3>1. f \in Bijection(Procs, H)
      BY <2>2 DEF Bijection, Injection, Surjection, IsInjective
    <3>2. ExistsBijection(Procs, H)
      BY <3>1 DEF ExistsBijection
    <3> QED BY <3>2, FsAssumption, FS_Bijection
  <2> QED BY <2>1, <2>3 DEF Count
<1> QED BY <1>5, <1>6

LEMMA BootedInv == Booted => FsInv
<1> SUFFICES ASSUME Booted PROVE FsInv
  OBVIOUS
<1>1. /\ itable = BootTable /\ cwd = BootCwd /\ fd = [p \in Procs |-> 0]
      /\ call = [p \in Procs |-> NoCall] /\ ptr = [p \in Procs |-> NoPtr]
      /\ \A p \in Procs : todo[p] = <<>>
      /\ todo \in [Procs -> Seq(Items)] /\ IsDisk(disk)
      /\ work \in [Procs -> Seq(Requests)] /\ rest \in [Procs -> Seq(Requests)]
  BY DEF Booted
<1>2. \A p \in Procs : Pending(p) = {} /\ Tidy(todo[p])
  BY <1>1, Kinds0 DEF Pending
<1>3. \A p \in Procs, v \in Ptrs : ptr[p][v] = 0 /\ 0 \notin Inums
  BY <1>1, FsAssumption DEF NoPtr, Ptrs
<1>4. DOMAIN itable = Inums /\ \A j \in Inums : IsEntry(itable[j]) /\ itable[j].valid = FALSE
  <2>1. Cardinality(Procs) \in Nat
    BY FsAssumption, FS_CardinalityType
  <2> QED BY <1>1, <2>1, FreshEntry DEF BootTable
<1>5. FsTypes
  <2>1. \A p \in Procs : DOMAIN ptr[p] = Ptrs
    BY <1>1 DEF NoPtr, Ptrs
  <2>2. call \in [Procs -> Requests \union {NoCall}]
    BY <1>1
  <2> QED BY <1>1, <1>4, <2>1, <2>2 DEF FsTypes, IsTable, BootCwd
<1>6. Ordered
  BY <1>1, <1>2, NothingPending DEF Ordered
<1>7. Clear
  BY <1>3 DEF Clear
<1>8. Keeping
  BY <1>3 DEF Keeping, LocksHeld, LocksApart, FirmValid, FirmKept
<1>9. Cached
  BY <1>4 DEF Cached
<1> QED BY <1>5, <1>6, <1>7, <1>8, <1>9, BootedRefs DEF FsInv

LEMMA BootedNext == Booted' => FsInv'
BY BootedInv, PTL

\* At first, at a power failure and at every step.
LEMMA FsInvInit == Init => FsInv
<1> SUFFICES ASSUME Init PROVE Booted
  BY BootedInv
<1>1. /\ disk = [i \in Inums |-> IF i = Root THEN RootNode ELSE FreeNode]
      /\ itable = BootTable /\ cwd = BootCwd /\ fd = [p \in Procs |-> 0]
      /\ call = [p \in Procs |-> NoCall] /\ ptr = [p \in Procs |-> NoPtr]
      /\ todo = [p \in Procs |-> <<>>] /\ work \in Workloads /\ rest = work
  BY DEF Init
<1>2. work \in [Procs -> Seq(Requests)]
  BY <1>1, WorkloadsAssumption
<1>3. IsDisk(disk)
  <2>1. IsNode(RootNode) /\ IsNode(FreeNode)
    BY FreshEntry DEF RootNode, IsNode
  <2> QED BY <1>1, <2>1 DEF IsDisk
<1>4. todo \in [Procs -> Seq(Items)] /\ \A p \in Procs : todo[p] = <<>>
  BY <1>1, Kinds0
<1> QED BY <1>1, <1>2, <1>3, <1>4 DEF Booted

LEMMA CrashStep == ASSUME FsInv, Crash PROVE FsInv'
<1>1. /\ itable' = BootTable /\ cwd' = BootCwd /\ fd' = [p \in Procs |-> 0]
      /\ call' = [p \in Procs |-> NoCall] /\ ptr' = [p \in Procs |-> NoPtr]
      /\ (\A p \in Procs : todo[p] = <<>>) /\ todo' = todo /\ disk' = disk /\ work' = work /\ rest' = work
  BY DEF Crash, fsVars
<1>2. todo \in [Procs -> Seq(Items)] /\ IsDisk(disk) /\ work \in [Procs -> Seq(Requests)]
  BY DEF FsInv, FsTypes, Ordered
<1>3. Booted'
  BY <1>1, <1>2 DEF Booted
<1> QED BY <1>3, BootedNext

LEMMA FsInvNext == FsInv /\ [Next]_vars => FsInv'
<1> SUFFICES ASSUME FsInv, [Next]_vars PROVE FsInv'
  OBVIOUS
<1>1. CASE UNCHANGED vars
  BY <1>1, FsInvSame DEF vars, fsVars, progVars
<1>2. CASE Crash
  BY <1>2, CrashStep
<1>3. ASSUME NEW p \in Procs, Call(p) \/ Close(p) \/ Write(p) PROVE FsInv'
  BY <1>3, CallStep, CloseStep, WriteStep
<1>4. ASSUME NEW p \in Procs, Step(p) PROVE FsInv'
  <2>1. CASE Unlock(p) \/ Put(p) \/ PutUnused(p) \/ PutFreed(p) \/ FreeInode(p) \/ Drop(p)
    BY <2>1, UnlockStep, PutStep, PutUnusedStep, PutFreedStep, FreeInodeStep, DropStep
  <2>2. CASE Walk(p) \/ Parent(p) \/ NoType(p) \/ ChdirIp(p) \/ SetCwd(p)
    BY <2>2, WalkStep, ParentStep, NoTypeStep, ChdirIpStep, SetCwdStep
  <2>3. CASE UnlinkDp(p) \/ UnlinkIp(p) \/ Nlink(p) \/ LinkIp(p) \/ LinkDp(p) \/ LinkBad(p)
    BY <2>3, UnlinkDpStep, UnlinkIpStep, NlinkStep, LinkIpStep, LinkDpStep, LinkBadStep
  <2>4. CASE CreateDp(p) \/ Exists(p) \/ CreateIp(p) \/ OpenIp(p) \/ Opened(p)
    BY <2>4, CreateDpStep, ExistsStep, CreateIpStep, OpenIpStep, OpenedStep
  <2> QED BY <1>4, <2>1, <2>2, <2>3, <2>4 DEF Step
<1> QED BY <1>1, <1>2, <1>3, <1>4 DEF Next

\* fs.c:138, an inode in memory is correct while ip->valid is 1, as iget(), ilock(),
\* iput() and the writers of sysfile.c keep it: in every behaviour, of any number of
\* processes with any programs and power failures, a valid copy that nobody has locked
\* is the inode on the disk, although iput() frees an inode between two locks and
\* ialloc() may give it out again meanwhile.
THEOREM FsCoherent == Spec => []Coherent
<1>1. Spec => []FsInv
  BY FsInvInit, FsInvNext, PTL DEF Spec
<1>2. FsInv => Coherent
  BY InvCoherent
<1> QED BY <1>1, <1>2, PTL

\* fs.c, the count of references that iget(), idup() and iput() keep: when every call has
\* returned, ip->ref is the number of the processes whose working directory the inode is
\* plus the number of the files open on it, so no path of any call lost a reference or
\* kept one.  It is the first part of NoLeak, without its conditions.
RefsCounted ==
  (\A p \in Procs : todo[p] = <<>>) =>
    \A i \in Inums : itable[i].ref = Cardinality({p \in Procs : cwd[p] = i})
                                     + Cardinality({p \in Procs : fd[p] = i})

\* The cells of one kind are as many as their processes.
LEMMA CellCount ==
  ASSUME NEW c, NEW P \in SUBSET Procs
  PROVE  IsFiniteSet(P \X {c}) /\ Cardinality(P \X {c}) = Cardinality(P)
<1> DEFINE f == [p \in P |-> <<p, c>>]
<1>1. f \in Bijection(P, P \X {c})
  BY DEF Bijection, Injection, Surjection, IsInjective
<1>2. ExistsBijection(P, P \X {c}) /\ IsFiniteSet(P)
  BY <1>1, FsAssumption, FS_Subset DEF ExistsBijection
<1> QED BY <1>2, FS_Bijection

\* When nothing is pending, no pointer is used, and the cells left are cwd and fd.
LEMMA InvCounted == FsInv => RefsCounted
<1> SUFFICES ASSUME FsInv, \A p \in Procs : todo[p] = <<>>, NEW i \in Inums
             PROVE  itable[i].ref = Cardinality({p \in Procs : cwd[p] = i})
                                    + Cardinality({p \in Procs : fd[p] = i})
  BY DEF RefsCounted
<1> DEFINE H == {h \in DOMAIN Grip : Grip[h] = i}
           C == {p \in Procs : cwd[p] = i}
           F == {p \in Procs : fd[p] = i}
<1>1. \A p \in Procs : Pending(p) = {}
  BY Kinds0 DEF Pending
<1>2. \A p \in Procs : \A v \in Ptrs : Held(p, v) \notin Inums
  BY <1>1, NothingPending, PtrHeld DEF FsInv, Clear
<1>3. \A p \in Procs : Held(p, "cwd") = cwd[p] /\ Held(p, "fd") = fd[p]
  BY <1>1 DEF Held
<1>4. H = (C \X {"cwd"}) \union (F \X {"fd"})
  <2>1. ASSUME NEW h \in H PROVE h \in (C \X {"cwd"}) \union (F \X {"fd"})
    <3>1. h \in Procs \X Cells /\ h[1] \in Procs /\ h[2] \in Cells /\ h = <<h[1], h[2]>> /\ Held(h[1], h[2]) = i
      BY DEF Grip
    <3>2. h[2] \in {"cwd", "fd"}
      BY <1>2, <3>1 DEF Cells
    <3> QED BY <1>3, <3>1, <3>2
  <2>2. ASSUME NEW h \in (C \X {"cwd"}) \union (F \X {"fd"}) PROVE h \in H
    <3>1. h[1] \in Procs /\ h[2] \in Cells /\ h = <<h[1], h[2]>> /\ Held(h[1], h[2]) = i
      BY <1>3 DEF Cells
    <3> QED BY <3>1, GripAt
  <2> QED BY <2>1, <2>2
<1>5. /\ IsFiniteSet(C \X {"cwd"}) /\ Cardinality(C \X {"cwd"}) = Cardinality(C)
      /\ IsFiniteSet(F \X {"fd"}) /\ Cardinality(F \X {"fd"}) = Cardinality(F)
  BY CellCount
<1>6. Cardinality((C \X {"cwd"}) \intersect (F \X {"fd"})) = 0
  <2>1. (C \X {"cwd"}) \intersect (F \X {"fd"}) = {}
    OBVIOUS
  <2> QED BY <2>1, FS_EmptySet
<1>7. /\ Cardinality(H) = Cardinality(C \X {"cwd"}) + Cardinality(F \X {"fd"})
                          - Cardinality((C \X {"cwd"}) \intersect (F \X {"fd"}))
      /\ Cardinality(C \X {"cwd"}) \in Nat /\ Cardinality(F \X {"fd"}) \in Nat
  BY <1>4, <1>5, FS_Union, FS_CardinalityType
<1>8. Cardinality(H) = Cardinality(C) + Cardinality(F)
  BY <1>5, <1>6, <1>7
<1>9. itable[i].ref = Cardinality(H)
  BY DEF FsInv, RefsExact, Count
<1> QED BY <1>8, <1>9

\* iget(), idup() and iput() in all the calls of sysfile.c, with their error paths: no
\* call loses a reference to an inode or keeps one, in any interleaving, whether or not
\* a process uses a directory after its removal, or the kernel panics.
THEOREM FsReferences == Spec => []RefsCounted
<1>1. Spec => []FsInv
  BY FsInvInit, FsInvNext, PTL DEF Spec
<1> QED BY <1>1, InvCounted, PTL

-----------------------------------------------------------------------------
(* Blocks.  What each inode has is its own, and nothing that is used is    *)
(* free.                                                                   *)

\* A sequence of blocks, each of them once; contents of a directory.
OwnBlocks(a) == a \in Seq(Blocks) /\ \A k, l \in DOMAIN a : a[k] = a[l] => k = l
Contents(s)  == s \in Seq(Range(s)) /\ \A k \in DOMAIN s : s[k].inum \in Inums \union {0}

\* Blocks b come from blocks a by taking some that were not used.
Adds(a, b, used) ==
  OwnBlocks(b) /\ Range(a) \subseteq Range(b) /\ \A x \in Range(b) : x \in Range(a) \/ x \notin used

LEMMA FirstIn == ASSUME NEW S, S \subseteq Nat, S # {} PROVE First_of(S) \in S /\ \A k \in S : First_of(S) <= k
BY MinOf DEF First_of

LEMMA EmptyOwn == OwnBlocks(<<>>) /\ Range(<<>>) = {} /\ Contents(<<>>)
<1>1. <<>> \in Seq(Blocks) /\ DOMAIN <<>> = {} /\ Range(<<>>) = {} /\ <<>> \in Seq({})
  BY DEF Range
<1> QED BY <1>1 DEF OwnBlocks, Contents

LEMMA AddsNone == ASSUME NEW a, OwnBlocks(a), NEW used PROVE Adds(a, a, used)
BY DEF Adds

LEMMA AddsMore ==
  ASSUME NEW a, NEW b, NEW c, NEW used, Adds(a, b, used), Adds(b, c, used)
  PROVE  Adds(a, c, used)
BY DEF Adds

LEMMA ballocAdds ==
  ASSUME NEW a, OwnBlocks(a), NEW used
  PROVE  Adds(a, balloc(a, used), used)
<1> DEFINE free == Blocks \ (used \union Range(a))
<1>1. CASE free = {}
  BY <1>1, AddsNone DEF balloc
<1>2. CASE free # {}
  <2> DEFINE m == First_of(free)
             b == Append(a, m)
  <2>1. m \in free
    BY <1>2, FirstIn, FsAssumption
  <2>2. a \in Seq(Blocks) /\ DOMAIN a = 1..Len(a) /\ Len(a) \in Nat
    BY DEF OwnBlocks
  <2> HIDE DEF m
  <2>3. /\ b \in Seq(Blocks) /\ DOMAIN b = 1..(Len(a) + 1) /\ b[Len(a) + 1] = m
        /\ \A k \in 1..Len(a) : b[k] = a[k]
    BY <2>1, <2>2
  <2>4. \A k \in 1..Len(a) : a[k] # m
    BY <2>1, <2>2 DEF Range
  <2>5. OwnBlocks(b)
    BY <2>2, <2>3, <2>4 DEF OwnBlocks
  <2>6. Range(b) = Range(a) \union {m}
    BY <2>2, <2>3 DEF Range
  <2>7. balloc(a, used) = b
    BY <1>2 DEF balloc, m
  <2> QED BY <2>1, <2>5, <2>6, <2>7 DEF Adds
<1> QED BY <1>1, <1>2

LEMMA GrownAdds ==
  ASSUME NEW a, OwnBlocks(a), NEW used, NEW n
  PROVE  Adds(a, Grown(a, used, n), used)
<1> DEFINE one == IF Len(a) < Needed(n) THEN balloc(a, used) ELSE a
<1>1. Adds(a, one, used)
  BY ballocAdds, AddsNone
<1>2. OwnBlocks(one)
  BY <1>1 DEF Adds
<1> HIDE DEF one
<1>3. Adds(one, IF Len(one) < Needed(n) THEN balloc(one, used) ELSE one, used)
  BY <1>2, ballocAdds, AddsNone
<1>4. Adds(a, IF Len(one) < Needed(n) THEN balloc(one, used) ELSE one, used)
  BY <1>1, <1>3, AddsMore
<1> QED BY <1>4 DEF Grown, one

\* dirlookup() finds an entry, of that name.
LEMMA LookupFinds ==
  ASSUME NEW s, NEW name, dirlookup(s, name) # 0
  PROVE  \E k \in DOMAIN s : s[k].inum = dirlookup(s, name) /\ s[k].name = name
<1> DEFINE Hit(k) == s[k].inum # 0 /\ s[k].name = name
<1>1. \E k \in DOMAIN s : Hit(k)
  BY DEF dirlookup
<1>2. Hit(CHOOSE k \in DOMAIN s : Hit(k)) /\ (CHOOSE k \in DOMAIN s : Hit(k)) \in DOMAIN s
  BY <1>1
<1> QED BY <1>1, <1>2 DEF dirlookup

LEMMA LookupIn ==
  ASSUME NEW s, Contents(s), NEW name PROVE dirlookup(s, name) \in Inums \union {0}
BY LookupFinds DEF Contents

LEMMA WhereIn ==
  ASSUME NEW s, s \in Seq(Range(s))
  PROVE  Where(s) \in 1..(Len(s) + 1) /\ (Where(s) <= Len(s) => s[Where(s)].inum = 0)
<1> DEFINE free == {k \in DOMAIN s : s[k].inum = 0}
<1>1. DOMAIN s = 1..Len(s) /\ Len(s) \in Nat
  OBVIOUS
<1>2. free # {} => First_of(free) \in free
  BY <1>1, FirstIn
<1> HIDE DEF free
<1>3. Where(s) = IF free = {} THEN Len(s) + 1 ELSE First_of(free)
  BY DEF Where, free
<1>4. \A k \in free : k \in 1..Len(s) /\ s[k].inum = 0
  BY <1>1 DEF free
<1> QED BY <1>1, <1>2, <1>3, <1>4

\* A function on 1..n is a sequence of its values.
LEMMA FunSeq ==
  ASSUME NEW s, NEW n \in Nat, DOMAIN s = 1..n, s = [j \in 1..n |-> s[j]]
  PROVE  s \in Seq(Range(s)) /\ Len(s) = n
<1>1. PICK R : R = Range(s)
  OBVIOUS
<1>2. \A j \in 1..n : s[j] \in R
  BY <1>1 DEF Range
<1>3. s \in [1..n -> R]
  BY <1>2
<1>4. s \in Seq(R)
  BY <1>3, SeqDef
<1>5. Len(s) \in Nat /\ DOMAIN s = 1..Len(s)
  BY <1>4
<1>6. Len(s) = n
  BY <1>5
<1> QED BY <1>1, <1>4, <1>6

\* s with an entry at k, which may be the next place.
Entered(s, k, name, i) ==
  [j \in 1..(IF k > Len(s) THEN k ELSE Len(s)) |-> IF j = k THEN [name |-> name, inum |-> i] ELSE s[j]]

LEMMA EnteredContents ==
  ASSUME NEW s, Contents(s), NEW k \in 1..(Len(s) + 1), NEW name, NEW i \in Inums
  PROVE  LET t == Entered(s, k, name, i) IN
           /\ Contents(t) /\ Len(t) = IF k > Len(s) THEN k ELSE Len(s)
           /\ DOMAIN t = 1..Len(t)
           /\ t[k] = [name |-> name, inum |-> i] /\ \A j \in DOMAIN t : j # k => j \in DOMAIN s /\ t[j] = s[j]
<1>a. PICK n : n = IF k > Len(s) THEN k ELSE Len(s)
  OBVIOUS
<1>b. PICK t : t = Entered(s, k, name, i)
  OBVIOUS
<1>1. DOMAIN s = 1..Len(s) /\ Len(s) \in Nat /\ n \in Nat /\ k \in 1..n
  BY <1>a DEF Contents
<1>2. DOMAIN t = 1..n /\ \A j \in 1..n : t[j] = IF j = k THEN [name |-> name, inum |-> i] ELSE s[j]
  BY <1>a, <1>b DEF Entered
<1>3. t \in Seq(Range(t)) /\ Len(t) = n
  <2>1. t = [j \in 1..n |-> t[j]]
    BY <1>a, <1>b DEF Entered
  <2> QED BY <1>1, <1>2, <2>1, FunSeq
<1>c. \A j \in 1..n : j # k => j \in 1..Len(s)
  <2>1. CASE k > Len(s)
    <3>1. k = Len(s) + 1 /\ n = k
      BY <1>a, <1>1, <2>1
    <3> QED BY <1>1, <3>1
  <2>2. CASE ~(k > Len(s))
    BY <1>a, <2>2
  <2> QED BY <2>1, <2>2
<1>4. \A j \in 1..n : j # k => j \in DOMAIN s /\ t[j] = s[j]
  BY <1>c, <1>1, <1>2
<1>5. \A j \in DOMAIN t : t[j].inum \in Inums \union {0}
  <2> SUFFICES ASSUME NEW j \in 1..n PROVE t[j].inum \in Inums \union {0}
    BY <1>2
  <2>1. CASE j = k
    BY <1>2, <2>1
  <2>2. CASE j # k
    BY <1>4, <2>2 DEF Contents
  <2> QED BY <2>1, <2>2
<1>6. t[k] = [name |-> name, inum |-> i]
  BY <1>1, <1>2
<1> QED BY <1>a, <1>b, <1>2, <1>3, <1>4, <1>5, <1>6 DEF Contents

-----------------------------------------------------------------------------
(* What a step of p leaves to the other processes.                         *)

\* All that a process has, but for p's.
OthersRest(p) ==
  \A q \in Procs : q # p =>
    todo'[q] = todo[q] /\ ptr'[q] = ptr[q] /\ cwd'[q] = cwd[q] /\ fd'[q] = fd[q] /\ call'[q] = call[q]

LEMMA RestStep ==
  ASSUME FsTypes, todo \in [Procs -> Seq(Items)], NEW p \in Procs, Step(p) \/ Call(p) \/ Close(p) \/ Write(p)
  PROVE  OthersRest(p)
<1>a. DOMAIN todo = Procs /\ DOMAIN ptr = Procs /\ DOMAIN cwd = Procs /\ DOMAIN fd = Procs /\ DOMAIN call = Procs
  BY DEF FsTypes
<1>b. UNCHANGED <<todo, ptr, cwd, fd, call>> => OthersRest(p)
  BY DEF OthersRest
<1>c. ASSUME NEW why, Fails(why) PROVE OthersRest(p)
  BY <1>b, <1>c DEF Fails, progVars
<1>d. ASSUME NEW ops, Then(p, ops) \/ Only(p, ops) PROVE \A q \in Procs : q # p => todo'[q] = todo[q]
  BY <1>a, <1>d DEF Then, Only
<1>1. CASE Unlock(p) \/ Drop(p) \/ PutUnused(p) \/ Parent(p) \/ Nlink(p) \/ Exists(p) \/ OpenIp(p) \/ LinkBad(p)
  <2>1. \E ops : Then(p, ops) \/ Only(p, ops)
    BY <1>1, Zenon DEF Unlock, Drop, PutUnused, Parent, Nlink, Exists, OpenIp, LinkBad, Nowhere
  <2>2. UNCHANGED <<ptr, cwd, fd, call>>
    BY <1>1 DEF Unlock, Drop, PutUnused, Parent, Nlink, Exists, OpenIp, LinkBad, others, progVars
  <2> QED BY <2>1, <2>2, <1>d DEF OthersRest
<1>2. CASE Put(p) \/ PutFreed(p)
  <2>1. Then(p, <<>>) /\ ptr' = [ptr EXCEPT ![p][V(p)] = 0] /\ UNCHANGED <<cwd, fd, call>>
    BY <1>2 DEF Put, PutFreed, Deref, others, progVars
  <2> QED BY <2>1, <1>a, <1>d DEF OthersRest
<1>3. CASE FreeInode(p)
  <2>1. Fails("freeing free block") \/ (Then(p, << <<"drop", V(p)>> >>) /\ UNCHANGED <<ptr, cwd, fd, call>>)
    BY <1>3 DEF FreeInode, others, progVars
  <2> QED BY <2>1, <1>c, <1>d DEF OthersRest
<1>4. CASE Walk(p)
  <2>1. \E ops : Then(p, ops) \/ Only(p, ops)
    BY <1>4, Zenon DEF Walk, Nowhere
  <2>2. UNCHANGED <<cwd, fd, call>> /\ (ptr' = ptr \/ \E a, b : ptr' = [ptr EXCEPT ![p].x = a, ![p][V(p)] = b])
    BY <1>4 DEF Walk, others, progVars
  <2> QED BY <2>1, <2>2, <1>a, <1>d DEF OthersRest
<1>5. CASE NoType(p)
  BY <1>5, <1>c DEF NoType
<1>6. CASE UnlinkDp(p) \/ CreateDp(p)
  <2>1. \E ops : Then(p, ops) \/ Only(p, ops)
    BY <1>6, Zenon DEF UnlinkDp, CreateDp
  <2>2. UNCHANGED <<cwd, fd, call>> /\ (ptr' = ptr \/ \E a : ptr' = [ptr EXCEPT ![p].ip = a])
    BY <1>6 DEF UnlinkDp, CreateDp, others, progVars
  <2> QED BY <2>1, <2>2, <1>a, <1>d DEF OthersRest
<1>7. CASE UnlinkIp(p)
  <2>1. Fails("unlink: nlink < 1")
        \/ (UNCHANGED <<ptr, cwd, fd, call>> /\ \E ops : Then(p, ops))
    BY <1>7, Zenon DEF UnlinkIp, others, progVars
  <2> QED BY <2>1, <1>c, <1>d DEF OthersRest
<1>8. CASE CreateIp(p)
  <2>1. UNCHANGED <<ptr, cwd, fd, call>> /\ \E ops : Then(p, ops)
    BY <1>8, Zenon DEF CreateIp, others, progVars
  <2> QED BY <2>1, <1>d DEF OthersRest
<1>9. CASE Opened(p)
  <2>1. UNCHANGED <<cwd, call>> /\ \E ops : Then(p, ops)
    BY <1>9, Zenon DEF Opened, progVars
  <2>2. (fd' = fd \/ fd' = [fd EXCEPT ![p] = I(p)]) /\ (ptr' = ptr \/ ptr' = [ptr EXCEPT ![p].ip = 0])
    BY <1>9 DEF Opened
  <2> QED BY <2>1, <2>2, <1>a, <1>d DEF OthersRest
<1>10. CASE LinkIp(p)
  <2>1. UNCHANGED <<cwd, fd, call>> /\ \E ops : Only(p, ops)
    BY <1>10, Zenon DEF LinkIp, others, progVars
  <2>2. ptr' = ptr \/ \E a : ptr' = [ptr EXCEPT ![p].dp = a]
    BY <1>10 DEF LinkIp
  <2> QED BY <2>1, <2>2, <1>a, <1>d DEF OthersRest
<1>11. CASE LinkDp(p) \/ ChdirIp(p)
  <2>1. UNCHANGED <<cwd, fd, call>> /\ \E ops : Then(p, ops)
    BY <1>11, Zenon DEF LinkDp, ChdirIp, others, progVars
  <2>2. ptr' = ptr \/ \E a : ptr' = [ptr EXCEPT ![p].x = a]
    BY <1>11 DEF LinkDp, ChdirIp
  <2> QED BY <2>1, <2>2, <1>a, <1>d DEF OthersRest
<1>12. CASE SetCwd(p)
  <2>1. Then(p, <<>>) /\ UNCHANGED <<fd, call>> /\ ptr' = [ptr EXCEPT ![p] = NoPtr] /\ cwd' = [cwd EXCEPT ![p] = I(p)]
    BY <1>12 DEF SetCwd, progVars
  <2> QED BY <2>1, <1>a, <1>d DEF OthersRest
<1>13. CASE Call(p)
  <2>1. /\ \E ops : Only(p, ops)
        /\ UNCHANGED <<cwd, fd>> /\ call' = [call EXCEPT ![p] = Head(rest[p])]
        /\ \E v, a : ptr' = [ptr EXCEPT ![p][v] = a]
    BY <1>13, Zenon DEF Call, NextCall
  <2> QED BY <2>1, <1>a, <1>d DEF OthersRest
<1>14. CASE Close(p)
  <2>1. /\ \E ops : Only(p, ops)
        /\ cwd' = cwd /\ fd' = [fd EXCEPT ![p] = 0] /\ call' = [call EXCEPT ![p] = Head(rest[p])]
        /\ ptr' = [ptr EXCEPT ![p].ip = fd[p]]
    BY <1>14, Zenon DEF Close, NextCall
  <2> QED BY <2>1, <1>a, <1>d DEF OthersRest
<1>15. CASE Write(p)
  <2>1. UNCHANGED <<cwd, fd, ptr, todo>> /\ call' = [call EXCEPT ![p] = Head(rest[p])]
    BY <1>15 DEF Write, NextCall
  <2> QED BY <2>1, <1>a DEF OthersRest
<1> QED BY <1>1, <1>2, <1>3, <1>4, <1>5, <1>6, <1>7, <1>8, <1>9, <1>10, <1>11, <1>12, <1>13, <1>14, <1>15 DEF Step

\* In table u entries that have a reference in t are valid where they were.
Grows(t, u) == IsTable(u) /\ \A j \in Inums : t[j].ref > 0 => u[j].ref > 0 /\ (t[j].valid => u[j].valid)

LEMMA GrowsLocked ==
  ASSUME FsInv, NEW i, NEW o \in Procs \union {NoProc}
  PROVE  Grows(itable, ilock(o, i))
<1>1. IsTable(itable) /\ IsDisk(disk)
  BY DEF FsInv, FsTypes
<1> QED BY <1>1, ilockAt DEF Grows

LEMMA GrowsGot ==
  ASSUME NEW t, NEW u, Grows(t, u), NEW n
  PROVE  Grows(t, iget(u, n))
<1>1. IsTable(u)
  BY DEF Grows
<1>2. Got(u, iget(u, n), n)
  BY <1>1, igetAt
<1> QED BY <1>2 DEF Grows, Got

LEMMA GrowsNode ==
  ASSUME NEW t, NEW u, Grows(t, u), NEW d, NEW n, d \in Inums => IsNode(n)
  PROVE  Grows(t, [u EXCEPT ![d].node = n])
<1>1. IsTable(u)
  BY DEF Grows
<1> DEFINE w == [u EXCEPT ![d].node = n]
<1>2. /\ IsTable(w) /\ \A j \in Inums : j # d => w[j] = u[j]
      /\ d \in Inums => w[d].ref = u[d].ref /\ w[d].valid = u[d].valid
  BY <1>1, NodeAt
<1> HIDE DEF w
<1>3. Grows(t, w)
  BY <1>2 DEF Grows
<1> QED BY <1>3 DEF w

LEMMA GrowsOwner ==
  ASSUME NEW t, NEW u, Grows(t, u), NEW d, NEW o \in Procs \union {NoProc}
  PROVE  Grows(t, [u EXCEPT ![d].lock = o])
<1>1. IsTable(u)
  BY DEF Grows
<1> DEFINE w == [u EXCEPT ![d].lock = o]
<1>2. Relocked(u, w, d, o)
  BY <1>1, LockAt
<1> HIDE DEF w
<1>3. Grows(t, w)
  BY <1>2 DEF Grows, Relocked
<1> QED BY <1>3 DEF w

LEMMA GrowsSame == FsInv => Grows(itable, itable)
BY DEF FsInv, FsTypes, Grows

-----------------------------------------------------------------------------
(* What the pointers of a plan lead to, and what an inode consists of.     *)

Made(c) == IF c.op = "mkdir" THEN "dir" ELSE "file"

\* The pointers that K needs to lead to an inode; dp of a step on an entry of it.
Needs(K, v) == UsedAt(K, v) \/ <<"unlock", v>> \in K \/ (v = "ip" /\ <<"nlink", "ip">> \in K)
DirAhead(K) ==
  \/ <<"unlink_ip", "ip">> \in K \/ <<"create_ip", "ip">> \in K
  \/ <<"parent", "dp">> \notin K
     /\ (<<"unlink_dp", "dp">> \in K \/ <<"create_dp", "dp">> \in K \/ <<"link_dp", "dp">> \in K)

\* What p's plan K relies on, whoever else is at work.
AimedAt(K, P, c) ==
  /\ \A v \in Ptrs : Needs(K, v) => P[v] \in Inums
  /\ DirAhead(K) => disk[P["dp"]].type = "dir"
  /\ <<"create_ip", "ip">> \in K => disk[P["ip"]].type = Made(c)
  /\ \A v \in Ptrs : <<"free", v>> \in K => itable[P[v]].valid /\ disk[P[v]].type # "none"
Aimed(p) == AimedAt(Pending(p), ptr[p], call[p]) /\ cwd[p] \in Inums /\ fd[p] \in Inums \union {0}

\* Nobody frees the inode that another process is making.
MadeKept == \A p, q \in Procs : \A v \in Ptrs :
              <<"free", v>> \in Pending(p) /\ <<"create_ip", "ip">> \in Pending(q) => ptr[q]["ip"] # ptr[p][v]

Forms == /\ DOMAIN data = Inums
         /\ \A i \in Inums : /\ OwnBlocks(disk[i].addrs) /\ disk[i].type \in {"none", "dir", "file"}
                             /\ disk[i].type = "none" => data[i] = <<>>
                             /\ disk[i].type = "dir" => Contents(data[i])

\* fs.c:75 and fs.c:96, no block is given to two inodes, or twice to one, or is free while
\* one has it.
BlocksOwned ==
  /\ \A i \in Inums : OwnBlocks(disk[i].addrs) /\ Range(disk[i].addrs) \subseteq bitmap
  /\ \A i, j \in Inums : i # j => Range(disk[i].addrs) \intersect Range(disk[j].addrs) = {}
  /\ panic # "freeing free block"

Layout == (\A p \in Procs : Aimed(p)) /\ MadeKept /\ Forms /\ BlocksOwned

\* The type of an inode changes when it is made and when p frees it; a copy that another
\* process holds gets invalid when p, which freed its inode, drops it.
TypesKept(p) ==
  \A j \in Inums : \/ disk'[j].type = disk[j].type \/ disk[j].type = "none"
                   \/ \E v \in Ptrs : <<"free", v>> \in Pending(p) /\ ptr[p][v] = j
ValidKept(p) ==
  \A j \in Inums : \A q \in Procs : \A c \in Cells :
    q # p /\ Held(q, c) = j /\ itable[j].valid =>
      itable'[j].valid \/ \E v \in Ptrs : <<"drop", v>> \in Pending(p) /\ ptr[p][v] = j

LEMMA OthersAimed ==
  ASSUME FsInv, NEW p \in Procs, NEW q \in Procs, q # p, Aimed(q), MadeKept, OthersRest(p), TypesKept(p), ValidKept(p)
  PROVE  Aimed(q)'
<1> DEFINE K == Pending(q)
<1>1. Pending(q)' = K /\ ptr'[q] = ptr[q] /\ cwd'[q] = cwd[q] /\ fd'[q] = fd[q] /\ call'[q] = call[q]
  BY DEF OthersRest, Pending
<1>2. \A v \in Ptrs : Needs(K, v) => ptr[q][v] \in Inums
  BY DEF Aimed, AimedAt
<1>3. ASSUME NEW v \in Ptrs, ptr[q][v] \in Inums, FirmAt(K, v)
      PROVE  disk'[ptr[q][v]].type = disk[ptr[q][v]].type
  <2>1. Sound(ptr[q][v])
    BY <1>3, FirmSound
  <2>2. \A w \in Ptrs : FreedAt(Pending(p), w) => ptr[p][w] # ptr[q][v]
    BY <1>3 DEF FsInv, Keeping, FirmKept
  <2>3. \A w \in Ptrs : <<"free", w>> \in Pending(p) => ptr[p][w] # ptr[q][v]
    BY <2>2 DEF FreedAt
  <2> QED BY <1>3, <2>1, <2>3 DEF TypesKept, Sound
<1>4. DirAhead(K) => disk'[ptr[q]["dp"]].type = "dir"
  <2>1. "dp" \in Ptrs /\ (DirAhead(K) => FirmAt(K, "dp") /\ Needs(K, "dp"))
    BY DEF DirAhead, FirmAt, Needs, UsedAt, Ptrs
  <2> QED BY <1>2, <1>3, <2>1 DEF Aimed, AimedAt
<1>5. ASSUME <<"create_ip", "ip">> \in K PROVE disk'[ptr[q]["ip"]].type = Made(call[q])
  <2>1. "ip" \in Ptrs /\ Needs(K, "ip")
    BY <1>5 DEF Needs, UsedAt, Ptrs
  <2>2. ptr[q]["ip"] \in Inums /\ disk[ptr[q]["ip"]].type = Made(call[q])
    BY <1>2, <1>5, <2>1 DEF Aimed, AimedAt
  <2>3. \A v \in Ptrs : <<"free", v>> \in Pending(p) => ptr[p][v] # ptr[q]["ip"]
    BY <1>5 DEF MadeKept
  <2> QED BY <2>2, <2>3 DEF TypesKept, Made
<1>6. ASSUME NEW v \in Ptrs, <<"free", v>> \in K
      PROVE  itable'[ptr[q][v]].valid /\ disk'[ptr[q][v]].type # "none"
  <2>1. LockedAt(K, v) /\ Needs(K, v)
    BY <1>6 DEF LockedAt, Needs, UsedAt
  <2>2. ptr[q][v] \in Inums /\ itable[ptr[q][v]].lock = q
    BY <1>2, <2>1 DEF FsInv, Keeping, LocksHeld
  <2>3. ASSUME NEW w \in Ptrs, FreedAt(Pending(p), w) PROVE ptr[p][w] # ptr[q][v]
    <3>1. LockedAt(Pending(p), w)
      BY <2>3 DEF FreedAt, LockedAt
    <3> QED BY <2>2, <3>1 DEF FsInv, Keeping, LocksHeld
  <2>4. v \in Cells /\ Held(q, v) = ptr[q][v]
    BY PtrHeld
  <2>5. itable[ptr[q][v]].valid /\ disk[ptr[q][v]].type # "none"
    BY <1>6 DEF Aimed, AimedAt
  <2>6. itable'[ptr[q][v]].valid
    BY <2>2, <2>3, <2>4, <2>5 DEF ValidKept, FreedAt
  <2>7. disk'[ptr[q][v]].type # "none"
    BY <2>2, <2>3, <2>5 DEF TypesKept, FreedAt
  <2> QED BY <2>6, <2>7
<1> QED BY <1>1, <1>2, <1>4, <1>5, <1>6 DEF Aimed, AimedAt

\* A step of p that makes no inode and begins no freeing keeps MadeKept.
MadeSame(p) ==
  /\ \A v \in Ptrs : <<"free", v>> \in Pending(p)' => <<"free", v>> \in Pending(p) /\ ptr'[p][v] = ptr[p][v]
  /\ <<"create_ip", "ip">> \in Pending(p)' => <<"create_ip", "ip">> \in Pending(p) /\ ptr'[p]["ip"] = ptr[p]["ip"]

LEMMA MadeKeptStep ==
  ASSUME MadeKept, NEW p \in Procs, OthersRest(p), MadeSame(p)
  PROVE  MadeKept'
<1>1. \A q \in Procs : q # p => Pending(q)' = Pending(q) /\ ptr'[q] = ptr[q]
  BY DEF OthersRest, Pending
<1> QED BY <1>1 DEF MadeKept, MadeSame

LEMMA LayoutStep ==
  ASSUME FsInv, Layout, NEW p \in Procs, OthersRest(p), TypesKept(p), ValidKept(p),
         Aimed(p)', MadeKept', Forms', BlocksOwned'
  PROVE  Layout'
<1>1. \A q \in Procs : q # p => Aimed(q)'
  BY OthersAimed DEF Layout
<1> QED BY <1>1 DEF Layout

\* A step that leaves the disk alone.
LEMMA LayoutSame ==
  ASSUME FsInv, Layout, NEW p \in Procs, OthersRest(p), UNCHANGED fsVars, panic' # "freeing free block",
         ValidKept(p), Aimed(p)', MadeKept'
  PROVE  Layout'
<1>1. TypesKept(p) /\ Forms' /\ BlocksOwned'
  BY DEF TypesKept, fsVars, Layout, Forms, BlocksOwned
<1> QED BY <1>1, LayoutStep

\* A table that grew keeps what is valid.
LEMMA ValidGrown ==
  ASSUME FsInv, NEW p \in Procs, Grows(itable, itable')
  PROVE  ValidKept(p)
<1>1. ASSUME NEW j \in Inums, NEW q \in Procs, NEW c \in Cells, Held(q, c) = j PROVE itable[j].ref > 0
  BY <1>1, HolderRef DEF FsInv
<1> QED BY <1>1 DEF ValidKept, Grows

-----------------------------------------------------------------------------
(* Steps on the references and locks of a plan.                            *)

\* The plan of p becomes L, which needs no freeing and makes nothing.
LEMMA AimedOf ==
  ASSUME NEW p \in Procs, Aimed(p), cwd'[p] \in Inums, fd'[p] \in Inums \union {0}, disk' = disk,
         NEW L, Pending(p)' = L,
         \A v \in Ptrs : Needs(L, v) => ptr'[p][v] \in Inums,
         DirAhead(L) => disk[ptr'[p]["dp"]].type = "dir",
         <<"create_ip", "ip">> \notin L, \A v \in Ptrs : <<"free", v>> \notin L
  PROVE  Aimed(p)' /\ MadeSame(p)
BY DEF Aimed, AimedAt, MadeSame

\* What follows a step that is not the last one is not in the middle of another.
LEMMA NoneAhead ==
  ASSUME NEW T, NEW a, \A b \in T : Before(a, b)
  PROVE  /\ <<"create_ip", "ip">> \notin T /\ <<"unlink_ip", "ip">> \notin T
         /\ \A v : <<"free", v>> \notin T /\ <<"drop", v>> \notin T /\ <<"deref", v>> \notin T
         /\ a[1] \in LastOps => T = {}
         /\ a[1] \in Puts => \A b \in T : b[2] # a[2]
         /\ a[1] = "unlock" => <<"unlock", a[2]>> \notin T
BY DEF Before, HeadOnly, LastOps

LEMMA NeedsJoin ==
  ASSUME NEW A, NEW T, NEW v
  PROVE  Needs(A \union T, v) <=> Needs(A, v) \/ Needs(T, v)
BY DEF Needs, UsedAt

\* A pointer that a step sets, and the other two.
LEMMA PtrOne ==
  ASSUME FsInv, NEW p \in Procs, NEW n
  PROVE  /\ ptr' = [ptr EXCEPT ![p]["ip"] = n] => ptr'[p]["ip"] = n /\ ptr'[p]["dp"] = ptr[p]["dp"]
         /\ ptr' = [ptr EXCEPT ![p]["dp"] = n] => ptr'[p]["dp"] = n /\ ptr'[p]["ip"] = ptr[p]["ip"]
         /\ ptr' = [ptr EXCEPT ![p]["x"] = n] =>
              ptr'[p]["x"] = n /\ ptr'[p]["ip"] = ptr[p]["ip"] /\ ptr'[p]["dp"] = ptr[p]["dp"]
<1>1. FsTypes /\ "ip" \in Ptrs /\ "dp" \in Ptrs /\ "x" \in Ptrs
  BY DEF FsInv, Ptrs
<1> QED BY <1>1, PtrSet

LEMMA UnlockLayout ==
  ASSUME FsInv, Layout, NEW p \in Procs, Unlock(p) PROVE Layout'
<1>1. /\ At(p, "unlock") /\ itable' = [itable EXCEPT ![I(p)].lock = NoProc] /\ Then(p, <<>>)
      /\ UNCHANGED <<fsVars, ptr, cwd, fd, panic>>
  BY DEF Unlock, others
<1>2. PICK T \in SUBSET KindSet :
        /\ Pending(p) = {<<"unlock", V(p)>>} \union T
        /\ \A b \in T : Before(<<"unlock", V(p)>>, b)
        /\ Pending(p)' = {} \union T
  BY <1>1, PlanNone, Proceed
<1>3. OthersRest(p)
  BY RestStep DEF FsInv, Ordered, Step
<1>4. ValidKept(p)
  BY <1>1, GrowsSame, GrowsOwner, ValidGrown
<1>5. Aimed(p)' /\ MadeSame(p)
  <2>1. Aimed(p)
    BY DEF Layout
  <2>2. \A v \in Ptrs : Needs(T, v) => ptr'[p][v] \in Inums
    BY <1>1, <1>2, <2>1, NeedsJoin DEF Aimed, AimedAt
  <2>3. DirAhead(T) => DirAhead(Pending(p))
    BY <1>2 DEF DirAhead
  <2>4. \A b \in T : Before(<<"unlock", V(p)>>, b)
    BY <1>2
  <2>5. <<"create_ip", "ip">> \notin T /\ \A w : <<"free", w>> \notin T
    BY <2>4, NoneAhead
  <2>6. DirAhead(T) => disk[ptr'[p]["dp"]].type = "dir"
    BY <1>1, <2>1, <2>3 DEF Aimed, AimedAt
  <2>7. Pending(p)' = T
    BY <1>2
  <2> QED BY <1>1, <2>1, <2>2, <2>5, <2>6, <2>7, AimedOf DEF Aimed, fsVars
<1> QED BY <1>1, <1>3, <1>4, <1>5, MadeKeptStep, LayoutSame DEF Layout, BlocksOwned

LEMMA DerefLayout ==
  ASSUME FsInv, Layout, NEW p \in Procs, NEW op \in {"put", "deref"}, At(p, op), Deref(p), OthersRest(p),
         UNCHANGED <<fsVars, cwd, fd, panic>>
  PROVE  Layout'
<1>1. itable' = [itable EXCEPT ![I(p)] = Fewer(@)] /\ ptr' = [ptr EXCEPT ![p][V(p)] = 0] /\ Then(p, <<>>)
  BY DEF Deref
<1>2. PICK T \in SUBSET KindSet :
        /\ Pending(p) = {<<op, V(p)>>} \union T
        /\ \A b \in T : Before(<<op, V(p)>>, b)
        /\ Pending(p)' = {} \union T
  BY <1>1, PlanNone, Proceed
<1>3. V(p) \in Ptrs /\ I(p) = ptr[p][V(p)] /\ op \in Puts
  BY HeadKind, PtrOf DEF I, Puts
<1>4. \A w \in Ptrs : w # V(p) => ptr'[p][w] = ptr[p][w]
  BY <1>1, <1>3, PtrSet DEF FsInv, FsTypes
<1>5. I(p) \in Inums
  BY <1>2, <1>3 DEF Layout, Aimed, AimedAt, Needs, UsedAt
<1>6. ValidKept(p)
  <2> SUFFICES ASSUME NEW j \in Inums, NEW q \in Procs, NEW c \in Cells, q # p, Held(q, c) = j, itable[j].valid
               PROVE  itable'[j].valid
    BY DEF ValidKept
  <2>1. itable[I(p)].ref > 0
    BY <1>3, <1>5, PtrRef DEF FsInv
  <2>2. Dropped(itable, itable', I(p))
    BY <1>1, <2>1, FewerAt DEF FsInv, FsTypes
  <2>3. itable[j].ref \in Nat /\ (j = I(p) => itable[j].ref # 1)
    BY <1>3, HolderRef, PtrHeld DEF FsInv
  <2> QED BY <2>1, <2>2, <2>3 DEF Dropped
<1>7. Aimed(p)' /\ MadeSame(p)
  <2>1. Aimed(p)
    BY DEF Layout
  <2>a. \A b \in T : Before(<<op, V(p)>>, b)
    BY <1>2
  <2>b. /\ \A b \in T : b[2] # V(p) /\ (V(p) # "x" => b[1] # "link_dp")
        /\ <<"create_ip", "ip">> \notin T /\ <<"unlink_ip", "ip">> \notin T /\ \A v : <<"free", v>> \notin T
    BY <1>3, <2>a, NoneAhead DEF Before
  <2>2. ~Needs(T, V(p))
    <3>1. \A w \in Ptrs : w = V(p) => ~Needs(T, w)
      BY <2>b DEF Needs, UsedAt, Ptrs
    <3> QED BY <1>3, <3>1
  <2>3. \A v \in Ptrs : Needs(T, v) => ptr'[p][v] \in Inums
    BY <1>2, <1>4, <2>1, <2>2, NeedsJoin DEF Aimed, AimedAt
  <2>4. DirAhead(T) => DirAhead(Pending(p)) /\ Needs(T, "dp")
    BY <1>2, <2>b DEF DirAhead, Needs, UsedAt, Puts
  <2>5. DirAhead(T) => disk[ptr'[p]["dp"]].type = "dir"
    BY <1>4, <2>1, <2>2, <2>4 DEF Aimed, AimedAt, Ptrs
  <2> QED BY <1>2, <2>1, <2>3, <2>5, <2>b, AimedOf DEF Aimed, fsVars
<1> QED BY <1>6, <1>7, MadeKeptStep, LayoutSame DEF Layout, BlocksOwned

LEMMA PutLayout ==
  ASSUME FsInv, Layout, NEW p \in Procs, Put(p) \/ PutFreed(p) PROVE Layout'
<1>1. OthersRest(p)
  BY RestStep DEF FsInv, Ordered, Step
<1>2. (At(p, "put") \/ At(p, "deref")) /\ Deref(p) /\ UNCHANGED <<fsVars, cwd, fd, panic>>
  BY DEF Put, PutFreed, others
<1> QED BY <1>1, <1>2, DerefLayout

\* iput() of the last reference: nobody else has a pointer to the inode.
LEMMA PutUnusedLayout ==
  ASSUME FsInv, Layout, NEW p \in Procs, PutUnused(p) PROVE Layout'
<1>1. /\ At(p, "put") /\ Unused(I(p)) /\ Free(I(p))
      /\ itable' = [itable EXCEPT ![I(p)].lock = p] /\ Then(p, << <<"free", V(p)>> >>)
      /\ UNCHANGED <<fsVars, ptr, cwd, fd, call, panic>>
  BY DEF PutUnused, others, progVars
<1>2. V(p) \in Ptrs /\ Turn(p) /\ Freeing(Pending(p), Pending(p)', ptr[p], call[p], V(p), "put", "free")
  BY <1>1, FreeingTurn
<1>3. PICK T : /\ T \in SUBSET KindSet /\ Pending(p) = {<<"put", V(p)>>} \union T
               /\ \A b \in T : Before(<<"put", V(p)>>, b)
               /\ Pending(p)' = {<<"free", V(p)>>} \union T
  <2>1. \A b \in KindSet : Before(<<"put", V(p)>>, b) => Before(<<"free", V(p)>>, b)
    BY DEF Before, LastOps, Puts
  <2>2. <<"free", V(p)>> \in KindSet
    BY <1>2 DEF KindSet, Puts
  <2>3. Plan(<< <<"free", V(p)>> >>, {<<"free", V(p)>>})
    BY <2>2, PlanOne
  <2>4. \A a \in {<<"free", V(p)>>} : \A b \in KindSet : Before(<<"put", V(p)>>, b) => Before(a, b)
    BY <2>1
  <2> QED BY <1>1, <2>3, <2>4, Proceed
<1>4. OthersRest(p)
  BY RestStep DEF FsInv, Ordered, Step
<1>5. ValidKept(p)
  BY <1>1, GrowsSame, GrowsOwner, ValidGrown
<1>6. PICK v : v = V(p) /\ v \in Ptrs /\ ptr[p][v] \in Inums /\ I(p) = ptr[p][v]
  BY <1>2, <1>3 DEF I, Layout, Aimed, AimedAt, Needs, UsedAt
<1>a. \A b \in T : Before(<<"put", V(p)>>, b)
  BY <1>3
<1>b. /\ <<"create_ip", "ip">> \notin T /\ <<"unlink_ip", "ip">> \notin T /\ \A w : <<"free", w>> \notin T
  BY <1>a, NoneAhead
<1>7. itable[ptr[p][v]].ref = 1 /\ itable[ptr[p][v]].valid /\ disk[ptr[p][v]].type # "none" /\ itable'[ptr[p][v]].valid
  <2>1. Sound(ptr[p][v])
    BY <1>1, <1>6, NodeOnDisk DEF Unused
  <2>2. Relocked(itable, itable', I(p), p)
    BY <1>1, LockAt DEF FsInv, FsTypes
  <2> QED BY <1>1, <1>6, <2>1, <2>2 DEF Unused, Sound, Relocked
<1>8. Aimed(p)'
  <2>1. Aimed(p)
    BY DEF Layout
  <2>2. \A w : Needs({<<"free", V(p)>>} \union T, w) <=> Needs(Pending(p), w)
    BY <1>3 DEF Needs, UsedAt
  <2>3. DirAhead({<<"free", V(p)>>} \union T) => DirAhead(Pending(p))
    BY <1>3 DEF DirAhead
  <2>4. \A w : <<"free", w>> \in Pending(p)' => w = v
    BY <1>3, <1>6, <1>b
  <2> QED BY <1>1, <1>3, <1>6, <1>7, <1>b, <2>1, <2>2, <2>3, <2>4 DEF Aimed, AimedAt, fsVars
<1>9. MadeKept'
  <2> SUFFICES ASSUME NEW q \in Procs, NEW r \in Procs, NEW w \in Ptrs,
                      <<"free", w>> \in Pending(q)', <<"create_ip", "ip">> \in Pending(r)'
               PROVE  ptr'[r]["ip"] # ptr'[q][w]
    BY DEF MadeKept
  <2>1. \A s \in Procs : s # p => Pending(s)' = Pending(s)
    BY <1>4 DEF OthersRest, Pending
  <2>2. r # p /\ <<"create_ip", "ip">> \in Pending(r)
    BY <1>3, <1>b, <2>1
  <2>3. CASE q # p
    BY <1>1, <2>1, <2>2, <2>3 DEF Layout, MadeKept
  <2>4. CASE q = p
    <3>1. w = v
      BY <1>3, <1>6, <1>b, <2>4
    <3>2. ptr[r]["ip"] # ptr[p][v]
      BY <1>6, <1>7, <2>2, OnlyPtr DEF FsInv, Ptrs
    <3> QED BY <1>1, <2>4, <3>1, <3>2
  <2> QED BY <2>3, <2>4
<1> QED BY <1>1, <1>4, <1>5, <1>8, <1>9, LayoutSame DEF Layout, BlocksOwned

LEMMA DropLayout ==
  ASSUME FsInv, Layout, NEW p \in Procs, Drop(p) PROVE Layout'
<1>1. /\ At(p, "drop") /\ itable' = [itable EXCEPT ![I(p)] = Taken(@.ref)] /\ Then(p, << <<"deref", V(p)>> >>)
      /\ UNCHANGED <<fsVars, ptr, cwd, fd, call, panic>>
  BY DEF Drop, others, progVars
<1>2. V(p) \in Ptrs /\ I(p) = ptr[p][V(p)] /\ <<"drop", V(p)>> \in Pending(p)
  BY <1>1, HeadKind, PtrOf DEF I, Puts
<1>3. PICK T : /\ T \in SUBSET KindSet /\ Pending(p) = {<<"drop", V(p)>>} \union T
               /\ \A b \in T : Before(<<"drop", V(p)>>, b)
               /\ Pending(p)' = {<<"deref", V(p)>>} \union T
  <2>1. \A b \in KindSet : Before(<<"drop", V(p)>>, b) => Before(<<"deref", V(p)>>, b)
    BY DEF Before, LastOps, Puts
  <2>2. <<"deref", V(p)>> \in KindSet
    BY <1>2 DEF KindSet, Puts
  <2>3. Plan(<< <<"deref", V(p)>> >>, {<<"deref", V(p)>>})
    BY <2>2, PlanOne
  <2>4. \A a \in {<<"deref", V(p)>>} : \A b \in KindSet : Before(<<"drop", V(p)>>, b) => Before(a, b)
    BY <2>1
  <2> QED BY <1>1, <2>3, <2>4, Proceed
<1>4. OthersRest(p)
  BY RestStep DEF FsInv, Ordered, Step
<1>5. ValidKept(p)
  <2>1. \A j \in Inums : j # I(p) => itable'[j] = itable[j]
    BY <1>1 DEF FsInv, FsTypes, IsTable
  <2> QED BY <1>2, <2>1 DEF ValidKept
<1>a. \A b \in T : Before(<<"drop", V(p)>>, b)
  BY <1>3
<1>b. /\ <<"create_ip", "ip">> \notin T /\ <<"unlink_ip", "ip">> \notin T /\ \A w : <<"free", w>> \notin T
  BY <1>a, NoneAhead
<1>6. Aimed(p)' /\ MadeSame(p)
  <2>1. Aimed(p)
    BY DEF Layout
  <2>2. \A w : Needs({<<"deref", V(p)>>} \union T, w) <=> Needs(Pending(p), w)
    BY <1>3 DEF Needs, UsedAt
  <2>3. DirAhead({<<"deref", V(p)>>} \union T) => DirAhead(Pending(p))
    BY <1>3 DEF DirAhead
  <2> QED BY <1>1, <1>3, <1>b, <2>1, <2>2, <2>3, AimedOf DEF Aimed, AimedAt, fsVars
<1> QED BY <1>1, <1>4, <1>5, <1>6, MadeKeptStep, LayoutSame DEF Layout, BlocksOwned

-----------------------------------------------------------------------------
(* Steps under the lock of one inode that leave the disk alone.            *)

\* What the step that ends a plan finds.
LEMMA LastAimed ==
  ASSUME FsInv, Layout, NEW p \in Procs, NEW op \in LastOps, At(p, op), Free(I(p)),
         Node(I(p)).type # "none" \/ FirmAt({<<op, V(p)>>}, V(p))
  PROVE  /\ <<op, V(p)>> \in KindSet /\ Pending(p) = {<<op, V(p)>>} /\ I(p) = ptr[p][V(p)] /\ V(p) \in Ptrs
         /\ op \in OnIp => V(p) = "ip"
         /\ op \in OnDp => V(p) = "dp"
         /\ I(p) \in Inums /\ Node(I(p)) = disk[I(p)] /\ itable[I(p)].ref > 0 /\ disk[I(p)].type # "none"
<1>1. /\ <<op, V(p)>> \in KindSet /\ V(p) \in Ptrs /\ Pending(p) = {<<op, V(p)>>}
      /\ I(p) \in Inums => Node(I(p)) = disk[I(p)] /\ itable[I(p)].ref > 0 /\ Node(I(p)).type # "none"
  BY FoundLast
<1>2. (op \in OnIp => V(p) = "ip") /\ (op \in OnDp => V(p) = "dp") /\ I(p) = ptr[p][V(p)]
  BY <1>1, PtrOf DEF I
<1>3. op \in OnIp \/ op \in OnDp
  BY DEF LastOps, OnIp, OnDp
<1>4. Needs(Pending(p), V(p))
  <2>1. op \in LastOps \intersect OnIp => Needs({<<op, "ip">>}, "ip")
    BY DEF LastOps, OnIp, Needs, UsedAt
  <2>2. op \in LastOps \intersect OnDp => Needs({<<op, "dp">>}, "dp")
    BY DEF LastOps, OnDp, Needs, UsedAt
  <2> QED BY <1>1, <1>2, <1>3, <2>1, <2>2
<1> QED BY <1>1, <1>2, <1>4 DEF Layout, Aimed, AimedAt

\* namex(), whose next inode is one of the disk.
LEMMA WalkPlan ==
  ASSUME FsInv, Layout, NEW p \in Procs, Walk(p)
  PROVE  \E T \in SUBSET KindSet, v \in {"ip", "dp"} :
           /\ v = V(p) /\ Pending(p) = {<<"walk", v>>} \union T
           /\ \/ /\ v = "dp" /\ T \subseteq {<<"walk", "dp">>, <<"parent", "dp">>, <<"unlink_dp", "dp">>,
                                              <<"create_dp", "dp">>, <<"link_dp", "dp">>}
              \/ /\ v = "ip" /\ T \subseteq {<<"walk", "ip">>, <<"open_ip", "ip">>, <<"link_ip", "ip">>,
                                              <<"chdir_ip", "ip">>}
           /\ UsedAt(Pending(p), v) /\ (v = "dp" => ~DirAhead(T))
           /\ v = "dp" /\ call[p].op = "link" => <<"link_dp", "dp">> \in T
           /\ I(p) = ptr[p][v] /\ I(p) \in Inums /\ Free(I(p)) /\ Node(I(p)) = disk[I(p)]
           /\ disk[I(p)].type # "none" /\ itable[I(p)].ref > 0
           /\ \/ itable' = ilock(NoProc, I(p)) /\ ptr' = ptr /\ Pending(p)' = Backed(call[p], v) /\ stray' = stray
              \/ \E next : /\ disk[I(p)].type = "dir" /\ next = dirlookup(data[I(p)], Head(todo[p])[3]) /\ next \in Inums
                           /\ itable' = iget(ilock(NoProc, I(p)), next)
                           /\ ptr'[p]["x"] = I(p) /\ ptr'[p][v] = next
                           /\ \A w \in Ptrs : w # "x" /\ w # v => ptr'[p][w] = ptr[p][w]
                           /\ stray' = (stray \/ (Head(todo[p])[3] = ".." /\ disk[I(p)].nlink = 0))
                           /\ Pending(p)' = {<<"put", "x">>} \union T
<1> DEFINE i    == I(p)
           next == dirlookup(data[i], Head(todo[p])[3])
<1>1. /\ At(p, "walk") /\ Free(i) /\ Node(i).type # "none"
      /\ \/ itable' = ilock(NoProc, i) /\ Nowhere(p) /\ ptr' = ptr /\ stray' = stray
         \/ /\ Node(i).type = "dir" /\ next # 0
            /\ itable' = iget(ilock(NoProc, i), next)
            /\ ptr'    = [ptr EXCEPT ![p].x = i, ![p][V(p)] = next]
            /\ Then(p, << <<"put", "x">> >>)
            /\ stray' = (stray \/ (Head(todo[p])[3] = ".." /\ Node(i).nlink = 0))
  BY DEF Walk
<1>2. <<"walk", V(p)>> \in KindSet /\ <<"walk", V(p)>> \in Pending(p) /\ V(p) \in {"ip", "dp"}
  <2>1. <<"walk", V(p)>> \in KindSet /\ <<"walk", V(p)>> \in Pending(p)
    BY <1>1, HeadKind
  <2> QED BY <2>1 DEF KindSet, OnDp, OnIp, Puts, Ptrs
<1>3. Linked(Pending(p), call[p])
  BY DEF FsInv, Ordered
<1>4. PICK v : v = V(p) /\ v \in {"ip", "dp"}
  BY <1>2
<1>5. ASSUME NEW T \in SUBSET KindSet, Pending(p) = {<<"walk", v>>} \union T, \A b \in T : Before(<<"walk", v>>, b)
      PROVE  /\ \/ /\ v = "dp" /\ T \subseteq {<<"walk", "dp">>, <<"parent", "dp">>, <<"unlink_dp", "dp">>,
                                              <<"create_dp", "dp">>, <<"link_dp", "dp">>}
                \/ /\ v = "ip" /\ T \subseteq {<<"walk", "ip">>, <<"open_ip", "ip">>, <<"link_ip", "ip">>,
                                              <<"chdir_ip", "ip">>}
             /\ UsedAt(Pending(p), v) /\ (v = "dp" => ~DirAhead(T))
             /\ v = "dp" /\ call[p].op = "link" => <<"link_dp", "dp">> \in T
  <2>1. \/ /\ v = "dp" /\ T \subseteq {<<"walk", "dp">>, <<"parent", "dp">>, <<"unlink_dp", "dp">>,
                                              <<"create_dp", "dp">>, <<"link_dp", "dp">>}
        \/ /\ v = "ip" /\ T \subseteq {<<"walk", "ip">>, <<"open_ip", "ip">>, <<"link_ip", "ip">>,
                                              <<"chdir_ip", "ip">>}
    BY <1>2, <1>4, <1>5, AfterWalkKinds
  <2>2. PICK K, c : K = Pending(p) /\ c = call[p] /\ K = {<<"walk", v>>} \union T /\ Linked(K, c)
    BY <1>3, <1>5
  <2>3. UsedAt(K, v) /\ (v = "dp" => ~DirAhead(T)) /\ (v = "dp" /\ c.op = "link" => <<"link_dp", "dp">> \in T)
    BY <2>1, <2>2 DEF UsedAt, Linked, DirAhead
  <2> QED BY <2>1, <2>2, <2>3
<1>6. UsedAt(Pending(p), v) /\ \E T \in SUBSET KindSet : Pending(p) = {<<"walk", v>>} \union T /\ \A b \in T : Before(<<"walk", v>>, b)
  <2>1. PICK T \in SUBSET KindSet : Pending(p) = {<<"walk", v>>} \union T /\ \A b \in T : Before(<<"walk", v>>, b)
    <3>1. CASE Nowhere(p)
      <4>1. PICK ops : Plan(ops, Backed(call[p], V(p))) /\ Only(p, ops)
        BY <1>2, <3>1, PlanNowhere
      <4> QED BY <1>1, <1>4, <4>1, ProceedOnly
    <3>2. CASE Then(p, << <<"put", "x">> >>)
      <4>1. \A a \in {<<"put", "x">>} : \A b \in KindSet : Before(<<"walk", V(p)>>, b) => Before(a, b)
        BY <1>2 DEF Before, AfterWalk, HeadOnly, LastOps, Puts
      <4>2. Plan(<< <<"put", "x">> >>, {<<"put", "x">>})
        BY PlanOf DEF Ptrs
      <4> QED BY <1>1, <1>4, <3>2, <4>1, <4>2, Proceed
    <3> QED BY <1>1, <3>1, <3>2
  <2> QED BY <1>5, <2>1
<1>7. i = ptr[p][v] /\ v \in Ptrs /\ i \in Inums
  BY <1>4, <1>6 DEF I, Ptrs, Layout, Aimed, AimedAt, Needs
<1>8. Node(i) = disk[i] /\ itable[i].ref > 0
  BY <1>1, <1>7, NodeOnDisk, PtrRef DEF FsInv
<1>9. CASE Nowhere(p) /\ itable' = ilock(NoProc, i) /\ ptr' = ptr /\ stray' = stray
  <2>1. PICK ops : Plan(ops, Backed(call[p], V(p))) /\ Only(p, ops)
    BY <1>2, <1>9, PlanNowhere
  <2>2. PICK T \in SUBSET KindSet : /\ Pending(p) = {<<"walk", v>>} \union T /\ \A b \in T : Before(<<"walk", v>>, b)
                                    /\ Pending(p)' = Backed(call[p], v)
    BY <1>1, <1>4, <2>1, ProceedOnly
  <2> QED BY <1>1, <1>4, <1>5, <1>7, <1>8, <1>9, <2>2
<1>10. CASE /\ Node(i).type = "dir" /\ next # 0
            /\ itable' = iget(ilock(NoProc, i), next)
            /\ ptr'    = [ptr EXCEPT ![p].x = i, ![p][V(p)] = next]
            /\ Then(p, << <<"put", "x">> >>)
            /\ stray' = (stray \/ (Head(todo[p])[3] = ".." /\ Node(i).nlink = 0))
  <2>1. PICK n : n = next /\ n \in Inums
    BY <1>7, <1>8, <1>10, LookupIn DEF Layout, Forms
  <2>2. \A a \in {<<"put", "x">>} : \A b \in KindSet : Before(<<"walk", V(p)>>, b) => Before(a, b)
    BY <1>2 DEF Before, AfterWalk, HeadOnly, LastOps, Puts
  <2>3. Plan(<< <<"put", "x">> >>, {<<"put", "x">>})
    BY PlanOf DEF Ptrs
  <2>4. PICK T \in SUBSET KindSet : /\ Pending(p) = {<<"walk", v>>} \union T /\ \A b \in T : Before(<<"walk", v>>, b)
                                    /\ Pending(p)' = {<<"put", "x">>} \union T
    BY <1>1, <1>4, <1>10, <2>2, <2>3, Proceed
  <2>5. /\ ptr'[p]["x"] = i /\ ptr'[p][v] = n
        /\ \A w \in Ptrs : w # "x" /\ w # v => ptr'[p][w] = ptr[p][w]
    <3>1. ptr' = [ptr EXCEPT ![p]["x"] = i, ![p][v] = n] /\ DOMAIN ptr = Procs /\ DOMAIN ptr[p] = Ptrs
      BY <1>4, <1>10, <2>1 DEF FsInv, FsTypes
    <3> HIDE DEF i, next
    <3> QED BY <1>4, <3>1 DEF Ptrs
  <2>6. \E m : /\ disk[i].type = "dir" /\ m = next /\ m \in Inums
               /\ itable' = iget(ilock(NoProc, i), m)
               /\ ptr'[p]["x"] = i /\ ptr'[p][v] = m
               /\ \A w \in Ptrs : w # "x" /\ w # v => ptr'[p][w] = ptr[p][w]
               /\ stray' = (stray \/ (Head(todo[p])[3] = ".." /\ disk[i].nlink = 0))
               /\ Pending(p)' = {<<"put", "x">>} \union T
    BY <1>8, <1>10, <2>1, <2>4, <2>5
  <2>7. T \in SUBSET KindSet /\ Pending(p) = {<<"walk", v>>} \union T /\ \A b \in T : Before(<<"walk", v>>, b)
    BY <2>4
  <2> HIDE DEF i, next
  <2>8. /\ \/ /\ v = "dp" /\ T \subseteq {<<"walk", "dp">>, <<"parent", "dp">>, <<"unlink_dp", "dp">>,
                                              <<"create_dp", "dp">>, <<"link_dp", "dp">>}
           \/ /\ v = "ip" /\ T \subseteq {<<"walk", "ip">>, <<"open_ip", "ip">>, <<"link_ip", "ip">>,
                                              <<"chdir_ip", "ip">>}
        /\ UsedAt(Pending(p), v) /\ (v = "dp" => ~DirAhead(T))
        /\ v = "dp" /\ call[p].op = "link" => <<"link_dp", "dp">> \in T
    BY <1>5, <2>7
  <2>9. v = V(p) /\ i = ptr[p][v] /\ i \in Inums /\ Free(i) /\ Node(i) = disk[i]
        /\ disk[i].type # "none" /\ itable[i].ref > 0
    BY <1>1, <1>4, <1>7, <1>8
  <2> QED BY <1>4, <2>6, <2>7, <2>8, <2>9 DEF i, next
<1> QED BY <1>1, <1>9, <1>10

\* A step of p that leaves the disk alone and goes on with the plan L.
LEMMA SameLayout ==
  ASSUME FsInv, Layout, NEW p \in Procs, OthersRest(p), UNCHANGED <<fsVars, panic>>, Grows(itable, itable'),
         cwd'[p] \in Inums, fd'[p] \in Inums \union {0}, NEW L, Pending(p)' = L,
         \A v \in Ptrs : Needs(L, v) => ptr'[p][v] \in Inums,
         DirAhead(L) => disk[ptr'[p]["dp"]].type = "dir",
         <<"create_ip", "ip">> \notin L, \A v \in Ptrs : <<"free", v>> \notin L
  PROVE  Layout'
<1>1. Aimed(p) /\ MadeKept /\ disk' = disk
  BY DEF Layout, fsVars
<1>2. Aimed(p)' /\ MadeSame(p)
  BY <1>1, AimedOf
<1>3. MadeKept'
  BY <1>1, <1>2, MadeKeptStep
<1>4. ValidKept(p)
  BY ValidGrown
<1> QED BY <1>2, <1>3, <1>4, LayoutSame DEF Layout, BlocksOwned

\* What p has in the way of directories and files.
LEMMA Places ==
  ASSUME Layout, NEW p \in Procs, cwd' = cwd, fd' = fd
  PROVE  cwd'[p] \in Inums /\ fd'[p] \in Inums \union {0}
BY DEF Layout, Aimed

LEMMA WalkLayout ==
  ASSUME FsInv, Layout, NEW p \in Procs, Walk(p) PROVE Layout'
<1>1. OthersRest(p)
  BY RestStep DEF FsInv, Ordered, Step
<1>2. UNCHANGED <<fsVars, cwd, fd, panic>>
  BY DEF Walk, others
<1>3. cwd'[p] \in Inums /\ fd'[p] \in Inums \union {0}
  BY <1>2, Places
<1>4. PICK T \in SUBSET KindSet, v \in {"ip", "dp"} :
           /\ v = V(p) /\ Pending(p) = {<<"walk", v>>} \union T
           /\ \/ /\ v = "dp" /\ T \subseteq {<<"walk", "dp">>, <<"parent", "dp">>, <<"unlink_dp", "dp">>,
                                              <<"create_dp", "dp">>, <<"link_dp", "dp">>}
              \/ /\ v = "ip" /\ T \subseteq {<<"walk", "ip">>, <<"open_ip", "ip">>, <<"link_ip", "ip">>,
                                              <<"chdir_ip", "ip">>}
           /\ UsedAt(Pending(p), v) /\ (v = "dp" => ~DirAhead(T))
           /\ v = "dp" /\ call[p].op = "link" => <<"link_dp", "dp">> \in T
           /\ I(p) = ptr[p][v] /\ I(p) \in Inums
           /\ \/ itable' = ilock(NoProc, I(p)) /\ ptr' = ptr /\ Pending(p)' = Backed(call[p], v)
              \/ \E next : /\ next \in Inums
                           /\ itable' = iget(ilock(NoProc, I(p)), next)
                           /\ ptr'[p]["x"] = I(p) /\ ptr'[p][v] = next
                           /\ \A w \in Ptrs : w # "x" /\ w # v => ptr'[p][w] = ptr[p][w]
                           /\ Pending(p)' = {<<"put", "x">>} \union T
  BY WalkPlan
<1>5. Grows(itable, ilock(NoProc, I(p)))
  BY GrowsLocked
<1>6. \A w \in Ptrs : Needs(Pending(p), w) => ptr[p][w] \in Inums
  BY DEF Layout, Aimed, AimedAt
<1>7. CASE itable' = ilock(NoProc, I(p)) /\ ptr' = ptr /\ Pending(p)' = Backed(call[p], v)
  <2>1. PICK L : L = Backed(call[p], v)
    OBVIOUS
  <2>2. \A w \in Ptrs : Needs(L, w) => w = v \/ (w = "ip" /\ v = "dp" /\ <<"link_dp", "dp">> \in T)
    BY <1>4, <2>1 DEF Backed, Needs, UsedAt
  <2>3. <<"link_dp", "dp">> \in T => Needs(Pending(p), "ip")
    BY <1>4 DEF Needs, UsedAt
  <2>4. \A w \in Ptrs : Needs(L, w) => ptr'[p][w] \in Inums
    BY <1>4, <1>6, <1>7, <2>2, <2>3 DEF Ptrs
  <2>5. ~DirAhead(L) /\ <<"create_ip", "ip">> \notin L /\ \A w \in Ptrs : <<"free", w>> \notin L
    BY <2>1 DEF Backed, DirAhead
  <2>6. Grows(itable, itable') /\ Pending(p)' = L
    BY <1>5, <1>7, <2>1
  <2> QED BY <1>1, <1>2, <1>3, <2>4, <2>5, <2>6, SameLayout
<1>8. CASE \E next : /\ next \in Inums
                     /\ itable' = iget(ilock(NoProc, I(p)), next)
                     /\ ptr'[p]["x"] = I(p) /\ ptr'[p][v] = next
                     /\ \A w \in Ptrs : w # "x" /\ w # v => ptr'[p][w] = ptr[p][w]
                     /\ Pending(p)' = {<<"put", "x">>} \union T
  <2>1. PICK next : /\ next \in Inums
                    /\ itable' = iget(ilock(NoProc, I(p)), next)
                    /\ ptr'[p]["x"] = I(p) /\ ptr'[p][v] = next
                    /\ \A w \in Ptrs : w # "x" /\ w # v => ptr'[p][w] = ptr[p][w]
                    /\ Pending(p)' = {<<"put", "x">>} \union T
    BY <1>8
  <2>2. PICK L : L = {<<"put", "x">>} \union T
    OBVIOUS
  <2>3. \A w \in Ptrs : Needs(L, w) => w = "x" \/ Needs(Pending(p), w)
    BY <1>4, <2>2 DEF Needs, UsedAt
  <2>4. \A w \in Ptrs : Needs(L, w) => ptr'[p][w] \in Inums
    BY <1>4, <1>6, <2>1, <2>3
  <2>5. ~DirAhead(L) /\ <<"create_ip", "ip">> \notin L /\ \A w \in Ptrs : <<"free", w>> \notin L
    BY <1>4, <2>2 DEF DirAhead
  <2>6. Grows(itable, itable') /\ Pending(p)' = L
    BY <1>5, <2>1, <2>2, GrowsGot
  <2> QED BY <1>1, <1>2, <1>3, <2>4, <2>5, <2>6, SameLayout
<1> QED BY <1>4, <1>7, <1>8

\* What the last round of nameiparent() makes of a plan.
LEMMA ParentPlan ==
  ASSUME FsInv, NEW p \in Procs, Parent(p)
  PROVE  /\ V(p) = "dp" /\ I(p) = ptr[p]["dp"] /\ <<"parent", "dp">> \in Pending(p)
         /\ Pending(p) \subseteq {<<"parent", "dp">>, <<"unlink_dp", "dp">>, <<"create_dp", "dp">>, <<"link_dp", "dp">>}
         /\ \/ Pending(p)' = Pending(p) \ {<<"parent", "dp">>} /\ Node(I(p)).type = "dir"
            \/ Pending(p)' = Backed(call[p], "dp")
<1>1. /\ At(p, "parent") /\ (IF Node(I(p)).type = "dir" THEN Then(p, <<>>) ELSE Nowhere(p))
  BY DEF Parent
<1>2. <<"parent", V(p)>> \in KindSet
  BY <1>1, HeadKind
<1>3. CASE Then(p, <<>>) /\ Node(I(p)).type = "dir"
  <2>1. PICK T \in SUBSET KindSet : /\ Pending(p) = {<<"parent", V(p)>>} \union T
                                    /\ \A b \in T : Before(<<"parent", V(p)>>, b)
                                    /\ Pending(p)' = {} \union T
    BY <1>1, <1>3, PlanNone, Proceed
  <2>2. \A b \in T : Before(<<"parent", V(p)>>, b)
    BY <2>1
  <2>3. V(p) = "dp" /\ T \subseteq {<<"unlink_dp", "dp">>, <<"create_dp", "dp">>, <<"link_dp", "dp">>}
    BY <1>2, <2>2, AfterParent
  <2> QED BY <1>3, <2>1, <2>3 DEF I
<1>4. CASE Nowhere(p)
  <2>1. V(p) \in {"ip", "dp"}
    BY <1>2 DEF KindSet, OnDp, OnIp, Puts, Ptrs
  <2>2. PICK ops : Plan(ops, Backed(call[p], V(p))) /\ Only(p, ops)
    BY <1>4, <2>1, PlanNowhere
  <2>3. /\ Pending(p)' = Backed(call[p], V(p))
        /\ \E T \in SUBSET KindSet :
             /\ Pending(p) = {<<"parent", V(p)>>} \union T
             /\ \A b \in T : Before(<<"parent", V(p)>>, b)
    BY <1>1, <2>2, ProceedOnly
  <2>4. PICK T \in SUBSET KindSet : /\ Pending(p) = {<<"parent", V(p)>>} \union T
                                    /\ \A b \in T : Before(<<"parent", V(p)>>, b)
    BY <2>3
  <2>5. V(p) = "dp" /\ T \subseteq {<<"unlink_dp", "dp">>, <<"create_dp", "dp">>, <<"link_dp", "dp">>}
    BY <1>2, <2>4, AfterParent
  <2> QED BY <2>3, <2>4, <2>5 DEF I
<1> QED BY <1>1, <1>3, <1>4

LEMMA ParentLayout ==
  ASSUME FsInv, Layout, NEW p \in Procs, Parent(p) PROVE Layout'
<1>1. OthersRest(p)
  BY RestStep DEF FsInv, Ordered, Step
<1>2. UNCHANGED <<fsVars, ptr, cwd, fd, call, panic>> /\ itable' = ilock(NoProc, I(p)) /\ Free(I(p))
  BY DEF Parent, others, progVars
<1>3. cwd'[p] \in Inums /\ fd'[p] \in Inums \union {0} /\ Grows(itable, itable')
  BY <1>2, Places, GrowsLocked
<1>4. /\ V(p) = "dp" /\ I(p) = ptr[p]["dp"] /\ <<"parent", "dp">> \in Pending(p)
      /\ Pending(p) \subseteq {<<"parent", "dp">>, <<"unlink_dp", "dp">>, <<"create_dp", "dp">>, <<"link_dp", "dp">>}
      /\ \/ Pending(p)' = Pending(p) \ {<<"parent", "dp">>} /\ Node(I(p)).type = "dir"
         \/ Pending(p)' = Backed(call[p], "dp")
  BY ParentPlan
<1>5. PICK K, L, c : K = Pending(p) /\ L = Pending(p)' /\ c = call[p]
  OBVIOUS
<1>6. Linked(K, c)
  BY <1>5 DEF FsInv, Ordered
<1>7. \A w \in Ptrs : Needs(K, w) => ptr[p][w] \in Inums
  BY <1>5 DEF Layout, Aimed, AimedAt
<1>8. \A w \in Ptrs : Needs(L, w) => Needs(K, w)
  <2>1. Needs(K, "dp") /\ (c.op = "link" => Needs(K, "ip"))
    BY <1>4, <1>5, <1>6 DEF Linked, Needs, UsedAt
  <2>2. CASE L = K \ {<<"parent", "dp">>}
    BY <2>2 DEF Needs, UsedAt
  <2>3. CASE L = Backed(c, "dp")
    BY <2>1, <2>3 DEF Needs, UsedAt, Backed
  <2> QED BY <1>4, <1>5, <2>2, <2>3
<1>9. <<"create_ip", "ip">> \notin L /\ \A w \in Ptrs : <<"free", w>> \notin L
  BY <1>4, <1>5 DEF Backed
<1>10. DirAhead(L) => disk[ptr'[p]["dp"]].type = "dir"
  <2>1. Needs(K, "dp") /\ "dp" \in Ptrs
    BY <1>4, <1>5, <1>6 DEF Linked, Needs, UsedAt, Ptrs
  <2>2. Node(I(p)) = disk[I(p)]
    BY <1>2, <1>4, <1>7, <2>1, NodeOnDisk
  <2>3. L = Backed(c, "dp") => ~DirAhead(L)
    BY DEF Backed, DirAhead
  <2> QED BY <1>2, <1>4, <1>5, <2>2, <2>3
<1> QED BY <1>1, <1>2, <1>3, <1>5, <1>7, <1>8, <1>9, <1>10, SameLayout

\* A step that stops the kernel, but for bfree().
LEMMA FailsLayout ==
  ASSUME FsInv, Layout, NEW why, why # "freeing free block", Fails(why) PROVE Layout'
<1>1. UNCHANGED <<fsVars, itable, cwd, fd, call, todo, ptr>> /\ panic' = why
  BY DEF Fails, progVars
<1>2. \A p \in Procs : Aimed(p)' = Aimed(p)
  BY <1>1 DEF Aimed, AimedAt, Pending, fsVars
<1>3. MadeKept'
  BY <1>1 DEF MadeKept, Layout, Pending
<1>4. Forms' /\ BlocksOwned'
  BY <1>1 DEF Layout, Forms, BlocksOwned, fsVars
<1> QED BY <1>2, <1>3, <1>4 DEF Layout

\* A step that ends what was planned and leaves the disk alone.
LEMMA LastLayout ==
  ASSUME FsInv, Layout, NEW p \in Procs, OthersRest(p), UNCHANGED <<fsVars, panic>>, Grows(itable, itable'),
         cwd'[p] \in Inums, fd'[p] \in Inums \union {0},
         NEW op \in LastOps, At(p, op), NEW ops, NEW A, Plan(ops, A), Then(p, ops) \/ Only(p, ops),
         \A v \in Ptrs : Needs(A, v) => ptr'[p][v] \in Inums,
         DirAhead(A) => disk[ptr'[p]["dp"]].type = "dir",
         <<"create_ip", "ip">> \notin A, \A v \in Ptrs : <<"free", v>> \notin A
  PROVE  Layout'
<1>1. Pending(p)' = A
  BY LastStep
<1> QED BY <1>1, SameLayout

LEMMA NoTypeLayout ==
  ASSUME FsInv, Layout, NEW p \in Procs, NoType(p) PROVE Layout'
BY FailsLayout DEF NoType

LEMMA UnlinkDpLayout ==
  ASSUME FsInv, Layout, NEW p \in Procs, UnlinkDp(p) PROVE Layout'
<1> DEFINE next == dirlookup(data[I(p)], Name(p))
<1>1. /\ At(p, "unlink_dp") /\ Free(I(p)) /\ UNCHANGED <<fsVars, cwd, fd, panic>>
      /\ \/ itable' = ilock(p, I(p)) /\ Then(p, UnlockPut("dp")) /\ ptr' = ptr
         \/ /\ next # 0 /\ itable' = iget(ilock(p, I(p)), next)
            /\ ptr' = [ptr EXCEPT ![p]["ip"] = next]
            /\ Then(p, << <<"unlink_ip", "ip">> >>)
  BY DEF UnlinkDp, others
<1>2. OthersRest(p) /\ cwd'[p] \in Inums /\ fd'[p] \in Inums \union {0}
  BY <1>1, RestStep, Places DEF FsInv, Ordered, Step
<1>3. "unlink_dp" \in LastOps /\ V(p) = "dp"
  BY <1>1, HeadKind, PtrOf DEF LastOps, OnDp
<1>4. FirmAt({<<"unlink_dp", V(p)>>}, V(p))
  BY <1>3 DEF FirmAt
<1>5. Pending(p) = {<<"unlink_dp", "dp">>} /\ I(p) = ptr[p]["dp"] /\ I(p) \in Inums
  BY <1>1, <1>3, <1>4, LastAimed
<1>6. DirAhead(Pending(p))
  BY <1>5 DEF DirAhead
<1>7. disk[I(p)].type = "dir"
  BY <1>5, <1>6 DEF Layout, Aimed, AimedAt
<1>8. next \in Inums \union {0}
  BY <1>5, <1>7, LookupIn DEF Layout, Forms
<1>9. PICK n : n = next
  OBVIOUS
<1> HIDE DEF next
<1>10. CASE itable' = ilock(p, I(p)) /\ Then(p, UnlockPut("dp")) /\ ptr' = ptr
  <2>1. Plan(UnlockPut("dp"), Unlocking("dp"))
    BY PlanUnlockPut DEF Ptrs
  <2>2. \A v \in Ptrs : Needs(Unlocking("dp"), v) => v = "dp"
    BY DEF Needs, UsedAt, Unlocking
  <2>3. /\ ~DirAhead(Unlocking("dp")) /\ <<"create_ip", "ip">> \notin Unlocking("dp")
        /\ \A v \in Ptrs : <<"free", v>> \notin Unlocking("dp")
    BY DEF DirAhead, Unlocking
  <2>4. \A v \in Ptrs : Needs(Unlocking("dp"), v) => ptr'[p][v] \in Inums
    BY <1>5, <1>10, <2>2
  <2> QED BY <1>1, <1>2, <1>3, <1>10, <2>1, <2>3, <2>4, GrowsLocked, LastLayout
<1>11. CASE /\ next # 0 /\ itable' = iget(ilock(p, I(p)), next)
            /\ ptr' = [ptr EXCEPT ![p]["ip"] = next]
            /\ Then(p, << <<"unlink_ip", "ip">> >>)
  <2> DEFINE A == {<<"unlink_ip", "ip">>}
  <2>1. Plan(<< <<"unlink_ip", "ip">> >>, A)
    BY PlanOf
  <2>2. \A v \in Ptrs : Needs(A, v) => v \in {"ip", "dp"}
    BY DEF Needs, UsedAt
  <2>3. ptr'[p]["ip"] \in Inums /\ ptr'[p]["dp"] = I(p)
    <3>1. ptr' = [ptr EXCEPT ![p]["ip"] = n] /\ n \in Inums
      BY <1>8, <1>9, <1>11
    <3> QED BY <1>5, <3>1, PtrOne
  <2>4. \A v \in Ptrs : Needs(A, v) => ptr'[p][v] \in Inums
    BY <1>5, <2>2, <2>3
  <2>5. disk[ptr'[p]["dp"]].type = "dir"
    BY <1>7, <2>3
  <2>6. Grows(itable, itable')
    BY <1>11, GrowsLocked, GrowsGot
  <2>7. <<"create_ip", "ip">> \notin A /\ \A v \in Ptrs : <<"free", v>> \notin A
    OBVIOUS
  <2> HIDE DEF A
  <2> QED BY <1>1, <1>2, <1>3, <1>11, <2>1, <2>4, <2>5, <2>6, <2>7, LastLayout
<1> QED BY <1>1, <1>10, <1>11

\* The steps on ip that take its lock.
LEMMA OnIpPlans ==
  /\ \A v \in Ptrs : Needs(Unlocking("ip"), v) => v = "ip"
  /\ \A op \in {"opened", "put"} : \A v \in Ptrs : Needs({<<op, "ip">>}, v) => v = "ip"
  /\ \A v \in Ptrs : Needs({<<"nlink", "ip">>} \union Unlocking("ip"), v) => v = "ip"
  /\ ~DirAhead(Unlocking("ip")) /\ ~DirAhead({<<"nlink", "ip">>} \union Unlocking("ip"))
  /\ \A op \in {"opened", "put"} : ~DirAhead({<<op, "ip">>})
BY DEF Needs, UsedAt, Unlocking, DirAhead

LEMMA OnIpLayout ==
  ASSUME FsInv, Layout, NEW p \in Procs, NEW op \in {"exists", "open_ip", "link_bad", "chdir_ip"}, At(p, op), Free(I(p)),
         Node(I(p)).type # "none" \/ op = "link_bad",
         NEW o \in Procs \union {NoProc}, itable' = ilock(o, I(p)), OthersRest(p), UNCHANGED <<fsVars, ptr, cwd, fd, panic>>,
         \/ Then(p, UnlockPut("ip")) \/ Then(p, << <<"opened", "ip">> >>) \/ Then(p, << <<"put", "ip">> >>)
         \/ Then(p, << <<"nlink", "ip">> >> \o UnlockPut("ip"))
  PROVE  Layout'
<1>1. cwd'[p] \in Inums /\ fd'[p] \in Inums \union {0} /\ Grows(itable, itable')
  BY Places, GrowsLocked
<1>2. op \in LastOps /\ op \in OnIp /\ V(p) = "ip"
  BY HeadKind, PtrOf DEF LastOps, OnIp
<1>3. Node(I(p)).type # "none" \/ FirmAt({<<op, V(p)>>}, V(p))
  BY <1>2 DEF FirmAt
<1>4. I(p) = ptr[p]["ip"] /\ I(p) \in Inums
  BY <1>2, <1>3, LastAimed
<1>5. PICK ops, A : /\ Plan(ops, A) /\ Then(p, ops)
                    /\ A \in {Unlocking("ip"), {<<"opened", "ip">>}, {<<"put", "ip">>}, {<<"nlink", "ip">>} \union Unlocking("ip")}
  <2>1. Plan(UnlockPut("ip"), Unlocking("ip")) /\ Plan(<< <<"opened", "ip">> >>, {<<"opened", "ip">>})
        /\ Plan(<< <<"put", "ip">> >>, {<<"put", "ip">>})
        /\ Plan(<< <<"nlink", "ip">> >> \o UnlockPut("ip"), {<<"nlink", "ip">>} \union Unlocking("ip"))
    BY PlanUnlockPut, PlanOf DEF Ptrs
  <2> QED BY <2>1
<1>6. \A v \in Ptrs : Needs(A, v) => v = "ip"
  BY <1>5, OnIpPlans
<1>7. ~DirAhead(A)
  BY <1>5, OnIpPlans
<1>8. <<"create_ip", "ip">> \notin A /\ \A v \in Ptrs : <<"free", v>> \notin A
  BY <1>5 DEF Unlocking
<1>9. \A v \in Ptrs : Needs(A, v) => ptr'[p][v] \in Inums
  BY <1>4, <1>6
<1> QED BY <1>1, <1>2, <1>5, <1>7, <1>8, <1>9, LastLayout

LEMMA TakeLayout ==
  ASSUME FsInv, Layout, NEW p \in Procs, Exists(p) \/ OpenIp(p) \/ LinkBad(p) PROVE Layout'
<1>1. OthersRest(p)
  BY RestStep DEF FsInv, Ordered, Step
<1>2. PICK op \in {"exists", "open_ip", "link_bad"} :
        /\ At(p, op) /\ Free(I(p)) /\ (Node(I(p)).type # "none" \/ op = "link_bad")
        /\ itable' = ilock(p, I(p)) /\ UNCHANGED <<fsVars, ptr, cwd, fd, panic>>
        /\ \/ Then(p, UnlockPut("ip")) \/ Then(p, << <<"opened", "ip">> >>)
           \/ Then(p, << <<"nlink", "ip">> >> \o UnlockPut("ip"))
  BY DEF Exists, OpenIp, LinkBad, others
<1> QED BY <1>1, <1>2, OnIpLayout

LEMMA ChdirIpLayout ==
  ASSUME FsInv, Layout, NEW p \in Procs, ChdirIp(p) PROVE Layout'
<1>1. OthersRest(p)
  BY RestStep DEF FsInv, Ordered, Step
<1>2. /\ At(p, "chdir_ip") /\ Free(I(p)) /\ Node(I(p)).type # "none"
      /\ itable' = ilock(NoProc, I(p)) /\ UNCHANGED <<fsVars, cwd, fd, panic>>
      /\ \/ Then(p, << <<"put", "ip">> >>) /\ ptr' = ptr
         \/ /\ ptr' = [ptr EXCEPT ![p]["x"] = cwd[p]]
            /\ Then(p, << <<"put", "x">>, <<"cwd", "ip">> >>)
  BY DEF ChdirIp, others
<1>3. CASE Then(p, << <<"put", "ip">> >>) /\ ptr' = ptr
  BY <1>1, <1>2, <1>3, OnIpLayout
<1>4. CASE /\ ptr' = [ptr EXCEPT ![p]["x"] = cwd[p]]
           /\ Then(p, << <<"put", "x">>, <<"cwd", "ip">> >>)
  <2> DEFINE A == {<<"put", "x">>, <<"cwd", "ip">>}
  <2>1. Plan(<< <<"put", "x">>, <<"cwd", "ip">> >>, A)
    BY PlanOf
  <2>2. "chdir_ip" \in LastOps /\ V(p) = "ip"
    BY <1>2, HeadKind, PtrOf DEF LastOps, OnIp
  <2>3. I(p) = ptr[p]["ip"] /\ I(p) \in Inums
    BY <1>2, <2>2, LastAimed
  <2>4. cwd'[p] \in Inums /\ fd'[p] \in Inums \union {0} /\ Grows(itable, itable')
    BY <1>2, Places, GrowsLocked
  <2>5. ptr'[p]["x"] \in Inums /\ ptr'[p]["ip"] = ptr[p]["ip"]
    <3>1. PICK n : n = cwd[p] /\ n \in Inums
      BY <1>2, <2>4
    <3>2. ptr' = [ptr EXCEPT ![p]["x"] = n]
      BY <1>4, <3>1
    <3> QED BY <3>1, <3>2, PtrOne
  <2>6. \A v \in Ptrs : Needs(A, v) => v \in {"x", "ip"}
    BY DEF Needs, UsedAt
  <2>7. \A v \in Ptrs : Needs(A, v) => ptr'[p][v] \in Inums
    BY <2>3, <2>5, <2>6
  <2>8. ~DirAhead(A) /\ <<"create_ip", "ip">> \notin A /\ \A v \in Ptrs : <<"free", v>> \notin A
    BY DEF DirAhead
  <2> HIDE DEF A
  <2> QED BY <1>1, <1>2, <1>4, <2>1, <2>2, <2>4, <2>7, <2>8, LastLayout
<1> QED BY <1>2, <1>3, <1>4

LEMMA NoNeeds == ~DirAhead({}) /\ \A v : ~Needs({}, v)
BY DEF DirAhead, Needs, UsedAt

LEMMA SetCwdLayout ==
  ASSUME FsInv, Layout, NEW p \in Procs, SetCwd(p) PROVE Layout'
<1>1. OthersRest(p)
  BY RestStep DEF FsInv, Ordered, Step
<1>2. /\ At(p, "cwd") /\ Then(p, <<>>) /\ cwd' = [cwd EXCEPT ![p] = I(p)] /\ UNCHANGED <<fsVars, itable, fd, panic>>
  BY DEF SetCwd
<1>3. V(p) = "ip" /\ I(p) = ptr[p]["ip"] /\ <<"cwd", "ip">> \in Pending(p)
  BY <1>2, HeadKind, PtrOf DEF I, OnIp
<1>4. ptr[p]["ip"] \in Inums
  <2>1. Needs(Pending(p), "ip") /\ "ip" \in Ptrs
    BY <1>3 DEF Needs, UsedAt, Ptrs
  <2> QED BY <2>1 DEF Layout, Aimed, AimedAt
<1>5. cwd'[p] \in Inums /\ fd'[p] \in Inums \union {0} /\ Grows(itable, itable')
  BY <1>2, <1>3, <1>4, GrowsSame DEF FsInv, FsTypes, Layout, Aimed
<1> QED BY <1>1, <1>2, <1>5, NoNeeds, PlanNone, LastLayout DEF LastOps

\* sys_open(), but for O_TRUNC.
LEMMA OpenedKeepLayout ==
  ASSUME FsInv, Layout, NEW p \in Procs, Opened(p), UNCHANGED fsVars PROVE Layout'
<1>1. OthersRest(p)
  BY RestStep DEF FsInv, Ordered, Step
<1>2. At(p, "opened") /\ UNCHANGED <<cwd, panic>> /\ "opened" \in LastOps
  BY DEF Opened, LastOps
<1>3. V(p) = "ip" /\ I(p) = ptr[p]["ip"] /\ <<"opened", "ip">> \in Pending(p)
  BY <1>2, HeadKind, PtrOf DEF I, OnIp
<1>4. ptr[p]["ip"] \in Inums
  <2>1. Needs(Pending(p), "ip") /\ "ip" \in Ptrs
    BY <1>3 DEF Needs, UsedAt, Ptrs
  <2> QED BY <2>1 DEF Layout, Aimed, AimedAt
<1>5. cwd[p] \in Inums /\ fd[p] \in Inums \union {0}
  BY DEF Layout, Aimed
<1>6. CASE Then(p, UnlockPut("ip")) /\ UNCHANGED <<itable, fd, ptr>>
  <2>1. Plan(UnlockPut("ip"), Unlocking("ip"))
    BY PlanUnlockPut DEF Ptrs
  <2>2. \A v \in Ptrs : Needs(Unlocking("ip"), v) => ptr'[p][v] \in Inums
    BY <1>4, <1>6, OnIpPlans
  <2>3. <<"create_ip", "ip">> \notin Unlocking("ip") /\ \A v \in Ptrs : <<"free", v>> \notin Unlocking("ip")
    BY DEF Unlocking
  <2> QED BY <1>1, <1>2, <1>5, <1>6, <2>1, <2>2, <2>3, OnIpPlans, GrowsSame, LastLayout
<1>7. CASE fd' = [fd EXCEPT ![p] = I(p)] /\ Then(p, <<>>) /\ Grows(itable, itable')
  <2>1. fd'[p] \in Inums \union {0}
    BY <1>3, <1>4, <1>7 DEF FsInv, FsTypes
  <2> QED BY <1>1, <1>2, <1>5, <1>7, <2>1, NoNeeds, PlanNone, LastLayout
<1>8. \/ Then(p, UnlockPut("ip")) /\ UNCHANGED <<itable, fd, ptr>>
      \/ fd' = [fd EXCEPT ![p] = I(p)] /\ Then(p, <<>>) /\ Grows(itable, itable')
  <2>1. CASE fd[p] # 0
    BY <2>1 DEF Opened
  <2>2. CASE fd[p] = 0
    <3>1. fd' = [fd EXCEPT ![p] = I(p)] /\ Then(p, <<>>)
      BY <2>2 DEF Opened
    <3>2. CASE itable' = [itable EXCEPT ![I(p)].lock = NoProc]
      BY <3>1, <3>2, GrowsSame, GrowsOwner
    <3>3. CASE itable' = [itable EXCEPT ![I(p)].node = [itable[I(p)].node EXCEPT !.addrs = NoBlocks],
                                        ![I(p)].lock = NoProc]
      <4>1. PICK i, n : i = I(p) /\ i \in Inums /\ n = [itable[I(p)].node EXCEPT !.addrs = NoBlocks] /\ IsNode(n)
        <5>1. PICK m : m = itable[I(p)].node /\ IsNode(m)
          BY <1>3, <1>4 DEF FsInv, FsTypes, IsTable, IsEntry
        <5>2. IsNode([m EXCEPT !.addrs = NoBlocks])
          BY <5>1, NodeFields
        <5> QED BY <1>3, <1>4, <5>1, <5>2
      <4>2. Grows(itable, [itable EXCEPT ![i].node = n])
        BY <4>1, GrowsSame, GrowsNode
      <4>3. PICK u : u = [itable EXCEPT ![i].node = n] /\ Grows(itable, u)
        BY <4>2
      <4>4. Grows(itable, [u EXCEPT ![i].lock = NoProc])
        BY <4>3, GrowsOwner
      <4>5. itable' = [u EXCEPT ![i].lock = NoProc]
        BY <3>3, <4>1, <4>3 DEF FsInv, FsTypes, IsTable
      <4> QED BY <3>1, <4>4, <4>5
    <3>4. \/ itable' = [itable EXCEPT ![I(p)].lock = NoProc]
          \/ itable' = [itable EXCEPT ![I(p)].node = [itable[I(p)].node EXCEPT !.addrs = NoBlocks],
                                      ![I(p)].lock = NoProc]
      BY <2>2 DEF Opened
    <3> QED BY <3>2, <3>3, <3>4
  <2> QED BY <2>1, <2>2
<1> QED BY <1>6, <1>7, <1>8

LEMMA CloseLayout ==
  ASSUME FsInv, Layout, NEW p \in Procs, Close(p) PROVE Layout'
<1>1. OthersRest(p)
  BY RestStep DEF FsInv, Ordered
<1>2. /\ NextCall(p, {"close"}) /\ fd' = [fd EXCEPT ![p] = 0] /\ ptr' = [ptr EXCEPT ![p]["ip"] = fd[p]]
      /\ Only(p, IF fd[p] = 0 THEN <<>> ELSE << <<"put", "ip">> >>) /\ UNCHANGED <<fsVars, itable, cwd, panic>>
  BY DEF Close
<1>3. cwd'[p] \in Inums /\ fd'[p] \in Inums \union {0} /\ fd[p] \in Inums \union {0}
  BY <1>2 DEF Layout, Aimed, FsInv, FsTypes
<1>4. PICK L : /\ L = (IF fd[p] = 0 THEN {} ELSE {<<"put", "ip">>}) /\ Pending(p)' = L
  <2>1. fd[p] = 0 => Pending(p)' = {}
    BY <1>2, PlanNone, OnlyTurn
  <2>2. fd[p] # 0 => Pending(p)' = {<<"put", "ip">>}
    BY <1>2, PlanOf, OnlyTurn DEF Ptrs
  <2> QED BY <2>1, <2>2
<1>5. ptr'[p]["ip"] = fd[p]
  <2>1. PICK n : n = fd[p] /\ ptr' = [ptr EXCEPT ![p]["ip"] = n]
    BY <1>2
  <2> QED BY <2>1, PtrOne
<1>6. \A v \in Ptrs : Needs(L, v) => ptr'[p][v] \in Inums
  BY <1>3, <1>4, <1>5, NoNeeds, OnIpPlans
<1>7. ~DirAhead(L) /\ <<"create_ip", "ip">> \notin L /\ \A v \in Ptrs : <<"free", v>> \notin L
  BY <1>4, NoNeeds, OnIpPlans
<1> QED BY <1>1, <1>2, <1>3, <1>4, <1>6, <1>7, GrowsSame, SameLayout

LEMMA CallLayout ==
  ASSUME FsInv, Layout, NEW p \in Procs, Call(p) PROVE Layout'
<1> DEFINE r    == Head(rest[p])
           from == From(p, r.path)
<1>1. /\ NextCall(p, Calls) /\ itable' = iget(itable, from)
      /\ ptr' = [ptr EXCEPT ![p][First(r)] = from] /\ Only(p, Steps(r))
      /\ UNCHANGED <<fsVars, cwd, fd, panic>>
  BY DEF Call
<1>2. OthersRest(p)
  BY RestStep DEF FsInv, Ordered
<1>3. r \in Requests /\ r.op \in Calls
  BY <1>1, NextCallAt
<1>4. PICK c, u, n : c = r /\ u = First(r) /\ n = from
  OBVIOUS
<1>5. PICK L : Plan(Steps(c), L) /\ Begins(L, c, u)
  BY <1>3, <1>4, CallPlan
<1>6. Pending(p)' = L
  BY <1>1, <1>4, <1>5, OnlyTurn
<1>7. cwd'[p] \in Inums /\ fd'[p] \in Inums \union {0}
  BY <1>1, Places
<1>8. n \in Inums
  BY <1>1, <1>4, <1>7, FsAssumption DEF From, Root
<1> HIDE DEF r, from
<1>9. u \in Ptrs /\ ptr'[p][u] = n
  <2>1. u \in Ptrs /\ ptr' = [ptr EXCEPT ![p][u] = n]
    BY <1>1, <1>4, <1>5 DEF Begins
  <2> QED BY <2>1, PtrSet DEF FsInv
<1>10. \A v \in Ptrs : Needs(L, v) => v = u
  BY <1>5 DEF Begins, Needs, LockedAt
<1>11. ~DirAhead(L) /\ <<"create_ip", "ip">> \notin L /\ \A v \in Ptrs : <<"free", v>> \notin L
  <2>1. ~FirmAt(L, "dp") /\ \A v \in Ptrs : ~FreedAt(L, v)
    BY <1>5 DEF Begins, Ptrs
  <2> QED BY <2>1 DEF FirmAt, FreedAt, DirAhead
<1>12. Grows(itable, itable')
  BY <1>1, GrowsSame, GrowsGot
<1>13. \A v \in Ptrs : Needs(L, v) => ptr'[p][v] \in Inums
  BY <1>8, <1>9, <1>10
<1> QED BY <1>1, <1>2, <1>6, <1>7, <1>11, <1>12, <1>13, SameLayout

-----------------------------------------------------------------------------
(* Steps that write inodes.                                                *)

\* Each inode of d has blocks of B of its own.
Owned(d, B) ==
  /\ \A i \in Inums : OwnBlocks(d[i].addrs) /\ Range(d[i].addrs) \subseteq B
  /\ \A i, j \in Inums : i # j => Range(d[i].addrs) \intersect Range(d[j].addrs) = {}

LEMMA OwnedSame ==
  ASSUME NEW d, NEW e, NEW B, Owned(d, B), \A j \in Inums : e[j].addrs = d[j].addrs
  PROVE  Owned(e, B)
BY DEF Owned

\* An inode takes blocks that were free; it gives its blocks back.
LEMMA OwnedTake ==
  ASSUME NEW d, NEW e, NEW B, Owned(d, B), NEW i \in Inums, \A j \in Inums : j # i => e[j].addrs = d[j].addrs,
         OwnBlocks(e[i].addrs), \A x \in Range(e[i].addrs) : x \in Range(d[i].addrs) \/ x \notin B
  PROVE  Owned(e, B \union Range(e[i].addrs))
<1>1. \A j \in Inums : OwnBlocks(e[j].addrs) /\ Range(e[j].addrs) \subseteq B \union Range(e[i].addrs)
  BY DEF Owned
<1>2. ASSUME NEW j \in Inums, j # i PROVE Range(e[i].addrs) \intersect Range(e[j].addrs) = {}
  <2>1. /\ Range(e[j].addrs) \subseteq B /\ Range(d[i].addrs) \intersect Range(e[j].addrs) = {}
    BY <1>2 DEF Owned
  <2> QED BY <2>1
<1>3. ASSUME NEW j \in Inums, NEW k \in Inums, j # k PROVE Range(e[j].addrs) \intersect Range(e[k].addrs) = {}
  <2>1. CASE j = i
    BY <1>2, <1>3, <2>1
  <2>2. CASE k = i
    BY <1>2, <1>3, <2>2
  <2>3. CASE j # i /\ k # i
    BY <1>3, <2>3 DEF Owned
  <2> QED BY <2>1, <2>2, <2>3
<1> QED BY <1>1, <1>3 DEF Owned

LEMMA OwnedGive ==
  ASSUME NEW d, NEW e, NEW B, Owned(d, B), NEW i \in Inums, \A j \in Inums : j # i => e[j].addrs = d[j].addrs,
         e[i].addrs = NoBlocks
  PROVE  Owned(e, B \ Range(d[i].addrs))
<1>1. OwnBlocks(NoBlocks) /\ Range(NoBlocks) = {}
  BY EmptyOwn DEF NoBlocks
<1> QED BY <1>1 DEF Owned

\* A step of p that writes inodes, but makes and frees none, and goes on with the plan L.
LEMMA DiskLayout ==
  ASSUME FsInv, Layout, NEW p \in Procs, OthersRest(p), panic' = panic, Grows(itable, itable'),
         \A j \in Inums : disk'[j].type = disk[j].type, Owned(disk', bitmap'), DOMAIN data' = Inums,
         \A j \in Inums : \/ data'[j] = data[j] \/ disk[j].type = "file"
                          \/ disk[j].type = "dir" /\ Contents(data'[j]),
         cwd'[p] \in Inums, fd'[p] \in Inums \union {0}, NEW L, Pending(p)' = L,
         \A v \in Ptrs : Needs(L, v) => ptr'[p][v] \in Inums,
         DirAhead(L) => ptr'[p]["dp"] \in Inums /\ disk[ptr'[p]["dp"]].type = "dir",
         <<"create_ip", "ip">> \notin L, \A v \in Ptrs : <<"free", v>> \notin L
  PROVE  Layout'
<1>1. Aimed(p)' /\ MadeSame(p)
  BY DEF Aimed, AimedAt, MadeSame
<1>2. MadeKept'
  BY <1>1, MadeKeptStep DEF Layout
<1>3. ValidKept(p) /\ TypesKept(p)
  BY ValidGrown DEF TypesKept
<1>4. \A j \in Inums : OwnBlocks(disk'[j].addrs)
  BY DEF Owned
<1>5. Forms'
  BY <1>4 DEF Layout, Forms
<1>6. BlocksOwned'
  BY DEF Owned, Layout, BlocksOwned
<1> QED BY <1>1, <1>2, <1>3, <1>5, <1>6, LayoutStep

\* dirlink(): what it does to the contents and the blocks of a directory.
LEMMA dirlinkOf ==
  ASSUME NEW ents, Contents(ents), NEW addrs, OwnBlocks(addrs), NEW used, NEW name, NEW i \in Inums
  PROVE  LET r == dirlink(ents, addrs, used, name, i) IN
           Adds(addrs, r.addrs, used) /\ r.used = used \union Range(r.addrs) /\ Contents(r.ents)
<1>1. PICK k : k = Where(ents) /\ k \in 1..(Len(ents) + 1)
  BY WhereIn DEF Contents
<1>2. PICK n : n = (k - 1) \div PerBlock + 1
  OBVIOUS
<1>3. PICK as : as = (IF n <= MAXFILE THEN Grown(addrs, used, n) ELSE addrs)
  OBVIOUS
<1>4. PICK t : t = (IF Fits(as, n) THEN Entered(ents, k, name, i) ELSE ents)
  OBVIOUS
<1>5. dirlink(ents, addrs, used, name, i) = [ok |-> Fits(as, n), addrs |-> as, used |-> used \union Range(as), ents |-> t]
  BY <1>1, <1>2, <1>3, <1>4 DEF dirlink, Entered
<1>6. Adds(addrs, as, used)
  BY <1>3, GrownAdds, AddsNone
<1>7. Contents(t)
  BY <1>1, <1>4, EnteredContents
<1> QED BY <1>5, <1>6, <1>7

\* The contents of a new inode.
LEMMA NewOf ==
  ASSUME NEW i \in Inums, NEW d \in Inums, NEW dir, NEW used
  PROVE  LET r == NewContents(i, d, dir, used) IN
           Adds(NoBlocks, r.addrs, used) /\ r.used = used \union Range(r.addrs) /\ Contents(r.ents)
<1>0. OwnBlocks(NoBlocks) /\ Range(NoBlocks) = {} /\ Contents(<<>>) /\ Adds(NoBlocks, NoBlocks, used)
  BY EmptyOwn, AddsNone DEF NoBlocks
<1>1. CASE ~dir
  <2>1. NewContents(i, d, dir, used) = [ok |-> TRUE, ents |-> <<>>, addrs |-> NoBlocks, used |-> used]
    BY <1>1 DEF NewContents
  <2> QED BY <1>0, <2>1
<1>2. CASE ~(~dir)
  <2>1. PICK f : f = dirlink(<<>>, NoBlocks, used, ".", i)
    OBVIOUS
  <2>2. Adds(NoBlocks, f.addrs, used) /\ f.used = used \union Range(f.addrs) /\ Contents(f.ents)
    BY <1>0, <2>1, dirlinkOf
  <2>3. NewContents(i, d, dir, used) = dirlink2(f, "..", d)
    BY <1>2, <2>1 DEF NewContents
  <2>4. CASE ~f.ok
    BY <2>2, <2>3, <2>4 DEF dirlink2
  <2>5. CASE ~(~f.ok)
    <3>1. PICK g : g = dirlink(f.ents, f.addrs, f.used, "..", d)
      OBVIOUS
    <3>2. Adds(f.addrs, g.addrs, f.used) /\ g.used = f.used \union Range(g.addrs) /\ Contents(g.ents)
      BY <2>2, <3>1, dirlinkOf DEF Adds
    <3>3. Adds(f.addrs, g.addrs, used)
      BY <2>2, <3>2 DEF Adds
    <3>4. Adds(NoBlocks, g.addrs, used)
      BY <2>2, <3>3, AddsMore
    <3>5. g.used = used \union Range(g.addrs)
      BY <2>2, <3>2 DEF Adds
    <3>6. NewContents(i, d, dir, used) = g
      BY <2>3, <2>5, <3>1 DEF dirlink2
    <3> QED BY <3>2, <3>4, <3>5, <3>6
  <2> QED BY <2>4, <2>5
<1> QED BY <1>1, <1>2

\* The entry of the new inode in its directory, of addresses a.
LEMMA EnterOf ==
  ASSUME NEW ents, Contents(ents), NEW a, OwnBlocks(a), NEW used, Range(a) \subseteq used,
         NEW ok, NEW name, NEW i \in Inums
  PROVE  LET r == dirlink2([ok |-> ok, ents |-> ents, addrs |-> a, used |-> used], name, i) IN
           Adds(a, r.addrs, used) /\ r.used = used \union Range(r.addrs) /\ Contents(r.ents)
<1>1. PICK s : s = [ok |-> ok, ents |-> ents, addrs |-> a, used |-> used]
  OBVIOUS
<1>2. s.ok = ok /\ s.ents = ents /\ s.addrs = a /\ s.used = used
  BY <1>1, Zenon
<1>3. CASE ~ok
  <2>1. dirlink2(s, name, i) = s
    BY <1>2, <1>3 DEF dirlink2
  <2> QED BY <1>1, <1>2, <2>1, AddsNone
<1>4. CASE ~(~ok)
  <2>1. dirlink2(s, name, i) = dirlink(ents, a, used, name, i)
    BY <1>2, <1>4 DEF dirlink2
  <2> QED BY <1>1, <2>1, dirlinkOf
<1> QED BY <1>3, <1>4

LEMMA NodeWith ==
  ASSUME NEW n, IsNode(n), NEW x
  PROVE  /\ IsNode([n EXCEPT !.nlink = x]) /\ [n EXCEPT !.nlink = x].type = n.type /\ [n EXCEPT !.nlink = x].addrs = n.addrs
         /\ IsNode([n EXCEPT !.addrs = x]) /\ [n EXCEPT !.addrs = x].type = n.type /\ [n EXCEPT !.addrs = x].addrs = x
<1>1. PICK t, l, a : n = [type |-> t, nlink |-> l, addrs |-> a]
  BY DEF IsNode
<1>2. n.type = t /\ n.nlink = l /\ n.addrs = a
  BY <1>1
<1>3. PICK m : m = [n EXCEPT !.nlink = x]
  OBVIOUS
<1>4. m = [type |-> t, nlink |-> x, addrs |-> a]
  BY <1>1, <1>3
<1>5. IsNode(m) /\ m.type = t /\ m.addrs = a
  BY <1>4 DEF IsNode
<1>6. PICK k : k = [n EXCEPT !.addrs = x]
  OBVIOUS
<1>7. k = [type |-> t, nlink |-> l, addrs |-> x]
  BY <1>1, <1>6
<1>8. IsNode(k) /\ k.type = t /\ k.addrs = x
  BY <1>7 DEF IsNode
<1> QED BY <1>2, <1>3, <1>5, <1>6, <1>8

\* The disk when inode i, of the same type, is n.
LEMMA DiskSet ==
  ASSUME FsInv, NEW i \in Inums, NEW n, disk' = [disk EXCEPT ![i] = n], n.type = disk[i].type
  PROVE  /\ disk'[i] = n /\ \A j \in Inums : j # i => disk'[j] = disk[j]
         /\ \A j \in Inums : disk'[j].type = disk[j].type
BY DEF FsInv, FsTypes, IsDisk

LEMMA NlinkLayout ==
  ASSUME FsInv, Layout, NEW p \in Procs, Nlink(p) PROVE Layout'
<1> DEFINE i == I(p)
           n == [itable[i].node EXCEPT !.nlink = @ - 1]
<1>1. /\ At(p, "nlink") /\ Then(p, <<>>)
      /\ itable' = [itable EXCEPT ![i].node = n] /\ disk' = [disk EXCEPT ![i] = n]
      /\ UNCHANGED <<data, bitmap, ptr, cwd, fd, panic>>
  BY DEF Nlink, others
<1>2. OthersRest(p) /\ cwd'[p] \in Inums /\ fd'[p] \in Inums \union {0}
  BY <1>1, RestStep, Places DEF FsInv, Ordered, Step
<1>3. PICK T \in SUBSET KindSet : /\ Pending(p) = {<<"nlink", V(p)>>} \union T
                                  /\ \A b \in T : Before(<<"nlink", V(p)>>, b)
                                  /\ Pending(p)' = {} \union T
  BY <1>1, PlanNone, Proceed
<1>4. V(p) = "ip" /\ "ip" \in Ptrs
  BY <1>1, HeadKind, PtrOf DEF OnIp, Ptrs
<1>5. i = ptr[p]["ip"] /\ Needs(Pending(p), "ip") /\ FirmAt(Pending(p), "ip")
  BY <1>3, <1>4 DEF I, Needs, FirmAt
<1>6. i \in Inums
  BY <1>4, <1>5 DEF Layout, Aimed, AimedAt
<1>7. PICK m, l : m = disk[i] /\ itable[i].node = m /\ IsNode(m) /\ l = m.nlink - 1
  BY <1>4, <1>5, <1>6, FirmSound DEF Sound, FsInv, FsTypes, IsDisk
<1>8. n = [m EXCEPT !.nlink = l]
  BY <1>7
<1>9. IsNode(n) /\ n.type = m.type /\ n.addrs = m.addrs
  <2> HIDE DEF n, i
  <2>0. IsNode(m)
    BY <1>7
  <2>1. /\ IsNode([m EXCEPT !.nlink = l]) /\ [m EXCEPT !.nlink = l].type = m.type
        /\ [m EXCEPT !.nlink = l].addrs = m.addrs
    BY <2>0, NodeWith
  <2> QED BY <1>8, <2>1
<1> HIDE DEF n, i
<1>10. /\ \A j \in Inums : disk'[j].type = disk[j].type
       /\ \A j \in Inums : disk'[j].addrs = disk[j].addrs
  <2>1. /\ disk'[i] = n /\ \A j \in Inums : j # i => disk'[j] = disk[j]
        /\ \A j \in Inums : disk'[j].type = disk[j].type
    BY <1>1, <1>6, <1>7, <1>9, DiskSet
  <2> QED BY <1>7, <1>9, <2>1
<1>11. Owned(disk', bitmap') /\ DOMAIN data' = Inums
  <2>1. Owned(disk, bitmap)
    BY DEF Layout, BlocksOwned, Owned
  <2>2. Owned(disk', bitmap)
    BY <1>10, <2>1, OwnedSame
  <2> QED BY <1>1, <2>2 DEF Layout, Forms
<1>12. Grows(itable, itable')
  BY <1>1, <1>9, GrowsSame, GrowsNode
<1>13. \A b \in T : Before(<<"nlink", "ip">>, b)
  BY <1>3, <1>4
<1>14. <<"create_ip", "ip">> \notin T /\ <<"unlink_ip", "ip">> \notin T /\ \A w : <<"free", w>> \notin T
  BY <1>13, NoneAhead
<1>15. \A w \in Ptrs : Needs(T, w) => Needs(Pending(p), w)
  BY <1>3 DEF Needs, UsedAt
<1>16. DirAhead(T) => DirAhead(Pending(p)) /\ Needs(Pending(p), "dp")
  BY <1>3, <1>4, <1>14 DEF DirAhead, Needs, UsedAt
<1>17. \A w \in Ptrs : Needs(T, w) => ptr'[p][w] \in Inums
  BY <1>1, <1>15 DEF Layout, Aimed, AimedAt
<1>18. DirAhead(T) => ptr'[p]["dp"] \in Inums /\ disk[ptr'[p]["dp"]].type = "dir"
  BY <1>1, <1>16 DEF Layout, Aimed, AimedAt, Ptrs
<1>19. Pending(p)' = T /\ \A j \in Inums : data'[j] = data[j]
  BY <1>1, <1>3
<1> QED BY <1>1, <1>2, <1>10, <1>11, <1>12, <1>14, <1>17, <1>18, <1>19, DiskLayout

LEMMA LinkIpLayout ==
  ASSUME FsInv, Layout, NEW p \in Procs, LinkIp(p) PROVE Layout'
<1> DEFINE i   == I(p)
           up  == [Node(i) EXCEPT !.nlink = @ + 1]
           d   == From(p, call[p].new)
           ops == nameiparent("dp", call[p].new) \o << <<"link_dp", "dp">> >>
<1>1. /\ At(p, "link_ip") /\ Free(i) /\ Node(i).type # "none" /\ UNCHANGED <<data, bitmap, cwd, fd, panic>>
      /\ \/ itable' = ilock(NoProc, i) /\ Only(p, << <<"put", "ip">> >>) /\ disk' = disk
         \/ /\ disk'   = [disk EXCEPT ![i] = up]
            /\ itable' = iget([ilock(NoProc, i) EXCEPT ![i].node = up], d)
            /\ ptr'    = [ptr EXCEPT ![p]["dp"] = d]
            /\ Only(p, ops)
      /\ disk' = disk => ptr' = ptr \/ ptr' = [ptr EXCEPT ![p]["dp"] = d]
  BY DEF LinkIp, others
<1>2. OthersRest(p) /\ cwd'[p] \in Inums /\ fd'[p] \in Inums \union {0}
  BY <1>1, RestStep, Places DEF FsInv, Ordered, Step
<1>3. V(p) = "ip" /\ "ip" \in Ptrs /\ "link_ip" \in LastOps
  BY <1>1, HeadKind, PtrOf DEF OnIp, Ptrs, LastOps
<1>4. i = ptr[p]["ip"] /\ i \in Inums /\ Node(i) = disk[i] /\ Pending(p) = {<<"link_ip", "ip">>}
  BY <1>1, <1>3, LastAimed
<1>5. PICK m, l : m = disk[i] /\ Node(i) = m /\ IsNode(m) /\ l = m.nlink + 1
  BY <1>4 DEF FsInv, FsTypes, IsDisk
<1>6. up = [m EXCEPT !.nlink = l]
  BY <1>5
<1>7. IsNode(up) /\ up.type = m.type /\ up.addrs = m.addrs
  <2> HIDE DEF up, i, d, ops
  <2>0. IsNode(m)
    BY <1>5
  <2>1. /\ IsNode([m EXCEPT !.nlink = l]) /\ [m EXCEPT !.nlink = l].type = m.type
        /\ [m EXCEPT !.nlink = l].addrs = m.addrs
    BY <2>0, NodeWith
  <2> QED BY <1>6, <2>1
<1>8. call[p].op = "link" /\ call[p].new \in Named
  <2>1. Linked(Pending(p), call[p]) /\ call[p] \in Requests \union {NoCall}
    BY DEF FsInv, Ordered, FsTypes
  <2>2. call[p].op = "link"
    BY <1>4, <2>1 DEF Linked
  <2> QED BY <2>1, <2>2, RequestOf DEF NoCall
<1>9. d \in Inums
  BY <1>1, <1>2, FsAssumption DEF From, Root
<1>10. Owned(disk, bitmap) /\ DOMAIN data = Inums
  BY DEF Layout, BlocksOwned, Owned, Forms
<1>11. PICK n : n = d
  OBVIOUS
<1> HIDE DEF d, ops, up, i
<1>12. CASE itable' = ilock(NoProc, i) /\ Only(p, << <<"put", "ip">> >>) /\ disk' = disk
  <2>1. Pending(p)' = {<<"put", "ip">>}
    BY <1>1, <1>3, <1>12, PlanOf, LastStep
  <2>2. ptr'[p]["ip"] = i
    BY <1>1, <1>4, <1>11, <1>12, PtrOne
  <2>3. \A w \in Ptrs : Needs({<<"put", "ip">>}, w) => ptr'[p][w] \in Inums
    BY <1>4, <2>2, OnIpPlans
  <2>4. Grows(itable, itable')
    BY <1>12, GrowsLocked
  <2>5. UNCHANGED <<fsVars, panic>>
    BY <1>1, <1>12 DEF fsVars
  <2>6. /\ ~DirAhead({<<"put", "ip">>}) /\ <<"create_ip", "ip">> \notin {<<"put", "ip">>}
        /\ \A w \in Ptrs : <<"free", w>> \notin {<<"put", "ip">>}
    BY OnIpPlans
  <2> QED BY <1>2, <2>1, <2>3, <2>4, <2>5, <2>6, SameLayout
<1>13. CASE /\ disk'   = [disk EXCEPT ![i] = up]
            /\ itable' = iget([ilock(NoProc, i) EXCEPT ![i].node = up], d)
            /\ ptr'    = [ptr EXCEPT ![p]["dp"] = d]
            /\ Only(p, ops)
  <2>1. PICK W \in SUBSET {<<"walk", "dp">>} :
          Plan(ops, (W \union {<<"parent", "dp">>}) \union {<<"link_dp", "dp">>})
    BY <1>8, PlanParent DEF ops
  <2>2. PICK L : L = (W \union {<<"parent", "dp">>}) \union {<<"link_dp", "dp">>} /\ Pending(p)' = L
    BY <1>13, <2>1, OnlyTurn
  <2>3. ptr'[p]["dp"] \in Inums /\ ptr'[p]["ip"] = i
    <3>1. ptr' = [ptr EXCEPT ![p]["dp"] = n] /\ n \in Inums
      BY <1>9, <1>11, <1>13
    <3> QED BY <1>4, <3>1, PtrOne
  <2>4. \A w \in Ptrs : Needs(L, w) => w \in {"ip", "dp"}
    BY <2>2 DEF Needs, UsedAt
  <2>5. \A w \in Ptrs : Needs(L, w) => ptr'[p][w] \in Inums
    BY <1>4, <2>3, <2>4
  <2>6. ~DirAhead(L) /\ <<"create_ip", "ip">> \notin L /\ \A w \in Ptrs : <<"free", w>> \notin L
    BY <2>2 DEF DirAhead
  <2>7. Grows(itable, itable')
    <3>1. Grows(itable, ilock(NoProc, i))
      BY GrowsLocked
    <3>2. Grows(itable, [ilock(NoProc, i) EXCEPT ![i].node = up])
      BY <1>7, <3>1, GrowsNode
    <3> QED BY <1>13, <3>2, GrowsGot
  <2>8. /\ \A j \in Inums : disk'[j].type = disk[j].type
        /\ \A j \in Inums : disk'[j].addrs = disk[j].addrs
    <3>1. /\ disk'[i] = up /\ \A j \in Inums : j # i => disk'[j] = disk[j]
          /\ \A j \in Inums : disk'[j].type = disk[j].type
      BY <1>4, <1>5, <1>7, <1>13, DiskSet
    <3> QED BY <1>5, <1>7, <3>1
  <2>9. Owned(disk', bitmap')
    <3>1. Owned(disk', bitmap)
      BY <1>10, <2>8, OwnedSame
    <3> QED BY <1>1, <3>1
  <2>10. DOMAIN data' = Inums /\ \A j \in Inums : data'[j] = data[j]
    BY <1>1, <1>10
  <2> QED BY <1>1, <1>2, <2>2, <2>5, <2>6, <2>7, <2>8, <2>9, <2>10, DiskLayout
<1> QED BY <1>1, <1>12, <1>13

LEMMA WriteLayout ==
  ASSUME FsInv, Layout, NEW p \in Procs, Write(p) PROVE Layout'
<1> DEFINE i  == fd[p]
           n  == Len(data[i]) + 1
           as == IF n <= MAXFILE THEN Grown(Node(i).addrs, bitmap, n) ELSE Node(i).addrs
           nd == [Node(i) EXCEPT !.addrs = as]
<1>1. /\ NextCall(p, {"write"}) /\ (i # 0 => Free(i)) /\ UNCHANGED <<cwd, fd, todo, ptr, panic>>
      /\ \/ UNCHANGED <<fsVars, itable>>
         \/ /\ i # 0 /\ Node(i).type = "file"
            /\ itable' = [ilock(NoProc, i) EXCEPT ![i].node = nd] /\ disk' = [disk EXCEPT ![i] = nd]
            /\ bitmap' = bitmap \union Range(as)
            /\ data' = data \/ data' = [data EXCEPT ![i] = Append(@, "block")]
  BY DEF Write
<1>2. OthersRest(p) /\ cwd'[p] \in Inums /\ fd'[p] \in Inums \union {0}
  BY <1>1, RestStep, Places DEF FsInv, Ordered
<1>3. Pending(p)' = {}
  <2>1. Pending(p) = {}
    BY <1>1, NextCallAt
  <2> QED BY <1>1, <2>1 DEF Pending
<1>4. CASE UNCHANGED <<fsVars, itable>>
  BY <1>1, <1>2, <1>3, <1>4, NoNeeds, GrowsSame, SameLayout
<1>5. CASE /\ i # 0 /\ Node(i).type = "file"
           /\ itable' = [ilock(NoProc, i) EXCEPT ![i].node = nd] /\ disk' = [disk EXCEPT ![i] = nd]
           /\ bitmap' = bitmap \union Range(as)
           /\ data' = data \/ data' = [data EXCEPT ![i] = Append(@, "block")]
  <2>1. i \in Inums /\ Free(i)
    BY <1>1, <1>2, <1>5
  <2>2. PICK m : m = disk[i] /\ Node(i) = m /\ IsNode(m)
    BY <2>1, NodeOnDisk DEF FsInv, FsTypes, IsDisk
  <2>3. Owned(disk, bitmap) /\ DOMAIN data = Inums /\ OwnBlocks(m.addrs)
    BY <2>1, <2>2 DEF Layout, BlocksOwned, Owned, Forms
  <2>4. PICK a : a = as
    OBVIOUS
  <2>5. Adds(m.addrs, a, bitmap)
    BY <2>2, <2>3, <2>4, GrownAdds, AddsNone
  <2> HIDE DEF as
  <2>6. IsNode(nd) /\ nd.type = m.type /\ nd.addrs = a
    <3>1. /\ IsNode([m EXCEPT !.addrs = a]) /\ [m EXCEPT !.addrs = a].type = m.type
          /\ [m EXCEPT !.addrs = a].addrs = a
      BY <2>2, NodeWith
    <3>2. nd = [m EXCEPT !.addrs = a]
      BY <2>2, <2>4
    <3> HIDE DEF nd
    <3> QED BY <3>1, <3>2
  <2> HIDE DEF nd, i
  <2>7. /\ disk'[i] = nd /\ \A j \in Inums : j # i => disk'[j] = disk[j]
        /\ \A j \in Inums : disk'[j].type = disk[j].type
    BY <1>5, <2>1, <2>2, <2>6, DiskSet
  <2>8. Owned(disk', bitmap')
    <3>1. OwnBlocks(a) /\ \A x \in Range(a) : x \in Range(m.addrs) \/ x \notin bitmap
      BY <2>5 DEF Adds
    <3>2. Owned(disk', bitmap \union Range(disk'[i].addrs))
      BY <2>1, <2>2, <2>3, <2>6, <2>7, <3>1, OwnedTake
    <3> QED BY <1>5, <2>4, <2>6, <2>7, <3>2
  <2>9. Grows(itable, itable')
    <3>1. Grows(itable, ilock(NoProc, i))
      BY GrowsLocked
    <3> QED BY <1>5, <2>6, <3>1, GrowsNode
  <2>10. DOMAIN data' = Inums /\ \A j \in Inums : data'[j] = data[j] \/ disk[j].type = "file"
    <3>1. \A j \in Inums : j # i => data'[j] = data[j]
      BY <1>5, <2>3
    <3> QED BY <1>5, <2>1, <2>2, <2>3, <3>1
  <2> QED BY <1>1, <1>2, <1>3, <2>7, <2>8, <2>9, <2>10, NoNeeds, DiskLayout
<1> QED BY <1>1, <1>4, <1>5

\* O_TRUNC.
LEMMA OpenedLayout ==
  ASSUME FsInv, Layout, NEW p \in Procs, Opened(p) PROVE Layout'
<1> DEFINE i   == I(p)
           cut == [itable[i].node EXCEPT !.addrs = NoBlocks]
<1>1. CASE UNCHANGED fsVars
  BY <1>1, OpenedKeepLayout
<1>2. CASE ~UNCHANGED fsVars
  <2>1. /\ At(p, "opened") /\ UNCHANGED <<cwd, panic>> /\ fd' = [fd EXCEPT ![p] = i] /\ Then(p, <<>>)
        /\ itable[i].node.type = "file" /\ bitmap' = bitmap \ Range(itable[i].node.addrs)
        /\ disk' = [disk EXCEPT ![i] = cut] /\ data' = [data EXCEPT ![i] = <<>>]
        /\ itable' = [itable EXCEPT ![i].node = cut, ![i].lock = NoProc]
    BY <1>2 DEF Opened
  <2>2. OthersRest(p)
    BY RestStep DEF FsInv, Ordered, Step
  <2>3. V(p) = "ip" /\ "ip" \in Ptrs /\ <<"opened", "ip">> \in Pending(p) /\ "opened" \in LastOps
    BY <2>1, HeadKind, PtrOf DEF OnIp, Ptrs, LastOps
  <2>4. i = ptr[p]["ip"] /\ Needs(Pending(p), "ip") /\ FirmAt(Pending(p), "ip")
    BY <2>3 DEF I, Needs, UsedAt, FirmAt
  <2>5. i \in Inums
    BY <2>3, <2>4 DEF Layout, Aimed, AimedAt
  <2>6. PICK m : m = disk[i] /\ itable[i].node = m /\ IsNode(m) /\ m.type = "file"
    BY <2>1, <2>3, <2>4, <2>5, FirmSound DEF Sound, FsInv, FsTypes, IsDisk
  <2>7. IsNode(cut) /\ cut.type = m.type /\ cut.addrs = NoBlocks
    <3>1. cut = [m EXCEPT !.addrs = NoBlocks]
      BY <2>6
    <3>2. /\ IsNode([m EXCEPT !.addrs = NoBlocks]) /\ [m EXCEPT !.addrs = NoBlocks].type = m.type
          /\ [m EXCEPT !.addrs = NoBlocks].addrs = NoBlocks
      BY <2>6, NodeWith
    <3> HIDE DEF cut
    <3> QED BY <3>1, <3>2
  <2> HIDE DEF cut, i
  <2>8. cwd'[p] \in Inums /\ fd'[p] \in Inums \union {0}
    BY <2>1, <2>5 DEF Layout, Aimed, FsInv, FsTypes
  <2>9. /\ disk'[i] = cut /\ \A j \in Inums : j # i => disk'[j] = disk[j]
        /\ \A j \in Inums : disk'[j].type = disk[j].type
    BY <2>1, <2>5, <2>6, <2>7, DiskSet
  <2>10. Owned(disk', bitmap')
    <3>1. Owned(disk, bitmap)
      BY DEF Layout, BlocksOwned, Owned
    <3>2. Owned(disk', bitmap \ Range(disk[i].addrs))
      BY <2>5, <2>7, <2>9, <3>1, OwnedGive
    <3> QED BY <2>1, <2>6, <3>2
  <2>11. Grows(itable, itable')
    <3>1. PICK u : u = [itable EXCEPT ![i].node = cut] /\ Grows(itable, u)
      BY <2>7, GrowsSame, GrowsNode
    <3>2. Grows(itable, [u EXCEPT ![i].lock = NoProc])
      BY <3>1, GrowsOwner
    <3>3. itable' = [u EXCEPT ![i].lock = NoProc]
      BY <2>1, <2>5, <3>1 DEF FsInv, FsTypes, IsTable
    <3> QED BY <3>2, <3>3
  <2>12. DOMAIN data' = Inums /\ \A j \in Inums : data'[j] = data[j] \/ disk[j].type = "file"
    <3>1. DOMAIN data = Inums
      BY DEF Layout, Forms
    <3>2. \A j \in Inums : j # i => data'[j] = data[j]
      BY <2>1, <3>1
    <3> QED BY <2>1, <2>6, <3>1, <3>2
  <2>13. Pending(p)' = {}
    BY <2>1, <2>3, PlanNone, LastStep
  <2> QED BY <2>1, <2>2, <2>8, <2>9, <2>10, <2>11, <2>12, <2>13, NoNeeds, DiskLayout
<1> QED BY <1>1, <1>2

\* unlink(): a directory without an entry.
Unnamed(s, name) == [k \in DOMAIN s |-> IF s[k].inum # 0 /\ s[k].name = name THEN Empty ELSE s[k]]

LEMMA UnnamedContents ==
  ASSUME NEW s, Contents(s), NEW name PROVE Contents(Unnamed(s, name))
<1>1. PICK n : n = Len(s) /\ n \in Nat /\ DOMAIN s = 1..n
  BY DEF Contents
<1>2. PICK t : t = Unnamed(s, name)
  OBVIOUS
<1>3. DOMAIN t = 1..n /\ \A k \in 1..n : t[k] = IF s[k].inum # 0 /\ s[k].name = name THEN Empty ELSE s[k]
  BY <1>1, <1>2 DEF Unnamed
<1>4. t = [j \in 1..n |-> t[j]]
  BY <1>1, <1>2 DEF Unnamed
<1>5. t \in Seq(Range(t))
  BY <1>1, <1>3, <1>4, FunSeq
<1>6. \A k \in 1..n : s[k].inum \in Inums \union {0}
  BY <1>1 DEF Contents
<1>a. Empty.inum = 0
  BY DEF Empty
<1>7. ASSUME NEW k \in DOMAIN t PROVE t[k].inum \in Inums \union {0}
  <2>1. k \in 1..n /\ (t[k] = Empty \/ t[k] = s[k])
    BY <1>3, <1>7
  <2> QED BY <1>6, <1>a, <2>1
<1> QED BY <1>2, <1>5, <1>7 DEF Contents

\* Data when the contents of inode i are s.
LEMMA DataSet ==
  ASSUME Forms, NEW i \in Inums, NEW s, data' = [data EXCEPT ![i] = s]
  PROVE  DOMAIN data' = Inums /\ data'[i] = s /\ \A j \in Inums : j # i => data'[j] = data[j]
BY DEF Forms

\* Plans that give directories and inodes back.
LEMMA BackPlans ==
  ASSUME NEW A, A \in {Unlocking("ip") \union Unlocking("dp"), Unlocking("dp") \union Unlocking("ip"),
                       (Unlocking("dp") \union {<<"nlink", "ip">>}) \union Unlocking("ip"),
                       Unlocking("dp") \union {<<"opened", "ip">>}, Unlocking("dp") \union {<<"put", "ip">>},
                       Unlocking("dp") \union {<<"link_bad", "ip">>}, Unlocking("dp") \union {<<"exists", "ip">>}}
  PROVE  /\ \A v \in Ptrs : Needs(A, v) => v \in {"ip", "dp"}
         /\ ~DirAhead(A) /\ <<"create_ip", "ip">> \notin A /\ \A v \in Ptrs : <<"free", v>> \notin A
<1>1. ~DirAhead(A) /\ <<"create_ip", "ip">> \notin A /\ \A v \in Ptrs : <<"free", v>> \notin A
  BY DEF Unlocking, DirAhead
<1>2. \A b \in A : b[2] \in {"ip", "dp"}
  BY DEF Unlocking
<1>3. \A o : <<o, "x">> \notin A
  BY <1>2
<1>4. ~Needs(A, "x")
  BY <1>3 DEF Needs, UsedAt
<1> QED BY <1>1, <1>4 DEF Ptrs

LEMMA UnlinkIpLayout ==
  ASSUME FsInv, Layout, NEW p \in Procs, UnlinkIp(p) PROVE Layout'
<1> DEFINE i  == I(p)
           d  == ptr[p].dp
           n  == itable[d].node
           nd == IF Node(i).type = "dir" THEN [n EXCEPT !.nlink = @ - 1] ELSE n
<1>1. /\ At(p, "unlink_ip") /\ Free(i) /\ Node(i).type # "none"
      /\ \/ Fails("unlink: nlink < 1")
         \/ /\ itable' = ilock(p, i) /\ Then(p, UnlockPut("ip") \o UnlockPut("dp"))
            /\ UNCHANGED <<fsVars, ptr, cwd, fd, panic>>
         \/ /\ disk'   = [disk EXCEPT ![d] = nd]
            /\ itable' = [ilock(p, i) EXCEPT ![d].node = nd]
            /\ data'   = [data EXCEPT ![d] = Unnamed(data[d], Name(p))]
            /\ Then(p, UnlockPut("dp") \o << <<"nlink", "ip">> >> \o UnlockPut("ip"))
            /\ UNCHANGED <<bitmap, ptr, cwd, fd, panic>>
  BY DEF UnlinkIp, others, Unnamed
<1>2. OthersRest(p)
  BY RestStep DEF FsInv, Ordered, Step
<1>3. V(p) = "ip" /\ "unlink_ip" \in LastOps
  BY <1>1, HeadKind, PtrOf DEF OnIp, LastOps
<1>4. Pending(p) = {<<"unlink_ip", "ip">>} /\ i = ptr[p]["ip"] /\ i \in Inums /\ Node(i) = disk[i]
  BY <1>1, <1>3, LastAimed
<1>5. d \in Inums /\ disk[d].type = "dir"
  <2>1. Needs(Pending(p), "dp") /\ DirAhead(Pending(p)) /\ "dp" \in Ptrs
    BY <1>4 DEF Needs, UsedAt, DirAhead, Ptrs
  <2> QED BY <2>1 DEF Layout, Aimed, AimedAt
<1>6. d # i /\ itable[d].node = disk[d] /\ IsNode(disk[d])
  BY <1>1, <1>5, Directory
<1>7. PICK m, l : m = disk[d] /\ l = m.nlink - 1 /\ IsNode(m)
  BY <1>6
<1>8. IsNode(nd) /\ nd.type = m.type /\ nd.addrs = m.addrs
  <2>1. nd = m \/ nd = [m EXCEPT !.nlink = l]
    BY <1>6, <1>7
  <2> HIDE DEF nd, n, d, i
  <2>0. IsNode(m)
    BY <1>7
  <2>2. /\ IsNode([m EXCEPT !.nlink = l]) /\ [m EXCEPT !.nlink = l].type = m.type
        /\ [m EXCEPT !.nlink = l].addrs = m.addrs
    BY <2>0, NodeWith
  <2> QED BY <2>0, <2>1, <2>2
<1> HIDE DEF nd, n, i, d
<1>9. \A v \in {"ip", "dp"} : ptr[p][v] \in Inums
  BY <1>4, <1>5 DEF d
<1>10. CASE Fails("unlink: nlink < 1")
  BY <1>10, FailsLayout
<1>11. CASE /\ itable' = ilock(p, i) /\ Then(p, UnlockPut("ip") \o UnlockPut("dp"))
            /\ UNCHANGED <<fsVars, ptr, cwd, fd, panic>>
  <2> DEFINE A == Unlocking("ip") \union Unlocking("dp")
  <2>1. Plan(UnlockPut("ip") \o UnlockPut("dp"), A)
    BY PlanOf
  <2>2. /\ \A v \in Ptrs : Needs(A, v) => v \in {"ip", "dp"}
        /\ ~DirAhead(A) /\ <<"create_ip", "ip">> \notin A /\ \A v \in Ptrs : <<"free", v>> \notin A
    BY BackPlans
  <2> HIDE DEF A
  <2>3. \A v \in Ptrs : Needs(A, v) => ptr'[p][v] \in Inums
    BY <1>9, <1>11, <2>2
  <2>4. cwd'[p] \in Inums /\ fd'[p] \in Inums \union {0} /\ Grows(itable, itable')
    BY <1>11, Places, GrowsLocked
  <2> QED BY <1>1, <1>2, <1>3, <1>11, <2>1, <2>2, <2>3, <2>4, LastLayout
<1>12. CASE /\ disk'   = [disk EXCEPT ![d] = nd]
            /\ itable' = [ilock(p, i) EXCEPT ![d].node = nd]
            /\ data'   = [data EXCEPT ![d] = Unnamed(data[d], Name(p))]
            /\ Then(p, UnlockPut("dp") \o << <<"nlink", "ip">> >> \o UnlockPut("ip"))
            /\ UNCHANGED <<bitmap, ptr, cwd, fd, panic>>
  <2> DEFINE A == (Unlocking("dp") \union {<<"nlink", "ip">>}) \union Unlocking("ip")
  <2>1. Pending(p)' = A
    <3>1. Plan(UnlockPut("dp") \o << <<"nlink", "ip">> >> \o UnlockPut("ip"), A)
      BY UnlinkIpOnward
    <3> HIDE DEF A
    <3> QED BY <1>1, <1>3, <1>12, <3>1, LastStep
  <2>2. /\ \A v \in Ptrs : Needs(A, v) => v \in {"ip", "dp"}
        /\ ~DirAhead(A) /\ <<"create_ip", "ip">> \notin A /\ \A v \in Ptrs : <<"free", v>> \notin A
    BY BackPlans
  <2> HIDE DEF A
  <2>3. \A v \in Ptrs : Needs(A, v) => ptr'[p][v] \in Inums
    BY <1>9, <1>12, <2>2
  <2>4. cwd'[p] \in Inums /\ fd'[p] \in Inums \union {0}
    BY <1>12, Places
  <2>5. Grows(itable, itable')
    <3>1. Grows(itable, ilock(p, i))
      BY GrowsLocked
    <3> QED BY <1>8, <1>12, <3>1, GrowsNode
  <2>6. /\ \A j \in Inums : disk'[j].type = disk[j].type
        /\ \A j \in Inums : disk'[j].addrs = disk[j].addrs
    <3>1. /\ disk'[d] = nd /\ \A j \in Inums : j # d => disk'[j] = disk[j]
          /\ \A j \in Inums : disk'[j].type = disk[j].type
      BY <1>5, <1>7, <1>8, <1>12, DiskSet
    <3> QED BY <1>7, <1>8, <3>1
  <2>7. Owned(disk', bitmap')
    <3>1. Owned(disk, bitmap)
      BY DEF Layout, BlocksOwned, Owned
    <3>2. Owned(disk', bitmap)
      BY <2>6, <3>1, OwnedSame
    <3> QED BY <1>12, <3>2
  <2>8. DOMAIN data' = Inums /\ \A j \in Inums : \/ data'[j] = data[j] \/ disk[j].type = "file"
                                                 \/ disk[j].type = "dir" /\ Contents(data'[j])
    <3>1. Forms /\ Contents(data[d])
      BY <1>5 DEF Layout, Forms
    <3>2. Contents(Unnamed(data[d], Name(p)))
      BY <3>1, UnnamedContents
    <3>3. DOMAIN data' = Inums /\ data'[d] = Unnamed(data[d], Name(p)) /\ \A j \in Inums : j # d => data'[j] = data[j]
      BY <1>5, <1>12, <3>1, DataSet
    <3> QED BY <1>5, <3>2, <3>3
  <2>9. panic' = panic
    BY <1>12
  <2> QED BY <1>2, <2>1, <2>2, <2>3, <2>4, <2>5, <2>6, <2>7, <2>8, <2>9, DiskLayout
<1> QED BY <1>1, <1>10, <1>11, <1>12

LEMMA LinkDpLayout ==
  ASSUME FsInv, Layout, NEW p \in Procs, LinkDp(p) PROVE Layout'
<1> DEFINE i   == I(p)
           old == dirlookup(data[i], Name(p))
           up  == dirlink(data[i], Node(i).addrs, bitmap, Name(p), ptr[p].ip)
           nd  == [Node(i) EXCEPT !.addrs = up.addrs]
           op  == IF up.ok THEN "put" ELSE "link_bad"
<1>1. /\ At(p, "link_dp") /\ Free(i) /\ UNCHANGED <<cwd, fd, panic>>
      /\ \/ /\ old # 0 /\ itable' = iget(ilock(p, i), old)
            /\ ptr' = [ptr EXCEPT ![p]["x"] = old]
            /\ Then(p, << <<"put", "x">> >> \o UnlockPut("dp") \o << <<"link_bad", "ip">> >>)
            /\ UNCHANGED fsVars
         \/ /\ itable' = [ilock(p, i) EXCEPT ![i].node = nd]
            /\ disk'   = [disk EXCEPT ![i] = nd]
            /\ data'   = [data EXCEPT ![i] = up.ents]
            /\ bitmap' = up.used
            /\ Then(p, UnlockPut("dp") \o << <<op, "ip">> >>)
            /\ ptr' = ptr
  BY DEF LinkDp, others
<1>2. OthersRest(p) /\ cwd'[p] \in Inums /\ fd'[p] \in Inums \union {0}
  BY <1>1, RestStep, Places DEF FsInv, Ordered, Step
<1>3. V(p) = "dp" /\ "link_dp" \in LastOps
  BY <1>1, HeadKind, PtrOf DEF OnDp, LastOps
<1>4. FirmAt({<<"link_dp", V(p)>>}, V(p))
  BY <1>3 DEF FirmAt
<1>5. Pending(p) = {<<"link_dp", "dp">>} /\ i = ptr[p]["dp"] /\ i \in Inums /\ Node(i) = disk[i]
  BY <1>1, <1>3, <1>4, LastAimed
<1>6. disk[i].type = "dir" /\ ptr[p]["ip"] \in Inums
  <2>1. Needs(Pending(p), "ip") /\ DirAhead(Pending(p)) /\ "ip" \in Ptrs
    BY <1>5 DEF Needs, UsedAt, DirAhead, Ptrs
  <2> QED BY <1>5, <2>1 DEF Layout, Aimed, AimedAt
<1>7. Contents(data[i]) /\ OwnBlocks(disk[i].addrs) /\ Owned(disk, bitmap) /\ Forms
  BY <1>5, <1>6 DEF Layout, Forms, BlocksOwned, Owned
<1>8. PICK m, x, name : m = disk[i] /\ IsNode(m) /\ x = ptr[p]["ip"] /\ name = Name(p)
  BY <1>5 DEF FsInv, FsTypes, IsDisk
<1>9. PICK r : r = up
  OBVIOUS
<1>10. Adds(m.addrs, r.addrs, bitmap) /\ r.used = bitmap \union Range(r.addrs) /\ Contents(r.ents)
  <2>1. r = dirlink(data[i], m.addrs, bitmap, name, x)
    BY <1>5, <1>8, <1>9
  <2> HIDE DEF i, up
  <2> QED BY <1>6, <1>7, <1>8, <2>1, dirlinkOf
<1>11. PICK n : n = old /\ n \in Inums \union {0}
  BY <1>7, LookupIn
<1>12. op \in {"put", "link_bad"}
  OBVIOUS
<1>13. nd = [m EXCEPT !.addrs = r.addrs]
  BY <1>5, <1>8, <1>9
<1>14. IsNode(nd) /\ nd.type = m.type /\ nd.addrs = r.addrs
  <2> HIDE DEF nd, i, up
  <2>0. IsNode(m)
    BY <1>8
  <2>1. PICK b : b = r.addrs
    OBVIOUS
  <2>2. /\ IsNode([m EXCEPT !.addrs = b]) /\ [m EXCEPT !.addrs = b].type = m.type
        /\ [m EXCEPT !.addrs = b].addrs = b
    BY <2>0, NodeWith
  <2> QED BY <1>13, <2>1, <2>2
<1>15. up.used = r.used /\ up.ents = r.ents
  BY <1>9
<1> HIDE DEF nd, i, up, op, old
<1>16. CASE /\ old # 0 /\ itable' = iget(ilock(p, i), old)
            /\ ptr' = [ptr EXCEPT ![p]["x"] = old]
            /\ Then(p, << <<"put", "x">> >> \o UnlockPut("dp") \o << <<"link_bad", "ip">> >>)
            /\ UNCHANGED fsVars
  <2> DEFINE A == ({<<"put", "x">>} \union Unlocking("dp")) \union {<<"link_bad", "ip">>}
  <2>1. Plan(<< <<"put", "x">> >> \o UnlockPut("dp") \o << <<"link_bad", "ip">> >>, A)
    BY PlanOf
  <2>2. ~DirAhead(A) /\ <<"create_ip", "ip">> \notin A /\ \A v \in Ptrs : <<"free", v>> \notin A
    BY DEF DirAhead, Unlocking
  <2> HIDE DEF A
  <2>3. ptr'[p]["x"] \in Inums /\ ptr'[p]["dp"] \in Inums /\ ptr'[p]["ip"] \in Inums
    <3>1. ptr' = [ptr EXCEPT ![p]["x"] = n] /\ n \in Inums
      BY <1>11, <1>16
    <3> QED BY <1>5, <1>6, <3>1, PtrOne
  <2>4. \A v \in Ptrs : Needs(A, v) => ptr'[p][v] \in Inums
    BY <2>3 DEF Ptrs
  <2>5. Grows(itable, itable')
    BY <1>16, GrowsLocked, GrowsGot
  <2> QED BY <1>1, <1>2, <1>3, <1>16, <2>1, <2>2, <2>4, <2>5, LastLayout
<1>17. CASE /\ itable' = [ilock(p, i) EXCEPT ![i].node = nd]
            /\ disk'   = [disk EXCEPT ![i] = nd]
            /\ data'   = [data EXCEPT ![i] = up.ents]
            /\ bitmap' = up.used
            /\ Then(p, UnlockPut("dp") \o << <<op, "ip">> >>)
            /\ ptr' = ptr
  <2> DEFINE A == Unlocking("dp") \union {<<op, "ip">>}
  <2>1. Pending(p)' = A
    <3>1. Plan(UnlockPut("dp") \o << <<op, "ip">> >>, A)
      BY <1>12, PlanOf
    <3> HIDE DEF A
    <3> QED BY <1>1, <1>3, <1>17, <3>1, LastStep
  <2>2. /\ \A v \in Ptrs : Needs(A, v) => v \in {"ip", "dp"}
        /\ ~DirAhead(A) /\ <<"create_ip", "ip">> \notin A /\ \A v \in Ptrs : <<"free", v>> \notin A
    BY <1>12, BackPlans
  <2> HIDE DEF A
  <2>3. \A v \in Ptrs : Needs(A, v) => ptr'[p][v] \in Inums
    BY <1>5, <1>6, <1>17, <2>2
  <2>4. Grows(itable, itable')
    <3>1. Grows(itable, ilock(p, i))
      BY GrowsLocked
    <3> QED BY <1>14, <1>17, <3>1, GrowsNode
  <2>5. /\ disk'[i] = nd /\ \A j \in Inums : j # i => disk'[j] = disk[j]
        /\ \A j \in Inums : disk'[j].type = disk[j].type
    BY <1>5, <1>8, <1>14, <1>17, DiskSet
  <2>6. Owned(disk', bitmap')
    <3>1. OwnBlocks(r.addrs) /\ \A y \in Range(r.addrs) : y \in Range(m.addrs) \/ y \notin bitmap
      BY <1>10 DEF Adds
    <3>2. Owned(disk', bitmap \union Range(disk'[i].addrs))
      BY <1>5, <1>7, <1>8, <1>14, <2>5, <3>1, OwnedTake
    <3> QED BY <1>10, <1>14, <1>15, <1>17, <2>5, <3>2
  <2>7. DOMAIN data' = Inums /\ \A j \in Inums : \/ data'[j] = data[j] \/ disk[j].type = "file"
                                                 \/ disk[j].type = "dir" /\ Contents(data'[j])
    <3>1. DOMAIN data' = Inums /\ data'[i] = up.ents /\ \A j \in Inums : j # i => data'[j] = data[j]
      BY <1>5, <1>7, <1>17, DataSet
    <3> QED BY <1>6, <1>10, <1>15, <3>1
  <2>8. panic' = panic
    BY <1>1
  <2> QED BY <1>2, <2>1, <2>2, <2>3, <2>4, <2>5, <2>6, <2>7, <2>8, DiskLayout
<1> QED BY <1>1, <1>16, <1>17

\* create(), the inode made: it and its directory take blocks one after the other.
LEMMA OwnedTwo ==
  ASSUME NEW d, NEW e, NEW B, Owned(d, B), DOMAIN d = Inums, NEW i \in Inums, NEW j \in Inums, i # j,
         \A k \in Inums : k # i /\ k # j => e[k].addrs = d[k].addrs,
         Adds(NoBlocks, e[i].addrs, B), Adds(d[j].addrs, e[j].addrs, B \union Range(e[i].addrs))
  PROVE  Owned(e, (B \union Range(e[i].addrs)) \union Range(e[j].addrs))
<1>a. PICK a, b : a = e[i].addrs /\ b = e[j].addrs
  OBVIOUS
<1> DEFINE m == [d EXCEPT ![i] = e[i]]
<1>1. m[i] = e[i] /\ \A k \in Inums : k # i => m[k] = d[k]
  OBVIOUS
<1> HIDE DEF m
<1>2. OwnBlocks(a) /\ \A x \in Range(a) : x \notin B
  BY <1>a, EmptyOwn DEF Adds, NoBlocks
<1>3. Owned(m, B \union Range(m[i].addrs))
  BY <1>1, <1>2, <1>a, OwnedTake
<1>4. Owned(m, B \union Range(a)) /\ m[j].addrs = d[j].addrs
  BY <1>1, <1>3, <1>a
<1>5. PICK C : C = B \union Range(a)
  OBVIOUS
<1>6. OwnBlocks(b) /\ \A x \in Range(b) : x \in Range(m[j].addrs) \/ x \notin C
  BY <1>4, <1>5, <1>a DEF Adds
<1>7. \A k \in Inums : k # j => e[k].addrs = m[k].addrs
  BY <1>1
<1>8. Owned(m, C)
  BY <1>4, <1>5
<1>9. Owned(e, C \union Range(e[j].addrs))
  BY <1>6, <1>7, <1>8, <1>a, OwnedTake
<1> QED BY <1>5, <1>9, <1>a

CreateIpWith(p, new, up) ==
  LET i   == I(p)
      d   == ptr[p].dp
      dir == call[p].op = "mkdir"
      nd  == [itable[d].node EXCEPT !.addrs = up.addrs, !.nlink = IF up.ok /\ dir THEN @ + 1 ELSE @]
      ni  == [type |-> IF dir THEN "dir" ELSE "file", nlink |-> IF up.ok THEN 1 ELSE 0, addrs |-> new.addrs]
  IN /\ new = NewContents(i, d, dir, bitmap)
     /\ up = dirlink2([ok |-> new.ok, ents |-> data[d], addrs |-> itable[d].node.addrs, used |-> new.used],
                      Name(p), i)
     /\ At(p, "create_ip") /\ Free(i)
     /\ itable' = [ilock(p, i) EXCEPT ![i].node = ni, ![d].node = nd]
     /\ disk'   = [disk EXCEPT ![i] = ni, ![d] = nd]
     /\ data'   = [data EXCEPT ![i] = new.ents, ![d] = up.ents]
     /\ bitmap' = up.used
     /\ Then(p, IF ~up.ok THEN UnlockPut("ip") \o UnlockPut("dp")
                ELSE UnlockPut("dp") \o (IF dir THEN UnlockPut("ip") ELSE << <<"opened", "ip">> >>))
     /\ UNCHANGED <<ptr, cwd, fd, panic>>

LEMMA CreateIpParts ==
  ASSUME NEW p \in Procs, CreateIp(p) PROVE \E new, up : CreateIpWith(p, new, up)
<1> DEFINE i   == I(p)
           d   == ptr[p].dp
           dir == call[p].op = "mkdir"
           Rest(new, up) ==
             LET nd == [itable[d].node EXCEPT !.addrs = up.addrs, !.nlink = IF up.ok /\ dir THEN @ + 1 ELSE @]
                 ni == [type |-> IF dir THEN "dir" ELSE "file", nlink |-> IF up.ok THEN 1 ELSE 0, addrs |-> new.addrs]
             IN /\ At(p, "create_ip") /\ Free(i)
                /\ itable' = [ilock(p, i) EXCEPT ![i].node = ni, ![d].node = nd]
                /\ disk'   = [disk EXCEPT ![i] = ni, ![d] = nd]
                /\ data'   = [data EXCEPT ![i] = new.ents, ![d] = up.ents]
                /\ bitmap' = up.used
                /\ Then(p, IF ~up.ok THEN UnlockPut("ip") \o UnlockPut("dp")
                           ELSE UnlockPut("dp") \o (IF dir THEN UnlockPut("ip") ELSE << <<"opened", "ip">> >>))
                /\ UNCHANGED <<ptr, cwd, fd, panic>>
<1>1. PICK new \in {NewContents(i, d, dir, bitmap)} :
      \E up \in {dirlink2([ok |-> new.ok, ents |-> data[d], addrs |-> itable[d].node.addrs, used |-> new.used],
                          Name(p), i)} : Rest(new, up)
  BY DEF CreateIp, others
<1>2. PICK up \in {dirlink2([ok |-> new.ok, ents |-> data[d], addrs |-> itable[d].node.addrs, used |-> new.used],
                            Name(p), i)} : Rest(new, up)
  BY <1>1
<1>3. CreateIpWith(p, new, up)
  BY <1>2 DEF CreateIpWith
<1> QED BY <1>3

LEMMA CreateIpLayout ==
  ASSUME FsInv, Layout, NEW p \in Procs, CreateIp(p) PROVE Layout'
<1> DEFINE i   == I(p)
           d   == ptr[p].dp
           dir == call[p].op = "mkdir"
<1>1. PICK new, up : CreateIpWith(p, new, up)
  BY CreateIpParts
<1> DEFINE nd == [itable[d].node EXCEPT !.addrs = up.addrs, !.nlink = IF up.ok /\ dir THEN @ + 1 ELSE @]
           ni == [type |-> IF dir THEN "dir" ELSE "file", nlink |-> IF up.ok THEN 1 ELSE 0, addrs |-> new.addrs]
<1>2. /\ At(p, "create_ip") /\ Free(i)
      /\ itable' = [ilock(p, i) EXCEPT ![i].node = ni, ![d].node = nd]
      /\ disk'   = [disk EXCEPT ![i] = ni, ![d] = nd]
      /\ data'   = [data EXCEPT ![i] = new.ents, ![d] = up.ents]
      /\ bitmap' = up.used /\ UNCHANGED <<ptr, cwd, fd, panic>>
      /\ \/ Then(p, UnlockPut("ip") \o UnlockPut("dp"))
         \/ Then(p, UnlockPut("dp") \o UnlockPut("ip"))
         \/ Then(p, UnlockPut("dp") \o << <<"opened", "ip">> >>)
  BY <1>1 DEF CreateIpWith
<1>3. OthersRest(p) /\ cwd'[p] \in Inums /\ fd'[p] \in Inums \union {0}
  BY <1>2, RestStep, Places DEF FsInv, Ordered, Step
<1>4. V(p) = "ip" /\ "create_ip" \in LastOps
  BY <1>2, HeadKind, PtrOf DEF OnIp, LastOps
<1>5. PICK ops, A : /\ Plan(ops, A) /\ Then(p, ops)
                    /\ \A v \in Ptrs : Needs(A, v) => v \in {"ip", "dp"}
                    /\ ~DirAhead(A) /\ <<"create_ip", "ip">> \notin A /\ \A v \in Ptrs : <<"free", v>> \notin A
  <2>1. Plan(UnlockPut("ip") \o UnlockPut("dp"), Unlocking("ip") \union Unlocking("dp"))
        /\ Plan(UnlockPut("dp") \o UnlockPut("ip"), Unlocking("dp") \union Unlocking("ip"))
        /\ Plan(UnlockPut("dp") \o << <<"opened", "ip">> >>, Unlocking("dp") \union {<<"opened", "ip">>})
    BY PlanOf
  <2>2. CASE Then(p, UnlockPut("ip") \o UnlockPut("dp"))
    BY <2>1, <2>2, BackPlans
  <2>3. CASE Then(p, UnlockPut("dp") \o UnlockPut("ip"))
    BY <2>1, <2>3, BackPlans
  <2>4. CASE Then(p, UnlockPut("dp") \o << <<"opened", "ip">> >>)
    BY <2>1, <2>4, BackPlans
  <2> QED BY <1>2, <2>2, <2>3, <2>4
<1>6. Pending(p) = {<<"create_ip", "ip">>} /\ Pending(p)' = A
  BY <1>2, <1>4, <1>5, LastStep
<1>7. i = ptr[p]["ip"] /\ i \in Inums /\ d \in Inums /\ disk[d].type = "dir" /\ disk[i].type = Made(call[p])
  <2>1. /\ Needs(Pending(p), "ip") /\ Needs(Pending(p), "dp") /\ DirAhead(Pending(p)) /\ "ip" \in Ptrs /\ "dp" \in Ptrs
        /\ <<"create_ip", "ip">> \in Pending(p)
    BY <1>6 DEF Needs, UsedAt, DirAhead, Ptrs
  <2> QED BY <1>4, <2>1 DEF Layout, Aimed, AimedAt, I
<1>8. d # i /\ itable[d].node = disk[d] /\ IsNode(disk[d])
  BY <1>2, <1>7, Directory
<1>9. PICK m : m = disk[d] /\ IsNode(m) /\ itable[d].node = m
  BY <1>8
<1>10. IsNode(nd) /\ nd.type = m.type /\ nd.addrs = up.addrs
  <2>1. PICK a, l : a = up.addrs /\ l = IF up.ok /\ dir THEN m.nlink + 1 ELSE m.nlink
    OBVIOUS
  <2>2. nd = [m EXCEPT !.addrs = a, !.nlink = l]
    BY <1>9, <2>1, Zenon
  <2>3. PICK b : b = [m EXCEPT !.addrs = a]
    OBVIOUS
  <2>4. nd = [b EXCEPT !.nlink = l]
    <3>1. [m EXCEPT !.addrs = a, !.nlink = l] = [[m EXCEPT !.addrs = a] EXCEPT !.nlink = l]
      OBVIOUS
    <3> QED BY <2>2, <2>3, <3>1, Zenon
  <2> HIDE DEF nd, d, i, dir
  <2>5. IsNode(m)
    BY <1>9
  <2>6. IsNode(b) /\ b.type = m.type /\ b.addrs = a
    <3>1. /\ IsNode([m EXCEPT !.addrs = a]) /\ [m EXCEPT !.addrs = a].type = m.type
          /\ [m EXCEPT !.addrs = a].addrs = a
      BY <2>5, NodeWith
    <3> QED BY <2>3, <3>1
  <2>7. /\ IsNode([b EXCEPT !.nlink = l]) /\ [b EXCEPT !.nlink = l].type = b.type
        /\ [b EXCEPT !.nlink = l].addrs = b.addrs
    BY <2>6, NodeWith
  <2> QED BY <2>1, <2>4, <2>6, <2>7
<1>11. IsNode(ni) /\ ni.type = disk[i].type /\ ni.addrs = new.addrs
  BY <1>7 DEF IsNode, Made
<1>12. Forms /\ Owned(disk, bitmap) /\ Contents(data[d]) /\ OwnBlocks(m.addrs) /\ Range(m.addrs) \subseteq bitmap
  BY <1>7, <1>9 DEF Layout, Forms, BlocksOwned, Owned
<1>13. PICK P, c, name : P = dir /\ c = data[d] /\ name = Name(p)
  OBVIOUS
<1>14. new = NewContents(i, d, P, bitmap)
       /\ up = dirlink2([ok |-> new.ok, ents |-> c, addrs |-> m.addrs, used |-> new.used], name, i)
  BY <1>1, <1>9, <1>13 DEF CreateIpWith
<1> HIDE DEF nd, ni, i, d, dir
<1>15. Adds(NoBlocks, new.addrs, bitmap) /\ new.used = bitmap \union Range(new.addrs) /\ Contents(new.ents)
  BY <1>7, <1>14, NewOf
<1>16. Adds(m.addrs, up.addrs, new.used) /\ up.used = new.used \union Range(up.addrs) /\ Contents(up.ents)
  <2>1. PICK ok, used : ok = new.ok /\ used = new.used /\ Range(m.addrs) \subseteq used
    BY <1>12, <1>15
  <2>2. Contents(c) /\ OwnBlocks(m.addrs)
    BY <1>12, <1>13
  <2>3. LET r == dirlink2([ok |-> ok, ents |-> c, addrs |-> m.addrs, used |-> used], name, i) IN
          Adds(m.addrs, r.addrs, used) /\ r.used = used \union Range(r.addrs) /\ Contents(r.ents)
    BY <1>7, <2>1, <2>2, EnterOf
  <2> QED BY <1>14, <2>1, <2>3
<1>17. disk'[i] = ni /\ disk'[d] = nd /\ \A j \in Inums : j # i /\ j # d => disk'[j] = disk[j]
  BY <1>2, <1>7, <1>8 DEF FsInv, FsTypes, IsDisk
<1>18. \A j \in Inums : disk'[j].type = disk[j].type
  BY <1>9, <1>10, <1>11, <1>17
<1>19. Owned(disk', bitmap')
  <2>1. PICK a, b : a = new.addrs /\ b = up.addrs
    OBVIOUS
  <2>2. disk'[i].addrs = a /\ disk'[d].addrs = b /\ \A j \in Inums : j # i /\ j # d => disk'[j].addrs = disk[j].addrs
    BY <1>10, <1>11, <1>17, <2>1
  <2>3. /\ Adds(NoBlocks, disk'[i].addrs, bitmap) /\ DOMAIN disk = Inums
        /\ Adds(disk[d].addrs, disk'[d].addrs, bitmap \union Range(disk'[i].addrs))
    BY <1>9, <1>15, <1>16, <2>1, <2>2 DEF FsInv, FsTypes, IsDisk
  <2>4. Owned(disk', (bitmap \union Range(disk'[i].addrs)) \union Range(disk'[d].addrs))
    <3>1. i \in Inums /\ d \in Inums /\ i # d /\ Owned(disk, bitmap)
      BY <1>7, <1>8, <1>12
    <3> QED BY <2>2, <2>3, <3>1, OwnedTwo
  <2> QED BY <1>2, <1>15, <1>16, <2>1, <2>2, <2>4
<1>20. DOMAIN data' = Inums /\ \A j \in Inums : \/ data'[j] = data[j] \/ disk[j].type = "file"
                                                \/ disk[j].type = "dir" /\ Contents(data'[j])
  <2>1. data'[i] = new.ents /\ data'[d] = up.ents /\ DOMAIN data' = Inums
        /\ \A j \in Inums : j # i /\ j # d => data'[j] = data[j]
    BY <1>2, <1>7, <1>8, <1>12 DEF Forms
  <2>2. disk[i].type = "dir" \/ disk[i].type = "file"
    BY <1>7 DEF Made
  <2> QED BY <1>7, <1>15, <1>16, <2>1, <2>2
<1>21. Grows(itable, itable')
  <2>1. Grows(itable, ilock(p, i))
    BY <1>2, GrowsLocked
  <2>2. PICK u : u = [ilock(p, i) EXCEPT ![i].node = ni]
    OBVIOUS
  <2>3. Grows(itable, u)
    BY <1>11, <2>1, <2>2, GrowsNode
  <2>4. itable' = [u EXCEPT ![d].node = nd]
    BY <1>2, <2>2
  <2> QED BY <1>10, <2>3, <2>4, GrowsNode
<1>22. \A v \in Ptrs : Needs(A, v) => ptr'[p][v] \in Inums
  BY <1>2, <1>5, <1>7 DEF d
<1>23. panic' = panic
  BY <1>2
<1> QED BY <1>3, <1>5, <1>6, <1>18, <1>19, <1>20, <1>21, <1>22, <1>23, DiskLayout

\* The step that p is at comes before the others of its plan.
LEMMA HeadFirst ==
  ASSUME FsInv, NEW p \in Procs, NEW op, At(p, op)
  PROVE  \E T \in SUBSET KindSet : /\ Pending(p) = {<<op, V(p)>>} \union T
                                   /\ \A b \in T : Before(<<op, V(p)>>, b)
<1> DEFINE s == todo[p]
<1>1. s \in Seq(Items) /\ s # <<>> /\ Head(s)[1] = op /\ Tidy(s)
  BY IsAt DEF FsInv, Ordered
<1>2. /\ Kinds(s) = {Kind(Head(s))} \union Kinds(Tail(s)) /\ Kinds(s) \subseteq KindSet
      /\ \A b \in Kinds(Tail(s)) : Before(Kind(Head(s)), b)
  BY <1>1, TailKinds
<1>3. Kind(Head(s)) = <<op, V(p)>>
  BY <1>1 DEF Kind, V
<1>4. Pending(p) = Kinds(s)
  BY DEF Pending
<1> QED BY <1>2, <1>3, <1>4

\* iput() of the last reference, which frees the inode: its blocks are its own and in use.
LEMMA FreeInodeLayout ==
  ASSUME FsInv, Layout, NEW p \in Procs, FreeInode(p) PROVE Layout'
<1> DEFINE i == I(p)
<1>1. At(p, "free")
  BY DEF FreeInode
<1>2. OthersRest(p)
  BY RestStep DEF FsInv, Ordered, Step
<1>3. V(p) \in Ptrs /\ i = ptr[p][V(p)] /\ <<"free", V(p)>> \in Pending(p)
  BY <1>1, HeadKind, PtrOf DEF I, Puts
<1>4. PICK v : v = V(p) /\ v \in Ptrs /\ i = ptr[p][v] /\ <<"free", v>> \in Pending(p)
  BY <1>3
<1>5. i \in Inums /\ itable[i].valid /\ disk[i].type # "none"
  <2>1. Needs(Pending(p), v)
    BY <1>4 DEF Needs, UsedAt
  <2> QED BY <1>4, <2>1 DEF Layout, Aimed, AimedAt
<1> HIDE DEF i
<1>6. itable[i].lock = p
  <2>1. FreedAt(Pending(p), v)
    BY <1>4 DEF FreedAt
  <2> QED BY <1>4, <1>5, <2>1, FreeingAlone
<1>7. \A w \in Ptrs : FirmAt(Pending(p), w) /\ ptr[p][w] \in Inums => ptr[p][w] # i
  <2>1. FreedAt(Pending(p), v)
    BY <1>4 DEF FreedAt
  <2> QED BY <1>4, <2>1 DEF FsInv, Keeping, FirmKept
<1>8. PICK T \in SUBSET KindSet : Pending(p) = {<<"free", v>>} \union T /\ \A b \in T : Before(<<"free", v>>, b)
  BY <1>1, <1>4, HeadFirst
<1>9. \A b \in T : Before(<<"free", v>>, b)
  BY <1>8
<1>10. /\ <<"create_ip", "ip">> \notin T /\ <<"unlink_ip", "ip">> \notin T
       /\ \A w : <<"free", w>> \notin T /\ <<"drop", w>> \notin T
  BY <1>9, NoneAhead
<1>11. itable[i].node = disk[i]
  <2>1. \A w : <<"drop", w>> \notin Pending(p)
    BY <1>8, <1>10
  <2>2. ~Dropping(i)
    BY <1>6, <2>1 DEF Dropping
  <2> QED BY <1>5, <2>2 DEF FsInv, Cached, Sound
<1>12. Owned(disk, bitmap) /\ Forms /\ panic # "freeing free block"
  BY DEF Layout, BlocksOwned, Owned
<1>13. Range(itable[i].node.addrs) \subseteq bitmap
  BY <1>5, <1>11, <1>12 DEF Owned
<1>14. /\ bitmap' = bitmap \ Range(disk[i].addrs) /\ disk' = [disk EXCEPT ![i] = FreeNode]
       /\ data' = [data EXCEPT ![i] = <<>>] /\ itable' = [itable EXCEPT ![i].node = FreeNode]
       /\ Then(p, << <<"drop", v>> >>) /\ UNCHANGED <<ptr, cwd, fd, call, panic>>
  BY <1>4, <1>11, <1>13 DEF FreeInode, others, progVars, i
<1>15. PICK L : L = {<<"drop", v>>} \union T /\ Pending(p)' = L
  <2>1. \A b \in KindSet : Before(<<"free", v>>, b) => Before(<<"drop", v>>, b)
    BY DEF Before, LastOps, Puts
  <2>2. <<"drop", v>> \in KindSet
    BY <1>4 DEF KindSet, Puts
  <2>3. Plan(<< <<"drop", v>> >>, {<<"drop", v>>})
    BY <2>2, PlanOne
  <2>4. \A a \in {<<"drop", v>>} : \A b \in KindSet : Before(<<"free", v>>, b) => Before(a, b)
    BY <2>1
  <2>5. \E U \in SUBSET KindSet : /\ Pending(p) = {<<"free", v>>} \union U
                                  /\ \A b \in U : Before(<<"free", v>>, b)
                                  /\ Pending(p)' = {<<"drop", v>>} \union U
    <3>1. v = V(p)
      BY <1>4
    <3>2. \E U \in SUBSET KindSet : /\ Pending(p) = {<<"free", V(p)>>} \union U
                                    /\ \A b \in U : Before(<<"free", V(p)>>, b)
                                    /\ Pending(p)' = {<<"drop", V(p)>>} \union U
      <4>1. Plan(<< <<"drop", V(p)>> >>, {<<"drop", V(p)>>}) /\ Then(p, << <<"drop", V(p)>> >>)
        BY <1>14, <2>3, <3>1
      <4>2. \A a \in {<<"drop", V(p)>>} : \A b \in KindSet : Before(<<"free", V(p)>>, b) => Before(a, b)
        BY <2>4, <3>1
      <4> QED BY <1>1, <4>1, <4>2, Proceed
    <3> QED BY <3>1, <3>2
  <2>6. PICK U : /\ Pending(p) = {<<"free", v>>} \union U /\ Pending(p)' = {<<"drop", v>>} \union U
                 /\ \A b \in U : Before(<<"free", v>>, b)
    BY <2>5
  <2>7. \A w : <<"free", w>> \notin U
    BY <2>6, NoneAhead
  <2>8. U = T
    <3>1. \A b : (b \in T \/ b = <<"free", v>>) <=> (b \in U \/ b = <<"free", v>>)
      BY <1>8, <2>6
    <3>2. <<"free", v>> \notin T /\ <<"free", v>> \notin U
      BY <1>10, <2>7
    <3>3. \A b : b \in T <=> b \in U
      BY <3>1, <3>2
    <3>4. U \subseteq T /\ T \subseteq U
      BY <3>3
    <3> QED BY <3>4
  <2> QED BY <2>6, <2>8
<1>16. disk'[i] = FreeNode /\ \A j \in Inums : j # i => disk'[j] = disk[j]
  BY <1>5, <1>14 DEF FsInv, FsTypes, IsDisk
<1>17. TypesKept(p)
  BY <1>4, <1>16 DEF TypesKept
<1>18. Grows(itable, itable')
  <2>1. IsNode(FreeNode)
    BY FreshEntry
  <2> QED BY <1>14, <2>1, GrowsSame, GrowsNode
<1>19. ValidKept(p)
  BY <1>18, ValidGrown
<1>20. Aimed(p)' /\ MadeSame(p)
  <2>1. Aimed(p)
    BY DEF Layout
  <2>2. \A w \in Ptrs : Needs(L, w) => Needs(Pending(p), w)
    BY <1>8, <1>15 DEF Needs, UsedAt
  <2>3. \A w \in Ptrs : Needs(L, w) => ptr[p][w] \in Inums
    BY <2>1, <2>2 DEF Aimed, AimedAt
  <2>4. <<"create_ip", "ip">> \notin L /\ \A w : <<"free", w>> \notin L
    BY <1>10, <1>15
  <2>5. DirAhead(L) => DirAhead(Pending(p)) /\ FirmAt(Pending(p), "dp") /\ Needs(L, "dp") /\ "dp" \in Ptrs
    BY <1>8, <1>15 DEF DirAhead, FirmAt, Needs, UsedAt, Ptrs
  <2>6. DirAhead(L) => disk'[ptr[p]["dp"]].type = "dir"
    <3> SUFFICES ASSUME DirAhead(L) PROVE disk'[ptr[p]["dp"]].type = "dir"
      OBVIOUS
    <3>1. ptr[p]["dp"] \in Inums /\ ptr[p]["dp"] # i /\ disk[ptr[p]["dp"]].type = "dir"
      BY <1>7, <2>1, <2>3, <2>5 DEF Aimed, AimedAt
    <3> QED BY <1>16, <3>1
  <2>7. AimedAt(Pending(p), ptr[p], call[p])'
    BY <1>14, <1>15, <2>3, <2>4, <2>6 DEF AimedAt
  <2>8. MadeSame(p)
    BY <1>15, <2>4 DEF MadeSame
  <2> QED BY <1>14, <2>1, <2>7, <2>8 DEF Aimed
<1>21. MadeKept'
  BY <1>2, <1>20, MadeKeptStep DEF Layout
<1>22. FreeNode.type = "none" /\ FreeNode.addrs = NoBlocks /\ OwnBlocks(NoBlocks)
  BY EmptyOwn DEF FreeNode, NoBlocks
<1>23. Forms'
  <2>1. DOMAIN data' = Inums /\ data'[i] = <<>> /\ \A j \in Inums : j # i => data'[j] = data[j]
    BY <1>5, <1>12, <1>14, DataSet
  <2>2. ASSUME NEW j \in Inums
        PROVE  /\ OwnBlocks(disk'[j].addrs) /\ disk'[j].type \in {"none", "dir", "file"}
               /\ disk'[j].type = "none" => data'[j] = <<>>
               /\ disk'[j].type = "dir" => Contents(data'[j])
    <3>1. CASE j = i
      BY <1>16, <1>22, <2>1, <3>1
    <3>2. CASE j # i
      BY <1>12, <1>16, <2>1, <3>2 DEF Forms
    <3> QED BY <3>1, <3>2
  <2> QED BY <2>1, <2>2 DEF Forms
<1>24. BlocksOwned'
  <2>1. \A j \in Inums : j # i => disk'[j].addrs = disk[j].addrs
    BY <1>16
  <2>2. Owned(disk', bitmap \ Range(disk[i].addrs))
    BY <1>5, <1>12, <1>16, <1>22, <2>1, OwnedGive
  <2> QED BY <1>12, <1>14, <2>2 DEF BlocksOwned, Owned
<1> QED BY <1>2, <1>17, <1>19, <1>20, <1>21, <1>23, <1>24, LayoutStep

\* create(), the directory: ialloc() takes an inode that nobody frees.
LEMMA CreateDpLayout ==
  ASSUME FsInv, Layout, NEW p \in Procs, CreateDp(p) PROVE Layout'
<1> DEFINE i    == I(p)
           next == dirlookup(data[i], Name(p))
           none == {j \in Inums : disk[j].type = "none"}
           new  == First_of(none)
           kind == Made(call[p])
<1>1. /\ At(p, "create_dp") /\ Free(i)
      /\ UNCHANGED <<data, bitmap, cwd, fd, call, panic>>
      /\ \/ /\ next # 0 /\ itable' = iget(ilock(p, i), next)
            /\ ptr' = [ptr EXCEPT ![p]["ip"] = next]
            /\ Then(p, UnlockPut("dp") \o << <<"exists", "ip">> >>)
            /\ disk' = disk
         \/ itable' = ilock(p, i) /\ Then(p, UnlockPut("dp")) /\ ptr' = ptr /\ disk' = disk
         \/ /\ none # {}
            /\ disk' = [disk EXCEPT ![new].type = kind]
            /\ itable' = iget(ilock(p, i), new)
            /\ ptr' = [ptr EXCEPT ![p]["ip"] = new]
            /\ Then(p, << <<"create_ip", "ip">> >>)
  BY DEF CreateDp, others, progVars, Made
<1>2. OthersRest(p) /\ cwd'[p] \in Inums /\ fd'[p] \in Inums \union {0}
  BY <1>1, RestStep, Places DEF FsInv, Ordered, Step
<1>3. V(p) = "dp" /\ "create_dp" \in LastOps
  BY <1>1, HeadKind, PtrOf DEF OnDp, LastOps
<1>4. FirmAt({<<"create_dp", V(p)>>}, V(p))
  BY <1>3 DEF FirmAt
<1>5. Pending(p) = {<<"create_dp", "dp">>} /\ i = ptr[p]["dp"] /\ i \in Inums
  BY <1>1, <1>3, <1>4, LastAimed
<1>6. disk[i].type = "dir"
  <2>1. DirAhead(Pending(p))
    BY <1>5 DEF DirAhead
  <2> QED BY <1>5, <2>1 DEF Layout, Aimed, AimedAt
<1>7. next \in Inums \union {0}
  BY <1>5, <1>6, LookupIn DEF Layout, Forms
<1>8. none # {} => new \in Inums /\ disk[new].type = "none"
  <2>1. none # {} => new \in none
    BY FirstIn, FsAssumption
  <2> QED BY <2>1
<1>9. kind \in {"dir", "file"} /\ kind = Made(call[p])
  BY DEF Made
<1> HIDE DEF i, next, none, new, kind
<1>10. CASE /\ next # 0 /\ itable' = iget(ilock(p, i), next)
            /\ ptr' = [ptr EXCEPT ![p]["ip"] = next]
            /\ Then(p, UnlockPut("dp") \o << <<"exists", "ip">> >>)
            /\ disk' = disk
  <2> DEFINE A == Unlocking("dp") \union {<<"exists", "ip">>}
  <2>1. Plan(UnlockPut("dp") \o << <<"exists", "ip">> >>, A)
    BY PlanOf
  <2>2. /\ \A v \in Ptrs : Needs(A, v) => v \in {"ip", "dp"}
        /\ ~DirAhead(A) /\ <<"create_ip", "ip">> \notin A /\ \A v \in Ptrs : <<"free", v>> \notin A
    BY BackPlans
  <2> HIDE DEF A
  <2>3. ptr'[p]["ip"] \in Inums /\ ptr'[p]["dp"] = i
    <3>1. next \in Inums
      BY <1>7, <1>10
    <3>2. PICK n : n = next
      OBVIOUS
    <3>3. ptr' = [ptr EXCEPT ![p]["ip"] = n]
      BY <1>10, <3>2
    <3>4. ptr'[p]["ip"] = n /\ ptr'[p]["dp"] = ptr[p]["dp"]
      BY <3>3, PtrOne
    <3> QED BY <1>5, <3>1, <3>2, <3>4
  <2>4. \A v \in Ptrs : Needs(A, v) => ptr'[p][v] \in Inums
    BY <1>5, <2>2, <2>3
  <2>5. Grows(itable, itable')
    BY <1>10, GrowsLocked, GrowsGot
  <2>6. UNCHANGED <<fsVars, panic>>
    BY <1>1, <1>10 DEF fsVars
  <2> QED BY <1>1, <1>2, <1>3, <1>10, <2>1, <2>2, <2>4, <2>5, <2>6, LastLayout
<1>11. CASE itable' = ilock(p, i) /\ Then(p, UnlockPut("dp")) /\ ptr' = ptr /\ disk' = disk
  <2>1. Plan(UnlockPut("dp"), Unlocking("dp"))
    BY PlanUnlockPut DEF Ptrs
  <2>2. \A v \in Ptrs : Needs(Unlocking("dp"), v) => v = "dp"
    BY DEF Needs, UsedAt, Unlocking
  <2>3. /\ ~DirAhead(Unlocking("dp")) /\ <<"create_ip", "ip">> \notin Unlocking("dp")
        /\ \A v \in Ptrs : <<"free", v>> \notin Unlocking("dp")
    BY DEF DirAhead, Unlocking
  <2>4. \A v \in Ptrs : Needs(Unlocking("dp"), v) => ptr'[p][v] \in Inums
    BY <1>5, <1>11, <2>2
  <2>5. UNCHANGED <<fsVars, panic>>
    BY <1>1, <1>11 DEF fsVars
  <2>6. Grows(itable, itable')
    BY <1>11, GrowsLocked
  <2> QED BY <1>1, <1>2, <1>3, <1>11, <2>1, <2>3, <2>4, <2>5, <2>6, LastLayout
<1>12. CASE /\ none # {}
            /\ disk' = [disk EXCEPT ![new].type = kind]
            /\ itable' = iget(ilock(p, i), new)
            /\ ptr' = [ptr EXCEPT ![p]["ip"] = new]
            /\ Then(p, << <<"create_ip", "ip">> >>)
  <2> DEFINE A == {<<"create_ip", "ip">>}
  <2>1. Pending(p)' = A
    <3>1. Plan(<< <<"create_ip", "ip">> >>, A)
      BY PlanOf
    <3> HIDE DEF A
    <3> QED BY <1>1, <1>3, <1>12, <3>1, LastStep
  <2>2. /\ \A v \in Ptrs : Needs(A, v) => v \in {"ip", "dp"}
        /\ \A v \in Ptrs : <<"free", v>> \notin A
    BY DEF Needs, UsedAt
  <2> HIDE DEF A
  <2>3. PICK n : n = new /\ n \in Inums /\ disk[n].type = "none" /\ n # i
    BY <1>6, <1>8, <1>12
  <2>4. ptr'[p]["ip"] = n /\ ptr'[p]["dp"] = i
    <3>1. ptr' = [ptr EXCEPT ![p]["ip"] = n]
      BY <1>12, <2>3
    <3> QED BY <1>5, <3>1, PtrOne
  <2>5. /\ disk'[n].type = kind /\ disk'[n].addrs = disk[n].addrs
        /\ \A j \in Inums : j # n => disk'[j] = disk[j]
    <3>1. PICK m : m = disk[n] /\ IsNode(m)
      BY <2>3 DEF FsInv, FsTypes, IsDisk
    <3>2. PICK b : b = [m EXCEPT !.type = kind]
      OBVIOUS
    <3>3. b.type = kind /\ b.addrs = m.addrs
      BY <3>1, <3>2, NodeFields
    <3>4. disk' = [disk EXCEPT ![n] = b]
      BY <1>12, <2>3, <3>1, <3>2
    <3> QED BY <2>3, <3>1, <3>3, <3>4 DEF FsInv, FsTypes, IsDisk
  <2>6. TypesKept(p)
    BY <2>3, <2>5 DEF TypesKept
  <2>7. ValidKept(p)
    BY <1>12, GrowsLocked, GrowsGot, ValidGrown
  <2>8. Aimed(p)'
    <3>1. \A v \in Ptrs : Needs(A, v) => ptr'[p][v] \in Inums
      BY <1>5, <2>2, <2>3, <2>4
    <3>2. disk'[ptr'[p]["dp"]].type = "dir"
      BY <1>5, <1>6, <2>3, <2>4, <2>5
    <3>3. disk'[ptr'[p]["ip"]].type = Made(call'[p])
      BY <1>1, <1>9, <2>4, <2>5
    <3>4. AimedAt(Pending(p), ptr[p], call[p])'
      BY <2>1, <2>2, <3>1, <3>2, <3>3 DEF AimedAt
    <3> QED BY <1>2, <3>4 DEF Aimed
  <2>9. MadeKept'
    <3> SUFFICES ASSUME NEW q \in Procs, NEW r \in Procs, NEW w \in Ptrs,
                        <<"free", w>> \in Pending(q)', <<"create_ip", "ip">> \in Pending(r)'
                 PROVE  ptr'[r]["ip"] # ptr'[q][w]
      BY DEF MadeKept
    <3>1. \A s \in Procs : s # p => Pending(s)' = Pending(s) /\ ptr'[s] = ptr[s]
      BY <1>2 DEF OthersRest, Pending
    <3>2. q # p /\ <<"free", w>> \in Pending(q) /\ ptr'[q] = ptr[q]
      BY <2>1, <2>2, <3>1
    <3>3. CASE r = p
      <4>1. disk[ptr[q][w]].type # "none"
        BY <3>2 DEF Layout, Aimed, AimedAt
      <4> QED BY <2>3, <2>4, <3>2, <3>3, <4>1
    <3>4. CASE r # p
      BY <3>1, <3>2, <3>4 DEF Layout, MadeKept
    <3> QED BY <3>3, <3>4
  <2>10. Forms'
    <3>1. Forms
      BY DEF Layout
    <3>2. ASSUME NEW j \in Inums
          PROVE  /\ OwnBlocks(disk'[j].addrs) /\ disk'[j].type \in {"none", "dir", "file"}
                 /\ disk'[j].type = "none" => data'[j] = <<>>
                 /\ disk'[j].type = "dir" => Contents(data'[j])
      <4>1. CASE j = n
        <5>1. data'[j] = <<>> /\ OwnBlocks(disk[j].addrs)
          BY <1>1, <2>3, <3>1, <4>1 DEF Forms
        <5> QED BY <1>9, <2>5, <4>1, <5>1, EmptyOwn
      <4>2. CASE j # n
        BY <1>1, <2>5, <3>1, <4>2 DEF Forms
      <4> QED BY <4>1, <4>2
    <3>3. DOMAIN data' = Inums
      BY <1>1, <3>1 DEF Forms
    <3> QED BY <3>2, <3>3 DEF Forms
  <2>11. BlocksOwned'
    <3>1. \A j \in Inums : disk'[j].addrs = disk[j].addrs
      BY <2>5
    <3> QED BY <1>1, <3>1 DEF Layout, BlocksOwned
  <2> QED BY <1>2, <2>6, <2>7, <2>8, <2>9, <2>10, <2>11, LayoutStep
<1> QED BY <1>1, <1>10, <1>11, <1>12

\* What mkfs leaves.
LEMMA RootForms == OwnBlocks(RootNode.addrs) /\ Range(RootNode.addrs) = {1} /\ RootNode.type = "dir" /\ Contents(RootData)
<1>1. OwnBlocks(<<1>>) /\ Range(<<1>>) = {1}
  <2>1. <<1>> \in Seq(Blocks) /\ DOMAIN <<1>> = {1}
    BY FsAssumption
  <2> QED BY <2>1 DEF OwnBlocks, Range
<1>2. RootNode.addrs = <<1>> /\ RootNode.type = "dir"
  BY DEF RootNode
<1>3. Contents(RootData)
  <2>1. DOMAIN RootData = 1..PerBlock /\ PerBlock \in Nat
    BY FsAssumption DEF RootData
  <2>2. RootData = [j \in 1..PerBlock |-> RootData[j]]
    BY DEF RootData
  <2>3. RootData \in Seq(Range(RootData))
    BY <2>1, <2>2, FunSeq
  <2>4. ASSUME NEW k \in 1..PerBlock PROVE RootData[k].inum \in Inums \union {0}
    <3>1. \/ RootData[k] = [name |-> ".", inum |-> Root] \/ RootData[k] = [name |-> "..", inum |-> Root]
          \/ RootData[k] = Empty
      BY DEF RootData
    <3>2. [name |-> ".", inum |-> Root].inum \in Inums /\ [name |-> "..", inum |-> Root].inum \in Inums
      BY FsAssumption DEF Root
    <3>3. Empty.inum = 0
      BY DEF Empty
    <3>4. PICK e : e = RootData[k] /\ (e = [name |-> ".", inum |-> Root] \/ e = [name |-> "..", inum |-> Root] \/ e = Empty)
      BY <3>1
    <3> QED BY <3>2, <3>3, <3>4
  <2> QED BY <2>1, <2>3, <2>4 DEF Contents
<1> QED BY <1>1, <1>2, <1>3

\* Nobody is at work, and nobody has a file.
LEMMA LayoutIdle ==
  ASSUME \A p \in Procs : Pending(p) = {}, cwd = BootCwd, fd = [p \in Procs |-> 0], Forms, BlocksOwned
  PROVE  Layout
<1>1. \A p \in Procs : cwd[p] \in Inums /\ fd[p] = 0
  BY FsAssumption DEF BootCwd, Root
<1>2. ASSUME NEW p \in Procs PROVE Aimed(p)
  <2>1. Pending(p) = {}
    OBVIOUS
  <2>2. AimedAt({}, ptr[p], call[p])
    BY NoNeeds DEF AimedAt
  <2> QED BY <1>1, <2>1, <2>2 DEF Aimed
<1>3. MadeKept
  BY DEF MadeKept
<1> QED BY <1>2, <1>3 DEF Layout

LEMMA LayoutInit == Init => Layout
<1> SUFFICES ASSUME Init PROVE Layout
  OBVIOUS
<1>1. /\ disk = [i \in Inums |-> IF i = Root THEN RootNode ELSE FreeNode]
      /\ data = [i \in Inums |-> IF i = Root THEN RootData ELSE <<>>]
      /\ bitmap = {1} /\ cwd = BootCwd /\ fd = [p \in Procs |-> 0] /\ panic = "" /\ todo = [p \in Procs |-> <<>>]
  BY DEF Init
<1>2. \A i \in Inums : IF i = Root THEN disk[i] = RootNode /\ data[i] = RootData
                       ELSE disk[i] = FreeNode /\ data[i] = <<>>
  BY <1>1
<1>3. FreeNode.type = "none" /\ FreeNode.addrs = NoBlocks /\ OwnBlocks(NoBlocks) /\ Range(NoBlocks) = {}
  BY EmptyOwn DEF FreeNode, NoBlocks
<1>4. Forms
  BY <1>1, <1>2, <1>3, RootForms DEF Forms
<1>5. BlocksOwned
  BY <1>1, <1>2, <1>3, RootForms DEF BlocksOwned
<1>6. \A p \in Procs : Pending(p) = {}
  BY <1>1, Kinds0 DEF Pending
<1> QED BY <1>1, <1>4, <1>5, <1>6, LayoutIdle

LEMMA LayoutCrash == ASSUME Layout, Crash PROVE Layout'
<1>1. /\ cwd' = BootCwd /\ fd' = [p \in Procs |-> 0] /\ (\A p \in Procs : todo[p] = <<>>) /\ todo' = todo
      /\ UNCHANGED fsVars /\ panic' = ""
  BY DEF Crash
<1>2. Forms' /\ BlocksOwned'
  BY <1>1 DEF Layout, Forms, BlocksOwned, fsVars
<1>3. \A p \in Procs : Pending(p)' = {}
  BY <1>1, Kinds0 DEF Pending
<1>4. (\A p \in Procs : Pending(p)' = {}) /\ cwd' = BootCwd /\ fd' = [p \in Procs |-> 0] => Layout'
  <2>1. \A p \in Procs : BootCwd[p] \in Inums /\ [q \in Procs |-> 0][p] = 0
    BY FsAssumption DEF BootCwd, Root
  <2> SUFFICES ASSUME \A p \in Procs : Pending(p)' = {}, cwd' = BootCwd, fd' = [p \in Procs |-> 0] PROVE Layout'
    OBVIOUS
  <2>2. ASSUME NEW p \in Procs PROVE Aimed(p)'
    <3>1. Pending(p)' = {}
      OBVIOUS
    <3>2. AimedAt(Pending(p), ptr[p], call[p])'
      BY <3>1, NoNeeds DEF AimedAt
    <3> QED BY <2>1, <3>2 DEF Aimed
  <2>3. MadeKept'
    BY DEF MadeKept
  <2> QED BY <1>2, <2>2, <2>3 DEF Layout
<1> QED BY <1>1, <1>3, <1>4

LEMMA LayoutNext == FsInv /\ Layout /\ [Next]_vars => Layout'
<1> SUFFICES ASSUME FsInv, Layout, [Next]_vars PROVE Layout'
  OBVIOUS
<1>1. CASE UNCHANGED vars
  <2>1. UNCHANGED <<fsVars, itable, cwd, fd, call, todo, ptr, panic>>
    BY <1>1 DEF vars, progVars
  <2>2. \A p \in Procs : Aimed(p)' = Aimed(p)
    BY <2>1 DEF Aimed, AimedAt, Pending, fsVars
  <2>3. MadeKept'
    BY <2>1 DEF MadeKept, Layout, Pending
  <2>4. Forms' /\ BlocksOwned'
    BY <2>1 DEF Layout, Forms, BlocksOwned, fsVars
  <2> QED BY <2>2, <2>3, <2>4 DEF Layout
<1>2. CASE Crash
  BY <1>2, LayoutCrash
<1>3. ASSUME NEW p \in Procs, Call(p) \/ Close(p) \/ Write(p) PROVE Layout'
  BY <1>3, CallLayout, CloseLayout, WriteLayout
<1>4. ASSUME NEW p \in Procs, Step(p) PROVE Layout'
  <2>1. CASE Unlock(p) \/ Put(p) \/ PutUnused(p) \/ PutFreed(p) \/ FreeInode(p) \/ Drop(p)
    BY <2>1, UnlockLayout, PutLayout, PutUnusedLayout, FreeInodeLayout, DropLayout
  <2>2. CASE Walk(p) \/ Parent(p) \/ NoType(p) \/ ChdirIp(p) \/ SetCwd(p)
    BY <2>2, WalkLayout, ParentLayout, NoTypeLayout, ChdirIpLayout, SetCwdLayout
  <2>3. CASE UnlinkDp(p) \/ UnlinkIp(p) \/ Nlink(p) \/ LinkIp(p) \/ LinkDp(p) \/ LinkBad(p)
    BY <2>3, UnlinkDpLayout, UnlinkIpLayout, NlinkLayout, LinkIpLayout, LinkDpLayout, TakeLayout
  <2>4. CASE CreateDp(p) \/ Exists(p) \/ CreateIp(p) \/ OpenIp(p) \/ Opened(p)
    BY <2>4, CreateDpLayout, TakeLayout, CreateIpLayout, OpenedLayout
  <2> QED BY <1>4, <2>1, <2>2, <2>3, <2>4 DEF Step
<1> QED BY <1>1, <1>2, <1>3, <1>4 DEF Next

\* fs.c:75 and fs.c:96, balloc() and bfree() under writei(), itrunc() and the directories
\* of create(), unlink() and link(): at every moment of any calls of any processes, on a full
\* disk too and after power failures, the blocks of an inode are its own, each of
\* them once, and all of them marked as used; so bfree() never meets a free block.
THEOREM FsBlocks == Spec => []BlocksOwned
<1>1. FsInv /\ Layout /\ [Next]_vars => (FsInv /\ Layout)'
  BY FsInvNext, LayoutNext
<1>2. Init => FsInv /\ Layout
  BY FsInvInit, LayoutInit
<1>3. Layout => BlocksOwned
  BY DEF Layout
<1> QED BY <1>1, <1>2, <1>3, PTL DEF Spec
=============================================================================
