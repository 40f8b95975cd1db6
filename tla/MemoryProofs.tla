---------------------------- MODULE MemoryProofs ----------------------------
(***************************************************************************)
(* Proofs about Memory for every number of processes, size of memory, of   *)
(* a page and of a page-table page, and every program image.               *)
(*                                                                         *)
(* MemInv: a page table maps the first pages of user space and no other,   *)
(* and where its process stands says how many (Slot, Child); what a step   *)
(* takes from the free list is what its one process gets (Counted).        *)
(***************************************************************************)
EXTENDS Memory, FiniteSetTheorems, TLAPS

Tabs   == {"root", "u1", "u0", "t1", "t0"} \X Nat
Tables == [tabs : SUBSET Tabs, leaves : SUBSET Nat, fixed : BOOLEAN]
Execs  == {"exec", "exec_load", "exec_stack"}
Forks  == {"fork_table", "fork_copy"}
Jobs   == [at : {"user", "sbrk"} \union Forks \union Execs, np : Nat, a : Nat, end : Nat,
           segs : Seq(Nat)]

States == {"unused", "used", "run", "zombie"}

\* A page table with finitely many pages, and how many those are.
Table(t)   == t \in Tables /\ IsFiniteSet(t.tabs) /\ IsFiniteSet(t.leaves)
PagesOf(t) == Cardinality(t.tabs) + Cardinality(t.leaves)

MemTypes ==
  /\ npages \in Nat /\ nfree \in Nat /\ mpanic = "none"
  /\ slotState \in [MemSlots -> States]
  /\ frame \in [MemSlots -> BOOLEAN]
  /\ table \in [MemSlots -> Tables] /\ image \in [MemSlots -> Tables]
  /\ size \in [MemSlots -> Nat] /\ imgsz \in [MemSlots -> Nat]
  /\ job \in [MemSlots -> Jobs]
  /\ \A p \in MemSlots : Table(table[p]) /\ Table(image[p])

Counted == npages = nfree + Cardinality(InUse)

\* A page table with the first k user pages.
Maps(t, k) == t.fixed = TRUE /\ t.leaves = 0..k-1

\* What a page table under construction has.
Growing(t, j, sz) == Maps(t, j.a) /\ PgRoundUp(sz) <= j.a /\ j.a <= PgRoundUp(j.end) /\ sz <= j.end

\* The slot of a process in state st, with trapframe f, page table t, image i and job j.
SlotOf(st, f, t, i, sz, isz, j) ==
  /\ st = "unused" => ~f /\ t = NoTable /\ sz = 0
  /\ st # "run" => j.at = "user"
  /\ st = "zombie" \/ (st = "run" /\ j.at # "sbrk") => Maps(t, PgRoundUp(sz))
  /\ j.at = "sbrk" => Growing(t, j, sz)
  /\ j.at \notin Execs => i = NoTable /\ isz = 0
  /\ j.at = "exec" => Maps(i, PgRoundUp(isz))
  /\ j.at \in {"exec_load", "exec_stack"} => Growing(i, j, isz)
  /\ j.at = "exec_stack" => j.end = (PgRoundUp(isz) + 2) * PGSIZE

Slot(p) == SlotOf(slotState[p], frame[p], table[p], image[p], size[p], imgsz[p], job[p])

\* The slot that fork() fills.
Child(p) ==
  job[p].at \in Forks =>
    /\ job[p].np \in MemSlots /\ slotState[job[p].np] = "used" /\ size[job[p].np] = 0
    /\ IF job[p].at = "fork_table" THEN table[job[p].np] = NoTable /\ job[p].a = 0
       ELSE Maps(table[job[p].np], job[p].a) /\ job[p].a <= PgRoundUp(size[p])
    /\ \A r \in MemSlots \ {p} : job[r].at \in Forks => job[r].np # job[p].np

MemInv == MemTypes /\ Counted /\ \A p \in MemSlots : Slot(p) /\ Child(p)

-----------------------------------------------------------------------------
(* Pages and bytes.                                                        *)

LEMMA TimesMonotone ==
  ASSUME NEW a \in Nat, NEW b \in Nat, NEW c \in Nat, a <= b
  PROVE  a * c <= b * c
BY SMT

LEMMA RoundType == ASSUME NEW n \in Nat PROVE PgRoundUp(n) \in Nat
BY MemoryAssumption, SMT DEF PgRoundUp

\* PgRoundUp(n) is the first page boundary from n on.
LEMMA RoundUp ==
  ASSUME NEW n \in Nat, NEW a \in Nat
  PROVE  a * PGSIZE >= n <=> a >= PgRoundUp(n)
<1> DEFINE k == PgRoundUp(n)
           s == PGSIZE
<1>1. s \in Nat /\ s > 0 /\ k \in Nat BY MemoryAssumption, RoundType, SMT
<1>2. k * s <= n + s - 1 /\ n + s - 1 < k * s + s
  BY <1>1, SMT DEF PgRoundUp
<1>3. CASE a >= k
  <2>1. k * s <= a * s BY <1>1, <1>3, TimesMonotone
  <2>2. k * s \in Nat /\ a * s \in Nat BY <1>1, SMT
  <2> QED BY <1>1, <1>2, <1>3, <2>1, <2>2, SMT
<1>4. CASE a < k
  <2>1. (a + 1) * s <= k * s BY <1>1, <1>4, TimesMonotone, a + 1 \in Nat, a + 1 <= k
  <2>2. (a + 1) * s = a * s + s BY <1>1, SMT
  <2>3. k * s \in Nat /\ a * s \in Nat BY <1>1, SMT
  <2> QED BY <1>1, <1>2, <1>4, <2>1, <2>2, <2>3, SMT
<1> QED BY <1>1, <1>3, <1>4, SMT

LEMMA RoundMonotone ==
  ASSUME NEW m \in Nat, NEW n \in Nat, m <= n
  PROVE  PgRoundUp(m) <= PgRoundUp(n)
<1>1. PgRoundUp(n) \in Nat /\ PgRoundUp(m) \in Nat BY RoundType
<1>2. PgRoundUp(n) * PGSIZE >= n BY <1>1, RoundUp, PgRoundUp(n) >= PgRoundUp(n)
<1>3. PgRoundUp(n) * PGSIZE \in Nat BY <1>1, MemoryAssumption, SMT
<1>4. PgRoundUp(n) * PGSIZE >= m BY <1>2, <1>3, SMT
<1> QED BY <1>1, <1>4, RoundUp

LEMMA RoundPages == ASSUME NEW k \in Nat PROVE PgRoundUp(k * PGSIZE) = k
<1> DEFINE n == k * PGSIZE
           r == PgRoundUp(n)
<1>1. n \in Nat BY MemoryAssumption, SMT
<1>2. r \in Nat BY <1>1, RoundType
<1>3. k >= r BY <1>1, RoundUp, n >= n
<1>4. r * PGSIZE >= n BY <1>1, <1>2, RoundUp, r >= r
<1>5. ~(r < k)
  <2> SUFFICES ASSUME r < k PROVE FALSE OBVIOUS
  <2>1. (r + 1) * PGSIZE <= n
    BY <1>2, MemoryAssumption, TimesMonotone, r + 1 \in Nat, r + 1 <= k, PGSIZE \in Nat
  <2>2. (r + 1) * PGSIZE = r * PGSIZE + PGSIZE /\ r * PGSIZE \in Nat /\ PGSIZE > 0
    BY <1>2, MemoryAssumption, SMT
  <2> QED BY <1>1, <1>4, <2>1, <2>2, MemoryAssumption, SMT
<1> QED BY <1>2, <1>3, <1>5, SMT

LEMMA RoundZero == PgRoundUp(0) = 0
<1>1. 0 * PGSIZE = 0 BY MemoryAssumption, SMT
<1> QED BY <1>1, RoundPages, 0 \in Nat

-----------------------------------------------------------------------------
(* Page tables.                                                            *)

LEMMA PagesOfType == ASSUME NEW t, Table(t) PROVE PagesOf(t) \in Nat
<1>1. Cardinality(t.tabs) \in Nat /\ Cardinality(t.leaves) \in Nat
  BY FS_CardinalityType DEF Table
<1> QED BY <1>1, SMT DEF PagesOf

LEMMA NoTablePages == Table(NoTable) /\ PagesOf(NoTable) = 0
<1>1. NoTable.tabs = {} /\ NoTable.leaves = {} /\ NoTable \in Tables
  BY DEF NoTable, Tables
<1>2. IsFiniteSet({}) /\ Cardinality({}) = 0 BY FS_EmptySet
<1> QED BY <1>1, <1>2, SMT DEF Table, PagesOf

\* walk() takes from the free list the page-table pages it puts into the tree.
LEMMA Walks ==
  ASSUME NEW t, Table(t), NEW a \in Tabs, NEW b \in Tabs, NEW n \in Nat
  PROVE  LET w == walk(t, <<a, b>>, n) IN
           /\ w.ok \in BOOLEAN /\ w.n \in Nat /\ Table(w.t)
           /\ w.t.leaves = t.leaves /\ w.t.fixed = t.fixed
           /\ PagesOf(w.t) + w.n = PagesOf(t) + n
           /\ w = [ok |-> w.ok, n |-> w.n, t |-> w.t]
<1> DEFINE path == <<a, b>>
           Missing(k) == {path[j] : j \in 1..k} \ t.tabs
           Fits(k)    == Cardinality(Missing(k)) <= n
           Deepest(k) == Fits(k) /\ \A j \in 0..Len(path) : Fits(j) => j <= k
           depth == CHOOSE k \in 0..Len(path) : Deepest(k)
           more == Missing(depth)
           w == walk(t, path, n)
<1>1. w = [ok |-> depth = Len(path), n |-> n - Cardinality(more),
           t |-> [t EXCEPT !.tabs = @ \union more]]
  BY DEF walk
<1>2. Len(path) = 2 /\ path[1] = a /\ path[2] = b OBVIOUS
<1>3. Missing(0) = {} BY SMT
<1>4. Fits(0) BY <1>3, FS_EmptySet, SMT
<1>5. \E k \in 0..2 : Deepest(k)
  <2> HIDE DEF Fits
  <2>1. CASE Fits(2) BY <2>1, <1>2, SMT
  <2>2. CASE ~Fits(2) /\ Fits(1)
    <3>1. \A j \in 0..2 : Fits(j) => j <= 1 BY <2>2, SMT
    <3> QED BY <3>1, <2>2, <1>2, SMT
  <2>3. CASE ~Fits(2) /\ ~Fits(1)
    <3>1. \A j \in 0..2 : Fits(j) => j <= 0 BY <2>3, SMT
    <3> QED BY <3>1, <1>4, <1>2, SMT
  <2> QED BY <2>1, <2>2, <2>3
<1>6. depth \in 0..2 /\ Fits(depth)
  <2> HIDE DEF Fits
  <2> QED BY <1>2, <1>5
<1>7. more \subseteq {a, b} /\ more \intersect t.tabs = {}
  <2> HIDE DEF depth
  <2>1. \A j \in 1..depth : j \in {1, 2} BY <1>6, SMT
  <2> QED BY <2>1, <1>2
<1> HIDE DEF depth
<1>8. IsFiniteSet(more)
  <2>1. IsFiniteSet({a} \union {b}) BY FS_Singleton, FS_AddElement
  <2>2. {a} \union {b} = {a, b} OBVIOUS
  <2> QED BY <1>7, <2>1, <2>2, FS_Subset
<1> HIDE DEF more
<1>9. Cardinality(more) <= n BY <1>6 DEF more
<1>10. Cardinality(more) \in Nat BY <1>8, FS_CardinalityType
<1>11. /\ w.t.tabs = t.tabs \union more /\ w.t.leaves = t.leaves /\ w.t.fixed = t.fixed
       /\ w.t \in Tables /\ w.n = n - Cardinality(more) /\ w.ok \in BOOLEAN
  <2>1. w.ok = (depth = Len(path)) /\ w.n = n - Cardinality(more)
    BY <1>1
  <2> HIDE DEF w
  <2>2. w.t = [t EXCEPT !.tabs = @ \union more] BY <1>1
  <2>3. t.tabs \union more \in SUBSET Tabs BY <1>7 DEF Table, Tables
  <2> QED BY <2>1, <2>2, <2>3 DEF Tables, Table
<1>w. w = [ok |-> w.ok, n |-> w.n, t |-> w.t] BY <1>1
<1> HIDE DEF w
<1>12. /\ IsFiniteSet(t.tabs \union more)
       /\ Cardinality(t.tabs \union more) = Cardinality(t.tabs) + Cardinality(more)
  <2>1. Cardinality(t.tabs \intersect more) = 0
    BY <1>7, FS_EmptySet, t.tabs \intersect more = {} DEF more
  <2>2. Cardinality(t.tabs) \in Nat BY FS_CardinalityType DEF Table
  <2>3. /\ IsFiniteSet(t.tabs \union more)
        /\ Cardinality(t.tabs \union more)
             = Cardinality(t.tabs) + Cardinality(more) - Cardinality(t.tabs \intersect more)
    BY <1>8, FS_Union DEF Table
  <2> QED BY <2>1, <2>2, <2>3, <1>10, SMT
<1>13. Table(w.t) BY <1>11, <1>12 DEF Table
<1>14. Cardinality(t.tabs) \in Nat /\ Cardinality(t.leaves) \in Nat
  BY FS_CardinalityType DEF Table
<1>15. w.n \in Nat /\ PagesOf(w.t) + w.n = PagesOf(t) + n
  BY <1>9, <1>10, <1>11, <1>12, <1>14, SMT DEF PagesOf
<1> QED BY <1>11, <1>13, <1>15, <1>w DEF w

LEMMA PathTabs ==
  /\ \A v \in Nat : v \div FAN \in Nat
  /\ Root_page \in Tabs /\ <<"u1", 0>> \in Tabs /\ <<"t1", 0>> \in Tabs /\ <<"t0", 0>> \in Tabs
<1>1. \A v \in Nat : v \div FAN \in Nat BY MemoryAssumption, SMT
<1> QED BY <1>1 DEF Tabs, Root_page

\* MapNew() maps the page or leaves the page table as it was, but for page-table pages.
LEMMA MapsNew ==
  ASSUME NEW t, Table(t), NEW v \in Nat, Maps(t, v), NEW n \in Nat
  PROVE  LET w == MapNew(t, v, n) IN
           /\ w.ok \in BOOLEAN /\ w.n \in Nat /\ Table(w.t)
           /\ IF w.ok THEN Maps(w.t, v + 1) ELSE Maps(w.t, v)
           /\ PagesOf(w.t) + w.n = PagesOf(t) + n
<1> DEFINE m == MapNew(t, v, n)
           w == walk(t, User_path(v), n - 1)
<1>1. CASE n = 0
  <2>1. m = [ok |-> FALSE, t |-> t, n |-> 0] BY <1>1 DEF MapNew
  <2>2. m.ok = FALSE /\ m.t = t /\ m.n = n BY <1>1, <2>1
  <2> QED BY <2>2
<1>2. CASE n # 0
  <2>0. n - 1 \in Nat BY <1>2, SMT
  <2>1. <<"u0", v \div FAN>> \in Tabs BY PathTabs DEF Tabs
  <2>2. /\ w.ok \in BOOLEAN /\ w.n \in Nat /\ Table(w.t)
        /\ w.t.leaves = t.leaves /\ w.t.fixed = t.fixed
        /\ PagesOf(w.t) + w.n = PagesOf(t) + (n - 1)
        /\ w = [ok |-> w.ok, n |-> w.n, t |-> w.t]
    BY <2>0, <2>1, PathTabs, Walks DEF User_path
  <2>3. m = IF w.ok THEN [w EXCEPT !.t.leaves = @ \union {v}] ELSE [w EXCEPT !.n = @ + 1]
    BY <1>2 DEF MapNew
  <2>5. PagesOf(t) \in Nat /\ PagesOf(w.t) \in Nat BY <2>2, PagesOfType
  <2> HIDE DEF w, m
  <2>6. CASE ~w.ok
    <3>1. m.ok = w.ok /\ m.t = w.t /\ m.n = w.n + 1 BY <2>2, <2>3, <2>6
    <3>2. PagesOf(m.t) + m.n = PagesOf(t) + n BY <2>0, <2>2, <2>5, <3>1, SMT
    <3>3. Maps(m.t, v) BY <2>2, <3>1 DEF Maps
    <3> QED BY <2>2, <2>6, <3>1, <3>2, <3>3, SMT DEF m
  <2>7. CASE w.ok
    <3>1. m.ok = w.ok /\ m.n = w.n /\ m.t = [w.t EXCEPT !.leaves = @ \union {v}]
      BY <2>2, <2>3, <2>7
    <3>2. /\ m.t.tabs = w.t.tabs /\ m.t.fixed = t.fixed /\ m.t.leaves = t.leaves \union {v}
          /\ m.t \in Tables
      BY <2>2, <3>1 DEF Table, Tables
    <3>3. v \notin t.leaves /\ t.leaves \union {v} = 0..(v + 1) - 1
      BY SMT DEF Maps
    <3>4. /\ IsFiniteSet(t.leaves \union {v})
          /\ Cardinality(t.leaves \union {v}) = Cardinality(t.leaves) + 1
      BY <3>3, FS_AddElement DEF Table
    <3>5. Table(m.t) BY <2>2, <3>2, <3>4 DEF Table
    <3>6. Maps(m.t, v + 1) BY <3>2, <3>3 DEF Maps
    <3>7. PagesOf(m.t) = PagesOf(w.t) + 1
      <4>1. Cardinality(w.t.tabs) \in Nat /\ Cardinality(t.leaves) \in Nat
        BY <2>2, FS_CardinalityType DEF Table
      <4> QED BY <2>2, <3>2, <3>4, <4>1, SMT DEF PagesOf
    <3>8. PagesOf(m.t) + m.n = PagesOf(t) + n BY <2>2, <2>5, <3>1, <3>7, SMT
    <3> QED BY <2>2, <2>7, <3>1, <3>5, <3>6, <3>8 DEF m
  <2> QED BY <2>2, <2>6, <2>7
<1> QED BY <1>1, <1>2

\* proc_pagetable() makes a page table that maps no user page.
LEMMA NewTable ==
  ASSUME NEW n \in Nat
  PROVE  LET w == proc_pagetable(n) IN
           /\ w.ok \in BOOLEAN
           /\ w.ok => /\ w.n \in Nat /\ Table(w.t) /\ Maps(w.t, 0)
                      /\ PagesOf(w.t) + w.n = n
<1> DEFINE m == proc_pagetable(n)
           r == [NoTable EXCEPT !.tabs = {Root_page}]
           w == walk(r, High_path, n - 1)
<1>1. CASE n = 0 BY <1>1 DEF proc_pagetable
<1>2. CASE n # 0
  <2>0. n - 1 \in Nat BY <1>2, SMT
  <2>1. r.tabs = {Root_page} /\ r.leaves = {} /\ r \in Tables
    BY PathTabs DEF NoTable, Tables
  <2>2. Table(r) /\ PagesOf(r) = 1
    <3>1. /\ IsFiniteSet({Root_page}) /\ Cardinality({Root_page}) = 1
          /\ IsFiniteSet({}) /\ Cardinality({}) = 0
      BY FS_Singleton, FS_EmptySet
    <3> QED BY <2>1, <3>1, 1 + 0 = 1 DEF Table, PagesOf
  <2> HIDE DEF r
  <2>3. /\ w.ok \in BOOLEAN /\ w.n \in Nat /\ Table(w.t) /\ w.t.leaves = {}
        /\ PagesOf(w.t) + w.n = 1 + (n - 1)
        /\ w = [ok |-> w.ok, n |-> w.n, t |-> w.t]
    <3>1. High_path = << <<"t1", 0>>, <<"t0", 0>> >> BY DEF High_path
    <3> QED BY <2>0, <2>1, <2>2, <3>1, PathTabs, Walks
  <2>4. m = IF w.ok THEN [w EXCEPT !.t.fixed = TRUE] ELSE [ok |-> FALSE, t |-> NoTable, n |-> n]
    BY <1>2 DEF proc_pagetable, r
  <2> HIDE DEF w, m
  <2>6. CASE ~w.ok BY <2>4, <2>6 DEF m
  <2>7. CASE w.ok
    <3>1. m.ok = w.ok /\ m.n = w.n /\ m.t = [w.t EXCEPT !.fixed = TRUE]
      BY <2>3, <2>4, <2>7
    <3>2. /\ m.t.tabs = w.t.tabs /\ m.t.leaves = w.t.leaves /\ m.t.fixed = TRUE
          /\ m.t \in Tables
      BY <2>3, <3>1 DEF Table, Tables
    <3>3. Maps(m.t, 0) BY <2>3, <3>2, SMT DEF Maps
    <3>4. Table(m.t) /\ PagesOf(m.t) = PagesOf(w.t) BY <2>3, <3>2 DEF Table, PagesOf
    <3>5. PagesOf(m.t) + m.n = n BY <2>3, <3>1, <3>4, PagesOfType, SMT
    <3> QED BY <2>3, <3>1, <3>3, <3>4, <3>5 DEF m
  <2> QED BY <2>3, <2>6, <2>7
<1> QED BY <1>1, <1>2
\* uvmunmap() of the pages from a on gives back those pages, and does not panic.
LEMMA Unmaps ==
  ASSUME NEW t, Table(t), NEW a \in Nat, NEW k \in Nat, a <= k, Maps(t, k), NEW n \in Nat
  PROVE  LET u == uvmunmap(t, a..(k - 1), n) IN
           /\ ~u.panics /\ u.n \in Nat /\ Table(u.t) /\ Maps(u.t, a)
           /\ PagesOf(u.t) + u.n = PagesOf(t) + n
<1> DEFINE vs == a..(k - 1)
           u == uvmunmap(t, vs, n)
<1>1. u = [panics |-> ~(vs \subseteq t.leaves), t |-> [t EXCEPT !.leaves = @ \ vs],
           n |-> n + Cardinality(vs)]
  BY DEF uvmunmap
<1>2. t.leaves = 0..k - 1 BY DEF Maps
<1>3. vs \subseteq t.leaves /\ t.leaves \ vs = 0..a - 1 BY <1>2, SMT
<1> HIDE DEF u
<1>4. ~u.panics /\ u.n = n + Cardinality(vs) /\ u.t = [t EXCEPT !.leaves = @ \ vs]
  BY <1>1, <1>3
<1>5. /\ u.t \in Tables /\ u.t.tabs = t.tabs /\ u.t.fixed = t.fixed
      /\ u.t.leaves = t.leaves \ vs
  <2>1. t.leaves \ vs \subseteq Nat BY DEF Table, Tables
  <2> QED BY <1>4, <2>1 DEF Table, Tables
<1>6. /\ IsFiniteSet(vs) /\ Cardinality(vs) = k - a
      /\ IsFiniteSet(0..a - 1) /\ Cardinality(0..a - 1) = a
      /\ Cardinality(0..k - 1) = k
  <2>1. IsFiniteSet(vs) /\ Cardinality(vs) = IF a > k - 1 THEN 0 ELSE k - 1 - a + 1
    BY FS_Interval, a \in Int, k - 1 \in Int
  <2>2. IsFiniteSet(0..a - 1) /\ Cardinality(0..a - 1) = IF 0 > a - 1 THEN 0 ELSE a - 1 - 0 + 1
    BY FS_Interval, 0 \in Int, a - 1 \in Int
  <2>3. Cardinality(0..k - 1) = IF 0 > k - 1 THEN 0 ELSE k - 1 - 0 + 1
    BY FS_Interval, 0 \in Int, k - 1 \in Int
  <2> HIDE DEF vs
  <2> QED BY <2>1, <2>2, <2>3, SMT
<1>7. Table(u.t) BY <1>3, <1>5, <1>6 DEF Table
<1>8. Maps(u.t, a) BY <1>3, <1>5 DEF Maps
<1>9. PagesOf(u.t) + u.n = PagesOf(t) + n
  <2>1. Cardinality(t.tabs) \in Nat BY FS_CardinalityType DEF Table
  <2>2. Cardinality(u.t.leaves) = a /\ Cardinality(t.leaves) = k BY <1>2, <1>3, <1>5, <1>6
  <2> QED BY <1>4, <1>5, <1>6, <2>1, <2>2, SMT DEF PagesOf
<1>10. u.n \in Nat BY <1>4, <1>6, SMT
<1> QED BY <1>4, <1>7, <1>8, <1>9, <1>10 DEF u

LEMMA Deallocs ==
  ASSUME NEW t, Table(t), NEW old \in Nat, NEW new \in Nat, NEW n \in Nat,
         Maps(t, PgRoundUp(old)), PgRoundUp(new) <= PgRoundUp(old)
  PROVE  LET d == uvmdealloc(t, old, new, n) IN
           /\ ~d.panics /\ d.n \in Nat /\ Table(d.t) /\ Maps(d.t, PgRoundUp(new))
           /\ PagesOf(d.t) + d.n = PagesOf(t) + n
<1>1. PgRoundUp(old) \in Nat /\ PgRoundUp(new) \in Nat BY RoundType
<1>2. CASE new >= old
  <2>1. PgRoundUp(old) <= PgRoundUp(new) BY <1>2, RoundMonotone, old <= new
  <2>2. PgRoundUp(new) = PgRoundUp(old) BY <1>1, <2>1, SMT
  <2>3. uvmdealloc(t, old, new, n) = [panics |-> FALSE, t |-> t, n |-> n]
    BY <1>2 DEF uvmdealloc
  <2> QED BY <2>2, <2>3
<1>3. CASE ~(new >= old)
  <2>1. uvmdealloc(t, old, new, n) = uvmunmap(t, PgRoundUp(new)..(PgRoundUp(old) - 1), n)
    BY <1>3 DEF uvmdealloc
  <2> DEFINE d == uvmunmap(t, PgRoundUp(new)..(PgRoundUp(old) - 1), n)
  <2>2. /\ ~d.panics /\ d.n \in Nat /\ Table(d.t) /\ Maps(d.t, PgRoundUp(new))
        /\ PagesOf(d.t) + d.n = PagesOf(t) + n
    <3>1. PICK a \in Nat : a = PgRoundUp(new) BY <1>1
    <3>2. PICK k \in Nat : k = PgRoundUp(old) BY <1>1
    <3>3. d = uvmunmap(t, a..(k - 1), n) /\ a <= k /\ Maps(t, k) BY <3>1, <3>2
    <3>4. LET u == uvmunmap(t, a..(k - 1), n) IN
            /\ ~u.panics /\ u.n \in Nat /\ Table(u.t) /\ Maps(u.t, a)
            /\ PagesOf(u.t) + u.n = PagesOf(t) + n
      BY <3>3, Unmaps
    <3> QED BY <3>1, <3>3, <3>4
  <2> QED BY <2>1, <2>2
<1> QED BY <1>2, <1>3

\* proc_freepagetable() gives back all of it.
LEMMA Frees ==
  ASSUME NEW t, Table(t), NEW sz \in Nat, NEW n \in Nat, Maps(t, PgRoundUp(sz))
  PROVE  LET d == proc_freepagetable(t, sz, n) IN
           ~d.panics /\ d.n = PagesOf(t) + n
<1> DEFINE k == PgRoundUp(sz)
           u == uvmunmap(t, 0..(k - 1), n)
           d == proc_freepagetable(t, sz, n)
<1>1. k \in Nat BY RoundType
<1>2. /\ ~u.panics /\ u.n \in Nat /\ Table(u.t) /\ Maps(u.t, 0)
      /\ PagesOf(u.t) + u.n = PagesOf(t) + n
  <2>1. 0 \in Nat /\ 0 <= k BY <1>1, SMT
  <2> HIDE DEF k
  <2> QED BY <1>1, <2>1, Unmaps DEF k
<1>3. u.t.leaves = {} /\ t.fixed = TRUE
  <2>1. 0..0 - 1 = {} BY SMT
  <2> QED BY <1>2, <2>1 DEF Maps
<1>4. u.t.tabs = t.tabs BY DEF uvmunmap, Table, Tables
<1>5. d = [panics |-> u.panics \/ ~t.fixed \/ u.t.leaves # {}, n |-> u.n + Cardinality(t.tabs)]
  BY DEF proc_freepagetable
<1> HIDE DEF u, d
<1>6. ~d.panics /\ d.n = u.n + Cardinality(t.tabs) BY <1>2, <1>3, <1>5
<1>7. Cardinality(t.tabs) \in Nat /\ Cardinality({}) = 0
  BY FS_CardinalityType, FS_EmptySet DEF Table
<1>8. d.n = PagesOf(t) + n BY <1>2, <1>3, <1>4, <1>6, <1>7, SMT DEF PagesOf
<1> QED BY <1>6, <1>8 DEF d

-----------------------------------------------------------------------------
(* Pages of processes.                                                     *)

OwnedBy(t, i, f) ==
  ({"table"} \X t.tabs) \union ({"user"} \X t.leaves)
  \union ({"image_table"} \X i.tabs) \union ({"image_user"} \X i.leaves)
  \union (IF f THEN {<<"trapframe", 0>>} ELSE {})
FramePages(f) == IF f THEN 1 ELSE 0

LEMMA Tagged ==
  ASSUME NEW x, NEW S, IsFiniteSet(S)
  PROVE  IsFiniteSet({x} \X S) /\ Cardinality({x} \X S) = Cardinality(S)
<1>1. IsFiniteSet({x}) /\ Cardinality({x}) = 1 BY FS_Singleton
<1>2. Cardinality(S) \in Nat BY FS_CardinalityType
<1>3. IsFiniteSet({x} \X S) /\ Cardinality({x} \X S) = Cardinality({x}) * Cardinality(S)
  BY <1>1, FS_Product
<1> QED BY <1>1, <1>2, <1>3, SMT

LEMMA Apart ==
  ASSUME NEW S, IsFiniteSet(S), NEW T, IsFiniteSet(T), S \intersect T = {}
  PROVE  IsFiniteSet(S \union T) /\ Cardinality(S \union T) = Cardinality(S) + Cardinality(T)
<1>1. Cardinality(S \intersect T) = 0 BY FS_EmptySet
<1>2. Cardinality(S) \in Nat /\ Cardinality(T) \in Nat BY FS_CardinalityType
<1>3. IsFiniteSet(S \union T)
      /\ Cardinality(S \union T) = Cardinality(S) + Cardinality(T) - Cardinality(S \intersect T)
  BY FS_Union
<1> QED BY <1>1, <1>2, <1>3, SMT

LEMMA OwnedPages ==
  ASSUME NEW t, Table(t), NEW i, Table(i), NEW f \in BOOLEAN
  PROVE  /\ IsFiniteSet(OwnedBy(t, i, f))
         /\ Cardinality(OwnedBy(t, i, f)) = PagesOf(t) + PagesOf(i) + FramePages(f)
<1> DEFINE a == {"table"} \X t.tabs
           b == {"user"} \X t.leaves
           c == {"image_table"} \X i.tabs
           d == {"image_user"} \X i.leaves
           e == IF f THEN {<<"trapframe", 0>>} ELSE {}
<1>1. IsFiniteSet(a) /\ Cardinality(a) = Cardinality(t.tabs) BY Tagged DEF Table
<1>2. IsFiniteSet(b) /\ Cardinality(b) = Cardinality(t.leaves) BY Tagged DEF Table
<1>3. IsFiniteSet(c) /\ Cardinality(c) = Cardinality(i.tabs) BY Tagged DEF Table
<1>4. IsFiniteSet(d) /\ Cardinality(d) = Cardinality(i.leaves) BY Tagged DEF Table
<1>5. IsFiniteSet(e) /\ Cardinality(e) = FramePages(f)
  BY FS_Singleton, FS_EmptySet DEF FramePages
<1>a. \A x \in a : x[1] = "table" OBVIOUS
<1>b. \A x \in b : x[1] = "user" OBVIOUS
<1>c. \A x \in c : x[1] = "image_table" OBVIOUS
<1>d. \A x \in d : x[1] = "image_user" OBVIOUS
<1>e. \A x \in e : x[1] = "trapframe" OBVIOUS
<1> HIDE DEF a, b, c, d, e
<1>7. /\ a \intersect b = {} /\ (a \union b) \intersect c = {}
      /\ (a \union b \union c) \intersect d = {} /\ (a \union b \union c \union d) \intersect e = {}
  <2>1. a \intersect b = {} BY <1>a, <1>b
  <2>2. a \intersect c = {} BY <1>a, <1>c
  <2>3. b \intersect c = {} BY <1>b, <1>c
  <2>4. a \intersect d = {} BY <1>a, <1>d
  <2>5. b \intersect d = {} BY <1>b, <1>d
  <2>6. c \intersect d = {} BY <1>c, <1>d
  <2>7. a \intersect e = {} BY <1>a, <1>e
  <2>8. b \intersect e = {} BY <1>b, <1>e
  <2>9. c \intersect e = {} BY <1>c, <1>e
  <2>10. d \intersect e = {} BY <1>d, <1>e
  <2> QED BY <2>1, <2>2, <2>3, <2>4, <2>5, <2>6, <2>7, <2>8, <2>9, <2>10
<1>8. IsFiniteSet(a \union b) /\ Cardinality(a \union b) = Cardinality(a) + Cardinality(b)
  BY <1>1, <1>2, <1>7, Apart
<1>9. /\ IsFiniteSet(a \union b \union c)
      /\ Cardinality(a \union b \union c) = Cardinality(a \union b) + Cardinality(c)
  BY <1>8, <1>3, <1>7, Apart
<1>10. /\ IsFiniteSet(a \union b \union c \union d)
       /\ Cardinality(a \union b \union c \union d) = Cardinality(a \union b \union c) + Cardinality(d)
  BY <1>9, <1>4, <1>7, Apart
<1>11. /\ IsFiniteSet(a \union b \union c \union d \union e)
       /\ Cardinality(a \union b \union c \union d \union e)
            = Cardinality(a \union b \union c \union d) + Cardinality(e)
  BY <1>10, <1>5, <1>7, Apart
<1>12. OwnedBy(t, i, f) = a \union b \union c \union d \union e
  BY DEF OwnedBy, a, b, c, d, e
<1>13. /\ Cardinality(t.tabs) \in Nat /\ Cardinality(t.leaves) \in Nat
       /\ Cardinality(i.tabs) \in Nat /\ Cardinality(i.leaves) \in Nat
  BY FS_CardinalityType DEF Table
<1>14. FramePages(f) \in Nat BY DEF FramePages
<1>15. Cardinality(a \union b \union c \union d \union e) = PagesOf(t) + PagesOf(i) + FramePages(f)
  BY <1>1, <1>2, <1>3, <1>4, <1>5, <1>8, <1>9, <1>10, <1>11, <1>13, <1>14, SMT DEF PagesOf
<1> QED BY <1>11, <1>12, <1>15

\* What all of them have, when only q gets or gives.
AllOf(O) == UNION {{p} \X O[p] : p \in MemSlots}

LEMMA OneOwner ==
  ASSUME NEW O, NEW Q, NEW q \in MemSlots,
         \A p \in MemSlots : IsFiniteSet(O[p]) /\ IsFiniteSet(Q[p]),
         \A p \in MemSlots \ {q} : Q[p] = O[p]
  PROVE  /\ Cardinality(AllOf(O)) \in Nat /\ Cardinality(AllOf(Q)) \in Nat
         /\ Cardinality(AllOf(Q)) + Cardinality(O[q]) = Cardinality(AllOf(O)) + Cardinality(Q[q])
<1> DEFINE rest == UNION {{p} \X O[p] : p \in MemSlots \ {q}}
           o == {q} \X O[q]
           n == {q} \X Q[q]
<1>1. AllOf(O) = rest \union o BY DEF AllOf
<1>2. AllOf(Q) = rest \union n
  <2>1. rest = UNION {{p} \X Q[p] : p \in MemSlots \ {q}} OBVIOUS
  <2> QED BY <2>1 DEF AllOf
<1>3. IsFiniteSet(rest)
  <2> DEFINE F == {{p} \X O[p] : p \in MemSlots \ {q}}
             f == [p \in MemSlots \ {q} |-> {p} \X O[p]]
  <2>1. f \in Surjection(MemSlots \ {q}, F) BY DEF Surjection
  <2>2. IsFiniteSet(MemSlots \ {q}) BY MemoryAssumption, FS_RemoveElement
  <2>3. IsFiniteSet(F)
    <3> HIDE DEF f, F
    <3> QED BY <2>1, <2>2, FS_Surjection, Zenon
  <2>4. \A T \in F : IsFiniteSet(T)
    <3>1. \A p \in MemSlots : IsFiniteSet({p} \X O[p]) BY Tagged
    <3> QED BY <3>1
  <2> HIDE DEF F
  <2>5. IsFiniteSet(UNION F) BY <2>3, <2>4, FS_UNION
  <2> QED BY <2>5 DEF F
<1>4. /\ IsFiniteSet(o) /\ Cardinality(o) = Cardinality(O[q])
      /\ IsFiniteSet(n) /\ Cardinality(n) = Cardinality(Q[q])
  BY Tagged
<1>5. rest \intersect o = {} /\ rest \intersect n = {}
  <2>1. \A x \in rest : x[1] # q OBVIOUS
  <2>2. \A x \in o \union n : x[1] = q OBVIOUS
  <2> QED BY <2>1, <2>2
<1> HIDE DEF rest, o, n
<1>6. /\ Cardinality(rest \union o) = Cardinality(rest) + Cardinality(o)
      /\ Cardinality(rest \union n) = Cardinality(rest) + Cardinality(n)
  BY <1>3, <1>4, <1>5, Apart
<1>7. Cardinality(rest) \in Nat /\ Cardinality(O[q]) \in Nat /\ Cardinality(Q[q]) \in Nat
  BY <1>3, FS_CardinalityType
<1> QED BY <1>1, <1>2, <1>4, <1>6, <1>7, SMT
LEMMA InUsePages ==
  ASSUME MemTypes, NEW O, O = [p \in MemSlots |-> OwnedBy(table[p], image[p], frame[p])]
  PROVE  /\ InUse = AllOf(O)
         /\ \A p \in MemSlots :
              /\ IsFiniteSet(O[p])
              /\ Cardinality(O[p]) = PagesOf(table[p]) + PagesOf(image[p]) + FramePages(frame[p])
<1>1. \A p \in MemSlots : O[p] = Owned(p) BY DEF Owned, OwnedBy
<1>2. InUse = AllOf(O) BY <1>1 DEF InUse, AllOf
<1>3. \A p \in MemSlots :
        /\ IsFiniteSet(OwnedBy(table[p], image[p], frame[p]))
        /\ Cardinality(OwnedBy(table[p], image[p], frame[p]))
             = PagesOf(table[p]) + PagesOf(image[p]) + FramePages(frame[p])
  <2> TAKE p \in MemSlots
  <2>1. Table(table[p]) /\ Table(image[p]) /\ frame[p] \in BOOLEAN BY DEF MemTypes
  <2> QED BY <2>1, OwnedPages
<1> QED BY <1>2, <1>3

LEMMA NextInUsePages ==
  ASSUME MemTypes', NEW O, O = [p \in MemSlots |-> OwnedBy(table'[p], image'[p], frame'[p])]
  PROVE  /\ InUse' = AllOf(O)
         /\ \A p \in MemSlots :
              /\ IsFiniteSet(O[p])
              /\ Cardinality(O[p]) = PagesOf(table'[p]) + PagesOf(image'[p]) + FramePages(frame'[p])
<1>1. \A p \in MemSlots : O[p] = Owned(p)' BY DEF Owned, OwnedBy
<1>2. InUse' = AllOf(O) BY <1>1 DEF InUse, AllOf
<1>3. \A p \in MemSlots :
        /\ IsFiniteSet(OwnedBy(table'[p], image'[p], frame'[p]))
        /\ Cardinality(OwnedBy(table'[p], image'[p], frame'[p]))
             = PagesOf(table'[p]) + PagesOf(image'[p]) + FramePages(frame'[p])
  <2> TAKE p \in MemSlots
  <2>1. Table(table'[p]) /\ Table(image'[p]) /\ frame'[p] \in BOOLEAN BY DEF MemTypes
  <2> QED BY <2>1, OwnedPages
<1> QED BY <1>2, <1>3

\* A step gives slot q new contents, and p a new job.
Becomes(p, q, st, f, t, i, sz, isz, j, n) ==
  /\ UNCHANGED npages /\ mpanic' = "none" /\ nfree' = n
  /\ slotState' = [slotState EXCEPT ![q] = st] /\ frame' = [frame EXCEPT ![q] = f]
  /\ table' = [table EXCEPT ![q] = t] /\ image' = [image EXCEPT ![q] = i]
  /\ size' = [size EXCEPT ![q] = sz] /\ imgsz' = [imgsz EXCEPT ![q] = isz]
  /\ job' = [job EXCEPT ![p] = j]

\* What q has more, the free list has less.
LEMMA Books ==
  ASSUME MemTypes, Counted, NEW p \in MemSlots, NEW q \in MemSlots,
         NEW st \in States, NEW f \in BOOLEAN, NEW t, Table(t), NEW i, Table(i),
         NEW sz \in Nat, NEW isz \in Nat, NEW j \in Jobs, NEW n \in Nat,
         Becomes(p, q, st, f, t, i, sz, isz, j, n),
         PagesOf(t) + PagesOf(i) + FramePages(f) + n
           = PagesOf(table[q]) + PagesOf(image[q]) + FramePages(frame[q]) + nfree
  PROVE  MemTypes' /\ Counted'
<1>a. /\ UNCHANGED npages /\ mpanic' = "none" /\ nfree' = n
      /\ slotState' = [slotState EXCEPT ![q] = st] /\ frame' = [frame EXCEPT ![q] = f]
      /\ table' = [table EXCEPT ![q] = t] /\ image' = [image EXCEPT ![q] = i]
      /\ size' = [size EXCEPT ![q] = sz] /\ imgsz' = [imgsz EXCEPT ![q] = isz]
      /\ job' = [job EXCEPT ![p] = j]
  BY DEF Becomes
<1>1. MemTypes'
  <2>1. npages' \in Nat /\ nfree' \in Nat /\ mpanic' = "none" BY <1>a DEF MemTypes
  <2>2. slotState' \in [MemSlots -> States] /\ frame' \in [MemSlots -> BOOLEAN]
    BY <1>a DEF MemTypes
  <2>3. table' \in [MemSlots -> Tables] /\ image' \in [MemSlots -> Tables]
    BY <1>a DEF MemTypes, Table
  <2>4. size' \in [MemSlots -> Nat] /\ imgsz' \in [MemSlots -> Nat] /\ job' \in [MemSlots -> Jobs]
    BY <1>a DEF MemTypes
  <2>5. \A r \in MemSlots : Table(table'[r]) /\ Table(image'[r]) BY <1>a DEF MemTypes
  <2> QED BY <2>1, <2>2, <2>3, <2>4, <2>5 DEF MemTypes
<1>2. PICK O : O = [r \in MemSlots |-> OwnedBy(table[r], image[r], frame[r])] OBVIOUS
<1>3. PICK Q : Q = [r \in MemSlots |-> OwnedBy(table'[r], image'[r], frame'[r])] OBVIOUS
<1>4. /\ InUse = AllOf(O) /\ \A r \in MemSlots : IsFiniteSet(O[r])
      /\ Cardinality(O[q]) = PagesOf(table[q]) + PagesOf(image[q]) + FramePages(frame[q])
  BY <1>2, InUsePages
<1>5. /\ InUse' = AllOf(Q) /\ \A r \in MemSlots : IsFiniteSet(Q[r])
      /\ Cardinality(Q[q]) = PagesOf(table'[q]) + PagesOf(image'[q]) + FramePages(frame'[q])
  BY <1>1, <1>3, NextInUsePages
<1>6. table'[q] = t /\ image'[q] = i /\ frame'[q] = f BY <1>a DEF MemTypes
<1>7. \A r \in MemSlots \ {q} : Q[r] = O[r]
  <2> TAKE r \in MemSlots \ {q}
  <2>1. table'[r] = table[r] /\ image'[r] = image[r] /\ frame'[r] = frame[r] BY <1>a DEF MemTypes
  <2>2. Q[r] = OwnedBy(table'[r], image'[r], frame'[r]) BY <1>3
  <2>3. O[r] = OwnedBy(table[r], image[r], frame[r]) BY <1>2
  <2> QED BY <2>1, <2>2, <2>3
<1>8. /\ Cardinality(AllOf(O)) \in Nat /\ Cardinality(AllOf(Q)) \in Nat
      /\ Cardinality(AllOf(Q)) + Cardinality(O[q]) = Cardinality(AllOf(O)) + Cardinality(Q[q])
  BY <1>4, <1>5, <1>7, OneOwner
<1>9. Cardinality(Q[q]) = PagesOf(t) + PagesOf(i) + FramePages(f) BY <1>5, <1>6
<1>10. Cardinality(O[q]) \in Nat /\ Cardinality(Q[q]) \in Nat BY <1>4, <1>5, FS_CardinalityType
<1>11. Cardinality(Q[q]) + n = Cardinality(O[q]) + nfree BY <1>4, <1>9
<1>12. npages = nfree + Cardinality(AllOf(O)) /\ nfree \in Nat BY <1>4 DEF Counted, MemTypes
<1>13. npages = n + Cardinality(AllOf(Q))
  <2>1. PICK a \in Nat : a = Cardinality(AllOf(O)) BY <1>8
  <2>2. PICK b \in Nat : b = Cardinality(AllOf(Q)) BY <1>8
  <2>3. PICK c \in Nat : c = Cardinality(O[q]) BY <1>10
  <2>4. PICK d \in Nat : d = Cardinality(Q[q]) BY <1>10
  <2>5. PICK m \in Nat : m = nfree BY <1>12
  <2>6. b + c = a + d BY <1>8, <2>1, <2>2, <2>3, <2>4
  <2>7. d + n = c + m BY <1>11, <2>3, <2>4, <2>5
  <2>8. m + a = n + b BY <2>6, <2>7, SMT
  <2> QED BY <1>12, <2>1, <2>2, <2>5, <2>8
<1>14. Counted' BY <1>5, <1>13, <1>a DEF Counted
<1> QED BY <1>1, <1>14

\* A step of a process by which only its own slot changes.
LEMMA OwnStep ==
  ASSUME MemInv, UNCHANGED npages, NEW p \in MemSlots, slotState[p] = "run",
         NEW t, Table(t), NEW i, Table(i),
         NEW sz \in Nat, NEW isz \in Nat, NEW j \in Jobs, NEW n \in Nat,
         mpanic' = "none", nfree' = n, UNCHANGED <<slotState, frame>>,
         table' = [table EXCEPT ![p] = t], image' = [image EXCEPT ![p] = i],
         size' = [size EXCEPT ![p] = sz], imgsz' = [imgsz EXCEPT ![p] = isz],
         job' = [job EXCEPT ![p] = j],
         PagesOf(t) + PagesOf(i) + n = PagesOf(table[p]) + PagesOf(image[p]) + nfree,
         j.at \notin Forks, SlotOf("run", TRUE, t, i, sz, isz, j)
  PROVE  MemInv'
<1>0. MemTypes /\ Counted /\ \A r \in MemSlots : Slot(r) /\ Child(r) BY DEF MemInv
<1>1. PICK st \in States : st = "run" BY DEF States
<1>2. PICK f \in BOOLEAN : f = frame[p] BY <1>0 DEF MemTypes
<1>3. slotState' = [slotState EXCEPT ![p] = st] /\ frame' = [frame EXCEPT ![p] = f]
  BY <1>0, <1>1, <1>2 DEF MemTypes
<1>4. PagesOf(t) + PagesOf(i) + FramePages(f) + n
        = PagesOf(table[p]) + PagesOf(image[p]) + FramePages(frame[p]) + nfree
  <2>1. PICK a \in Nat : a = PagesOf(t) BY PagesOfType
  <2>2. PICK b \in Nat : b = PagesOf(i) BY PagesOfType
  <2>3. PICK c \in Nat : c = PagesOf(table[p])
    <3>1. Table(table[p]) BY <1>0 DEF MemTypes
    <3> QED BY <3>1, PagesOfType
  <2>4. PICK d \in Nat : d = PagesOf(image[p])
    <3>1. Table(image[p]) BY <1>0 DEF MemTypes
    <3> QED BY <3>1, PagesOfType
  <2>5. PICK m \in Nat : m = FramePages(f) BY DEF FramePages
  <2>6. nfree \in Nat BY <1>0 DEF MemTypes
  <2>7. PICK e \in Nat : e = nfree BY <2>6
  <2>8. a + b + n = c + d + e BY <2>1, <2>2, <2>3, <2>4, <2>7
  <2>9. a + b + m + n = c + d + m + e BY <2>8, SMT
  <2> QED BY <1>2, <2>1, <2>2, <2>3, <2>4, <2>5, <2>7, <2>9
<1>b. Becomes(p, p, st, f, t, i, sz, isz, j, n) BY <1>3 DEF Becomes
<1>5. MemTypes' /\ Counted' BY <1>0, <1>4, <1>b, Books
<1>6. \A r \in MemSlots \ {p} :
        /\ slotState'[r] = slotState[r] /\ frame'[r] = frame[r] /\ table'[r] = table[r]
        /\ image'[r] = image[r] /\ size'[r] = size[r] /\ imgsz'[r] = imgsz[r] /\ job'[r] = job[r]
  BY <1>0 DEF MemTypes
<1>7. /\ table'[p] = t /\ image'[p] = i /\ size'[p] = sz /\ imgsz'[p] = isz /\ job'[p] = j
      /\ slotState'[p] = "run"
  BY <1>0 DEF MemTypes
<1>8. Slot(p)' BY <1>7 DEF Slot, SlotOf
<1>9. ASSUME NEW r \in MemSlots \ {p} PROVE Slot(r)' BY <1>0, <1>6, <1>9 DEF Slot
<1>10. Child(p)' BY <1>7 DEF Child
<1>11. ASSUME NEW r \in MemSlots \ {p} PROVE Child(r)'
  <2> SUFFICES ASSUME job[r].at \in Forks PROVE Child(r)' BY <1>6 DEF Child
  <2>1. PICK q \in MemSlots : q = job[r].np BY <1>0 DEF Child
  <2>2. q # p /\ slotState[q] = "used" /\ size[q] = 0 BY <1>0, <2>1 DEF Child
  <2>3. /\ slotState'[q] = "used" /\ size'[q] = 0 /\ table'[q] = table[q] /\ size'[r] = size[r]
        /\ job'[r] = job[r]
    BY <1>6, <2>2
  <2>4. \A s \in MemSlots \ {r} : job'[s].at \in Forks => job'[s].np # q
    <3> TAKE s \in MemSlots \ {r}
    <3>1. CASE s = p BY <1>7, <3>1
    <3>2. CASE s # p
      <4>1. job'[s] = job[s] BY <1>6, <3>2
      <4>2. job[s].at \in Forks => job[s].np # job[r].np BY <1>0 DEF Child
      <4> QED BY <2>1, <4>1, <4>2
    <3> QED BY <3>1, <3>2
  <2>5. IF job[r].at = "fork_table" THEN table[q] = NoTable /\ job[r].a = 0
        ELSE Maps(table[q], job[r].a) /\ job[r].a <= PgRoundUp(size[r])
    BY <1>0, <2>1 DEF Child
  <2> QED BY <2>1, <2>3, <2>4, <2>5 DEF Child
<1> QED BY <1>5, <1>8, <1>9, <1>10, <1>11 DEF MemInv
-----------------------------------------------------------------------------
(* The steps that change only the slot of the process that takes them.     *)

\* What slot p and the free list are before a step.
Before(p, t, i, sz, isz, j, n) ==
  /\ t = table[p] /\ i = image[p] /\ sz = size[p] /\ isz = imgsz[p] /\ j = job[p] /\ n = nfree
  /\ Table(t) /\ Table(i)
  /\ table = [table EXCEPT ![p] = t] /\ image = [image EXCEPT ![p] = i]
  /\ size = [size EXCEPT ![p] = sz] /\ imgsz = [imgsz EXCEPT ![p] = isz]
  /\ job = [job EXCEPT ![p] = j]
  /\ mpanic = "none" /\ PagesOf(t) \in Nat /\ PagesOf(i) \in Nat

LEMMA Here ==
  ASSUME MemInv, NEW p \in MemSlots
  PROVE  \E t, i : \E sz, isz, n \in Nat, j \in Jobs :
           /\ Before(p, t, i, sz, isz, j, n)
           /\ slotState[p] = "run" => SlotOf("run", TRUE, t, i, sz, isz, j)
<1>1. MemTypes /\ Slot(p) BY DEF MemInv
<1>2. PICK t : t = table[p] OBVIOUS
<1>3. PICK i : i = image[p] OBVIOUS
<1>4. PICK sz \in Nat : sz = size[p] BY <1>1 DEF MemTypes
<1>5. PICK isz \in Nat : isz = imgsz[p] BY <1>1 DEF MemTypes
<1>6. PICK n \in Nat : n = nfree BY <1>1 DEF MemTypes
<1>7. PICK j \in Jobs : j = job[p] BY <1>1 DEF MemTypes
<1>8. Table(t) /\ Table(i) BY <1>1, <1>2, <1>3 DEF MemTypes
<1>9. /\ table = [table EXCEPT ![p] = t] /\ image = [image EXCEPT ![p] = i]
      /\ size = [size EXCEPT ![p] = sz] /\ imgsz = [imgsz EXCEPT ![p] = isz]
      /\ job = [job EXCEPT ![p] = j]
  BY <1>1, <1>2, <1>3, <1>4, <1>5, <1>7 DEF MemTypes
<1>10. PagesOf(t) \in Nat /\ PagesOf(i) \in Nat BY <1>8, PagesOfType
<1>11. mpanic = "none" BY <1>1 DEF MemTypes
<1>12. Before(p, t, i, sz, isz, j, n)
  BY <1>2, <1>3, <1>4, <1>5, <1>6, <1>7, <1>8, <1>9, <1>10, <1>11 DEF Before
<1>13. slotState[p] = "run" => SlotOf("run", TRUE, t, i, sz, isz, j)
  BY <1>1, <1>2, <1>3, <1>4, <1>5, <1>7 DEF Slot, SlotOf
<1> QED BY <1>12, <1>13

LEMMA JobTypes ==
  /\ User \in Jobs /\ User.at = "user"
  /\ \A j \in Jobs : j.a \in Nat /\ j.end \in Nat /\ j.np \in Nat /\ j.segs \in Seq(Nat)
BY DEF User, Jobs

LEMMA NextPage ==
  ASSUME NEW j \in Jobs, NEW x, x = [j EXCEPT !.a = @ + 1]
  PROVE  x \in Jobs /\ x.at = j.at /\ x.np = j.np /\ x.a = j.a + 1 /\ x.end = j.end
<1>1. j.a + 1 \in Nat BY JobTypes, SMT
<1>2. x = [at |-> j.at, np |-> j.np, a |-> j.a + 1, end |-> j.end, segs |-> j.segs] BY DEF Jobs
<1> QED BY <1>1, <1>2 DEF Jobs

\* A process back in user space has no image.
LEMMA BackInUser ==
  ASSUME NEW t, NEW sz \in Nat, Maps(t, PgRoundUp(sz))
  PROVE  SlotOf("run", TRUE, t, NoTable, sz, 0, User) /\ User.at \notin Forks
BY JobTypes DEF SlotOf, Execs, Forks

LEMMA GrowKeeps ==
  ASSUME MemInv, UNCHANGED npages, NEW p \in MemSlots, NEW k \in 1..MaxSz, SbrkGrow(p, k)
  PROVE  MemInv'
<1>1. PICK t, i : \E sz, isz, n \in Nat, j \in Jobs :
        /\ Before(p, t, i, sz, isz, j, n)
        /\ slotState[p] = "run" => SlotOf("run", TRUE, t, i, sz, isz, j)
  BY Here
<1>2. PICK sz \in Nat, isz \in Nat, n \in Nat, j \in Jobs :
        /\ Before(p, t, i, sz, isz, j, n)
        /\ slotState[p] = "run" => SlotOf("run", TRUE, t, i, sz, isz, j)
  BY <1>1
<1>3. slotState[p] = "run" /\ j.at = "user" BY <1>2 DEF SbrkGrow, Runs, Before
<1>4. PICK e \in Nat : e = sz + k /\ sz <= e BY MemoryAssumption, SMT
<1>5. PICK a \in Nat : a = PgRoundUp(sz) BY RoundType
<1>6. PICK x : x = [User EXCEPT !.at = "sbrk", !.a = a, !.end = e] OBVIOUS
<1>7. x \in Jobs /\ x.at = "sbrk" /\ x.a = a /\ x.end = e BY <1>6, JobTypes DEF User, Jobs, Forks, Execs
<1>8. SlotOf("run", TRUE, t, i, sz, isz, x)
  <2>1. SlotOf("run", TRUE, t, i, sz, isz, j) BY <1>2, <1>3
  <2>2. a <= PgRoundUp(e) BY <1>4, <1>5, RoundMonotone
  <2>3. Maps(t, a) /\ i = NoTable /\ isz = 0 BY <1>3, <1>5, <2>1 DEF SlotOf, Execs
  <2>4. Growing(t, x, sz) BY <1>4, <1>5, <1>7, <2>2, <2>3 DEF Growing
  <2> QED BY <1>7, <2>3, <2>4 DEF SlotOf, Execs
<1>9. /\ mpanic' = "none" /\ nfree' = n /\ UNCHANGED <<slotState, frame>>
      /\ table' = [table EXCEPT ![p] = t] /\ image' = [image EXCEPT ![p] = i]
      /\ size' = [size EXCEPT ![p] = sz] /\ imgsz' = [imgsz EXCEPT ![p] = isz]
      /\ job' = [job EXCEPT ![p] = x]
  BY <1>2, <1>4, <1>5, <1>6 DEF SbrkGrow, Goto_job, Before
<1>10. x.at \notin Forks BY <1>7 DEF Forks
<1>11. /\ PagesOf(t) + PagesOf(i) + n = PagesOf(table[p]) + PagesOf(image[p]) + nfree
       /\ Table(t) /\ Table(i)
  BY <1>2 DEF Before
<1> QED BY <1>3, <1>7, <1>8, <1>9, <1>10, <1>11, OwnStep
LEMMA ShrinkKeeps ==
  ASSUME MemInv, UNCHANGED npages, NEW p \in MemSlots, NEW k \in 1..MaxSz, SbrkShrink(p, k)
  PROVE  MemInv'
<1>1. PICK t, i : \E sz, isz, n \in Nat, j \in Jobs :
        /\ Before(p, t, i, sz, isz, j, n)
        /\ slotState[p] = "run" => SlotOf("run", TRUE, t, i, sz, isz, j)
  BY Here
<1>2. PICK sz \in Nat, isz \in Nat, n \in Nat, j \in Jobs :
        /\ Before(p, t, i, sz, isz, j, n)
        /\ slotState[p] = "run" => SlotOf("run", TRUE, t, i, sz, isz, j)
  BY <1>1
<1>3. slotState[p] = "run" /\ j.at = "user" BY <1>2 DEF SbrkShrink, Runs, Before
<1>4. k <= sz BY <1>2 DEF SbrkShrink, Before
<1>5. PICK e \in Nat : e = sz - k /\ e <= sz BY <1>4, SMT
<1>6. SlotOf("run", TRUE, t, i, sz, isz, j) BY <1>2, <1>3
<1>7. Table(t) /\ Table(i) BY <1>2 DEF Before
<1>8. Maps(t, PgRoundUp(sz)) /\ i = NoTable /\ isz = 0 BY <1>3, <1>6 DEF SlotOf, Execs
<1>9. PICK d : d = uvmdealloc(t, sz, e, n) OBVIOUS
<1>10. /\ ~d.panics /\ d.n \in Nat /\ Table(d.t) /\ Maps(d.t, PgRoundUp(e))
       /\ PagesOf(d.t) + d.n = PagesOf(t) + n
  <2>1. PgRoundUp(e) <= PgRoundUp(sz) BY <1>5, RoundMonotone
  <2> QED BY <1>7, <1>8, <1>9, <2>1, Deallocs
<1>11. d = uvmdealloc(table[p], size[p], size[p] - k, nfree) BY <1>2, <1>5, <1>9 DEF Before
<1>12. /\ mpanic' = "none" /\ nfree' = d.n /\ UNCHANGED <<slotState, frame>>
       /\ table' = [table EXCEPT ![p] = d.t] /\ image' = [image EXCEPT ![p] = i]
       /\ size' = [size EXCEPT ![p] = e] /\ imgsz' = [imgsz EXCEPT ![p] = isz]
       /\ job' = [job EXCEPT ![p] = j]
  BY <1>2, <1>5, <1>10, <1>11 DEF SbrkShrink, Before
<1>13. SlotOf("run", TRUE, d.t, i, e, isz, j) /\ j.at \notin Forks
  BY <1>3, <1>8, <1>10 DEF SlotOf, Execs, Forks
<1>14. PagesOf(d.t) + PagesOf(i) + d.n = PagesOf(table[p]) + PagesOf(image[p]) + nfree
  <2>1. PagesOf(d.t) \in Nat BY <1>10, PagesOfType
  <2>2. PagesOf(t) \in Nat /\ PagesOf(i) \in Nat BY <1>7, PagesOfType
  <2>3. PagesOf(d.t) + PagesOf(i) + d.n = PagesOf(t) + PagesOf(i) + n
    BY <1>10, <2>1, <2>2, SMT
  <2> QED BY <1>2, <2>3 DEF Before
<1> QED BY <1>3, <1>7, <1>10, <1>12, <1>13, <1>14, OwnStep

LEMMA SbrkPageKeeps ==
  ASSUME MemInv, UNCHANGED npages, NEW p \in MemSlots, SbrkPage(p)
  PROVE  MemInv'
<1>1. PICK t, i : \E sz, isz, n \in Nat, j \in Jobs :
        /\ Before(p, t, i, sz, isz, j, n)
        /\ slotState[p] = "run" => SlotOf("run", TRUE, t, i, sz, isz, j)
  BY Here
<1>2. PICK sz \in Nat, isz \in Nat, n \in Nat, j \in Jobs :
        /\ Before(p, t, i, sz, isz, j, n)
        /\ slotState[p] = "run" => SlotOf("run", TRUE, t, i, sz, isz, j)
  BY <1>1
<1>3. slotState[p] = "run" /\ j.at = "sbrk" BY <1>2 DEF SbrkPage, Runs, Before
<1>4. SlotOf("run", TRUE, t, i, sz, isz, j) BY <1>2, <1>3
<1>5. /\ Table(t) /\ Table(i) /\ PagesOf(t) \in Nat /\ PagesOf(i) \in Nat
      /\ PagesOf(t) = PagesOf(table[p]) /\ PagesOf(i) = PagesOf(image[p]) /\ n = nfree
  BY <1>2 DEF Before
<1>6. Growing(t, j, sz) /\ i = NoTable /\ isz = 0 BY <1>3, <1>4 DEF SlotOf, Execs
<1>7. PICK a \in Nat : a = j.a BY JobTypes
<1>8. PICK e \in Nat : e = j.end BY JobTypes
<1>9. Maps(t, a) /\ PgRoundUp(sz) <= a /\ a <= PgRoundUp(e) /\ sz <= e
  BY <1>6, <1>7, <1>8 DEF Growing
<1>10. /\ UNCHANGED <<slotState, frame>>
       /\ image' = [image EXCEPT ![p] = i] /\ imgsz' = [imgsz EXCEPT ![p] = isz]
  BY <1>2 DEF SbrkPage, Before
<1>11. CASE a * PGSIZE >= e
  <2>1. /\ mpanic' = "none" /\ nfree' = n /\ table' = [table EXCEPT ![p] = t]
        /\ size' = [size EXCEPT ![p] = e] /\ job' = [job EXCEPT ![p] = User]
    BY <1>2, <1>7, <1>8, <1>11 DEF SbrkPage, Before, Goto_job
  <2>2. a = PgRoundUp(e)
    <3>1. a >= PgRoundUp(e) BY <1>11, RoundUp
    <3> QED BY <1>9, <3>1, RoundType, SMT
  <2>3. SlotOf("run", TRUE, t, i, e, isz, User) /\ User.at \notin Forks
    BY <1>6, <1>9, <2>2, BackInUser
  <2> QED BY <1>3, <1>5, <1>10, <2>1, <2>3, JobTypes, OwnStep
<1>12. CASE ~(a * PGSIZE >= e)
  <2>1. PICK w : w = MapNew(t, a, n) OBVIOUS
  <2>2. /\ w.ok \in BOOLEAN /\ w.n \in Nat /\ Table(w.t)
        /\ IF w.ok THEN Maps(w.t, a + 1) ELSE Maps(w.t, a)
        /\ PagesOf(w.t) + w.n = PagesOf(t) + n
    BY <1>5, <1>9, <2>1, MapsNew
  <2>3. PICK r \in Nat : r = PgRoundUp(sz) BY RoundType
  <2>4. PICK d : d = uvmdealloc(w.t, a * PGSIZE, r * PGSIZE, w.n) OBVIOUS
  <2>5. IF w.ok
          THEN /\ nfree' = w.n /\ table' = [table EXCEPT ![p] = w.t]
               /\ job' = [job EXCEPT ![p] = [job[p] EXCEPT !.a = @ + 1]]
               /\ UNCHANGED mpanic
          ELSE /\ nfree' = d.n /\ table' = [table EXCEPT ![p] = d.t]
               /\ job' = [job EXCEPT ![p] = User]
               /\ mpanic' = IF d.panics THEN "uvmunmap" ELSE "none"
    BY <1>2, <1>7, <1>8, <1>12, <2>1, <2>3, <2>4 DEF SbrkPage, Before, Goto_job
  <2>6. size' = [size EXCEPT ![p] = sz]
    BY <1>2, <1>7, <1>8, <1>12 DEF SbrkPage, Before
  <2>7. PagesOf(w.t) \in Nat BY <2>2, PagesOfType
  <2>8. CASE w.ok
    <3>1. PICK x : x = [j EXCEPT !.a = @ + 1] OBVIOUS
    <3>2. x \in Jobs /\ x.at = "sbrk" /\ x.a = a + 1 /\ x.end = e
      BY <1>3, <1>7, <1>8, <3>1, NextPage
    <3>3. /\ mpanic' = "none" /\ nfree' = w.n /\ table' = [table EXCEPT ![p] = w.t]
          /\ job' = [job EXCEPT ![p] = x]
      BY <1>2, <2>5, <2>8, <3>1 DEF Before
    <3>4. PgRoundUp(sz) <= a + 1 /\ a + 1 <= PgRoundUp(e)
      <4>1. ~(a >= PgRoundUp(e)) BY <1>12, RoundUp
      <4> QED BY <1>9, <4>1, RoundType, SMT
    <3>5. Growing(w.t, x, sz) BY <1>9, <2>2, <2>8, <3>2, <3>4 DEF Growing
    <3>6. SlotOf("run", TRUE, w.t, i, sz, isz, x) /\ x.at \notin Forks
      BY <1>6, <3>2, <3>5 DEF SlotOf, Execs, Forks
    <3>7. PagesOf(w.t) + PagesOf(i) + w.n = PagesOf(table[p]) + PagesOf(image[p]) + nfree
      <4>1. PagesOf(w.t) + PagesOf(i) + w.n = PagesOf(t) + PagesOf(i) + n
        BY <1>5, <2>2, <2>7, SMT
      <4> QED BY <1>5, <4>1
    <3> QED BY <1>3, <1>5, <1>10, <2>2, <2>6, <3>2, <3>3, <3>6, <3>7, OwnStep
  <2>9. CASE ~w.ok
    <3>1. a * PGSIZE \in Nat /\ r * PGSIZE \in Nat BY MemoryAssumption, SMT
    <3>2. PgRoundUp(a * PGSIZE) = a /\ PgRoundUp(r * PGSIZE) = r BY RoundPages
    <3>3. /\ ~d.panics /\ d.n \in Nat /\ Table(d.t) /\ Maps(d.t, r)
          /\ PagesOf(d.t) + d.n = PagesOf(w.t) + w.n
      <4>1. PICK o \in Nat : o = a * PGSIZE BY <3>1
      <4>2. PICK q \in Nat : q = r * PGSIZE BY <3>1
      <4>3. d = uvmdealloc(w.t, o, q, w.n) BY <2>4, <4>1, <4>2
      <4>4. Maps(w.t, PgRoundUp(o)) /\ PgRoundUp(q) <= PgRoundUp(o) /\ PgRoundUp(q) = r
        BY <1>9, <2>2, <2>3, <2>9, <3>2, <4>1, <4>2
      <4> QED BY <2>2, <4>3, <4>4, Deallocs
    <3>4. /\ mpanic' = "none" /\ nfree' = d.n /\ table' = [table EXCEPT ![p] = d.t]
          /\ job' = [job EXCEPT ![p] = User]
      BY <2>5, <2>9, <3>3
    <3>5. SlotOf("run", TRUE, d.t, i, sz, isz, User) /\ User.at \notin Forks
      BY <1>6, <2>3, <3>3, BackInUser
    <3>6. PagesOf(d.t) + PagesOf(i) + d.n = PagesOf(table[p]) + PagesOf(image[p]) + nfree
      <4>1. PagesOf(d.t) \in Nat BY <3>3, PagesOfType
      <4>2. PagesOf(d.t) + PagesOf(i) + d.n = PagesOf(t) + PagesOf(i) + n
        BY <1>5, <2>2, <2>7, <3>3, <4>1, SMT
      <4> QED BY <1>5, <4>2
    <3> QED BY <1>3, <1>5, <1>10, <2>6, <3>3, <3>4, <3>5, <3>6, JobTypes, OwnStep
  <2> QED BY <2>2, <2>8, <2>9
<1> QED BY <1>11, <1>12
LEMMA ExecTableKeeps ==
  ASSUME MemInv, UNCHANGED npages, NEW p \in MemSlots, NEW segs \in Images, ExecTable(p, segs)
  PROVE  MemInv'
<1>1. PICK t, i : \E sz, isz, n \in Nat, j \in Jobs :
        /\ Before(p, t, i, sz, isz, j, n)
        /\ slotState[p] = "run" => SlotOf("run", TRUE, t, i, sz, isz, j)
  BY Here
<1>2. PICK sz \in Nat, isz \in Nat, n \in Nat, j \in Jobs :
        /\ Before(p, t, i, sz, isz, j, n)
        /\ slotState[p] = "run" => SlotOf("run", TRUE, t, i, sz, isz, j)
  BY <1>1
<1>3. slotState[p] = "run" /\ j.at = "user" BY <1>2 DEF ExecTable, Runs, Before
<1>4. SlotOf("run", TRUE, t, i, sz, isz, j) BY <1>2, <1>3
<1>5. /\ Table(t) /\ Table(i) /\ PagesOf(t) \in Nat
      /\ PagesOf(t) = PagesOf(table[p]) /\ PagesOf(i) = PagesOf(image[p]) /\ n = nfree
  BY <1>2 DEF Before
<1>6. Maps(t, PgRoundUp(sz)) /\ i = NoTable BY <1>3, <1>4 DEF SlotOf, Execs
<1>7. PICK w : w = proc_pagetable(n) OBVIOUS
<1>8. PICK x : x = [User EXCEPT !.at = "exec", !.segs = segs] OBVIOUS
<1>9. /\ w.ok /\ mpanic' = "none" /\ nfree' = w.n /\ UNCHANGED <<slotState, frame>>
      /\ table' = [table EXCEPT ![p] = t] /\ image' = [image EXCEPT ![p] = w.t]
      /\ size' = [size EXCEPT ![p] = sz] /\ imgsz' = [imgsz EXCEPT ![p] = 0]
      /\ job' = [job EXCEPT ![p] = x]
  BY <1>2, <1>7, <1>8 DEF ExecTable, Goto_job, Before
<1>10. w.n \in Nat /\ Table(w.t) /\ Maps(w.t, 0) /\ PagesOf(w.t) + w.n = n
  BY <1>7, <1>9, NewTable
<1>11. x \in Jobs /\ x.at = "exec"
  BY <1>8, JobTypes, MemoryAssumption DEF User, Jobs, Execs
<1>12. SlotOf("run", TRUE, t, w.t, sz, 0, x) /\ x.at \notin Forks
  BY <1>6, <1>10, <1>11, RoundZero DEF SlotOf, Execs, Forks
<1>13. PagesOf(t) + PagesOf(w.t) + w.n = PagesOf(table[p]) + PagesOf(image[p]) + nfree
  <2>1. PagesOf(w.t) \in Nat /\ PagesOf(i) = 0 BY <1>6, <1>10, PagesOfType, NoTablePages
  <2>2. PagesOf(t) + PagesOf(w.t) + w.n = PagesOf(t) + PagesOf(i) + n
    BY <1>5, <1>10, <2>1, SMT
  <2> QED BY <1>5, <2>2
<1> QED BY <1>3, <1>5, <1>9, <1>10, <1>11, <1>12, <1>13, OwnStep

\* "bad:" frees the image, whatever it has got so far.
LEMMA BadKeeps ==
  ASSUME MemInv, UNCHANGED npages, NEW p \in MemSlots, slotState[p] = "run",
         NEW t, NEW i, NEW sz \in Nat, NEW isz \in Nat, NEW n \in Nat, NEW j \in Jobs,
         Before(p, t, i, sz, isz, j, n), Maps(t, PgRoundUp(sz)),
         NEW u, Table(u), Maps(u, PgRoundUp(isz)), NEW m \in Nat,
         PagesOf(u) + m = PagesOf(i) + n,
         Bad(p, u, m), UNCHANGED <<slotState, frame, table, size>>
  PROVE  MemInv'
<1>1. PICK d : d = proc_freepagetable(u, isz, m) OBVIOUS
<1>2. ~d.panics /\ d.n = PagesOf(u) + m BY <1>1, Frees
<1>3. /\ PagesOf(t) \in Nat /\ PagesOf(i) \in Nat /\ PagesOf(u) \in Nat /\ Table(t)
      /\ PagesOf(t) = PagesOf(table[p]) /\ PagesOf(i) = PagesOf(image[p]) /\ n = nfree
  BY PagesOfType DEF Before
<1>4. d.n \in Nat /\ d.n = PagesOf(i) + n BY <1>2, <1>3, SMT
<1>5. /\ mpanic' = "none" /\ nfree' = d.n /\ UNCHANGED <<slotState, frame>>
      /\ table' = [table EXCEPT ![p] = t] /\ image' = [image EXCEPT ![p] = NoTable]
      /\ size' = [size EXCEPT ![p] = sz] /\ imgsz' = [imgsz EXCEPT ![p] = 0]
      /\ job' = [job EXCEPT ![p] = User]
  BY <1>1, <1>2 DEF Bad, Goto_job, Before
<1>6. PagesOf(t) + PagesOf(NoTable) + d.n = PagesOf(table[p]) + PagesOf(image[p]) + nfree
  <2>1. PagesOf(t) + 0 + d.n = PagesOf(t) + PagesOf(i) + n BY <1>3, <1>4, SMT
  <2> QED BY <1>3, <2>1, NoTablePages
<1> QED BY <1>3, <1>4, <1>5, <1>6, BackInUser, NoTablePages, JobTypes, 0 \in Nat, OwnStep

LEMMA BadFileKeeps ==
  ASSUME MemInv, UNCHANGED npages, NEW p \in MemSlots, ExecBadFile(p)
  PROVE  MemInv'
<1>1. PICK t, i : \E sz, isz, n \in Nat, j \in Jobs :
        /\ Before(p, t, i, sz, isz, j, n)
        /\ slotState[p] = "run" => SlotOf("run", TRUE, t, i, sz, isz, j)
  BY Here
<1>2. PICK sz \in Nat, isz \in Nat, n \in Nat, j \in Jobs :
        /\ Before(p, t, i, sz, isz, j, n)
        /\ slotState[p] = "run" => SlotOf("run", TRUE, t, i, sz, isz, j)
  BY <1>1
<1>3. slotState[p] = "run" /\ j.at = "exec" BY <1>2 DEF ExecBadFile, Runs, Before
<1>4. Maps(t, PgRoundUp(sz)) /\ Maps(i, PgRoundUp(isz)) BY <1>2, <1>3 DEF SlotOf
<1>5. Bad(p, i, n) /\ UNCHANGED <<slotState, frame, table, size>> /\ Table(i)
  BY <1>2 DEF ExecBadFile, Before
<1> QED BY <1>2, <1>3, <1>4, <1>5, BadKeeps

LEMMA LoadedKeeps ==
  ASSUME MemInv, UNCHANGED npages, NEW p \in MemSlots, ExecLoaded(p)
  PROVE  MemInv'
<1>1. PICK t, i : \E sz, isz, n \in Nat, j \in Jobs :
        /\ Before(p, t, i, sz, isz, j, n)
        /\ slotState[p] = "run" => SlotOf("run", TRUE, t, i, sz, isz, j)
  BY Here
<1>2. PICK sz \in Nat, isz \in Nat, n \in Nat, j \in Jobs :
        /\ Before(p, t, i, sz, isz, j, n)
        /\ slotState[p] = "run" => SlotOf("run", TRUE, t, i, sz, isz, j)
  BY <1>1
<1>3. slotState[p] = "run" /\ j.at = "exec_load" BY <1>2 DEF ExecLoaded, Runs, Before
<1>4. Maps(t, PgRoundUp(sz)) /\ Growing(i, j, isz) BY <1>2, <1>3 DEF SlotOf
<1>5. PICK a \in Nat : a = j.a BY JobTypes
<1>6. PICK e \in Nat : e = j.end BY JobTypes
<1>7. a = PgRoundUp(e)
  <2>1. a * PGSIZE >= e BY <1>2, <1>5, <1>6 DEF ExecLoaded, Before
  <2>2. a >= PgRoundUp(e) BY <2>1, RoundUp
  <2>3. a <= PgRoundUp(e) BY <1>4, <1>5, <1>6 DEF Growing
  <2> QED BY <2>2, <2>3, RoundType, SMT
<1>8. PICK x : x = [j EXCEPT !.at = "exec"] OBVIOUS
<1>9. x \in Jobs /\ x.at = "exec" BY <1>8 DEF Jobs, Execs
<1>10. /\ mpanic' = "none" /\ nfree' = n /\ UNCHANGED <<slotState, frame>>
       /\ table' = [table EXCEPT ![p] = t] /\ image' = [image EXCEPT ![p] = i]
       /\ size' = [size EXCEPT ![p] = sz] /\ imgsz' = [imgsz EXCEPT ![p] = e]
       /\ job' = [job EXCEPT ![p] = x]
  BY <1>2, <1>6, <1>8 DEF ExecLoaded, Goto_job, Before
<1>11. Maps(i, PgRoundUp(e)) BY <1>4, <1>5, <1>7 DEF Growing
<1>12. SlotOf("run", TRUE, t, i, sz, e, x) /\ x.at \notin Forks
  BY <1>4, <1>9, <1>11 DEF SlotOf, Execs, Forks
<1>13. /\ PagesOf(t) + PagesOf(i) + n = PagesOf(table[p]) + PagesOf(image[p]) + nfree
       /\ Table(t) /\ Table(i)
  BY <1>2 DEF Before
<1> QED BY <1>3, <1>9, <1>10, <1>12, <1>13, OwnStep
LEMMA HeadTail ==
  ASSUME NEW s \in Seq(Nat), s # <<>>
  PROVE  Head(s) \in Nat /\ Tail(s) \in Seq(Nat)
BY SMT

LEMMA SegmentKeeps ==
  ASSUME MemInv, UNCHANGED npages, NEW p \in MemSlots, ExecSegment(p)
  PROVE  MemInv'
<1>1. PICK t, i : \E sz, isz, n \in Nat, j \in Jobs :
        /\ Before(p, t, i, sz, isz, j, n)
        /\ slotState[p] = "run" => SlotOf("run", TRUE, t, i, sz, isz, j)
  BY Here
<1>2. PICK sz \in Nat, isz \in Nat, n \in Nat, j \in Jobs :
        /\ Before(p, t, i, sz, isz, j, n)
        /\ slotState[p] = "run" => SlotOf("run", TRUE, t, i, sz, isz, j)
  BY <1>1
<1>3. slotState[p] = "run" /\ j.at = "exec" BY <1>2 DEF ExecSegment, Runs, Before
<1>4. Maps(t, PgRoundUp(sz)) /\ Maps(i, PgRoundUp(isz)) BY <1>2, <1>3 DEF SlotOf
<1>5. /\ Table(t) /\ Table(i)
      /\ PagesOf(t) + PagesOf(i) + n = PagesOf(table[p]) + PagesOf(image[p]) + nfree
  BY <1>2 DEF Before
<1>6. PICK last \in BOOLEAN : last = (j.segs = <<>>) OBVIOUS
<1>7. j.segs \in Seq(Nat) BY JobTypes
<1>8. PICK r \in Nat : r = PgRoundUp(isz) BY RoundType
<1>9. PICK from \in Nat : from = IF last THEN r * PGSIZE ELSE isz
  <2>1. r * PGSIZE \in Nat BY MemoryAssumption, SMT
  <2> QED BY <2>1
<1>10. PICK end \in Nat : end = IF last THEN from + 2 * PGSIZE ELSE Head(j.segs)
  <2>1. from + 2 * PGSIZE \in Nat BY MemoryAssumption, SMT
  <2>2. ~last => Head(j.segs) \in Nat BY <1>6, <1>7, HeadTail
  <2> QED BY <2>1, <2>2
<1>11. PICK skip : skip = [j EXCEPT !.segs = Tail(@)] OBVIOUS
<1>12. PICK go : go = [j EXCEPT !.at = IF last THEN "exec_stack" ELSE "exec_load",
                                !.a = PgRoundUp(from), !.end = end,
                                !.segs = IF last THEN <<>> ELSE Tail(@)]
  OBVIOUS
<1>13. /\ UNCHANGED <<slotState, frame, table, size>>
       /\ IF end < from THEN /\ Goto_job(p, skip)
                             /\ UNCHANGED <<nfree, image, imgsz, mpanic>>
          ELSE IF end = 0 THEN Bad(p, i, n)
          ELSE /\ Goto_job(p, go)
               /\ UNCHANGED <<nfree, image, imgsz, mpanic>>
  <2>1. j = job[p] /\ isz = imgsz[p] /\ i = image[p] /\ n = nfree BY <1>2 DEF Before
  <2>2. UNCHANGED <<slotState, frame, table, size>> BY DEF ExecSegment
  <2> QED BY <1>6, <1>8, <1>9, <1>10, <1>11, <1>12, <2>1, <2>2 DEF ExecSegment
<1>14. ASSUME UNCHANGED <<nfree, image, imgsz, mpanic>>
       PROVE  /\ mpanic' = "none" /\ nfree' = n /\ UNCHANGED <<slotState, frame>>
              /\ table' = [table EXCEPT ![p] = t] /\ image' = [image EXCEPT ![p] = i]
              /\ size' = [size EXCEPT ![p] = sz] /\ imgsz' = [imgsz EXCEPT ![p] = isz]
  BY <1>2, <1>13, <1>14 DEF Before
<1>15. CASE end < from
  <2>1. ~last
    <3> SUFFICES ASSUME last PROVE FALSE OBVIOUS
    <3>1. end = from + 2 * PGSIZE BY <1>10
    <3>2. PICK s \in Nat : s = PGSIZE BY MemoryAssumption
    <3>3. ~(from + 2 * s < from) BY SMT
    <3> QED BY <1>15, <3>1, <3>2, <3>3
  <2>2. Tail(j.segs) \in Seq(Nat) BY <1>6, <1>7, <2>1, HeadTail
  <2>3. skip \in Jobs /\ skip.at = "exec" BY <1>3, <1>11, <2>2 DEF Jobs, Execs
  <2>4. SlotOf("run", TRUE, t, i, sz, isz, skip) /\ skip.at \notin Forks
    BY <1>4, <2>3 DEF SlotOf, Execs, Forks
  <2>5. UNCHANGED <<nfree, image, imgsz, mpanic>> /\ job' = [job EXCEPT ![p] = skip]
    BY <1>13, <1>15 DEF Goto_job
  <2>6. /\ mpanic' = "none" /\ nfree' = n /\ UNCHANGED <<slotState, frame>>
        /\ table' = [table EXCEPT ![p] = t] /\ image' = [image EXCEPT ![p] = i]
        /\ size' = [size EXCEPT ![p] = sz] /\ imgsz' = [imgsz EXCEPT ![p] = isz]
    BY <1>14, <2>5
  <2> QED BY <1>3, <1>5, <2>3, <2>4, <2>5, <2>6, OwnStep
<1>16. CASE ~(end < from) /\ end = 0
  <2>1. Bad(p, i, n) BY <1>13, <1>16
  <2> QED BY <1>2, <1>3, <1>4, <1>5, <1>13, <2>1, BadKeeps
<1>17. CASE ~(end < from) /\ end # 0
  <2>1. UNCHANGED <<nfree, image, imgsz, mpanic>> /\ job' = [job EXCEPT ![p] = go]
    BY <1>13, <1>17 DEF Goto_job
  <2>2. Tail(j.segs) \in Seq(Nat) \/ last BY <1>6, <1>7, HeadTail
  <2>3. PICK a \in Nat : a = PgRoundUp(from) BY RoundType
  <2>4. /\ go \in Jobs /\ go.at = IF last THEN "exec_stack" ELSE "exec_load"
        /\ go.a = a /\ go.end = end
    <3>1. (IF last THEN <<>> ELSE Tail(j.segs)) \in Seq(Nat) BY <2>2
    <3>2. go = [at |-> IF last THEN "exec_stack" ELSE "exec_load", np |-> j.np, a |-> a,
                end |-> end, segs |-> IF last THEN <<>> ELSE Tail(j.segs)]
      BY <1>12, <2>3 DEF Jobs
    <3>3. (IF last THEN "exec_stack" ELSE "exec_load") \in Execs BY DEF Execs
    <3> QED BY <3>1, <3>2, <3>3, JobTypes DEF Jobs
  <2>5. a = r
    <3>1. CASE last BY <1>9, <2>3, <3>1, RoundPages
    <3>2. CASE ~last BY <1>8, <1>9, <2>3, <3>2
    <3> QED BY <3>1, <3>2
  <2>6. a <= PgRoundUp(end) BY <1>17, <2>3, RoundMonotone, from <= end
  <2>7. isz <= end
    <3>1. r * PGSIZE >= isz BY <1>8, RoundUp, r >= r
    <3>2. isz <= from
      <4>1. CASE last BY <1>9, <3>1, <4>1, SMT
      <4>2. CASE ~last BY <1>9, <4>2, SMT
      <4> QED BY <4>1, <4>2
    <3> QED BY <1>17, <3>2, SMT
  <2>8. last => end = (r + 2) * PGSIZE
    <3>1. (r + 2) * PGSIZE = r * PGSIZE + 2 * PGSIZE BY MemoryAssumption, SMT
    <3> QED BY <1>9, <1>10, <3>1
  <2>9. r <= a BY <2>5, SMT
  <2>10. Growing(i, go, isz) BY <1>4, <1>8, <2>4, <2>5, <2>6, <2>7, <2>9 DEF Growing
  <2>11. SlotOf("run", TRUE, t, i, sz, isz, go) /\ go.at \notin Forks
    <3>1. go.at \in {"exec_stack", "exec_load"} /\ (go.at = "exec_stack" => last) BY <2>4
    <3> QED BY <1>4, <1>8, <2>4, <2>8, <2>10, <3>1 DEF SlotOf, Execs, Forks
  <2>12. /\ mpanic' = "none" /\ nfree' = n /\ UNCHANGED <<slotState, frame>>
         /\ table' = [table EXCEPT ![p] = t] /\ image' = [image EXCEPT ![p] = i]
         /\ size' = [size EXCEPT ![p] = sz] /\ imgsz' = [imgsz EXCEPT ![p] = isz]
    BY <1>14, <2>1
  <2> QED BY <1>3, <1>5, <2>1, <2>4, <2>11, <2>12, OwnStep
<1> QED BY <1>15, <1>16, <1>17

LEMMA ExecPageKeeps ==
  ASSUME MemInv, UNCHANGED npages, NEW p \in MemSlots, ExecPage(p)
  PROVE  MemInv'
<1>1. PICK t, i : \E sz, isz, n \in Nat, j \in Jobs :
        /\ Before(p, t, i, sz, isz, j, n)
        /\ slotState[p] = "run" => SlotOf("run", TRUE, t, i, sz, isz, j)
  BY Here
<1>2. PICK sz \in Nat, isz \in Nat, n \in Nat, j \in Jobs :
        /\ Before(p, t, i, sz, isz, j, n)
        /\ slotState[p] = "run" => SlotOf("run", TRUE, t, i, sz, isz, j)
  BY <1>1
<1>3. slotState[p] = "run" /\ j.at \in {"exec_load", "exec_stack"}
  BY <1>2 DEF ExecPage, Runs, Before
<1>4. SlotOf("run", TRUE, t, i, sz, isz, j) BY <1>2, <1>3
<1>5. /\ Table(t) /\ Table(i) /\ PagesOf(t) \in Nat /\ PagesOf(i) \in Nat
      /\ PagesOf(t) = PagesOf(table[p]) /\ PagesOf(i) = PagesOf(image[p]) /\ n = nfree
  BY <1>2 DEF Before
<1>6. Maps(t, PgRoundUp(sz)) /\ Growing(i, j, isz) BY <1>3, <1>4 DEF SlotOf
<1>7. PICK a \in Nat : a = j.a BY JobTypes
<1>8. PICK e \in Nat : e = j.end BY JobTypes
<1>9. PICK r \in Nat : r = PgRoundUp(isz) BY RoundType
<1>10. Maps(i, a) /\ r <= a /\ a <= PgRoundUp(e) /\ isz <= e
  BY <1>6, <1>7, <1>8, <1>9 DEF Growing
<1>11. PICK w : w = MapNew(i, a, n) OBVIOUS
<1>12. /\ w.ok \in BOOLEAN /\ w.n \in Nat /\ Table(w.t)
       /\ IF w.ok THEN Maps(w.t, a + 1) ELSE Maps(w.t, a)
       /\ PagesOf(w.t) + w.n = PagesOf(i) + n
  BY <1>5, <1>10, <1>11, MapsNew
<1>13. PICK from : from = IF j.at = "exec_stack" THEN e - 2 * PGSIZE ELSE isz OBVIOUS
<1>14. from \in Nat /\ PgRoundUp(from) = r
  <2>1. CASE j.at = "exec_stack"
    <3>1. e = (r + 2) * PGSIZE BY <1>4, <1>8, <1>9, <2>1 DEF SlotOf
    <3>2. (r + 2) * PGSIZE - 2 * PGSIZE = r * PGSIZE /\ r * PGSIZE \in Nat
      BY MemoryAssumption, SMT
    <3>3. from = r * PGSIZE BY <1>13, <2>1, <3>1, <3>2
    <3> QED BY <3>2, <3>3, RoundPages
  <2>2. CASE j.at # "exec_stack" BY <1>9, <1>13, <2>2
  <2> QED BY <2>1, <2>2
<1>15. PICK d : d = uvmdealloc(w.t, a * PGSIZE, PgRoundUp(from) * PGSIZE, w.n) OBVIOUS
<1>16. /\ UNCHANGED <<slotState, frame, table, size>> /\ a * PGSIZE < e
       /\ IF w.ok
            THEN /\ nfree' = w.n /\ image' = [image EXCEPT ![p] = w.t]
                 /\ job' = [job EXCEPT ![p] = [job[p] EXCEPT !.a = @ + 1]]
                 /\ UNCHANGED <<imgsz, mpanic>>
            ELSE IF d.panics THEN mpanic' = "uvmunmap" /\ UNCHANGED <<nfree, job, image, imgsz>>
                 ELSE Bad(p, d.t, d.n)
  <2>1. j = job[p] /\ isz = imgsz[p] /\ i = image[p] /\ n = nfree BY <1>2 DEF Before
  <2>2. UNCHANGED <<slotState, frame, table, size>> BY DEF ExecPage
  <2> QED BY <1>7, <1>8, <1>11, <1>13, <1>15, <2>1, <2>2 DEF ExecPage, Goto_job
<1>17. CASE w.ok
  <2>1. PICK x : x = [j EXCEPT !.a = @ + 1] OBVIOUS
  <2>2. x \in Jobs /\ x.at = j.at /\ x.a = a + 1 /\ x.end = e
    BY <1>7, <1>8, <2>1, NextPage
  <2>3. /\ mpanic' = "none" /\ nfree' = w.n /\ UNCHANGED <<slotState, frame>>
        /\ table' = [table EXCEPT ![p] = t] /\ image' = [image EXCEPT ![p] = w.t]
        /\ size' = [size EXCEPT ![p] = sz] /\ imgsz' = [imgsz EXCEPT ![p] = isz]
        /\ job' = [job EXCEPT ![p] = x]
    BY <1>2, <1>16, <1>17, <2>1 DEF Before
  <2>4. r <= a + 1 /\ a + 1 <= PgRoundUp(e)
    <3>1. a * PGSIZE \in Nat BY MemoryAssumption, SMT
    <3>2. ~(a * PGSIZE >= e) BY <1>16, <3>1, SMT
    <3>3. ~(a >= PgRoundUp(e)) BY <3>2, RoundUp
    <3> QED BY <1>10, <3>3, RoundType, SMT
  <2>5. Growing(w.t, x, isz) BY <1>9, <1>10, <1>12, <1>17, <2>2, <2>4 DEF Growing
  <2>6. SlotOf("run", TRUE, t, w.t, sz, isz, x) /\ x.at \notin Forks
    BY <1>3, <1>4, <1>6, <1>8, <2>2, <2>5 DEF SlotOf, Execs, Forks
  <2>7. PagesOf(t) + PagesOf(w.t) + w.n = PagesOf(table[p]) + PagesOf(image[p]) + nfree
    <3>1. PagesOf(w.t) \in Nat BY <1>12, PagesOfType
    <3>2. PagesOf(t) + PagesOf(w.t) + w.n = PagesOf(t) + PagesOf(i) + n
      BY <1>5, <1>12, <3>1, SMT
    <3> QED BY <1>5, <3>2
  <2> QED BY <1>3, <1>5, <1>12, <2>2, <2>3, <2>6, <2>7, OwnStep
<1>18. CASE ~w.ok
  <2>1. PICK o \in Nat : o = a * PGSIZE /\ PgRoundUp(o) = a
    <3>1. a * PGSIZE \in Nat BY MemoryAssumption, SMT
    <3> QED BY <3>1, RoundPages
  <2>2. PICK q \in Nat : q = PgRoundUp(from) * PGSIZE /\ PgRoundUp(q) = r
    <3>1. r * PGSIZE \in Nat BY MemoryAssumption, SMT
    <3> QED BY <1>14, <3>1, RoundPages
  <2>3. d = uvmdealloc(w.t, o, q, w.n) BY <1>15, <2>1, <2>2
  <2>4. Maps(w.t, PgRoundUp(o)) /\ PgRoundUp(q) <= PgRoundUp(o)
    BY <1>10, <1>12, <1>18, <2>1, <2>2
  <2>5. /\ ~d.panics /\ d.n \in Nat /\ Table(d.t) /\ Maps(d.t, PgRoundUp(isz))
        /\ PagesOf(d.t) + d.n = PagesOf(w.t) + w.n
    <3>1. /\ ~d.panics /\ d.n \in Nat /\ Table(d.t) /\ Maps(d.t, PgRoundUp(q))
          /\ PagesOf(d.t) + d.n = PagesOf(w.t) + w.n
      BY <1>12, <2>3, <2>4, Deallocs
    <3> QED BY <1>9, <2>2, <3>1
  <2>6. Bad(p, d.t, d.n) BY <1>16, <1>18, <2>5
  <2>7. PagesOf(d.t) + d.n = PagesOf(i) + n BY <1>12, <2>5
  <2> QED BY <1>2, <1>3, <1>6, <1>16, <2>5, <2>6, <2>7, BadKeeps
<1> QED BY <1>12, <1>17, <1>18

\* What exec() has at its end: the whole image.
LEMMA StackDone ==
  ASSUME NEW t, NEW i, NEW sz \in Nat, NEW isz \in Nat, NEW j \in Jobs,
         SlotOf("run", TRUE, t, i, sz, isz, j), j.at = "exec_stack", j.a * PGSIZE >= j.end
  PROVE  Maps(t, PgRoundUp(sz)) /\ Maps(i, PgRoundUp(j.end))
<1>1. PICK a \in Nat : a = j.a BY JobTypes
<1>2. PICK e \in Nat : e = j.end BY JobTypes
<1>3. Maps(t, PgRoundUp(sz)) /\ Maps(i, a) /\ a <= PgRoundUp(e)
  BY <1>1, <1>2 DEF SlotOf, Growing
<1>4. a >= PgRoundUp(e) BY <1>1, <1>2, RoundUp
<1>5. a = PgRoundUp(e) BY <1>3, <1>4, RoundType, SMT
<1> QED BY <1>2, <1>3, <1>5

LEMMA CommitKeeps ==
  ASSUME MemInv, UNCHANGED npages, NEW p \in MemSlots, ExecCommit(p)
  PROVE  MemInv'
<1>1. PICK t, i : \E sz, isz, n \in Nat, j \in Jobs :
        /\ Before(p, t, i, sz, isz, j, n)
        /\ slotState[p] = "run" => SlotOf("run", TRUE, t, i, sz, isz, j)
  BY Here
<1>2. PICK sz \in Nat, isz \in Nat, n \in Nat, j \in Jobs :
        /\ Before(p, t, i, sz, isz, j, n)
        /\ slotState[p] = "run" => SlotOf("run", TRUE, t, i, sz, isz, j)
  BY <1>1
<1>3. slotState[p] = "run" /\ j.at = "exec_stack" /\ j.a * PGSIZE >= j.end
  BY <1>2 DEF ExecCommit, Runs, Before
<1>4. Maps(t, PgRoundUp(sz)) /\ Maps(i, PgRoundUp(j.end)) BY <1>2, <1>3, StackDone
<1>5. /\ Table(t) /\ Table(i) /\ PagesOf(t) \in Nat /\ PagesOf(i) \in Nat
      /\ PagesOf(t) = PagesOf(table[p]) /\ PagesOf(i) = PagesOf(image[p]) /\ n = nfree
  BY <1>2 DEF Before
<1>6. PICK d : d = proc_freepagetable(t, sz, n) OBVIOUS
<1>7. ~d.panics /\ d.n = PagesOf(t) + n BY <1>4, <1>5, <1>6, Frees
<1>8. PICK m \in Nat : m = d.n BY <1>5, <1>7, SMT
<1>9. PICK e \in Nat : e = j.end BY JobTypes
<1>10. /\ mpanic' = "none" /\ nfree' = m /\ UNCHANGED <<slotState, frame>>
       /\ table' = [table EXCEPT ![p] = i] /\ image' = [image EXCEPT ![p] = NoTable]
       /\ size' = [size EXCEPT ![p] = e] /\ imgsz' = [imgsz EXCEPT ![p] = 0]
       /\ job' = [job EXCEPT ![p] = User]
  BY <1>2, <1>6, <1>7, <1>8, <1>9 DEF ExecCommit, Goto_job, Before
<1>11. SlotOf("run", TRUE, i, NoTable, e, 0, User) /\ User.at \notin Forks
  BY <1>4, <1>9, BackInUser
<1>12. PagesOf(i) + PagesOf(NoTable) + m = PagesOf(table[p]) + PagesOf(image[p]) + nfree
  <2>1. PagesOf(i) + 0 + m = PagesOf(t) + PagesOf(i) + n BY <1>5, <1>7, <1>8, SMT
  <2> QED BY <1>5, <2>1, NoTablePages
<1> QED BY <1>3, <1>5, <1>10, <1>11, <1>12, NoTablePages, JobTypes, 0 \in Nat, OwnStep

LEMMA BadArgsKeeps ==
  ASSUME MemInv, UNCHANGED npages, NEW p \in MemSlots, ExecBadArgs(p)
  PROVE  MemInv'
<1>1. PICK t, i : \E sz, isz, n \in Nat, j \in Jobs :
        /\ Before(p, t, i, sz, isz, j, n)
        /\ slotState[p] = "run" => SlotOf("run", TRUE, t, i, sz, isz, j)
  BY Here
<1>2. PICK sz \in Nat, isz \in Nat, n \in Nat, j \in Jobs :
        /\ Before(p, t, i, sz, isz, j, n)
        /\ slotState[p] = "run" => SlotOf("run", TRUE, t, i, sz, isz, j)
  BY <1>1
<1>3. slotState[p] = "run" /\ j.at = "exec_stack" /\ j.a * PGSIZE >= j.end
  BY <1>2 DEF ExecBadArgs, Runs, Before
<1>4. Maps(t, PgRoundUp(sz)) /\ Maps(i, PgRoundUp(j.end)) BY <1>2, <1>3, StackDone
<1>5. /\ Table(t) /\ Table(i) /\ PagesOf(t) \in Nat /\ PagesOf(i) \in Nat
      /\ PagesOf(t) = PagesOf(table[p]) /\ PagesOf(i) = PagesOf(image[p]) /\ n = nfree
  BY <1>2 DEF Before
<1>6. PICK d : d = proc_freepagetable(i, j.end, n) OBVIOUS
<1>7. ~d.panics /\ d.n = PagesOf(i) + n
  <2>1. j.end \in Nat BY JobTypes
  <2> QED BY <1>4, <1>5, <1>6, <2>1, Frees
<1>8. PICK m \in Nat : m = d.n BY <1>5, <1>7, SMT
<1>9. /\ mpanic' = "none" /\ nfree' = m /\ UNCHANGED <<slotState, frame>>
      /\ table' = [table EXCEPT ![p] = t] /\ image' = [image EXCEPT ![p] = NoTable]
      /\ size' = [size EXCEPT ![p] = sz] /\ imgsz' = [imgsz EXCEPT ![p] = 0]
      /\ job' = [job EXCEPT ![p] = User]
  BY <1>2, <1>6, <1>7, <1>8 DEF ExecBadArgs, Goto_job, Before
<1>10. SlotOf("run", TRUE, t, NoTable, sz, 0, User) /\ User.at \notin Forks
  BY <1>4, BackInUser
<1>11. PagesOf(t) + PagesOf(NoTable) + m = PagesOf(table[p]) + PagesOf(image[p]) + nfree
  <2>1. PagesOf(t) + 0 + m = PagesOf(t) + PagesOf(i) + n BY <1>5, <1>7, <1>8, SMT
  <2> QED BY <1>5, <2>1, NoTablePages
<1> QED BY <1>3, <1>5, <1>9, <1>10, <1>11, NoTablePages, JobTypes, 0 \in Nat, OwnStep
-----------------------------------------------------------------------------
(* fork(), exit() and wait(): a step may change another slot.              *)

\* freeproc() gives back all that is left of a process.
LEMMA Freed ==
  ASSUME NEW q \in MemSlots, NEW f \in BOOLEAN, f = frame[q], NEW t, Table(t),
         NEW sz \in Nat, NEW n \in Nat, t = NoTable \/ Maps(t, PgRoundUp(sz)), freeproc(q, t, sz, n)
  PROVE  /\ nfree' = n + PagesOf(t) + FramePages(f) /\ mpanic' = "none"
         /\ frame' = [frame EXCEPT ![q] = FALSE] /\ table' = [table EXCEPT ![q] = NoTable]
         /\ size' = [size EXCEPT ![q] = 0] /\ slotState' = [slotState EXCEPT ![q] = "unused"]
<1>1. PICK d : /\ d = IF t = NoTable THEN [panics |-> FALSE, n |-> n]
                      ELSE proc_freepagetable(t, sz, n)
               /\ nfree' = d.n + (IF f THEN 1 ELSE 0)
               /\ mpanic' = IF d.panics THEN "freeproc" ELSE "none"
  BY DEF freeproc
<1>2. ~d.panics /\ d.n = n + PagesOf(t)
  <2>1. CASE t = NoTable
    <3>1. d = [panics |-> FALSE, n |-> n] BY <1>1, <2>1
    <3>2. n = n + 0 BY SMT
    <3> QED BY <2>1, <3>1, <3>2, NoTablePages
  <2>2. CASE t # NoTable
    <3>1. d = proc_freepagetable(t, sz, n) /\ Maps(t, PgRoundUp(sz)) BY <1>1, <2>2
    <3>2. ~d.panics /\ d.n = PagesOf(t) + n BY <3>1, Frees
    <3> QED BY <3>2, PagesOfType, SMT
  <2> QED BY <2>1, <2>2
<1>3. nfree' = n + PagesOf(t) + FramePages(f) BY <1>1, <1>2 DEF FramePages
<1>4. mpanic' = "none" BY <1>1, <1>2
<1> QED BY <1>3, <1>4 DEF freeproc

\* A step of fork(): the caller p goes on as j, and slot q of the child is new.
LEMMA ForkStep ==
  ASSUME MemInv, NEW p \in MemSlots, NEW q \in MemSlots,
         slotState[p] = "run", slotState[q] # "run",
         NEW st \in States, NEW f \in BOOLEAN, NEW t, Table(t), NEW sz \in Nat,
         NEW j \in Jobs, NEW n \in Nat,
         Becomes(p, q, st, f, t, NoTable, sz, 0, j, n),
         PagesOf(t) + FramePages(f) + n = PagesOf(table[q]) + FramePages(frame[q]) + nfree,
         SlotOf(st, f, t, NoTable, sz, 0, User),
         job[p].at \in {"user"} \union Forks, j.at \in {"user"} \union Forks,
         \A r \in MemSlots \ {p} : job[r].at \in Forks => job[r].np # q,
         j.at \in Forks =>
           /\ j.np = q /\ st = "used" /\ sz = 0
           /\ IF j.at = "fork_table" THEN t = NoTable /\ j.a = 0
              ELSE Maps(t, j.a) /\ j.a <= PgRoundUp(size[p])
  PROVE  MemInv'
<1>0. MemTypes /\ Counted /\ \A r \in MemSlots : Slot(r) /\ Child(r) BY DEF MemInv
<1>1. p # q OBVIOUS
<1>2. image[q] = NoTable /\ imgsz[q] = 0 /\ job[q].at = "user"
  <2>1. Slot(q) BY <1>0
  <2> QED BY <2>1 DEF Slot, SlotOf, Execs
<1>a. /\ slotState' = [slotState EXCEPT ![q] = st] /\ frame' = [frame EXCEPT ![q] = f]
      /\ table' = [table EXCEPT ![q] = t] /\ image' = [image EXCEPT ![q] = NoTable]
      /\ size' = [size EXCEPT ![q] = sz] /\ imgsz' = [imgsz EXCEPT ![q] = 0]
      /\ job' = [job EXCEPT ![p] = j]
  BY DEF Becomes
<1>4. PagesOf(t) + PagesOf(NoTable) + FramePages(f) + n
        = PagesOf(table[q]) + PagesOf(image[q]) + FramePages(frame[q]) + nfree
  <2>1. PICK a \in Nat : a = PagesOf(t) BY PagesOfType
  <2>2. PICK b \in Nat : b = PagesOf(table[q])
    <3>1. Table(table[q]) BY <1>0 DEF MemTypes
    <3> QED BY <3>1, PagesOfType
  <2>3. PICK c \in Nat : c = FramePages(f) BY DEF FramePages
  <2>4. PICK d \in Nat : d = FramePages(frame[q]) BY DEF FramePages
  <2>5. PICK m \in Nat : m = nfree BY <1>0 DEF MemTypes
  <2>6. a + c + n = b + d + m BY <2>1, <2>2, <2>3, <2>4, <2>5
  <2>7. a + 0 + c + n = b + 0 + d + m BY <2>6, SMT
  <2> QED BY <1>2, <2>1, <2>2, <2>3, <2>4, <2>5, <2>7, NoTablePages
<1>5. MemTypes' /\ Counted' BY <1>0, <1>4, NoTablePages, 0 \in Nat, Books
<1>6. \A r \in MemSlots \ {q} :
        /\ slotState'[r] = slotState[r] /\ frame'[r] = frame[r] /\ table'[r] = table[r]
        /\ image'[r] = image[r] /\ size'[r] = size[r] /\ imgsz'[r] = imgsz[r]
  BY <1>0, <1>a DEF MemTypes
<1>7. /\ slotState'[q] = st /\ frame'[q] = f /\ table'[q] = t /\ size'[q] = sz
      /\ image'[q] = NoTable /\ imgsz'[q] = 0
  BY <1>0, <1>a DEF MemTypes
<1>8. job'[p] = j /\ \A r \in MemSlots \ {p} : job'[r] = job[r] BY <1>0, <1>a DEF MemTypes
<1>9. Slot(q)'
  <2>1. job'[q].at = "user" BY <1>1, <1>2, <1>8
  <2> QED BY <1>7, <2>1, JobTypes DEF Slot, SlotOf, Execs
<1>10. Slot(p)'
  <2>1. Slot(p) BY <1>0
  <2> QED BY <1>1, <1>6, <1>8, <2>1 DEF Slot, SlotOf, Execs, Forks
<1>11. ASSUME NEW r \in MemSlots \ {p, q} PROVE Slot(r)' BY <1>0, <1>6, <1>8, <1>11 DEF Slot
<1>12. Child(p)'
  <2> SUFFICES ASSUME j.at \in Forks PROVE Child(p)' BY <1>8 DEF Child
  <2>1. /\ job'[p].np = q /\ slotState'[q] = "used" /\ size'[q] = 0
        /\ IF job'[p].at = "fork_table" THEN table'[q] = NoTable /\ job'[p].a = 0
           ELSE Maps(table'[q], job'[p].a) /\ job'[p].a <= PgRoundUp(size'[p])
    BY <1>1, <1>6, <1>7, <1>8
  <2>2. \A r \in MemSlots \ {p} : job'[r].at \in Forks => job'[r].np # q BY <1>8
  <2> QED BY <2>1, <2>2 DEF Child
<1>13. ASSUME NEW r \in MemSlots \ {p} PROVE Child(r)'
  <2> SUFFICES ASSUME job[r].at \in Forks PROVE Child(r)' BY <1>8 DEF Child
  <2>1. PICK s \in MemSlots : s = job[r].np BY <1>0 DEF Child
  <2>2. s # p /\ s # q /\ r # q /\ slotState[s] = "used" /\ size[s] = 0
    <3>1. slotState[s] = "used" /\ size[s] = 0 BY <1>0, <2>1 DEF Child
    <3>2. r # q BY <1>2 DEF Forks
    <3> QED BY <2>1, <3>1, <3>2
  <2>3. /\ slotState'[s] = "used" /\ size'[s] = 0 /\ table'[s] = table[s] /\ size'[r] = size[r]
        /\ job'[r] = job[r]
    BY <1>6, <1>8, <2>2
  <2>4. \A x \in MemSlots \ {r} : job'[x].at \in Forks => job'[x].np # s
    <3> TAKE x \in MemSlots \ {r}
    <3>1. CASE x = p BY <1>8, <2>2, <3>1
    <3>2. CASE x # p
      <4>1. job'[x] = job[x] BY <1>8, <3>2
      <4>2. job[x].at \in Forks => job[x].np # job[r].np BY <1>0 DEF Child
      <4> QED BY <2>1, <4>1, <4>2
    <3> QED BY <3>1, <3>2
  <2>5. IF job[r].at = "fork_table" THEN table[s] = NoTable /\ job[r].a = 0
        ELSE Maps(table[s], job[r].a) /\ job[r].a <= PgRoundUp(size[r])
    BY <1>0, <2>1 DEF Child
  <2> QED BY <2>1, <2>3, <2>4, <2>5 DEF Child
<1> QED BY <1>5, <1>9, <1>10, <1>11, <1>12, <1>13 DEF MemInv

\* Only a process that runs has an image.
LEMMA NoImage ==
  ASSUME MemInv, NEW q \in MemSlots, slotState[q] # "run"
  PROVE  image = [image EXCEPT ![q] = NoTable] /\ imgsz = [imgsz EXCEPT ![q] = 0]
<1>1. MemTypes /\ Slot(q) BY DEF MemInv
<1>2. image[q] = NoTable /\ imgsz[q] = 0 BY <1>1 DEF Slot, SlotOf, Execs
<1> QED BY <1>1, <1>2 DEF MemTypes

\* A slot that has just been freed.
LEMMA FreeSlot == SlotOf("unused", FALSE, NoTable, NoTable, 0, 0, User)
BY JobTypes DEF SlotOf, Execs

LEMMA ForkFrameKeeps ==
  ASSUME MemInv, UNCHANGED npages, NEW p \in MemSlots, ForkFrame(p)
  PROVE  MemInv'
<1>0. MemTypes /\ \A r \in MemSlots : Slot(r) /\ Child(r) BY DEF MemInv
<1>1. /\ slotState[p] = "run" /\ job[p].at = "user" /\ nfree > 0
      /\ UNCHANGED <<table, size, image, imgsz, mpanic>>
  BY DEF ForkFrame, Runs
<1>2. PICK q \in MemSlots :
        /\ slotState[q] = "unused"
        /\ slotState' = [slotState EXCEPT ![q] = "used"]
        /\ frame' = [frame EXCEPT ![q] = TRUE] /\ nfree' = nfree - 1
        /\ job' = [job EXCEPT ![p] = [User EXCEPT !.at = "fork_table", !.np = q]]
  BY DEF ForkFrame, Goto_job
<1>3. PICK n \in Nat : n = nfree - 1 /\ nfree = n + 1 BY <1>0, <1>1, SMT DEF MemTypes
<1>4. ~frame[q] /\ table[q] = NoTable /\ size[q] = 0 BY <1>0, <1>2 DEF Slot, SlotOf
<1>5. PICK j : j = [User EXCEPT !.at = "fork_table", !.np = q] OBVIOUS
<1>6. j \in Jobs /\ j.at = "fork_table" /\ j.np = q /\ j.a = 0
  <2>1. j = [at |-> "fork_table", np |-> q, a |-> 0, end |-> 0, segs |-> <<>>]
    BY <1>5 DEF User
  <2>2. q \in Nat /\ <<>> \in Seq(Nat) /\ "fork_table" \in Forks BY MemoryAssumption DEF Forks
  <2> QED BY <2>1, <2>2 DEF Jobs
<1>7. table' = [table EXCEPT ![q] = NoTable] /\ size' = [size EXCEPT ![q] = 0]
  BY <1>0, <1>1, <1>4 DEF MemTypes
<1>8. SlotOf("used", TRUE, NoTable, NoTable, 0, 0, User) BY JobTypes DEF SlotOf, Execs
<1>9. \A r \in MemSlots \ {p} : job[r].at \in Forks => job[r].np # q
  BY <1>0, <1>2 DEF Child
<1>10. PagesOf(NoTable) + FramePages(TRUE) + n = PagesOf(table[q]) + FramePages(frame[q]) + nfree
  <2>1. FramePages(TRUE) = 1 /\ FramePages(frame[q]) = 0 BY <1>4 DEF FramePages
  <2>2. 0 + 1 + n = 0 + 0 + (n + 1) BY SMT
  <2> QED BY <1>3, <1>4, <2>1, <2>2, NoTablePages
<1>11. /\ mpanic' = "none" /\ nfree' = n /\ "used" \in States /\ TRUE \in BOOLEAN
       /\ job' = [job EXCEPT ![p] = j] /\ slotState[q] # "run"
  BY <1>0, <1>1, <1>2, <1>3, <1>5 DEF MemTypes, States
<1>12. j.at \in {"user"} \union Forks /\ job[p].at \in {"user"} \union Forks
  BY <1>1, <1>6 DEF Forks
<1>13. Becomes(p, q, "used", TRUE, NoTable, NoTable, 0, 0, j, n)
  BY <1>1, <1>2, <1>7, <1>11, NoImage DEF Becomes
<1>14. /\ j.np = q /\ IF j.at = "fork_table" THEN NoTable = NoTable /\ j.a = 0
                      ELSE Maps(NoTable, j.a) /\ j.a <= PgRoundUp(size[p])
  BY <1>6
<1> QED BY <1>1, <1>6, <1>8, <1>9, <1>10, <1>11, <1>12, <1>13, <1>14, NoTablePages, 0 \in Nat, ForkStep
\* The slot that p is filling.
LEMMA ItsChild ==
  ASSUME MemInv, NEW p \in MemSlots, slotState[p] = "run", job[p].at \in Forks
  PROVE  \E q \in MemSlots, n \in Nat, f \in BOOLEAN, j \in Jobs : \E t :
           /\ q = job[p].np /\ n = nfree /\ f = frame[q] /\ j = job[p] /\ t = table[q] /\ Table(t)
           /\ slotState[q] = "used" /\ size[q] = 0 /\ mpanic = "none"
           /\ IF j.at = "fork_table" THEN t = NoTable /\ j.a = 0
              ELSE Maps(t, j.a) /\ j.a <= PgRoundUp(size[p])
           /\ \A r \in MemSlots \ {p} : job[r].at \in Forks => job[r].np # q
           /\ frame = [frame EXCEPT ![q] = f] /\ table = [table EXCEPT ![q] = t]
           /\ size = [size EXCEPT ![q] = 0] /\ slotState = [slotState EXCEPT ![q] = "used"]
<1>1. MemTypes /\ Child(p) BY DEF MemInv
<1>2. PICK q \in MemSlots : q = job[p].np BY <1>1 DEF Child
<1>3. PICK n \in Nat : n = nfree BY <1>1 DEF MemTypes
<1>4. PICK f \in BOOLEAN : f = frame[q] BY <1>1 DEF MemTypes
<1>5. PICK j \in Jobs : j = job[p] BY <1>1 DEF MemTypes
<1>6. PICK t : t = table[q] OBVIOUS
<1>7. Table(t) /\ mpanic = "none" BY <1>1, <1>6 DEF MemTypes
<1>8. /\ slotState[q] = "used" /\ size[q] = 0
      /\ IF j.at = "fork_table" THEN t = NoTable /\ j.a = 0
         ELSE Maps(t, j.a) /\ j.a <= PgRoundUp(size[p])
      /\ \A r \in MemSlots \ {p} : job[r].at \in Forks => job[r].np # q
  BY <1>1, <1>2, <1>5, <1>6 DEF Child
<1>9. /\ frame = [frame EXCEPT ![q] = f] /\ table = [table EXCEPT ![q] = t]
      /\ size = [size EXCEPT ![q] = 0] /\ slotState = [slotState EXCEPT ![q] = "used"]
  BY <1>1, <1>4, <1>6, <1>8 DEF MemTypes
<1> QED BY <1>2, <1>3, <1>4, <1>5, <1>6, <1>7, <1>8, <1>9

\* fork() fails: the slot is free again, and the caller is back.
LEMMA ForkFails ==
  ASSUME MemInv, UNCHANGED <<npages, image, imgsz>>, NEW p \in MemSlots, NEW q \in MemSlots,
         slotState[p] = "run", job[p].at \in Forks, slotState[q] = "used",
         \A r \in MemSlots \ {p} : job[r].at \in Forks => job[r].np # q,
         NEW f \in BOOLEAN, f = frame[q], NEW t, Table(t), NEW m \in Nat,
         t = NoTable \/ Maps(t, PgRoundUp(0)),
         PagesOf(t) + m = PagesOf(table[q]) + nfree,
         freeproc(q, t, 0, m), job' = [job EXCEPT ![p] = User]
  PROVE  MemInv'
<1>1. /\ nfree' = m + PagesOf(t) + FramePages(f) /\ mpanic' = "none"
      /\ frame' = [frame EXCEPT ![q] = FALSE] /\ table' = [table EXCEPT ![q] = NoTable]
      /\ size' = [size EXCEPT ![q] = 0] /\ slotState' = [slotState EXCEPT ![q] = "unused"]
  BY Freed, 0 \in Nat
<1>2. PICK a \in Nat : a = PagesOf(t) BY PagesOfType
<1>3. PICK b \in Nat : b = PagesOf(table[q])
  <2>1. Table(table[q]) BY DEF MemInv, MemTypes
  <2> QED BY <2>1, PagesOfType
<1>4. PICK c \in Nat : c = FramePages(f) BY DEF FramePages
<1>5. PICK e \in Nat : e = nfree BY DEF MemInv, MemTypes
<1>6. PICK n \in Nat : n = m + a + c BY SMT
<1>7. Becomes(p, q, "unused", FALSE, NoTable, NoTable, 0, 0, User, n)
  BY <1>1, <1>2, <1>4, <1>6, NoImage DEF Becomes
<1>8. PagesOf(NoTable) + FramePages(FALSE) + n = PagesOf(table[q]) + FramePages(frame[q]) + nfree
  <2>1. a + m = b + e BY <1>2, <1>3, <1>5
  <2>2. 0 + 0 + n = b + c + e BY <1>6, <2>1, SMT
  <2>3. FramePages(FALSE) = 0 BY DEF FramePages
  <2> QED BY <1>3, <1>4, <1>5, <2>2, <2>3, NoTablePages
<1>9. User.at \notin Forks /\ User.at \in {"user"} /\ "unused" \in States
  BY JobTypes DEF Forks, States
<1>10. slotState[q] # "run" OBVIOUS
<1>11. User.at \in Forks =>
         /\ User.np = q /\ "unused" = "used" /\ 0 = 0
         /\ IF User.at = "fork_table" THEN NoTable = NoTable /\ User.a = 0
            ELSE Maps(NoTable, User.a) /\ User.a <= PgRoundUp(size[p])
  BY <1>9
<1> QED BY <1>7, <1>8, <1>9, <1>10, <1>11, FreeSlot, JobTypes, NoTablePages, 0 \in Nat, ForkStep

LEMMA ForkTableKeeps ==
  ASSUME MemInv, UNCHANGED npages, NEW p \in MemSlots, ForkTable(p)
  PROVE  MemInv'
<1>1. slotState[p] = "run" /\ job[p].at = "fork_table" /\ UNCHANGED <<image, imgsz>>
  BY DEF ForkTable, Runs
<1>2. job[p].at \in Forks BY <1>1 DEF Forks
<1>3. PICK q \in MemSlots, n \in Nat, f \in BOOLEAN, j \in Jobs : \E t :
        /\ q = job[p].np /\ n = nfree /\ f = frame[q] /\ j = job[p] /\ t = table[q] /\ Table(t)
        /\ slotState[q] = "used" /\ size[q] = 0 /\ mpanic = "none"
        /\ IF j.at = "fork_table" THEN t = NoTable /\ j.a = 0
           ELSE Maps(t, j.a) /\ j.a <= PgRoundUp(size[p])
        /\ \A r \in MemSlots \ {p} : job[r].at \in Forks => job[r].np # q
        /\ frame = [frame EXCEPT ![q] = f] /\ table = [table EXCEPT ![q] = t]
        /\ size = [size EXCEPT ![q] = 0] /\ slotState = [slotState EXCEPT ![q] = "used"]
  BY <1>1, <1>2, ItsChild
<1>4. table[q] = NoTable /\ j.a = 0 BY <1>1, <1>3
<1>5. PICK w : w = proc_pagetable(n) OBVIOUS
<1>6. IF w.ok
        THEN /\ nfree' = w.n /\ table' = [table EXCEPT ![q] = w.t]
             /\ job' = [job EXCEPT ![p] = [j EXCEPT !.at = "fork_copy"]]
             /\ UNCHANGED <<slotState, frame, size, mpanic>>
        ELSE freeproc(q, NoTable, 0, n) /\ job' = [job EXCEPT ![p] = User]
  BY <1>3, <1>5 DEF ForkTable, Goto_job
<1>7. w.ok \in BOOLEAN BY <1>5, NewTable
<1>8. CASE w.ok
  <2>1. w.n \in Nat /\ Table(w.t) /\ Maps(w.t, 0) /\ PagesOf(w.t) + w.n = n
    BY <1>5, <1>8, NewTable
  <2>2. PICK x : x = [j EXCEPT !.at = "fork_copy"] OBVIOUS
  <2>3. x \in Jobs /\ x.at = "fork_copy" /\ x.np = q /\ x.a = 0
    BY <1>3, <1>4, <2>2 DEF Jobs, Forks
  <2>4. Becomes(p, q, "used", f, w.t, NoTable, 0, 0, x, w.n)
    BY <1>1, <1>3, <1>6, <1>8, <2>2, NoImage DEF Becomes
  <2>5. PagesOf(w.t) + FramePages(f) + w.n = PagesOf(table[q]) + FramePages(frame[q]) + nfree
    <3>1. PICK a \in Nat : a = PagesOf(w.t) BY <2>1, PagesOfType
    <3>2. PICK c \in Nat : c = FramePages(f) BY DEF FramePages
    <3>3. PICK m \in Nat : m = w.n BY <2>1
    <3>4. a + m = n BY <2>1, <3>1, <3>3
    <3>5. a + c + m = 0 + c + n BY <3>4, SMT
    <3> QED BY <1>3, <1>4, <3>1, <3>2, <3>3, <3>5, NoTablePages
  <2>6. SlotOf("used", f, w.t, NoTable, 0, 0, User) BY JobTypes DEF SlotOf, Execs
  <2>7. size[p] \in Nat BY DEF MemInv, MemTypes
  <2>8. 0 <= PgRoundUp(size[p]) BY <2>7, RoundType, SMT
  <2>9. x.at \in Forks /\ "used" \in States BY <2>3 DEF Forks, States
  <2>10. x.at \in Forks =>
           /\ x.np = q /\ "used" = "used" /\ 0 = 0
           /\ IF x.at = "fork_table" THEN w.t = NoTable /\ x.a = 0
              ELSE Maps(w.t, x.a) /\ x.a <= PgRoundUp(size[p])
    BY <2>1, <2>3, <2>8
  <2> QED BY <1>1, <1>2, <1>3, <2>1, <2>3, <2>4, <2>5, <2>6, <2>9, <2>10, 0 \in Nat, ForkStep
<1>9. CASE ~w.ok
  <2>1. freeproc(q, NoTable, 0, n) /\ job' = [job EXCEPT ![p] = User] BY <1>6, <1>9
  <2>2. PagesOf(NoTable) + n = PagesOf(table[q]) + nfree BY <1>3, <1>4
  <2>3. UNCHANGED <<npages, image, imgsz>> BY <1>1
  <2> QED BY <1>1, <1>2, <1>3, <2>1, <2>2, <2>3, NoTablePages, ForkFails
<1> QED BY <1>7, <1>8, <1>9
LEMMA ForkPageKeeps ==
  ASSUME MemInv, UNCHANGED npages, NEW p \in MemSlots, ForkPage(p)
  PROVE  MemInv'
<1>1. slotState[p] = "run" /\ job[p].at = "fork_copy" /\ UNCHANGED <<image, imgsz>>
  BY DEF ForkPage, Runs
<1>2. job[p].at \in Forks BY <1>1 DEF Forks
<1>3. PICK q \in MemSlots, n \in Nat, f \in BOOLEAN, j \in Jobs : \E t :
        /\ q = job[p].np /\ n = nfree /\ f = frame[q] /\ j = job[p] /\ t = table[q] /\ Table(t)
        /\ slotState[q] = "used" /\ size[q] = 0 /\ mpanic = "none"
        /\ IF j.at = "fork_table" THEN t = NoTable /\ j.a = 0
           ELSE Maps(t, j.a) /\ j.a <= PgRoundUp(size[p])
        /\ \A r \in MemSlots \ {p} : job[r].at \in Forks => job[r].np # q
        /\ frame = [frame EXCEPT ![q] = f] /\ table = [table EXCEPT ![q] = t]
        /\ size = [size EXCEPT ![q] = 0] /\ slotState = [slotState EXCEPT ![q] = "used"]
  BY <1>1, <1>2, ItsChild
<1>4. PICK t : t = table[q] OBVIOUS
<1>5. PICK v \in Nat : v = j.a BY JobTypes
<1>6. PICK s \in Nat : s = size[p] BY DEF MemInv, MemTypes
<1>7. Table(t) /\ Maps(t, v) /\ v <= PgRoundUp(s)
  BY <1>1, <1>3, <1>4, <1>5, <1>6
<1>8. Maps(table[p], PgRoundUp(s))
  <2>1. Slot(p) BY DEF MemInv
  <2> QED BY <1>1, <1>6, <2>1 DEF Slot, SlotOf
<1>9. v * PGSIZE \in Nat BY MemoryAssumption, SMT
<1>10. PICK w : w = MapNew(t, v, n) OBVIOUS
<1>11. PICK u : u = uvmunmap(w.t, 0..(v - 1), w.n) OBVIOUS
<1>12. IF v * PGSIZE >= s
         THEN /\ size' = [size EXCEPT ![q] = s] /\ slotState' = [slotState EXCEPT ![q] = "run"]
              /\ job' = [job EXCEPT ![p] = User] /\ UNCHANGED <<nfree, frame, table, mpanic>>
       ELSE IF v \notin table[p].leaves THEN mpanic' = "uvmcopy"
       ELSE IF w.ok
         THEN /\ nfree' = w.n /\ table' = [table EXCEPT ![q] = w.t]
              /\ job' = [job EXCEPT ![p] = [j EXCEPT !.a = @ + 1]]
              /\ UNCHANGED <<slotState, frame, size, mpanic>>
         ELSE freeproc(q, u.t, 0, u.n) /\ job' = [job EXCEPT ![p] = User]
  <2>1. /\ job[p].np = q /\ job[p] = j /\ job[p].a = v /\ size[p] = s /\ size[q] = 0
        /\ table[q] = t /\ nfree = n
    BY <1>3, <1>4, <1>5, <1>6
  <2>2. CASE v * PGSIZE >= s BY <2>1, <2>2 DEF ForkPage, Goto_job
  <2>3. CASE ~(v * PGSIZE >= s) BY <1>10, <1>11, <2>1, <2>3 DEF ForkPage, Goto_job
  <2> QED BY <2>2, <2>3
<1>13. size[p] \in Nat /\ "used" \in States /\ "run" \in States BY <1>6 DEF States
<1>14. CASE v * PGSIZE >= s
  <2>1. v = PgRoundUp(s)
    <3>1. v >= PgRoundUp(s) BY <1>14, RoundUp
    <3> QED BY <1>7, <3>1, RoundType, SMT
  <2>2. table' = [table EXCEPT ![q] = t] /\ frame' = [frame EXCEPT ![q] = f] /\ nfree' = n
        /\ mpanic' = "none"
    BY <1>3, <1>4, <1>12, <1>14
  <2>3. Becomes(p, q, "run", f, t, NoTable, s, 0, User, n)
    BY <1>1, <1>3, <1>12, <1>14, <2>2, NoImage DEF Becomes
  <2>4. SlotOf("run", f, t, NoTable, s, 0, User) BY <1>7, <2>1, JobTypes DEF SlotOf, Execs
  <2>5. User.at \notin Forks /\ User.at \in {"user"} BY JobTypes DEF Forks
  <2>6. User.at \in Forks =>
          /\ User.np = q /\ "run" = "used" /\ s = 0
          /\ IF User.at = "fork_table" THEN t = NoTable /\ User.a = 0
             ELSE Maps(t, User.a) /\ User.a <= PgRoundUp(size[p])
    BY <2>5
  <2>7. PagesOf(t) + FramePages(f) + n = PagesOf(table[q]) + FramePages(frame[q]) + nfree
    BY <1>3, <1>4
  <2>8. slotState[q] # "run" /\ \A r \in MemSlots \ {p} : job[r].at \in Forks => job[r].np # q
    BY <1>3
  <2> QED BY <1>1, <1>2, <1>7, <1>13, <2>3, <2>4, <2>5, <2>6, <2>7, <2>8, JobTypes, ForkStep
<1>15. CASE ~(v * PGSIZE >= s)
  <2>1. ~(v >= PgRoundUp(s)) BY <1>15, RoundUp
  <2>2. v + 1 <= PgRoundUp(s) BY <2>1, RoundType, SMT
  <2>3. v \in table[p].leaves
    <3>1. table[p].leaves = 0..PgRoundUp(s) - 1 BY <1>8 DEF Maps
    <3>2. v \in 0..PgRoundUp(s) - 1 BY <2>2, RoundType, SMT
    <3> QED BY <3>1, <3>2
  <2>4. /\ w.ok \in BOOLEAN /\ w.n \in Nat /\ Table(w.t)
        /\ IF w.ok THEN Maps(w.t, v + 1) ELSE Maps(w.t, v)
        /\ PagesOf(w.t) + w.n = PagesOf(t) + n
    BY <1>7, <1>10, MapsNew
  <2>5. CASE w.ok
    <3>1. PICK x : x = [j EXCEPT !.a = @ + 1] OBVIOUS
    <3>2. x \in Jobs /\ x.at = "fork_copy" /\ x.np = q /\ x.a = v + 1
      <4>1. j.at = "fork_copy" /\ j.np = q BY <1>1, <1>3
      <4> QED BY <1>5, <3>1, <4>1, NextPage
    <3>3. Becomes(p, q, "used", f, w.t, NoTable, 0, 0, x, w.n)
      BY <1>1, <1>3, <1>12, <1>15, <2>3, <2>5, <3>1, NoImage DEF Becomes
    <3>4. PagesOf(w.t) + FramePages(f) + w.n = PagesOf(table[q]) + FramePages(frame[q]) + nfree
      <4>1. PICK a \in Nat : a = PagesOf(w.t) BY <2>4, PagesOfType
      <4>2. PICK b \in Nat : b = PagesOf(t) BY <1>7, PagesOfType
      <4>3. PICK c \in Nat : c = FramePages(f) BY DEF FramePages
      <4>4. PICK m \in Nat : m = w.n BY <2>4
      <4>5. a + m = b + n BY <2>4, <4>1, <4>2, <4>4
      <4>6. a + c + m = b + c + n BY <4>5, SMT
      <4> QED BY <1>3, <1>4, <4>1, <4>2, <4>3, <4>4, <4>6
    <3>5. SlotOf("used", f, w.t, NoTable, 0, 0, User) BY JobTypes DEF SlotOf, Execs
    <3>6. x.at \in Forks BY <3>2 DEF Forks
    <3>7. x.at \in Forks =>
            /\ x.np = q /\ "used" = "used" /\ 0 = 0
            /\ IF x.at = "fork_table" THEN w.t = NoTable /\ x.a = 0
               ELSE Maps(w.t, x.a) /\ x.a <= PgRoundUp(size[p])
      BY <1>6, <2>2, <2>4, <2>5, <3>2
    <3> QED BY <1>1, <1>2, <1>3, <1>13, <2>4, <3>2, <3>3, <3>4, <3>5, <3>6, <3>7, 0 \in Nat,
               ForkStep
  <2>6. CASE ~w.ok
    <3>1. /\ ~u.panics /\ u.n \in Nat /\ Table(u.t) /\ Maps(u.t, 0)
          /\ PagesOf(u.t) + u.n = PagesOf(w.t) + w.n
      <4>1. 0 <= v BY SMT
      <4>2. Maps(w.t, v) BY <2>4, <2>6
      <4> QED BY <1>11, <2>4, <4>1, <4>2, 0 \in Nat, Unmaps
    <3>2. freeproc(q, u.t, 0, u.n) /\ job' = [job EXCEPT ![p] = User]
      BY <1>12, <1>15, <2>3, <2>6
    <3>3. PagesOf(u.t) + u.n = PagesOf(table[q]) + nfree BY <1>3, <1>4, <2>4, <3>1
    <3>4. UNCHANGED <<npages, image, imgsz>> /\ Maps(u.t, PgRoundUp(0))
      BY <1>1, <3>1, RoundZero
    <3> QED BY <1>1, <1>2, <1>3, <3>1, <3>2, <3>3, <3>4, ForkFails
  <2> QED BY <2>4, <2>5, <2>6
<1> QED BY <1>14, <1>15

\* A step that changes a slot that no fork() is filling, whose process is in user space.
LEMMA AloneStep ==
  ASSUME MemInv, NEW q \in MemSlots, slotState[q] # "used",
         NEW st \in States, NEW f \in BOOLEAN, NEW t, Table(t), NEW sz \in Nat,
         NEW j \in Jobs, j = job[q], j.at = "user", NEW n \in Nat,
         Becomes(q, q, st, f, t, NoTable, sz, 0, j, n),
         PagesOf(t) + PagesOf(NoTable) + FramePages(f) + n
           = PagesOf(table[q]) + PagesOf(image[q]) + FramePages(frame[q]) + nfree,
         SlotOf(st, f, t, NoTable, sz, 0, j)
  PROVE  MemInv'
<1>0. MemTypes /\ Counted /\ \A r \in MemSlots : Slot(r) /\ Child(r) BY DEF MemInv
<1>1. MemTypes' /\ Counted' BY <1>0, NoTablePages, 0 \in Nat, Books
<1>2. /\ slotState' = [slotState EXCEPT ![q] = st] /\ frame' = [frame EXCEPT ![q] = f]
      /\ table' = [table EXCEPT ![q] = t] /\ image' = [image EXCEPT ![q] = NoTable]
      /\ size' = [size EXCEPT ![q] = sz] /\ imgsz' = [imgsz EXCEPT ![q] = 0]
      /\ job' = [job EXCEPT ![q] = j]
  BY DEF Becomes
<1>3. \A r \in MemSlots \ {q} :
        /\ slotState'[r] = slotState[r] /\ frame'[r] = frame[r] /\ table'[r] = table[r]
        /\ image'[r] = image[r] /\ size'[r] = size[r] /\ imgsz'[r] = imgsz[r]
  BY <1>0, <1>2 DEF MemTypes
<1>4. /\ slotState'[q] = st /\ frame'[q] = f /\ table'[q] = t /\ size'[q] = sz
      /\ image'[q] = NoTable /\ imgsz'[q] = 0
  BY <1>0, <1>2 DEF MemTypes
<1>5. \A r \in MemSlots : job'[r] = job[r] BY <1>0, <1>2 DEF MemTypes
<1>6. Slot(q)' BY <1>4, <1>5 DEF Slot
<1>7. ASSUME NEW r \in MemSlots \ {q} PROVE Slot(r)' BY <1>0, <1>3, <1>5 DEF Slot
<1>8. ASSUME NEW r \in MemSlots PROVE Child(r)'
  <2> SUFFICES ASSUME job[r].at \in Forks PROVE Child(r)' BY <1>5 DEF Child
  <2>1. PICK s \in MemSlots : s = job[r].np BY <1>0 DEF Child
  <2>2. slotState[s] = "used" /\ size[s] = 0 BY <1>0, <2>1 DEF Child
  <2>3. s # q /\ r # q BY <2>2 DEF Forks
  <2>4. /\ slotState'[s] = "used" /\ size'[s] = 0 /\ table'[s] = table[s] /\ size'[r] = size[r]
        /\ job'[r] = job[r]
    BY <1>3, <1>5, <2>2, <2>3
  <2>5. \A x \in MemSlots \ {r} : job'[x].at \in Forks => job'[x].np # s
    BY <1>0, <1>5, <2>1 DEF Child
  <2>6. IF job[r].at = "fork_table" THEN table[s] = NoTable /\ job[r].a = 0
        ELSE Maps(table[s], job[r].a) /\ job[r].a <= PgRoundUp(size[r])
    BY <1>0, <2>1 DEF Child
  <2> QED BY <2>1, <2>4, <2>5, <2>6 DEF Child
<1> QED BY <1>1, <1>6, <1>7, <1>8 DEF MemInv

LEMMA ExitKeeps ==
  ASSUME MemInv, UNCHANGED npages, NEW p \in MemSlots, Exits_proc(p)
  PROVE  MemInv'
<1>0. MemTypes /\ Slot(p) BY DEF MemInv
<1>1. /\ slotState[p] = "run" /\ job[p].at = "user"
      /\ slotState' = [slotState EXCEPT ![p] = "zombie"]
      /\ UNCHANGED <<nfree, frame, table, size, job, image, imgsz, mpanic>>
  BY DEF Exits_proc, Runs
<1>2. PICK f \in BOOLEAN : f = frame[p] BY <1>0 DEF MemTypes
<1>3. PICK t : t = table[p] OBVIOUS
<1>4. PICK sz \in Nat : sz = size[p] BY <1>0 DEF MemTypes
<1>5. PICK j \in Jobs : j = job[p] BY <1>0 DEF MemTypes
<1>6. PICK n \in Nat : n = nfree BY <1>0 DEF MemTypes
<1>7. Table(t) /\ Maps(t, PgRoundUp(sz)) /\ image[p] = NoTable /\ imgsz[p] = 0
  BY <1>0, <1>1, <1>3, <1>4 DEF MemTypes, Slot, SlotOf, Execs
<1>8. Becomes(p, p, "zombie", f, t, NoTable, sz, 0, j, n)
  <2>1. /\ frame = [frame EXCEPT ![p] = f] /\ table = [table EXCEPT ![p] = t]
        /\ image = [image EXCEPT ![p] = NoTable] /\ size = [size EXCEPT ![p] = sz]
        /\ imgsz = [imgsz EXCEPT ![p] = 0] /\ job = [job EXCEPT ![p] = j]
        /\ nfree = n /\ mpanic = "none"
    BY <1>0, <1>2, <1>3, <1>4, <1>5, <1>6, <1>7 DEF MemTypes
  <2> QED BY <1>1, <2>1 DEF Becomes
<1>9. PagesOf(t) + PagesOf(NoTable) + FramePages(f) + n
        = PagesOf(table[p]) + PagesOf(image[p]) + FramePages(frame[p]) + nfree
  BY <1>2, <1>3, <1>6, <1>7
<1>10. SlotOf("zombie", f, t, NoTable, sz, 0, j) BY <1>1, <1>5, <1>7 DEF SlotOf, Execs
<1>11. "zombie" \in States /\ slotState[p] # "used" /\ j.at = "user" BY <1>1, <1>5 DEF States
<1> QED BY <1>5, <1>7, <1>8, <1>9, <1>10, <1>11, AloneStep

LEMMA ReapKeeps ==
  ASSUME MemInv, UNCHANGED npages, NEW q \in MemSlots, Reaped(q)
  PROVE  MemInv'
<1>0. MemTypes /\ Slot(q) BY DEF MemInv
<1>1. slotState[q] = "zombie" /\ UNCHANGED <<job, image, imgsz>> BY DEF Reaped
<1>2. PICK f \in BOOLEAN : f = frame[q] BY <1>0 DEF MemTypes
<1>3. PICK t : t = table[q] OBVIOUS
<1>4. PICK sz \in Nat : sz = size[q] BY <1>0 DEF MemTypes
<1>5. PICK j \in Jobs : j = job[q] BY <1>0 DEF MemTypes
<1>6. PICK m \in Nat : m = nfree BY <1>0 DEF MemTypes
<1>7. /\ Table(t) /\ Maps(t, PgRoundUp(sz)) /\ image[q] = NoTable /\ imgsz[q] = 0
      /\ j.at = "user"
  BY <1>0, <1>1, <1>3, <1>4, <1>5 DEF MemTypes, Slot, SlotOf, Execs
<1>8. freeproc(q, t, sz, m) BY <1>3, <1>4, <1>6 DEF Reaped
<1>9. /\ nfree' = m + PagesOf(t) + FramePages(f) /\ mpanic' = "none"
      /\ frame' = [frame EXCEPT ![q] = FALSE] /\ table' = [table EXCEPT ![q] = NoTable]
      /\ size' = [size EXCEPT ![q] = 0] /\ slotState' = [slotState EXCEPT ![q] = "unused"]
  BY <1>2, <1>7, <1>8, Freed
<1>10. PICK a \in Nat : a = PagesOf(t) BY <1>7, PagesOfType
<1>11. PICK c \in Nat : c = FramePages(f) BY DEF FramePages
<1>12. PICK n \in Nat : n = m + a + c BY SMT
<1>13. Becomes(q, q, "unused", FALSE, NoTable, NoTable, 0, 0, j, n)
  <2>1. /\ image = [image EXCEPT ![q] = NoTable] /\ imgsz = [imgsz EXCEPT ![q] = 0]
        /\ job = [job EXCEPT ![q] = j]
    BY <1>0, <1>5, <1>7 DEF MemTypes
  <2> QED BY <1>1, <1>9, <1>10, <1>11, <1>12, <2>1 DEF Becomes
<1>14. PagesOf(NoTable) + PagesOf(NoTable) + FramePages(FALSE) + n
         = PagesOf(table[q]) + PagesOf(image[q]) + FramePages(frame[q]) + nfree
  <2>1. FramePages(FALSE) = 0 BY DEF FramePages
  <2>2. 0 + 0 + 0 + n = a + 0 + c + m BY <1>12, SMT
  <2> QED BY <1>2, <1>3, <1>6, <1>7, <1>10, <1>11, <2>1, <2>2, NoTablePages
<1>15. SlotOf("unused", FALSE, NoTable, NoTable, 0, 0, j) BY <1>7 DEF SlotOf, Execs
<1>16. "unused" \in States /\ slotState[q] # "used" BY <1>1 DEF States
<1> QED BY <1>5, <1>7, <1>13, <1>14, <1>15, <1>16, NoTablePages, 0 \in Nat, AloneStep
-----------------------------------------------------------------------------
(* The invariant.                                                          *)

LEMMA FirstPages == Table(FirstTable) /\ PagesOf(FirstTable) = 6 /\ Maps(FirstTable, 1)
<1> DEFINE A == {Root_page}
           B == A \union {<<"u1", 0>>}
           C == B \union {<<"u0", 0>>}
           D == C \union {<<"t1", 0>>}
           E == D \union {<<"t0", 0>>}
<1>1. FirstTable.tabs = E /\ FirstTable.leaves = {0} /\ FirstTable.fixed = TRUE
  BY DEF FirstTable
<1>2. FirstTable \in Tables
  <2>1. E \subseteq Tabs BY DEF Tabs, Root_page
  <2> QED BY <2>1 DEF FirstTable, Tables
<1>3. IsFiniteSet(A) /\ Cardinality(A) = 1 BY FS_Singleton
<1>4. /\ <<"u1", 0>> \notin A /\ <<"u0", 0>> \notin B /\ <<"t1", 0>> \notin C /\ <<"t0", 0>> \notin D
  BY DEF Root_page
<1> HIDE DEF A
<1>5. IsFiniteSet(B) /\ Cardinality(B) = 2 BY <1>3, <1>4, FS_AddElement, 1 + 1 = 2
<1> HIDE DEF B
<1>6. IsFiniteSet(C) /\ Cardinality(C) = 3 BY <1>5, <1>4, FS_AddElement, 2 + 1 = 3
<1> HIDE DEF C
<1>7. IsFiniteSet(D) /\ Cardinality(D) = 4 BY <1>6, <1>4, FS_AddElement, 3 + 1 = 4
<1> HIDE DEF D
<1>8. IsFiniteSet(E) /\ Cardinality(E) = 5 BY <1>7, <1>4, FS_AddElement, 4 + 1 = 5
<1> HIDE DEF E
<1>9. IsFiniteSet({0}) /\ Cardinality({0}) = 1 BY FS_Singleton
<1>10. PagesOf(FirstTable) = 6 BY <1>1, <1>8, <1>9, 5 + 1 = 6 DEF PagesOf
<1>11. {0} = 0..1 - 1 BY SMT
<1> QED BY <1>1, <1>2, <1>8, <1>9, <1>10, <1>11 DEF Table, Maps

LEMMA InitKeeps == MemInit => MemInv
<1> SUFFICES ASSUME MemInit PROVE MemInv OBVIOUS
<1>1. MemTypes
  <2>1. npages \in Nat /\ nfree \in Nat /\ mpanic = "none"
    BY MemoryAssumption, SMT DEF MemInit
  <2>2. slotState \in [MemSlots -> States] /\ frame \in [MemSlots -> BOOLEAN]
    BY DEF MemInit, States
  <2>3. table \in [MemSlots -> Tables] /\ image \in [MemSlots -> Tables]
    BY FirstPages, NoTablePages DEF MemInit, Table
  <2>4. size \in [MemSlots -> Nat] /\ imgsz \in [MemSlots -> Nat] /\ job \in [MemSlots -> Jobs]
    BY MemoryAssumption, JobTypes DEF MemInit
  <2>5. \A p \in MemSlots : Table(table[p]) /\ Table(image[p])
    BY FirstPages, NoTablePages DEF MemInit
  <2> QED BY <2>1, <2>2, <2>3, <2>4, <2>5 DEF MemTypes
<1>2. Counted
  <2>1. PICK O : O = [p \in MemSlots |-> OwnedBy(table[p], image[p], frame[p])] OBVIOUS
  <2>2. 1 \in MemSlots /\ table[1] = FirstTable /\ image[1] = NoTable /\ frame[1] = TRUE
    BY MemoryAssumption DEF MemInit
  <2>3. InUse = AllOf(O) /\ IsFiniteSet(O[1])
        /\ Cardinality(O[1]) = PagesOf(FirstTable) + PagesOf(NoTable) + FramePages(TRUE)
    BY <1>1, <2>1, <2>2, InUsePages
  <2>4. \A p \in MemSlots \ {1} : O[p] = {}
    <3> TAKE p \in MemSlots \ {1}
    <3>1. table[p] = NoTable /\ image[p] = NoTable /\ ~frame[p] BY DEF MemInit
    <3> QED BY <2>1, <3>1 DEF OwnedBy, NoTable
  <2>5. AllOf(O) = {1} \X O[1] BY <2>2, <2>4 DEF AllOf
  <2>6. Cardinality(InUse) = 7
    <3>1. FramePages(TRUE) = 1 BY DEF FramePages
    <3>2. 6 + 0 + 1 = 7 BY SMT
    <3>3. Cardinality(O[1]) = 7 BY <2>3, <3>1, <3>2, FirstPages, NoTablePages
    <3> QED BY <2>3, <2>5, <3>3, Tagged
  <2>7. npages = nfree + 7 BY MemoryAssumption, SMT DEF MemInit
  <2> QED BY <2>6, <2>7 DEF Counted
<1>3. ASSUME NEW p \in MemSlots PROVE Slot(p) /\ Child(p)
  <2>1. job[p].at = "user" /\ image[p] = NoTable /\ imgsz[p] = 0 BY JobTypes DEF MemInit
  <2>2. CASE p = 1
    <3>1. slotState[p] = "run" /\ table[p] = FirstTable /\ size[p] = PGSIZE
      BY <2>2 DEF MemInit
    <3>2. PgRoundUp(PGSIZE) = 1
      <4>1. 1 * PGSIZE = PGSIZE BY MemoryAssumption, SMT
      <4> QED BY <4>1, RoundPages, 1 \in Nat
    <3>3. Maps(table[p], PgRoundUp(size[p])) BY <3>1, <3>2, FirstPages
    <3> QED BY <2>1, <3>1, <3>3 DEF Slot, SlotOf, Child, Execs, Forks
  <2>3. CASE p # 1
    <3>1. slotState[p] = "unused" /\ table[p] = NoTable /\ size[p] = 0 /\ ~frame[p]
      BY <2>3 DEF MemInit
    <3> QED BY <2>1, <3>1 DEF Slot, SlotOf, Child, Execs, Forks
  <2> QED BY <2>2, <2>3
<1> QED BY <1>1, <1>2, <1>3 DEF MemInv

LEMMA StutterKeeps == MemInv /\ UNCHANGED memVars => MemInv'
<1> SUFFICES ASSUME MemInv, UNCHANGED memVars PROVE MemInv' OBVIOUS
<1>1. /\ npages' = npages /\ nfree' = nfree /\ slotState' = slotState /\ frame' = frame
      /\ table' = table /\ size' = size /\ job' = job /\ image' = image /\ imgsz' = imgsz
      /\ mpanic' = mpanic
  BY DEF memVars
<1>2. MemTypes' BY <1>1 DEF MemInv, MemTypes
<1>3. Counted' BY <1>1 DEF MemInv, Counted, InUse, Owned
<1>4. ASSUME NEW p \in MemSlots PROVE Slot(p)' /\ Child(p)'
  <2>1. Slot(p) /\ Child(p) BY DEF MemInv
  <2> QED BY <1>1, <2>1 DEF Slot, Child
<1> QED BY <1>2, <1>3, <1>4 DEF MemInv

LEMMA NextKeeps == MemInv /\ [MemNext]_memVars => MemInv'
<1> SUFFICES ASSUME MemInv, MemNext PROVE MemInv' BY StutterKeeps
<1>1. UNCHANGED npages BY DEF MemNext
<1>2. PICK p \in MemSlots :
        \/ \E n \in 1..MaxSz : SbrkGrow(p, n) \/ SbrkShrink(p, n)
        \/ SbrkPage(p) \/ ForkFrame(p) \/ ForkTable(p) \/ ForkPage(p) \/ Exits_proc(p)
        \/ Reaped(p)
        \/ \E s \in Images : ExecTable(p, s)
        \/ ExecSegment(p) \/ ExecPage(p) \/ ExecLoaded(p) \/ ExecBadFile(p) \/ ExecCommit(p)
        \/ ExecBadArgs(p)
  BY DEF MemNext, MemStep
<1>3. ASSUME NEW n \in 1..MaxSz, SbrkGrow(p, n) PROVE MemInv' BY <1>1, <1>3, GrowKeeps
<1>4. ASSUME NEW n \in 1..MaxSz, SbrkShrink(p, n) PROVE MemInv' BY <1>1, <1>4, ShrinkKeeps
<1>5. CASE SbrkPage(p) BY <1>1, <1>5, SbrkPageKeeps
<1>6. CASE ForkFrame(p) BY <1>1, <1>6, ForkFrameKeeps
<1>7. CASE ForkTable(p) BY <1>1, <1>7, ForkTableKeeps
<1>8. CASE ForkPage(p) BY <1>1, <1>8, ForkPageKeeps
<1>9. CASE Exits_proc(p) BY <1>1, <1>9, ExitKeeps
<1>10. CASE Reaped(p) BY <1>1, <1>10, ReapKeeps
<1>11. ASSUME NEW s \in Images, ExecTable(p, s) PROVE MemInv' BY <1>1, <1>11, ExecTableKeeps
<1>12. CASE ExecSegment(p) BY <1>1, <1>12, SegmentKeeps
<1>13. CASE ExecPage(p) BY <1>1, <1>13, ExecPageKeeps
<1>14. CASE ExecLoaded(p) BY <1>1, <1>14, LoadedKeeps
<1>15. CASE ExecBadFile(p) BY <1>1, <1>15, BadFileKeeps
<1>16. CASE ExecCommit(p) BY <1>1, <1>16, CommitKeeps
<1>17. CASE ExecBadArgs(p) BY <1>1, <1>17, BadArgsKeeps
<1> QED BY <1>2, <1>3, <1>4, <1>5, <1>6, <1>7, <1>8, <1>9, <1>10, <1>11, <1>12, <1>13, <1>14,
           <1>15, <1>16, <1>17

\* Wherever fork(), exec(), sbrk(), exit() and wait() stand, and whichever kalloc() found
\* no page: every page is in the free list or has one owner, and where each process
\* stands says which pages its page tables map (kalloc.c, vm.c, proc.c, exec.c).
THEOREM MemInvariant == MemSpec => []MemInv
BY InitKeeps, NextKeeps, PTL DEF MemSpec

\* No page is lost or has two owners, and no uvmunmap(), uvmcopy() or freewalk() panics,
\* for every number of processes, size of memory and program.
THEOREM PagesAreKept == MemSpec => []PagesKept
<1>1. MemInv => PagesKept
  <2> SUFFICES ASSUME MemInv PROVE PagesKept OBVIOUS
  <2>1. mpanic = "none" /\ npages = nfree + Cardinality(InUse)
    BY DEF MemInv, MemTypes, Counted
  <2>2. ASSUME NEW p \in MemSlots
        PROVE  /\ slotState[p] = "unused" => ~frame[p] /\ table[p] = NoTable /\ size[p] = 0
               /\ slotState[p] = "run" /\ job[p].at # "sbrk" =>
                    table[p].leaves = 0..(PgRoundUp(size[p]) - 1)
    <3>1. Slot(p) BY DEF MemInv
    <3> QED BY <3>1 DEF Slot, SlotOf, Maps
  <2> QED BY <2>1, <2>2 DEF PagesKept
<1> QED BY <1>1, MemInvariant, PTL
=============================================================================
