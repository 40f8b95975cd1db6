------------------------------- MODULE Memory -------------------------------
(***************************************************************************)
(* Physical pages and user page tables (LAB3 kernel/kalloc.c, vm.c) under  *)
(* fork(), exec(), sbrk(), exit() and wait() of several processes, where   *)
(* any kalloc() may find the free list empty.                              *)
(*                                                                         *)
(* Pages are alike, so the free list is its length.  A page table is the   *)
(* set of its own pages, by level and index, and that of the user pages it *)
(* maps; TRAMPOLINE and TRAPFRAME are mapped together or not at all.       *)
(*                                                                         *)
(* Grain.  A step maps one page, with the page-table pages this takes:     *)
(* another process may take pages, or run short of them, between two.      *)
(***************************************************************************)
EXTENDS Naturals, Sequences, FiniteSets

CONSTANTS MemSlots,   \* proc[]
          Memories,   \* the sizes of physical memory, in pages
          PGSIZE,     \* bytes of a page
          FAN,        \* user pages that a lowest page-table page maps
          MaxSz,      \* bound on the size of a process
          Images      \* programs: the ends of their segments, vaddr + memsz

ASSUME MemoryAssumption ==
  /\ MemSlots \subseteq Nat /\ 1 \in MemSlots /\ IsFiniteSet(MemSlots)
  /\ PGSIZE \in Nat \ {0} /\ FAN \in Nat \ {0} /\ Memories \subseteq Nat
  /\ \A n \in Memories : n >= 7
  /\ MaxSz \in Nat /\ Images \subseteq Seq(Nat)

VARIABLES
  npages, nfree,      \* the pages of memory, and those in kmem.freelist
  slotState,          \* p->state, as far as memory goes
  frame, table, size, \* p->trapframe, p->pagetable, p->sz
  job,                \* the call p has under way: its program point and locals
  image, imgsz,       \* pagetable and sz of exec()
  mpanic              \* why the kernel stopped

memVars == <<npages, nfree, slotState, frame, table, size, job, image, imgsz, mpanic>>

PgRoundUp(n) == (n + PGSIZE - 1) \div PGSIZE    \* in pages
NoTable == [tabs |-> {}, leaves |-> {}, fixed |-> FALSE]

\* The page-table pages on the way to a page.
Root_page  == <<"root", 0>>
User_path(v) == << <<"u1", 0>>, <<"u0", v \div FAN>> >>
High_path    == << <<"t1", 0>>, <<"t0", 0>> >>

\* userinit(): initcode in one page.
FirstTable == [tabs |-> {Root_page, <<"u1", 0>>, <<"u0", 0>>, <<"t1", 0>>, <<"t0", 0>>},
               leaves |-> {0}, fixed |-> TRUE]

User == [at |-> "user", np |-> 0, a |-> 0, end |-> 0, segs |-> <<>>]

MemInit ==
  /\ npages \in Memories
  /\ nfree     = npages - 7
  /\ slotState = [p \in MemSlots |-> IF p = 1 THEN "run" ELSE "unused"]
  /\ frame     = [p \in MemSlots |-> p = 1]
  /\ table     = [p \in MemSlots |-> IF p = 1 THEN FirstTable ELSE NoTable]
  /\ size      = [p \in MemSlots |-> IF p = 1 THEN PGSIZE ELSE 0]
  /\ job       = [p \in MemSlots |-> User]
  /\ image     = [p \in MemSlots |-> NoTable]
  /\ imgsz     = [p \in MemSlots |-> 0]
  /\ mpanic    = "none"

-----------------------------------------------------------------------------
(* vm.c, on a page table t with n free pages.                              *)

\* walk(t, va, 1): down the path, as far as there are pages for what is missing on it.
walk(t, path, n) ==
  LET Missing(k) == {path[j] : j \in 1..k} \ t.tabs
      Fits(k)    == Cardinality(Missing(k)) <= n
      depth == CHOOSE k \in 0..Len(path) : Fits(k) /\ \A j \in 0..Len(path) : Fits(j) => j <= k
  IN [ok |-> depth = Len(path), n |-> n - Cardinality(Missing(depth)),
      t |-> [t EXCEPT !.tabs = @ \union Missing(depth)]]

\* kalloc() and mappages() of user page v; without a page-table page the new page
\* is freed, but the tables stay.
MapNew(t, v, n) ==
  IF n = 0 THEN [ok |-> FALSE, t |-> t, n |-> 0]
  ELSE LET w == walk(t, User_path(v), n - 1) IN
         IF w.ok THEN [w EXCEPT !.t.leaves = @ \union {v}] ELSE [w EXCEPT !.n = @ + 1]

\* proc_pagetable(): all of it or nothing.
proc_pagetable(n) ==
  IF n = 0 THEN [ok |-> FALSE, t |-> NoTable, n |-> n]
  ELSE LET w == walk([NoTable EXCEPT !.tabs = {Root_page}], High_path, n - 1) IN
         IF w.ok THEN [w EXCEPT !.t.fixed = TRUE] ELSE [ok |-> FALSE, t |-> NoTable, n |-> n]

\* uvmunmap() of the pages vs, which it frees; it panics unless all are mapped.
uvmunmap(t, vs, n) ==
  [panics |-> ~(vs \subseteq t.leaves), t |-> [t EXCEPT !.leaves = @ \ vs],
   n |-> n + Cardinality(vs)]

\* (Mutation: the page in which the new size lies goes too.)
uvmdealloc_down(t, old, new, n) ==
  IF new >= old THEN [panics |-> FALSE, t |-> t, n |-> n]
  ELSE uvmunmap(t, (new \div PGSIZE)..(PgRoundUp(old) - 1), n)

\* uvmdealloc(t, old, new).
uvmdealloc(t, old, new, n) ==
  IF new >= old THEN [panics |-> FALSE, t |-> t, n |-> n]
  ELSE uvmunmap(t, PgRoundUp(new)..(PgRoundUp(old) - 1), n)

\* proc_freepagetable(t, sz), with uvmfree() and freewalk(), which panics when a page
\* is still mapped.
proc_freepagetable(t, sz, n) ==
  LET u == uvmunmap(t, 0..(PgRoundUp(sz) - 1), n) IN
    [panics |-> u.panics \/ ~t.fixed \/ u.t.leaves # {}, n |-> u.n + Cardinality(t.tabs)]

-----------------------------------------------------------------------------
Runs(p, l)  == mpanic = "none" /\ slotState[p] = "run" /\ job[p].at = l
Goto_job(p, j)  == job' = [job EXCEPT ![p] = j]
Panics(why) == /\ mpanic' = why
               /\ UNCHANGED <<nfree, slotState, frame, table, size, job, image, imgsz>>

\* growproc(n), n > 0: uvmalloc() from a to end ...
SbrkGrow(p, n) ==
  /\ Runs(p, "user") /\ size[p] + n <= MaxSz
  /\ Goto_job(p, [User EXCEPT !.at = "sbrk", !.a = PgRoundUp(size[p]), !.end = size[p] + n])
  /\ UNCHANGED <<nfree, slotState, frame, table, size, image, imgsz, mpanic>>

\* ... page by page; it gives back what it has got when there is not enough.
SbrkPage(p) ==
  /\ Runs(p, "sbrk")
  /\ IF job[p].a * PGSIZE >= job[p].end
       THEN /\ size' = [size EXCEPT ![p] = job[p].end]
            /\ Goto_job(p, User)
            /\ UNCHANGED <<nfree, table, mpanic>>
     ELSE \E w \in {MapNew(table[p], job[p].a, nfree)} :
          \E d \in {uvmdealloc(w.t, job[p].a * PGSIZE, PgRoundUp(size[p]) * PGSIZE, w.n)} :
            /\ UNCHANGED size
            /\ IF w.ok
                 THEN /\ nfree' = w.n /\ table' = [table EXCEPT ![p] = w.t]
                      /\ Goto_job(p, [job[p] EXCEPT !.a = @ + 1])
                      /\ UNCHANGED mpanic
                 ELSE /\ nfree' = d.n /\ table' = [table EXCEPT ![p] = d.t]
                      /\ Goto_job(p, User)
                      /\ mpanic' = IF d.panics THEN "uvmunmap" ELSE "none"
  /\ UNCHANGED <<slotState, frame, image, imgsz>>

\* growproc(-n).  A size below zero is a huge uint64: uvmdealloc() does nothing.
SbrkShrink(p, n) ==
  /\ Runs(p, "user") /\ n <= size[p]
  /\ \E d \in {uvmdealloc(table[p], size[p], size[p] - n, nfree)} :
       IF d.panics THEN Panics("uvmunmap")
       ELSE /\ nfree' = d.n
            /\ table' = [table EXCEPT ![p] = d.t]
            /\ size'  = [size EXCEPT ![p] = @ - n]
            /\ UNCHANGED <<slotState, frame, job, image, imgsz, mpanic>>

-----------------------------------------------------------------------------
\* freeproc(q), whose page table is t by now, with n pages free.
freeproc(q, t, sz, n) ==
  \E d \in {IF t = NoTable THEN [panics |-> FALSE, n |-> n] ELSE proc_freepagetable(t, sz, n)} :
    /\ nfree'     = d.n + (IF frame[q] THEN 1 ELSE 0)
    /\ mpanic'    = IF d.panics THEN "freeproc" ELSE "none"
    /\ frame'     = [frame EXCEPT ![q] = FALSE]
    /\ table'     = [table EXCEPT ![q] = NoTable]
    /\ size'      = [size EXCEPT ![q] = 0]
    /\ slotState' = [slotState EXCEPT ![q] = "unused"]

\* fork(): allocproc() up to the trapframe; without a slot or a page nothing happens.
ForkFrame(p) ==
  /\ Runs(p, "user") /\ nfree > 0
  /\ \E q \in MemSlots :
       /\ slotState[q] = "unused" /\ \A s \in MemSlots : slotState[s] = "unused" => q <= s
       /\ slotState' = [slotState EXCEPT ![q] = "used"]
       /\ frame'     = [frame EXCEPT ![q] = TRUE]
       /\ nfree'     = nfree - 1
       /\ Goto_job(p, [User EXCEPT !.at = "fork_table", !.np = q])
  /\ UNCHANGED <<table, size, image, imgsz, mpanic>>

\* The rest of allocproc().
ForkTable(p) ==
  /\ Runs(p, "fork_table")
  /\ LET q == job[p].np IN
     \E w \in {proc_pagetable(nfree)} :
       IF w.ok
         THEN /\ nfree' = w.n /\ table' = [table EXCEPT ![q] = w.t]
              /\ Goto_job(p, [job[p] EXCEPT !.at = "fork_copy"])
              /\ UNCHANGED <<slotState, frame, size, mpanic>>
         ELSE freeproc(q, NoTable, size[q], nfree) /\ Goto_job(p, User)
  /\ UNCHANGED <<image, imgsz>>

\* uvmcopy() of one page, or the end of fork().
ForkPage(p) ==
  /\ Runs(p, "fork_copy")
  /\ UNCHANGED <<image, imgsz>>
  /\ LET q == job[p].np
         v == job[p].a IN
     IF v * PGSIZE >= size[p]
       THEN /\ size'      = [size EXCEPT ![q] = size[p]]
            /\ slotState' = [slotState EXCEPT ![q] = "run"]
            /\ Goto_job(p, User)
            /\ UNCHANGED <<nfree, frame, table, mpanic>>
     ELSE IF v \notin table[p].leaves
       THEN /\ mpanic' = "uvmcopy"
            /\ UNCHANGED <<nfree, slotState, frame, table, size, job>>
     ELSE \E w \in {MapNew(table[q], v, nfree)} :
          \E u \in {uvmunmap(w.t, 0..(v - 1), w.n)} :
            IF w.ok
              THEN /\ nfree' = w.n /\ table' = [table EXCEPT ![q] = w.t]
                   /\ Goto_job(p, [job[p] EXCEPT !.a = @ + 1])
                   /\ UNCHANGED <<slotState, frame, size, mpanic>>
              ELSE freeproc(q, u.t, size[q], u.n) /\ Goto_job(p, User)

\* exit() ...
Exits_proc(p) ==
  /\ Runs(p, "user") /\ p # 1
  /\ slotState' = [slotState EXCEPT ![p] = "zombie"]
  /\ UNCHANGED <<nfree, frame, table, size, job, image, imgsz, mpanic>>

\* ... and the freeproc() of wait().
Reaped(q) ==
  /\ mpanic = "none" /\ slotState[q] = "zombie"
  /\ freeproc(q, table[q], size[q], nfree)
  /\ UNCHANGED <<job, image, imgsz>>

-----------------------------------------------------------------------------
\* exec(): proc_pagetable().
ExecTable(p, segs) ==
  /\ Runs(p, "user")
  /\ \E w \in {proc_pagetable(nfree)} :
       /\ w.ok
       /\ nfree' = w.n
       /\ image' = [image EXCEPT ![p] = w.t]
       /\ imgsz' = [imgsz EXCEPT ![p] = 0]
       /\ Goto_job(p, [User EXCEPT !.at = "exec", !.segs = segs])
  /\ UNCHANGED <<slotState, frame, table, size, mpanic>>

\* "bad:", with page table t and n free pages.
Bad(p, t, n) ==
  \E d \in {proc_freepagetable(t, imgsz[p], n)} :
    /\ nfree'  = d.n
    /\ mpanic' = IF d.panics THEN "exec" ELSE "none"
    /\ image'  = [image EXCEPT ![p] = NoTable]
    /\ imgsz'  = [imgsz EXCEPT ![p] = 0]
    /\ Goto_job(p, User)

\* The next segment, or the stack with its guard, begins: uvmalloc() up to end.  A
\* size that stays 0 looks like a failure.
ExecSegment(p) ==
  /\ Runs(p, "exec")
  /\ LET last == job[p].segs = <<>>
         from == IF last THEN PgRoundUp(imgsz[p]) * PGSIZE ELSE imgsz[p]
         end  == IF last THEN from + 2 * PGSIZE ELSE Head(job[p].segs) IN
       IF end < from
         THEN /\ Goto_job(p, [job[p] EXCEPT !.segs = Tail(@)])
              /\ UNCHANGED <<nfree, image, imgsz, mpanic>>
       ELSE IF end = 0 THEN Bad(p, image[p], nfree)
       ELSE /\ Goto_job(p, [job[p] EXCEPT !.at = IF last THEN "exec_stack" ELSE "exec_load",
                                          !.a = PgRoundUp(from), !.end = end,
                                          !.segs = IF last THEN <<>> ELSE Tail(@)])
            /\ UNCHANGED <<nfree, image, imgsz, mpanic>>
  /\ UNCHANGED <<slotState, frame, table, size>>

\* One page of uvmalloc().  From exec()'s view its failure is "bad".
ExecPage(p) ==
  /\ \E l \in {"exec_load", "exec_stack"} : Runs(p, l)
  /\ job[p].a * PGSIZE < job[p].end
  /\ \E w \in {MapNew(image[p], job[p].a, nfree)} :
       IF w.ok
         THEN /\ nfree' = w.n /\ image' = [image EXCEPT ![p] = w.t]
              /\ Goto_job(p, [job[p] EXCEPT !.a = @ + 1])
              /\ UNCHANGED <<imgsz, mpanic>>
         ELSE LET from == IF job[p].at = "exec_stack" THEN job[p].end - 2 * PGSIZE ELSE imgsz[p]
              IN \E d \in {uvmdealloc(w.t, job[p].a * PGSIZE, PgRoundUp(from) * PGSIZE, w.n)} :
                   IF d.panics THEN mpanic' = "uvmunmap" /\ UNCHANGED <<nfree, job, image, imgsz>>
                               ELSE Bad(p, d.t, d.n)
  /\ UNCHANGED <<slotState, frame, table, size>>

\* The segment is mapped, and read from the file.
ExecLoaded(p) ==
  /\ Runs(p, "exec_load") /\ job[p].a * PGSIZE >= job[p].end
  /\ imgsz' = [imgsz EXCEPT ![p] = job[p].end]
  /\ Goto_job(p, [job[p] EXCEPT !.at = "exec"])
  /\ UNCHANGED <<nfree, slotState, frame, table, size, image, mpanic>>

\* A file that is not what it should be.
ExecBadFile(p) ==
  /\ Runs(p, "exec")
  /\ Bad(p, image[p], nfree)
  /\ UNCHANGED <<slotState, frame, table, size>>

\* The arguments do not fit in the stack, or they do: commit to the user image.
ExecCommit(p) ==
  /\ Runs(p, "exec_stack") /\ job[p].a * PGSIZE >= job[p].end
  /\ \E d \in {proc_freepagetable(table[p], size[p], nfree)} :
       /\ nfree'  = d.n
       /\ mpanic' = IF d.panics THEN "exec" ELSE "none"
  /\ table' = [table EXCEPT ![p] = image[p]]
  /\ size'  = [size EXCEPT ![p] = job[p].end]
  /\ image' = [image EXCEPT ![p] = NoTable]
  /\ imgsz' = [imgsz EXCEPT ![p] = 0]
  /\ Goto_job(p, User)
  /\ UNCHANGED <<slotState, frame>>

ExecBadArgs(p) ==
  /\ Runs(p, "exec_stack") /\ job[p].a * PGSIZE >= job[p].end
  /\ \E d \in {proc_freepagetable(image[p], job[p].end, nfree)} :
       /\ nfree'  = d.n
       /\ mpanic' = IF d.panics THEN "exec" ELSE "none"
  /\ image' = [image EXCEPT ![p] = NoTable]
  /\ imgsz' = [imgsz EXCEPT ![p] = 0]
  /\ Goto_job(p, User)
  /\ UNCHANGED <<slotState, frame, table, size>>

MemStep == \E p \in MemSlots :
  \/ \E n \in 1..MaxSz : SbrkGrow(p, n) \/ SbrkShrink(p, n)
  \/ SbrkPage(p) \/ ForkFrame(p) \/ ForkTable(p) \/ ForkPage(p) \/ Exits_proc(p) \/ Reaped(p)
  \/ \E s \in Images : ExecTable(p, s)
  \/ ExecSegment(p) \/ ExecPage(p) \/ ExecLoaded(p) \/ ExecBadFile(p) \/ ExecCommit(p)
  \/ ExecBadArgs(p)

MemNext == MemStep /\ UNCHANGED npages

MemSpec == MemInit /\ [][MemNext]_memVars
-----------------------------------------------------------------------------
(* Properties.                                                             *)

\* The pages of a process: those of its page table and of the one exec() builds, the
\* page-table pages and the user pages, and the trapframe.
Owned(p) ==
  ({"table"} \X table[p].tabs) \union ({"user"} \X table[p].leaves)
  \union ({"image_table"} \X image[p].tabs) \union ({"image_user"} \X image[p].leaves)
  \union (IF frame[p] THEN {<<"trapframe", 0>>} ELSE {})
InUse == UNION {{p} \X Owned(p) : p \in MemSlots}

\* Whichever kalloc() finds no page, and wherever fork(), exec() and sbrk() then
\* stand, every page is in the free list or belongs to one process, or to an exec()
\* under way; a free slot has none; and the size of a process in user space says
\* which pages it has mapped, so that the next uvmunmap(), uvmcopy() or freewalk()
\* does not panic (vm.c:171-333, "frees any allocated pages on failure", :304).
PagesKept ==
  /\ mpanic = "none"
  /\ npages = nfree + Cardinality(InUse)
  /\ \A p \in MemSlots :
       /\ slotState[p] = "unused" => ~frame[p] /\ table[p] = NoTable /\ size[p] = 0
       /\ slotState[p] = "run" /\ job[p].at # "sbrk" =>
            table[p].leaves = 0..(PgRoundUp(size[p]) - 1)
=============================================================================
