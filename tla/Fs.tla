--------------------------------- MODULE Fs ---------------------------------
(***************************************************************************)
(* xv6's inodes, directories and names (LAB3 kernel/fs.c) under the system *)
(* calls of kernel/sysfile.c, by several processes, with power failures.   *)
(*                                                                         *)
(* Grain.  A step is what a process does from taking the sleep lock of an  *)
(* inode, or itable.lock, to the next place where it may block or where    *)
(* others can see something: what happens under an inode's lock touches    *)
(* only that inode, its blocks and single entries of the table.  A         *)
(* call is a list of such steps, todo[p], each of which puts the steps     *)
(* that follow it in front.                                                *)
(*                                                                         *)
(* The log (module Log) makes the calls between two commits atomic, and    *)
(* commits only when no call is under way.  So a power failure takes the   *)
(* disk back to what it was at such a moment, and Crash is enabled then.   *)
(*                                                                         *)
(* An inode has one direct block and an indirect one with room for one.    *)
(***************************************************************************)
EXTENDS Naturals, Sequences, FiniteSets, Functions, SequencesExt

CONSTANTS Procs, NoProc,
          Inums,      \* the inodes of the disk; 1 is the root
          Blocks,     \* the data blocks
          PerBlock,   \* directory entries in a block
          Workloads,  \* the programs the processes may run: lists of calls
          MaxCrashes  \* bound on the power failures

ASSUME FsAssumption ==
  /\ Inums \subseteq Nat \ {0} /\ 1 \in Inums /\ IsFiniteSet(Inums)
  /\ Blocks \subseteq Nat \ {0} /\ 1 \in Blocks /\ PerBlock \in Nat \ {0, 1}
  /\ NoProc \notin Procs /\ IsFiniteSet(Procs)

\* Paths begin with "/" for one from the root.  One that names nothing but the root
\* has no last name to look up (nameiparent() fails at once).
Names(path) == IF path[1] = "/" THEN Tail(path) ELSE path
Paths       == {s \in Seq(STRING) : s # <<>>}
Named       == {s \in Paths : Names(s) # <<>>}
Requests ==
  [op : {"close", "write"}] \union
  [op : {"open", "chdir"}, path : Paths, mode : {"rdonly", "rdwr", "trunc"}] \union
  [op : {"unlink", "creat", "mkdir"}, path : Named, mode : {"rdonly", "rdwr", "trunc"}] \union
  [op : {"link"}, path : Paths, new : Named]

ASSUME WorkloadsAssumption == Workloads \subseteq [Procs -> Seq(Requests)]

VARIABLES
  disk, data, bitmap,     \* inodes, their contents, the blocks in use
  itable,                 \* the inodes in memory, by number
  cwd, fd,                \* p->cwd, p->ofile: one descriptor for each process
  work, rest,             \* the programs, and the calls left of each
  call, todo, ptr,        \* the call, the steps left, its pointers to inodes
  panic,                  \* why the kernel stopped
  crashes,                \* the power failures so far
  stray, lost, slipped    \* history, for what the code does not promise

fsVars == <<disk, data, bitmap>>
progVars == <<work, rest, call, crashes>>
history  == <<stray, lost, slipped>>
vars     == <<fsVars, itable, cwd, fd, progVars, todo, ptr, panic, history>>

\* What most steps leave alone.
others   == <<cwd, fd, progVars, panic>>

Root     == 1
NoBlocks == <<>>
FreeNode == [type |-> "none", nlink |-> 0, addrs |-> NoBlocks]
Empty    == [name |-> "", inum |-> 0]

\* What mkfs leaves: a root with "." and "..", its block filled up.
RootNode == [type |-> "dir", nlink |-> 1, addrs |-> <<1>>]
RootData == [k \in 1..PerBlock |->
              CASE k = 1 -> [name |-> ".", inum |-> Root]
                [] k = 2 -> [name |-> "..", inum |-> Root]
                [] OTHER -> Empty]

\* An entry of itable that is free, and one just taken.
NoInode    == [ref |-> 0, valid |-> FALSE, lock |-> NoProc, node |-> FreeNode]
Taken(n)   == [NoInode EXCEPT !.ref = n]

\* Memory after a boot: every process in the root directory.
BootTable == [i \in Inums |-> IF i = Root THEN Taken(Cardinality(Procs)) ELSE NoInode]
BootCwd   == [p \in Procs |-> Root]
NoCall    == [op |-> "none", path |-> <<>>]
NoPtr     == [ip |-> 0, dp |-> 0, x |-> 0]

Init ==
  /\ disk   = [i \in Inums |-> IF i = Root THEN RootNode ELSE FreeNode]
  /\ data   = [i \in Inums |-> IF i = Root THEN RootData ELSE <<>>]
  /\ bitmap = {1}
  /\ itable = BootTable
  /\ cwd    = BootCwd
  /\ fd     = [p \in Procs |-> 0]
  /\ work   \in Workloads
  /\ rest   = work
  /\ crashes = 0
  /\ call   = [p \in Procs |-> NoCall]
  /\ todo   = [p \in Procs |-> <<>>]
  /\ ptr    = [p \in Procs |-> NoPtr]
  /\ panic  = ""
  /\ stray  = FALSE
  /\ lost   = {}
  /\ slipped = {}

-----------------------------------------------------------------------------
(* Blocks and contents.                                                    *)

\* Blocks that n blocks of contents take: the second one needs the indirect.
Needed(n) == IF n <= 1 THEN n ELSE n + 1
MAXFILE   == 2

\* balloc(): the first free block of the bitmap, if there is one.
First_of(S) == CHOOSE m \in S : \A k \in S : m <= k

balloc(addrs, used) ==
  LET free == Blocks \ (used \union Range(addrs))
  IN IF free = {} THEN addrs ELSE Append(addrs, First_of(free))

\* bmap() for the last of n blocks of contents, and for the indirect block before it.
Grown(addrs, used, n) ==
  LET one == IF Len(addrs) < Needed(n) THEN balloc(addrs, used) ELSE addrs
  IN IF Len(one) < Needed(n) THEN balloc(one, used) ELSE one

Fits(addrs, n) == n <= MAXFILE /\ Len(addrs) >= Needed(n)

\* dirlookup(): the inode of a name, 0 if there is none.
dirlookup(ents, name) ==
  IF \E k \in DOMAIN ents : ents[k].inum # 0 /\ ents[k].name = name
    THEN ents[CHOOSE k \in DOMAIN ents :
                ents[k].inum # 0 /\ ents[k].name = name].inum
    ELSE 0

\* The place dirlink() writes at: the first empty entry, or the end.
Where(ents) ==
  LET free == {k \in DOMAIN ents : ents[k].inum = 0}
  IN IF free = {} THEN Len(ents) + 1 ELSE First_of(free)

\* writei() of one entry: contents and blocks after it; without room the
\* contents stay, and so do the blocks that bmap() got.
dirlink(ents, addrs, used, name, i) ==
  LET k  == Where(ents)
      n  == (k - 1) \div PerBlock + 1
      as == IF n <= MAXFILE THEN Grown(addrs, used, n) ELSE addrs
      ok == Fits(as, n)
  IN [ok |-> ok, addrs |-> as, used |-> used \union Range(as),
      ents |-> IF ok THEN [j \in 1..(IF k > Len(ents) THEN k ELSE Len(ents)) |->
                             IF j = k THEN [name |-> name, inum |-> i] ELSE ents[j]]
                     ELSE ents]

\* The same after an earlier write r, unless that failed.
dirlink2(r, name, i) == IF r.ok THEN dirlink(r.ents, r.addrs, r.used, name, i) ELSE r

\* isdirempty(), which passes over the first two entries.
isdirempty(ents) == \A k \in DOMAIN ents : k > 2 => ents[k].inum = 0

-----------------------------------------------------------------------------
(* The table of inodes.  It has room for every inode (NINODE is 50).       *)

\* ip->ref++ and ip->ref--; the last reference leaves a free entry.
More(e)  == [e EXCEPT !.ref = @ + 1]
Fewer(e) == IF e.ref = 1 THEN NoInode ELSE [e EXCEPT !.ref = @ - 1]

\* iget() of inode i, and idup().
iget(t, i) == [t EXCEPT ![i] = IF @.ref > 0 THEN More(@) ELSE Taken(1)]

\* What ilock() makes of entry i for p, where NoProc is for a lock that is free
\* again at the end of the step.
Node(i)     == IF itable[i].valid THEN itable[i].node ELSE disk[i]
ilock(p, i) == [itable EXCEPT ![i] = [ref |-> @.ref, valid |-> TRUE, lock |-> p, node |-> Node(i)]]

\* p is at step op with pointer v to an inode whose lock is free.
At(p, op)  == panic = "" /\ todo[p] # <<>> /\ Head(todo[p])[1] = op
V(p)       == Head(todo[p])[2]
I(p)       == ptr[p][V(p)]
Free(i)    == itable[i].lock = NoProc

\* The steps that follow: before those that are left, or instead of them.
Then(p, ops) == todo' = [todo EXCEPT ![p] = ops \o Tail(@)]
Only(p, ops) == todo' = [todo EXCEPT ![p] = ops]
Fails(why)   == panic' = why /\ UNCHANGED <<fsVars, itable, cwd, fd, progVars, todo, ptr, history>>

UnlockPut(v) == << <<"unlock", v>>, <<"put", v>> >>

\* iunlock().
Unlock(p) ==
  /\ At(p, "unlock")
  /\ itable' = [itable EXCEPT ![I(p)].lock = NoProc]
  /\ Then(p, <<>>)
  /\ UNCHANGED <<fsVars, others, ptr, history>>

Deref(p) ==
  /\ itable' = [itable EXCEPT ![I(p)] = Fewer(@)]
  /\ ptr'    = [ptr EXCEPT ![p][V(p)] = 0]
  /\ Then(p, <<>>)

\* (Mutation: iput() does not look at ip->ref.)
Unused_any(i) == itable[i].valid /\ itable[i].node.nlink = 0

\* iput() frees an inode without links and other references.
Unused(i) == itable[i].ref = 1 /\ itable[i].valid /\ itable[i].node.nlink = 0

\* iput() of any other inode.
Put(p) ==
  /\ At(p, "put") /\ ~Unused(I(p))
  /\ Deref(p)
  /\ UNCHANGED <<fsVars, others, history>>

PutUnused(p) ==
  /\ At(p, "put") /\ Unused(I(p)) /\ Free(I(p))
  /\ itable' = [itable EXCEPT ![I(p)].lock = p]
  /\ Then(p, << <<"free", V(p)>> >>)
  /\ UNCHANGED <<fsVars, others, ptr, history>>

\* itrunc(), ip->type = 0, iupdate().
FreeInode(p) ==
  /\ At(p, "free")
  /\ LET i == I(p) IN
       IF Range(itable[i].node.addrs) \subseteq bitmap
         THEN /\ bitmap' = bitmap \ Range(itable[i].node.addrs)
              /\ disk'   = [disk EXCEPT ![i] = FreeNode]
              /\ data'   = [data EXCEPT ![i] = <<>>]
              /\ itable' = [itable EXCEPT ![i].node = FreeNode]
              /\ Then(p, << <<"drop", V(p)>> >>)
              /\ UNCHANGED <<others, ptr, history>>
         ELSE Fails("freeing free block")

\* (Mutation: iput() leaves ip->valid set.)
Drop_valid(p) ==
  /\ At(p, "drop")
  /\ itable' = [itable EXCEPT ![I(p)].lock = NoProc]
  /\ Then(p, << <<"deref", V(p)>> >>)
  /\ UNCHANGED <<fsVars, others, ptr, history>>

\* ip->valid = 0; releasesleep(&ip->lock).
Drop(p) ==
  /\ At(p, "drop")
  /\ itable' = [itable EXCEPT ![I(p)] = Taken(@.ref)]
  /\ Then(p, << <<"deref", V(p)>> >>)
  /\ UNCHANGED <<fsVars, others, ptr, history>>

\* The last lines of iput() for an inode it freed.  Meanwhile another process may
\* have taken the inode again, and have removed it again: that goes unnoticed.
PutFreed(p) ==
  /\ At(p, "deref")
  /\ Deref(p)
  /\ slipped' = IF itable[I(p)].ref = 1 /\ disk[I(p)].type # "none" /\ disk[I(p)].nlink = 0
                  THEN slipped \union {I(p)} ELSE slipped
  /\ UNCHANGED <<fsVars, others, stray, lost>>

-----------------------------------------------------------------------------
(* Names.                                                                  *)

\* namex() up to its loop: from the root or a copy of p->cwd.
From(p, path) == IF path[1] = "/" THEN Root ELSE cwd[p]

\* The steps of namei() and nameiparent(): one round of namex() for each name.
Rounds(v, names) == [k \in DOMAIN names |-> <<"walk", v, names[k]>>]
namei(v, path)       == Rounds(v, Names(path))
nameiparent(v, path) == Rounds(v, Front(Names(path))) \o << <<"parent", v>> >>

\* When a path leads nowhere: link() takes its nlink++ back.
Nowhere(p) == Only(p, << <<"put", V(p)>> >> \o
                (IF call[p].op = "link" /\ V(p) = "dp" THEN << <<"link_bad", "ip">> >>
                 ELSE <<>>))

\* One round of namex().
Walk(p) ==
  /\ At(p, "walk") /\ Free(I(p)) /\ Node(I(p)).type # "none"
  /\ LET i    == I(p)
         name == Head(todo[p])[3]
         next == dirlookup(data[i], name) IN
       IF Node(i).type # "dir" \/ next = 0
         THEN /\ itable' = ilock(NoProc, i)
              /\ Nowhere(p)
              /\ UNCHANGED <<ptr, stray>>
         ELSE /\ itable' = iget(ilock(NoProc, i), next)
              /\ ptr'    = [ptr EXCEPT ![p].x = i, ![p][V(p)] = next]
              /\ Then(p, << <<"put", "x">> >>)
              /\ stray'  = (stray \/ (name = ".." /\ Node(i).nlink = 0))
  /\ UNCHANGED <<fsVars, others, lost, slipped>>

\* The last round of nameiparent().
Parent(p) ==
  /\ At(p, "parent") /\ Free(I(p)) /\ Node(I(p)).type # "none"
  /\ itable' = ilock(NoProc, I(p))
  /\ IF Node(I(p)).type = "dir" THEN Then(p, <<>>) ELSE Nowhere(p)
  /\ UNCHANGED <<fsVars, others, ptr, history>>

\* ilock() reads an inode that is free.
NoType(p) ==
  /\ \E op \in {"walk", "parent", "unlink_ip", "exists", "open_ip", "link_ip", "chdir_ip"} :
       At(p, op)
  /\ Free(I(p)) /\ Node(I(p)).type = "none"
  /\ Fails("ilock: no type")

-----------------------------------------------------------------------------
(* System calls.  dp is the directory, ip the inode a call is about.       *)

Name(p) == Last(IF call[p].op = "link" THEN call[p].new ELSE call[p].path)

\* begin_op() and the first steps of call c.
Steps(c) ==
  CASE c.op = "unlink" -> nameiparent("dp", c.path) \o << <<"unlink_dp", "dp">> >>
    [] c.op \in {"creat", "mkdir"} ->
                          nameiparent("dp", c.path) \o << <<"create_dp", "dp">> >>
    [] c.op = "open"   -> namei("ip", c.path) \o << <<"open_ip", "ip">> >>
    [] c.op = "chdir"  -> namei("ip", c.path) \o << <<"chdir_ip", "ip">> >>
    [] c.op = "link"   -> namei("ip", c.path) \o << <<"link_ip", "ip">> >>

First(c) == IF c.op \in {"unlink", "creat", "mkdir"} THEN "dp" ELSE "ip"

Calls == {"unlink", "creat", "mkdir", "open", "chdir", "link"}

\* The next call of p's program, which goes on whatever the last one returned.
NextCall(p, ops) ==
  /\ panic = "" /\ todo[p] = <<>> /\ rest[p] # <<>> /\ Head(rest[p]).op \in ops
  /\ call' = [call EXCEPT ![p] = Head(rest[p])]
  /\ rest' = [rest EXCEPT ![p] = Tail(@)]
  /\ UNCHANGED <<work, crashes>>

Call(p) ==
  /\ NextCall(p, Calls)
  /\ LET c    == Head(rest[p])
         from == From(p, c.path) IN
       /\ itable' = iget(itable, from)
       /\ ptr'    = [ptr EXCEPT ![p][First(c)] = from]
       /\ Only(p, Steps(c))
  /\ UNCHANGED <<fsVars, cwd, fd, panic, history>>

\* close(): fileclose() of the last reference to the file.
Close(p) ==
  /\ NextCall(p, {"close"})
  /\ fd'  = [fd EXCEPT ![p] = 0]
  /\ ptr' = [ptr EXCEPT ![p].ip = fd[p]]
  /\ Only(p, IF fd[p] = 0 THEN <<>> ELSE << <<"put", "ip">> >>)
  /\ UNCHANGED <<fsVars, itable, cwd, panic, history>>

\* write() of one more block: filewrite() in one transaction, writei().
Write(p) ==
  /\ NextCall(p, {"write"})
  /\ fd[p] # 0 => Free(fd[p])
  /\ IF fd[p] = 0 \/ Node(fd[p]).type # "file" THEN UNCHANGED <<fsVars, itable>> ELSE
       LET i  == fd[p]
           n  == Len(data[i]) + 1
           as == IF n <= MAXFILE THEN Grown(Node(i).addrs, bitmap, n) ELSE Node(i).addrs
           nd == [Node(i) EXCEPT !.addrs = as] IN
         /\ itable' = [ilock(NoProc, i) EXCEPT ![i].node = nd]
         /\ disk'   = [disk EXCEPT ![i] = nd]
         /\ bitmap' = bitmap \union Range(as)
         /\ data'   = IF Fits(as, n) THEN [data EXCEPT ![i] = Append(@, "block")] ELSE data
  /\ UNCHANGED <<cwd, fd, todo, ptr, panic, history>>

\* sys_unlink() up to dirlookup(), with dp locked.
UnlinkDp(p) ==
  /\ At(p, "unlink_dp") /\ Free(I(p))
  /\ LET i    == I(p)
         next == dirlookup(data[i], Name(p)) IN
       IF Name(p) \in {".", ".."} \/ next = 0
         THEN /\ itable' = ilock(p, i)
              /\ Then(p, UnlockPut("dp"))
              /\ UNCHANGED ptr
         ELSE /\ itable' = iget(ilock(p, i), next)
              /\ ptr' = [ptr EXCEPT ![p].ip = next]
              /\ Then(p, << <<"unlink_ip", "ip">> >>)
  /\ UNCHANGED <<fsVars, others, history>>

\* The middle of sys_unlink(), with dp and ip locked: clear the entry, give
\* back the link of "..".
UnlinkIp(p) ==
  /\ At(p, "unlink_ip") /\ Free(I(p)) /\ Node(I(p)).type # "none"
  /\ LET i  == I(p)
         d  == ptr[p].dp
         n  == itable[d].node
         nd == IF Node(i).type = "dir" THEN [n EXCEPT !.nlink = @ - 1] ELSE n IN
       IF Node(i).nlink < 1 THEN Fails("unlink: nlink < 1")
       ELSE IF Node(i).type = "dir" /\ ~isdirempty(data[i])
         THEN /\ itable' = ilock(p, i)
              /\ Then(p, UnlockPut("ip") \o UnlockPut("dp"))
              /\ UNCHANGED <<fsVars, others, ptr, history>>
         ELSE /\ data'   = [data EXCEPT ![d] = [k \in DOMAIN @ |->
                             IF @[k].inum # 0 /\ @[k].name = Name(p) THEN Empty ELSE @[k]]]
              /\ disk'   = [disk EXCEPT ![d] = nd]
              /\ itable' = [ilock(p, i) EXCEPT ![d].node = nd]
              /\ Then(p, UnlockPut("dp") \o << <<"nlink", "ip">> >> \o UnlockPut("ip"))
              /\ UNCHANGED <<bitmap, others, ptr, history>>

\* ip->nlink--; iupdate(ip), with ip locked.
Nlink(p) ==
  /\ At(p, "nlink")
  /\ LET n == [itable[I(p)].node EXCEPT !.nlink = @ - 1] IN
       /\ disk'   = [disk EXCEPT ![I(p)] = n]
       /\ itable' = [itable EXCEPT ![I(p)].node = n]
  /\ Then(p, <<>>)
  /\ UNCHANGED <<data, bitmap, others, ptr, history>>

\* A new entry in a directory that was removed, or what its ".." still names.
Strays(p, d) ==
  stray' = (stray \/ (Node(d).nlink = 0 /\ (Name(p) = ".." \/ dirlookup(data[d], Name(p)) = 0)))

\* create() up to ialloc() and ilock(): the name exists, or a new inode.
CreateDp(p) ==
  /\ At(p, "create_dp") /\ Free(I(p))
  /\ LET i    == I(p)
         next == dirlookup(data[i], Name(p))
         none == {j \in Inums : disk[j].type = "none"} IN
       IF next # 0
         THEN /\ itable' = iget(ilock(p, i), next)
              /\ ptr' = [ptr EXCEPT ![p].ip = next]
              /\ Then(p, UnlockPut("dp") \o << <<"exists", "ip">> >>)
              /\ UNCHANGED disk
       ELSE IF none = {}
         THEN /\ itable' = ilock(p, i)
              /\ Then(p, UnlockPut("dp"))
              /\ UNCHANGED <<disk, ptr>>
       ELSE LET new == First_of(none) IN
              /\ disk'   = [disk EXCEPT ![new].type =
                              IF call[p].op = "mkdir" THEN "dir" ELSE "file"]
              /\ itable' = iget(ilock(p, i), new)
              /\ ptr'    = [ptr EXCEPT ![p].ip = new]
              /\ Then(p, << <<"create_ip", "ip">> >>)
  /\ Strays(p, I(p))
  /\ UNCHANGED <<data, bitmap, others, lost, slipped>>

\* create() of a name that exists: only a file for open().
Exists(p) ==
  /\ At(p, "exists") /\ Free(I(p)) /\ Node(I(p)).type # "none"
  /\ itable' = ilock(p, I(p))
  /\ Then(p, IF call[p].op = "creat" /\ Node(I(p)).type = "file"
               THEN << <<"opened", "ip">> >> ELSE UnlockPut("ip"))
  /\ UNCHANGED <<fsVars, others, ptr, history>>

\* The contents of the new inode i: "." and ".." in a directory.
NewContents(i, d, dir, used) ==
  IF ~dir THEN [ok |-> TRUE, ents |-> <<>>, addrs |-> NoBlocks, used |-> used]
  ELSE dirlink2(dirlink(<<>>, NoBlocks, used, ".", i), "..", d)

\* create() from ilock(ip) on, with dp locked: the entries "." and ".." of a new
\* directory, then the entry in dp; or, when the disk is full, back.
CreateIp(p) ==
  /\ At(p, "create_ip") /\ Free(I(p))
  /\ LET i   == I(p)
         d   == ptr[p].dp
         dir == call[p].op = "mkdir" IN
     \E new \in {NewContents(i, d, dir, bitmap)} :
     \E up  \in {dirlink2([ok |-> new.ok, ents |-> data[d], addrs |-> itable[d].node.addrs,
                           used |-> new.used], Name(p), i)} :
     LET nd == [itable[d].node EXCEPT !.addrs = up.addrs,
                                      !.nlink = IF up.ok /\ dir THEN @ + 1 ELSE @]
         ni == [type |-> IF dir THEN "dir" ELSE "file",
                nlink |-> IF up.ok THEN 1 ELSE 0, addrs |-> new.addrs] IN
       /\ itable' = [ilock(p, i) EXCEPT ![i].node = ni, ![d].node = nd]
       /\ disk'   = [disk EXCEPT ![i] = ni, ![d] = nd]
       /\ data'   = [data EXCEPT ![i] = new.ents, ![d] = up.ents]
       /\ bitmap' = up.used
       /\ Then(p, IF ~up.ok THEN UnlockPut("ip") \o UnlockPut("dp")
                  ELSE UnlockPut("dp") \o
                       (IF dir THEN UnlockPut("ip") ELSE << <<"opened", "ip">> >>))
  /\ UNCHANGED <<others, ptr, history>>

\* (Mutation: open() keeps the lock of a directory it refuses to write.)
OpenIp_locked(p) ==
  /\ At(p, "open_ip") /\ Free(I(p)) /\ Node(I(p)).type # "none"
  /\ itable' = ilock(p, I(p))
  /\ Then(p, << <<IF Node(I(p)).type = "dir" /\ call[p].mode # "rdonly"
                     THEN "put" ELSE "opened", "ip">> >>)
  /\ UNCHANGED <<fsVars, others, ptr, history>>

\* open() without O_CREATE, up to ilock(): a directory only for reading.
OpenIp(p) ==
  /\ At(p, "open_ip") /\ Free(I(p)) /\ Node(I(p)).type # "none"
  /\ itable' = ilock(p, I(p))
  /\ Then(p, IF Node(I(p)).type = "dir" /\ call[p].mode # "rdonly"
               THEN UnlockPut("ip") ELSE << <<"opened", "ip">> >>)
  /\ UNCHANGED <<fsVars, others, ptr, history>>

\* The rest of sys_open(), with ip locked: no free descriptor, or the file, which
\* takes over the reference; O_TRUNC.
Opened(p) ==
  /\ At(p, "opened")
  /\ LET i == I(p)
         n == itable[i].node IN
       IF fd[p] # 0
         THEN Then(p, UnlockPut("ip")) /\ UNCHANGED <<fsVars, itable, fd, ptr>>
         ELSE /\ fd'  = [fd EXCEPT ![p] = i]
              /\ ptr' = [ptr EXCEPT ![p].ip = 0]
              /\ Then(p, <<>>)
              /\ IF call[p].mode = "trunc" /\ n.type = "file"
                   THEN LET cut == [n EXCEPT !.addrs = NoBlocks] IN
                        /\ bitmap' = bitmap \ Range(n.addrs)
                        /\ disk'   = [disk EXCEPT ![i] = cut]
                        /\ data'   = [data EXCEPT ![i] = <<>>]
                        /\ itable' = [itable EXCEPT ![i].node = cut, ![i].lock = NoProc]
                   ELSE itable' = [itable EXCEPT ![i].lock = NoProc] /\ UNCHANGED fsVars
  /\ UNCHANGED <<cwd, progVars, panic, history>>

\* sys_link() up to nameiparent(): one more link, before the entry exists.
LinkIp(p) ==
  /\ At(p, "link_ip") /\ Free(I(p)) /\ Node(I(p)).type # "none"
  /\ LET i  == I(p)
         up == [Node(i) EXCEPT !.nlink = @ + 1]
         d  == From(p, call[p].new) IN
       IF Node(i).type = "dir"
         THEN /\ itable' = ilock(NoProc, i)
              /\ Only(p, << <<"put", "ip">> >>)
              /\ UNCHANGED <<disk, ptr>>
         ELSE /\ disk'   = [disk EXCEPT ![i] = up]
              /\ itable' = iget([ilock(NoProc, i) EXCEPT ![i].node = up], d)
              /\ ptr'    = [ptr EXCEPT ![p].dp = d]
              /\ Only(p, nameiparent("dp", call[p].new) \o << <<"link_dp", "dp">> >>)
  /\ UNCHANGED <<data, bitmap, others, history>>

\* sys_link() under the lock of dp.
LinkDp(p) ==
  /\ At(p, "link_dp") /\ Free(I(p))
  /\ LET d    == I(p)
         old  == dirlookup(data[d], Name(p))
         up   == dirlink(data[d], Node(d).addrs, bitmap, Name(p), ptr[p].ip)
         nd   == [Node(d) EXCEPT !.addrs = up.addrs] IN
       IF old # 0
         THEN /\ itable' = iget(ilock(p, d), old)
              /\ ptr' = [ptr EXCEPT ![p].x = old]
              /\ Then(p, << <<"put", "x">> >> \o UnlockPut("dp") \o << <<"link_bad", "ip">> >>)
              /\ UNCHANGED fsVars
         ELSE /\ itable' = [ilock(p, d) EXCEPT ![d].node = nd]
              /\ disk'   = [disk EXCEPT ![d] = nd]
              /\ data'   = [data EXCEPT ![d] = up.ents]
              /\ bitmap' = up.used
              /\ Then(p, UnlockPut("dp") \o
                         << <<IF up.ok THEN "put" ELSE "link_bad", "ip">> >>)
              /\ UNCHANGED ptr
  /\ Strays(p, I(p))
  /\ UNCHANGED <<others, lost, slipped>>

\* (Mutation: link() does not take its link back.)
LinkBad_keep(p) ==
  /\ At(p, "link_bad")
  /\ Then(p, << <<"put", "ip">> >>)
  /\ UNCHANGED <<fsVars, itable, others, ptr, history>>

\* "bad:" in sys_link().
LinkBad(p) ==
  /\ At(p, "link_bad") /\ Free(I(p))
  /\ itable' = ilock(p, I(p))
  /\ Then(p, << <<"nlink", "ip">> >> \o UnlockPut("ip"))
  /\ UNCHANGED <<fsVars, others, ptr, history>>

\* sys_chdir() under the lock of ip.
ChdirIp(p) ==
  /\ At(p, "chdir_ip") /\ Free(I(p)) /\ Node(I(p)).type # "none"
  /\ itable' = ilock(NoProc, I(p))
  /\ IF Node(I(p)).type = "dir"
       THEN /\ ptr' = [ptr EXCEPT ![p].x = cwd[p]]
            /\ Then(p, << <<"put", "x">>, <<"cwd", "ip">> >>)
       ELSE Then(p, << <<"put", "ip">> >>) /\ UNCHANGED ptr
  /\ UNCHANGED <<fsVars, others, history>>

\* p->cwd = ip.
SetCwd(p) ==
  /\ At(p, "cwd")
  /\ cwd' = [cwd EXCEPT ![p] = I(p)]
  /\ ptr' = [ptr EXCEPT ![p] = NoPtr]
  /\ Then(p, <<>>)
  /\ UNCHANGED <<fsVars, itable, fd, progVars, panic, history>>

\* Power fails, the kernel boots, the programs run again.
Crash ==
  /\ crashes < MaxCrashes
  /\ \A p \in Procs : todo[p] = <<>>
  /\ crashes' = crashes + 1
  /\ itable' = BootTable
  /\ cwd'    = BootCwd
  /\ fd'     = [p \in Procs |-> 0]
  /\ rest'   = work
  /\ call'   = [p \in Procs |-> NoCall]
  /\ ptr'    = [p \in Procs |-> NoPtr]
  /\ panic'  = ""
  /\ lost'   = lost \union {i \in Inums : disk[i].type # "none" /\ disk[i].nlink = 0}
  /\ UNCHANGED <<fsVars, work, todo, stray, slipped>>

Step(p) ==
  \/ Unlock(p) \/ Put(p) \/ PutUnused(p) \/ PutFreed(p) \/ FreeInode(p) \/ Drop(p) \/ Walk(p) \/ Parent(p)
  \/ NoType(p) \/ UnlinkDp(p) \/ UnlinkIp(p) \/ Nlink(p) \/ CreateDp(p) \/ Exists(p)
  \/ CreateIp(p) \/ OpenIp(p) \/ Opened(p) \/ LinkIp(p) \/ LinkDp(p) \/ LinkBad(p)
  \/ ChdirIp(p) \/ SetCwd(p)

Next ==
  \/ Crash
  \/ \E p \in Procs : Step(p) \/ Call(p) \/ Close(p) \/ Write(p)

\* A process in a call goes on; it need not start another one.
Spec == Init /\ [][Next]_vars /\ \A p \in Procs : WF_vars(Step(p))
-----------------------------------------------------------------------------
(* Properties.                                                             *)

Quiet == panic = "" /\ \A p \in Procs : todo[p] = <<>>

\* fs.c:138, the copy of an inode in memory is the inode on the disk: where one is
\* valid and nobody has it locked, the two agree, whoever freed the inode, gave it
\* out again or looked it up meanwhile.
Coherent ==
  \A i \in Inums : itable[i].valid /\ Free(i) => itable[i].node = disk[i]

\* The entries that name inode i; "." does not count.
Entries(i) ==
  {e \in Inums \X (1..PerBlock * MAXFILE) :
     /\ disk[e[1]].type = "dir" /\ disk[e[1]].nlink > 0
     /\ e[2] \in DOMAIN data[e[1]]
     /\ data[e[1]][e[2]].inum = i /\ data[e[1]][e[2]].name # "."}

\* stat.h:9, nlink is the "number of links to file": when no call is under way,
\* the root's apart, it is the number of entries, whatever calls overlapped, ran out
\* of inodes or blocks half way, or were cut off by a power failure.
LinkCounts ==
  Quiet /\ ~stray =>
    \A i \in Inums : disk[i].type # "none" => disk[i].nlink = Cardinality(Entries(i))

\* What is in use is what somebody needs: every reference to an inode is that of a
\* working directory or of an open file, an inode that no entry names is open (but for
\* those that a power failure lost or that slipped through iput(), see Crash and
\* PutFreed), and every block used is one inode's.
NoLeak ==
  Quiet /\ ~stray =>
    /\ \A i \in Inums :
         /\ itable[i].ref = Cardinality({p \in Procs : cwd[p] = i})
                            + Cardinality({p \in Procs : fd[p] = i})
         /\ disk[i].type # "none" /\ disk[i].nlink = 0 =>
              itable[i].ref > 0 \/ i \in lost \union slipped
    /\ \A i, j \in Inums : i # j =>
         Range(disk[i].addrs) \intersect Range(disk[j].addrs) = {}
    /\ bitmap = UNION {Range(disk[i].addrs) : i \in Inums}

\* No order of calls makes ilock(), bfree() or sys_unlink() panic, unless a process
\* used a directory after its removal.
NeverPanics == ~stray => panic = ""

\* Locks of inodes are taken from a directory to its entries and are all given
\* back: every call returns, and as the programs are finite, the calls end.
CallsReturn == <>[](panic # "" \/ \A p \in Procs : todo[p] = <<>>)

\* fs.c:332, of iput(): "If that was the last reference and the inode has no links
\* to it, free the inode (and its content) on disk."
LastPutFrees ==
  Quiet /\ ~stray =>
    \A i \in Inums \ lost :
      disk[i].type # "none" /\ disk[i].nlink = 0 => itable[i].ref > 0
=============================================================================
