------------------------------- MODULE FatFs -------------------------------
(***************************************************************************)
(* LAB4's file system: the table and the clusters of the image             *)
(* (fat_table.c), files and directories (fat_file.c), the tree of open     *)
(* paths that the daemon keeps in memory, the hidden log /bb/fs.log        *)
(* (big_brother.c) and the FUSE operations over them (fat_fuse_ops.c).     *)
(*                                                                         *)
(* FUSE runs the operations one at a time (-s).  What interleaves is the   *)
(* daemon's death: an operation is a sequence of pwrite()s to the image,   *)
(* and the daemon may die between any two of them.  The mapped table is    *)
(* written together with the image, so there is one copy of it here.       *)
(* Sizes count slots of a directory entry, K to a cluster; one write() is  *)
(* one slot.  Users do not name /bb.                                       *)
(***************************************************************************)
EXTENDS Integers, Sequences, FiniteSets, FiniteSetsExt, SequencesExt

CONSTANTS NC,        \* data clusters
          K,         \* directory entries in a cluster
          Files,     \* the paths users give to files
          Dirs,      \* the paths users give to directories
          Data,      \* what a slot of users' data may be to one who reads it as an entry
          MaxSize,   \* bound: slots of a user's file
          MaxLog     \* bound: slots of the log (see also Strikes)

ASSUME FatFsAssumption ==
  /\ {NC, K, MaxSize, MaxLog} \subseteq Nat \ {0}
  /\ Files \union Dirs \subseteq Seq(STRING) \ {<<>>}

VARIABLES
  disk,     \* the image: cells <<cluster, slot>>; slot F is the table's entry
  tree,     \* vol->file_tree: the files of the paths in memory
  errno,    \* TRUE iff it is not 0
  damage    \* history: which defect of the code has struck

vars == <<disk, tree, errno, damage>>

Clusters == 2..NC + 1
F        == K
FREE     == 0
BAD      == 1
EOC      == NC + 2
Image    == Clusters \X (0..K)

None   == 0
Leaky  == 1    \* clusters that belong to nobody, or the tree is not the image
Broken == 2    \* an entry whose chain is not all its own

\* Entries of a directory.  Junk: what ignore_dentry() skips.
Blank(n) == [name |-> n, dir |-> FALSE, start |-> 0, size |-> 0]
End      == Blank("")
Junk     == Blank("?")
IsLive(e) == e \notin {End, Junk}

\* Users' data that ignore_dentry() does not skip, as ordinary text or an old entry
\* written over in part: its first cluster is what the bytes say.  Letters say one
\* outside the table.
Text == [Blank("text") EXCEPT !.start = EOC]

\* Zeros read as End.
ASSUME DataAssumption == Data \subseteq {End, Junk, Text}

Paths == Files \union Dirs
Root == <<>>
BB   == <<"bb">>
LOG  == <<"bb", "fs.log">>
Parent(p) == Front(p)
Name(p)   == Last(p)

\* struct fat_file_s: pos is pos_in_parent, n is nentries, read is children_read.
File(dir, start, size, pos) ==
  [dir |-> dir, start |-> start, size |-> size, pos |-> pos, n |-> 0, read |-> FALSE]

RootOnly == (Root :> File(TRUE, 2, 0, 0))

\* An empty volume, mounted.
Init == /\ disk = [x \in Image |-> IF x[2] # F THEN End
                                   ELSE IF x[1] = 2 THEN EOC ELSE FREE]
        /\ tree = RootOnly
        /\ errno = FALSE
        /\ damage = None

-----------------------------------------------------------------------------
(* fat_table.c, over an image d.                                           *)

get_next_cluster(d, c) == IF d[c, F] \in Clusters THEN d[c, F] ELSE EOC

\* On a full table the search runs past it and ends outside the data.
get_next_free_cluster(d) ==
  LET free == {c \in Clusters : d[c, F] = FREE}
  IN  IF free = {} THEN EOC ELSE Min(free)

\* What n steps along a chain find; 0 is the error EOVERFLOW.
Hops(d, c) ==
  LET h[n \in 0..NC + MaxLog + MaxSize] ==
        IF n = 0 THEN c
        ELSE LET b == h[n - 1] IN IF b \in {0, EOC} THEN 0 ELSE get_next_cluster(d, b)
  IN  h

seek_cluster(d, c, offset) == Hops(d, c)[offset \div K]

\* The clusters from c to the end of its chain, in order.
Chain(d, c) == LET h == Hops(d, c)
               IN  SelectSeq([i \in 1..NC |-> h[i - 1]], LAMBDA x : x \in Clusters)

\* Writes to the image: sequences of <<cell, value>>.
Set(c, next) == << <<<<c, F>>, next>> >>
FreeAll(cs)  == [i \in DOMAIN cs |-> Set(cs[i], FREE)[1]]

Applied(d, ws) ==
  [x \in {w[1] : w \in Range(ws)} |-> ws[Max({j \in DOMAIN ws : ws[j][1] = x})][2]] @@ d

-----------------------------------------------------------------------------
(* fat_file.c.  Results of the helpers: ws, what they write to the image.  *)

Entry(p, f) == [name |-> Name(p), dir |-> f.dir, start |-> f.start, size |-> f.size]

\* A directory is one cluster: nothing is written beyond it (ENOSPC).
Fits(f) == f.pos < K
WriteCell(parent, f, e) == IF Fits(f) THEN << <<<<parent.start, f.pos>>, e>> >> ELSE <<>>
write_dir_entry(p, f)   == WriteCell(tree[Parent(p)], f, Entry(p, f))

\* nentries of the parent after fat_file_dentry_add_child().
Added(parent, f) == IF Fits(f) THEN parent.n + 1 ELSE parent.n

\* (Mutation: the new cluster is not marked as the end of the chain.)
next_or_new_cluster_open(d, c) ==
  LET next == get_next_cluster(d, c)   new == get_next_free_cluster(d)
  IN  IF next # EOC THEN [ws |-> <<>>, next |-> next]
      ELSE IF new = EOC THEN [ws |-> <<>>, next |-> 0]
      ELSE [ws |-> Set(c, new), next |-> new]

\* The cluster after c, a new one if c is the last; 0 if there is none (EIO).
next_or_new_cluster(d, c) ==
  LET next == get_next_cluster(d, c)   new == get_next_free_cluster(d)
  IN  IF next # EOC THEN [ws |-> <<>>, next |-> next]
      ELSE IF new = EOC THEN [ws |-> <<>>, next |-> 0]
      ELSE [ws |-> Set(c, new) \o Set(new, EOC), next |-> new]

\* One slot of data at offset <= size.  An errno left by an earlier call makes it fail
\* after the new cluster is linked.
fat_file_pwrite(d, p, data, offset, err) ==
  LET f     == tree[p]
      c     == seek_cluster(d, f.start, IF offset = 0 THEN 0 ELSE offset - 1)
      place == IF offset % K = 0 /\ offset # 0 THEN next_or_new_cluster(d, c)
               ELSE [ws |-> <<>>, next |-> c]
      g     == [f EXCEPT !.size = Max({@, offset + 1})]
  IN  IF err \/ place.next = 0 THEN [ws |-> place.ws, file |-> f, err |-> TRUE]
      ELSE [ws   |-> place.ws \o << <<<<place.next, offset % K>>, data>> >>
                              \o write_dir_entry(p, g),
            file |-> g, err |-> ~Fits(f)]

\* (Mutation: only the first cluster is freed.)
fat_file_delete_first(d, p) ==
  Set(tree[p].start, FREE) \o WriteCell(tree[Parent(p)], tree[p], Junk)

\* (Mutation: the entry is not marked as deleted.)
fat_file_delete_unmarked(d, p) == FreeAll(Chain(d, tree[p].start))

fat_file_delete(d, p) ==
  FreeAll(Chain(d, tree[p].start)) \o WriteCell(tree[Parent(p)], tree[p], Junk)

\* The entries before the end of the directory in cluster c, ignored ones included.
Scanned(d, c) == LET ends == {i \in 0..K - 1 : d[c, i] = End}
                 IN  IF ends = {} THEN 0..K - 1 ELSE 0..Min(ends) - 1
Live(d, c)    == {i \in Scanned(d, c) : IsLive(d[c, i])}

\* The cells S of cluster c, which is to be a directory and is not cleared, have text
\* in them that is going to be taken for an entry.
Misread(d, c, S) == \E i \in S : d[c, i] = Text

\* nentries after the scan: it stops short of K in a cluster without an end.
nentries(d, c) == Min({Cardinality(Scanned(d, c)), K - 1})

\* fat_file_read_children() and the insertions into the tree: of two entries
\* with one name the first one counts, and a path in the tree stays as it is.
ReadChildren(d, t, p) ==
  LET c     == t[p].start
      At(n) == Min({i \in Live(d, c) : d[c, i].name = n})
      files == [q \in {Append(p, d[c, i].name) : i \in Live(d, c)} |->
                  LET i == At(Name(q)) e == d[c, i]
                  IN  File(e.dir, e.start, e.size, i)]
  IN  [t EXCEPT ![p].n = nentries(d, c), ![p].read = TRUE] @@ files

-----------------------------------------------------------------------------
(* big_brother.c.                                                          *)

\* search_bb_orphan_dir_cluster(): the first bad cluster, if there is one.
BadClusters(d) == {c \in Clusters \ {2} : d[c, F] = BAD}
Logged(d) == /\ BadClusters(d) # {}
             /\ d[Min(BadClusters(d)), 0].name = Name(LOG)

\* create_log_file(), with a log that an earlier mount left ...
RestoreLog(d, t) ==
  [ws |-> <<>>, dies |-> FALSE, harm |-> None,
   tree |-> ReadChildren(d, t @@ (BB :> File(TRUE, Min(BadClusters(d)), 0, 0)), BB)]

\* ... or a new one, in an orphan directory.  A bad cluster that holds something
\* else becomes free.  A full volume kills the daemon.
NewLog(d, t) ==
  LET unbad == IF BadClusters(d) = {} THEN <<>> ELSE Set(Min(BadClusters(d)), FREE)
      bb    == get_next_free_cluster(Applied(d, unbad))
      made  == unbad \o Set(bb, BAD)
      c     == get_next_free_cluster(Applied(d, made))
      f     == File(FALSE, c, 0, 0)
      b     == File(TRUE, bb, 0, 0)
  IN  IF bb = EOC THEN [ws |-> unbad, tree |-> t, dies |-> TRUE, harm |-> None]
      ELSE IF c = EOC THEN [ws |-> made, tree |-> t, dies |-> TRUE, harm |-> None]
      ELSE [ws   |-> made \o Set(c, EOC) \o WriteCell(b, f, Entry(LOG, f)),
            tree |-> t @@ (BB :> [b EXCEPT !.n = 1]) @@ (LOG :> f),
            dies |-> FALSE,
            harm |-> IF Misread(d, bb, 1..K - 1) THEN Broken ELSE None]

\* The log is there.
OldLog(t) == [ws |-> <<>>, tree |-> t, dies |-> FALSE, harm |-> None]

\* (Mutation: the first entry of the bad cluster is not looked at.)
create_log_file_anew(d, t) ==
  IF LOG \in DOMAIN t THEN OldLog(t) ELSE NewLog(d, t)

create_log_file(d, t) ==
  IF LOG \in DOMAIN t THEN OldLog(t)
  ELSE IF Logged(d) THEN RestoreLog(d, t) ELSE NewLog(d, t)

\* One more line at the end of the log.  What it would read as does not matter: nothing
\* frees a cluster of the log.
fat_fuse_log_activity(d, err) ==
  IF LOG \notin DOMAIN tree THEN [ws |-> <<>>, tree |-> tree, err |-> err]
  ELSE LET w == fat_file_pwrite(d, LOG, Junk, tree[LOG].size, err)
       IN  [ws |-> w.ws, tree |-> [tree EXCEPT ![LOG] = w.file], err |-> w.err]

-----------------------------------------------------------------------------
(* The daemon.  The h_tree is the set of its paths (when hierarchy_tree.c  *)
(* keeps to that is the question of HTree).                                *)

\* Bounds: one defect strikes in a behaviour, and there is no text before or after a
\* Leaky one.
HasText       == \E x \in Clusters \X (0..K - 1) : disk[x] = Text
Strikes(harm) == /\ \/ harm = None
                    \/ damage = None /\ ~(harm = Leaky /\ HasText)
                 /\ damage' = Max({damage, harm})

\* It ends with ws on the image, and the volume is mounted again.
Dies(ws, harm) ==
  /\ disk' = Applied(disk, ws)
  /\ tree' = RootOnly
  /\ errno' = FALSE
  /\ Strikes(harm)

\* An operation writes ws, leaves t and err in memory and does the damage harm, unless
\* the daemon dies after its k-th write, which does the damage Harm(k).
Perform(ws, t, err, harm, Harm(_)) ==
  \/ /\ disk' = Applied(disk, ws)
     /\ tree' = t
     /\ errno' = err
     /\ Strikes(harm)
  \/ \E k \in 1..Len(ws) - 1 : Dies(SubSeq(ws, 1, k), Harm(k))

Harmless(k) == None

Remount == Dies(<<>>, None)

-----------------------------------------------------------------------------
(* fat_fuse_ops.c.                                                         *)

IsFile(p) == p \in Paths \cap DOMAIN tree /\ ~tree[p].dir
IsDir(p)  == p \in (Paths \union {Root}) \cap DOMAIN tree /\ tree[p].dir

\* Of a path that is not there.
fat_fuse_getattr ==
  /\ Paths \ DOMAIN tree # {}
  /\ errno' = TRUE
  /\ UNCHANGED <<disk, tree, damage>>

\* Only the first listing of a directory reads it from the image.
fat_fuse_readdir(p) ==
  /\ IsDir(p)
  /\ LET log == create_log_file(disk, ReadChildren(disk, tree, p))
     IN  IF tree[p].read THEN Perform(<<>>, tree, FALSE, None, Harmless)
         ELSE IF log.dies THEN Dies(log.ws, None)
         ELSE Perform(log.ws, log.tree, FALSE, log.harm, LAMBDA k : Leaky)

\* What goes wrong with a new entry f for p: no room for it, a name that is on
\* the image already, somebody else's entry under it.
Misplaced(p, f) ==
  LET parent == tree[Parent(p)]
  IN  \/ ~Fits(f)
      \/ \E i \in Live(disk, parent.start) :
            i = f.pos \/ disk[parent.start, i].name = Name(p)

\* mknod() and mkdir(), of a path the kernel has not found.  A full volume kills
\* the daemon.
Create(p, dir) ==
  /\ p \notin DOMAIN tree /\ IsDir(Parent(p))
  /\ LET parent == tree[Parent(p)]
         f      == File(dir, get_next_free_cluster(disk), 0, parent.n)
     IN  IF f.start = EOC THEN Dies(<<>>, None)
         ELSE Perform(Set(f.start, EOC) \o WriteCell(parent, f, Entry(p, f)),
                      [tree EXCEPT ![Parent(p)].n = Added(parent, f)]
                        @@ (p :> f),
                      ~Fits(f),
                      IF dir /\ Misread(disk, f.start, 0..K - 1) THEN Broken
                      ELSE IF Misplaced(p, f) THEN Leaky ELSE None,
                      LAMBDA k : Leaky)

fat_fuse_mknod(p) == Create(p, FALSE)
fat_fuse_mkdir(p) == Create(p, TRUE)

Without(p) == [q \in DOMAIN tree \ {p} |-> tree[q]]

fat_fuse_unlink(p) ==
  /\ IsFile(p)
  /\ Perform(fat_file_delete(disk, p), Without(p), ~Fits(tree[p]), None,
             LAMBDA k : Broken)

\* Whether a directory is empty is looked up in memory only.
fat_fuse_rmdir(p) ==
  /\ IsDir(p) /\ p # Root
  /\ IF \E q \in DOMAIN tree \ {Root} : Parent(q) = p
       THEN Perform(<<>>, tree, TRUE, None, Harmless)
       ELSE Perform(fat_file_delete(disk, p), Without(p), ~Fits(tree[p]),
                    IF Live(disk, tree[p].start) # {} THEN Leaky ELSE None,
                    LAMBDA k : Broken)

\* At the end of a file that fills its clusters there is no cluster to cut after:
\* the daemon looks for it outside the table.
fat_fuse_truncate(p, size) ==
  /\ IsFile(p)
  /\ LET c    == seek_cluster(disk, tree[p].start, size)
         rest == Tail(Chain(disk, c))
         g    == [tree[p] EXCEPT !.size = size]
     IN  IF size > tree[p].size THEN Perform(<<>>, tree, FALSE, None, Harmless)
         ELSE IF c = EOC THEN Dies(<<>>, None)
         ELSE Perform(Set(c, EOC) \o FreeAll(rest) \o write_dir_entry(p, g),
                      [tree EXCEPT ![p] = g], ~Fits(g), None,
                      LAMBDA k : IF rest = <<>> THEN None ELSE Broken)

\* The bounds: the log, and one slot of text at a time.
RoomInLog == LOG \in DOMAIN tree => tree[LOG].size < MaxLog
OneText   == IF HasText \/ damage # None THEN Data \ {Text} ELSE Data

\* The log first, under the errno of whatever came before.
fat_fuse_write(p, offset) ==
  /\ IsFile(p) /\ offset <= tree[p].size /\ offset < MaxSize /\ RoomInLog
  /\ \E data \in OneText :
     LET log  == fat_fuse_log_activity(disk, errno)
         w    == fat_file_pwrite(Applied(disk, log.ws), p, data, offset, log.err)
         ws   == log.ws \o w.ws
     IN  Perform(ws, [log.tree EXCEPT ![p] = w.file], w.err, None,
                 LAMBDA k : IF ws[k][1][2] = F /\ ws[k][2] # EOC THEN Broken ELSE None)

fat_fuse_read(p, offset) ==
  /\ IsFile(p) /\ RoomInLog
  /\ LET stamp == IF offset < tree[p].size THEN write_dir_entry(p, tree[p]) ELSE <<>>
         log   == fat_fuse_log_activity(Applied(disk, stamp), FALSE)
         ws    == stamp \o log.ws
     IN  IF offset > tree[p].size \/ (offset < tree[p].size /\ ~Fits(tree[p]))
           THEN Perform(<<>>, tree, TRUE, None, Harmless)
         ELSE Perform(ws, log.tree, log.err, None,
                 LAMBDA k : IF ws[k][1][2] = F /\ ws[k][2] # EOC THEN Broken ELSE None)

fat_fuse_utime(p) ==
  /\ p # Root /\ (IsFile(p) \/ IsDir(p))
  /\ Perform(write_dir_entry(p, tree[p]), tree, ~Fits(tree[p]), None, Harmless)

Next ==
  \/ Remount
  \/ damage # Broken /\
     \/ fat_fuse_getattr
     \/ \E p \in Paths \union {Root} :
          \/ fat_fuse_readdir(p) \/ fat_fuse_rmdir(p) \/ fat_fuse_utime(p)
          \/ fat_fuse_unlink(p)
     \/ \E p \in Files : fat_fuse_mknod(p)
     \/ \E p \in Dirs : fat_fuse_mkdir(p)
     \/ \E p \in Paths, n \in 0..MaxSize :
          \/ fat_fuse_truncate(p, n) \/ fat_fuse_write(p, n) \/ fat_fuse_read(p, n)

Spec == Init /\ [][Next]_vars
-----------------------------------------------------------------------------
(* Properties.                                                             *)

\* The directories a mount can reach, and the cells of their live entries.
Reach[n \in 0..NC] ==
  IF n = 0 THEN {2} \union (IF Logged(disk) THEN {Min(BadClusters(disk))} ELSE {})
  ELSE LET R == Reach[n - 1]
           In(c) == {disk[c, i] : i \in Live(disk, c)}
       IN  R \union {e.start : e \in {f \in UNION {In(c) : c \in R} : f.dir}}
Entries == UNION {{c} \X Live(disk, c) : c \in Reach[NC]}

\* Whatever is lost, no cluster belongs to two files, and every file has the
\* clusters its size needs: what next_or_new_cluster(), fat_file_truncate() and
\* fat_file_delete() leave on the table fits the entries and the tree.
ChainsApart ==
  damage # Broken =>
    LET held   == {disk[x] : x \in Entries} \union {tree[p] : p \in DOMAIN tree}
        chains == {Chain(disk, f.start) : f \in held}
    IN  /\ \A f \in held : LET own == Chain(disk, f.start)
                           IN  /\ own # <<>> /\ Len(own) * K >= f.size
                               /\ disk[Last(own), F] \in {EOC, BAD}
        /\ \A s, t \in chains : s # t => Range(s) \cap Range(t) = {}
        /\ \A x, y \in Entries : x # y => disk[x].start # disk[y].start
        /\ \A p, q \in DOMAIN tree : p # q => tree[p].start # tree[q].start

\* The information in memory and that on the image agree (README.md:29): each node
\* is as its entry says, and a directory that was read lacks no entry.
TreeIsImage ==
  damage = None =>
    /\ \A p \in DOMAIN tree \ {Root, BB} :
         disk[tree[Parent(p)].start, tree[p].pos] = Entry(p, tree[p])
    /\ \A p \in DOMAIN tree : tree[p].read =>
         \A i \in Live(disk, tree[p].start) :
            Append(p, disk[tree[p].start, i].name) \in DOMAIN tree

\* Every cluster in use is found again from the root or from the log.  A bad one
\* without a log is freed by search_bb_orphan_dir_cluster().
NoLeak ==
  damage = None =>
    LET used  == {c \in Clusters : disk[c, F] \notin {FREE, BAD}}
        files == UNION {Range(Chain(disk, disk[x].start)) : x \in Entries}
    IN  used \subseteq files \union Reach[NC]

\* Once its entry is on the image, the log is found again after every mount and
\* never shrinks, whatever users do and wherever the daemon dies.
LogEntry == disk[Min(BadClusters(disk)), 0]
LogKept  == [][Logged(disk) => /\ Logged(disk)'
                               /\ LogEntry'.start = LogEntry.start
                               /\ LogEntry'.size >= LogEntry.size]_vars

\* "The file is added to the first free direntry space of @parent"
\* (fat_file.h:152): a new entry never takes the place of somebody else's.
EntriesKept == [][\A x \in Entries :
                    IsLive(disk'[x]) => disk'[x].start = disk[x].start]_vars
=============================================================================
