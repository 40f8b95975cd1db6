---------------------------- MODULE MCSequential ----------------------------
(* Programs of the labs that have one thread, side by side: a behaviour is    *)
(* one of FatFs, of HTree or of CommandLine, and the others stand still.      *)
EXTENDS MCFatFs, HTree, CommandLine

CONSTANT MaxTokens

VARIABLE part

\* The directory of each name: 0 is the root, 2 a directory in it.
MCDir == [k \in Keys |-> CASE k = 0 -> Nil
                           [] k \in {1, 2, 6} -> 0
                           [] k \in {3, 4, 5} -> 2]

\* Every line of up to MaxTokens tokens with a program, its redirections and
\* operators, and the builtins on small directories.
MCLines ==
  BoundedSeq({"ls", "<", ">", "|", "&"}, MaxTokens)
  \union {<<"ls", "<", "in", "|", "wc", ">", "out", "<", "in">>,
          <<"<", "in", "ls", "|", "ls", "|", "ls">>}
  \union {<<"exit">>, <<"help">>, <<"cd">>, <<"cd", "d", "|", "ls">>}
  \union {<<"cd", d>> : d \in {"~", ".", "..", "d", "~/d", "./d"}}

MCLogin       == <<"usr">>
MCDirectories == {<<>>, <<"usr">>, <<"usr", "d">>}

svars == <<vars, treeVars, shellVars, part>>

SInit == Init /\ TreeInit /\ ShellInit /\ part \in {"fat", "tree", "shell"}

InFat(A)  == part = "fat" /\ A /\ UNCHANGED <<treeVars, shellVars, part>>
Mounted(A) == damage # Broken /\ InFat(A)
InTree(A) == part = "tree" /\ A /\ UNCHANGED <<vars, shellVars, part>>
InShell   == part = "shell" /\ ShellNext /\ UNCHANGED <<vars, treeVars, part>>

FatNext ==
  \/ InFat(Remount)
  \/ Mounted(fat_fuse_getattr)
  \/ \E p \in Paths \union {Root} :
       \/ Mounted(fat_fuse_readdir(p)) \/ Mounted(fat_fuse_rmdir(p))
       \/ Mounted(fat_fuse_utime(p)) \/ Mounted(fat_fuse_unlink(p))
  \/ \E p \in Files : Mounted(fat_fuse_mknod(p))
  \/ \E p \in Dirs : Mounted(fat_fuse_mkdir(p))
  \/ \E p \in Paths, n \in 0..MaxSize :
       \/ Mounted(fat_fuse_truncate(p, n)) \/ Mounted(fat_fuse_write(p, n))
       \/ Mounted(fat_fuse_read(p, n))

SNext == \/ FatNext \/ InShell
         \/ \E k \in Keys : InTree(InsertFile(k)) \/ InTree(DeleteFile(k))

SSpec == SInit /\ [][SNext]_svars
=============================================================================
