------------------------------- MODULE Pipes -------------------------------
(***************************************************************************)
(* A pipeline of xv6's shell (user/sh.c, runcmd()) on the kernel's pipes   *)
(* and open files (LAB3 kernel/pipe.c, file.c, sysfile.c).                 *)
(*                                                                         *)
(* runcmd() of c1 | c2 | ... | cn runs in process 1: it forks process 2    *)
(* for c1 and process 3, which runs the rest in the same way.  So process  *)
(* 2k runs ck, an odd process the shell of a stage, or the last command.   *)
(*                                                                         *)
(* Grain.  A step is what a process does under one spinlock: ftable.lock,  *)
(* or pi->lock, which pipewrite() and piperead() hold from the call, or    *)
(* from a wakeup, to a sleep() or to the return.  sleep() gives the lock   *)
(* up and sleeps in one step (Proc shows why no wakeup fits in between).   *)
(***************************************************************************)
EXTENDS Naturals, Sequences, FiniteSets, SequencesExt

CONSTANTS Pipelines,   \* the lines of commands, from {"echo", "cat", "head"},
                       \* each with the number of files the shell has open and
                       \* a bound on the faults: a fork or a pipe for which the
                       \* system has no slot, and processes that are killed
          Message,     \* what "echo" writes
          MaxRead,     \* the n of read()
          PIPESIZE, UINT,     \* bytes of a pipe; uints are modulo UINT
          NFILE, NOFILE,      \* entries of ftable, enough for the line; of p->ofile
          Pages        \* pages that kalloc() has for pipes

ASSUME PipesAssumption ==
  /\ PIPESIZE \in Nat \ {0} /\ UINT % PIPESIZE = 0 /\ UINT > PIPESIZE
  /\ MaxRead \in Nat \ {0} /\ NOFILE \in Nat /\ NOFILE >= 3 /\ NFILE \in Nat \ {0}

\* sh has its input, output and errors open; lines are of bounded length.
ASSUME PipelinesAssumption ==
  /\ Pipelines \subseteq [cmds : Seq({"echo", "cat", "head"}) \ {<<>>},
                        open : 3..NOFILE, faults : Nat]
  /\ IsFiniteSet(UNION {DOMAIN l.cmds : l \in Pipelines})

VARIABLES
  pline, faults,     \* the line that is run, the faults that it may still meet
  ftable, pipes,     \* files; pipes by page
  ofile, pfd,        \* p->ofile[], and p[] of runcmd()
  todo,              \* the steps a process has left
  pstate, chan,      \* its state, and what it sleeps on
  killed,
  out, eof           \* the console; whether the last command saw the end

kernelVars == <<ftable, pipes>>
userVars   == <<pline, out, eof, faults>>
pipesVars  == <<userVars, kernelVars, ofile, pfd, todo, pstate, chan, killed>>

Processes == 1..(2 * Cardinality(UNION {DOMAIN l.cmds : l \in Pipelines}) - 1)
Parent_of(p) == IF p % 2 = 0 THEN p - 1 ELSE p - 2
Fds      == 0..NOFILE-1
NoFile   == [ref |-> 0, type |-> "none", pipe |-> 0, writable |-> FALSE]
Console  == [NoFile EXCEPT !.type = "device"]
NoPipe   == [used |-> FALSE, data |-> [k \in 0..PIPESIZE-1 |-> 0], nread |-> 0,
             nwrite |-> 0, readopen |-> FALSE, writeopen |-> FALSE]
Awake    == <<0, "">>

\* A command, with its input at 0 and its output at 1 (echo.c, cat.c; "head"
\* stands for a program that stops before the end of its input).
Command(c) == IF c = "echo" THEN << <<"write", Message>>, <<"exit">> >>
                            ELSE << <<"read">> >>

\* runcmd(): a pipeline, or its last command.
runcmd(l, p) ==
  IF p % 2 = 1 /\ (p + 1) \div 2 < Len(l)
    THEN << <<"pipe">>, <<"fork", p + 1>>, <<"fork", p + 2>>,
            <<"close_p", 1>>, <<"close_p", 2>>, <<"wait">>, <<"wait">>, <<"exit">> >>
    ELSE Command(l[IF p % 2 = 1 THEN Len(l) ELSE p \div 2])

\* What a child does first: its end of the pipe becomes file 1 or 0, and it closes
\* the p[] of the runcmd() that forked it.
Child_of(l, q) ==
  << <<"close", IF q % 2 = 0 THEN 1 ELSE 0>>, <<"dup_p", IF q % 2 = 0 THEN 2 ELSE 1>>,
     <<"close_up", 1>>, <<"close_up", 2>> >> \o runcmd(l, q)

PipesInit ==
  /\ \E l \in Pipelines :
       /\ pline  = l.cmds /\ faults = l.faults
       /\ ftable = [f \in 1..NFILE |->
                      IF f = 1 THEN [Console EXCEPT !.ref = l.open] ELSE NoFile]
       /\ ofile  = [p \in Processes |->
                      [fd \in Fds |-> IF p = 1 /\ fd < l.open THEN 1 ELSE 0]]
  /\ pipes  = [g \in Pages |-> NoPipe]
  /\ pfd    = [p \in Processes |-> <<0, 0>>]
  /\ todo   = [p \in Processes |-> IF p = 1 THEN runcmd(pline, 1) ELSE <<>>]
  /\ pstate = [p \in Processes |-> IF p = 1 THEN "run" ELSE "unused"]
  /\ chan   = [p \in Processes |-> Awake]
  /\ killed = {}
  /\ out    = <<>>
  /\ eof    = FALSE

-----------------------------------------------------------------------------
At_op(p, ops) == /\ pstate[p] = "run" /\ chan[p] = Awake
                 /\ todo[p] # <<>> /\ Head(todo[p])[1] \in ops
Arg(p)        == Head(todo[p])[2]
Next_ops(p, ops) == todo' = [todo EXCEPT ![p] = ops \o Tail(@)]
Exits(p)         == todo' = [todo EXCEPT ![p] = << <<"exit">> >>]

\* A process returns to its program, where it dies if it was killed (usertrap()).
InProgram(p, ops) == At_op(p, ops) /\ p \notin killed

Die(p) ==
  /\ At_op(p, {"pipe", "fork", "close", "close_up", "close_p", "dup_p", "wait", "read", "write"})
  /\ p \in killed
  /\ Exits(p)
  /\ UNCHANGED <<userVars, kernelVars, ofile, pfd, pstate, chan, killed>>

\* sys_pipe(): two filealloc(), which find ftable full by a fault, a kalloc() ...
Lowest(S) == CHOOSE k \in S : \A j \in S : k <= j
FreeFiles == {f \in 1..NFILE : ftable[f].ref = 0}

filealloc(p) ==
  /\ \/ InProgram(p, {"pipe"})
     \/ At_op(p, {"pipe_f1"})
  /\ LET first == Head(todo[p])[1] = "pipe" IN
       \/ /\ FreeFiles = {} \/ faults > 0
          /\ faults' = IF FreeFiles = {} THEN faults ELSE faults - 1
          /\ todo' = [todo EXCEPT ![p] = (IF first THEN <<>> ELSE << <<"fileclose", Arg(p)>> >>)
                                         \o << <<"exit">> >>]
          /\ UNCHANGED ftable
       \/ \E f \in FreeFiles :
            /\ f = Lowest(FreeFiles)
            /\ ftable' = [ftable EXCEPT ![f].ref = 1]
            /\ Next_ops(p, << IF first THEN <<"pipe_f1", f>> ELSE <<"pipe_mem", Arg(p), f>> >>)
            /\ UNCHANGED faults
  /\ UNCHANGED <<pline, out, eof, pipes, ofile, pfd, pstate, chan, killed>>

\* ... and the rest of pipealloc(), two fdalloc().  sh panics, and exits, when
\* pipe() fails.
Closed(p)   == {fd \in Fds : ofile[p][fd] = 0}

pipealloc(p) ==
  /\ At_op(p, {"pipe_mem"})
  /\ LET f0   == Head(todo[p])[2]
         f1   == Head(todo[p])[3]
         free == {g \in Pages : ~pipes[g].used}
         pi   == CHOOSE g \in free : TRUE
         fd0  == Lowest(Closed(p))
         fd1  == Lowest(Closed(p) \ {fd0})
         full == << <<"fileclose", f0>>, <<"fileclose", f1>>, <<"exit">> >> IN
       \/ /\ free = {} \/ faults > 0
          /\ faults' = IF free = {} THEN faults ELSE faults - 1
          /\ todo'   = [todo EXCEPT ![p] = full]
          /\ UNCHANGED <<pline, out, eof, kernelVars, ofile, pfd>>
       \/ /\ free # {}
          /\ pipes' = [pipes EXCEPT ![pi] = [NoPipe EXCEPT !.used = TRUE, !.readopen = TRUE,
                                                           !.writeopen = TRUE]]
          /\ ftable' = [ftable EXCEPT
               ![f0] = [ref |-> 1, type |-> "pipe", pipe |-> pi, writable |-> FALSE],
               ![f1] = [ref |-> 1, type |-> "pipe", pipe |-> pi, writable |-> TRUE]]
          /\ IF Cardinality(Closed(p)) < 2
               THEN /\ todo' = [todo EXCEPT ![p] = full]
                    /\ UNCHANGED <<ofile, pfd>>
               ELSE /\ ofile' = [ofile EXCEPT ![p][fd0] = f0, ![p][fd1] = f1]
                    /\ pfd'   = [pfd EXCEPT ![p] = <<fd0, fd1>>]
                    /\ Next_ops(p, <<>>)
          /\ UNCHANGED userVars
  /\ UNCHANGED <<pstate, chan, killed>>

\* fork1(): without a slot or memory the shell panics and exits.
Fork(p) ==
  /\ InProgram(p, {"fork"})
  /\ LET q == Arg(p) IN
     \/ /\ ftable' = [f \in 1..NFILE |-> [ftable[f] EXCEPT
                        !.ref = @ + Cardinality({fd \in Fds : ofile[p][fd] = f})]]
        /\ ofile'  = [ofile EXCEPT ![q] = ofile[p]]
        /\ pfd'    = [pfd EXCEPT ![q] = pfd[p]]
        /\ pstate' = [pstate EXCEPT ![q] = "run"]
        /\ todo'   = [todo EXCEPT ![p] = Tail(@), ![q] = Child_of(pline, q)]
        /\ UNCHANGED userVars
     \/ /\ faults > 0
        /\ faults' = faults - 1
        /\ Exits(p)
        /\ UNCHANGED <<pline, out, eof, ftable, ofile, pfd, pstate>>
  /\ UNCHANGED <<pipes, chan, killed>>

\* (Mutation: dup() without filedup().)
Dup_noref(p) ==
  /\ InProgram(p, {"dup_p"})
  /\ ofile' = [ofile EXCEPT ![p][Lowest(Closed(p))] = ofile[p][pfd[p][Arg(p)]]]
  /\ Next_ops(p, <<>>)
  /\ UNCHANGED <<userVars, kernelVars, pfd, pstate, chan, killed>>

\* dup(p[k]) takes the lowest descriptor, which was just closed.
Dup(p) ==
  /\ InProgram(p, {"dup_p"})
  /\ LET f == ofile[p][pfd[p][Arg(p)]] IN
       /\ ofile'  = [ofile EXCEPT ![p][Lowest(Closed(p))] = f]
       /\ ftable' = [ftable EXCEPT ![f].ref = @ + 1]
  /\ Next_ops(p, <<>>)
  /\ UNCHANGED <<userVars, pipes, pfd, pstate, chan, killed>>

\* fileclose(f), under ftable.lock: the last reference closes the end of a pipe.
Deref_file(p, f, ops) ==
  /\ ftable' = [ftable EXCEPT ![f] = IF ftable[f].ref > 1
                                       THEN [ftable[f] EXCEPT !.ref = ftable[f].ref - 1]
                                       ELSE NoFile]
  /\ Next_ops(p, (IF ftable[f].ref = 1 /\ ftable[f].type = "pipe"
                    THEN << <<"pipeclose", ftable[f].pipe, ftable[f].writable>> >> ELSE <<>>)
                  \o ops)
  /\ UNCHANGED <<userVars, pipes, pfd, pstate, chan, killed>>

fileclose(p) ==
  /\ At_op(p, {"fileclose"})
  /\ Deref_file(p, Arg(p), <<>>)
  /\ UNCHANGED ofile

\* sys_close(), and the loop of exit(); nobody else sees p->ofile[].
Open(p) == {fd \in Fds : ofile[p][fd] # 0}

Close_fd(p) ==
  /\ \/ InProgram(p, {"close", "close_up", "close_p"})
     \/ At_op(p, {"exit_close"})
  /\ LET op == Head(todo[p])[1]
         fd == CASE op = "close"      -> Arg(p)
                 [] op = "exit_close" -> Lowest(Open(p))
                 [] OTHER             -> pfd[p][Arg(p)] IN
       /\ ofile' = [ofile EXCEPT ![p][fd] = 0]
       /\ Deref_file(p, ofile[p][fd], IF op = "exit_close" /\ Open(p) # {fd}
                                        THEN << <<"exit_close">> >> ELSE <<>>)

Woken(c) == [q \in Processes |-> IF chan[q] = c THEN Awake ELSE chan[q]]

pipeclose(p) ==
  /\ At_op(p, {"pipeclose"})
  /\ LET pi   == Head(todo[p])[2]
         w    == Head(todo[p])[3]
         left == IF w THEN [pipes[pi] EXCEPT !.writeopen = FALSE]
                      ELSE [pipes[pi] EXCEPT !.readopen = FALSE] IN
       /\ pipes' = [pipes EXCEPT ![pi] = IF left.readopen \/ left.writeopen THEN left ELSE NoPipe]
       /\ chan'  = Woken(<<pi, IF w THEN "nread" ELSE "nwrite">>)
  /\ Next_ops(p, <<>>)
  /\ UNCHANGED <<userVars, ftable, ofile, pfd, pstate, killed>>

-----------------------------------------------------------------------------
Length(pi) == (pipes[pi].nwrite + UINT - pipes[pi].nread) % UINT

\* pipewrite(), from the call or from sleep().  Then the program goes on; cat
\* exits when it could not write.
pipewrite(p) ==
  /\ \/ InProgram(p, {"write"})
     \/ At_op(p, {"pipewrite"})
  /\ LET pi == ftable[ofile[p][1]].pipe
         b  == pipes[pi]
         n  == Len(Arg(p))
         k  == IF n <= PIPESIZE - Length(pi) THEN n ELSE PIPESIZE - Length(pi) IN
       /\ ftable[ofile[p][1]].type = "pipe"
       /\ IF ~b.readopen \/ p \in killed
            THEN Exits(p) /\ UNCHANGED <<pipes, chan>>
            ELSE /\ pipes' = [pipes EXCEPT ![pi] = [b EXCEPT
                      !.nwrite = (@ + k) % UINT,
                      !.data   = [j \in 0..PIPESIZE-1 |->
                         LET i == (j + UINT - b.nwrite) % PIPESIZE IN
                           IF i < k THEN Arg(p)[i + 1] ELSE @[j]]]]
                 /\ chan' = [Woken(<<pi, "nread">>) EXCEPT
                               ![p] = IF k = n THEN Awake ELSE <<pi, "nwrite">>]
                 /\ Next_ops(p, IF k = n THEN <<>>
                                ELSE << <<"pipewrite", SubSeq(Arg(p), k + 1, n)>> >>)
  /\ UNCHANGED <<userVars, ftable, ofile, pfd, pstate, killed>>

\* write() to the console.
ConsoleWrite(p) ==
  /\ InProgram(p, {"write"})
  /\ ftable[ofile[p][1]].type = "device"
  /\ out' = out \o Arg(p)
  /\ Next_ops(p, <<>>)
  /\ UNCHANGED <<pline, eof, faults, kernelVars, ofile, pfd, pstate, chan, killed>>

Cmd(p) == pline[IF p % 2 = 1 THEN Len(pline) ELSE p \div 2]

\* (Mutation: piperead() does not wait while the pipe is empty.)
MustWait_never(pi) == FALSE

\* The test of piperead()'s first loop.
MustWait(pi) == Length(pi) = 0 /\ pipes[pi].writeopen

\* piperead(), from the call or from sleep().  cat writes what it got and reads
\* again, until it reads nothing.
piperead(p) ==
  /\ \/ InProgram(p, {"read"})
     \/ At_op(p, {"piperead"})
  /\ LET pi == ftable[ofile[p][0]].pipe
         b  == pipes[pi]
         k  == IF Length(pi) < MaxRead THEN Length(pi) ELSE MaxRead
         bs == [i \in 1..k |-> b.data[(b.nread + i - 1) % PIPESIZE]] IN
       IF MustWait(pi)
         THEN /\ IF p \in killed THEN Exits(p) /\ UNCHANGED chan
                 ELSE /\ Next_ops(p, << <<"piperead">> >>)
                      /\ chan' = [chan EXCEPT ![p] = <<pi, "nread">>]
              /\ UNCHANGED <<pipes, eof>>
         ELSE /\ pipes' = [pipes EXCEPT ![pi].nread = (@ + k) % UINT]
              /\ chan'  = Woken(<<pi, "nwrite">>)
              /\ Next_ops(p, IF k = 0 THEN << <<"exit">> >>
                             ELSE IF Cmd(p) = "head" THEN << <<"write", bs>>, <<"exit">> >>
                             ELSE << <<"write", bs>>, <<"read">> >>)
              /\ eof' = (eof \/ (k = 0 /\ p % 2 = 1))
  /\ UNCHANGED <<pline, out, faults, ftable, ofile, pfd, pstate, killed>>

-----------------------------------------------------------------------------
\* exit(): the open files, one by one, and a zombie.
Exit(p) ==
  /\ At_op(p, {"exit"})
  /\ todo' = [todo EXCEPT ![p] = (IF Open(p) = {} THEN <<>> ELSE << <<"exit_close">> >>)
                                 \o << <<"zombie">> >>]
  /\ UNCHANGED <<userVars, kernelVars, ofile, pfd, pstate, chan, killed>>

Zombie(p) ==
  /\ At_op(p, {"zombie"})
  /\ pstate' = [pstate EXCEPT ![p] = "zombie"]
  /\ Next_ops(p, <<>>)
  /\ UNCHANGED <<userVars, kernelVars, ofile, pfd, chan, killed>>

\* wait(0): a zombie child (init reaps those whose parent has exited).
Wait(p) ==
  /\ InProgram(p, {"wait"})
  /\ \E q \in Processes :
       /\ Parent_of(q) = p /\ pstate[q] = "zombie"
       /\ pstate' = [pstate EXCEPT ![q] = "reaped"]
  /\ Next_ops(p, <<>>)
  /\ UNCHANGED <<userVars, kernelVars, ofile, pfd, chan, killed>>

\* kill(p), from somewhere else.
Kill_process(p) ==
  /\ faults > 0 /\ pstate[p] = "run"
  /\ faults' = faults - 1
  /\ killed' = killed \union {p}
  /\ chan'   = [chan EXCEPT ![p] = Awake]
  /\ UNCHANGED <<pline, out, eof, kernelVars, ofile, pfd, todo, pstate>>

Run_process(p) ==
  \/ Die(p) \/ filealloc(p) \/ pipealloc(p) \/ Fork(p) \/ Dup(p) \/ Close_fd(p) \/ fileclose(p)
  \/ pipeclose(p) \/ pipewrite(p) \/ ConsoleWrite(p) \/ piperead(p)
  \/ Exit(p) \/ Zombie(p) \/ Wait(p)

PipesNext == \E p \in Processes : Run_process(p) \/ Kill_process(p)

PipesSpec == /\ PipesInit /\ [][PipesNext]_pipesVars
             /\ \A p \in Processes : WF_pipesVars(Run_process(p))
-----------------------------------------------------------------------------
(* Properties.                                                             *)

\* pipe.c:105-130, the bytes come out as they went in: the console shows a
\* beginning of the message, in order, and once the last command has seen the
\* end, all of it, if nobody was killed and everybody reads to the end.
Delivered ==
  /\ IsPrefix(out, Message)
  /\ eof /\ killed = {} /\ "head" \notin {pline[k] : k \in DOMAIN pline} => out = Message

\* file.c:58, a file is open as long as a descriptor, or a call under way, refers
\* to it; a pipe has an open end as long as a file, or a call that closes the last
\* one, refers to that, and its page is free otherwise.
Refers(a, f)   == \/ a[1] \in {"fileclose", "pipe_f1", "pipe_mem"} /\ a[2] = f
                  \/ a[1] = "pipe_mem" /\ a[3] = f
Shuts(a, g, w) == a[1] = "pipeclose" /\ a[2] = g /\ a[3] = w

FilesCounted ==
  /\ \A f \in 1..NFILE :
       ftable[f].ref = Cardinality({h \in Processes \X Fds : ofile[h[1]][h[2]] = f})
         + Cardinality({p \in Processes : \E k \in DOMAIN todo[p] : Refers(todo[p][k], f)})
  /\ \A g \in Pages, w \in BOOLEAN :
       (IF w THEN pipes[g].writeopen ELSE pipes[g].readopen) <=>
         \/ \E f \in 1..NFILE : /\ ftable[f].type = "pipe"
                                /\ ftable[f].pipe = g /\ ftable[f].writable = w
         \/ \E p \in Processes : \E k \in DOMAIN todo[p] : Shuts(todo[p][k], g, w)
  /\ \A g \in Pages : pipes[g].used <=> pipes[g].readopen \/ pipes[g].writeopen

\* Every process of the line ends: no wakeup is lost between a writer and a reader,
\* each sees that the other end is closed, and no end stays open in the shell.
PipelineEnds == <>[](\A p \in Processes : pstate[p] # "run")
=============================================================================
