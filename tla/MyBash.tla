------------------------------- MODULE MyBash -------------------------------
(***************************************************************************)
(* LAB1's shell: the loop of mybash.c and execute_pipeline() of execute.c, *)
(* with the processes it starts.                                           *)
(*                                                                         *)
(* The system is Linux: a child inherits the descriptors of the shell; a   *)
(* reader of a pipe sees the end when nobody holds the write end; a child  *)
(* that ends while SIGCHLD is ignored leaves no zombie, and a waitpid()    *)
(* that finds only running children waits, when SIGCHLD is ignored, until  *)
(* the last of them has ended.                                             *)
(*                                                                         *)
(* Grain.  A system call of the shell is a step; what a child does up to   *)
(* its execvp() is one, since it touches nothing but its own descriptors.  *)
(***************************************************************************)
EXTENDS Naturals, Sequences, FiniteSets

CONSTANTS Sessions   \* what users type: the lines, and a bound on the calls of
                     \* fork() and pipe() that fail

\* A line has commands and whether the shell waits for it (no "&").  A command is
\*   "exit"    the builtin, or another one,
\*   "true"    a program that ends by itself,
\*   "filter"  one that reads its input up to the end,
\*   "yes"     one that writes as long as somebody reads,
\*   "daemon"  one that does not end.
CommandLines == [cmds : Seq({"exit", "true", "filter", "yes", "daemon"}), waits : BOOLEAN]

ASSUME SessionsAssumption == Sessions \subseteq [lines : Seq(CommandLines), short : Nat]

VARIABLES
  session, short,      \* the lines left, the failures that may still happen
  at, cmds, waits,     \* where the shell is, pipeline_length(), pipeline_get_wait()
  pid1, pid2,          \* of execute_pipeline(); 0 stands for -1
  sigign,              \* SIGCHLD is ignored
  pipeno, ends,        \* the pipes made; who holds what: <<pid, end, pipe>>
  kids,                \* the children, by pid
  blind, leaked        \* history: second fork failed; first one failed after pipe()

bashVars == <<session, short, at, cmds, waits, pid1, pid2, sigign, pipeno, ends, kids, blind, leaked>>
Bash == 0    \* the shell's own pid

BashInit ==
  /\ \E s \in Sessions : session = s.lines /\ short = s.short
  /\ at = "prompt" /\ cmds = <<>> /\ waits = FALSE
  /\ pid1 = 0 /\ pid2 = 0
  /\ sigign = FALSE /\ pipeno = 0 /\ ends = {} /\ kids = <<>>
  /\ blind = FALSE /\ leaked = FALSE

-----------------------------------------------------------------------------
\* The head of a new child, before execvp(): it holds what the shell holds.
NewKid(cmd, stdin, stdout) ==
  [cmd |-> cmd, stdin |-> stdin, stdout |-> stdout, state |-> "forked", waited |-> waits]

Ends_of(p)   == {e \in ends : e[1] = p}
Inherit(q)   == ends \union {<<q, e[2], e[3]>> : e \in Ends_of(Bash)}
NewPid       == Len(kids) + 1

\* A line, up to the first system call: builtins run here, and a pipeline of three
\* commands or more, which execute_pipeline() has no case for, does nothing.
ReadLine ==
  /\ at = "prompt" /\ session # <<>>
  /\ session' = Tail(session)
  /\ cmds'  = Head(session).cmds
  /\ waits' = Head(session).waits
  /\ pid1' = 0 /\ pid2' = 0
  /\ at' = CASE cmds'[1] = "exit" -> "end"
             [] cmds'[1] # "exit" /\ Len(cmds') = 1 -> "fork"
             [] cmds'[1] # "exit" /\ Len(cmds') = 2 -> "pipe"
             [] OTHER -> "prompt"
  /\ UNCHANGED <<short, sigign, pipeno, ends, kids, blind, leaked>>

\* pipe(fd).
MakePipe ==
  /\ at = "pipe"
  /\ \/ /\ pipeno' = pipeno + 1
        /\ ends' = ends \union {<<Bash, "read", pipeno'>>, <<Bash, "write", pipeno'>>}
        /\ at' = "fork"
        /\ UNCHANGED short
     \/ /\ short > 0 /\ short' = short - 1
        /\ at' = "prompt"
        /\ UNCHANGED <<pipeno, ends>>
  /\ UNCHANGED <<session, cmds, waits, pid1, pid2, sigign, kids, blind, leaked>>

\* The first fork().  When it fails the pipe stays open.
ForkFirst ==
  /\ at = "fork"
  /\ \/ /\ pid1' = NewPid
        /\ kids' = Append(kids, NewKid(cmds[1], 0, IF Len(cmds) = 2 THEN pipeno ELSE 0))
        /\ ends' = Inherit(NewPid)
        /\ at' = IF Len(cmds) = 2 THEN "fork2" ELSE "wait1"
        /\ UNCHANGED <<short, leaked>>
     \/ /\ short > 0 /\ short' = short - 1
        /\ at' = "prompt"
        /\ leaked' = (leaked \/ Len(cmds) = 2)
        /\ UNCHANGED <<pid1, kids, ends>>
  /\ UNCHANGED <<session, cmds, waits, pid2, sigign, pipeno, blind>>

\* The second fork(); the test that follows it is about pid1.
ForkSecond ==
  /\ at = "fork2"
  /\ \/ /\ pid2' = NewPid
        /\ kids' = Append(kids, NewKid(cmds[2], pipeno, 0))
        /\ ends' = Inherit(NewPid)
        /\ UNCHANGED <<short, blind>>
     \/ /\ short > 0 /\ short' = short - 1
        /\ blind' = TRUE
        /\ UNCHANGED <<pid2, kids, ends>>
  /\ at' = "close"
  /\ UNCHANGED <<session, cmds, waits, pid1, sigign, pipeno, leaked>>

\* (Mutation: the shell keeps the write end.)
CloseEnds_read ==
  /\ at = "close"
  /\ ends' = {e \in ends : e # <<Bash, "read", pipeno>>}
  /\ at' = "wait1"
  /\ UNCHANGED <<session, short, cmds, waits, pid1, pid2, sigign, pipeno, kids, blind, leaked>>

\* close(fd[WRITE]); close(fd[READ]).
CloseEnds ==
  /\ at = "close"
  /\ ends' = {e \in ends : ~(e[1] = Bash /\ e[3] = pipeno)}
  /\ at' = "wait1"
  /\ UNCHANGED <<session, short, cmds, waits, pid1, pid2, sigign, pipeno, kids, blind, leaked>>

\* waitpid(pid, NULL, 0), for any child when pid is -1.
Waited(pid)  == {c \in DOMAIN kids : pid \in {0, c} /\ kids[c].state # "gone"}
Zombies(cs)  == {c \in cs : kids[c].state = "zombie"}
waitpid(pid) ==
  \/ /\ Waited(pid) = {}
     /\ UNCHANGED kids
  \/ \E c \in Zombies(Waited(pid)) : kids' = [kids EXCEPT ![c].state = "gone"]

WaitFirst ==
  /\ at = "wait1"
  /\ IF waits THEN waitpid(pid1) ELSE UNCHANGED kids
  /\ at' = IF Len(cmds) = 2 THEN "wait2" ELSE "signal"
  /\ UNCHANGED <<session, short, cmds, waits, pid1, pid2, sigign, pipeno, ends, blind, leaked>>

WaitSecond ==
  /\ at = "wait2"
  /\ IF waits THEN waitpid(pid2) ELSE UNCHANGED kids
  /\ at' = "signal"
  /\ UNCHANGED <<session, short, cmds, waits, pid1, pid2, sigign, pipeno, ends, blind, leaked>>

\* signal(SIGCHLD, SIG_IGN), for good.
IgnoreChildren ==
  /\ at = "signal"
  /\ sigign' = TRUE
  /\ at' = "prompt"
  /\ UNCHANGED <<session, short, cmds, waits, pid1, pid2, pipeno, ends, kids, blind, leaked>>

Shell ==
  \/ ReadLine \/ MakePipe \/ ForkFirst \/ ForkSecond \/ CloseEnds \/ WaitFirst \/ WaitSecond
  \/ IgnoreChildren

-----------------------------------------------------------------------------
\* The child up to execvp(): it keeps its own end of the pipe only (and what an
\* earlier line left open).
Execvp(c) ==
  /\ kids[c].state = "forked"
  /\ kids' = [kids EXCEPT ![c].state = "running"]
  /\ ends' = {e \in ends : e[1] # c \/ e = <<c, "read", kids[c].stdin>>
                                    \/ e = <<c, "write", kids[c].stdout>>
                                    \/ e[3] \notin {kids[c].stdin, kids[c].stdout}}
  /\ UNCHANGED <<session, short, at, cmds, waits, pid1, pid2, sigign, pipeno, blind, leaked>>

Holds(end, n) == {e[1] : e \in {d \in ends : d[2] = end /\ d[3] = n}}

\* When a program can end.
CanEnd(c) ==
  CASE kids[c].cmd = "true"   -> TRUE
    [] kids[c].cmd = "daemon" -> FALSE
    [] kids[c].cmd = "filter" -> Holds("write", kids[c].stdin) = {}
    [] kids[c].cmd = "yes"    -> Holds("read", kids[c].stdout) = {}

End_program(c) ==
  /\ kids[c].state = "running" /\ CanEnd(c)
  /\ kids' = [kids EXCEPT ![c].state = IF sigign THEN "gone" ELSE "zombie"]
  /\ ends' = {e \in ends : e[1] # c}
  /\ UNCHANGED <<session, short, at, cmds, waits, pid1, pid2, sigign, pipeno, blind, leaked>>

Program(c) == c \in DOMAIN kids /\ (Execvp(c) \/ End_program(c))
MaxKids    == 6

BashNext == Shell \/ \E c \in 1..MaxKids : Program(c)

BashSpec == /\ BashInit /\ [][BashNext]_bashVars
            /\ WF_bashVars(Shell)
            /\ \A c \in 1..MaxKids : WF_bashVars(Program(c))
-----------------------------------------------------------------------------
(* Properties.                                                             *)

\* Every line of the user's gets its prompt back: no descriptor is left open in
\* the shell or in a child that would keep a command of the line from ending, and
\* waitpid() waits for nobody else, unless a second fork() failed while a daemon ran.
PromptReturns ==
  <>[](\/ at = "prompt" /\ session = <<>>
       \/ at = "end"
       \/ blind /\ \E c \in DOMAIN kids : kids[c].cmd = "daemon")

\* At the prompt nothing is left of the lines before: no child the shell waited
\* for, not even as a zombie, and no end of a pipe, unless a first fork() failed.
NothingLeft ==
  at = "prompt" =>
    /\ \A c \in DOMAIN kids : kids[c].waited => kids[c].state = "gone"
    /\ Ends_of(Bash) # {} => leaked
=============================================================================
