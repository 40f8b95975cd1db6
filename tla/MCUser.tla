------------------------------- MODULE MCUser -------------------------------
(* Processes of the users, side by side: a behaviour is one of the parts      *)
(*   "sem"       Threads on the semaphores, with no program,                  *)
(*   "pingpong"  PingPong,                                                    *)
(*   "pipes"     a pipeline of xv6's shell,                                   *)
(*   "bash"      a session of mybash,                                         *)
(* while the others stand still.                                              *)
EXTENDS PingPong, Pipes, MyBash

VARIABLE part

\* The part "sem" opens semaphores with at most SemMax, and Parent closes them.
SemMax == 2

\* Two commands, with one fault; the same in a shell with a descriptor left for one
\* end of the pipe only; three commands, without faults.
MCPipelines ==
  {[cmds |-> l, open |-> 3, faults |-> 1] : l \in {<<"echo", "cat">>, <<"echo", "head">>}}
  \union {[cmds |-> <<"echo", "cat">>, open |-> 4, faults |-> 0]}
  \union {[cmds |-> l, open |-> 3, faults |-> 0] : l \in {<<"echo", "cat", "cat">>,
                                                         <<"echo", "head", "cat">>}}
MCMessage == <<1, 2, 3, 4, 5>>

Line(c, w) == [cmds |-> c, waits |-> w]
True == Line(<<"true">>, TRUE)

\* Lines in the foreground and in the background, pipelines of two and of three
\* commands, a daemon; one call fails.
MCSessions ==
  {[lines |-> l, short |-> 1] : l \in {
     <<Line(<<"true", "filter">>, FALSE), Line(<<"true", "filter">>, TRUE),
       Line(<<"yes", "true">>, TRUE)>>,
     <<Line(<<"daemon">>, FALSE), Line(<<"yes", "true">>, TRUE),
       Line(<<"true", "filter", "true">>, TRUE), Line(<<"filter">>, TRUE)>>,
     <<True, Line(<<"yes", "filter">>, FALSE), True, Line(<<"exit">>, TRUE)>> }}

uvars == <<pvars, pipesVars, bashVars, part>>

InSem(A)   == part = "sem" /\ A /\ UNCHANGED <<progVars, pipesVars, bashVars, part>>
InPing(A)  == part = "pingpong" /\ A /\ UNCHANGED <<pipesVars, bashVars, part>>
InPipes(A) == part = "pipes" /\ A /\ UNCHANGED <<pvars, bashVars, part>>
InBash(A)  == part = "bash" /\ A /\ UNCHANGED <<pvars, pipesVars, part>>

\* The parts that stand still are in one of their initial states.
UInit ==
  /\ part \in {"sem", "pingpong", "pipes", "bash"}
  /\ PInit /\ PipesInit /\ BashInit
  /\ part # "pipes" => faults = 0 /\ pline = <<"echo", "head", "cat">>
  /\ part # "bash" => [lines |-> session, short |-> short] = CHOOSE s \in MCSessions : TRUE

SemNext == \E t \in Threads :
  \/ InSem(Store(t)) \/ InSem(CloseValue(t)) \/ InSem(CloseInit(t)) \/ InSem(Kill(t))
  \/ pc[t] = "woken" /\ InSem(sem_down(t, arg[t]))
  \/ \E s \in Sems :
       \/ pc[t] = "user" /\ InSem(sem_down(t, s))
       \/ value[s] <= SemMax /\ InSem(sem_up(t, s))
       \/ Unused(s) /\ \E v \in 0..SemMax : InSem(sem_open(t, s, v))
       \/ t = Parent /\ InSem(sem_close(t, s))

PingNext == \E t \in Threads : \/ InPing(Statement(t))
                               \/ InPing(Continue(t) /\ UNCHANGED progVars)

PipeNext == \E p \in Processes :
  \/ InPipes(Die(p)) \/ InPipes(filealloc(p)) \/ InPipes(pipealloc(p)) \/ InPipes(Fork(p))
  \/ InPipes(Dup(p)) \/ InPipes(Close_fd(p)) \/ InPipes(fileclose(p)) \/ InPipes(pipeclose(p))
  \/ InPipes(pipewrite(p)) \/ InPipes(ConsoleWrite(p)) \/ InPipes(piperead(p))
  \/ InPipes(Exit(p)) \/ InPipes(Zombie(p)) \/ InPipes(Wait(p)) \/ InPipes(Kill_process(p))

LineNext ==
  \/ InBash(ReadLine) \/ InBash(MakePipe) \/ InBash(ForkFirst) \/ InBash(ForkSecond)
  \/ InBash(CloseEnds) \/ InBash(WaitFirst) \/ InBash(WaitSecond) \/ InBash(IgnoreChildren)
  \/ \E c \in DOMAIN kids : InBash(Execvp(c)) \/ InBash(End_program(c))

UNext == SemNext \/ PingNext \/ PipeNext \/ LineNext

\* The fairness of each part.
UFairness ==
  /\ \A t \in {Parent, Child} :
       SF_uvars(InPing(Statement(t) \/ (Continue(t) /\ UNCHANGED progVars)))
  /\ \A p \in Processes : WF_uvars(InPipes(Run_process(p)))
  /\ WF_uvars(InBash(Shell))
  /\ \A c \in 1..MaxKids : WF_uvars(InBash(Program(c)))

USpec == UInit /\ [][UNext]_uvars /\ UFairness
-----------------------------------------------------------------------------
(* Properties: those of the parts that say what comes, for each part.      *)

\* PingPong: the program ends, the child has printed every PING, and only the
\* child's sem_close(1) can leave the parent asleep (pingpong.c:17-33).
PingPongEnds == part = "pingpong" => ChildExits

\* The two shells: every process of a line of xv6's ends, whatever fails and whoever
\* is killed, since sh.c:98-122 closes both ends of the pipe before it waits; and every
\* line of mybash gets its prompt back (execute.c:141-165).
LinesEnd == /\ part = "pipes" => PipelineEnds
            /\ part = "bash" => PromptReturns

\* The counts of files and pipe ends are exact (file.c:44-80), and mybash is left
\* without children and open pipes unless fork() failed (execute.c:141-165).
DescriptorsRight == FilesCounted /\ NothingLeft
=============================================================================
