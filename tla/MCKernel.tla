------------------------------ MODULE MCKernel ------------------------------
(* Three parts of the kernel that share no state, side by side: a behaviour  *)
(* is one of Fs, of Memory or of Console, and the others stand still.        *)
EXTENDS MCFs, Memory, Console

VARIABLE part

\* Programs by the ends of their segments: one of a page and a half, one of size
\* zero, one of two segments, one whose second segment lies below the first.
MCImages == {<<3>>, <<0>>, <<3, 5>>, <<5, 3>>}

MCReaders == {"r1", "r2"}
MCWriters == {"w1", "w2"}

Scene(k, r1, r2, w1, w2, n) ==
  [keys |-> k, reads |-> ("r1" :> r1 @@ "r2" :> r2), writes |-> ("w1" :> w1 @@ "w2" :> w2),
   kills |-> n]
Silence == Scene(<<>>, <<>>, <<>>, 0, 0, 0)

\* ^D before, after and between characters, echoed while a process writes; a line
\* longer than the buffer; editing, with a reader that is killed; two writers on a
\* full buffer, one of which is woken by kill().
MCScenes ==
  { Silence,
    Scene(<<"a", "^D", "b", "^D", "^D">>, <<2, 2>>, <<1>>, 1, 0, 0),
    Scene(<<"a", "b", "c", "d", "nl">>, <<2>>, <<1, 1>>, 0, 0, 0),
    Scene(<<"a", "nl", "b", "^U", "c", "^H", "nl">>, <<2>>, <<1>>, 0, 0, 1),
    Scene(<<"nl">>, <<>>, <<>>, 3, 1, 1) }

kvars == <<vars, memVars, conVars, part>>

Silent     == keys = Silence.keys /\ writes = Silence.writes
AnyProgram == CHOOSE w \in MCWorkloads : TRUE
AnyMemory  == CHOOSE n \in Memories : TRUE

KInit ==
  /\ Init /\ MemInit /\ ConInit
  /\ part \in {"files", "memory", "console"}
  /\ part # "files" => work = AnyProgram
  /\ part # "memory" => npages = AnyMemory
  /\ Silent <=> part # "console"

InFiles(Act)   == part = "files" /\ Act /\ UNCHANGED <<memVars, conVars, part>>
InMemory(Act)  == part = "memory" /\ Act /\ UNCHANGED <<npages, vars, conVars, part>>
InConsole(Act) == part = "console" /\ Act /\ UNCHANGED <<vars, memVars, part>>

FilesNext ==
  \/ InFiles(Crash)
  \/ \E p \in Procs : \/ InFiles(Step(p)) \/ InFiles(Call(p))
                      \/ InFiles(Close(p)) \/ InFiles(Write(p))

MemoryNext == \E p \in MemSlots :
  \/ \E n \in 1..MaxSz : InMemory(SbrkGrow(p, n)) \/ InMemory(SbrkShrink(p, n))
  \/ InMemory(SbrkPage(p)) \/ InMemory(ForkFrame(p)) \/ InMemory(ForkTable(p))
  \/ InMemory(ForkPage(p)) \/ InMemory(Exits_proc(p)) \/ InMemory(Reaped(p))
  \/ \E s \in Images : InMemory(ExecTable(p, s))
  \/ InMemory(ExecSegment(p)) \/ InMemory(ExecPage(p)) \/ InMemory(ExecLoaded(p))
  \/ InMemory(ExecBadFile(p)) \/ InMemory(ExecCommit(p)) \/ InMemory(ExecBadArgs(p))

ConsoleNext ==
  \/ InConsole(TypeKey) \/ InConsole(Transmit) \/ InConsole(ClaimUart)
  \/ InConsole(consoleintr) \/ InConsole(EchoWait) \/ InConsole(EchoPut) \/ InConsole(SendMore)
  \/ \E p \in Readers : InConsole(consoleread(p))
  \/ \E p \in Writers : InConsole(uartputc(p))
  \/ \E p \in Readers \union Writers : InConsole(KillUser(p))

KNext == FilesNext \/ MemoryNext \/ ConsoleNext

\* The fairness of Fs and of Console; Memory needs none.
KFairness ==
  /\ \A p \in Procs : WF_kvars(InFiles(Step(p)))
  /\ WF_kvars(InConsole(TypeKey)) /\ WF_kvars(InConsole(Transmit))
  /\ WF_kvars(InConsole(Handler))
  /\ \A p \in Readers : WF_kvars(InConsole(consoleread(p)))
  /\ \A p \in Writers : WF_kvars(InConsole(uartputc(p)))

KSpec == KInit /\ [][KNext]_kvars /\ KFairness
-----------------------------------------------------------------------------
\* No inode and no block is lost, none is free and in use, and the links of an inode are
\* as many as its entries, whichever call fails half way (fs.c:332-360).
NothingLost == NoLeak /\ LinkCounts
=============================================================================
