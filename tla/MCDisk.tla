------------------------------- MODULE MCDisk -------------------------------
(* The log and the driver of the disk under it, side by side: a behaviour is *)
(* one of Log, or one of BlockIO while Log stands still.                     *)
EXTENDS Log, BlockIO

VARIABLE part

Read(n)  == [op |-> "read", blockno |-> n]
Store(n) == <<[op |-> "log", blockno |-> n], [op |-> "install", blockno |-> n]>>

\* No calls, for the log alone; two who store and install the same block, with a
\* kill(); a store while another process reads that block and a third one reads so
\* many that buffers are recycled; three requests at a time, one of which finds no
\* descriptors.
MCPrograms ==
  { [kills |-> 0, calls |-> << <<>>, <<>>, <<>> >>],
    [kills |-> 1, calls |-> <<Store(1), Store(1), <<>> >>],
    [kills |-> 0, calls |-> <<Store(1), <<Read(1)>>, <<Read(2), Read(3), Read(4)>> >>],
    [kills |-> 1, calls |-> << <<Read(1)>>, <<Read(2)>>, <<Read(3)>> >>] }

dvars == <<vars, ioVars, part>>

DInit == /\ Init /\ IOInit
         /\ part = IF AllDone THEN "log" ELSE "io"

InLog(A) == part = "log" /\ A /\ UNCHANGED <<ioVars, part>>
InIO(A)  == part = "io" /\ A /\ UNCHANGED <<vars, part>>

LogNext ==
  \/ InLog(Crash)
  \/ \E b \in Blocks : InLog(Recycle(b))
  \/ \E p \in Procs :
       \/ InLog(write_log(p)) \/ InLog(write_head(p)) \/ InLog(install_trans(p))
       \/ InLog(clear(p)) \/ InLog(finish(p)) \/ InLog(read_head(p))
       \/ InLog(begin_op(p)) \/ InLog(end_op(p))
       \/ \E b \in Blocks : \/ InLog(bread(p, b))
                            \/ \E v \in Values : InLog(log_write(p, b, v))

IOStep ==
  \/ \E t \in Tasks :
       \/ InIO(bread_call(t)) \/ InIO(acquiresleep(t)) \/ InIO(Use(t))
       \/ InIO(releasesleep(t)) \/ InIO(brelse(t))
       \/ InIO(virtio_disk_rw(t)) \/ InIO(EndOfIO(t)) \/ InIO(KillTask(t))
  \/ InIO(Device) \/ InIO(TakeInterrupt) \/ InIO(ServeUsed) \/ InIO(EndInterrupt)

DNext == LogNext \/ IOStep

\* The fairness of Log and of BlockIO.
DFairness ==
  /\ \A p \in Procs : WF_dvars(InLog(KernelStep(p))) /\ WF_dvars(InLog(end_op(p)))
  /\ \A t \in Tasks : WF_dvars(InIO(TaskStep(t)))
  /\ WF_dvars(InIO(Device)) /\ WF_dvars(InIO(Interrupt))

DSpec == DInit /\ [][DNext]_dvars /\ DFairness
-----------------------------------------------------------------------------
\* Whoever waits for room in the log, or for the commit, goes on (log.c:128-140,
\* 155-175), and every request to the disk ends (virtio_disk.c:271-294).
WaitsEnd == SleepersWake /\ IOEnds
=============================================================================
