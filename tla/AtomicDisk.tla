----------------------------- MODULE AtomicDisk -----------------------------
(* What xv6's log promises to file system calls (kernel/log.c): what they     *)
(* write becomes stable all at once, at a moment when none of them is under   *)
(* way, and a crash takes everybody back to what was stable.                  *)
CONSTANTS Procs, Blocks, Values

VARIABLES stable,    \* what a restart finds
          current,   \* what processes see
          active     \* the processes between begin_op() and end_op()

Init == /\ stable \in [Blocks -> Values]
        /\ current = stable
        /\ active = {}

Begin(p) == /\ p \notin active
            /\ active' = active \union {p}
            /\ UNCHANGED <<stable, current>>

Write(p, b, v) == /\ p \in active
                  /\ current' = [current EXCEPT ![b] = v]
                  /\ UNCHANGED <<stable, active>>

End(p) == /\ p \in active
          /\ active' = active \ {p}
          /\ UNCHANGED <<stable, current>>

Commit == /\ active = {}
          /\ stable' = current
          /\ UNCHANGED <<current, active>>

Crash == /\ current' = stable
         /\ active' = {}
         /\ UNCHANGED stable

Next == \/ Commit \/ Crash
        \/ \E p \in Procs : \/ Begin(p) \/ End(p)
                            \/ \E b \in Blocks, v \in Values : Write(p, b, v)

Spec == Init /\ [][Next]_<<stable, current, active>>
=============================================================================
