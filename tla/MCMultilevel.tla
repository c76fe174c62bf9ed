---------------------------- MODULE MCMultilevel -----------------------------
(***************************************************************************)
(* The scheduler of three queues with threads of each priority, yielding   *)
(* and not, one that never runs, and memory for as many nodes as there are *)
(* threads queued, which two threads of one priority soon use up.          *)
(***************************************************************************)
EXTENDS QueueTurns

CONSTANTS timer, idle, driver, normal, high, low

MCOrder == <<timer, idle, driver, normal, high, low>>
MCPriorityOf ==
    [t \in Threads |->
        CASE t \in {driver, normal} -> "NORMAL" [] t = low -> "LOW" [] OTHER -> "HIGH"]

\* The timer is programmed once and ticks for ever; where the bound on the counts
\* stops it the model ends, not the code.
MCSpec == TurnsSpec /\ []<><<CountedTimer>>_<<vars, waited>>
=============================================================================
