----------------------------- MODULE QueueTurns -----------------------------
(***************************************************************************)
(* The scheduler of three queues with a record of how long each queue is   *)
(* passed over.                                                            *)
(***************************************************************************)
EXTENDS MultilevelScheduler

\* How many ticks a queue was passed over while it had entries.
VARIABLE waited

Waits(p) == queues.count[p] > 0 /\ queues'.count[p] > 0

NotWaited == waited = [p \in Priorities |-> 0]

\* A yield is no tick: no queue waits longer for it.
WaitsOn == waited' = [p \in Priorities |-> IF Waits(p) THEN waited[p] ELSE 0]

WaitsLonger ==
    waited' = [p \in Priorities |-> IF Waits(p) /\ priority' # p THEN waited[p] + 1 ELSE 0]

TurnsInit == Init /\ NotWaited
CountedTimer == Psp_IRQ_SystemTimer /\ WaitsLonger
TurnsNext == (PspSoftTaskSW /\ WaitsOn) \/ CountedTimer
TurnsSpec == TurnsInit /\ [][TurnsNext]_<<vars, waited>>

\* A queue that has entries gets its turn: the high one after all ticks of the
\* two others, those after what is left of the present round, the tick that
\* begins a new one, and the ticks of the queues before them.
TurnComes ==
    waited["HIGH"] <= 4 /\ waited["NORMAL"] <= 14 /\ waited["LOW"] <= 19
=============================================================================
