--------------------------- MODULE SchedulingOrder ---------------------------
(***************************************************************************)
(* The process manager with a history of what happens to one READY thread  *)
(* while it waits for the CPU.                                             *)
(***************************************************************************)
EXTENDS ProcessManager

\* The thread that is watched, those that got the CPU since it became READY
\* (less the freed ones: their handles may name other threads now), and whether
\* one of them just got it again.
VARIABLES watched, ahead, overtaken

history == <<watched, ahead, overtaken>>

HistoryInit ==
    /\ watched \in Threads
    /\ ahead = {}
    /\ overtaken = FALSE

Waits(t) == running /\ t \in Linked /\ status[t] = READY /\ t # current

HistoryNext ==
    /\ UNCHANGED watched
    /\ ahead' = IF ~Waits(watched)' THEN {}
                ELSE (IF current' # current THEN ahead \cup {current'} ELSE ahead)
                     \cap allocated'
    /\ overtaken' = (Waits(watched) /\ current' # current /\ current' \in ahead)

OrderInit == Init /\ HistoryInit
OrderNext == Next /\ HistoryNext
OrderSpec == OrderInit /\ [][OrderNext]_<<vars, history>>

\* While a thread waits READY, no other gets the CPU twice: the wait is one
\* round of the lists, whatever is created, ended and freed meanwhile.
NoOvertaking == ~overtaken
=============================================================================
