----------------------------- MODULE CpuSharing -----------------------------
(***************************************************************************)
(* What the hardware layer promises the threads: one processor that they   *)
(* take in turns, each going on exactly where it was.                      *)
(***************************************************************************)
EXTENDS Integers

CONSTANTS Threads, Idle,
          Rounds        \* bound: progress is counted modulo this number

VARIABLES
    running,    \* the thread the processor belongs to
    started,    \* the threads that may get it
    done        \* how far each thread is

sharing == <<running, started, done>>

Init ==
    /\ running = Idle
    /\ started = {Idle}
    /\ done = [t \in Threads |-> 0]

\* The running thread, and no other, gets one step further.
Step ==
    /\ done' = [done EXCEPT ![running] = (@ + 1) % Rounds]
    /\ UNCHANGED <<running, started>>

Start(t) ==
    /\ done[t] = 0
    /\ started' = started \cup {t}
    /\ UNCHANGED <<running, done>>

Switch(t) ==
    /\ t \in started
    /\ running' = t
    /\ UNCHANGED <<started, done>>

Next == Step \/ \E t \in Threads : Start(t) \/ Switch(t)

Spec == Init /\ [][Next]_sharing
=============================================================================
