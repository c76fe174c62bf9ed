---------------------------- MODULE BoundedFifo ----------------------------
(***************************************************************************)
(* What the queues of the kernel promise: items leave in the order they    *)
(* entered, none is lost, duplicated or made up while it is queued, a push *)
(* fails exactly when Size items are queued and a pop when there is none.  *)
(***************************************************************************)
EXTENDS Integers, Sequences

CONSTANTS Size, Items

VARIABLES fifo,     \* the queued items, oldest first
          outcome   \* the last call: its name, its result, the item passed

fifoVars == <<fifo, outcome>>

Outcome(op, ok, item) == [op |-> op, ok |-> ok, item |-> item]

Push(x) ==
    \/ /\ Len(fifo) < Size
       /\ fifo' = Append(fifo, x)
       /\ outcome' = Outcome("push", TRUE, x)
    \/ /\ Len(fifo) = Size
       /\ outcome' = Outcome("push", FALSE, x)
       /\ UNCHANGED fifo

\* A failed pop leaves the caller's variable as it was; nothing is said of it.
Pop ==
    \/ /\ fifo # << >>
       /\ outcome' = Outcome("pop", TRUE, Head(fifo))
       /\ fifo' = Tail(fifo)
    \/ /\ fifo = << >>
       /\ \E x \in Items : outcome' = Outcome("pop", FALSE, x)
       /\ UNCHANGED fifo

Init == fifo = << >> /\ \E x \in Items : outcome = Outcome("none", FALSE, x)

Next == Pop \/ \E x \in Items : Push(x)

Spec == Init /\ [][Next]_fifoVars
=============================================================================
