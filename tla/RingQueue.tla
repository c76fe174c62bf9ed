----------------------------- MODULE RingQueue -----------------------------
(***************************************************************************)
(* The ring buffer the kernel uses four times: the two cutting lists of    *)
(* process.c, the raw and user key queues of kbddrv.c and the job queue of *)
(* fdddrv.c.  Each is a structure of three BYTEs, cnt, head and tail, and  *)
(* an array; each operation runs with interrupts disabled, so it is one    *)
(* action.  The definitions are written on a record, for the modules that  *)
(* hold such a queue among their state; ring, below, is one queue alone.   *)
(***************************************************************************)
EXTENDS Integers, Sequences

CONSTANTS Size,     \* entries of the array
          Items     \* what is queued

ASSUME SizeAssumption == Size \in 1 .. 255    \* the counters are BYTEs
ASSUME ItemsAssumption == Items # {}

Byte(n) == n % 256

Slots == 0 .. (Size - 1)

\* Mutated form: the wrap tested with > lets an index leave the array.
Next1_Late(i) == IF Byte(i + 1) > Size THEN 0 ELSE Byte(i + 1)

\* An index is incremented, and reset when it has left the array.
Next1(i) == IF Byte(i + 1) >= Size THEN 0 ELSE Byte(i + 1)

Zeroed(junk) == [cnt |-> 0, head |-> 0, tail |-> 0, queue |-> junk]

IsFull(q) == q.cnt >= Size
IsEmpty(q) == q.cnt = 0

PushItem(q, x) ==
    [q EXCEPT !.cnt = Byte(q.cnt + 1),
              !.queue = [q.queue EXCEPT ![q.tail] = x],
              !.tail = Next1(q.tail)]

FrontItem(q) == q.queue[q.head]

\* Mutated form: a pop that forgets to count.
PopItem_NoCount(q) == [q EXCEPT !.head = Next1(q.head)]

PopItem(q) == [q EXCEPT !.cnt = Byte(q.cnt - 1), !.head = Next1(q.head)]

VARIABLES ring, outcome

ringVars == <<ring, outcome>>

Outcome(op, ok, item) == [op |-> op, ok |-> ok, item |-> item]

\* The structures are static: the array holds zeroes, one of the Items.
RingInit ==
    \E x \in Items :
        /\ ring = Zeroed([i \in Slots |-> x])
        /\ outcome = Outcome("none", FALSE, x)

Push(x) ==
    \/ /\ ~IsFull(ring)
       /\ ring' = PushItem(ring, x)
       /\ outcome' = Outcome("push", TRUE, x)
    \/ /\ IsFull(ring)
       /\ outcome' = Outcome("push", FALSE, x)
       /\ UNCHANGED ring

Pop ==
    \/ /\ ~IsEmpty(ring)
       /\ outcome' = Outcome("pop", TRUE, FrontItem(ring))
       /\ ring' = PopItem(ring)
    \/ /\ IsEmpty(ring)
       /\ \E x \in Items : outcome' = Outcome("pop", FALSE, x)
       /\ UNCHANGED ring

RingNext == Pop \/ \E x \in Items : Push(x)

RingSpec == RingInit /\ [][RingNext]_ringVars

----------------------------------------------------------------------------
(* Properties.                                                             *)

\* The entry k places after the head, around the end of the array.
Wrap(i) == IF i < Size THEN i ELSE i - Size
Place(q, k) == Wrap(q.head + k)

\* The queued items, oldest first.
Contents(q) == [i \in 1 .. q.cnt |-> q.queue[Place(q, i - 1)]]

IsRing(q) ==
    /\ q \in [cnt : 0 .. Size, head : Slots, tail : Slots, queue : [Slots -> Items]]
    /\ q.tail = Place(q, q.cnt)

\* The indices never leave the array, and tail is cnt entries after head: what
\* an entry holds and where the next one goes never disagree, around every
\* wrap, with the array full and with it empty.
RingOK == IsRing(ring)

Fifo == INSTANCE BoundedFifo WITH fifo <- Contents(ring)

\* The ring implements the bounded FIFO queue: nothing is lost, repeated,
\* reordered or overwritten, and only a full or an empty queue refuses.
FifoSpec == Fifo!Spec
=============================================================================
