------------------------- MODULE MultilevelScheduler -------------------------
(***************************************************************************)
(* The scheduler of the older kernel,                                      *)
(* src/Multilevel_Queue_Scheduling/process.c: three queues of threads,     *)
(* linked lists of allocated nodes, from which every switch takes one      *)
(* entry; the timer decides which queue.  The entry taken is where the     *)
(* search in the list of all threads starts: what runs is the next         *)
(* runnable thread after it.                                               *)
(*                                                                         *)
(* Modelled from the end of the boot code (myoksos_init), which runs with  *)
(* interrupts disabled.  The threads it creates never return and never     *)
(* block, and nothing else creates one.                                    *)
(***************************************************************************)
EXTENDS Integers, FiniteSets, SequencesExt

CONSTANTS
    Order,          \* all threads, as the lists of processes and threads give them
    PriorityOf,     \* the priority of each
    Queued,         \* those made by PsCreateThreadPriority, which queues them
    Idle,           \* the idle thread, RUNNING at the end of the boot code
    Started,        \* those made READY; the others remain at STOP
    Yielding,       \* those whose loop calls HalTaskSwitch
    MaxNodes,       \* the memory there is for queue nodes
    MaxCount        \* bound: how far the count of a queue gets

Threads == {Order[i] : i \in DOMAIN Order}
Priorities == {"HIGH", "NORMAL", "LOW"}
Nodes == 1 .. MaxNodes
NULL == 0

ASSUME SchedulerAssumption ==
    /\ Order \in Seq(Threads)
    /\ \A i, j \in DOMAIN Order : Order[i] = Order[j] => i = j
    /\ PriorityOf \in [Threads -> Priorities]
    /\ Queued \subseteq Threads /\ Started \subseteq Queued /\ Yielding \subseteq Started \cup {Idle}
    /\ Idle \in Queued \ Started
    /\ MaxNodes \in Nat /\ MaxNodes >= Cardinality(Queued)
    /\ MaxCount \in Nat

\* How many ticks a queue may have before the others had theirs.
Quota(p) == CASE p = "HIGH" -> 6 [] p = "NORMAL" -> 3 [] p = "LOW" -> 1

VARIABLES
    queues,         \* front, end and count of each queue, and the nodes
    thread_status,
    current,        \* pt_current_thread
    priority,       \* current_schedule_priority
    spent,          \* highT, normalT, lowT
    refused         \* history: memory for a node has been refused

vars == <<queues, thread_status, current, priority, spent, refused>>

----------------------------------------------------------------------------
(* The queues.  A node is memory of the memory manager, which hands out    *)
(* the first block that is free, or NULL.  "node" has the nodes in use:    *)
(* what is left in a freed one is nobody's business, and nothing may read  *)
(* it.  Address zero is memory too, which is written and never read.       *)

NoQueues ==
    [front |-> [p \in Priorities |-> NULL], end |-> [p \in Priorities |-> NULL],
     count |-> [p \in Priorities |-> 0], node |-> << >>]

InUse(q) == DOMAIN q.node
IsEmpty(q, p) == q.front[p] = NULL

MmAllocateNonCachedMemory(q) == IF InUse(q) = Nodes THEN NULL ELSE Min(Nodes \ InUse(q))

\* A new node n, the last one of its queue, linked by the one before if any.
\* Nobody asks whether there is one: without it the count and the end still
\* change, a node linked behind address zero is never found, and an empty queue
\* remains empty.
Linked(q, p, t, n, is_first) ==
    [q EXCEPT !.count[p] = @ + 1, !.end[p] = n,
              !.front[p] = IF is_first THEN n ELSE @,
              !.node = [m \in InUse(q) \cup ({n} \ {NULL}) |->
                    IF m = n THEN [next |-> NULL, thread |-> t]
                    ELSE IF m = q.end[p] /\ ~is_first THEN [@[m] EXCEPT !.next = n]
                    ELSE @[m]]]

\* Mutated form: whether there is an entry is asked of the end, not the front.
PspPushScheduleData_ByEnd(q, p, t) ==
    Linked(q, p, t, MmAllocateNonCachedMemory(q), q.end[p] = NULL)

PspPushScheduleData(q, p, t) ==
    Linked(q, p, t, MmAllocateNonCachedMemory(q), IsEmpty(q, p))

\* The nodes of a queue, from the front to the first that links to none; there
\* are not more than the count says.
NodesOf(q, p) ==
    LET at[i \in 1 .. q.count[p]] ==
            IF i = 1 THEN q.front[p] ELSE IF at[i - 1] = NULL THEN NULL ELSE q.node[at[i - 1]].next
        found == Min({k \in 0 .. q.count[p] : k < q.count[p] => at[k + 1] = NULL})
    IN [i \in 1 .. found |-> at[i]]

\* PspPopScheduleData, k times.  The end is left as it is, on the memory of the
\* last node even when that goes.
PopEntries(q, p, k) ==
    LET nodes == NodesOf(q, p) IN
    IF k = 0 THEN q
    ELSE [q EXCEPT !.node = Restrict(@, InUse(q) \ {nodes[i] : i \in 1 .. k}),
                   !.front[p] = q.node[nodes[k]].next,
                   !.count[p] = @ - k]

----------------------------------------------------------------------------
(* PspFindNextThreadScheduled.                                             *)

IsRunnable(t) == thread_status[t] \in {"READY", "RUNNING"}

\* How many entries the first loop pops: those of threads that cannot run.
Skipped(q, p) ==
    LET nodes == NodesOf(q, p) IN
    Min({i \in 0 .. Len(nodes) : i < Len(nodes) => IsRunnable(q.node[nodes[i + 1]].thread)})

\* Whether an entry of a thread that can run is left.
HasEntry(q, p) == Skipped(q, p) < Len(NodesOf(q, p))

PositionOf(t) == CHOOSE i \in DOMAIN Order : Order[i] = t

\* Mutated form: the search begins one thread too far.
After_TooFar(t, k) == Order[((PositionOf(t) + k) % Len(Order)) + 1]

After(t, k) == Order[((PositionOf(t) + k - 1) % Len(Order)) + 1]

\* The search in the lists, which begins behind the thread.
NextRunnable(t) ==
    After(t, Min({k \in 1 .. Len(Order) : IsRunnable(After(t, k))}))

\* The thread to run, given the entry that was taken.
PspFindNextThreadScheduled(p) ==
    NextRunnable(IF HasEntry(queues, p)
                 THEN queues.node[NodesOf(queues, p)[Skipped(queues, p) + 1]].thread
                 ELSE current)

----------------------------------------------------------------------------
(* PspSetupTaskSWEnv, for a given queue: take an entry, queue the current  *)
(* thread again if it was RUNNING, and give the CPU to the one found.  It  *)
(* is the thread switched from that is set to RUNNING.                     *)

PspSetupTaskSWEnv(p) ==
    LET taken == PopEntries(queues, p, Skipped(queues, p) + (IF HasEntry(queues, p) THEN 1 ELSE 0))
        next == PspFindNextThreadScheduled(p)
        runs == thread_status[current] = "RUNNING"
    IN /\ runs => taken.count[PriorityOf[current]] < MaxCount    \* bound
       /\ refused' = (refused \/ (runs /\ InUse(taken) = Nodes))
       /\ queues' = IF runs THEN PspPushScheduleData(taken, PriorityOf[current], current) ELSE taken
       /\ thread_status' = [thread_status EXCEPT ![current] =
            IF next # current THEN "RUNNING" ELSE IF runs THEN "READY" ELSE @]
       /\ current' = next

\* The loops of the idle thread, the cutters and the drivers' threads.
PspSoftTaskSW ==
    /\ current \in Yielding
    /\ PspSetupTaskSWEnv(priority)
    /\ UNCHANGED <<priority, spent>>

HasTurn(p) == queues.count[p] > 0 /\ spent[p] < Quota(p)

Turns == {p \in Priorities : HasTurn(p)}
Filled == {p \in Priorities : queues.count[p] # 0}

\* The tick that begins a new round is not counted in it.
SpentAfter(p) ==
    IF Turns # {} THEN [spent EXCEPT ![p] = @ + 1] ELSE [r \in Priorities |-> 0]

\* Mutated form: the lowest.
Highest_Low(ps) == IF "LOW" \in ps THEN "LOW" ELSE IF "NORMAL" \in ps THEN "NORMAL" ELSE "HIGH"

Highest(ps) == IF "HIGH" \in ps THEN "HIGH" ELSE IF "NORMAL" \in ps THEN "NORMAL" ELSE "LOW"

\* The first queue that has entries and ticks left; when there is none a new
\* round begins, with the first that has entries.
Psp_IRQ_SystemTimer ==
    LET p == Highest(IF Turns # {} THEN Turns ELSE Filled) IN
    /\ priority' = p
    /\ spent' = SpentAfter(p)
    /\ PspSetupTaskSWEnv(p)

\* Every thread was queued when it was made, before it was made READY.
BootQueues ==
    LET after[i \in 0 .. Len(Order)] ==
            IF i = 0 THEN NoQueues
            ELSE IF Order[i] \in Queued
                 THEN PspPushScheduleData(after[i - 1], PriorityOf[Order[i]], Order[i])
                 ELSE after[i - 1]
    IN after[Len(Order)]

Init ==
    /\ queues = BootQueues
    /\ thread_status = [t \in Threads |-> CASE t = Idle -> "RUNNING" [] t \in Started -> "READY"
                                            [] OTHER -> "STOP"]
    /\ current = Idle
    /\ priority = "HIGH"
    /\ spent = [p \in Priorities |-> 0]
    /\ refused = FALSE

Next == PspSoftTaskSW \/ Psp_IRQ_SystemTimer

Spec == Init /\ [][Next]_vars

----------------------------------------------------------------------------
(* Properties.                                                             *)

\* Every variable has its type.
TypeOK ==
    /\ InUse(queues) \subseteq Nodes
    /\ \A p \in Priorities : queues.count[p] \in Nat /\ spent[p] \in 0 .. Quota(p)
    /\ thread_status \in [Threads -> {"STOP", "READY", "RUNNING"}]
    /\ current \in Started \cup {Idle}
    /\ priority \in Priorities /\ refused \in BOOLEAN

\* The nodes of the three queues, recycled from one to another, form three
\* separate lists of nodes in use, none longer than its count and each ending
\* with NULL, even after memory for a node has been refused.  Until then each has
\* as many nodes as its count says and ends at its end, and no node in use
\* belongs to none.
QueuesAreLists ==
    /\ TypeOK
    /\ \A p \in Priorities :
         LET nodes == NodesOf(queues, p) IN
         /\ IsEmpty(queues, p) <=> nodes = << >>
         /\ IsInjective(nodes) /\ ToSet(nodes) \subseteq InUse(queues)
         /\ nodes # << >> => queues.node[Last(nodes)].next = NULL
         /\ ~refused => Len(nodes) = queues.count[p] /\ (nodes # << >> => Last(nodes) = queues.end[p])
    /\ \A p, r \in Priorities :
         p # r => ToSet(NodesOf(queues, p)) \cap ToSet(NodesOf(queues, r)) = {}
    /\ ~refused => InUse(queues) = UNION {ToSet(NodesOf(queues, p)) : p \in Priorities}

\* Whatever the queues hold, every thread that was started gets the CPU again
\* and again.
NoStarvation == \A t \in Started \cup {Idle} : []<>(current = t)
=============================================================================
