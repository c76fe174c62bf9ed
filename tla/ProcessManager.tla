--------------------------- MODULE ProcessManager ---------------------------
(***************************************************************************)
(* The process manager of src/mylysos/process.c: the lists of processes    *)
(* and of their threads, the round-robin scheduler that the timer and the  *)
(* voluntary switch share, and the deletion of threads through the cutting *)
(* list.  One CPU: between two switches only pt_current_thread executes,   *)
(* and the timer may come between any two of its steps.  What the code     *)
(* does with interrupts disabled, or in the two task gates, is one step.   *)
(*                                                                         *)
(* The linked lists are sequences of handles.  A handle is the address of  *)
(* a thread control block (TCB), so a freed handle may be given out again. *)
(* The memory manager is used through its promise: a TCB is any free one,  *)
(* and a stack is refused when the pool has none left.                     *)
(*                                                                         *)
(* The threads the drivers and the shell create at boot, their mains, are  *)
(* clients: they create threads, start them, wait for their end, delete    *)
(* them, block and are woken, in the order their code allows.              *)
(***************************************************************************)
EXTENDS Integers, Sequences, FiniteSets

CONSTANTS
    System,         \* the handle of the process PspCreateSystemProcess makes
    Drivers,        \* the processes the drivers and the shell create, in order
    Main,           \* the main thread of each of them
    Waker,          \* the main that serves the jobs of the others: the driver
    ReturningMains, \* mains whose start routine returns, created with AutoDelete
    HeadLeavesLast, \* whether they return only when alone in their process
    Spare,          \* the memory left for other TCBs
    StackLimit,     \* how many threads the pool has stacks for
    MAX_CUTTING_ITEM,
    NoThread

\* The threads of the system process, in the order of their creation.
SystemThreads == <<"init", "tmr", "sw_task_sw", "idle", "process_cutter", "thread_cutter">>
IsIn(x, seq) == \E i \in 1 .. Len(seq) : seq[i] = x

DriverSet == {Drivers[i] : i \in 1 .. Len(Drivers)}
Processes == {System} \cup DriverSet
Mains == {Main[p] : p \in DriverSet}
SystemSet == {SystemThreads[i] : i \in 1 .. Len(SystemThreads)}
Threads == SystemSet \cup Mains \cup Spare

ASSUME ConfigurationAssumption ==
    /\ Len(Drivers) \in Nat
    /\ System \notin DriverSet
    /\ \A i, j \in 1 .. Len(Drivers) : i # j => Main[Drivers[i]] # Main[Drivers[j]]
    /\ SystemSet \cap (Mains \cup Spare) = {} /\ Mains \cap Spare = {}
    /\ Waker \in Mains \ ReturningMains /\ ReturningMains \subseteq Mains
    /\ HeadLeavesLast \in BOOLEAN
    /\ NoThread \notin Threads
    /\ StackLimit \in Nat /\ MAX_CUTTING_ITEM \in Nat

STOP == "STOP"
READY == "READY"
RUNNING == "RUNNING"
WAITING == "WAITING"
TERMINATED == "TERMINATED"

VARIABLES
    procs,          \* the list from pt_head_process
    threads,        \* of each process, the list from pt_head_thread
    thread_count,   \* of each process
    allocated,      \* the TCBs in memory the pool has handed out
    stacks,         \* the TCBs whose stack is allocated from the pool
    parent,         \* parent_process_handle of each TCB
    status,         \* thread_status
    auto_delete,
    tss,            \* whether HalSetupTSS has filled thread_tss32
    current,        \* pt_current_thread
    cutting,        \* m_ThreadCuttingList, oldest first
    pc,             \* where each thread is in its code
    made,           \* of each main, the handle it holds of a thread it made
    item,           \* the handle the thread cutter popped
    jobs,           \* the threads of the jobs queued for the waker, oldest first
    serving,        \* the thread of the job the waker popped
    running,        \* FALSE while mylysos_init runs, interrupts disabled
    lost            \* history: the TCBs whose stack was refused

lists == <<procs, threads, thread_count>>
memory == <<allocated, stacks, lost>>
fields == <<parent, auto_delete, tss>>
vars == <<lists, memory, fields, status, current, cutting, pc, made, item, jobs, serving,
          running>>

----------------------------------------------------------------------------
(* The lists.                                                              *)

\* Places in the two levels of lists: the j-th thread of the i-th process.
Places == UNION {{i} \X (1 .. Len(threads[procs[i]])) : i \in 1 .. Len(procs)}
ThreadAt(s) == threads[procs[s[1]]][s[2]]
Precedes(r, s) == r[1] < s[1] \/ (r[1] = s[1] /\ r[2] < s[2])

Linked == {ThreadAt(s) : s \in Places}

Runnable(t) == status[t] \in {READY, RUNNING}
RunnablePlaces == {s \in Places : Runnable(ThreadAt(s))}

\* Mutated form: after the last thread of any process the search goes on from
\* the first process.
VisitedBefore_FirstProcess(c, r, s) ==
    LET IsRest(x) == x[1] = c[1] /\ x[2] > c[2] IN
    \/ IsRest(r) /\ ~IsRest(s)
    \/ (IsRest(r) <=> IsRest(s)) /\ Precedes(r, s)

\* The search visits the threads after the current one, in its process and in
\* the ones that follow, then goes on from the first process, and ends at the
\* current one; processes without threads are passed over.
VisitedBefore(c, r, s) ==
    \/ Precedes(c, r) /\ ~Precedes(c, s)
    \/ (Precedes(c, r) <=> Precedes(c, s)) /\ Precedes(r, s)

\* The thread the search finds, as a set of one.
PspFindNextThreadScheduled ==
    LET c == CHOOSE s \in Places : ThreadAt(s) = current
        runnable == RunnablePlaces
    IN {ThreadAt(s) : s \in {r \in runnable : \A q \in runnable : ~VisitedBefore(c, q, r)}}

----------------------------------------------------------------------------
(* The thread cutting list: RingQueue shows that its ring is this queue.   *)

\* Mutated form: the list takes one more than it has room for.
PushCuttingItem_OneMore(t) ==
    IF Len(cutting) <= MAX_CUTTING_ITEM THEN Append(cutting, t) ELSE cutting

PushCuttingItem(t) ==
    IF Len(cutting) < MAX_CUTTING_ITEM THEN Append(cutting, t) ELSE cutting

----------------------------------------------------------------------------
(* Switching.                                                              *)

\* Mutated form: the thread that loses the CPU keeps RUNNING.
StatusAfterSwitch_KeepsRunning(next) ==
    [status EXCEPT ![next] = IF next = current THEN @ ELSE RUNNING]

\* A thread that stays current because nothing else can run is left READY.
StatusAfterSwitch(next) ==
    [t \in Threads |-> IF t = next /\ next # current THEN RUNNING
                       ELSE IF t = current /\ status[t] = RUNNING THEN READY
                       ELSE status[t]]

\* Mutated form: a thread is to be deleted whatever its status.
DeletesItself_Alive == auto_delete[current]

\* Mutated form: the test reads the thread that is switched to.
DeletesItself_Next ==
    \E next \in PspFindNextThreadScheduled : status[next] = TERMINATED /\ auto_delete[next]

DeletesItself == status[current] = TERMINATED /\ auto_delete[current]

\* A TERMINATED thread goes to the cutting list if it is to be deleted by
\* itself; the failure of a full list is not looked at.
PspSetupTaskSWEnv ==
    \E next \in PspFindNextThreadScheduled :
        /\ current' = next
        /\ status' = StatusAfterSwitch(next)
        /\ cutting' = IF DeletesItself THEN PushCuttingItem(current) ELSE cutting

Psp_IRQ_SystemTimer ==
    /\ running
    /\ PspSetupTaskSWEnv
    /\ UNCHANGED <<lists, memory, fields, pc, made, item, jobs, serving, running>>

\* HalTaskSwitch, called by the current thread: int 30h enters PspSoftTaskSW.
\* When the thread runs again it goes on at its next step.
HalTaskSwitch(next_pc) ==
    /\ PspSetupTaskSWEnv
    /\ pc' = [pc EXCEPT ![current] = next_pc]
    /\ UNCHANGED <<lists, memory, fields, made, item, jobs, serving, running>>

AtPc(t, where) == running /\ current = t /\ pc[t] = where
GoTo(t, where) == pc' = [pc EXCEPT ![t] = where]

\* The idle thread and, its list being empty since nothing pushes to it, the
\* process cutter only switch.
PspIdleThread == AtPc("idle", "run") /\ HalTaskSwitch("run")
PspProcessCutterThread == AtPc("process_cutter", "run") /\ HalTaskSwitch("run")

----------------------------------------------------------------------------
(* PspThreadCutterThread.                                                  *)

PopCuttingItem ==
    /\ AtPc("thread_cutter", "run")
    /\ \/ /\ cutting # << >>
          /\ item' = Head(cutting)
          /\ cutting' = Tail(cutting)
          /\ GoTo("thread_cutter", "cut")
       \/ /\ cutting = << >>
          /\ GoTo("thread_cutter", "switch")
          /\ UNCHANGED <<item, cutting>>
    /\ UNCHANGED <<lists, memory, fields, status, current, made, jobs, serving, running>>

CutterSwitches == AtPc("thread_cutter", "switch") /\ HalTaskSwitch("run")

\* Mutated form: the list keeps the thread wherever it is.
WithoutPlace_Never(list, k) == list

\* Unlinking goes through pt_prev_thread, the link that holds the predecessor;
\* for the first thread it is the head itself, and nothing is unlinked.
WithoutPlace(list, k) ==
    IF k = 1 THEN list ELSE SubSeq(list, 1, k - 1) \o SubSeq(list, k + 1, Len(list))

\* The list of process p without thread t, as the cutter makes it.
Cut(p, t) ==
    IF thread_count[p] = 1 THEN << >>
    ELSE WithoutPlace(threads[p], CHOOSE k \in 1 .. Len(threads[p]) : threads[p][k] = t)

CanCut(t) ==
    /\ parent[t] # System
    /\ thread_count[parent[t]] # 0
    /\ thread_count[parent[t]] = 1 \/ IsIn(t, threads[parent[t]])

\* The stack of a user program lies below 2 MB, outside the pool: it is no
\* member of stacks, and is not freed.
StacksWithout(t) == stacks \ {t}

\* Mutated form: the control block is unlinked and not freed.
BlocksWithout_Kept(t) == allocated

BlocksWithout(t) == allocated \ {t}

DeleteThread ==
    /\ AtPc("thread_cutter", "cut")
    /\ IF CanCut(item)
       THEN /\ threads' = [threads EXCEPT ![parent[item]] = Cut(parent[item], item)]
            /\ thread_count' = [thread_count EXCEPT ![parent[item]] = @ - 1]
            /\ stacks' = StacksWithout(item)
            /\ allocated' = BlocksWithout(item)
            /\ UNCHANGED lost
       ELSE UNCHANGED <<threads, thread_count, memory>>
    /\ GoTo("thread_cutter", "run")
    /\ item' = NoThread
    /\ UNCHANGED <<procs, fields, status, current, cutting, made, jobs, serving, running>>

----------------------------------------------------------------------------
(* PsCreateThread and PsCreateUserThread, called by a main for its own     *)
(* process.  The block is filled before it is linked, but its task state   *)
(* only after: the status STOP keeps the scheduler away until then.        *)

\* Mutated form: the thread is created ready to run.
StatusOfNew_Ready == READY

StatusOfNew == STOP

AllocateTCB(c, t, user, auto) ==
    /\ AtPc(c, "run")
    /\ made[c] = NoThread
    /\ t \in Spare \ allocated
    /\ allocated' = allocated \cup {t}
    /\ parent' = [parent EXCEPT ![t] = parent[c]]
    /\ status' = [status EXCEPT ![t] = StatusOfNew]
    /\ auto_delete' = [auto_delete EXCEPT ![t] = auto /\ ~user]
    /\ tss' = [tss EXCEPT ![t] = FALSE]
    /\ made' = [made EXCEPT ![c] = t]
    /\ pc' = [pc EXCEPT ![c] = IF user THEN "link" ELSE "stack", ![t] = "run"]
    /\ UNCHANGED <<lists, stacks, lost, current, cutting, item, jobs, serving, running>>

\* A thread whose stack is refused is never linked, and its TCB never freed.
AllocateStack(c) ==
    /\ AtPc(c, "stack")
    /\ \/ /\ Cardinality(stacks) < StackLimit
          /\ stacks' = stacks \cup {made[c]}
          /\ GoTo(c, "link")
          /\ UNCHANGED <<made, lost>>
       \/ /\ Cardinality(stacks) >= StackLimit
          /\ made' = [made EXCEPT ![c] = NoThread]
          /\ lost' = lost \cup {made[c]}
          /\ GoTo(c, "run")
          /\ UNCHANGED stacks
    /\ UNCHANGED <<lists, allocated, fields, status, current, cutting, item, jobs,
                   serving, running>>

\* Mutated form: the thread is linked and not counted.
PspAddNewThread_Uncounted(c) ==
    LET p == parent[made[c]] IN
    /\ AtPc(c, "link")
    /\ threads' = [threads EXCEPT ![p] = Append(@, made[c])]
    /\ GoTo(c, "tss")
    /\ UNCHANGED <<procs, thread_count, memory, fields, status, current, cutting,
                   made, item, jobs, serving, running>>

PspAddNewThread(c) ==
    LET p == parent[made[c]] IN
    /\ AtPc(c, "link")
    /\ threads' = [threads EXCEPT ![p] = Append(@, made[c])]
    /\ thread_count' = [thread_count EXCEPT ![p] = @ + 1]
    /\ GoTo(c, "tss")
    /\ UNCHANGED <<procs, memory, fields, status, current, cutting, made, item, jobs,
                   serving, running>>

SetupTSS(c) ==
    /\ AtPc(c, "tss")
    /\ tss' = [tss EXCEPT ![made[c]] = TRUE]
    /\ GoTo(c, "start")
    /\ UNCHANGED <<lists, memory, parent, auto_delete, status, current, cutting,
                   made, item, jobs, serving, running>>

----------------------------------------------------------------------------
(* What the clients do with threads.                                       *)

SetStatus(t, s) == status' = [status EXCEPT ![t] = s]

\* PsSetThreadStatus(handle, READY), the maker's next call after the creation:
\* whatever the status is, it is overwritten.  The maker keeps no handle of a
\* thread that will delete itself.
StartThread(c) ==
    /\ AtPc(c, "start")
    /\ SetStatus(made[c], READY)
    /\ made' = [made EXCEPT ![c] = IF auto_delete[@] THEN NoThread ELSE @]
    /\ GoTo(c, "run")
    /\ UNCHANGED <<lists, memory, fields, current, cutting, item, jobs, serving, running>>

\* Mutated form: the maker does not wait for the end of the thread.
HasEnded_Started(t) == status[t] # STOP

HasEnded(t) == status[t] = TERMINATED

\* PsDeleteThread by the maker, once it has seen the thread TERMINATED.  The
\* result is not looked at: with a full list the handle is lost.
PsDeleteThread(c) ==
    /\ AtPc(c, "run")
    /\ made[c] # NoThread
    /\ HasEnded(made[c])
    /\ cutting' = PushCuttingItem(made[c])
    /\ made' = [made EXCEPT ![c] = NoThread]
    /\ UNCHANGED <<lists, memory, fields, status, current, pc, item, jobs, serving, running>>

\* A client gives up the CPU, as in a polling loop.
Yield(t) == t \in Mains \cup Spare /\ AtPc(t, "run") /\ HalTaskSwitch("run")

\* A client asks the driver for a sector and blocks: with interrupts disabled
\* it queues its job and sets itself WAITING; it switches in its next step.  A
\* full queue refuses the job, and then nothing happens.
BlockSelf(t) ==
    /\ t \in (Mains \cup Spare) \ {Waker}
    /\ AtPc(t, "run")
    /\ jobs' = Append(jobs, t)
    /\ SetStatus(t, WAITING)
    /\ GoTo(t, "blocked")
    /\ UNCHANGED <<lists, memory, fields, current, cutting, made, item, serving, running>>

BlockedSwitches(t) == AtPc(t, "blocked") /\ HalTaskSwitch("run")

\* Mutated form: the job that is served stays in the queue.
JobsLeft_All == jobs

JobsLeft == Tail(jobs)

\* The driver's thread takes the oldest job, and is busy with it for a while.
PopJob ==
    /\ AtPc(Waker, "run")
    /\ jobs # << >>
    /\ serving' = Head(jobs)
    /\ jobs' = JobsLeft
    /\ GoTo(Waker, "serve")
    /\ UNCHANGED <<lists, memory, fields, status, current, cutting, made, item, running>>

\* Then it sets the thread of the job READY, without a look at its status.
WakeThread ==
    /\ AtPc(Waker, "serve")
    /\ SetStatus(serving, READY)
    /\ serving' = NoThread
    /\ GoTo(Waker, "run")
    /\ UNCHANGED <<lists, memory, fields, current, cutting, made, item, jobs, running>>

\* The start routine returns to PspTaskEntryPoint, or the user program ends
\* through the system call: TERMINATED, and a switch in the next step.
Return(t) ==
    /\ t \in Spare \cup ReturningMains
    /\ AtPc(t, "run")
    /\ t \in Mains => made[t] = NoThread
    /\ t \in Mains /\ HeadLeavesLast => threads[parent[t]] = <<t>>
    /\ SetStatus(t, TERMINATED)
    /\ GoTo(t, "over")
    /\ UNCHANGED <<lists, memory, fields, current, cutting, made, item, jobs, serving,
                   running>>

ReturnedSwitches(t) == AtPc(t, "over") /\ HalTaskSwitch("over")

----------------------------------------------------------------------------
(* Boot: PspCreateSystemProcess, then a process and a thread per driver.   *)

Init ==
    /\ procs = <<System>>
    /\ threads = [p \in Processes |-> IF p = System THEN SystemThreads ELSE << >>]
    /\ thread_count = [p \in Processes |-> IF p = System THEN Len(SystemThreads) ELSE 0]
    /\ allocated = SystemSet
    /\ stacks = SystemSet
    /\ parent = [t \in Threads |-> System]
    /\ status = [t \in Threads |->
                   IF t = "idle" THEN RUNNING
                   ELSE IF t \in {"process_cutter", "thread_cutter"} THEN READY
                   ELSE STOP]
    /\ auto_delete = [t \in Threads |-> FALSE]
    /\ tss = [t \in Threads |-> t \in SystemSet]
    /\ current = "idle"
    /\ cutting = << >>
    /\ pc = [t \in Threads |-> "run"]
    /\ made = [t \in Mains |-> NoThread]
    /\ item = NoThread
    /\ jobs = << >> /\ serving = NoThread
    /\ running = FALSE
    /\ lost = {}

\* A driver's initialisation: PsCreateProcess, PsCreateThread for its main,
\* PsSetThreadStatus.  Nothing is scheduled yet, so it is one step; memory
\* does not run out, the pool being 14 MB at least.
InitializeDriver(p) ==
    /\ ~running
    /\ Len(procs) <= Len(Drivers)
    /\ p = Drivers[Len(procs)]
    /\ procs' = Append(procs, p)
    /\ threads' = [threads EXCEPT ![p] = <<Main[p]>>]
    /\ thread_count' = [thread_count EXCEPT ![p] = 1]
    /\ allocated' = allocated \cup {Main[p]}
    /\ stacks' = stacks \cup {Main[p]}
    /\ UNCHANGED lost
    /\ parent' = [parent EXCEPT ![Main[p]] = p]
    /\ status' = [status EXCEPT ![Main[p]] = READY]
    /\ auto_delete' = [auto_delete EXCEPT ![Main[p]] = Main[p] \in ReturningMains]
    /\ tss' = [tss EXCEPT ![Main[p]] = TRUE]
    /\ UNCHANGED <<current, cutting, pc, made, item, jobs, serving, running>>

\* The iretd that ends mylysos_init enters the idle thread.
EnterIdleThread ==
    /\ ~running
    /\ Len(procs) = Len(Drivers) + 1
    /\ running' = TRUE
    /\ UNCHANGED <<lists, memory, fields, status, current, cutting, pc, made, item, jobs,
                   serving>>

Boot == EnterIdleThread \/ \E p \in DriverSet : InitializeDriver(p)

CutterStep == PopCuttingItem \/ CutterSwitches \/ DeleteThread

CreationStep(c) ==
    \/ \E t \in Spare, user, auto \in BOOLEAN : AllocateTCB(c, t, user, auto)
    \/ AllocateStack(c)
    \/ PspAddNewThread(c)
    \/ SetupTSS(c)

ClientStep ==
    \/ \E c \in Mains : CreationStep(c) \/ StartThread(c) \/ PsDeleteThread(c)
    \/ \E t \in Mains \cup Spare :
         \/ Yield(t) \/ BlockSelf(t) \/ BlockedSwitches(t)
         \/ Return(t) \/ ReturnedSwitches(t)
    \/ PopJob \/ WakeThread

Next ==
    \/ Boot
    \/ Psp_IRQ_SystemTimer
    \/ PspIdleThread
    \/ PspProcessCutterThread
    \/ CutterStep
    \/ ClientStep

(***************************************************************************)
(* The timer interrupts 50 times a second, so a tick always comes.  A time *)
(* slice is many instructions long, so the cutter thread, scheduled again  *)
(* and again, executes its next step: strong fairness.  Nothing is assumed *)
(* of what the clients do.                                                 *)
(***************************************************************************)
Fairness ==
    /\ WF_vars(Boot)
    /\ WF_vars(Psp_IRQ_SystemTimer)
    /\ SF_vars(CutterStep)

Spec == Init /\ [][Next]_vars
FairSpec == Spec /\ Fairness

----------------------------------------------------------------------------
(* Properties.                                                             *)

Statuses == {STOP, READY, RUNNING, WAITING, TERMINATED}
Pcs == {"run", "switch", "cut", "stack", "link", "tss", "start", "blocked", "serve", "over"}

\* Every variable has its type.
TypeOK ==
    /\ procs \in Seq(Processes)
    /\ threads \in [Processes -> Seq(Threads)]
    /\ thread_count \in [Processes -> Nat]
    /\ allocated \in SUBSET Threads /\ stacks \in SUBSET Threads /\ lost \in SUBSET Threads
    /\ parent \in [Threads -> Processes]
    /\ status \in [Threads -> Statuses]
    /\ auto_delete \in [Threads -> BOOLEAN] /\ tss \in [Threads -> BOOLEAN]
    /\ current \in Threads
    /\ cutting \in Seq(Threads) /\ Len(cutting) <= MAX_CUTTING_ITEM
    /\ pc \in [Threads -> Pcs]
    /\ made \in [Mains -> Threads \cup {NoThread}]
    /\ item \in Threads \cup {NoThread}
    /\ jobs \in Seq(Threads) /\ serving \in Threads \cup {NoThread}
    /\ running \in BOOLEAN

\* thread_count, on which the cutter decides between emptying the list and
\* unlinking from it, is the length of the list.
CountsMatch == \A p \in Processes : thread_count[p] = Len(threads[p])

\* The lists the scheduler walks hold no freed block and no block twice, and
\* each thread is in the list of its own parent.
NoDangling ==
    /\ Linked \subseteq allocated
    /\ \A s \in Places : parent[ThreadAt(s)] = procs[s[1]]
    /\ \A r, s \in Places : ThreadAt(r) = ThreadAt(s) => r = s

\* The CPU is never on a freed block, one whose task state is not filled yet,
\* or one whose stack was refused, and the current thread is in the lists:
\* the search that starts from it would not end otherwise.
DispatchSafe ==
    running =>
        /\ current \in Linked
        /\ status[current] # STOP
        /\ tss[current]

\* RUNNING marks the current thread and no other, at every moment between two
\* switches; the current thread may have set itself WAITING or TERMINATED.
OneRunning == \A t \in Threads : status[t] = RUNNING => t = current

\* A thread on its way to be freed, in the cutting list or in the cutter's
\* hand, is there once, is still allocated, has ended and has left the CPU:
\* it is freed once, and never under the thread that executes.
Doomed == {t \in Threads : IsIn(t, cutting) \/ item = t}

CuttingSafe ==
    /\ \A i, j \in 1 .. Len(cutting) : cutting[i] = cutting[j] => i = j
    /\ ~IsIn(item, cutting)
    /\ \A t \in Doomed : t \in Linked /\ status[t] = TERMINATED /\ t # current

\* Every control block that is allocated, of a kernel thread or of a user
\* program, is in the lists, or is one a thread is being made in, or is one of
\* those PsCreateThread left behind when it got no stack, and only one of the
\* three: no block leaves the lists unless it is freed.  No stack outlives its
\* block, and a block that is lost has none.
BeingMade == {t \in Threads : \E c \in Mains : made[c] = t /\ pc[c] \in {"stack", "link"}}
MemoryAccounted ==
    /\ allocated = Linked \cup BeingMade \cup lost
    /\ Linked \cap BeingMade = {}
    /\ lost \cap (Linked \cup BeingMade) = {}
    /\ stacks \subseteq allocated \ lost

\* A thread that has ended stays ended until its block is freed: the driver and
\* the maker write READY over any status, and never over this one, however late
\* their write comes.
EndIsFinal ==
    [][\A t \in Threads : status[t] = TERMINATED /\ t \in allocated \cap allocated'
          => status'[t] = TERMINATED]_vars

\* A READY thread in the lists gets the CPU.
NoStarvation ==
    \A t \in Threads : (running /\ t \in Linked /\ status[t] = READY) ~> (current = t)

\* What is in the cutting list is freed, and so is a thread that deletes itself
\* after its end, provided the list has room for all: a switch that meets a full
\* list forgets the thread.
EndedIsFreed ==
    \A t \in Threads :
        /\ IsIn(t, cutting) ~> t \notin allocated
        /\ Cardinality(Threads) - Len(SystemThreads) <= MAX_CUTTING_ITEM =>
               (status[t] = TERMINATED /\ auto_delete[t] ~> t \notin allocated)
=============================================================================
