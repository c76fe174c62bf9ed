------------------------ MODULE ProcessManagerProofs ------------------------
(***************************************************************************)
(* Theorems about ProcessManager, for any number of drivers and threads,   *)
(* any size of the cutting list and any memory.                            *)
(*                                                                         *)
(* Types and OneRunning hold whether the clients keep their discipline or  *)
(* not.  The lists, the cutting list and the memory stay right provided    *)
(* the first thread of a process returns only when it is alone in it:      *)
(* without that proviso they do not, see CountsMatch.  No property is      *)
(* inductive alone: the cutter may free a block because it unlinks it; it  *)
(* unlinks it because it is not at the head of others; and it is held by   *)
(* no maker, because a maker forgets what will delete itself.              *)
(*                                                                         *)
(* The last section is about the order of service: the threads that got    *)
(* the CPU while another waits READY are behind that one on the way round  *)
(* the lists, so none of them comes again first.                           *)
(***************************************************************************)
EXTENDS SchedulingOrder, SequenceTheorems, TLAPS

\* A main that is between the steps of a creation holds the block it makes, the
\* cutter at its critical section the handle it popped, and the waker at work
\* the thread of a job.
HandlesHeld ==
    /\ \A c \in Mains : pc[c] \in {"stack", "link", "tss", "start"} => made[c] \in Threads
    /\ pc["thread_cutter"] = "cut" => item \in Threads
    /\ pc[Waker] = "serve" => serving \in Threads

IInv == TypeOK /\ HandlesHeld

----------------------------------------------------------------------------
(* The constants.                                                          *)

LEMMA ThreadNames ==
    /\ SystemThreads \in Seq(Threads) /\ Len(SystemThreads) = 6
    /\ "idle" \in Threads /\ "thread_cutter" \in Threads /\ "process_cutter" \in Threads
    /\ "idle" \notin Mains \cup Spare /\ "thread_cutter" \notin Mains \cup Spare
    /\ "process_cutter" \notin Mains \cup Spare
    /\ SystemSet \subseteq Threads /\ Mains \subseteq Threads /\ Spare \subseteq Threads
    /\ \A p \in DriverSet : Main[p] \in Mains /\ p \in Processes
    /\ System \in Processes
<1>1. Len(SystemThreads) = 6
  BY DEF SystemThreads
<1> DEFINE Names == {"init", "tmr", "sw_task_sw", "idle", "process_cutter", "thread_cutter"}
<1>2. /\ SystemThreads[1] = "init" /\ SystemThreads[2] = "tmr"
      /\ SystemThreads[3] = "sw_task_sw" /\ SystemThreads[4] = "idle"
      /\ SystemThreads[5] = "process_cutter" /\ SystemThreads[6] = "thread_cutter"
  BY DEF SystemThreads
<1>3. Names \subseteq SystemSet
  BY <1>1, <1>2 DEF SystemSet
<1>4. SystemThreads \in Seq(SystemSet)
  <2>1. SystemThreads \in Seq(Names)
    BY DEF SystemThreads
  <2> QED BY <2>1, <1>3, SeqMonotonic
<1>5. SystemSet \subseteq Threads
  BY DEF Threads
<1>6. SystemThreads \in Seq(Threads)
  BY <1>4, <1>5, SeqMonotonic
<1> QED BY <1>1, <1>3, <1>5, <1>6, ConfigurationAssumption DEF Threads, Mains, Processes

LEMMA WakerIsMain == Waker \in Mains /\ Waker \in Threads /\ Waker \notin Spare
BY ConfigurationAssumption, ThreadNames

LEMMA DriverAt ==
    ASSUME NEW p \in DriverSet
    PROVE  p \in Processes /\ Main[p] \in Mains /\ Main[p] \in Threads
BY DEF Processes, Mains, Threads

----------------------------------------------------------------------------
(* The lists and the scheduler.                                            *)

LEMMA LinkedIsThread ==
    ASSUME TypeOK, NEW t \in Linked
    PROVE  t \in Threads
<1>1. PICK s \in Places : t = ThreadAt(s)
  BY DEF Linked
<1>2. PICK i \in 1 .. Len(procs) : s \in {i} \X (1 .. Len(threads[procs[i]]))
  BY <1>1 DEF Places
<1>3. s[1] = i /\ s[2] \in 1 .. Len(threads[procs[i]])
  BY <1>2
<1>4. procs[i] \in Processes
  BY <1>2, ElementOfSeq DEF TypeOK
<1>5. threads[procs[i]] \in Seq(Threads)
  BY <1>4 DEF TypeOK
<1> QED BY <1>1, <1>3, <1>5, ElementOfSeq DEF ThreadAt

LEMMA NextIsRunnable ==
    ASSUME NEW t \in PspFindNextThreadScheduled
    PROVE  t \in Linked /\ Runnable(t)
BY DEF PspFindNextThreadScheduled, RunnablePlaces, Linked

LEMMA PushedList ==
    ASSUME TypeOK, NEW t \in Threads
    PROVE  PushCuttingItem(t) \in Seq(Threads) /\ Len(PushCuttingItem(t)) <= MAX_CUTTING_ITEM
<1>1. CASE Len(cutting) < MAX_CUTTING_ITEM
  <2>1. Append(cutting, t) \in Seq(Threads) /\ Len(Append(cutting, t)) = Len(cutting) + 1
    BY AppendProperties DEF TypeOK
  <2>2. Len(cutting) \in Nat
    BY LenProperties DEF TypeOK
  <2> QED BY <1>1, <2>1, <2>2, ConfigurationAssumption DEF PushCuttingItem
<1>2. CASE ~(Len(cutting) < MAX_CUTTING_ITEM)
  BY <1>2 DEF PushCuttingItem, TypeOK
<1> QED BY <1>1, <1>2

LEMMA WithoutPlaceType ==
    ASSUME NEW s \in Seq(Threads), NEW k \in 1 .. Len(s)
    PROVE  WithoutPlace(s, k) \in Seq(Threads)
<1>1. PICK n : n = Len(s)
  OBVIOUS
<1>2. n \in Nat /\ k \in 1 .. n
  BY <1>1, LenProperties
<1>3. \A i \in 1 .. n : s[i] \in Threads
  BY <1>1, ElementOfSeq
<1>4. 1 \in Int /\ k - 1 \in Int /\ k + 1 \in Int /\ n \in Int
  BY <1>2
<1>5. \A i \in 1 .. k - 1 : s[i] \in Threads
  BY <1>2, <1>3
<1>6. \A i \in k + 1 .. n : s[i] \in Threads
  BY <1>2, <1>3
<1>7. SubSeq(s, 1, k - 1) \in Seq(Threads)
  BY <1>4, <1>5, SubSeqProperties, Zenon
<1>8. SubSeq(s, k + 1, n) \in Seq(Threads)
  BY <1>4, <1>6, SubSeqProperties, Zenon
<1>9. SubSeq(s, 1, k - 1) \o SubSeq(s, k + 1, n) \in Seq(Threads)
  BY <1>7, <1>8, ConcatProperties
<1> QED BY <1>1, <1>9 DEF WithoutPlace

LEMMA CutList ==
    ASSUME TypeOK, NEW p \in Processes, NEW t, thread_count[p] = 1 \/ IsIn(t, threads[p])
    PROVE  Cut(p, t) \in Seq(Threads)
<1>1. threads[p] \in Seq(Threads) /\ Len(threads[p]) \in Nat
  BY LenProperties DEF TypeOK
<1>2. CASE thread_count[p] = 1
  BY <1>2, EmptySeq DEF Cut
<1>3. CASE thread_count[p] # 1
  <2>1. PICK k \in 1 .. Len(threads[p]) :
          k = CHOOSE j \in 1 .. Len(threads[p]) : threads[p][j] = t
    BY <1>3 DEF IsIn
  <2>2. Cut(p, t) = WithoutPlace(threads[p], k)
    BY <1>3, <2>1 DEF Cut
  <2> QED BY <1>1, <2>1, <2>2, WithoutPlaceType
<1> QED BY <1>2, <1>3

\* A count that is incremented stays a count, whatever it counts.
LEMMA SuccessorIsNat == \A n \in Nat : n + 1 \in Nat
  OBVIOUS

LEMMA PredecessorIsNat == \A n \in Nat : n # 0 => n - 1 \in Nat
  OBVIOUS

----------------------------------------------------------------------------
(* The inductive invariant.                                                *)

LEMMA InitIInv == Init => IInv
<1> SUFFICES ASSUME Init PROVE IInv
  OBVIOUS
<1> USE ThreadNames
<1>1. procs \in Seq(Processes)
  BY DEF Init
<1>2. threads \in [Processes -> Seq(Threads)] /\ thread_count \in [Processes -> Nat]
  BY EmptySeq DEF Init
<1>3. status \in [Threads -> Statuses]
  <2>1. status = [t \in Threads |-> IF t = "idle" THEN RUNNING
                  ELSE IF t \in {"process_cutter", "thread_cutter"} THEN READY ELSE STOP]
    BY DEF Init
  <2> QED BY <2>1 DEF Statuses
<1>4. cutting \in Seq(Threads) /\ Len(cutting) <= MAX_CUTTING_ITEM
  BY EmptySeq, ConfigurationAssumption DEF Init
<1>5. pc \in [Threads -> Pcs] /\ made \in [Mains -> Threads \cup {NoThread}]
  BY DEF Init, Pcs
<1>6. HandlesHeld
  BY WakerIsMain DEF Init, HandlesHeld
<1>7. /\ allocated \in SUBSET Threads /\ stacks \in SUBSET Threads /\ lost \in SUBSET Threads
      /\ jobs \in Seq(Threads) /\ serving \in Threads \cup {NoThread}
  BY EmptySeq DEF Init
<1>8. parent \in [Threads -> Processes] /\ auto_delete \in [Threads -> BOOLEAN]
  BY DEF Init
<1>9. tss \in [Threads -> BOOLEAN]
  <2>1. \A t \in Threads : (t \in SystemSet) \in BOOLEAN
    OBVIOUS
  <2> QED BY <2>1, Zenon DEF Init
<1>10. current \in Threads /\ item \in Threads \cup {NoThread} /\ running \in BOOLEAN
  BY DEF Init
<1> QED BY <1>1, <1>2, <1>3, <1>4, <1>5, <1>6, <1>7, <1>8, <1>9, <1>10 DEF IInv, TypeOK

\* What a switch does, whoever asks for it.
LEMMA SwitchTypes ==
    ASSUME TypeOK, PspSetupTaskSWEnv
    PROVE  /\ current' \in Threads
           /\ status' \in [Threads -> Statuses]
           /\ cutting' \in Seq(Threads) /\ Len(cutting') <= MAX_CUTTING_ITEM
<1>1. PICK next \in PspFindNextThreadScheduled :
        /\ current' = next
        /\ status' = StatusAfterSwitch(next)
        /\ cutting' = IF DeletesItself THEN PushCuttingItem(current) ELSE cutting
  BY DEF PspSetupTaskSWEnv
<1>2. next \in Threads
  BY NextIsRunnable, LinkedIsThread
<1>3. status' \in [Threads -> Statuses]
  BY <1>1 DEF TypeOK, StatusAfterSwitch, Statuses
<1>4. cutting' \in Seq(Threads) /\ Len(cutting') <= MAX_CUTTING_ITEM
  <2>1. current \in Threads /\ cutting \in Seq(Threads) /\ Len(cutting) <= MAX_CUTTING_ITEM
    BY DEF TypeOK
  <2> QED BY <1>1, <2>1, PushedList
<1> QED BY <1>1, <1>2, <1>3, <1>4

LEMMA NextIInv == IInv /\ [Next]_vars => IInv'
<1> SUFFICES ASSUME TypeOK, HandlesHeld, [Next]_vars PROVE IInv'
  BY DEF IInv
<1> USE ThreadNames, WakerIsMain DEF TypeOK, HandlesHeld, IInv, lists, memory, fields
<1>1. CASE UNCHANGED vars
  BY <1>1 DEF vars
<1>2. CASE EnterIdleThread
  BY <1>2 DEF EnterIdleThread
<1>3. ASSUME NEW p \in DriverSet, InitializeDriver(p) PROVE IInv'
  <2>1. p \in Processes /\ Main[p] \in Mains /\ Main[p] \in Threads
    BY DriverAt
  <2>2. procs' \in Seq(Processes)
    BY <1>3, <2>1, AppendProperties DEF InitializeDriver
  <2>3. threads' \in [Processes -> Seq(Threads)]
    BY <1>3, <2>1 DEF InitializeDriver
  <2>4. status' \in [Threads -> Statuses]
    BY <1>3, <2>1 DEF InitializeDriver, Statuses
  <2>5. thread_count' \in [Processes -> Nat]
    BY <1>3, <2>1 DEF InitializeDriver
  <2>6. allocated' \in SUBSET Threads /\ stacks' \in SUBSET Threads /\ lost' = lost
    BY <1>3, <2>1 DEF InitializeDriver
  <2>7. /\ parent' \in [Threads -> Processes]
        /\ auto_delete' \in [Threads -> BOOLEAN]
        /\ tss' \in [Threads -> BOOLEAN]
    <3>1. parent' \in [Threads -> Processes] /\ tss' \in [Threads -> BOOLEAN]
      BY <1>3, <2>1 DEF InitializeDriver
    <3>2. \E b \in BOOLEAN : auto_delete' = [auto_delete EXCEPT ![Main[p]] = b]
      <4>1. (Main[p] \in ReturningMains) \in BOOLEAN
        OBVIOUS
      <4>2. auto_delete' = [auto_delete EXCEPT ![Main[p]] = Main[p] \in ReturningMains]
        BY <1>3 DEF InitializeDriver
      <4> QED BY <4>1, <4>2, Zenon
    <3>3. auto_delete' \in [Threads -> BOOLEAN]
      BY <3>2
    <3> QED BY <3>1, <3>3
  <2>8. UNCHANGED <<current, cutting, pc, made, item, jobs, serving, running>>
    BY <1>3 DEF InitializeDriver
  <2> QED BY <2>2, <2>3, <2>4, <2>5, <2>6, <2>7, <2>8
<1>4. CASE Psp_IRQ_SystemTimer
  BY <1>4, SwitchTypes DEF Psp_IRQ_SystemTimer
<1>5. ASSUME NEW w \in {"run", "over"}, HalTaskSwitch(w) PROVE IInv'
  <2>1. pc' = [pc EXCEPT ![current] = w] /\ w \in Pcs
    BY <1>5 DEF HalTaskSwitch, Pcs
  <2>2. pc' \in [Threads -> Pcs]
    BY <2>1
  <2>3. HandlesHeld'
    BY <1>5, <2>1 DEF HalTaskSwitch
  <2> QED BY <1>5, <2>2, <2>3, SwitchTypes DEF HalTaskSwitch
<1>6. CASE PopCuttingItem
  <2>1. CASE cutting # << >>
    <3>1. Head(cutting) \in Threads /\ Tail(cutting) \in Seq(Threads)
          /\ Len(Tail(cutting)) = Len(cutting) - 1 /\ Len(cutting) \in Nat
      BY <2>1, HeadTailProperties, LenProperties
    <3>2. Len(cutting)- 1 <= MAX_CUTTING_ITEM
      BY <3>1, ConfigurationAssumption
    <3>3. /\ item' = Head(cutting) /\ cutting' = Tail(cutting)
          /\ pc' = [pc EXCEPT !["thread_cutter"] = "cut"]
          /\ UNCHANGED <<lists, memory, fields, status, current, made, jobs, serving, running>>
      BY <1>6, <2>1 DEF PopCuttingItem, GoTo
    <3>4. pc' \in [Threads -> Pcs] /\ HandlesHeld'
      BY <3>1, <3>3 DEF Pcs
    <3> QED BY <3>1, <3>2, <3>3, <3>4
  <2>2. CASE cutting = << >>
    <3>1. /\ pc' = [pc EXCEPT !["thread_cutter"] = "switch"]
          /\ UNCHANGED <<lists, memory, fields, status, current, cutting, item, made, jobs, serving, running>>
      BY <1>6, <2>2 DEF PopCuttingItem, GoTo
    <3>2. pc' \in [Threads -> Pcs] /\ HandlesHeld'
      BY <3>1 DEF Pcs
    <3> QED BY <3>1, <3>2
  <2> QED BY <2>1, <2>2
<1>7. CASE DeleteThread
  <2>1. item \in Threads /\ parent[item] \in Processes
    BY <1>7 DEF DeleteThread, AtPc
  <2>4. /\ pc' \in [Threads -> Pcs] /\ HandlesHeld' /\ item' \in Threads \cup {NoThread}
        /\ UNCHANGED <<procs, fields, status, current, cutting, made, jobs, serving, running>>
    BY <1>7 DEF DeleteThread, GoTo, Pcs
  <2>2. CASE CanCut(item)
    <3>1. Cut(parent[item], item) \in Seq(Threads)
      BY <2>1, <2>2, CutList DEF CanCut
    <3>2. thread_count[parent[item]] - 1 \in Nat
      <4>1. PICK n \in Nat : n = thread_count[parent[item]]
        BY <2>1
      <4>2. n # 0
        BY <2>2, <4>1 DEF CanCut
      <4>3. n - 1 \in Nat
        BY <4>2, PredecessorIsNat, Zenon
      <4> QED BY <4>1, <4>3
    <3>3. /\ threads' = [threads EXCEPT ![parent[item]] = Cut(parent[item], item)]
          /\ thread_count' = [thread_count EXCEPT ![parent[item]] = @ - 1]
          /\ stacks' = stacks \ {item} /\ allocated' = allocated \ {item} /\ lost' = lost
      BY <1>7, <2>2 DEF DeleteThread, StacksWithout, BlocksWithout
    <3>4. /\ threads' \in [Processes -> Seq(Threads)] /\ thread_count' \in [Processes -> Nat]
          /\ allocated' \in SUBSET Threads /\ stacks' \in SUBSET Threads
          /\ lost' \in SUBSET Threads
      BY <2>1, <3>1, <3>2, <3>3
    <3> QED BY <2>4, <3>4
  <2>3. CASE ~CanCut(item)
    BY <1>7, <2>3, <2>4 DEF DeleteThread
  <2> QED BY <2>2, <2>3
<1>8. ASSUME NEW c \in Mains, NEW t \in Spare, NEW user \in BOOLEAN, NEW auto \in BOOLEAN,
             AllocateTCB(c, t, user, auto)
      PROVE  IInv'
  <2>1. c \in Threads /\ t \in Threads /\ t \notin Mains
    BY ConfigurationAssumption
  <2>2. parent' \in [Threads -> Processes] /\ allocated' \in SUBSET Threads
    BY <1>8, <2>1 DEF AllocateTCB
  <2>3. status' \in [Threads -> Statuses]
    BY <1>8, <2>1 DEF AllocateTCB, Statuses, StatusOfNew
  <2>4. auto_delete' \in [Threads -> BOOLEAN] /\ tss' \in [Threads -> BOOLEAN]
    BY <1>8, <2>1 DEF AllocateTCB
  <2>5. made' \in [Mains -> Threads \cup {NoThread}] /\ made' = [made EXCEPT ![c] = t]
    BY <1>8, <2>1 DEF AllocateTCB
  <2>6. \E w \in {"link", "stack"} : pc' = [pc EXCEPT ![c] = w, ![t] = "run"]
    BY <1>8 DEF AllocateTCB
  <2>7. pc' \in [Threads -> Pcs]
    BY <2>6 DEF Pcs
  <2>8. UNCHANGED <<lists, stacks, lost, current, cutting, item, jobs, serving, running>>
    BY <1>8 DEF AllocateTCB
  <2>9. HandlesHeld'
    <3>1. PICK w \in {"link", "stack"} : pc' = [pc EXCEPT ![c] = w, ![t] = "run"]
      BY <2>6
    <3>2. \A d \in Mains : d # c => pc'[d] = pc[d] /\ made'[d] = made[d]
      BY <2>1, <2>5, <3>1
    <3>3. made'[c] = t /\ pc'["thread_cutter"] = pc["thread_cutter"]
      BY <2>1, <2>5, <3>1
    <3>4. item' = item /\ serving' = serving
      BY <2>8
    <3>5. pc'[Waker] = "serve" => pc[Waker] = "serve"
      BY <2>1, <3>1
    <3> HIDE DEF TypeOK, lists
    <3> QED
      BY <2>1, <3>2, <3>3, <3>4, <3>5
  <2> QED BY <2>2, <2>3, <2>4, <2>5, <2>7, <2>8, <2>9
<1>9. ASSUME NEW c \in Mains, AllocateStack(c) PROVE IInv'
  <2>1. made[c] \in Threads /\ UNCHANGED <<lists, allocated, fields, status, current, cutting, item, jobs, serving, running>>
    BY <1>9 DEF AllocateStack, AtPc
  <2>2. CASE Cardinality(stacks) < StackLimit /\ stacks' = stacks \cup {made[c]}
             /\ GoTo(c, "link") /\ UNCHANGED <<made, lost>>
    <3>1. pc' \in [Threads -> Pcs] /\ stacks' \in SUBSET Threads
      BY <2>1, <2>2 DEF GoTo, Pcs
    <3>2. HandlesHeld'
      BY <2>1, <2>2 DEF GoTo
    <3> QED BY <2>1, <2>2, <3>1, <3>2
  <2>3. CASE /\ made' = [made EXCEPT ![c] = NoThread] /\ lost' = lost \cup {made[c]}
             /\ GoTo(c, "run") /\ UNCHANGED stacks
    <3>1. /\ pc' \in [Threads -> Pcs] /\ made' \in [Mains -> Threads \cup {NoThread}]
          /\ lost' \in SUBSET Threads
      BY <2>1, <2>3 DEF GoTo, Pcs
    <3>2. HandlesHeld'
      BY <2>1, <2>3 DEF GoTo
    <3> QED BY <2>1, <2>3, <3>1, <3>2
  <2> QED BY <1>9, <2>2, <2>3 DEF AllocateStack
<1>10. ASSUME NEW c \in Mains, PspAddNewThread(c) PROVE IInv'
  <2>1. made[c] \in Threads /\ parent[made[c]] \in Processes
    BY <1>10 DEF PspAddNewThread, AtPc
  <2>2. Append(threads[parent[made[c]]], made[c]) \in Seq(Threads)
    BY <2>1, AppendProperties
  <2>3. /\ threads' \in [Processes -> Seq(Threads)]
        /\ thread_count' \in [Processes -> Nat]
        /\ pc' \in [Threads -> Pcs]
    <3>1. threads' \in [Processes -> Seq(Threads)]
      BY <1>10, <2>1, <2>2 DEF PspAddNewThread
    <3>2. thread_count' \in [Processes -> Nat]
      <4>0. thread_count[parent[made[c]]] \in Nat
        BY <2>1
      <4>1. thread_count[parent[made[c]]] + 1 \in Nat
        BY <4>0, SuccessorIsNat, Zenon
      <4>2. thread_count' = [thread_count EXCEPT ![parent[made[c]]] = @ + 1]
        BY <1>10 DEF PspAddNewThread
      <4> QED BY <2>1, <4>1, <4>2
    <3>3. pc' \in [Threads -> Pcs]
      BY <1>10 DEF PspAddNewThread, GoTo, Pcs
    <3> QED BY <3>1, <3>2, <3>3
  <2>4. HandlesHeld'
    BY <1>10, <2>1 DEF PspAddNewThread, GoTo
  <2> QED BY <1>10, <2>3, <2>4 DEF PspAddNewThread
<1>11. ASSUME NEW c \in Mains, SetupTSS(c) PROVE IInv'
  <2>1. tss' \in [Threads -> BOOLEAN] /\ pc' \in [Threads -> Pcs]
    BY <1>11 DEF SetupTSS, GoTo, Pcs
  <2>2. HandlesHeld'
    <3>1. made[c] \in Threads
      BY <1>11 DEF SetupTSS, AtPc
    <3> QED BY <1>11, <3>1 DEF SetupTSS, GoTo
  <2> QED BY <1>11, <2>1, <2>2 DEF SetupTSS
<1>12. ASSUME NEW c \in Mains, StartThread(c) PROVE IInv'
  <2>1. status' \in [Threads -> Statuses] /\ made' \in [Mains -> Threads \cup {NoThread}]
    BY <1>12 DEF StartThread, SetStatus, Statuses
  <2>2. HandlesHeld' /\ pc' \in [Threads -> Pcs]
    BY <1>12 DEF StartThread, AtPc, GoTo, Pcs
  <2> QED BY <1>12, <2>1, <2>2 DEF StartThread
<1>13. ASSUME NEW c \in Mains, PsDeleteThread(c) PROVE IInv'
  <2>1. made[c] \in Threads
    BY <1>13 DEF PsDeleteThread
  <2>2. cutting' \in Seq(Threads) /\ Len(cutting') <= MAX_CUTTING_ITEM
    BY <1>13, <2>1, PushedList DEF PsDeleteThread
  <2>3. made' \in [Mains -> Threads \cup {NoThread}] /\ HandlesHeld'
    BY <1>13 DEF PsDeleteThread, AtPc
  <2> QED BY <1>13, <2>2, <2>3 DEF PsDeleteThread
<1>14. ASSUME NEW t \in Mains \cup Spare, BlockSelf(t) PROVE IInv'
  <2>1. status' \in [Threads -> Statuses] /\ pc' \in [Threads -> Pcs]
    BY <1>14 DEF BlockSelf, SetStatus, GoTo, Pcs, Statuses
  <2>2. HandlesHeld'
    BY <1>14 DEF BlockSelf, GoTo
  <2>3. jobs' \in Seq(Threads)
    BY <1>14, AppendProperties DEF BlockSelf
  <2> QED BY <1>14, <2>1, <2>2, <2>3 DEF BlockSelf
<1>15. ASSUME NEW t \in Mains \cup Spare, Return(t) PROVE IInv'
  <2>1. status' \in [Threads -> Statuses] /\ pc' \in [Threads -> Pcs]
    BY <1>15 DEF Return, SetStatus, GoTo, Pcs, Statuses
  <2>2. HandlesHeld'
    BY <1>15 DEF Return, GoTo
  <2> QED BY <1>15, <2>1, <2>2 DEF Return
<1>16. CASE PopJob
  <2>1. serving' \in Threads /\ jobs' \in Seq(Threads)
    <3>1. Head(jobs) \in Threads /\ Tail(jobs) \in Seq(Threads)
      BY <1>16, HeadTailProperties DEF PopJob
    <3> QED BY <1>16, <3>1 DEF PopJob, JobsLeft
  <2>2. pc' \in [Threads -> Pcs] /\ HandlesHeld'
    BY <1>16, <2>1 DEF PopJob, GoTo, Pcs
  <2> QED BY <1>16, <2>1, <2>2 DEF PopJob
<1>20. CASE WakeThread
  <2>1. status' \in [Threads -> Statuses] /\ serving' \in Threads \cup {NoThread}
    BY <1>20 DEF WakeThread, SetStatus, Statuses
  <2>2. pc' \in [Threads -> Pcs] /\ HandlesHeld'
    BY <1>20 DEF WakeThread, GoTo, Pcs
  <2> QED BY <1>20, <2>1, <2>2 DEF WakeThread
<1> HIDE ThreadNames, WakerIsMain DEF TypeOK, HandlesHeld, IInv, lists, memory, fields
<1>17. CASE ClientStep
  <2>1. ASSUME NEW c \in Mains, CreationStep(c) PROVE IInv'
    <3>1. ASSUME NEW t \in Spare, \E user, auto \in BOOLEAN : AllocateTCB(c, t, user, auto)
          PROVE  IInv'
      <4>1. PICK user \in BOOLEAN, auto \in BOOLEAN : AllocateTCB(c, t, user, auto)
        BY <3>1
      <4> QED BY <4>1, <1>8
    <3> QED BY <2>1, <3>1, <1>9, <1>10, <1>11, Zenon DEF CreationStep
  <2>2. ASSUME HalTaskSwitch("run") \/ HalTaskSwitch("over") PROVE IInv'
    BY <2>2, <1>5
  <2>3. ASSUME NEW t \in Mains \cup Spare, Yield(t) \/ BlockedSwitches(t) \/ ReturnedSwitches(t)
        PROVE  IInv'
    BY <2>2, <2>3, Zenon DEF Yield, BlockedSwitches, ReturnedSwitches
  <2> QED BY <1>17, <1>12, <1>13, <1>14, <1>15, <1>16, <1>20, <2>1, <2>3, Zenon DEF ClientStep
<1>18. CASE PspIdleThread \/ PspProcessCutterThread \/ CutterStep
  BY <1>18, <1>5, <1>6, <1>7, Zenon
  DEF PspIdleThread, PspProcessCutterThread, CutterStep, CutterSwitches
<1>19. CASE Boot
  BY <1>19, <1>2, <1>3, Zenon DEF Boot
<1> QED BY <1>1, <1>4, <1>17, <1>18, <1>19, Zenon DEF Next

\* Every variable of the process manager keeps its type; in particular a
\* creation and the cutter never work on a handle they do not hold.
THEOREM TypeCorrect == Spec => []TypeOK
<1>1. Spec => []IInv
  BY InitIInv, NextIInv, PTL DEF Spec
<1>2. IInv => TypeOK
  BY DEF IInv
<1> QED BY <1>1, <1>2, PTL

----------------------------------------------------------------------------
(* RUNNING marks the current thread.                                       *)

LEMMA InitOneRunning == Init => OneRunning
BY ThreadNames DEF Init, OneRunning, STOP, READY, RUNNING

\* The switch takes the mark from the thread that loses the CPU.
LEMMA SwitchOneRunning ==
    ASSUME TypeOK, OneRunning, PspSetupTaskSWEnv
    PROVE  OneRunning'
<1>1. PICK next \in PspFindNextThreadScheduled :
        current' = next /\ status' = StatusAfterSwitch(next)
  BY DEF PspSetupTaskSWEnv
<1>2. ASSUME NEW t \in Threads, status'[t] = RUNNING PROVE t = next
  <2>1. status'[t] = IF t = next /\ next # current THEN RUNNING
                     ELSE IF t = current /\ status[t] = RUNNING THEN READY ELSE status[t]
    BY <1>1 DEF StatusAfterSwitch
  <2>2. CASE t # next
    <3>1. status[t] = RUNNING /\ t # current
      BY <1>2, <2>1, <2>2 DEF READY, RUNNING
    <3> QED BY <3>1 DEF OneRunning
  <2> QED BY <2>2
<1> QED BY <1>1, <1>2 DEF OneRunning

LEMMA NextOneRunning == TypeOK /\ OneRunning /\ [Next]_vars => OneRunning'
<1> SUFFICES ASSUME TypeOK, OneRunning, [Next]_vars PROVE OneRunning'
  OBVIOUS
<1> USE ThreadNames
<1>1. CASE UNCHANGED vars
  BY <1>1 DEF vars, OneRunning
<1>2. CASE PspSetupTaskSWEnv
  BY <1>2, SwitchOneRunning
\* Outside the switch no step moves the CPU, and none marks a thread RUNNING.
<1>3. ASSUME UNCHANGED current,
             \/ UNCHANGED status
             \/ \E t, s : s # RUNNING /\ status' = [status EXCEPT ![t] = s]
      PROVE  OneRunning'
  <2>1. \A u \in Threads : status'[u] = RUNNING => status[u] = RUNNING
    BY <1>3 DEF TypeOK
  <2> QED BY <1>3, <2>1 DEF OneRunning
<1>4. ASSUME NEW c \in Mains, CreationStep(c) PROVE OneRunning'
  <2>1. ASSUME NEW t \in Spare, NEW user \in BOOLEAN, NEW auto \in BOOLEAN,
               AllocateTCB(c, t, user, auto)
        PROVE  OneRunning'
    BY <2>1, <1>3 DEF AllocateTCB, StatusOfNew, STOP, RUNNING
  <2>2. CASE AllocateStack(c) \/ PspAddNewThread(c) \/ SetupTSS(c)
    BY <2>2, <1>3 DEF AllocateStack, PspAddNewThread, SetupTSS
  <2>3. ASSUME NEW t \in Spare, \E user, auto \in BOOLEAN : AllocateTCB(c, t, user, auto)
        PROVE  OneRunning'
    BY <2>1, <2>3
  <2> QED BY <1>4, <2>2, <2>3, Zenon DEF CreationStep
<1>5. ASSUME NEW c \in Mains, StartThread(c) \/ PsDeleteThread(c) PROVE OneRunning'
  BY <1>5, <1>3 DEF StartThread, PsDeleteThread, SetStatus, READY, RUNNING
<1>6. ASSUME NEW t \in Threads, BlockSelf(t) \/ Return(t) PROVE OneRunning'
  BY <1>6, <1>3 DEF BlockSelf, Return, SetStatus, RUNNING, WAITING, TERMINATED
<1>11. CASE PopJob \/ WakeThread
  BY <1>11, <1>3 DEF PopJob, WakeThread, SetStatus, READY, RUNNING
<1>7. CASE CutterStep
  BY <1>7, <1>2, <1>3 DEF CutterStep, PopCuttingItem, CutterSwitches, DeleteThread, HalTaskSwitch
<1>8. CASE Boot
  BY <1>8, <1>3 DEF Boot, EnterIdleThread, InitializeDriver, READY, RUNNING
<1>9. CASE Psp_IRQ_SystemTimer \/ PspIdleThread \/ PspProcessCutterThread
  BY <1>9, <1>2 DEF Psp_IRQ_SystemTimer, PspIdleThread, PspProcessCutterThread, HalTaskSwitch
<1>10. CASE ClientStep
  <2>1. ASSUME NEW t \in Mains \cup Spare, Yield(t) \/ BlockedSwitches(t) \/ ReturnedSwitches(t)
        PROVE  OneRunning'
    BY <2>1, <1>2 DEF Yield, BlockedSwitches, ReturnedSwitches, HalTaskSwitch
  <2>2. \A t \in Mains \cup Spare : t \in Threads
    OBVIOUS
  <2> QED BY <1>10, <1>4, <1>5, <1>6, <1>11, <2>1, <2>2, Zenon DEF ClientStep
<1> QED BY <1>1, <1>7, <1>8, <1>9, <1>10, Zenon DEF Next

\* RUNNING marks the current thread and no other, whatever is created, blocked,
\* woken, ended or deleted, and wherever the timer comes.
THEOREM OneRunningCorrect == Spec => []OneRunning
BY InitOneRunning, NextOneRunning, TypeCorrect, PTL DEF Spec

----------------------------------------------------------------------------
(***************************************************************************)
(* The invariant of the process manager from which its safety follows: its *)
(* parts, that they hold at the start, and what they say together.         *)
(***************************************************************************)

\* A thread is in the list of its own parent.
InList(t) == IsIn(t, threads[parent[t]])
Created(p) == \E i \in 1 .. Len(procs) : procs[i] = p
IsDoomed(t) == item = t \/ IsIn(t, cutting)
Creating == {"stack", "link", "tss"}

\* The boot code creates the processes in order, one thread in each; until it
\* ends no thread has done anything.
Booted ==
    /\ Len(procs) \in 1 .. Len(Drivers) + 1
    /\ \A i \in 1 .. Len(procs) : procs[i] = IF i = 1 THEN System ELSE Drivers[i - 1]
    /\ running => Len(procs) = Len(Drivers) + 1
    /\ ~running => /\ cutting = << >> /\ item = NoThread
                   /\ \A c \in Mains : made[c] = NoThread /\ pc[c] = "run"
                   /\ \A p \in DriverSet : Len(threads[p]) <= 1

Lists ==
    /\ CountsMatch
    /\ threads[System] = SystemThreads
    /\ \A p \in Processes : threads[p] # << >> => Created(p)
    /\ \A p \in Processes, t \in Threads :
         IsIn(t, threads[p]) => t \in allocated /\ parent[t] = p
    /\ \A p \in Processes : \A j, k \in 1 .. Len(threads[p]) :
         threads[p][j] = threads[p][k] => j = k

\* The main of a process is its first thread, and its last.
Heads ==
    \A p \in DriverSet :
        /\ Created(p) => parent[Main[p]] = p
        /\ threads[p] # << >> => /\ threads[p][1] = Main[p]
                                 /\ status[Main[p]] = TERMINATED => Len(threads[p]) = 1

\* A handle that is held names a block of its holder alone, that nobody is to
\* free; in its creation the block is STOP, linked in its last step.
Holders ==
    \A c \in Mains : made[c] # NoThread =>
        /\ made[c] \in Spare /\ made[c] \in allocated /\ ~IsDoomed(made[c])
        /\ parent[made[c]] = parent[c]
        /\ auto_delete[made[c]] => status[made[c]] = STOP
        /\ \A d \in Mains : made[d] = made[c] => d = c
        /\ pc[c] \in {"stack", "link"} => ~InList(made[c]) /\ status[made[c]] = STOP
        /\ pc[c] = "tss" => InList(made[c]) /\ status[made[c]] = STOP
        /\ pc[c] \notin Creating => InList(made[c]) /\ tss[made[c]]
        /\ pc[c] = "stack" => made[c] \notin stacks

Tasks ==
    /\ \A t \in Threads : InList(t) /\ status[t] # STOP => tss[t]
    /\ \A t \in Mains \cup Spare : status[t] = TERMINATED => pc[t] = "over"
    /\ \A t \in SystemSet : status[t] # TERMINATED
    /\ InList(current) /\ status[current] # STOP

Ended ==
    /\ \A i, j \in 1 .. Len(cutting) : cutting[i] = cutting[j] => i = j
    /\ ~IsIn(item, cutting)
    /\ \A t \in Threads : IsDoomed(t) => InList(t) /\ status[t] = TERMINATED /\ t # current

Stacks ==
    /\ stacks \subseteq allocated
    /\ \A t \in stacks : InList(t) \/ t \in BeingMade

Safe == Booted /\ Lists /\ Heads /\ Holders /\ Tasks /\ Ended /\ Stacks
SInv == IInv /\ Safe

\* The driver serves threads that wait, each for one job: they have not ended,
\* so the READY it writes without looking revives none.  A thread that has set
\* itself WAITING is on its way to the switch.  What a maker starts is STOP.
Asked(t) == serving = t \/ IsIn(t, jobs)
Requests ==
    /\ \A i, j \in 1 .. Len(jobs) : jobs[i] = jobs[j] => i = j
    /\ ~IsIn(serving, jobs)
    /\ \A t \in Threads : Asked(t) => InList(t) /\ status[t] = WAITING
    /\ status[current] = WAITING => pc[current] = "blocked"
    /\ \A c \in Mains : pc[c] = "start" => status[made[c]] = STOP
    /\ ~running => jobs = << >> /\ serving = NoThread

\* Where the blocks are, and what is lost.
Accounted ==
    /\ \A t \in allocated : InList(t) \/ t \in BeingMade \/ t \in lost
    /\ \A t \in lost : /\ t \in Spare /\ t \in allocated /\ t \notin stacks
                       /\ ~InList(t) /\ \A c \in Mains : made[c] # t

RInv == SInv /\ Requests /\ Accounted

----------------------------------------------------------------------------
(* Sequences.                                                              *)

LEMMA AppendedIsIn ==
    ASSUME NEW S, NEW s \in Seq(S), NEW x \in S
    PROVE  /\ \A y : IsIn(y, Append(s, x)) <=> IsIn(y, s) \/ y = x
           /\ Len(Append(s, x)) = Len(s) + 1
           /\ ~IsIn(x, s) /\ (\A i, j \in 1 .. Len(s) : s[i] = s[j] => i = j)
                => \A i, j \in 1 .. Len(Append(s, x)) :
                     Append(s, x)[i] = Append(s, x)[j] => i = j
           /\ s # << >> => Append(s, x)[1] = s[1]
<1> DEFINE a == Append(s, x)
<1>1. /\ Len(s) \in Nat /\ Len(a) = Len(s) + 1 /\ a[Len(s) + 1] = x
      /\ \A i \in 1 .. Len(s) : a[i] = s[i]
      /\ s # << >> => 1 \in 1 .. Len(s)
  OBVIOUS
<1> HIDE DEF a
<1>2. \A y : IsIn(y, a) <=> IsIn(y, s) \/ y = x
  BY <1>1 DEF IsIn
<1>3. ~IsIn(x, s) /\ (\A i, j \in 1 .. Len(s) : s[i] = s[j] => i = j)
        => \A i, j \in 1 .. Len(a) : a[i] = a[j] => i = j
  BY <1>1 DEF IsIn
<1> QED
  BY <1>1, <1>2, <1>3 DEF a

LEMMA WithoutPlaceAt ==
    ASSUME NEW S, NEW s \in Seq(S), NEW k \in 2 .. Len(s)
    PROVE  /\ Len(WithoutPlace(s, k)) = Len(s) - 1
           /\ \A i \in 1 .. Len(s) - 1 :
                WithoutPlace(s, k)[i] = IF i < k THEN s[i] ELSE s[i + 1]
<1> DEFINE a == SubSeq(s, 1, k - 1)
           b == SubSeq(s, k + 1, Len(s))
<1>1. Len(s) \in Nat /\ k \in Nat /\ k >= 2 /\ k <= Len(s)
  OBVIOUS
<1>2. a \in Seq(S) /\ Len(a) = k - 1 /\ \A i \in 1 .. k - 1 : a[i] = s[i]
  BY <1>1
<1>3. b \in Seq(S) /\ Len(b) = Len(s) - k /\ \A i \in 1 .. Len(s) - k : b[i] = s[i + k]
  BY <1>1
<1>4. WithoutPlace(s, k) = a \o b
  BY <1>1 DEF WithoutPlace
<1> HIDE DEF a, b
<1>5. /\ Len(a \o b) = (k - 1) + (Len(s) - k)
      /\ \A i \in 1 .. (k - 1) + (Len(s) - k) :
           (a \o b)[i] = IF i <= k - 1 THEN a[i] ELSE b[i - (k - 1)]
  <2>1. /\ Len(a \o b) = Len(a) + Len(b)
        /\ \A i \in 1 .. Len(a) + Len(b) :
             (a \o b)[i] = IF i <= Len(a) THEN a[i] ELSE b[i - Len(a)]
    BY <1>2, <1>3, ConcatProperties, Zenon
  <2> QED
    BY <1>2, <1>3, <2>1, Zenon
<1>6. ASSUME NEW i \in 1 .. Len(s) - 1
      PROVE  (a \o b)[i] = IF i < k THEN s[i] ELSE s[i + 1]
  <2>1. ASSUME i < k PROVE (a \o b)[i] = s[i]
    BY <1>1, <1>2, <1>5, <2>1
  <2>2. ASSUME i >= k PROVE (a \o b)[i] = s[i + 1] /\ ~(i < k)
    <3>1. (a \o b)[i] = b[i - (k - 1)] /\ i - (k - 1) \in 1 .. Len(s) - k
      BY <1>1, <1>5, <2>2
    <3>2. (i - (k - 1)) + k = i + 1
      BY <1>1
    <3> QED
      BY <1>1, <1>3, <2>2, <3>1, <3>2
  <2>3. i < k \/ i >= k
    BY <1>1
  <2> QED
    BY <2>1, <2>2, <2>3, Zenon
<1> QED
  BY <1>1, <1>4, <1>5, <1>6

LEMMA WithoutPlaceIsIn ==
    ASSUME NEW S, NEW s \in Seq(S), NEW k \in 2 .. Len(s),
           \A i, j \in 1 .. Len(s) : s[i] = s[j] => i = j
    PROVE  LET w == WithoutPlace(s, k) IN
           /\ \A y : IsIn(y, w) <=> IsIn(y, s) /\ y # s[k]
           /\ \A i, j \in 1 .. Len(w) : w[i] = w[j] => i = j
           /\ w[1] = s[1]
<1> DEFINE w == WithoutPlace(s, k)
<1>1. Len(w) = Len(s) - 1 /\ \A i \in 1 .. Len(s) - 1 : w[i] = IF i < k THEN s[i] ELSE s[i + 1]
  BY WithoutPlaceAt
<1>2. Len(s) \in Nat /\ k \in Nat /\ k >= 2 /\ k <= Len(s)
  OBVIOUS
<1> HIDE DEF w
<1>3. ASSUME NEW y, IsIn(y, w) PROVE IsIn(y, s) /\ y # s[k]
  BY <1>1, <1>2, <1>3 DEF IsIn
<1>4. ASSUME NEW y, IsIn(y, s), y # s[k] PROVE IsIn(y, w)
  <2>1. PICK i \in 1 .. Len(s) : s[i] = y
    BY <1>4 DEF IsIn
  <2>2. CASE i < k
    <3>1. i \in 1 .. Len(w) /\ w[i] = y
      BY <1>1, <1>2, <2>1, <2>2
    <3> QED
      BY <3>1 DEF IsIn
  <2>3. CASE i > k
    <3>1. i - 1 \in 1 .. Len(w) /\ (i - 1) + 1 = i /\ ~(i - 1 < k)
      BY <1>1, <1>2, <2>1, <2>3
    <3>2. w[i - 1] = y
      BY <1>1, <2>1, <3>1
    <3> QED
      BY <3>1, <3>2 DEF IsIn
  <2> QED
    BY <1>2, <1>4, <2>1, <2>2, <2>3
<1>5. \A i, j \in 1 .. Len(w) : w[i] = w[j] => i = j
  BY <1>1, <1>2
<1>6. w[1] = s[1]
  BY <1>1, <1>2
<1> QED
  BY <1>3, <1>4, <1>5, <1>6 DEF w
----------------------------------------------------------------------------
(* Facts about a state of the invariant.                                   *)

LEMMA SystemThreadsAre ==
    /\ \A t : IsIn(t, SystemThreads) <=> t \in SystemSet
    /\ \A j, k \in 1 .. Len(SystemThreads) : SystemThreads[j] = SystemThreads[k] => j = k
    /\ Len(SystemThreads) = 6
    /\ "idle" \in SystemSet /\ "process_cutter" \in SystemSet /\ "thread_cutter" \in SystemSet
<1>1. Len(SystemThreads) = 6
  BY DEF SystemThreads
<1>2. /\ SystemThreads[1] = "init" /\ SystemThreads[2] = "tmr"
      /\ SystemThreads[3] = "sw_task_sw" /\ SystemThreads[4] = "idle"
      /\ SystemThreads[5] = "process_cutter" /\ SystemThreads[6] = "thread_cutter"
  BY DEF SystemThreads
<1>3. \A j, k \in 1 .. Len(SystemThreads) : SystemThreads[j] = SystemThreads[k] => j = k
  BY <1>1, <1>2
<1>4. \A t : IsIn(t, SystemThreads) <=> t \in SystemSet
  BY DEF IsIn, SystemSet
<1> QED
  BY <1>1, <1>2, <1>3, <1>4 DEF IsIn

LEMMA ListElements ==
    ASSUME TypeOK, NEW p \in Processes, NEW t, IsIn(t, threads[p])
    PROVE  t \in Threads
<1>1. threads[p] \in Seq(Threads)
  BY DEF TypeOK
<1> QED
  BY <1>1, ElementOfSeq DEF IsIn

\* The lists the scheduler walks are the lists of all processes.
LEMMA LinkedIsInList ==
    ASSUME TypeOK, Lists, NEW t
    PROVE  t \in Linked <=> t \in Threads /\ InList(t)
<1>1. ASSUME t \in Linked PROVE t \in Threads /\ InList(t)
  <2>1. PICK s \in Places : t = ThreadAt(s)
    BY <1>1 DEF Linked
  <2>2. PICK i \in 1 .. Len(procs) : s \in {i} \X (1 .. Len(threads[procs[i]]))
    BY <2>1 DEF Places
  <2>3. s[1] = i /\ s[2] \in 1 .. Len(threads[procs[i]])
    BY <2>2
  <2>4. procs[i] \in Processes
    BY <2>2, ElementOfSeq DEF TypeOK
  <2>5. IsIn(t, threads[procs[i]])
    BY <2>1, <2>3 DEF ThreadAt, IsIn
  <2>6. t \in Threads
    BY <2>4, <2>5, ListElements
  <2>7. parent[t] = procs[i]
    BY <2>4, <2>5, <2>6 DEF Lists
  <2> QED
    BY <2>5, <2>6, <2>7 DEF InList
<1>2. ASSUME t \in Threads, InList(t) PROVE t \in Linked
  <2>1. parent[t] \in Processes
    BY <1>2 DEF TypeOK
  <2>2. PICK k \in 1 .. Len(threads[parent[t]]) : threads[parent[t]][k] = t
    BY <1>2 DEF InList, IsIn
  <2>3. threads[parent[t]] # << >>
    BY <2>2
  <2>4. PICK i \in 1 .. Len(procs) : procs[i] = parent[t]
    BY <2>1, <2>3 DEF Lists, Created
  <2>5. <<i, k>> \in Places
    BY <2>2, <2>4 DEF Places
  <2> QED
    BY <2>2, <2>4, <2>5 DEF Linked, ThreadAt
<1> QED
  BY <1>1, <1>2

\* A list keeps its members when neither it nor the parents change.
LEMMA SameInList ==
    ASSUME UNCHANGED <<threads, parent>>
    PROVE  \A t : InList(t)' <=> InList(t)
  BY DEF InList, IsIn

LEMMA ListedIsAllocated ==
    ASSUME TypeOK, Lists, NEW t \in Threads, InList(t)
    PROVE  t \in allocated
<1>1. parent[t] \in Processes
  BY DEF TypeOK
<1> QED
  BY <1>1 DEF Lists, InList

\* Once the system runs every process has been created, and a main belongs to
\* the process it was made for.
LEMMA AllCreated ==
    ASSUME Booted, running, NEW p \in Processes
    PROVE  Created(p)
<1>1. Len(procs) = Len(Drivers) + 1 /\ Len(Drivers) \in Nat
  BY ConfigurationAssumption DEF Booted
<1>2. CASE p = System
  <2>1. 1 \in 1 .. Len(procs)
    BY <1>1
  <2> QED
    BY <1>2, <2>1 DEF Booted, Created
<1>3. CASE p \in DriverSet
  <2>1. PICK i \in 1 .. Len(Drivers) : p = Drivers[i]
    BY <1>3 DEF DriverSet
  <2>2. i + 1 \in 1 .. Len(procs) /\ i + 1 # 1 /\ (i + 1) - 1 = i
    BY <1>1, <2>1
  <2>3. procs[i + 1] = Drivers[i]
    BY <2>2 DEF Booted
  <2> QED
    BY <2>1, <2>2, <2>3 DEF Created
<1> QED
  BY <1>2, <1>3 DEF Processes

LEMMA MainOfProcess ==
    ASSUME Booted, Heads, running, NEW c \in Mains
    PROVE  \E p \in DriverSet : c = Main[p] /\ parent[c] = p
<1>1. PICK p \in DriverSet : c = Main[p]
  BY DEF Mains
<1>2. Created(p)
  BY <1>1, DriverAt, AllCreated
<1> QED
  BY <1>1, <1>2 DEF Heads

LEMMA MainsDiffer ==
    ASSUME NEW p \in DriverSet, NEW q \in DriverSet, Main[p] = Main[q]
    PROVE  p = q
<1>1. PICK i \in 1 .. Len(Drivers) : p = Drivers[i]
  BY DEF DriverSet
<1>2. PICK j \in 1 .. Len(Drivers) : q = Drivers[j]
  BY DEF DriverSet
<1> QED
  BY <1>1, <1>2, ConfigurationAssumption

\* Kinds of thread.
LEMMA Kinds ==
    /\ Mains \subseteq Threads /\ Spare \subseteq Threads /\ SystemSet \subseteq Threads
    /\ \A c \in Mains : c \notin Spare /\ c \notin SystemSet
    /\ \A t \in Spare : t \notin Mains /\ t \notin SystemSet
    /\ "idle" \in SystemSet /\ "process_cutter" \in SystemSet /\ "thread_cutter" \in SystemSet
    /\ \A t \in SystemSet : t \notin Mains \cup Spare
    /\ NoThread \notin Threads
    /\ System \notin DriverSet /\ System \in Processes /\ DriverSet \subseteq Processes
  BY SystemThreadsAre, ConfigurationAssumption DEF Threads, Processes

LEMMA StatusNames ==
    /\ STOP # READY /\ STOP # RUNNING /\ STOP # WAITING /\ STOP # TERMINATED
    /\ TERMINATED # READY /\ TERMINATED # RUNNING /\ TERMINATED # WAITING
    /\ READY # RUNNING /\ READY # WAITING /\ RUNNING # WAITING
  BY DEF STOP, READY, RUNNING, WAITING, TERMINATED

----------------------------------------------------------------------------
(* Initially.                                                              *)

LEMMA InitSafe == Init => SInv
<1> SUFFICES ASSUME Init PROVE SInv
  OBVIOUS
<1> USE Kinds, StatusNames
<1>1. /\ procs = <<System>> /\ cutting = << >> /\ item = NoThread /\ running = FALSE
      /\ current = "idle" /\ allocated = SystemSet /\ stacks = SystemSet
      /\ status["idle"] = RUNNING /\ pc = [t \in Threads |-> "run"]
      /\ made = [t \in Mains |-> NoThread] /\ parent = [t \in Threads |-> System]
      /\ tss = [t \in Threads |-> t \in SystemSet]
      /\ threads[System] = SystemThreads
      /\ \A p \in DriverSet : threads[p] = << >>
  BY DEF Init
<1>2. \A t \in Threads : status[t] \in {STOP, READY, RUNNING}
                         /\ (t \notin SystemSet => status[t] = STOP)
  BY DEF Init
<1>3. \A t : ~IsIn(t, << >>)
  BY DEF IsIn
<1>4. \A t \in Threads : InList(t) <=> t \in SystemSet
  BY <1>1, SystemThreadsAre DEF InList
<1>5. Booted
  <2>1. Len(procs) = 1 /\ procs[1] = System /\ Len(Drivers) \in Nat
    BY <1>1, ConfigurationAssumption
  <2>2. \A c \in Mains : made[c] = NoThread /\ pc[c] = "run"
    BY <1>1
  <2>3. \A p \in DriverSet : Len(threads[p]) <= 1
    BY <1>1
  <2> QED
    BY <1>1, <2>1, <2>2, <2>3 DEF Booted
<1>6. Lists
  <2>1. CountsMatch
    BY <1>1, SystemThreadsAre DEF CountsMatch, Init, Processes
  <2>2. Created(System)
    BY <1>1 DEF Created
  <2>3. \A p \in Processes : p = System \/ threads[p] = << >>
    BY <1>1 DEF Processes
  <2>4. \A p \in Processes, t \in Threads :
          IsIn(t, threads[p]) => t \in allocated /\ parent[t] = p
    BY <1>1, <1>3, <2>3, SystemThreadsAre
  <2>5. \A p \in Processes : \A j, k \in 1 .. Len(threads[p]) :
          threads[p][j] = threads[p][k] => j = k
    <3> SUFFICES ASSUME NEW p \in Processes
                 PROVE  \A j, k \in 1 .. Len(threads[p]) : threads[p][j] = threads[p][k] => j = k
      OBVIOUS
    <3>1. CASE threads[p] = SystemThreads
      BY <3>1, SystemThreadsAre
    <3>2. CASE threads[p] = << >>
      BY <3>2
    <3> QED
      BY <1>1, <2>3, <3>1, <3>2
  <2> QED
    BY <1>1, <2>1, <2>2, <2>3, <2>4, <2>5 DEF Lists
<1>7. Heads
  <2>1. ASSUME NEW p \in DriverSet PROVE ~Created(p)
    BY <1>1 DEF Created
  <2> QED
    BY <1>1, <2>1 DEF Heads
<1>8. Holders
  BY <1>1 DEF Holders
<1>9. Tasks
  BY <1>1, <1>2, <1>4 DEF Tasks
<1>10. Ended
  <2>1. \A t : ~IsIn(t, cutting)
    BY <1>1, <1>3
  <2> QED
    BY <1>1, <2>1 DEF Ended, IsDoomed
<1>11. Stacks
  BY <1>1, <1>4 DEF Stacks
<1> QED
  BY <1>5, <1>6, <1>7, <1>8, <1>9, <1>10, <1>11, InitIInv DEF SInv, Safe
----------------------------------------------------------------------------
(* What the invariant says of the lists.                                   *)

LEMMA ProcessesDiffer ==
    ASSUME Booted, NEW i \in 1 .. Len(procs), NEW j \in 1 .. Len(procs), procs[i] = procs[j]
    PROVE  i = j
<1>1. /\ Len(procs) \in 1 .. Len(Drivers) + 1 /\ Len(Drivers) \in Nat
      /\ procs[i] = IF i = 1 THEN System ELSE Drivers[i - 1]
      /\ procs[j] = IF j = 1 THEN System ELSE Drivers[j - 1]
  BY ConfigurationAssumption DEF Booted
<1>2. i # 1 => i - 1 \in 1 .. Len(Drivers) /\ Drivers[i - 1] \in DriverSet
  BY <1>1 DEF DriverSet
<1>3. j # 1 => j - 1 \in 1 .. Len(Drivers) /\ Drivers[j - 1] \in DriverSet
  BY <1>1 DEF DriverSet
<1>4. CASE i # 1 /\ j # 1
  <2>1. i - 1 = j - 1
    BY <1>1, <1>2, <1>3, <1>4, ConfigurationAssumption
  <2> QED
    BY <1>1, <2>1
<1> QED
  BY <1>1, <1>2, <1>3, <1>4, Kinds

LEMMA NoneDangles == SInv => NoDangling
<1> SUFFICES ASSUME TypeOK, Booted, Lists PROVE NoDangling
  BY DEF SInv, Safe, IInv
<1>1. Linked \subseteq allocated
  BY LinkedIsInList, ListedIsAllocated
<1>2. ASSUME NEW s \in Places
      PROVE  /\ s[1] \in 1 .. Len(procs) /\ procs[s[1]] \in Processes
             /\ s[2] \in 1 .. Len(threads[procs[s[1]]])
             /\ s = <<s[1], s[2]>>
             /\ parent[ThreadAt(s)] = procs[s[1]]
  <2>1. PICK i \in 1 .. Len(procs) : s \in {i} \X (1 .. Len(threads[procs[i]]))
    BY DEF Places
  <2>2. s[1] = i /\ s[2] \in 1 .. Len(threads[procs[i]]) /\ s = <<s[1], s[2]>>
    BY <2>1
  <2>3. procs[i] \in Processes
    BY <2>1, ElementOfSeq DEF TypeOK
  <2>4. IsIn(ThreadAt(s), threads[procs[i]])
    BY <2>2 DEF ThreadAt, IsIn
  <2>5. parent[ThreadAt(s)] = procs[i]
    BY <2>3, <2>4, ListElements DEF Lists
  <2> QED
    BY <2>1, <2>2, <2>3, <2>5
<1>3. ASSUME NEW r \in Places, NEW s \in Places, ThreadAt(r) = ThreadAt(s) PROVE r = s
  <2>1. procs[r[1]] = procs[s[1]] /\ r[1] \in 1 .. Len(procs) /\ s[1] \in 1 .. Len(procs)
    BY <1>2, <1>3
  <2>2. r[1] = s[1]
    BY <2>1, ProcessesDiffer
  <2>3. r[2] = s[2]
    BY <1>2, <1>3, <2>2 DEF Lists, ThreadAt
  <2> QED
    BY <1>2, <2>2, <2>3
<1> QED
  BY <1>1, <1>2, <1>3 DEF NoDangling

LEMMA DispatchIsSafe == SInv => DispatchSafe
<1> SUFFICES ASSUME TypeOK, Lists, Tasks PROVE DispatchSafe
  BY DEF SInv, Safe, IInv
<1>1. current \in Threads
  BY DEF TypeOK
<1> QED
  BY <1>1, LinkedIsInList DEF Tasks, DispatchSafe

LEMMA CuttingIsSafe == SInv => CuttingSafe
<1> SUFFICES ASSUME TypeOK, Lists, Ended PROVE CuttingSafe
  BY DEF SInv, Safe, IInv
<1>1. \A t \in Threads : IsDoomed(t) => t \in Linked /\ status[t] = TERMINATED /\ t # current
  BY LinkedIsInList DEF Ended
<1>2. \A t \in Doomed : t \in Threads /\ IsDoomed(t)
  BY DEF Doomed, IsDoomed
<1> QED
  BY <1>1, <1>2 DEF CuttingSafe, Ended

LEMMA MemoryIsAccounted == RInv => MemoryAccounted
<1> SUFFICES ASSUME TypeOK, Lists, Holders, Stacks, Accounted PROVE MemoryAccounted
  BY DEF RInv, SInv, Safe, IInv
<1>1. ASSUME NEW t \in allocated PROVE t \in Linked \cup BeingMade \cup lost
  <2>1. t \in Threads
    BY DEF TypeOK
  <2> QED
    BY <2>1, LinkedIsInList DEF Accounted
<1>2. ASSUME NEW t \in BeingMade PROVE t \in allocated \ Linked /\ t \notin lost
  <2>1. PICK c \in Mains : t \in Threads /\ made[c] = t /\ pc[c] \in {"stack", "link"}
    BY DEF BeingMade
  <2>2. t \in allocated /\ ~InList(t)
    BY <2>1, Kinds DEF Holders
  <2>3. t \notin lost
    BY <2>1 DEF Accounted
  <2> QED
    BY <2>2, <2>3, LinkedIsInList
<1>3. ASSUME NEW t \in Linked PROVE t \in allocated /\ t \notin lost
  <2>1. t \in Threads /\ InList(t)
    BY LinkedIsInList
  <2> QED
    BY <2>1, ListedIsAllocated DEF Accounted
<1>4. lost \subseteq allocated /\ \A t \in stacks : t \notin lost
  BY DEF Accounted
<1> QED
  BY <1>1, <1>2, <1>3, <1>4 DEF MemoryAccounted, Stacks

----------------------------------------------------------------------------
(* What a step keeps by leaving alone what it is about.                    *)

\* No thread enters or leaves a creation, nor comes back from its end.
KeepsPlace ==
    \A t \in Threads :
        /\ pc[t] \in Creating \/ pc'[t] \in Creating => pc'[t] = pc[t]
        /\ pc[t] = "over" => pc'[t] = "over"

LEMMA SameLists ==
    ASSUME SInv, running, UNCHANGED <<procs, threads, thread_count, allocated, parent, running>>
    PROVE  Booted' /\ Lists'
<1>1. Booted /\ Lists
  BY DEF SInv, Safe
<1>2. Booted'
  BY <1>1 DEF Booted
<1>3. \A p : Created(p)' <=> Created(p)
  BY DEF Created
<1>4. CountsMatch'
  BY <1>1 DEF Lists, CountsMatch
<1>5. threads' = threads /\ parent' = parent /\ allocated' = allocated
  OBVIOUS
<1>6. \A p \in Processes, t \in Threads :
        IsIn(t, threads[p])' => t \in allocated' /\ parent'[t] = p
  BY <1>1, <1>5 DEF Lists, IsIn
<1>7. Lists'
  BY <1>1, <1>3, <1>4, <1>5, <1>6 DEF Lists
<1> QED
  BY <1>2, <1>7

LEMMA SameHeads ==
    ASSUME Heads, UNCHANGED <<procs, threads, parent>>,
           \A p \in DriverSet : threads[p] # << >> /\ status'[Main[p]] = TERMINATED
               => status[Main[p]] = TERMINATED \/ Len(threads[p]) = 1
    PROVE  Heads'
<1>1. \A p : Created(p)' <=> Created(p)
  BY DEF Created
<1> QED
  BY <1>1 DEF Heads

LEMMA SameHolders ==
    ASSUME SInv, KeepsPlace,
           UNCHANGED <<threads, parent, allocated, stacks, auto_delete, tss, made>>,
           \A c \in Mains : made[c] # NoThread =>
               ~IsDoomed(made[c])' /\ (status[made[c]] = STOP <=> status'[made[c]] = STOP)
    PROVE  Holders' /\ Stacks'
<1>1. /\ \A t : InList(t)' <=> InList(t)
      /\ made' = made /\ parent' = parent /\ allocated' = allocated /\ tss' = tss
      /\ stacks' = stacks /\ auto_delete' = auto_delete
  BY SameInList
<1>2. \A c \in Mains : /\ pc[c] \in Creating \/ pc'[c] \in Creating => pc'[c] = pc[c]
                       /\ pc[c] \in Creating <=> pc'[c] \in Creating
  BY Kinds DEF KeepsPlace
<1>3. Holders'
  <2> SUFFICES ASSUME NEW c \in Mains, made[c] # NoThread
               PROVE  /\ made[c] \in Spare /\ made[c] \in allocated /\ ~IsDoomed(made[c])'
                      /\ parent[made[c]] = parent[c]
                      /\ auto_delete[made[c]] => status'[made[c]] = STOP
                      /\ \A d \in Mains : made[d] = made[c] => d = c
                      /\ pc'[c] \in {"stack", "link"} => ~InList(made[c])' /\ status'[made[c]] = STOP
                      /\ pc'[c] = "tss" => InList(made[c])' /\ status'[made[c]] = STOP
                      /\ pc'[c] \notin Creating => InList(made[c])' /\ tss[made[c]]
                      /\ pc'[c] = "stack" => made[c] \notin stacks
    BY <1>1 DEF Holders
  <2>1. /\ made[c] \in Spare /\ made[c] \in allocated /\ parent[made[c]] = parent[c]
        /\ auto_delete[made[c]] => status[made[c]] = STOP
        /\ \A d \in Mains : made[d] = made[c] => d = c
        /\ pc[c] \in {"stack", "link"} => ~InList(made[c]) /\ status[made[c]] = STOP
        /\ pc[c] = "tss" => InList(made[c]) /\ status[made[c]] = STOP
        /\ pc[c] \notin Creating => InList(made[c]) /\ tss[made[c]]
        /\ pc[c] = "stack" => made[c] \notin stacks
    BY DEF SInv, Safe, Holders
  <2>2. ~IsDoomed(made[c])' /\ (status[made[c]] = STOP <=> status'[made[c]] = STOP)
    OBVIOUS
  <2>3. InList(made[c])' <=> InList(made[c])
    BY <1>1
  <2>4. CASE pc'[c] \in Creating
    <3>1. pc'[c] = pc[c]
      BY <1>2, <2>4
    <3> QED
      BY <2>1, <2>2, <2>3, <2>4, <3>1
  <2>5. CASE pc'[c] \notin Creating
    <3>1. pc[c] \notin Creating /\ pc'[c] \notin {"stack", "link", "tss"}
      BY <1>2, <2>5 DEF Creating
    <3> QED
      BY <2>1, <2>2, <2>3, <3>1
  <2> QED
    BY <2>4, <2>5
<1>4. Stacks'
  <2>1. ASSUME NEW t \in BeingMade PROVE t \in BeingMade'
    <3>1. PICK c \in Mains : t \in Threads /\ made[c] = t /\ pc[c] \in {"stack", "link"}
      BY DEF BeingMade
    <3>2. pc'[c] = pc[c]
      BY <1>2, <3>1 DEF Creating
    <3> QED
      BY <1>1, <3>1, <3>2 DEF BeingMade
  <2> QED
    BY <1>1, <2>1 DEF SInv, Safe, Stacks
<1> QED
  BY <1>3, <1>4

----------------------------------------------------------------------------
(* Switches.                                                               *)

\* What is pushed is in the list, or the list was full.
LEMMA PushedOnce ==
    ASSUME TypeOK, Ended, NEW t \in Threads, ~IsIn(t, cutting), cutting' = PushCuttingItem(t)
    PROVE  /\ \A u : IsIn(u, cutting') => IsIn(u, cutting) \/ u = t
           /\ \A i, j \in 1 .. Len(cutting') : cutting'[i] = cutting'[j] => i = j
<1>1. CASE cutting' = cutting
  BY <1>1 DEF Ended
<1>2. CASE cutting' = Append(cutting, t)
  <2>1. cutting \in Seq(Threads)
    BY DEF TypeOK
  <2> QED
    BY <1>2, <2>1, AppendedIsIn DEF Ended
<1> QED
  BY <1>1, <1>2 DEF PushCuttingItem

\* A switch ends no thread and starts none.
LEMMA SwitchStatus ==
    ASSUME TypeOK, Lists, PspSetupTaskSWEnv
    PROVE  /\ \A t \in Threads : /\ status'[t] = TERMINATED <=> status[t] = TERMINATED
                                 /\ status'[t] = STOP <=> status[t] = STOP
                                 /\ status'[t] = WAITING <=> status[t] = WAITING
           /\ current' \in Threads /\ InList(current')
           /\ status[current'] \in {READY, RUNNING}
           /\ cutting' = IF DeletesItself THEN PushCuttingItem(current) ELSE cutting
<1>1. PICK next \in PspFindNextThreadScheduled :
        /\ current' = next
        /\ status' = StatusAfterSwitch(next)
        /\ cutting' = IF DeletesItself THEN PushCuttingItem(current) ELSE cutting
  BY DEF PspSetupTaskSWEnv
<1>2. next \in Threads /\ InList(next) /\ status[next] \in {READY, RUNNING}
  BY NextIsRunnable, LinkedIsInList DEF Runnable
<1>3. \A t \in Threads : status'[t] = IF t = next /\ next # current THEN RUNNING
                                      ELSE IF t = current /\ status[t] = RUNNING THEN READY
                                      ELSE status[t]
  BY <1>1 DEF StatusAfterSwitch
<1>4. \A t \in Threads : /\ status'[t] = TERMINATED <=> status[t] = TERMINATED
                         /\ status'[t] = STOP <=> status[t] = STOP
                         /\ status'[t] = WAITING <=> status[t] = WAITING
  BY <1>2, <1>3, StatusNames
<1> QED
  BY <1>1, <1>2, <1>4

\* A thread that deletes itself is not on its way to be freed already, for it
\* was current, and nobody holds its handle; it is not switched to, for it has
\* ended.
LEMMA SwitchSafe ==
    ASSUME SInv, running, PspSetupTaskSWEnv, KeepsPlace,
           UNCHANGED <<procs, threads, thread_count, allocated, stacks, parent,
                       auto_delete, tss, made, item, running>>
    PROVE  Safe'
<1>1. TypeOK /\ Lists /\ Heads /\ Holders /\ Tasks /\ Ended
  BY DEF SInv, Safe, IInv
<1>2. /\ \A t \in Threads : /\ status'[t] = TERMINATED <=> status[t] = TERMINATED
                            /\ status'[t] = STOP <=> status[t] = STOP
      /\ current' \in Threads /\ InList(current')
      /\ status[current'] \in {READY, RUNNING}
      /\ cutting' = IF DeletesItself THEN PushCuttingItem(current) ELSE cutting
  BY <1>1, SwitchStatus
<1>3. current \in Threads /\ \A t : InList(t)' <=> InList(t)
  BY <1>1, SameInList DEF TypeOK
<1>4. ~IsDoomed(current)
  BY <1>1, <1>3 DEF Ended
<1>5. /\ \A u \in Threads : IsDoomed(u)' => IsDoomed(u) \/ (u = current /\ DeletesItself)
      /\ ~IsIn(item, cutting')
      /\ \A i, j \in 1 .. Len(cutting') : cutting'[i] = cutting'[j] => i = j
  <2>1. CASE DeletesItself
    <3>1. ~IsIn(current, cutting) /\ item # current
      BY <1>4 DEF IsDoomed
    <3>2. /\ \A u : IsIn(u, cutting') => IsIn(u, cutting) \/ u = current
          /\ \A i, j \in 1 .. Len(cutting') : cutting'[i] = cutting'[j] => i = j
      BY <1>1, <1>2, <1>3, <2>1, <3>1, PushedOnce
    <3> QED
      BY <1>1, <2>1, <3>1, <3>2 DEF IsDoomed, Ended
  <2>2. CASE ~DeletesItself
    <3>1. cutting' = cutting
      BY <1>2, <2>2
    <3> QED
      BY <1>1, <3>1 DEF IsDoomed, Ended
  <2> QED
    BY <2>1, <2>2
<1>6. Booted' /\ Lists'
  BY SameLists
<1>7. Heads'
  BY <1>1, <1>2, DriverAt, SameHeads
<1>8. Holders' /\ Stacks'
  <2> SUFFICES ASSUME NEW c \in Mains, made[c] # NoThread
               PROVE  ~IsDoomed(made[c])' /\ (status[made[c]] = STOP <=> status'[made[c]] = STOP)
    BY SameHolders
  <2>1. made[c] \in Threads /\ ~IsDoomed(made[c])
        /\ (auto_delete[made[c]] => status[made[c]] = STOP)
    BY <1>1, Kinds DEF Holders
  <2>2. ~(made[c] = current /\ DeletesItself)
    BY <2>1, StatusNames DEF DeletesItself
  <2> QED
    BY <1>2, <1>5, <2>1, <2>2
<1>9. Tasks'
  <2>1. \A t \in Threads : InList(t)' /\ status'[t] # STOP => tss'[t]
    BY <1>1, <1>2, <1>3 DEF Tasks
  <2>2. \A t \in Mains \cup Spare : status'[t] = TERMINATED => pc'[t] = "over"
    BY <1>1, <1>2, Kinds DEF Tasks, KeepsPlace
  <2>3. \A t \in SystemSet : status'[t] # TERMINATED
    BY <1>1, <1>2, Kinds DEF Tasks
  <2>4. InList(current)' /\ status'[current'] # STOP
    <3>1. InList(current')
      BY <1>2
    <3>2. InList(current)'
      BY <3>1 DEF InList, IsIn
    <3> QED
      BY <1>2, <3>2, StatusNames
  <2> QED
    BY <2>1, <2>2, <2>3, <2>4 DEF Tasks
<1>10. Ended'
  <2>1. ASSUME NEW t \in Threads, IsDoomed(t)'
        PROVE  InList(t)' /\ status'[t] = TERMINATED /\ t # current'
    <3>1. InList(t) /\ status[t] = TERMINATED
      BY <1>1, <1>5, <2>1 DEF Ended, Tasks, DeletesItself
    <3> QED
      BY <1>2, <1>3, <3>1, StatusNames
  <2> QED
    BY <1>5, <2>1 DEF Ended
<1> QED
  BY <1>6, <1>7, <1>8, <1>9, <1>10 DEF Safe
LEMMA TaskSwitchSafe ==
    ASSUME SInv, running, NEW w, HalTaskSwitch(w),
           \/ w = "run" /\ pc[current] \in {"run", "switch", "blocked"}
           \/ w = "over" /\ pc[current] = "over"
    PROVE  Safe'
<1>1. TypeOK
  BY DEF SInv, IInv
<1>2. /\ PspSetupTaskSWEnv /\ pc' = [pc EXCEPT ![current] = w]
      /\ UNCHANGED <<procs, threads, thread_count, allocated, stacks, parent,
                     auto_delete, tss, made, item, running>>
  BY DEF HalTaskSwitch, lists, memory, fields
<1>3. KeepsPlace
  BY <1>1, <1>2 DEF KeepsPlace, Creating, TypeOK
<1> QED
  BY <1>2, <1>3, SwitchSafe

----------------------------------------------------------------------------
(* Blocking, waking and returning.                                         *)

\* A thread in the lists that is neither new nor ended: no maker is creating
\* it, none is to forget it, and nobody is to free it.
LEMMA StatusSafe ==
    ASSUME SInv, running, KeepsPlace, NEW t \in Threads, NEW s,
           status' = [status EXCEPT ![t] = s],
           InList(t), status[t] # STOP, status[t] # TERMINATED, s # STOP,
           s = TERMINATED => /\ t \in Mains \cup Spare /\ pc'[t] = "over"
                             /\ t \in Mains => threads[parent[t]] = <<t>>,
           UNCHANGED <<procs, threads, thread_count, allocated, stacks, parent,
                       auto_delete, tss, current, cutting, made, item, running>>
    PROVE  Safe'
<1>1. TypeOK /\ Lists /\ Heads /\ Holders /\ Tasks /\ Ended
  BY DEF SInv, Safe, IInv
<1>2. /\ \A u \in Threads : status'[u] = IF u = t THEN s ELSE status[u]
      /\ \A u : InList(u)' <=> InList(u)
      /\ \A u : IsDoomed(u)' <=> IsDoomed(u)
      /\ ~IsDoomed(t)
  BY <1>1, SameInList DEF TypeOK, IsDoomed, Ended
<1>3. Booted' /\ Lists'
  BY SameLists
<1>4. Heads'
  <2>1. ASSUME NEW p \in DriverSet, threads[p] # << >>, status'[Main[p]] = TERMINATED
        PROVE  status[Main[p]] = TERMINATED \/ Len(threads[p]) = 1
    <3>1. CASE t = Main[p]
      <4>1. s = TERMINATED /\ Main[p] \in Mains /\ p \in Processes
        BY <1>2, <2>1, <3>1, DriverAt
      <4>2. threads[parent[t]] = <<t>>
        BY <3>1, <4>1
      <4>3. parent[t] = p
        <5>1. Created(p)
          BY <4>1, AllCreated DEF SInv, Safe
        <5> QED
          BY <1>1, <3>1, <5>1 DEF Heads
      <4> QED
        BY <4>2, <4>3
    <3>2. CASE t # Main[p]
      BY <1>2, <2>1, <3>2, DriverAt
    <3> QED
      BY <3>1, <3>2
  <2> QED
    BY <1>1, <2>1, SameHeads
<1>5. Holders' /\ Stacks'
  <2> SUFFICES ASSUME NEW c \in Mains, made[c] # NoThread
               PROVE  ~IsDoomed(made[c])' /\ (status[made[c]] = STOP <=> status'[made[c]] = STOP)
    BY SameHolders
  <2>1. made[c] \in Threads /\ ~IsDoomed(made[c])
    BY <1>1, Kinds DEF Holders
  <2> QED
    BY <1>2, <2>1
<1>6. Tasks'
  <2>1. \A u \in Threads : InList(u)' /\ status'[u] # STOP => tss'[u]
    BY <1>1, <1>2 DEF Tasks
  <2>2. \A u \in Mains \cup Spare : status'[u] = TERMINATED => pc'[u] = "over"
    BY <1>1, <1>2, Kinds DEF Tasks, KeepsPlace
  <2>3. \A u \in SystemSet : status'[u] # TERMINATED
    BY <1>1, <1>2, Kinds DEF Tasks
  <2>4. InList(current)' /\ status'[current'] # STOP
    <3>1. current \in Threads /\ current' = current
      BY <1>1 DEF TypeOK
    <3> QED
      BY <1>1, <1>2, <3>1 DEF Tasks
  <2> QED
    BY <2>1, <2>2, <2>3, <2>4 DEF Tasks
<1>7. Ended'
  BY <1>1, <1>2 DEF Ended
<1> QED
  BY <1>3, <1>4, <1>5, <1>6, <1>7 DEF Safe

LEMMA BlockSafe ==
    ASSUME SInv, NEW t \in Mains \cup Spare, BlockSelf(t)
    PROVE  Safe'
<1>1. /\ running /\ current = t /\ pc[t] = "run" /\ t \in Threads
      /\ status' = [status EXCEPT ![t] = WAITING] /\ pc' = [pc EXCEPT ![t] = "blocked"]
      /\ UNCHANGED <<procs, threads, thread_count, allocated, stacks, parent,
                     auto_delete, tss, current, cutting, made, item, running>>
  BY Kinds DEF BlockSelf, AtPc, SetStatus, GoTo, lists, memory, fields
<1>2. InList(t) /\ status[t] # STOP /\ status[t] # TERMINATED
  BY <1>1 DEF SInv, Safe, Tasks
<1>3. KeepsPlace
  BY <1>1 DEF KeepsPlace, Creating, SInv, IInv, TypeOK
<1> QED
  BY <1>1, <1>2, <1>3, StatusNames, StatusSafe

LEMMA ReturnSafe ==
    ASSUME HeadLeavesLast, SInv, NEW t \in Mains \cup Spare, Return(t)
    PROVE  Safe'
<1>1. /\ running /\ current = t /\ pc[t] = "run" /\ t \in Threads
      /\ status' = [status EXCEPT ![t] = TERMINATED] /\ pc' = [pc EXCEPT ![t] = "over"]
      /\ t \in Mains => threads[parent[t]] = <<t>>
      /\ UNCHANGED <<procs, threads, thread_count, allocated, stacks, parent,
                     auto_delete, tss, current, cutting, made, item, running>>
  BY Kinds DEF Return, AtPc, SetStatus, GoTo, lists, memory, fields
<1>2. InList(t) /\ status[t] # STOP /\ status[t] # TERMINATED
  BY <1>1 DEF SInv, Safe, Tasks
<1>3. KeepsPlace /\ pc'[t] = "over"
  BY <1>1 DEF KeepsPlace, Creating, SInv, IInv, TypeOK
<1> QED
  BY <1>1, <1>2, <1>3, StatusNames, StatusSafe

LEMMA WakeSafe ==
    ASSUME SInv, Requests, WakeThread
    PROVE  Safe'
<1>1. PICK t \in Threads : t = serving
  BY WakerIsMain DEF WakeThread, AtPc, SInv, IInv, HandlesHeld
<1>2. /\ running /\ pc[Waker] = "serve" /\ pc' = [pc EXCEPT ![Waker] = "run"]
      /\ status' = [status EXCEPT ![t] = READY]
      /\ UNCHANGED <<procs, threads, thread_count, allocated, stacks, parent,
                     auto_delete, tss, current, cutting, made, item, running>>
  BY <1>1 DEF WakeThread, AtPc, SetStatus, GoTo, lists, memory, fields
<1>3. InList(t) /\ status[t] = WAITING
  BY <1>1 DEF Requests, Asked
<1>4. KeepsPlace
  BY <1>2 DEF KeepsPlace, Creating, SInv, IInv, TypeOK
<1> QED
  BY <1>2, <1>3, <1>4, StatusNames, StatusSafe

\* The driver that takes a job is the current thread: its status is left.
LEMMA PopJobSafe ==
    ASSUME SInv, PopJob
    PROVE  Safe'
<1>1. /\ running /\ current = Waker /\ pc[Waker] = "run" /\ Waker \in Mains /\ Waker \in Threads
      /\ pc' = [pc EXCEPT ![Waker] = "serve"] /\ status' = status
      /\ UNCHANGED <<procs, threads, thread_count, allocated, stacks, parent,
                     auto_delete, tss, current, cutting, made, item, running>>
  BY WakerIsMain DEF PopJob, AtPc, GoTo, lists, memory, fields
<1>2. status' = [status EXCEPT ![Waker] = status[Waker]]
  BY <1>1 DEF SInv, IInv, TypeOK
<1>3. InList(Waker) /\ status[Waker] # STOP /\ status[Waker] # TERMINATED
  BY <1>1 DEF SInv, Safe, Tasks
<1>4. KeepsPlace
  BY <1>1 DEF KeepsPlace, Creating, SInv, IInv, TypeOK
<1> QED
  BY <1>1, <1>2, <1>3, <1>4, StatusSafe

----------------------------------------------------------------------------
(* Starting and deleting, by the maker.                                    *)

LEMMA StartSafe ==
    ASSUME SInv, Requests, NEW c \in Mains, StartThread(c)
    PROVE  Safe'
<1>1. TypeOK /\ HandlesHeld /\ Lists /\ Heads /\ Holders /\ Tasks /\ Ended /\ Stacks
  BY DEF SInv, Safe, IInv
<1>2. PICK t \in Spare : /\ made[c] = t /\ t \in Threads /\ t \notin Mains /\ t # NoThread
  <2>1. made[c] \in Threads
    BY <1>1 DEF StartThread, AtPc, HandlesHeld
  <2> QED
    BY <1>1, <2>1, Kinds DEF Holders
<1>3. /\ running /\ current = c /\ pc[c] = "start" /\ status[t] = STOP
      /\ status' = [status EXCEPT ![t] = READY]
      /\ made' = [made EXCEPT ![c] = IF auto_delete[t] THEN NoThread ELSE t]
      /\ pc' = [pc EXCEPT ![c] = "run"]
      /\ UNCHANGED <<procs, threads, thread_count, allocated, stacks, parent,
                     auto_delete, tss, current, cutting, item, running>>
  BY <1>2 DEF StartThread, AtPc, SetStatus, GoTo, Requests, lists, memory, fields
<1>12. c \in Threads /\ \A u \in Threads : pc'[u] = IF u = c THEN "run" ELSE pc[u]
  BY <1>1, <1>3, Kinds DEF TypeOK
<1>4. /\ InList(t) /\ tss[t] /\ ~IsDoomed(t)
      /\ \A d \in Mains : made[d] = t => d = c
  BY <1>1, <1>2, <1>3 DEF Holders, Creating
<1>5. /\ \A u \in Threads : status'[u] = IF u = t THEN READY ELSE status[u]
      /\ \A u : InList(u)' <=> InList(u)
      /\ \A u : IsDoomed(u)' <=> IsDoomed(u)
      /\ \A d \in Mains : d # c => made'[d] = made[d]
      /\ (made'[c] = t /\ ~auto_delete[t]) \/ made'[c] = NoThread
  BY <1>1, <1>3, SameInList DEF TypeOK, IsDoomed
<1>6. Booted' /\ Lists'
  BY <1>3, SameLists
<1>7. Heads'
  <2>1. \A p \in DriverSet : Main[p] # t /\ Main[p] \in Threads
    BY <1>2, DriverAt
  <2> QED
    BY <1>1, <1>3, <1>5, <2>1, SameHeads
<1>8. Holders'
  <2> SUFFICES ASSUME NEW d \in Mains, made'[d] # NoThread
               PROVE  /\ made'[d] \in Spare /\ made'[d] \in allocated /\ ~IsDoomed(made'[d])
                      /\ parent[made'[d]] = parent[d]
                      /\ auto_delete[made'[d]] => status'[made'[d]] = STOP
                      /\ \A e \in Mains : made'[e] = made'[d] => e = d
                      /\ pc'[d] \in {"stack", "link"} => ~InList(made'[d]) /\ status'[made'[d]] = STOP
                      /\ pc'[d] = "tss" => InList(made'[d]) /\ status'[made'[d]] = STOP
                      /\ pc'[d] \notin Creating => InList(made'[d]) /\ tss[made'[d]]
                      /\ pc'[d] = "stack" => made'[d] \notin stacks
    BY <1>3 DEF Holders, IsDoomed, InList
  <2>1. made'[d] = made[d] /\ \A e \in Mains : made'[e] = made'[d] => made[e] = made[d]
    BY <1>2, <1>5
  <2>2. /\ made[d] \in Spare /\ made[d] \in allocated /\ ~IsDoomed(made[d])
        /\ parent[made[d]] = parent[d]
        /\ auto_delete[made[d]] => status[made[d]] = STOP
        /\ \A e \in Mains : made[e] = made[d] => e = d
        /\ pc[d] \in {"stack", "link"} => ~InList(made[d]) /\ status[made[d]] = STOP
        /\ pc[d] = "tss" => InList(made[d]) /\ status[made[d]] = STOP
        /\ pc[d] \notin Creating => InList(made[d]) /\ tss[made[d]]
        /\ pc[d] = "stack" => made[d] \notin stacks
    BY <1>1, <2>1 DEF Holders
  <2>3. CASE d = c
    <3>1. made[d] = t /\ ~auto_delete[t] /\ pc'[d] = "run"
      BY <1>2, <1>5, <1>12, <2>3
    <3> QED
      BY <1>4, <2>1, <2>2, <3>1
  <2>4. CASE d # c
    <3>1. made[d] # t /\ made[d] \in Threads /\ pc'[d] = pc[d]
      BY <1>4, <1>12, <2>2, <2>4, Kinds
    <3>2. status'[made[d]] = status[made[d]]
      BY <1>5, <3>1
    <3> QED
      BY <2>1, <2>2, <3>1, <3>2
  <2> QED
    BY <2>3, <2>4
<1>9. Tasks'
  <2>1. \A u \in Threads : InList(u)' /\ status'[u] # STOP => tss'[u]
    BY <1>1, <1>3, <1>4, <1>5 DEF Tasks
  <2>2. \A u \in Mains \cup Spare : status'[u] = TERMINATED => pc'[u] = "over"
    <3>1. status[c] # TERMINATED
      BY <1>1, <1>3 DEF Tasks
    <3> QED
      BY <1>1, <1>3, <1>5, <1>12, <3>1, Kinds, StatusNames DEF Tasks
  <2>3. \A u \in SystemSet : status'[u] # TERMINATED
    BY <1>1, <1>5, Kinds, StatusNames DEF Tasks
  <2>4. InList(current)' /\ status'[current'] # STOP
    <3>1. current \in Threads /\ current' = current
      BY <1>1, <1>3 DEF TypeOK
    <3> QED
      BY <1>1, <1>5, <3>1, StatusNames DEF Tasks
  <2> QED
    BY <2>1, <2>2, <2>3, <2>4 DEF Tasks
<1>10. Ended'
  BY <1>1, <1>3, <1>4, <1>5 DEF Ended
<1>11. Stacks'
  <2>1. ASSUME NEW u \in BeingMade PROVE u \in BeingMade'
    <3>1. PICK d \in Mains : u \in Threads /\ made[d] = u /\ pc[d] \in {"stack", "link"}
      BY DEF BeingMade
    <3>2. d # c /\ pc'[d] = pc[d]
      BY <1>3, <1>12, <3>1, Kinds
    <3> QED
      BY <1>5, <3>1, <3>2 DEF BeingMade
  <2> QED
    BY <1>1, <1>3, <1>5, <2>1 DEF Stacks
<1> QED
  BY <1>6, <1>7, <1>8, <1>9, <1>10, <1>11 DEF Safe
\* What the maker pushes it alone held, and it does not run itself.
LEMMA DeleteCallSafe ==
    ASSUME SInv, NEW c \in Mains, PsDeleteThread(c)
    PROVE  Safe'
<1>1. TypeOK /\ Lists /\ Heads /\ Holders /\ Tasks /\ Ended /\ Stacks
  BY DEF SInv, Safe, IInv
<1>2. PICK t \in Spare : /\ made[c] = t /\ t \in Threads /\ t \notin Mains /\ t # NoThread
  BY <1>1, Kinds DEF PsDeleteThread, Holders
<1>3. /\ running /\ current = c /\ pc[c] = "run" /\ status[t] = TERMINATED
      /\ cutting' = PushCuttingItem(t) /\ made' = [made EXCEPT ![c] = NoThread]
      /\ UNCHANGED <<procs, threads, thread_count, allocated, stacks, parent,
                     auto_delete, tss, status, current, pc, item, running>>
  BY <1>2 DEF PsDeleteThread, HasEnded, AtPc, lists, memory, fields
<1>4. /\ InList(t) /\ ~IsDoomed(t)
      /\ \A d \in Mains : made[d] = t => d = c
  BY <1>1, <1>2, <1>3 DEF Holders, Creating
<1>5. /\ \A u : InList(u)' <=> InList(u)
      /\ \A d \in Mains : made'[d] = IF d = c THEN NoThread ELSE made[d]
  BY <1>1, <1>3, SameInList DEF TypeOK
<1>6. /\ \A u : IsIn(u, cutting') => IsIn(u, cutting) \/ u = t
      /\ \A i, j \in 1 .. Len(cutting') : cutting'[i] = cutting'[j] => i = j
      /\ item # t
  BY <1>1, <1>2, <1>3, <1>4, PushedOnce DEF IsDoomed
<1>7. \A u : IsDoomed(u)' => IsDoomed(u) \/ u = t
  BY <1>3, <1>6 DEF IsDoomed
<1>8. Booted' /\ Lists' /\ Heads'
  BY <1>1, <1>3, SameLists, SameHeads
<1>9. Holders'
  <2> SUFFICES ASSUME NEW d \in Mains, made'[d] # NoThread
               PROVE  /\ made'[d] \in Spare /\ made'[d] \in allocated /\ ~IsDoomed(made[d])'
                      /\ parent[made'[d]] = parent[d]
                      /\ auto_delete[made'[d]] => status[made'[d]] = STOP
                      /\ \A e \in Mains : made'[e] = made'[d] => e = d
                      /\ pc[d] \in {"stack", "link"} => ~InList(made'[d]) /\ status[made'[d]] = STOP
                      /\ pc[d] = "tss" => InList(made'[d]) /\ status[made'[d]] = STOP
                      /\ pc[d] \notin Creating => InList(made'[d]) /\ tss[made'[d]]
                      /\ pc[d] = "stack" => made'[d] \notin stacks
    BY <1>3 DEF Holders, IsDoomed, InList
  <2>1. d # c /\ made'[d] = made[d] /\ made[d] # t
        /\ \A e \in Mains : made'[e] = made'[d] => made[e] = made[d]
    BY <1>4, <1>5
  <2>2. ~IsDoomed(made[d])
    BY <1>1, <2>1 DEF Holders
  <2>3. ~IsDoomed(made[d])'
    BY <1>7, <2>1, <2>2 DEF IsDoomed
  <2> QED
    BY <1>1, <2>1, <2>3 DEF Holders
<1>10. Tasks'
  <2>1. current' = current /\ status' = status /\ tss' = tss /\ pc' = pc
    BY <1>3
  <2>2. InList(current)'
    BY <1>1, <1>3 DEF Tasks, InList
  <2> QED
    BY <1>1, <1>5, <2>1, <2>2 DEF Tasks
<1>11. Ended'
  <2>1. ASSUME NEW u \in Threads, IsDoomed(u)'
        PROVE  InList(u) /\ status[u] = TERMINATED /\ u # current
    BY <1>1, <1>2, <1>3, <1>4, <1>7, <2>1 DEF Ended
  <2>2. ~IsIn(item, cutting')
    BY <1>1, <1>6 DEF Ended
  <2>3. item' = item /\ status' = status /\ current' = current
    BY <1>3
  <2> QED
    BY <1>5, <1>6, <2>1, <2>2, <2>3 DEF Ended
<1>12. Stacks'
  <2>1. ASSUME NEW u \in BeingMade PROVE u \in BeingMade'
    <3>1. PICK d \in Mains : u \in Threads /\ made[d] = u /\ pc[d] \in {"stack", "link"}
      BY DEF BeingMade
    <3>2. d # c /\ pc'[d] = pc[d]
      BY <1>3, <3>1
    <3> QED
      BY <1>5, <3>1, <3>2 DEF BeingMade
  <2> QED
    BY <1>1, <1>3, <1>5, <2>1 DEF Stacks
<1> QED
  BY <1>8, <1>9, <1>10, <1>11, <1>12 DEF Safe

----------------------------------------------------------------------------
(* The thread cutter.                                                      *)

LEMMA CutterKeepsPlace ==
    ASSUME TypeOK, pc["thread_cutter"] \in {"run", "cut"}, NEW w \in {"run", "cut", "switch"},
           pc' = [pc EXCEPT !["thread_cutter"] = w]
    PROVE  KeepsPlace
  BY DEF KeepsPlace, Creating, TypeOK

LEMMA PopSafe ==
    ASSUME SInv, PopCuttingItem
    PROVE  Safe'
<1>1. TypeOK /\ Lists /\ Heads /\ Holders /\ Tasks /\ Ended
  BY DEF SInv, Safe, IInv
<1>2. /\ running /\ pc["thread_cutter"] = "run"
      /\ UNCHANGED <<procs, threads, thread_count, allocated, stacks, parent,
                     auto_delete, tss, status, current, made, running>>
      /\ \E w \in {"cut", "switch"} : pc' = [pc EXCEPT !["thread_cutter"] = w]
  BY DEF PopCuttingItem, AtPc, GoTo, lists, memory, fields
<1>3. KeepsPlace
  BY <1>1, <1>2, CutterKeepsPlace
<1>4. /\ \A t : IsDoomed(t)' => IsDoomed(t)
      /\ ~IsIn(item', cutting')
      /\ \A i, j \in 1 .. Len(cutting') : cutting'[i] = cutting'[j] => i = j
  <2>1. CASE UNCHANGED <<item, cutting>>
    BY <1>1, <2>1 DEF IsDoomed, Ended
  <2>2. CASE cutting # << >> /\ item' = Head(cutting) /\ cutting' = Tail(cutting)
    <3>1. /\ Len(cutting') = Len(cutting) - 1 /\ Len(cutting) \in Nat \ {0}
          /\ \A k \in 1 .. Len(cutting) - 1 : cutting'[k] = cutting[k + 1]
          /\ item' = cutting[1]
      BY <1>1, <2>2 DEF TypeOK
    <3>2. \A i, j \in 1 .. Len(cutting) : cutting[i] = cutting[j] => i = j
      BY <1>1 DEF Ended
    <3>3. \A t : IsIn(t, cutting') => IsIn(t, cutting)
      BY <3>1 DEF IsIn
    <3>4. IsIn(item', cutting)
      BY <3>1 DEF IsIn
    <3>5. ~IsIn(item', cutting')
      BY <3>1, <3>2 DEF IsIn
    <3>6. \A i, j \in 1 .. Len(cutting') : cutting'[i] = cutting'[j] => i = j
      BY <3>1, <3>2
    <3> QED
      BY <3>3, <3>4, <3>5, <3>6 DEF IsDoomed
  <2> QED
    BY <2>1, <2>2 DEF PopCuttingItem
<1>5. Booted' /\ Lists' /\ Heads'
  BY <1>1, <1>2, SameLists, SameHeads
<1>6. Holders' /\ Stacks'
  <2> SUFFICES ASSUME NEW c \in Mains, made[c] # NoThread PROVE ~IsDoomed(made[c])'
    BY <1>2, <1>3, SameHolders
  <2> QED
    BY <1>1, <1>2, <1>4 DEF Holders, IsDoomed
<1>7. \A u : InList(u)' <=> InList(u)
  BY <1>2, SameInList
<1>8. Tasks'
  <2>1. \A t \in Mains \cup Spare : status'[t] = TERMINATED => pc'[t] = "over"
    BY <1>1, <1>2, <1>3, Kinds DEF Tasks, KeepsPlace
  <2>2. InList(current)'
    BY <1>1, <1>2 DEF Tasks, InList
  <2>3. current' = current /\ status' = status /\ tss' = tss
    BY <1>2
  <2> QED
    BY <1>1, <1>7, <2>1, <2>2, <2>3 DEF Tasks
<1>9. Ended'
  BY <1>1, <1>2, <1>4, <1>7 DEF Ended
<1> QED
  BY <1>5, <1>6, <1>8, <1>9 DEF Safe

\* The thread that is cut is alone in its process, or not the first of it: the
\* main has not ended while there are others.
LEMMA CutListIs ==
    ASSUME SInv, running, NEW t \in Threads, NEW p \in DriverSet, p = parent[t],
           InList(t), status[t] = TERMINATED
    PROVE  LET list == Cut(p, t) IN
           /\ Len(list) = Len(threads[p]) - 1 /\ Len(list) \in Nat
           /\ \A u : IsIn(u, list) <=> IsIn(u, threads[p]) /\ u # t
           /\ \A j, k \in 1 .. Len(list) : list[j] = list[k] => j = k
           /\ list # << >> => /\ list[1] = Main[p]
                              /\ status[Main[p]] # TERMINATED
<1>1. TypeOK /\ CountsMatch /\ Lists /\ Heads /\ p \in Processes
  BY Kinds DEF SInv, Safe, IInv, Lists
<1>2. PICK s \in Seq(Threads) : s = threads[p]
  BY <1>1 DEF TypeOK
<1>3. /\ thread_count[p] = Len(s) /\ Len(s) \in Nat
      /\ \A j, k \in 1 .. Len(s) : s[j] = s[k] => j = k
  BY <1>1, <1>2 DEF CountsMatch, Lists
<1>4. PICK k \in 1 .. Len(s) : s[k] = t
  BY <1>2 DEF InList, IsIn
<1>5. s[1] = Main[p] /\ (status[Main[p]] = TERMINATED => Len(s) = 1)
  <2>1. s # << >>
    BY <1>4
  <2> QED
    BY <1>1, <1>2, <2>1 DEF Heads
<1>6. CASE Len(s) = 1
  <2>1. Cut(p, t) = << >> /\ k = 1
    BY <1>3, <1>4, <1>6 DEF Cut
  <2>2. \A u : IsIn(u, s) <=> u = t
    BY <1>4, <1>6, <2>1 DEF IsIn
  <2>3. \A u : ~IsIn(u, << >>)
    BY DEF IsIn
  <2> QED
    BY <1>2, <1>6, <2>1, <2>2, <2>3
<1>7. CASE Len(s) # 1
  <2>1. status[Main[p]] # TERMINATED /\ k \in 2 .. Len(s)
    BY <1>3, <1>4, <1>5, <1>7
  <2>2. (CHOOSE j \in 1 .. Len(s) : s[j] = t) = k
    BY <1>3, <1>4
  <2>3. Cut(p, t) = WithoutPlace(s, k)
    BY <1>2, <1>3, <1>7, <2>2 DEF Cut
  <2>4. PICK w : w = WithoutPlace(s, k)
    OBVIOUS
  <2>5. Len(w) = Len(s) - 1
    BY <2>1, <2>4, WithoutPlaceAt
  <2>6. /\ \A u : IsIn(u, w) <=> IsIn(u, s) /\ u # t
        /\ \A i, j \in 1 .. Len(w) : w[i] = w[j] => i = j
        /\ w[1] = Main[p]
    BY <1>3, <1>4, <1>5, <2>1, <2>4, WithoutPlaceIsIn
  <2>7. Len(w) \in Nat
    BY <1>3, <1>4, <2>5
  <2> QED
    BY <1>2, <2>1, <2>3, <2>4, <2>5, <2>6, <2>7
<1> QED
  BY <1>6, <1>7
LEMMA DeleteSafe ==
    ASSUME SInv, DeleteThread
    PROVE  /\ Safe'
           /\ item \in Threads /\ status[item] = TERMINATED
           /\ \/ /\ UNCHANGED <<allocated, stacks>>
                 /\ \A u \in Threads : InList(u)' <=> InList(u)
              \/ /\ allocated' = allocated \ {item} /\ stacks' = stacks \ {item}
                 /\ \A u \in Threads : InList(u)' <=> InList(u) /\ u # item
<1>1. TypeOK /\ HandlesHeld /\ Booted /\ Lists /\ Heads /\ Holders /\ Tasks /\ Ended /\ Stacks
  BY DEF SInv, Safe, IInv
<1>2. /\ running /\ current = "thread_cutter" /\ pc["thread_cutter"] = "cut"
      /\ pc' = [pc EXCEPT !["thread_cutter"] = "run"] /\ item' = NoThread
      /\ UNCHANGED <<procs, parent, auto_delete, tss, status, current, cutting, made, running>>
  BY DEF DeleteThread, AtPc, GoTo, fields
<1>3. PICK t \in Threads : item = t
  BY <1>1, <1>2 DEF HandlesHeld
<1>4. InList(t) /\ status[t] = TERMINATED /\ t # current /\ ~IsIn(t, cutting)
  BY <1>1, <1>3 DEF Ended, IsDoomed
<1>5. KeepsPlace
  BY <1>1, <1>2, CutterKeepsPlace
\* The handle leaves the hand of the cutter; the others stay doomed.
<1>6. \A u \in Threads : IsDoomed(u)' <=> IsDoomed(u) /\ u # t
  BY <1>2, <1>3, <1>4, Kinds DEF IsDoomed
<1>7. ~IsIn(item', cutting') /\ \A i, j \in 1 .. Len(cutting') : cutting'[i] = cutting'[j] => i = j
  <2>1. ~IsIn(NoThread, cutting)
    <3>1. cutting \in Seq(Threads)
      BY <1>1 DEF TypeOK
    <3>2. \A i \in 1 .. Len(cutting) : cutting[i] \in Threads
      BY <3>1, ElementOfSeq
    <3> QED
      BY <3>2, Kinds DEF IsIn
  <2> QED
    BY <1>1, <1>2, <2>1 DEF Ended
<1>8. \A c \in Mains : made[c] # NoThread => made[c] \in Threads /\ made[c] # t /\ ~IsDoomed(made[c])
  BY <1>1, <1>3, Kinds DEF Holders, IsDoomed
<1>9. \A c \in Mains : pc'[c] = pc[c]
  BY <1>1, <1>2, Kinds DEF TypeOK
<1>10. \A u \in Mains \cup Spare : status[u] = TERMINATED => pc'[u] = "over"
  BY <1>1, <1>5, Kinds DEF Tasks, KeepsPlace
<1>11. CASE UNCHANGED <<threads, thread_count, allocated, stacks>>
  <2>1. \A u : InList(u)' <=> InList(u)
    BY <1>2, <1>11, SameInList
  <2>2. Booted' /\ Lists' /\ Heads'
    BY <1>1, <1>2, <1>11, SameLists, SameHeads
  <2>3. Holders' /\ Stacks'
    <3> SUFFICES ASSUME NEW c \in Mains, made[c] # NoThread PROVE ~IsDoomed(made[c])'
      BY <1>2, <1>5, <1>11, SameHolders
    <3>1. PICK m \in Threads : m = made[c]
      BY <1>8
    <3>2. ~IsDoomed(m)'
      BY <1>6, <1>8, <3>1
    <3> QED
      BY <1>2, <3>1, <3>2 DEF IsDoomed
  <2>4. Tasks'
    <3>1. InList(current)'
      BY <1>1, <1>2, <1>11 DEF Tasks, InList
    <3>2. current' = current /\ status' = status /\ tss' = tss
      BY <1>2
    <3> QED
      BY <1>1, <1>10, <2>1, <3>1, <3>2 DEF Tasks
  <2>5. Ended'
    BY <1>1, <1>2, <1>6, <1>7, <2>1 DEF Ended
  <2> QED
    BY <1>3, <1>4, <1>11, <2>1, <2>2, <2>3, <2>4, <2>5 DEF Safe
<1>12. CASE CanCut(item)
  <2>1. PICK p \in DriverSet : p = parent[t]
    BY <1>1, <1>3, <1>12 DEF CanCut, TypeOK, Processes
  <2>2. PICK list : list = Cut(p, t)
    OBVIOUS
  <2>3. /\ Len(list) = Len(threads[p]) - 1 /\ Len(list) \in Nat
        /\ \A u : IsIn(u, list) <=> IsIn(u, threads[p]) /\ u # t
        /\ \A j, k \in 1 .. Len(list) : list[j] = list[k] => j = k
        /\ list # << >> => list[1] = Main[p] /\ status[Main[p]] # TERMINATED
    <3>1. /\ Len(Cut(p, t)) = Len(threads[p]) - 1 /\ Len(Cut(p, t)) \in Nat
          /\ \A u : IsIn(u, Cut(p, t)) <=> IsIn(u, threads[p]) /\ u # t
          /\ \A j, k \in 1 .. Len(Cut(p, t)) : Cut(p, t)[j] = Cut(p, t)[k] => j = k
          /\ Cut(p, t) # << >> => Cut(p, t)[1] = Main[p] /\ status[Main[p]] # TERMINATED
      BY <1>2, <1>4, <2>1, CutListIs
    <3> QED
      BY <2>2, <3>1, Zenon
  <2>4. /\ threads' = [threads EXCEPT ![p] = list]
        /\ thread_count' = [thread_count EXCEPT ![p] = @ - 1]
        /\ stacks' = stacks \ {t} /\ allocated' = allocated \ {t}
    BY <1>3, <1>12, <2>1, <2>2 DEF DeleteThread, StacksWithout, BlocksWithout
  <2>5. /\ p \in Processes /\ p # System
        /\ \A q \in Processes : threads'[q] = IF q = p THEN list ELSE threads[q]
    BY <1>1, <2>4, Kinds DEF TypeOK
  <2>6. \A q \in Processes, u \in Threads : IsIn(u, threads'[q]) <=> IsIn(u, threads[q]) /\ u # t
    <3> SUFFICES ASSUME NEW q \in Processes, q # p, NEW u \in Threads
                 PROVE  IsIn(u, threads[q]) => u # t
      BY <2>3, <2>5
    <3> QED
      BY <1>1, <2>1 DEF Lists
  <2>7. \A u \in Threads : InList(u)' <=> InList(u) /\ u # t
    BY <1>1, <1>2, <2>6 DEF InList, TypeOK
  <2>8. Booted'
    BY <1>1, <1>2 DEF Booted
  <2>9. Lists'
    <3>1. CountsMatch'
      <4>1. Len(list) = thread_count[p] - 1
        BY <1>1, <2>3, <2>5 DEF Lists, CountsMatch
      <4> QED
        BY <1>1, <2>4, <2>5, <4>1 DEF Lists, CountsMatch, TypeOK
    <3>2. threads'[System] = SystemThreads
      BY <1>1, <2>5, Kinds DEF Lists
    <3>3. \A q \in Processes : threads'[q] # << >> => Created(q)'
      <4>1. \A q : Created(q)' <=> Created(q)
        BY <1>2 DEF Created
      <4>2. threads[p] # << >>
        BY <1>4, <2>1 DEF InList, IsIn
      <4> QED
        BY <1>1, <2>5, <4>1, <4>2 DEF Lists
    <3>4. \A q \in Processes, u \in Threads :
            IsIn(u, threads'[q]) => u \in allocated' /\ parent'[u] = q
      BY <1>1, <1>2, <2>4, <2>6 DEF Lists
    <3>5. \A q \in Processes : \A j, k \in 1 .. Len(threads'[q]) :
            threads'[q][j] = threads'[q][k] => j = k
      BY <1>1, <2>3, <2>5 DEF Lists
    <3> QED
      BY <3>1, <3>2, <3>3, <3>4, <3>5 DEF Lists
  <2>10. Heads'
    <3>1. \A q : Created(q)' <=> Created(q)
      BY <1>2 DEF Created
    <3> SUFFICES ASSUME NEW q \in DriverSet
                 PROVE  /\ Created(q) => parent[Main[q]] = q
                        /\ threads'[q] # << >> => /\ threads'[q][1] = Main[q]
                                                  /\ status[Main[q]] = TERMINATED => Len(threads'[q]) = 1
      BY <1>2, <3>1 DEF Heads
    <3> QED
      BY <1>1, <2>3, <2>5, Kinds DEF Heads
  <2>11. Holders'
    <3> SUFFICES ASSUME NEW c \in Mains, made[c] # NoThread
                 PROVE  /\ made[c] \in Spare /\ made[c] \in allocated' /\ ~IsDoomed(made[c])'
                        /\ parent[made[c]] = parent[c]
                        /\ auto_delete[made[c]] => status[made[c]] = STOP
                        /\ \A d \in Mains : made[d] = made[c] => d = c
                        /\ pc[c] \in {"stack", "link"} => ~InList(made[c])' /\ status[made[c]] = STOP
                        /\ pc[c] = "tss" => InList(made[c])' /\ status[made[c]] = STOP
                        /\ pc[c] \notin Creating => InList(made[c])' /\ tss[made[c]]
                        /\ pc[c] = "stack" => made[c] \notin stacks'
      BY <1>2, <1>9 DEF Holders
    <3>1. PICK m \in Threads : m = made[c] /\ m # t
      BY <1>8
    <3>2. ~IsDoomed(m)' /\ (InList(m)' <=> InList(m))
      BY <1>6, <1>8, <2>7, <3>1
    <3>3. ~IsDoomed(made[c])'
      BY <1>2, <3>1, <3>2 DEF IsDoomed
    <3>4. InList(made[c])' <=> InList(made[c])
      BY <1>2, <3>1, <3>2 DEF InList
    <3> QED
      BY <1>1, <2>4, <3>1, <3>3, <3>4 DEF Holders
  <2>12. Tasks'
    <3>1. PICK x \in Threads : x = current /\ x # t
      BY <1>1, <1>4 DEF TypeOK
    <3>2. InList(x)'
      BY <1>1, <2>7, <3>1 DEF Tasks
    <3>3. InList(current)'
      BY <1>2, <3>1, <3>2 DEF InList
    <3>4. current' = current /\ status' = status /\ tss' = tss
      BY <1>2
    <3> QED
      BY <1>1, <1>10, <2>7, <3>3, <3>4 DEF Tasks
  <2>13. Ended'
    BY <1>1, <1>2, <1>6, <1>7, <2>7 DEF Ended
  <2>14. Stacks'
    <3>1. ASSUME NEW u \in BeingMade, u # t PROVE u \in BeingMade'
      <4>1. PICK c \in Mains : u \in Threads /\ made[c] = u /\ pc[c] \in {"stack", "link"}
        BY DEF BeingMade
      <4> QED
        BY <1>2, <1>9, <4>1 DEF BeingMade
    <3>2. ASSUME NEW u \in stacks' PROVE InList(u)' \/ u \in BeingMade'
      <4>1. u \in stacks /\ u # t /\ u \in Threads
        BY <1>1, <2>4 DEF TypeOK
      <4> QED
        BY <1>1, <2>7, <3>1, <4>1 DEF Stacks
    <3> QED
      BY <1>1, <2>4, <3>2 DEF Stacks
  <2>15. Safe'
    BY <2>8, <2>9, <2>10, <2>11, <2>12, <2>13, <2>14 DEF Safe
  <2> QED
    BY <1>3, <1>4, <2>4, <2>7, <2>15
<1>13. CanCut(item) \/ UNCHANGED <<threads, thread_count, allocated, stacks>>
  BY DEF DeleteThread, memory
<1> QED
  BY <1>11, <1>12, <1>13, Zenon
----------------------------------------------------------------------------
(* Creation.                                                               *)

\* The block comes from the pool: it is in no list, nobody holds its handle
\* and nobody is to free it.
LEMMA AllocateSafe ==
    ASSUME SInv, NEW c \in Mains, NEW t \in Spare, NEW user \in BOOLEAN, NEW auto \in BOOLEAN,
           AllocateTCB(c, t, user, auto)
    PROVE  Safe' /\ ~InList(t) /\ \A u \in Threads : InList(u)' <=> InList(u) /\ u # t
<1>1. TypeOK /\ Booted /\ Lists /\ Heads /\ Holders /\ Tasks /\ Ended /\ Stacks
  BY DEF SInv, Safe, IInv
<1>2. /\ running /\ current = c /\ pc[c] = "run" /\ made[c] = NoThread /\ t \notin allocated
      /\ allocated' = allocated \cup {t}
      /\ parent' = [parent EXCEPT ![t] = parent[c]]
      /\ status' = [status EXCEPT ![t] = STOP]
      /\ \E b \in BOOLEAN : auto_delete' = [auto_delete EXCEPT ![t] = b]
      /\ tss' = [tss EXCEPT ![t] = FALSE]
      /\ made' = [made EXCEPT ![c] = t]
      /\ UNCHANGED <<procs, threads, thread_count, stacks, current, cutting, item, running>>
  <2>1. (auto /\ ~user) \in BOOLEAN
    OBVIOUS
  <2>2. auto_delete' = [auto_delete EXCEPT ![t] = auto /\ ~user]
    BY DEF AllocateTCB
  <2>3. \E b \in BOOLEAN : auto_delete' = [auto_delete EXCEPT ![t] = b]
    BY <2>1, <2>2, Zenon
  <2> QED
    BY <2>3 DEF AllocateTCB, AtPc, StatusOfNew, lists
<1>3. \E w \in {"link", "stack"} : pc' = [pc EXCEPT ![c] = w, ![t] = "run"]
  BY DEF AllocateTCB
<1>4. t \in Threads /\ t # c /\ t # current /\ t # NoThread /\ t \notin Mains /\ t \notin SystemSet
      /\ c \in Threads
  BY <1>2, Kinds
<1>5. /\ pc'[c] \in {"link", "stack"}
      /\ \A u \in Threads : u # c /\ u # t => pc'[u] = pc[u]
  BY <1>1, <1>3, <1>4 DEF TypeOK
<1>6. \A p \in Processes : ~IsIn(t, threads[p])
  BY <1>1, <1>2, <1>4 DEF Lists
<1>7. \A u \in Threads : /\ u # t => parent'[u] = parent[u] /\ status'[u] = status[u]
                                     /\ tss'[u] = tss[u] /\ auto_delete'[u] = auto_delete[u]
                         /\ status'[t] = STOP /\ parent'[t] = parent[c]
  BY <1>1, <1>2, <1>4 DEF TypeOK
<1>8. \A u \in Threads : InList(u)' <=> InList(u) /\ u # t
  <2>1. parent'[t] \in Processes /\ ~InList(t)
    BY <1>1, <1>4, <1>6, <1>7 DEF TypeOK, InList
  <2>2. ~InList(t)'
    BY <1>2, <1>6, <2>1 DEF InList
  <2>3. \A u \in Threads : u # t => (InList(u)' <=> InList(u))
    BY <1>2, <1>7 DEF InList
  <2> QED
    BY <2>1, <2>2, <2>3
<1>9. ~InList(t) /\ ~IsDoomed(t) /\ \A u : IsDoomed(u)' <=> IsDoomed(u)
  <2>1. ~InList(t)
    BY <1>1, <1>2, <1>4, ListedIsAllocated
  <2> QED
    BY <1>1, <1>2, <1>4, <2>1 DEF Ended, IsDoomed
<1>10. Booted'
  BY <1>1, <1>2 DEF Booted
<1>11. Lists'
  <2>1. CountsMatch'
    BY <1>1, <1>2 DEF Lists, CountsMatch
  <2>2. \A q : Created(q)' <=> Created(q)
    BY <1>2 DEF Created
  <2>3. \A q \in Processes, u \in Threads :
          IsIn(u, threads[q]) => u \in allocated' /\ parent'[u] = q
    BY <1>1, <1>2, <1>6, <1>7 DEF Lists
  <2>4. threads' = threads
    BY <1>2
  <2>5. \A q \in Processes, u \in Threads :
          IsIn(u, threads[q])' => u \in allocated' /\ parent'[u] = q
    BY <2>3, <2>4 DEF IsIn
  <2> QED
    BY <1>1, <2>1, <2>2, <2>4, <2>5 DEF Lists
<1>12. Heads'
  <2>1. \A q : Created(q)' <=> Created(q)
    BY <1>2 DEF Created
  <2>2. \A p \in DriverSet : Main[p] \in Threads /\ Main[p] # t
    BY <1>4, DriverAt
  <2>3. \A p \in DriverSet : parent'[Main[p]] = parent[Main[p]] /\ status'[Main[p]] = status[Main[p]]
    BY <1>7, <2>2
  <2> QED
    BY <1>1, <1>2, <2>1, <2>3 DEF Heads
<1>13. Holders'
  <2> SUFFICES ASSUME NEW d \in Mains, NEW m, m = made'[d], m # NoThread
               PROVE  /\ m \in Spare /\ m \in allocated' /\ ~IsDoomed(m)
                      /\ parent'[m] = parent'[d]
                      /\ auto_delete'[m] => status'[m] = STOP
                      /\ \A e \in Mains : made'[e] = m => e = d
                      /\ pc'[d] \in {"stack", "link"} => ~InList(m)' /\ status'[m] = STOP
                      /\ pc'[d] = "tss" => InList(m)' /\ status'[m] = STOP
                      /\ pc'[d] \notin Creating => InList(m)' /\ tss'[m]
                      /\ pc'[d] = "stack" => m \notin stacks
    BY <1>2 DEF Holders, IsDoomed, InList
  <2>1. \A e \in Mains : made'[e] = IF e = c THEN t ELSE made[e]
    BY <1>1, <1>2 DEF TypeOK
  <2>2. \A e \in Mains : made[e] # t
    BY <1>1, <1>2, <1>4 DEF Holders
  <2>3. CASE d = c
    <3>1. m = t
      BY <2>1, <2>3
    <3>2. parent'[c] = parent[c]
      BY <1>4, <1>7
    <3>3. t \notin stacks
      BY <1>1, <1>2 DEF Stacks
    <3>4. ~InList(m)' /\ m \in Threads
      BY <1>4, <1>8, <3>1
    <3>5. /\ m \in Spare /\ m \in allocated' /\ ~IsDoomed(m) /\ status'[m] = STOP
          /\ parent'[m] = parent'[d] /\ m \notin stacks
      BY <1>2, <1>4, <1>7, <1>9, <2>3, <3>1, <3>2, <3>3
    <3>6. \A e \in Mains : made'[e] = m => e = d
      BY <2>1, <2>2, <2>3, <3>1
    <3>7. pc'[d] \in {"stack", "link"} /\ pc'[d] # "tss" /\ pc'[d] \in Creating
      BY <1>5, <2>3 DEF Creating
    <3> QED
      BY <3>4, <3>5, <3>6, <3>7
  <2>4. CASE d # c
    <3>1. m = made[d] /\ m # t /\ d \in Threads /\ d # t
      BY <1>4, <2>1, <2>2, <2>4, Kinds
    <3>2. m \in Spare /\ m \in Threads
      BY <1>1, <3>1, Kinds DEF Holders
    <3>3. /\ parent'[m] = parent[m] /\ parent'[d] = parent[d] /\ status'[m] = status[m]
          /\ tss'[m] = tss[m] /\ auto_delete'[m] = auto_delete[m] /\ pc'[d] = pc[d]
          /\ InList(m)' <=> InList(m)
      BY <1>5, <1>7, <1>8, <2>4, <3>1, <3>2
    <3>4. \A e \in Mains : made'[e] = m => e = d
      BY <1>1, <2>1, <3>1 DEF Holders
    <3> QED
      BY <1>1, <1>2, <3>1, <3>3, <3>4 DEF Holders
  <2> QED
    BY <2>3, <2>4
<1>14. Tasks'
  <2>1. \A u \in Threads : InList(u)' /\ status'[u] # STOP => tss'[u]
    BY <1>1, <1>7, <1>8 DEF Tasks
  <2>2. \A u \in Mains \cup Spare : status'[u] = TERMINATED => pc'[u] = "over"
    <3> SUFFICES ASSUME NEW u \in Mains \cup Spare, status'[u] = TERMINATED PROVE pc'[u] = "over"
      OBVIOUS
    <3>1. u \in Threads /\ u # t
      BY <1>7, Kinds, StatusNames
    <3>2. status[u] = TERMINATED /\ pc[u] = "over"
      BY <1>1, <1>7, <3>1 DEF Tasks
    <3> QED
      BY <1>2, <1>5, <3>1, <3>2
  <2>3. \A u \in SystemSet : status'[u] # TERMINATED
    BY <1>1, <1>4, <1>7, Kinds DEF Tasks
  <2>4. InList(current)' /\ status'[current'] # STOP
    <3>1. InList(c)' /\ status'[c] # STOP
      BY <1>1, <1>2, <1>4, <1>7, <1>8 DEF Tasks
    <3> QED
      BY <1>2, <3>1 DEF InList
  <2> QED
    BY <2>1, <2>2, <2>3, <2>4 DEF Tasks
<1>15. Ended'
  <2>1. ASSUME NEW u \in Threads, IsDoomed(u)'
        PROVE  InList(u)' /\ status'[u] = TERMINATED /\ u # current'
    <3>1. IsDoomed(u) /\ u # t
      BY <1>9, <2>1
    <3> QED
      BY <1>1, <1>2, <1>7, <1>8, <3>1 DEF Ended
  <2> QED
    BY <1>1, <1>2, <2>1 DEF Ended
<1>16. Stacks'
  <2>1. ASSUME NEW u \in BeingMade PROVE u \in BeingMade'
    <3>1. PICK d \in Mains : u \in Threads /\ made[d] = u /\ pc[d] \in {"stack", "link"}
      BY DEF BeingMade
    <3>2. d # c /\ d # t /\ d \in Threads
      BY <1>2, <1>4, <3>1, Kinds
    <3>3. made'[d] = u /\ pc'[d] = pc[d]
      BY <1>1, <1>2, <1>5, <3>1, <3>2 DEF TypeOK
    <3> QED
      BY <3>1, <3>3 DEF BeingMade
  <2>2. ASSUME NEW u \in stacks PROVE InList(u)' \/ u \in BeingMade'
    <3>1. u \in Threads /\ u # t
      BY <1>1, <1>2 DEF Stacks, TypeOK
    <3> QED
      BY <1>1, <1>8, <2>1, <3>1 DEF Stacks
  <2> QED
    BY <1>1, <1>2, <2>2 DEF Stacks
<1> QED
  BY <1>8, <1>9, <1>10, <1>11, <1>12, <1>13, <1>14, <1>15, <1>16 DEF Safe

\* The steps that follow touch only what belongs to the creation of this maker.
LEMMA CreatorAlone ==
    ASSUME SInv, NEW c \in Mains, running, current = c, pc[c] \in Creating, NEW w \in Pcs \ {"over"},
           pc' = [pc EXCEPT ![c] = w], made[c] # NoThread
    PROVE  /\ \A d \in Mains : d # c => pc'[d] = pc[d] /\ made[d] # made[c]
           /\ pc'[c] = w /\ status[c] # TERMINATED /\ made[c] \in Spare /\ made[c] \in Threads
           /\ made[c] # c /\ c \in Threads
           /\ \A u \in Mains \cup Spare : status[u] = TERMINATED => pc'[u] = "over"
<1>1. TypeOK /\ Holders /\ Tasks /\ c \in Threads
  BY Kinds DEF SInv, Safe, IInv
<1>2. status[c] # TERMINATED
  BY <1>1 DEF Tasks, Creating
<1>3. \A u \in Threads : pc'[u] = IF u = c THEN w ELSE pc[u]
  BY <1>1 DEF TypeOK
<1>4. \A u \in Mains \cup Spare : status[u] = TERMINATED => pc'[u] = "over"
  BY <1>1, <1>2, <1>3, Kinds DEF Tasks
<1>5. \A d \in Mains : d # c => pc'[d] = pc[d] /\ made[d] # made[c]
  BY <1>1, <1>3, Kinds DEF Holders
<1>6. made[c] \in Spare /\ made[c] \in Threads /\ made[c] # c
  BY <1>1, Kinds DEF Holders
<1> QED
  BY <1>1, <1>2, <1>3, <1>4, <1>5, <1>6
\* A refusal leaves the block without a list, a stack or a holder.
LEMMA StackSafe ==
    ASSUME SInv, NEW c \in Mains, AllocateStack(c)
    PROVE  Safe'
<1>1. TypeOK /\ HandlesHeld /\ Booted /\ Lists /\ Heads /\ Holders /\ Tasks /\ Ended /\ Stacks
  BY DEF SInv, Safe, IInv
<1>2. /\ running /\ current = c /\ pc[c] = "stack"
      /\ UNCHANGED <<procs, threads, thread_count, allocated, parent, auto_delete, tss,
                     status, current, cutting, item, running>>
  BY DEF AllocateStack, AtPc, lists, fields
<1>3. made[c] # NoThread
  BY <1>1, <1>2, Kinds DEF HandlesHeld
<1>4. PICK w \in {"link", "run"} :
        /\ pc' = [pc EXCEPT ![c] = w]
        /\ \/ w = "link" /\ stacks' = stacks \cup {made[c]} /\ UNCHANGED made
           \/ w = "run" /\ made' = [made EXCEPT ![c] = NoThread] /\ UNCHANGED stacks
  BY DEF AllocateStack, GoTo
<1>5. /\ \A d \in Mains : d # c => pc'[d] = pc[d] /\ made[d] # made[c]
      /\ pc'[c] = w /\ made[c] \in Threads
      /\ \A u \in Mains \cup Spare : status[u] = TERMINATED => pc'[u] = "over"
  <2>1. w \in Pcs \ {"over"} /\ pc[c] \in Creating
    BY <1>2 DEF Pcs, Creating
  <2> QED
    BY <1>2, <1>3, <1>4, <2>1, CreatorAlone
<1>6. /\ \A d \in Mains : d # c => made'[d] = made[d]
      /\ made'[c] = IF w = "link" THEN made[c] ELSE NoThread
  BY <1>1, <1>4 DEF TypeOK
<1>7. /\ \A u : InList(u)' <=> InList(u)
      /\ \A u : IsDoomed(u)' <=> IsDoomed(u)
  BY <1>2, SameInList DEF IsDoomed
<1>8. Booted' /\ Lists' /\ Heads'
  BY <1>1, <1>2, SameLists, SameHeads
<1>9. Holders'
  <2> SUFFICES ASSUME NEW d \in Mains, made'[d] # NoThread
               PROVE  /\ made'[d] \in Spare /\ made'[d] \in allocated /\ ~IsDoomed(made'[d])
                      /\ parent[made'[d]] = parent[d]
                      /\ auto_delete[made'[d]] => status[made'[d]] = STOP
                      /\ \A e \in Mains : made'[e] = made'[d] => e = d
                      /\ pc'[d] \in {"stack", "link"} => ~InList(made'[d]) /\ status[made'[d]] = STOP
                      /\ pc'[d] = "tss" => InList(made'[d]) /\ status[made'[d]] = STOP
                      /\ pc'[d] \notin Creating => InList(made'[d]) /\ tss[made'[d]]
                      /\ pc'[d] = "stack" => made'[d] \notin stacks'
    BY <1>2 DEF Holders, IsDoomed, InList
  <2>1. made'[d] = made[d] /\ \A e \in Mains : made'[e] = made'[d] => made[e] = made[d]
    BY <1>3, <1>6
  <2>2. CASE d = c
    <3>1. w = "link" /\ pc'[d] = "link"
      BY <1>5, <1>6, <2>2
    <3> QED
      BY <1>1, <1>2, <2>1, <2>2, <3>1 DEF Holders, Creating
  <2>3. CASE d # c
    <3>1. pc'[d] = pc[d] /\ made[d] # made[c]
      BY <1>5, <2>3
    <3>2. made[d] \notin stacks => made[d] \notin stacks'
      BY <1>4, <3>1
    <3> QED
      BY <1>1, <2>1, <3>1, <3>2 DEF Holders
  <2> QED
    BY <2>2, <2>3
<1>10. Tasks'
  <2>1. InList(current)'
    BY <1>1, <1>2 DEF Tasks, InList
  <2>2. current' = current /\ status' = status /\ tss' = tss
    BY <1>2
  <2> QED
    BY <1>1, <1>5, <1>7, <2>1, <2>2 DEF Tasks
<1>11. Ended'
  BY <1>1, <1>2, <1>7 DEF Ended
<1>12. Stacks'
  <2>1. made[c] \in allocated /\ made[c] \notin stacks
    BY <1>1, <1>2, <1>3 DEF Holders
  <2>2. ASSUME NEW u \in BeingMade, u # made[c] PROVE u \in BeingMade'
    <3>1. PICK d \in Mains : u \in Threads /\ made[d] = u /\ pc[d] \in {"stack", "link"}
      BY DEF BeingMade
    <3>2. pc'[d] = pc[d] /\ made'[d] = u
      BY <1>5, <1>6, <2>2, <3>1
    <3> QED
      BY <3>1, <3>2 DEF BeingMade
  <2>3. w = "link" => made[c] \in BeingMade'
    BY <1>5, <1>6 DEF BeingMade
  <2>4. ASSUME NEW u \in stacks' PROVE InList(u)' \/ u \in BeingMade'
    BY <1>1, <1>4, <1>7, <2>1, <2>2, <2>3 DEF Stacks
  <2>5. stacks' \subseteq allocated'
    BY <1>1, <1>2, <1>4, <2>1 DEF Stacks
  <2> QED
    BY <2>4, <2>5 DEF Stacks
<1> QED
  BY <1>8, <1>9, <1>10, <1>11, <1>12 DEF Safe

\* The block goes to the end of the list its maker is in: there is a thread
\* before it, and the maker has not ended.
LEMMA LinkSafe ==
    ASSUME SInv, NEW c \in Mains, PspAddNewThread(c)
    PROVE  Safe' /\ made[c] \in Spare /\ \A u \in Threads : InList(u)' <=> InList(u) \/ u = made[c]
<1>1. TypeOK /\ HandlesHeld /\ Booted /\ Lists /\ Heads /\ Holders /\ Tasks /\ Ended /\ Stacks
  BY DEF SInv, Safe, IInv
<1>2. running /\ current = c /\ pc[c] = "link"
  BY DEF PspAddNewThread, AtPc
<1>3. PICK t \in Threads : made[c] = t
  BY <1>1, <1>2 DEF HandlesHeld
<1>4. /\ t # NoThread /\ t \in Spare /\ t \in allocated /\ ~IsDoomed(t) /\ parent[t] = parent[c]
      /\ ~InList(t) /\ status[t] = STOP
  BY <1>1, <1>2, <1>3, Kinds DEF Holders
<1>5. PICK p \in DriverSet : c = Main[p] /\ parent[c] = p
  BY <1>1, <1>2, MainOfProcess
<1>6. /\ threads' = [threads EXCEPT ![p] = Append(@, t)]
      /\ thread_count' = [thread_count EXCEPT ![p] = @ + 1]
      /\ pc' = [pc EXCEPT ![c] = "tss"]
      /\ UNCHANGED <<procs, allocated, stacks, parent, auto_delete, tss, status, current,
                     cutting, made, item, running>>
  BY <1>3, <1>4, <1>5 DEF PspAddNewThread, GoTo, memory, fields
<1>7. /\ \A d \in Mains : d # c => pc'[d] = pc[d] /\ made[d] # t
      /\ pc'[c] = "tss" /\ status[c] # TERMINATED
      /\ \A u \in Mains \cup Spare : status[u] = TERMINATED => pc'[u] = "over"
  <2>1. "tss" \in Pcs \ {"over"} /\ pc[c] \in Creating
    BY <1>2 DEF Pcs, Creating
  <2> QED
    BY <1>2, <1>3, <1>4, <1>6, <2>1, CreatorAlone
<1>8. p \in Processes /\ p # System /\ IsIn(c, threads[p]) /\ threads[p] # << >>
  <2>1. IsIn(c, threads[p])
    BY <1>1, <1>2, <1>5 DEF Tasks, InList
  <2> QED
    BY <2>1, Kinds DEF IsIn
<1>9. PICK list : list = Append(threads[p], t)
  OBVIOUS
<1>10. /\ \A u : IsIn(u, list) <=> IsIn(u, threads[p]) \/ u = t
       /\ Len(list) = Len(threads[p]) + 1 /\ Len(threads[p]) \in Nat
       /\ \A i, j \in 1 .. Len(list) : list[i] = list[j] => i = j
       /\ list[1] = threads[p][1]
  <2>1. threads[p] \in Seq(Threads) /\ Len(threads[p]) \in Nat
    BY <1>1, <1>8 DEF TypeOK
  <2>2. ~IsIn(t, threads[p]) /\ \A i, j \in 1 .. Len(threads[p]) : threads[p][i] = threads[p][j] => i = j
    BY <1>1, <1>4, <1>5, <1>8 DEF InList, Lists
  <2> DEFINE a == Append(threads[p], t)
  <2>3. /\ \A u : IsIn(u, a) <=> IsIn(u, threads[p]) \/ u = t
        /\ Len(a) = Len(threads[p]) + 1
        /\ threads[p] # << >> => a[1] = threads[p][1]
    BY <2>1, AppendedIsIn
  <2>4. \A i, j \in 1 .. Len(a) : a[i] = a[j] => i = j
    BY <2>1, <2>2, AppendedIsIn
  <2>5. list = a
    BY <1>9
  <2> HIDE DEF a
  <2> QED
    BY <1>8, <2>1, <2>3, <2>4, <2>5
<1>11. \A q \in Processes : threads'[q] = IF q = p THEN list ELSE threads[q]
  BY <1>1, <1>6, <1>8, <1>9 DEF TypeOK
<1>12. \A u \in Threads : InList(u)' <=> InList(u) \/ u = t
  <2> SUFFICES ASSUME NEW u \in Threads PROVE InList(u)' <=> InList(u) \/ u = t
    OBVIOUS
  <2>1. parent[u] \in Processes /\ parent' = parent /\ parent[t] = p
    BY <1>1, <1>4, <1>5, <1>6 DEF TypeOK
  <2>2. InList(u)' <=> IsIn(u, threads'[parent[u]])
    BY <2>1 DEF InList
  <2> QED
    BY <1>10, <1>11, <2>1, <2>2 DEF InList
<1>13. Booted'
  BY <1>1, <1>2, <1>6 DEF Booted
<1>14. Lists'
  <2>1. CountsMatch'
    <3>1. thread_count[p] = Len(threads[p])
      BY <1>1, <1>8 DEF Lists, CountsMatch
    <3>2. \A q \in Processes : thread_count'[q] = IF q = p THEN Len(list) ELSE thread_count[q]
      BY <1>1, <1>6, <1>8, <1>10, <3>1 DEF TypeOK
    <3> QED
      BY <1>1, <1>11, <3>2 DEF Lists, CountsMatch
  <2>2. threads'[System] = SystemThreads
    BY <1>1, <1>8, <1>11, Kinds DEF Lists
  <2>3. \A q \in Processes : threads'[q] # << >> => Created(q)'
    <3>1. \A q : Created(q)' <=> Created(q)
      BY <1>6 DEF Created
    <3> QED
      BY <1>1, <1>8, <1>11, <3>1 DEF Lists
  <2>4. \A q \in Processes, u \in Threads : IsIn(u, threads'[q]) => u \in allocated /\ parent[u] = q
    BY <1>1, <1>4, <1>5, <1>10, <1>11 DEF Lists
  <2>5. \A q \in Processes : \A j, k \in 1 .. Len(threads'[q]) :
          threads'[q][j] = threads'[q][k] => j = k
    <3> SUFFICES ASSUME NEW q \in Processes
                 PROVE  \A j, k \in 1 .. Len(threads'[q]) :
                          threads'[q][j] = threads'[q][k] => j = k
      OBVIOUS
    <3>1. CASE q = p
      BY <1>10, <1>11, <3>1
    <3>2. CASE q # p
      BY <1>1, <1>11, <3>2 DEF Lists
    <3> QED
      BY <3>1, <3>2
  <2> QED
    BY <1>6, <2>1, <2>2, <2>3, <2>4, <2>5 DEF Lists
<1>15. Heads'
  <2>1. \A q : Created(q)' <=> Created(q)
    BY <1>6 DEF Created
  <2> SUFFICES ASSUME NEW q \in DriverSet
               PROVE  /\ Created(q) => parent[Main[q]] = q
                      /\ threads'[q] # << >> => /\ threads'[q][1] = Main[q]
                                                /\ status[Main[q]] = TERMINATED => Len(threads'[q]) = 1
    BY <1>6, <2>1 DEF Heads
  <2> QED
    BY <1>1, <1>5, <1>7, <1>8, <1>10, <1>11, Kinds DEF Heads
<1>16. Holders'
  <2> SUFFICES ASSUME NEW d \in Mains, NEW m, m = made[d], m # NoThread
               PROVE  /\ m \in Spare /\ m \in allocated /\ ~IsDoomed(m)
                      /\ parent[m] = parent[d]
                      /\ auto_delete[m] => status[m] = STOP
                      /\ \A e \in Mains : made[e] = m => e = d
                      /\ pc'[d] \in {"stack", "link"} => ~InList(m)' /\ status[m] = STOP
                      /\ pc'[d] = "tss" => InList(m)' /\ status[m] = STOP
                      /\ pc'[d] \notin Creating => InList(m)' /\ tss[m]
                      /\ pc'[d] = "stack" => m \notin stacks
    BY <1>6 DEF Holders, IsDoomed, InList
  <2>1. /\ m \in Spare /\ m \in allocated /\ ~IsDoomed(m) /\ parent[m] = parent[d]
        /\ auto_delete[m] => status[m] = STOP
        /\ \A e \in Mains : made[e] = m => e = d
    BY <1>1 DEF Holders
  <2>2. CASE d = c
    <3>1. m = t /\ InList(m)' /\ status[m] = STOP /\ pc'[d] = "tss" /\ "tss" \in Creating
      BY <1>3, <1>4, <1>7, <1>12, <2>2 DEF Creating
    <3> QED
      BY <2>1, <3>1
  <2>3. CASE d # c
    <3>1. m # t /\ m \in Threads /\ pc'[d] = pc[d]
      BY <1>7, <2>1, <2>3, Kinds
    <3>2. InList(m)' <=> InList(m)
      BY <1>12, <3>1
    <3> QED
      BY <1>1, <2>1, <3>1, <3>2 DEF Holders
  <2> QED
    BY <2>2, <2>3
<1>17. Tasks'
  <2>1. InList(current)'
    <3>1. InList(c)' /\ c \in Threads
      BY <1>1, <1>2, <1>12, Kinds DEF Tasks
    <3> QED
      BY <1>2, <1>6, <3>1 DEF InList
  <2>2. \A u \in Threads : InList(u)' /\ status[u] # STOP => tss[u]
    BY <1>1, <1>4, <1>12 DEF Tasks
  <2> QED
    BY <1>1, <1>6, <1>7, <2>1, <2>2 DEF Tasks
<1>18. Ended'
  BY <1>1, <1>6, <1>12 DEF Ended, IsDoomed
<1>19. Stacks'
  <2>1. ASSUME NEW u \in BeingMade, u # t PROVE u \in BeingMade'
    <3>1. PICK d \in Mains : u \in Threads /\ made[d] = u /\ pc[d] \in {"stack", "link"}
      BY DEF BeingMade
    <3>2. pc'[d] = pc[d]
      BY <1>3, <1>7, <2>1, <3>1
    <3> QED
      BY <1>6, <3>1, <3>2 DEF BeingMade
  <2>2. ASSUME NEW u \in stacks PROVE InList(u)' \/ u \in BeingMade'
    <3>1. u \in Threads
      BY <1>1 DEF TypeOK
    <3> QED
      BY <1>1, <1>12, <2>1, <3>1 DEF Stacks
  <2> QED
    BY <1>1, <1>6, <2>2 DEF Stacks
<1> QED
  BY <1>3, <1>4, <1>12, <1>13, <1>14, <1>15, <1>16, <1>17, <1>18, <1>19 DEF Safe

LEMMA TaskStateSafe ==
    ASSUME SInv, NEW c \in Mains, SetupTSS(c)
    PROVE  Safe'
<1>1. TypeOK /\ HandlesHeld /\ Booted /\ Lists /\ Heads /\ Holders /\ Tasks /\ Ended /\ Stacks
  BY DEF SInv, Safe, IInv
<1>2. running /\ current = c /\ pc[c] = "tss"
  BY DEF SetupTSS, AtPc
<1>3. PICK t \in Threads : made[c] = t
  BY <1>1, <1>2 DEF HandlesHeld
<1>4. t # NoThread /\ InList(t)
  BY <1>1, <1>2, <1>3, Kinds DEF Holders
<1>5. /\ tss' = [tss EXCEPT ![t] = TRUE] /\ pc' = [pc EXCEPT ![c] = "start"]
      /\ UNCHANGED <<procs, threads, thread_count, allocated, stacks, parent, auto_delete,
                     status, current, cutting, made, item, running>>
  BY <1>3 DEF SetupTSS, GoTo, lists, memory
<1>6. /\ \A d \in Mains : d # c => pc'[d] = pc[d] /\ made[d] # t
      /\ pc'[c] = "start"
      /\ \A u \in Mains \cup Spare : status[u] = TERMINATED => pc'[u] = "over"
  <2>1. "start" \in Pcs \ {"over"} /\ pc[c] \in Creating
    BY <1>2 DEF Pcs, Creating
  <2> QED
    BY <1>2, <1>3, <1>4, <1>5, <2>1, CreatorAlone
<1>7. /\ \A u : InList(u)' <=> InList(u)
      /\ \A u \in Threads : tss[u] => tss'[u]
      /\ tss'[t]
  BY <1>1, <1>5, SameInList DEF TypeOK
<1>8. Booted' /\ Lists' /\ Heads'
  BY <1>1, <1>2, <1>5, SameLists, SameHeads
<1>9. Holders'
  <2> SUFFICES ASSUME NEW d \in Mains, NEW m, m = made[d], m # NoThread
               PROVE  /\ m \in Spare /\ m \in allocated /\ ~IsDoomed(m)
                      /\ parent[m] = parent[d]
                      /\ auto_delete[m] => status[m] = STOP
                      /\ \A e \in Mains : made[e] = m => e = d
                      /\ pc'[d] \in {"stack", "link"} => ~InList(m) /\ status[m] = STOP
                      /\ pc'[d] = "tss" => InList(m) /\ status[m] = STOP
                      /\ pc'[d] \notin Creating => InList(m) /\ tss'[m]
                      /\ pc'[d] = "stack" => m \notin stacks
    BY <1>5 DEF Holders, IsDoomed, InList
  <2>1. /\ m \in Spare /\ m \in Threads /\ m \in allocated /\ ~IsDoomed(m) /\ parent[m] = parent[d]
        /\ auto_delete[m] => status[m] = STOP
        /\ \A e \in Mains : made[e] = m => e = d
    BY <1>1, Kinds DEF Holders
  <2>2. CASE d = c
    BY <1>3, <1>4, <1>6, <1>7, <2>1, <2>2
  <2>3. CASE d # c
    BY <1>1, <1>6, <1>7, <2>1, <2>3 DEF Holders
  <2> QED
    BY <2>2, <2>3
<1>10. Tasks'
  <2>1. InList(current)'
    BY <1>1, <1>5 DEF Tasks, InList
  <2>2. \A u \in Threads : InList(u)' /\ status[u] # STOP => tss'[u]
    BY <1>1, <1>7 DEF Tasks
  <2> QED
    BY <1>1, <1>5, <1>6, <2>1, <2>2 DEF Tasks
<1>11. Ended'
  BY <1>1, <1>5, <1>7 DEF Ended, IsDoomed
<1>12. Stacks'
  <2>1. ASSUME NEW u \in BeingMade PROVE u \in BeingMade'
    <3>1. PICK d \in Mains : u \in Threads /\ made[d] = u /\ pc[d] \in {"stack", "link"}
      BY DEF BeingMade
    <3>2. d # c /\ pc'[d] = pc[d]
      BY <1>2, <1>6, <3>1
    <3> QED
      BY <1>5, <3>1, <3>2 DEF BeingMade
  <2> QED
    BY <1>1, <1>5, <1>7, <2>1 DEF Stacks
<1> QED
  BY <1>8, <1>9, <1>10, <1>11, <1>12 DEF Safe

----------------------------------------------------------------------------
(* Boot.                                                                   *)

LEMMA EnterSafe ==
    ASSUME SInv, EnterIdleThread
    PROVE  Safe'
<1>1. TypeOK /\ Booted /\ Lists /\ Heads /\ Holders /\ Tasks /\ Ended /\ Stacks
  BY DEF SInv, Safe, IInv
<1>2. /\ Len(procs) = Len(Drivers) + 1 /\ running' = TRUE
      /\ UNCHANGED <<procs, threads, thread_count, allocated, stacks, parent, auto_delete, tss,
                     status, current, cutting, pc, made, item>>
  BY DEF EnterIdleThread, lists, memory, fields
<1>3. Booted'
  BY <1>1, <1>2 DEF Booted
<1>4. Lists'
  BY <1>1, <1>2 DEF Lists, CountsMatch, Created, IsIn
<1>5. Heads'
  BY <1>1, <1>2 DEF Heads, Created
<1>6. Holders'
  BY <1>1, <1>2 DEF Holders, IsDoomed, InList
<1>7. Tasks' /\ Ended'
  BY <1>1, <1>2 DEF Tasks, Ended, IsDoomed, InList
<1>8. Stacks'
  BY <1>1, <1>2 DEF Stacks, BeingMade, InList
<1> QED
  BY <1>3, <1>4, <1>5, <1>6, <1>7, <1>8 DEF Safe

\* The main is in no list before: the processes created so far have one thread
\* each, their own main.
LEMMA InitializeSafe ==
    ASSUME SInv, NEW p \in DriverSet, InitializeDriver(p)
    PROVE  Safe' /\ \A u \in Threads : InList(u)' <=> InList(u) \/ u = Main[p]
<1>1. TypeOK /\ Booted /\ Lists /\ Heads /\ Holders /\ Tasks /\ Ended /\ Stacks
  BY DEF SInv, Safe, IInv
<1>2. PICK c \in Mains : c = Main[p]
  BY DriverAt
<1>3. c \in Threads /\ p \in Processes /\ p # System /\ c \notin SystemSet /\ c \notin Spare
  BY Kinds
<1>4. /\ ~running /\ Len(procs) <= Len(Drivers) /\ p = Drivers[Len(procs)]
      /\ procs' = Append(procs, p)
      /\ threads' = [threads EXCEPT ![p] = <<c>>]
      /\ thread_count' = [thread_count EXCEPT ![p] = 1]
      /\ allocated' = allocated \cup {c} /\ stacks' = stacks \cup {c}
      /\ parent' = [parent EXCEPT ![c] = p]
      /\ status' = [status EXCEPT ![c] = READY]
      /\ tss' = [tss EXCEPT ![c] = TRUE]
      /\ UNCHANGED <<current, cutting, pc, made, item, running>>
  BY <1>2 DEF InitializeDriver
<1>5. /\ cutting = << >> /\ item = NoThread
      /\ \A d \in Mains : made[d] = NoThread /\ pc[d] = "run"
      /\ \A q \in DriverSet : Len(threads[q]) <= 1
  BY <1>1, <1>4 DEF Booted
<1>6. /\ Len(procs) \in Nat \ {0} /\ Len(Drivers) \in Nat
      /\ Len(procs') = Len(procs) + 1 /\ procs'[Len(procs) + 1] = p
      /\ \A i \in 1 .. Len(procs) : procs'[i] = procs[i]
  BY <1>1, <1>4, ConfigurationAssumption DEF TypeOK, Booted
<1>7. ~Created(p)
  <2> SUFFICES ASSUME NEW i \in 1 .. Len(procs), procs[i] = p PROVE FALSE
    BY DEF Created
  <2>1. i # 1 /\ Drivers[i - 1] = p /\ i - 1 \in 1 .. Len(Drivers) /\ i - 1 # Len(procs)
        /\ Len(procs) \in 1 .. Len(Drivers)
    BY <1>1, <1>3, <1>4, <1>6 DEF Booted
  <2> QED
    BY <1>4, <2>1, ConfigurationAssumption
<1>8. \A q : Created(q)' <=> Created(q) \/ q = p
  BY <1>6 DEF Created
<1>9. \A q \in Processes : /\ threads'[q] = IF q = p THEN <<c>> ELSE threads[q]
                           /\ thread_count'[q] = IF q = p THEN 1 ELSE thread_count[q]
  BY <1>1, <1>3, <1>4 DEF TypeOK
<1>10. \A u \in Threads : /\ u # c => parent'[u] = parent[u] /\ status'[u] = status[u] /\ tss'[u] = tss[u]
                          /\ parent'[c] = p /\ status'[c] = READY /\ tss'[c]
  BY <1>1, <1>3, <1>4 DEF TypeOK
<1>11. \A u : IsIn(u, <<c>>) <=> u = c
  BY DEF IsIn
<1>12. ASSUME NEW q \in Processes PROVE ~IsIn(c, threads[q])
  <2>1. CASE q = System
    BY <1>1, <1>3, <2>1, SystemThreadsAre DEF Lists
  <2>2. CASE q \in DriverSet
    <3> SUFFICES ASSUME IsIn(c, threads[q]) PROVE FALSE
      OBVIOUS
    <3>1. PICK k \in 1 .. Len(threads[q]) : threads[q][k] = c
      BY DEF IsIn
    <3>2. threads[q] # << >> /\ k = 1
      <4>1. Len(threads[q]) \in Nat /\ Len(threads[q]) <= 1
        BY <1>1, <1>5, <2>2 DEF TypeOK
      <4> QED
        BY <3>1, <4>1
    <3>3. Main[q] = Main[p]
      BY <1>1, <1>2, <2>2, <3>1, <3>2 DEF Heads
    <3>4. q = p
      BY <2>2, <3>3, MainsDiffer
    <3> QED
      BY <1>1, <1>7, <3>2, <3>4 DEF Lists
  <2> QED
    BY <2>1, <2>2 DEF Processes
<1>13. \A u \in Threads : InList(u)' <=> InList(u) \/ u = c
  <2>1. InList(c)'
    BY <1>3, <1>9, <1>10, <1>11 DEF InList
  <2>2. ASSUME NEW u \in Threads, u # c PROVE InList(u)' <=> InList(u)
    <3>1. parent'[u] = parent[u] /\ parent[u] \in Processes
      BY <1>1, <1>10, <2>2 DEF TypeOK
    <3>2. threads[p] = << >> /\ ~IsIn(u, << >>) /\ ~IsIn(u, <<c>>)
      BY <1>1, <1>3, <1>7, <1>11, <2>2 DEF Lists, IsIn
    <3> QED
      BY <1>9, <3>1, <3>2 DEF InList
  <2>3. \A u \in Threads : u = c => InList(u)'
    BY <1>3, <1>9, <1>10, <1>11 DEF InList
  <2> QED
    BY <2>2, <2>3
<1>14. Booted'
  <2>1. Len(procs') \in 1 .. Len(Drivers) + 1
    BY <1>4, <1>6
  <2>2. \A i \in 1 .. Len(procs') : procs'[i] = IF i = 1 THEN System ELSE Drivers[i - 1]
    <3> SUFFICES ASSUME NEW i \in 1 .. Len(procs')
                 PROVE  procs'[i] = IF i = 1 THEN System ELSE Drivers[i - 1]
      OBVIOUS
    <3>1. CASE i \in 1 .. Len(procs)
      BY <1>1, <1>6, <3>1 DEF Booted
    <3>2. CASE i = Len(procs) + 1
      BY <1>4, <1>6, <3>2
    <3> QED
      BY <1>6, <3>1, <3>2
  <2>3. \A q \in DriverSet : Len(threads'[q]) <= 1
    <3>1. Len(<<c>>) = 1
      OBVIOUS
    <3>2. \A q \in DriverSet : threads'[q] = <<c>> \/ threads'[q] = threads[q]
      BY <1>9, Kinds
    <3> SUFFICES ASSUME NEW q \in DriverSet PROVE Len(threads'[q]) <= 1
      OBVIOUS
    <3>3. CASE threads'[q] = <<c>>
      BY <3>1, <3>3
    <3>4. CASE threads'[q] = threads[q]
      BY <1>5, <3>4
    <3> QED
      BY <3>2, <3>3, <3>4
  <2> QED
    BY <1>4, <1>5, <2>1, <2>2, <2>3 DEF Booted
<1>15. Lists'
  <2>1. CountsMatch'
    BY <1>1, <1>9 DEF Lists, CountsMatch
  <2>2. threads'[System] = SystemThreads
    BY <1>1, <1>3, <1>9, Kinds DEF Lists
  <2>3. \A q \in Processes : threads'[q] # << >> => Created(q)'
    BY <1>1, <1>8, <1>9 DEF Lists
  <2>4. \A q \in Processes, u \in Threads : IsIn(u, threads'[q]) => u \in allocated' /\ parent'[u] = q
    <3> SUFFICES ASSUME NEW q \in Processes, NEW u \in Threads, IsIn(u, threads'[q])
                 PROVE  u \in allocated' /\ parent'[u] = q
      OBVIOUS
    <3>1. CASE q = p
      <4>1. u = c
        BY <1>9, <1>11, <3>1
      <4> QED
        BY <1>3, <1>4, <1>10, <3>1, <4>1
    <3>2. CASE q # p
      BY <1>1, <1>4, <1>9, <1>10, <1>12, <3>2 DEF Lists
    <3> QED
      BY <3>1, <3>2
  <2>5. \A q \in Processes : \A j, k \in 1 .. Len(threads'[q]) :
          threads'[q][j] = threads'[q][k] => j = k
    BY <1>1, <1>9 DEF Lists
  <2> QED
    BY <2>1, <2>2, <2>3, <2>4, <2>5 DEF Lists
<1>16. Heads'
  <2> SUFFICES ASSUME NEW q \in DriverSet
               PROVE  /\ Created(q)' => parent'[Main[q]] = q
                      /\ threads'[q] # << >> => /\ threads'[q][1] = Main[q]
                                                /\ status'[Main[q]] = TERMINATED => Len(threads'[q]) = 1
    BY DEF Heads
  <2>1. CASE q = p
    BY <1>2, <1>3, <1>9, <1>10, <2>1
  <2>2. CASE q # p
    <3>1. Main[q] # c /\ Main[q] \in Threads /\ q \in Processes
      BY <1>2, <2>2, DriverAt, MainsDiffer
    <3> QED
      BY <1>1, <1>8, <1>9, <1>10, <2>2, <3>1 DEF Heads
  <2> QED
    BY <2>1, <2>2
<1>17. Holders'
  BY <1>4, <1>5 DEF Holders
<1>18. Tasks'
  <2>1. \A u \in Threads : InList(u)' /\ status'[u] # STOP => tss'[u]
    BY <1>1, <1>10, <1>13 DEF Tasks
  <2>2. \A u \in Mains \cup Spare : status'[u] = TERMINATED => pc'[u] = "over"
    BY <1>1, <1>4, <1>10, Kinds, StatusNames DEF Tasks
  <2>3. \A u \in SystemSet : status'[u] # TERMINATED
    BY <1>1, <1>3, <1>10, Kinds DEF Tasks
  <2>4. PICK x \in Threads : x = current
    BY <1>1 DEF TypeOK
  <2>5. InList(x)' /\ status'[x] # STOP
    BY <1>1, <1>10, <1>13, <2>4, StatusNames DEF Tasks
  <2>6. InList(current)' /\ status'[current'] # STOP
    BY <1>4, <2>4, <2>5 DEF InList
  <2> QED
    BY <2>1, <2>2, <2>3, <2>6 DEF Tasks
<1>19. Ended'
  <2>1. \A u : ~IsIn(u, << >>)
    BY DEF IsIn
  <2>2. cutting' = << >> /\ item' = NoThread
    BY <1>4, <1>5
  <2>3. \A u \in Threads : ~IsDoomed(u)'
    BY <2>1, <2>2, Kinds DEF IsDoomed
  <2> QED
    BY <2>1, <2>2, <2>3 DEF Ended
<1>20. Stacks'
  <2>1. BeingMade = {}
    BY <1>5 DEF BeingMade
  <2>2. \A u \in stacks' : InList(u)'
    BY <1>1, <1>3, <1>4, <1>13, <2>1 DEF Stacks, TypeOK
  <2> QED
    BY <1>1, <1>4, <2>2 DEF Stacks
<1> QED
  BY <1>2, <1>13, <1>14, <1>15, <1>16, <1>17, <1>18, <1>19, <1>20 DEF Safe

----------------------------------------------------------------------------
(* Every step.                                                             *)

LEMMA SafeUnchanged ==
    ASSUME SInv, UNCHANGED vars
    PROVE  Safe'
<1>1. /\ Booted /\ Lists /\ Heads /\ Holders /\ Tasks /\ Ended /\ Stacks
      /\ UNCHANGED <<procs, threads, thread_count, allocated, stacks, parent, auto_delete, tss,
                     status, current, cutting, pc, made, item, running>>
  BY DEF SInv, Safe, vars, lists, memory, fields
<1>2. Booted'
  BY <1>1 DEF Booted
<1>3. Lists'
  BY <1>1 DEF Lists, CountsMatch, Created, IsIn
<1>4. Heads'
  BY <1>1 DEF Heads, Created
<1>5. Holders'
  BY <1>1 DEF Holders, IsDoomed, InList
<1>6. Tasks' /\ Ended'
  BY <1>1 DEF Tasks, Ended, IsDoomed, InList
<1>7. Stacks'
  BY <1>1 DEF Stacks, BeingMade, InList
<1> QED
  BY <1>2, <1>3, <1>4, <1>5, <1>6, <1>7 DEF Safe

LEMMA TimerSafe ==
    ASSUME SInv, Psp_IRQ_SystemTimer
    PROVE  Safe'
<1>1. running /\ PspSetupTaskSWEnv /\ pc' = pc
      /\ UNCHANGED <<procs, threads, thread_count, allocated, stacks, parent,
                     auto_delete, tss, made, item, running>>
  BY DEF Psp_IRQ_SystemTimer, lists, memory, fields
<1>2. KeepsPlace
  BY <1>1 DEF KeepsPlace
<1> QED
  BY <1>1, <1>2, SwitchSafe

LEMMA SystemSafe ==
    ASSUME SInv, PspIdleThread \/ PspProcessCutterThread \/ CutterStep
    PROVE  Safe'
<1>1. CASE PspIdleThread
  BY <1>1, TaskSwitchSafe DEF PspIdleThread, AtPc
<1>2. CASE PspProcessCutterThread
  BY <1>2, TaskSwitchSafe DEF PspProcessCutterThread, AtPc
<1>3. CASE CutterSwitches
  BY <1>3, TaskSwitchSafe DEF CutterSwitches, AtPc
<1> QED
  BY <1>1, <1>2, <1>3, PopSafe, DeleteSafe DEF CutterStep

LEMMA ClientSafe ==
    ASSUME HeadLeavesLast, SInv, Requests, ClientStep
    PROVE  Safe'
<1>1. ASSUME NEW c \in Mains, CreationStep(c) PROVE Safe'
  <2>1. ASSUME NEW t \in Spare, \E user, auto \in BOOLEAN : AllocateTCB(c, t, user, auto)
        PROVE  Safe'
    <3>1. PICK user \in BOOLEAN, auto \in BOOLEAN : AllocateTCB(c, t, user, auto)
      BY <2>1
    <3> QED
      BY <3>1, AllocateSafe
  <2>2. AllocateStack(c) => Safe'
    BY StackSafe
  <2>3. PspAddNewThread(c) => Safe'
    BY LinkSafe
  <2>4. SetupTSS(c) => Safe'
    BY TaskStateSafe
  <2> QED
    BY <1>1, <2>1, <2>2, <2>3, <2>4, Zenon DEF CreationStep
<1>2. ASSUME NEW c \in Mains, StartThread(c) \/ PsDeleteThread(c) PROVE Safe'
  BY <1>2, StartSafe, DeleteCallSafe
<1>3. ASSUME NEW t \in Mains \cup Spare, Yield(t) \/ BlockedSwitches(t) \/ ReturnedSwitches(t)
      PROVE  Safe'
  <2>1. CASE Yield(t)
    BY <2>1, TaskSwitchSafe DEF Yield, AtPc
  <2>2. CASE BlockedSwitches(t)
    BY <2>2, TaskSwitchSafe DEF BlockedSwitches, AtPc
  <2>3. CASE ReturnedSwitches(t)
    BY <2>3, TaskSwitchSafe DEF ReturnedSwitches, AtPc
  <2> QED
    BY <1>3, <2>1, <2>2, <2>3
<1>4. ASSUME NEW t \in Mains \cup Spare, BlockSelf(t) \/ Return(t) PROVE Safe'
  BY <1>4, BlockSafe, ReturnSafe
<1>5. ASSUME PopJob \/ WakeThread PROVE Safe'
  BY <1>5, PopJobSafe, WakeSafe
<1> QED
  BY <1>1, <1>2, <1>3, <1>4, <1>5, Zenon DEF ClientStep

LEMMA NextSafe ==
    ASSUME HeadLeavesLast, SInv, Requests, [Next]_vars
    PROVE  SInv'
<1>1. IInv'
  BY NextIInv DEF SInv
<1>2. ASSUME UNCHANGED vars PROVE Safe'
  BY <1>2, SafeUnchanged
<1>3. ASSUME Boot PROVE Safe'
  <2>1. ASSUME NEW p \in DriverSet, InitializeDriver(p) PROVE Safe'
    BY <2>1, InitializeSafe
  <2> QED
    BY <1>3, <2>1, EnterSafe, Zenon DEF Boot
<1>4. ASSUME Next PROVE Safe'
  BY <1>3, <1>4, TimerSafe, SystemSafe, ClientSafe, Zenon DEF Next
<1>5. Safe'
  BY <1>2, <1>4
<1> QED
  BY <1>1, <1>5 DEF SInv

----------------------------------------------------------------------------
(* The requests.                                                           *)

LEMMA InitRequests == Init => Requests /\ Accounted
<1> SUFFICES ASSUME Init PROVE Requests /\ Accounted
  OBVIOUS
<1> USE Kinds, StatusNames
<1>1. /\ jobs = << >> /\ serving = NoThread /\ current = "idle"
      /\ \A t \in Threads : pc[t] = "run"
      /\ allocated = SystemSet /\ lost = {} /\ stacks = SystemSet
  BY DEF Init
<1>2. \A u : ~IsIn(u, << >>)
  BY DEF IsIn
<1>3. status[current] # WAITING
  BY <1>1 DEF Init
<1>4. Requests
  BY <1>1, <1>2, <1>3 DEF Requests, Asked
<1>5. \A t \in SystemSet : InList(t)
  <2>1. \A t \in Threads : parent[t] = System
    BY DEF Init
  <2>2. threads[System] = SystemThreads
    BY DEF Init
  <2>3. \A t \in SystemSet : IsIn(t, SystemThreads)
    BY DEF SystemSet, IsIn
  <2> QED
    BY <2>1, <2>2, <2>3 DEF InList
<1>6. Accounted
  BY <1>1, <1>5 DEF Accounted
<1> QED
  BY <1>4, <1>6

\* The threads of the jobs stay as they are; so do the maker's new threads.
LEMMA KeepRequests ==
    ASSUME Requests, UNCHANGED <<jobs, serving>>, running => running',
           \A t \in Threads : Asked(t) => InList(t)' /\ status'[t] = WAITING,
           status'[current'] = WAITING => pc'[current'] = "blocked",
           \A c \in Mains : pc'[c] = "start" => status'[made'[c]] = STOP
    PROVE  Requests'
<1>1. \A t \in Threads : Asked(t)' <=> Asked(t)
  BY DEF Asked
<1>2. ~IsIn(serving', jobs') /\ \A i, j \in 1 .. Len(jobs') : jobs'[i] = jobs'[j] => i = j
  BY DEF Requests, IsIn
<1>3. ~running' => jobs' = << >> /\ serving' = NoThread
  BY DEF Requests
<1>4. \A t \in Threads : Asked(t)' => InList(t)' /\ status'[t] = WAITING
  BY <1>1
<1> QED
  BY <1>2, <1>3, <1>4 DEF Requests

\* A thread that waits in the list keeps its place when nothing but the CPU
\* changes hands.
LEMMA SwitchRequests ==
    ASSUME SInv, Requests, PspSetupTaskSWEnv,
           UNCHANGED <<threads, parent, made, jobs, serving, running>>,
           \A c \in Threads : pc'[c] = "start" => pc[c] = "start"
    PROVE  Requests'
<1>1. TypeOK /\ HandlesHeld /\ Lists
  BY DEF SInv, Safe, IInv
<1>2. /\ \A t \in Threads : /\ status'[t] = STOP <=> status[t] = STOP
                            /\ status'[t] = WAITING <=> status[t] = WAITING
      /\ current' \in Threads /\ status[current'] \in {READY, RUNNING}
  BY <1>1, SwitchStatus
<1>3. \A t \in Threads : Asked(t) => InList(t)' /\ status'[t] = WAITING
  BY <1>2, SameInList DEF Requests
<1>4. status'[current'] # WAITING
  BY <1>2, StatusNames
<1>5. ASSUME NEW c \in Mains, pc'[c] = "start" PROVE status'[made'[c]] = STOP
  <2>1. pc[c] = "start" /\ made'[c] = made[c]
    BY <1>5, Kinds
  <2>2. made[c] \in Threads /\ status[made[c]] = STOP
    BY <1>1, <2>1 DEF HandlesHeld, Requests
  <2> QED
    BY <1>2, <2>1, <2>2
<1> QED
  BY <1>3, <1>4, <1>5, KeepRequests

\* A step of the current thread that gives nobody a status.
LEMMA QuietRequests ==
    ASSUME SInv, Requests, running, running',
           UNCHANGED <<status, current, jobs, serving>>,
           \A t \in Threads : Asked(t) => InList(t)',
           \A c \in Mains : c # current => made'[c] = made[c],
           NEW w \in Pcs \ {"start"}, pc' = [pc EXCEPT ![current] = w],
           w = pc[current] \/ pc[current] # "blocked"
    PROVE  Requests'
<1>1. TypeOK
  BY DEF SInv, IInv
<1>2. \A t \in Threads : pc'[t] = IF t = current THEN w ELSE pc[t]
  BY <1>1 DEF TypeOK
<1>3. current \in Threads
  BY <1>1 DEF TypeOK
<1>4. status'[current'] = WAITING => pc'[current'] = "blocked"
  BY <1>2, <1>3 DEF Requests
<1>5. \A c \in Mains : pc'[c] = "start" => status'[made'[c]] = STOP
  BY <1>2, Kinds DEF Requests
<1>6. \A t \in Threads : Asked(t) => InList(t)' /\ status'[t] = WAITING
  BY DEF Requests
<1> QED
  BY <1>4, <1>5, <1>6, KeepRequests

LEMMA SystemRequests ==
    ASSUME SInv, Requests,
           Psp_IRQ_SystemTimer \/ PspIdleThread \/ PspProcessCutterThread \/ CutterStep
    PROVE  Requests'
<1>1. TypeOK /\ HandlesHeld
  BY DEF SInv, IInv
<1>2. CASE Psp_IRQ_SystemTimer
  BY <1>2, SwitchRequests DEF Psp_IRQ_SystemTimer, lists, fields
<1>3. CASE PspIdleThread \/ PspProcessCutterThread \/ CutterSwitches
  <2>1. HalTaskSwitch("run")
    BY <1>3 DEF PspIdleThread, PspProcessCutterThread, CutterSwitches
  <2>2. \A c \in Threads : pc'[c] = "start" => pc[c] = "start"
    BY <1>1, <2>1 DEF HalTaskSwitch, TypeOK
  <2> QED
    BY <2>1, <2>2, SwitchRequests DEF HalTaskSwitch, lists, fields
<1>4. CASE PopCuttingItem
  <2>1. /\ running /\ running' /\ current = "thread_cutter" /\ pc[current] = "run"
        /\ UNCHANGED <<threads, parent, status, current, made, jobs, serving>>
    BY <1>4 DEF PopCuttingItem, AtPc, lists, fields
  <2>2. PICK w \in {"cut", "switch"} : pc' = [pc EXCEPT ![current] = w]
    BY <1>4, <2>1 DEF PopCuttingItem, GoTo
  <2>3. w \in Pcs \ {"start"} /\ \A t \in Threads : Asked(t) => InList(t)'
    BY <2>1, SameInList DEF Pcs, Requests
  <2> QED
    BY <2>1, <2>2, <2>3, QuietRequests
<1>5. CASE DeleteThread
  <2>1. /\ running /\ running' /\ current = "thread_cutter" /\ pc[current] = "cut"
        /\ UNCHANGED <<status, current, made, jobs, serving>>
        /\ pc' = [pc EXCEPT ![current] = "run"]
    BY <1>5 DEF DeleteThread, AtPc, GoTo
  <2>2. ASSUME NEW t \in Threads, Asked(t) PROVE InList(t)'
    <3>1. InList(t) /\ t # item
      BY <1>5, <2>2, DeleteSafe, StatusNames DEF Requests
    <3> QED
      BY <1>5, <2>2, <3>1, DeleteSafe
  <2>3. "run" \in Pcs \ {"start"}
    BY DEF Pcs
  <2> QED
    BY <2>1, <2>2, <2>3, QuietRequests
<1> QED
  BY <1>2, <1>3, <1>4, <1>5 DEF CutterStep

LEMMA CreationRequests ==
    ASSUME SInv, Requests, NEW c \in Mains, CreationStep(c)
    PROVE  Requests'
<1>1. TypeOK /\ HandlesHeld /\ Lists /\ Holders /\ c \in Threads
  BY Kinds DEF SInv, IInv, Safe
<1>2. ASSUME NEW t \in Spare, NEW user \in BOOLEAN, NEW auto \in BOOLEAN, AllocateTCB(c, t, user, auto)
      PROVE  Requests'
  <2>1. /\ t \in Threads /\ t # c /\ t \notin Mains /\ current = c /\ pc[c] = "run" /\ current' = c
        /\ status' = [status EXCEPT ![t] = STOP] /\ made' = [made EXCEPT ![c] = t]
        /\ running' = running /\ UNCHANGED <<jobs, serving>>
    BY <1>2, Kinds DEF AllocateTCB, AtPc, StatusOfNew
  <2>2. PICK w \in {"link", "stack"} : pc' = [pc EXCEPT ![c] = w, ![t] = "run"]
    BY <1>2 DEF AllocateTCB
  <2>3. ~InList(t) /\ \A u \in Threads : InList(u)' <=> InList(u) /\ u # t
    BY <1>2, AllocateSafe
  <2>4. \A u \in Threads : Asked(u) => InList(u)' /\ status'[u] = WAITING
    BY <1>1, <2>1, <2>3 DEF Requests, TypeOK
  <2>5. status'[current'] # WAITING
    BY <1>1, <2>1 DEF Requests, TypeOK
  <2>6. ASSUME NEW d \in Mains, pc'[d] = "start" PROVE status'[made'[d]] = STOP
    <3>1. d # c /\ pc[d] = "start"
      BY <1>1, <2>1, <2>2, <2>6, Kinds DEF TypeOK
    <3>2. made'[d] = made[d] /\ made[d] \in Threads /\ status[made[d]] = STOP
      BY <1>1, <2>1, <3>1 DEF TypeOK, HandlesHeld, Requests
    <3> QED
      BY <1>1, <2>1, <3>2 DEF TypeOK
  <2> QED
    BY <2>1, <2>4, <2>5, <2>6, KeepRequests
<1>3. CASE AllocateStack(c)
  <2>1. /\ running /\ running' /\ current = c /\ pc[current] = "stack"
        /\ UNCHANGED <<threads, parent, status, current, jobs, serving>>
        /\ \A d \in Mains : d # current => made'[d] = made[d]
    BY <1>1, <1>3 DEF AllocateStack, AtPc, lists, fields, TypeOK
  <2>2. PICK w \in {"link", "run"} : pc' = [pc EXCEPT ![current] = w]
    BY <1>3, <2>1 DEF AllocateStack, GoTo
  <2>3. w \in Pcs \ {"start"} /\ \A t \in Threads : Asked(t) => InList(t)'
    BY <2>1, SameInList DEF Pcs, Requests
  <2> QED
    BY <2>1, <2>2, <2>3, QuietRequests
<1>4. CASE PspAddNewThread(c)
  <2>1. /\ running /\ running' /\ current = c /\ pc[current] = "link"
        /\ UNCHANGED <<status, current, made, jobs, serving>>
        /\ pc' = [pc EXCEPT ![current] = "tss"]
    BY <1>4 DEF PspAddNewThread, AtPc, GoTo
  <2>2. \A t \in Threads : Asked(t) => InList(t)'
    BY <1>4, LinkSafe DEF Requests
  <2>3. "tss" \in Pcs \ {"start"}
    BY DEF Pcs
  <2> QED
    BY <2>1, <2>2, <2>3, QuietRequests
<1>5. CASE SetupTSS(c)
  <2>1. /\ current = c /\ pc[c] = "tss" /\ pc' = [pc EXCEPT ![c] = "start"]
        /\ UNCHANGED <<threads, parent, status, current, made, jobs, serving, running>>
    BY <1>5 DEF SetupTSS, AtPc, GoTo, lists
  <2>2. \A t \in Threads : Asked(t) => InList(t)' /\ status'[t] = WAITING
    BY <2>1, SameInList DEF Requests
  <2>3. status'[current'] # WAITING
    BY <1>1, <2>1 DEF Requests
  <2>4. ASSUME NEW d \in Mains, pc'[d] = "start" PROVE status'[made'[d]] = STOP
    <3>1. CASE d = c
      <4>1. made[c] \in Threads /\ made[c] # NoThread
        BY <1>1, <2>1, Kinds DEF HandlesHeld
      <4> QED
        BY <1>1, <2>1, <3>1, <4>1 DEF Holders
    <3>2. CASE d # c
      <4>1. pc[d] = "start"
        BY <1>1, <2>1, <2>4, <3>2, Kinds DEF TypeOK
      <4> QED
        BY <2>1, <4>1 DEF Requests
    <3> QED
      BY <3>1, <3>2
  <2> QED
    BY <2>1, <2>2, <2>3, <2>4, KeepRequests
<1> QED
  BY <1>2, <1>3, <1>4, <1>5 DEF CreationStep

\* A maker starts the thread it made: nobody else starts that one, and it has
\* not asked for anything yet.
LEMMA MakerRequests ==
    ASSUME SInv, Requests, NEW c \in Mains, StartThread(c) \/ PsDeleteThread(c)
    PROVE  Requests'
<1>1. TypeOK /\ HandlesHeld /\ Lists /\ Holders /\ c \in Threads
  BY Kinds DEF SInv, IInv, Safe
<1>2. CASE StartThread(c)
  <2>1. PICK t \in Threads : t = made[c]
    BY <1>1, <1>2 DEF StartThread, AtPc, HandlesHeld
  <2>2. /\ current = c /\ pc[c] = "start" /\ pc' = [pc EXCEPT ![c] = "run"] /\ t # NoThread
        /\ status' = [status EXCEPT ![t] = READY] /\ status[t] = STOP
        /\ \A d \in Mains : d # c => made'[d] = made[d] /\ made[d] # t
        /\ UNCHANGED <<threads, parent, current, jobs, serving, running>>
    <3>1. current = c /\ pc[c] = "start" /\ t # NoThread
      BY <1>2, <2>1, Kinds DEF StartThread, AtPc
    <3>2. status[t] = STOP /\ \A d \in Mains : made[d] = t => d = c
      BY <1>1, <2>1, <3>1 DEF Requests, Holders
    <3> QED
      BY <1>1, <1>2, <2>1, <3>1, <3>2 DEF StartThread, SetStatus, GoTo, lists, fields, TypeOK
  <2>3. \A u \in Threads : Asked(u) => InList(u)' /\ status'[u] = WAITING
    BY <1>1, <2>2, SameInList, StatusNames DEF Requests, TypeOK
  <2>4. status'[current'] # WAITING
    BY <1>1, <2>2, StatusNames DEF Requests, TypeOK
  <2>5. ASSUME NEW d \in Mains, pc'[d] = "start" PROVE status'[made'[d]] = STOP
    <3>1. d # c /\ pc[d] = "start"
      BY <1>1, <2>2, <2>5, Kinds DEF TypeOK
    <3>2. made'[d] = made[d] /\ made[d] # t /\ made[d] \in Threads /\ status[made[d]] = STOP
      BY <1>1, <2>2, <3>1 DEF HandlesHeld, Requests
    <3> QED
      BY <1>1, <2>2, <3>2 DEF TypeOK
  <2> QED
    BY <2>2, <2>3, <2>4, <2>5, KeepRequests
<1>3. CASE PsDeleteThread(c)
  <2>1. /\ running /\ running' /\ current = c /\ pc[current] = "run" /\ pc' = pc
        /\ UNCHANGED <<threads, parent, status, current, jobs, serving>>
        /\ \A d \in Mains : d # current => made'[d] = made[d]
    BY <1>1, <1>3 DEF PsDeleteThread, AtPc, lists, fields, TypeOK
  <2>2. pc' = [pc EXCEPT ![current] = "run"] /\ "run" \in Pcs \ {"start"}
    BY <1>1, <2>1 DEF TypeOK, Pcs
  <2>3. \A t \in Threads : Asked(t) => InList(t)'
    BY <2>1, SameInList DEF Requests
  <2> QED
    BY <2>1, <2>2, <2>3, QuietRequests
<1> QED
  BY <1>2, <1>3

\* The thread that queues its job was running, so it has no other job.
LEMMA BlockRequests ==
    ASSUME SInv, Requests, NEW t \in Mains \cup Spare, BlockSelf(t)
    PROVE  Requests'
<1>1. TypeOK /\ HandlesHeld /\ Lists /\ Tasks /\ t \in Threads
  BY Kinds DEF SInv, IInv, Safe
<1>2. /\ running /\ running' /\ current = t /\ pc[t] = "run" /\ pc' = [pc EXCEPT ![t] = "blocked"]
      /\ status' = [status EXCEPT ![t] = WAITING] /\ jobs' = Append(jobs, t)
      /\ UNCHANGED <<threads, parent, current, made, serving>>
  BY DEF BlockSelf, AtPc, SetStatus, GoTo, lists, fields
<1>3. InList(t) /\ status[t] # STOP /\ ~Asked(t)
  BY <1>1, <1>2 DEF Tasks, Requests
<1>4. jobs \in Seq(Threads) /\ ~IsIn(t, jobs) /\ serving # t
  BY <1>1, <1>3 DEF TypeOK, Asked
<1>5. /\ \A y : IsIn(y, jobs') <=> IsIn(y, jobs) \/ y = t
      /\ \A i, j \in 1 .. Len(jobs') : jobs'[i] = jobs'[j] => i = j
  <2>1. PICK a : a = Append(jobs, t)
    OBVIOUS
  <2>2. \A y : IsIn(y, a) <=> IsIn(y, jobs) \/ y = t
    BY <1>1, <1>4, <2>1, AppendedIsIn
  <2>3. (\A i, j \in 1 .. Len(jobs) : jobs[i] = jobs[j] => i = j)
          => \A i, j \in 1 .. Len(a) : a[i] = a[j] => i = j
    BY <1>1, <1>4, <2>1, AppendedIsIn
  <2>4. jobs' = a
    BY <1>2, <2>1
  <2> QED
    BY <2>2, <2>3, <2>4 DEF Requests
<1>6. ~IsIn(serving', jobs')
  BY <1>2, <1>4, <1>5 DEF Requests
<1>7. ASSUME NEW u \in Threads, Asked(u)' PROVE InList(u)' /\ status'[u] = WAITING
  <2>1. u = t \/ Asked(u)
    BY <1>2, <1>5, <1>7 DEF Asked
  <2> QED
    BY <1>1, <1>2, <1>3, <2>1, SameInList DEF Requests, TypeOK
<1>8. pc'[current'] = "blocked"
  BY <1>1, <1>2 DEF TypeOK
<1>9. ASSUME NEW d \in Mains, pc'[d] = "start" PROVE status'[made'[d]] = STOP
  <2>1. pc[d] = "start"
    BY <1>1, <1>2, <1>9, Kinds DEF TypeOK
  <2>2. made'[d] = made[d] /\ made[d] \in Threads /\ status[made[d]] = STOP /\ made[d] # t
    BY <1>1, <1>2, <1>3, <2>1 DEF HandlesHeld, Requests
  <2> QED
    BY <1>1, <1>2, <2>2 DEF TypeOK
<1> QED
  BY <1>2, <1>5, <1>6, <1>7, <1>8, <1>9 DEF Requests

\* The thread of the oldest job goes from the queue to the waker.
LEMMA PopRequests ==
    ASSUME SInv, Requests, PopJob
    PROVE  Requests'
<1>1. TypeOK /\ HandlesHeld /\ Waker \in Threads /\ Waker \in Mains
  BY WakerIsMain DEF SInv, IInv
<1>2. /\ running /\ running' /\ current = Waker /\ pc[Waker] = "run"
      /\ pc' = [pc EXCEPT ![Waker] = "serve"] /\ jobs # << >>
      /\ serving' = Head(jobs) /\ jobs' = Tail(jobs)
      /\ UNCHANGED <<threads, parent, status, current, made>>
  BY DEF PopJob, JobsLeft, AtPc, GoTo, lists, fields
<1>3. jobs \in Seq(Threads)
  BY <1>1 DEF TypeOK
<1>4. /\ Len(jobs') = Len(jobs) - 1 /\ Len(jobs) \in Nat \ {0} /\ serving' = jobs[1]
      /\ \A i \in 1 .. Len(jobs) - 1 : jobs'[i] = jobs[i + 1]
  BY <1>2, <1>3
<1>5. \A i, j \in 1 .. Len(jobs') : jobs'[i] = jobs'[j] => i = j
  BY <1>4 DEF Requests
<1>6. ~IsIn(serving', jobs')
  BY <1>4 DEF Requests, IsIn
<1>7. ASSUME NEW u \in Threads, Asked(u)' PROVE Asked(u)
  <2>1. CASE serving' = u
    <3>1. 1 \in 1 .. Len(jobs) /\ jobs[1] = u
      BY <1>4, <2>1
    <3> QED
      BY <3>1 DEF Asked, IsIn
  <2>2. CASE IsIn(u, jobs')
    <3>1. PICK i \in 1 .. Len(jobs) - 1 : jobs'[i] = u
      BY <1>4, <2>2 DEF IsIn
    <3>2. i + 1 \in 1 .. Len(jobs) /\ jobs[i + 1] = u
      BY <1>4, <3>1
    <3> QED
      BY <3>2 DEF Asked, IsIn
  <2> QED
    BY <1>7, <2>1, <2>2 DEF Asked
<1>8. \A u \in Threads : Asked(u)' => InList(u)' /\ status'[u] = WAITING
  BY <1>2, <1>7, SameInList DEF Requests
<1>9. status'[current'] # WAITING
  BY <1>2 DEF Requests
<1>10. \A d \in Mains : pc'[d] = "start" => status'[made'[d]] = STOP
  BY <1>1, <1>2, Kinds DEF Requests, TypeOK
<1> QED
  BY <1>2, <1>5, <1>6, <1>8, <1>9, <1>10 DEF Requests

\* The waker is not the thread it wakes, which waits.
LEMMA WakeRequests ==
    ASSUME SInv, Requests, WakeThread
    PROVE  Requests'
<1>1. TypeOK /\ HandlesHeld /\ Waker \in Threads /\ Waker \in Mains
  BY WakerIsMain DEF SInv, IInv
<1>2. PICK t \in Threads : t = serving
  BY <1>1 DEF WakeThread, AtPc, HandlesHeld
<1>3. /\ running /\ running' /\ current = Waker /\ pc[Waker] = "serve"
      /\ pc' = [pc EXCEPT ![Waker] = "run"] /\ serving' = NoThread
      /\ status' = [status EXCEPT ![t] = READY]
      /\ UNCHANGED <<threads, parent, current, made, jobs>>
  BY <1>2 DEF WakeThread, AtPc, SetStatus, GoTo, lists, fields
<1>4. status[t] = WAITING /\ ~IsIn(t, jobs)
  BY <1>2 DEF Requests, Asked
<1>5. ~IsIn(NoThread, jobs)
  <2>1. \A i \in 1 .. Len(jobs) : jobs[i] \in Threads
    BY <1>1, ElementOfSeq DEF TypeOK
  <2> QED
    BY <2>1, Kinds DEF IsIn
<1>6. ASSUME NEW u \in Threads, Asked(u)' PROVE Asked(u) /\ u # t
  BY <1>3, <1>4, <1>6, Kinds DEF Asked
<1>7. \A u \in Threads : Asked(u)' => InList(u)' /\ status'[u] = WAITING
  BY <1>1, <1>3, <1>6, SameInList DEF Requests, TypeOK
<1>8. status'[current'] # WAITING
  BY <1>1, <1>3, StatusNames DEF Requests, TypeOK
<1>9. ASSUME NEW d \in Mains, pc'[d] = "start" PROVE status'[made'[d]] = STOP
  <2>1. pc[d] = "start"
    BY <1>1, <1>3, <1>9, Kinds DEF TypeOK
  <2>2. made'[d] = made[d] /\ made[d] \in Threads /\ status[made[d]] = STOP /\ made[d] # t
    BY <1>1, <1>3, <1>4, <2>1, StatusNames DEF HandlesHeld, Requests
  <2> QED
    BY <1>1, <1>3, <2>2 DEF TypeOK
<1>10. ~IsIn(serving', jobs') /\ \A i, j \in 1 .. Len(jobs') : jobs'[i] = jobs'[j] => i = j
  BY <1>3, <1>5 DEF Requests
<1> QED
  BY <1>3, <1>7, <1>8, <1>9, <1>10 DEF Requests

LEMMA ReturnRequests ==
    ASSUME SInv, Requests, NEW t \in Mains \cup Spare, Return(t)
    PROVE  Requests'
<1>1. TypeOK /\ HandlesHeld /\ Tasks /\ t \in Threads
  BY Kinds DEF SInv, IInv, Safe
<1>2. /\ running /\ running' /\ current = t /\ pc[t] = "run" /\ pc' = [pc EXCEPT ![t] = "over"]
      /\ status' = [status EXCEPT ![t] = TERMINATED]
      /\ UNCHANGED <<threads, parent, current, made, jobs, serving>>
  BY DEF Return, AtPc, SetStatus, GoTo, lists, fields
<1>3. status[t] # STOP /\ status[t] # WAITING
  BY <1>1, <1>2 DEF Tasks, Requests
<1>4. \A u \in Threads : Asked(u) => InList(u)' /\ status'[u] = WAITING
  BY <1>1, <1>2, <1>3, SameInList DEF Requests, TypeOK
<1>5. status'[current'] # WAITING
  BY <1>1, <1>2, StatusNames DEF TypeOK
<1>6. ASSUME NEW d \in Mains, pc'[d] = "start" PROVE status'[made'[d]] = STOP
  <2>1. pc[d] = "start"
    BY <1>1, <1>2, <1>6, Kinds DEF TypeOK
  <2>2. made'[d] = made[d] /\ made[d] \in Threads /\ status[made[d]] = STOP /\ made[d] # t
    BY <1>1, <1>2, <1>3, <2>1 DEF HandlesHeld, Requests
  <2> QED
    BY <1>1, <1>2, <2>2 DEF TypeOK
<1> QED
  BY <1>2, <1>4, <1>5, <1>6, KeepRequests

LEMMA NextRequests ==
    ASSUME SInv, Requests, [Next]_vars
    PROVE  Requests'
<1>1. TypeOK /\ HandlesHeld /\ Booted
  BY DEF SInv, IInv, Safe
<1>2. CASE UNCHANGED vars
  BY <1>2 DEF vars, lists, fields, Requests, Asked, InList, IsIn
<1>3. ASSUME NEW p \in DriverSet, InitializeDriver(p) PROVE Requests'
  <2>1. PICK m \in Mains : m = Main[p]
    BY DriverAt
  <2>2. /\ ~running /\ status' = [status EXCEPT ![m] = READY]
        /\ UNCHANGED <<current, pc, made, jobs, serving, running>>
    BY <1>3, <2>1 DEF InitializeDriver
  <2>3. jobs = << >> /\ serving = NoThread /\ \A c \in Mains : pc[c] = "run"
    BY <1>1, <2>2 DEF Requests, Booted
  <2>4. \A t \in Threads : ~Asked(t)
    BY <2>3, Kinds DEF Asked, IsIn
  <2>5. status'[current'] = WAITING => pc'[current'] = "blocked"
    BY <1>1, <2>2, StatusNames DEF Requests, TypeOK
  <2> QED
    BY <2>2, <2>3, <2>4, <2>5, KeepRequests
<1>4. CASE EnterIdleThread
  BY <1>4 DEF EnterIdleThread, lists, fields, Requests, Asked, InList, IsIn
<1>5. ASSUME NEW t \in Mains \cup Spare, Yield(t) \/ BlockedSwitches(t) \/ ReturnedSwitches(t)
      PROVE  Requests'
  <2>1. PICK w \in {"run", "over"} : HalTaskSwitch(w)
    BY <1>5 DEF Yield, BlockedSwitches, ReturnedSwitches
  <2>2. \A c \in Threads : pc'[c] = "start" => pc[c] = "start"
    BY <1>1, <2>1 DEF HalTaskSwitch, TypeOK
  <2> QED
    BY <2>1, <2>2, SwitchRequests DEF HalTaskSwitch, lists, fields
<1>6. CASE ClientStep
  BY <1>5, <1>6, CreationRequests, MakerRequests, BlockRequests, ReturnRequests, PopRequests,
     WakeRequests, Zenon DEF ClientStep
<1>7. CASE Boot
  BY <1>3, <1>4, <1>7, Zenon DEF Boot
<1> QED
  BY <1>2, <1>6, <1>7, SystemRequests, Zenon DEF Next

----------------------------------------------------------------------------
(* The memory.                                                             *)

\* What is lost stays lost, and a block that is made stays in its maker's hand.
LEMMA KeepAccounted ==
    ASSUME Accounted, allocated' \subseteq allocated, stacks' \subseteq stacks, lost' = lost,
           \A t \in allocated' : InList(t) => InList(t)',
           \A t \in lost : t \in allocated' /\ ~InList(t)',
           \A c \in Mains : \/ made'[c] = made[c]
                            \/ made'[c] = NoThread /\ pc[c] \notin {"stack", "link"},
           \A c \in Mains : pc[c] \in {"stack", "link"} => pc'[c] \in {"stack", "link"}
    PROVE  Accounted'
<1>1. ASSUME NEW t \in BeingMade PROVE t \in BeingMade'
  BY DEF BeingMade
<1>2. \A t \in allocated' : InList(t)' \/ t \in BeingMade' \/ t \in lost'
  BY <1>1 DEF Accounted
<1>3. \A t \in lost : t \in Spare /\ t # NoThread
  BY Kinds DEF Accounted
<1>4. \A t \in lost : \A c \in Mains : made'[c] # t
  BY <1>3 DEF Accounted
<1> QED
  BY <1>2, <1>4 DEF Accounted

\* A step that leaves the lists and the memory alone, of a thread that makes
\* none at that moment.
LEMMA QuietAccounted ==
    ASSUME TypeOK, Accounted, UNCHANGED <<threads, parent, allocated, stacks, lost>>,
           \A c \in Mains : \/ made'[c] = made[c]
                            \/ made'[c] = NoThread /\ pc[c] \notin {"stack", "link"},
           \/ pc' = pc
           \/ pc[current] \notin {"stack", "link"} /\ \E w : pc' = [pc EXCEPT ![current] = w]
    PROVE  Accounted'
<1>1. \A t : InList(t)' <=> InList(t)
  BY SameInList
<1>2. \A c \in Mains : pc[c] \in {"stack", "link"} => pc'[c] \in {"stack", "link"}
  BY Kinds DEF TypeOK
<1> QED
  BY <1>1, <1>2, KeepAccounted DEF Accounted

LEMMA SystemAccounted ==
    ASSUME SInv, Accounted,
           Psp_IRQ_SystemTimer \/ PspIdleThread \/ PspProcessCutterThread \/ CutterStep
    PROVE  Accounted'
<1>1. TypeOK
  BY DEF SInv, IInv
<1>2. CASE Psp_IRQ_SystemTimer
  BY <1>1, <1>2, QuietAccounted DEF Psp_IRQ_SystemTimer, lists, memory, fields
<1>3. CASE PspIdleThread \/ PspProcessCutterThread \/ CutterSwitches
  BY <1>1, <1>3, QuietAccounted
  DEF PspIdleThread, PspProcessCutterThread, CutterSwitches, HalTaskSwitch, AtPc, lists, memory, fields
<1>4. CASE PopCuttingItem
  BY <1>1, <1>4, QuietAccounted DEF PopCuttingItem, AtPc, GoTo, lists, memory, fields
<1>5. CASE DeleteThread
  <2>1. /\ current = "thread_cutter" /\ pc' = [pc EXCEPT ![current] = "run"]
        /\ made' = made /\ lost' = lost
    BY <1>5 DEF DeleteThread, AtPc, GoTo, memory
  <2>2. \A c \in Mains : pc'[c] = pc[c]
    BY <1>1, <2>1, Kinds DEF TypeOK
  <2>3. PICK t \in Threads : t = item /\ InList(t)
    BY <1>5, DeleteSafe DEF SInv, Safe, Ended, IsDoomed
  <2>4. \/ /\ UNCHANGED <<allocated, stacks>>
           /\ \A u \in Threads : InList(u)' <=> InList(u)
        \/ /\ allocated' = allocated \ {t} /\ stacks' = stacks \ {t}
           /\ \A u \in Threads : InList(u)' <=> InList(u) /\ u # t
    BY <1>5, <2>3, DeleteSafe
  <2>5. \A u \in lost : u \in allocated /\ ~InList(u) /\ u \in Threads
    BY Kinds DEF Accounted
  <2>6. allocated \subseteq Threads
    BY <1>1 DEF TypeOK
  <2>7. \A u \in lost : u \in allocated' /\ ~InList(u)'
    BY <2>3, <2>4, <2>5
  <2>8. \A u \in allocated' : InList(u) => InList(u)'
    BY <2>4, <2>6
  <2>9. allocated' \subseteq allocated /\ stacks' \subseteq stacks
    BY <2>4
  <2> QED
    BY <2>1, <2>2, <2>7, <2>8, <2>9, KeepAccounted
<1> QED
  BY <1>2, <1>3, <1>4, <1>5 DEF CutterStep

LEMMA CreationAccounted ==
    ASSUME SInv, Accounted, NEW c \in Mains, CreationStep(c)
    PROVE  Accounted'
<1>1. TypeOK /\ HandlesHeld /\ Lists /\ Holders /\ c \in Threads
  BY Kinds DEF SInv, IInv, Safe
<1>2. allocated \subseteq Threads
  BY <1>1 DEF TypeOK
<1>3. ASSUME NEW t \in Spare, NEW user \in BOOLEAN, NEW auto \in BOOLEAN, AllocateTCB(c, t, user, auto)
      PROVE  Accounted'
  <2>1. /\ t \in Threads /\ t # c /\ t \notin Mains /\ t \notin allocated
        /\ made[c] = NoThread /\ made' = [made EXCEPT ![c] = t]
        /\ allocated' = allocated \cup {t} /\ stacks' = stacks /\ lost' = lost
    BY <1>3, Kinds DEF AllocateTCB
  <2>2. PICK w \in {"link", "stack"} : pc' = [pc EXCEPT ![c] = w, ![t] = "run"]
    BY <1>3 DEF AllocateTCB
  <2>3. \A u \in Threads : InList(u)' <=> InList(u) /\ u # t
    BY <1>3, AllocateSafe
  <2>4. \A d \in Mains : /\ made'[d] = IF d = c THEN t ELSE made[d]
                         /\ pc'[d] = IF d = c THEN w ELSE pc[d]
    BY <1>1, <2>1, <2>2, Kinds DEF TypeOK
  <2>5. ASSUME NEW u \in BeingMade PROVE u \in BeingMade'
    <3>1. PICK d \in Mains : u \in Threads /\ made[d] = u /\ pc[d] \in {"stack", "link"}
      BY DEF BeingMade
    <3>2. d # c
      BY <2>1, <3>1, Kinds
    <3> QED
      BY <2>4, <3>1, <3>2 DEF BeingMade
  <2>6. t \in BeingMade'
    BY <2>1, <2>4 DEF BeingMade
  <2>7. \A u \in allocated' : InList(u)' \/ u \in BeingMade' \/ u \in lost'
    BY <1>2, <2>1, <2>3, <2>5, <2>6 DEF Accounted
  <2>8. ASSUME NEW u \in lost
        PROVE  /\ u \in Spare /\ u \in allocated' /\ u \notin stacks'
               /\ ~InList(u)' /\ \A d \in Mains : made'[d] # u
    <3>1. u \in Spare /\ u \in allocated /\ u \notin stacks /\ ~InList(u) /\ u # t
      BY <2>1 DEF Accounted
    <3> QED
      BY <1>2, <2>1, <2>3, <2>4, <3>1 DEF Accounted
  <2> QED
    BY <2>1, <2>7, <2>8 DEF Accounted
<1>4. CASE AllocateStack(c)
  <2>1. PICK t \in Threads : t = made[c]
    BY <1>1, <1>4 DEF AllocateStack, AtPc, HandlesHeld
  <2>2. /\ current = c /\ pc[c] = "stack" /\ t # NoThread /\ t \in Spare /\ t \in allocated
        /\ ~InList(t) /\ t \notin stacks /\ \A d \in Mains : made[d] = t => d = c
    <3>1. current = c /\ pc[c] = "stack" /\ t # NoThread
      BY <1>4, <2>1, Kinds DEF AllocateStack, AtPc
    <3> QED
      BY <1>1, <2>1, <3>1 DEF Holders
  <2>3. /\ allocated' = allocated /\ \A u : InList(u)' <=> InList(u)
    BY <1>4, SameInList DEF AllocateStack, lists, fields
  <2>4. CASE /\ stacks' = stacks \cup {t} /\ GoTo(c, "link") /\ UNCHANGED <<made, lost>>
    <3>1. \A d \in Mains : pc'[d] = IF d = c THEN "link" ELSE pc[d]
      BY <1>1, <2>4, Kinds DEF GoTo, TypeOK
    <3>2. ASSUME NEW u \in BeingMade PROVE u \in BeingMade'
      BY <2>4, <3>1 DEF BeingMade
    <3>3. \A u \in allocated' : InList(u)' \/ u \in BeingMade' \/ u \in lost'
      BY <2>3, <2>4, <3>2 DEF Accounted
    <3>4. t \notin lost
      BY <2>1 DEF Accounted
    <3>5. ASSUME NEW u \in lost
          PROVE  /\ u \in Spare /\ u \in allocated' /\ u \notin stacks'
                 /\ ~InList(u)' /\ \A d \in Mains : made'[d] # u
      BY <2>3, <2>4, <3>4, <3>5 DEF Accounted
    <3> QED
      BY <2>4, <3>3, <3>5 DEF Accounted
  <2>5. CASE /\ made' = [made EXCEPT ![c] = NoThread] /\ lost' = lost \cup {t}
             /\ GoTo(c, "run") /\ stacks' = stacks
    <3>1. \A d \in Mains : /\ pc'[d] = IF d = c THEN "run" ELSE pc[d]
                           /\ made'[d] = IF d = c THEN NoThread ELSE made[d]
      BY <1>1, <2>5, Kinds DEF GoTo, TypeOK
    <3>2. ASSUME NEW u \in BeingMade, u # t PROVE u \in BeingMade'
      <4>1. PICK d \in Mains : u \in Threads /\ made[d] = u /\ pc[d] \in {"stack", "link"}
        BY DEF BeingMade
      <4>2. d # c
        BY <2>1, <3>2, <4>1
      <4> QED
        BY <3>1, <4>1, <4>2 DEF BeingMade
    <3>3. \A u \in allocated' : InList(u)' \/ u \in BeingMade' \/ u \in lost'
      BY <2>3, <2>5, <3>2 DEF Accounted
    <3>4. \A d \in Mains : made'[d] # t
      BY <2>2, <3>1
    <3>5. ASSUME NEW u \in lost'
          PROVE  /\ u \in Spare /\ u \in allocated' /\ u \notin stacks'
                 /\ ~InList(u)' /\ \A d \in Mains : made'[d] # u
      <4>1. u = t \/ u \in lost
        BY <2>5, <3>5
      <4>2. u # NoThread
        BY <2>2, <4>1, Kinds DEF Accounted
      <4>3. ASSUME u \in lost
            PROVE  /\ u \in Spare /\ u \in allocated /\ u \notin stacks
                   /\ ~InList(u) /\ \A d \in Mains : made[d] # u
        BY <4>3 DEF Accounted
      <4> QED
        BY <2>2, <2>3, <2>5, <3>1, <3>4, <4>1, <4>2, <4>3
    <3> QED
      BY <3>3, <3>5 DEF Accounted
  <2> QED
    BY <1>4, <2>1, <2>4, <2>5 DEF AllocateStack
<1>5. CASE PspAddNewThread(c)
  <2>1. PICK t \in Threads : t = made[c]
    BY <1>1, <1>5 DEF PspAddNewThread, AtPc, HandlesHeld
  <2>2. /\ UNCHANGED <<allocated, stacks, lost, made>> /\ pc' = [pc EXCEPT ![c] = "tss"]
    BY <1>5 DEF PspAddNewThread, GoTo, memory
  <2>3. \A u \in Threads : InList(u)' <=> InList(u) \/ u = t
    BY <1>5, <2>1, LinkSafe
  <2>4. \A d \in Mains : pc'[d] = IF d = c THEN "tss" ELSE pc[d]
    BY <1>1, <2>2, Kinds DEF TypeOK
  <2>5. ASSUME NEW u \in BeingMade, u # t PROVE u \in BeingMade'
    <3>1. PICK d \in Mains : u \in Threads /\ made[d] = u /\ pc[d] \in {"stack", "link"}
      BY DEF BeingMade
    <3>2. d # c
      BY <2>1, <2>5, <3>1
    <3> QED
      BY <2>2, <2>4, <3>1, <3>2 DEF BeingMade
  <2>6. \A u \in allocated' : InList(u)' \/ u \in BeingMade' \/ u \in lost'
    BY <1>2, <2>2, <2>3, <2>5 DEF Accounted
  <2>7. ASSUME NEW u \in lost
        PROVE  /\ u \in Spare /\ u \in allocated' /\ u \notin stacks'
               /\ ~InList(u)' /\ \A d \in Mains : made'[d] # u
    <3>1. u # t /\ u \in Threads /\ ~InList(u)
      BY <2>1, Kinds DEF Accounted
    <3> QED
      BY <2>2, <2>3, <3>1 DEF Accounted
  <2> QED
    BY <2>2, <2>6, <2>7 DEF Accounted
<1>6. CASE SetupTSS(c)
  BY <1>1, <1>6, QuietAccounted DEF SetupTSS, AtPc, GoTo, lists, memory
<1> QED
  BY <1>3, <1>4, <1>5, <1>6 DEF CreationStep

LEMMA ClientAccounted ==
    ASSUME SInv, Accounted, ClientStep
    PROVE  Accounted'
<1>1. TypeOK
  BY DEF SInv, IInv
<1>2. ASSUME NEW c \in Mains, StartThread(c) \/ PsDeleteThread(c) PROVE Accounted'
  <2>1. /\ current = c /\ pc[current] \notin {"stack", "link"}
        /\ UNCHANGED <<threads, parent, allocated, stacks, lost>>
        /\ \/ pc' = pc
           \/ \E w : pc' = [pc EXCEPT ![current] = w]
    BY <1>2 DEF StartThread, PsDeleteThread, AtPc, GoTo, lists, memory, fields
  <2>2. \A d \in Mains : \/ made'[d] = made[d]
                         \/ made'[d] = NoThread /\ pc[d] \notin {"stack", "link"}
    BY <1>1, <1>2, <2>1 DEF StartThread, PsDeleteThread, TypeOK
  <2> QED
    BY <1>1, <2>1, <2>2, QuietAccounted
<1>3. ASSUME NEW t \in Mains \cup Spare,
             Yield(t) \/ BlockSelf(t) \/ BlockedSwitches(t) \/ Return(t) \/ ReturnedSwitches(t)
      PROVE  Accounted'
  BY <1>1, <1>3, QuietAccounted
  DEF Yield, BlockSelf, BlockedSwitches, Return, ReturnedSwitches, HalTaskSwitch, AtPc, GoTo,
      lists, memory, fields
<1>4. ASSUME PopJob \/ WakeThread PROVE Accounted'
  BY <1>1, <1>4, QuietAccounted DEF PopJob, WakeThread, AtPc, GoTo, lists, memory, fields
<1> QED
  BY <1>2, <1>3, <1>4, CreationAccounted, Zenon DEF ClientStep

LEMMA NextAccounted ==
    ASSUME SInv, Accounted, [Next]_vars
    PROVE  Accounted'
<1>1. TypeOK /\ Booted
  BY DEF SInv, IInv, Safe
<1>2. CASE UNCHANGED vars
  BY <1>1, <1>2, QuietAccounted DEF vars, lists, memory, fields
<1>3. ASSUME NEW p \in DriverSet, InitializeDriver(p) PROVE Accounted'
  <2>1. PICK m \in Mains : m = Main[p] /\ m \in Threads /\ m \notin Spare
    BY DriverAt, Kinds
  <2>2. /\ allocated' = allocated \cup {m} /\ stacks' = stacks \cup {m}
        /\ UNCHANGED <<lost, made, pc>>
    BY <1>3, <2>1 DEF InitializeDriver
  <2>3. \A u \in Threads : InList(u)' <=> InList(u) \/ u = m
    BY <1>3, <2>1, InitializeSafe
  <2>4. allocated \subseteq Threads
    BY <1>1 DEF TypeOK
  <2>5. \A u \in BeingMade : u \in BeingMade'
    BY <2>2 DEF BeingMade
  <2>6. \A u \in allocated' : InList(u)' \/ u \in BeingMade' \/ u \in lost'
    BY <2>1, <2>2, <2>3, <2>4, <2>5 DEF Accounted
  <2>7. ASSUME NEW u \in lost
        PROVE  /\ u \in Spare /\ u \in allocated' /\ u \notin stacks'
               /\ ~InList(u)' /\ \A d \in Mains : made'[d] # u
    BY <2>1, <2>2, <2>3, <2>7, Kinds DEF Accounted
  <2> QED
    BY <2>2, <2>6, <2>7 DEF Accounted
<1>4. CASE EnterIdleThread
  BY <1>1, <1>4, QuietAccounted DEF EnterIdleThread, lists, memory, fields
<1>5. CASE Boot
  BY <1>3, <1>4, <1>5, Zenon DEF Boot
<1> QED
  BY <1>2, <1>5, SystemAccounted, ClientAccounted, Zenon DEF Next

LEMMA RInvAlways == HeadLeavesLast => (Spec => []RInv)
<1> SUFFICES ASSUME HeadLeavesLast PROVE Spec => []RInv
  OBVIOUS
<1>1. RInv /\ [Next]_vars => RInv'
  BY NextSafe, NextRequests, NextAccounted DEF RInv
<1>2. Init => RInv
  BY InitSafe, InitRequests DEF RInv
<1> QED
  BY <1>1, <1>2, PTL DEF Spec

LEMMA SafeAlways == HeadLeavesLast => (Spec => []SInv)
<1>1. RInv => SInv
  BY DEF RInv
<1> QED
  BY <1>1, RInvAlways, PTL

----------------------------------------------------------------------------
(* The theorems.                                                           *)

\* The count the cutter decides by is the length of the list, wherever the
\* timer comes between a creation, an end and a deletion.
THEOREM CountsCorrect == HeadLeavesLast => (Spec => []CountsMatch)
<1>1. SInv => CountsMatch
  BY DEF SInv, Safe, Lists
<1> QED
  BY <1>1, SafeAlways, PTL

\* The lists the scheduler walks hold no freed block and no block twice.
THEOREM ListsCorrect == HeadLeavesLast => (Spec => []NoDangling)
  BY NoneDangles, SafeAlways, PTL

\* The CPU is never on a freed block, nor on one whose task state is not filled.
THEOREM DispatchCorrect == HeadLeavesLast => (Spec => []DispatchSafe)
  BY DispatchIsSafe, SafeAlways, PTL

\* A thread is freed once, after its end, and never under the CPU.
THEOREM CuttingCorrect == HeadLeavesLast => (Spec => []CuttingSafe)
  BY CuttingIsSafe, SafeAlways, PTL

\* Every block in memory, of a kernel thread or of a user program, is in the
\* lists, in the hand of its maker, or one that PsCreateThread got no stack for.
THEOREM MemoryCorrect == HeadLeavesLast => (Spec => []MemoryAccounted)
  BY MemoryIsAccounted, RInvAlways, PTL

\* A thread that has ended stays ended until its block is freed.
EndStays ==
    \A t \in Threads : status[t] = TERMINATED /\ t \in allocated \cap allocated'
        => status'[t] = TERMINATED

LEMMA StepEndStays ==
    ASSUME RInv, [Next]_vars
    PROVE  EndStays \/ UNCHANGED vars
<1>1. TypeOK /\ HandlesHeld /\ Booted /\ Lists /\ Holders /\ Tasks /\ Requests
  BY DEF RInv, SInv, Safe, IInv
<1> USE Kinds, StatusNames
<1>2. ASSUME PspSetupTaskSWEnv PROVE EndStays
  BY <1>1, <1>2, SwitchStatus DEF EndStays
\* A step that gives a thread a status gives it to one that has not ended, or
\* whose block was free.
<1>3. ASSUME NEW t, NEW s, status' = [status EXCEPT ![t] = s],
             s = TERMINATED \/ status[t] # TERMINATED \/ t \notin allocated
      PROVE  EndStays
  BY <1>1, <1>3 DEF EndStays, TypeOK
<1>4. ASSUME status' = status PROVE EndStays
  BY <1>4 DEF EndStays
<1>5. ASSUME NEW c \in Mains, CreationStep(c) PROVE EndStays
  <2>1. ASSUME NEW t \in Spare, \E user, auto \in BOOLEAN : AllocateTCB(c, t, user, auto)
        PROVE  EndStays
    <3>1. status' = [status EXCEPT ![t] = STOP] /\ t \notin allocated
      BY <2>1 DEF AllocateTCB, StatusOfNew
    <3> QED
      BY <1>3, <3>1
  <2>2. AllocateStack(c) \/ PspAddNewThread(c) \/ SetupTSS(c) => status' = status
    BY DEF AllocateStack, PspAddNewThread, SetupTSS
  <2> QED
    BY <1>4, <1>5, <2>1, <2>2, Zenon DEF CreationStep
<1>6. ASSUME NEW c \in Mains, StartThread(c) \/ PsDeleteThread(c) PROVE EndStays
  <2>1. CASE StartThread(c)
    <3>1. status[made[c]] = STOP /\ status' = [status EXCEPT ![made[c]] = READY]
      BY <1>1, <2>1 DEF StartThread, AtPc, SetStatus, Requests
    <3> QED
      BY <1>3, <3>1
  <2>2. CASE PsDeleteThread(c)
    BY <1>4, <2>2 DEF PsDeleteThread
  <2> QED
    BY <1>6, <2>1, <2>2
<1>7. ASSUME NEW t \in Mains \cup Spare, BlockSelf(t) \/ Return(t) PROVE EndStays
  <2>1. status[t] # TERMINATED
    BY <1>1, <1>7 DEF BlockSelf, Return, AtPc, Tasks
  <2> QED
    BY <1>3, <1>7, <2>1 DEF BlockSelf, Return, SetStatus
<1>8. ASSUME PopJob \/ WakeThread PROVE EndStays
  <2>1. CASE PopJob
    BY <1>4, <2>1 DEF PopJob
  <2>2. CASE WakeThread
    <3>1. serving \in Threads /\ status' = [status EXCEPT ![serving] = READY]
      BY <1>1, <2>2, WakerIsMain DEF WakeThread, AtPc, SetStatus, HandlesHeld
    <3>2. status[serving] = WAITING
      BY <1>1, <3>1 DEF Requests, Asked
    <3> QED
      BY <1>3, <3>1, <3>2
  <2> QED
    BY <1>8, <2>1, <2>2
<1>9. ASSUME NEW w, HalTaskSwitch(w) PROVE EndStays
  BY <1>2, <1>9 DEF HalTaskSwitch
<1>10. ASSUME Boot PROVE EndStays
  <2>1. ASSUME NEW p \in DriverSet, InitializeDriver(p) PROVE EndStays
    <3>1. Main[p] \in Mains /\ status' = [status EXCEPT ![Main[p]] = READY] /\ ~running
      BY <2>1, DriverAt DEF InitializeDriver
    <3>2. pc[Main[p]] = "run"
      BY <1>1, <3>1 DEF Booted
    <3>3. status[Main[p]] # TERMINATED
      BY <1>1, <3>1, <3>2 DEF Tasks
    <3> QED
      BY <1>3, <3>1, <3>3
  <2>2. EnterIdleThread => status' = status
    BY DEF EnterIdleThread
  <2> QED
    BY <1>4, <1>10, <2>1, <2>2, Zenon DEF Boot
<1>11. ASSUME PspIdleThread \/ PspProcessCutterThread \/ CutterStep PROVE EndStays
  BY <1>4, <1>9, <1>11
  DEF PspIdleThread, PspProcessCutterThread, CutterStep, CutterSwitches, PopCuttingItem, DeleteThread
<1>12. ASSUME ClientStep PROVE EndStays
  <2>1. ASSUME NEW t \in Mains \cup Spare, Yield(t) \/ BlockedSwitches(t) \/ ReturnedSwitches(t)
        PROVE  EndStays
    BY <1>9, <2>1 DEF Yield, BlockedSwitches, ReturnedSwitches
  <2> QED
    BY <1>5, <1>6, <1>7, <1>8, <1>12, <2>1, Zenon DEF ClientStep
<1>13. ASSUME Psp_IRQ_SystemTimer PROVE EndStays
  BY <1>2, <1>13 DEF Psp_IRQ_SystemTimer
<1> QED
  BY <1>10, <1>11, <1>12, <1>13, Zenon DEF Next

\* The driver's wake-up and the maker's start overwrite whatever status they
\* find, and they never find that of a thread that has ended: a thread is in one
\* job at most, and waits until that job is served.
THEOREM EndIsFinalCorrect == HeadLeavesLast => (Spec => EndIsFinal)
<1> SUFFICES ASSUME HeadLeavesLast PROVE Spec => EndIsFinal
  OBVIOUS
<1>1. RInv /\ [Next]_vars => [EndStays]_vars
  BY StepEndStays
<1>2. Spec => []RInv
  BY RInvAlways
<1>3. Spec => [][EndStays]_vars
  BY <1>1, <1>2, PTL DEF Spec
<1> QED
  BY <1>3 DEF EndIsFinal, EndStays

----------------------------------------------------------------------------
(* The wait of a READY thread is one round.                                *)

\* The lists order the threads; the search goes round this order.
Before(x, y) == \E r, s \in Places : ThreadAt(r) = x /\ ThreadAt(s) = y /\ Precedes(r, s)

\* Going round from x, y comes before z.
Round(x, y, z) ==
    \/ Before(x, y) /\ Before(y, z)
    \/ Before(y, z) /\ Before(z, x)
    \/ Before(z, x) /\ Before(x, y)

\* Those that got the CPU since the watched thread became READY lie behind it
\* on the way the search takes from the current thread.
AheadIsBehind ==
    /\ ahead # {} => Waits(watched)
    /\ ahead \subseteq Linked
    /\ \A t \in ahead \ {current} : Round(current, watched, t)

OInv == NoOvertaking /\ AheadIsBehind

LEMMA PlaceIs ==
    ASSUME TypeOK, NEW s \in Places
    PROVE  /\ s[1] \in 1 .. Len(procs) /\ s[2] \in 1 .. Len(threads[procs[s[1]]])
           /\ s[1] \in Nat /\ s[2] \in Nat /\ s = <<s[1], s[2]>>
           /\ procs[s[1]] \in Processes
<1>1. PICK i \in 1 .. Len(procs) : s \in {i} \X (1 .. Len(threads[procs[i]]))
  BY DEF Places
<1>2. s[1] = i /\ s[2] \in 1 .. Len(threads[procs[i]]) /\ s = <<s[1], s[2]>>
  BY <1>1
<1>3. procs[i] \in Processes
  BY <1>1, ElementOfSeq DEF TypeOK
<1> QED
  BY <1>1, <1>2, <1>3

LEMMA PlaceAt ==
    ASSUME NEW i \in 1 .. Len(procs), NEW j \in 1 .. Len(threads[procs[i]])
    PROVE  <<i, j>> \in Places
  BY DEF Places

\* A linked thread has one place, so the order of the threads is that of places.
LEMMA BeforeIsPrecedes ==
    ASSUME NoDangling, NEW r \in Places, NEW s \in Places
    PROVE  Before(ThreadAt(r), ThreadAt(s)) <=> Precedes(r, s)
  BY DEF NoDangling, Before

\* The order is strict and total.
LEMMA BeforeIsOrder ==
    ASSUME TypeOK, NoDangling, NEW x \in Linked, NEW y \in Linked, NEW z \in Linked
    PROVE  /\ ~Before(x, x)
           /\ Before(x, y) /\ Before(y, z) => Before(x, z)
           /\ x = y \/ Before(x, y) \/ Before(y, x)
<1>1. PICK r \in Places, s \in Places, t \in Places :
        x = ThreadAt(r) /\ y = ThreadAt(s) /\ z = ThreadAt(t)
  BY DEF Linked
<1>2. /\ Before(x, x) <=> Precedes(r, r)
      /\ Before(x, y) <=> Precedes(r, s)
      /\ Before(y, x) <=> Precedes(s, r)
      /\ Before(y, z) <=> Precedes(s, t)
      /\ Before(x, z) <=> Precedes(r, t)
  BY <1>1, BeforeIsPrecedes
<1>3. /\ r[1] \in Nat /\ r[2] \in Nat /\ s[1] \in Nat /\ s[2] \in Nat
      /\ t[1] \in Nat /\ t[2] \in Nat /\ r = <<r[1], r[2]>> /\ s = <<s[1], s[2]>>
  BY PlaceIs
<1>4. ~Precedes(r, r)
  BY <1>3 DEF Precedes
<1>5. Precedes(r, s) /\ Precedes(s, t) => Precedes(r, t)
  BY <1>3 DEF Precedes
<1>6. r = s \/ Precedes(r, s) \/ Precedes(s, r)
  BY <1>3 DEF Precedes
<1> QED
  BY <1>1, <1>2, <1>4, <1>5, <1>6

\* Of two other threads one comes first on the way round.
LEMMA OneIsFirst ==
    ASSUME TypeOK, NoDangling, NEW x \in Linked, NEW y \in Linked, NEW z \in Linked,
           x # y, y # z, z # x
    PROVE  Round(x, y, z) \/ Round(x, z, y)
<1>1. /\ Before(x, y) \/ Before(y, x)
      /\ Before(y, z) \/ Before(z, y)
      /\ Before(z, x) \/ Before(x, z)
  BY BeforeIsOrder
<1>2. Before(x, y) /\ Before(y, z) => Before(x, z)
  BY BeforeIsOrder
<1>3. Before(x, z) /\ Before(z, y) => Before(x, y)
  BY BeforeIsOrder
<1> QED
  BY <1>1, <1>2, <1>3 DEF Round

\* The way round may start at another thread of it.
LEMMA RoundTurns ==
    ASSUME NEW x, NEW y, NEW z, Round(x, y, z)
    PROVE  Round(y, z, x)
  BY DEF Round

LEMMA RoundGoesOn ==
    ASSUME TypeOK, NoDangling, NEW c \in Linked, NEW r \in Linked, NEW w \in Linked,
           NEW t \in Linked, Round(c, r, w), Round(c, w, t)
    PROVE  Round(r, w, t)
<1>1. /\ ~Before(c, c) /\ ~Before(r, r) /\ ~Before(w, w) /\ ~Before(t, t)
  BY BeforeIsOrder
<1>2. /\ Before(c, r) /\ Before(r, c) => Before(c, c)
      /\ Before(c, w) /\ Before(w, c) => Before(c, c)
      /\ Before(c, t) /\ Before(t, c) => Before(c, c)
      /\ Before(r, w) /\ Before(w, r) => Before(r, r)
      /\ Before(w, t) /\ Before(t, w) => Before(w, w)
  BY BeforeIsOrder
<1>3. /\ Before(r, w) /\ Before(w, t) => Before(r, t)
      /\ Before(t, c) /\ Before(c, r) => Before(t, r)
  BY BeforeIsOrder
<1> QED
  BY <1>1, <1>2, <1>3 DEF Round

\* The search does not pass over a runnable thread.
LEMMA NonePassed ==
    ASSUME SInv, running, NEW r \in PspFindNextThreadScheduled,
           NEW w \in Linked, Runnable(w)
    PROVE  r \in Linked /\ ~Round(current, w, r)
<1>1. TypeOK /\ NoDangling /\ current \in Linked
  BY NoneDangles, DispatchIsSafe DEF SInv, IInv, DispatchSafe
<1>2. PICK c \in Places : c = CHOOSE s \in Places : ThreadAt(s) = current
  BY <1>1 DEF Linked
<1>3. ThreadAt(c) = current
  BY <1>1, <1>2 DEF Linked
<1>4. PICK p \in RunnablePlaces :
        r = ThreadAt(p) /\ \A q \in RunnablePlaces : ~VisitedBefore(c, q, p)
  BY <1>2 DEF PspFindNextThreadScheduled
<1>5. PICK q \in Places : w = ThreadAt(q)
  BY DEF Linked
<1>6. q \in RunnablePlaces /\ p \in Places /\ ~VisitedBefore(c, q, p)
  BY <1>4, <1>5 DEF RunnablePlaces
<1>7. /\ Before(current, w) <=> Precedes(c, q)
      /\ Before(w, r) <=> Precedes(q, p)
      /\ Before(r, current) <=> Precedes(p, c)
  BY <1>1, <1>3, <1>4, <1>5, <1>6, BeforeIsPrecedes
<1>8. /\ c[1] \in Nat /\ c[2] \in Nat /\ p[1] \in Nat /\ p[2] \in Nat
      /\ q[1] \in Nat /\ q[2] \in Nat
  BY <1>1, <1>6, PlaceIs
<1>9. \/ Precedes(c, q) /\ Precedes(q, p)
      \/ Precedes(q, p) /\ Precedes(p, c)
      \/ Precedes(p, c) /\ Precedes(c, q)
      => VisitedBefore(c, q, p)
  BY <1>8 DEF VisitedBefore, Precedes
<1> QED
  BY <1>4, <1>6, <1>7, <1>9 DEF Round, Linked

\* What OInv rests on, in every state.
Sound == SInv /\ NoDangling /\ DispatchSafe

LEMMA SoundAlways == HeadLeavesLast => (Spec => []Sound)
<1>1. SInv => Sound
  BY NoneDangles, DispatchIsSafe DEF Sound
<1> QED
  BY <1>1, SafeAlways, PTL

LEMMA InitOInv == HistoryInit => OInv
  BY DEF HistoryInit, OInv, NoOvertaking, AheadIsBehind

\* Threads that stay in the lists keep their order.
OrderStays ==
    /\ Linked \cap allocated' \subseteq Linked'
    /\ \A x, y \in Linked \cap Linked' : Before(x, y) => Before(x, y)'

\* While the CPU stays where it is, nobody joins those ahead.
LEMMA StayOInv ==
    ASSUME Sound, Sound', OInv, HistoryNext, UNCHANGED current,
           ~running \/ (OrderStays /\ running' = running)
    PROVE  OInv'
<1>1. watched' = watched /\ overtaken' = FALSE
  BY DEF HistoryNext
<1>2. CASE ahead' = {}
  BY <1>1, <1>2 DEF OInv, NoOvertaking, AheadIsBehind
<1>3. CASE ahead' # {}
  <2>1. Waits(watched)' /\ ahead' = ahead \cap allocated'
    BY <1>3 DEF HistoryNext
  <2>2. Waits(watched)
    BY <1>3, <2>1 DEF OInv, AheadIsBehind
  <2>3. OrderStays /\ running /\ running'
    BY <2>2 DEF Waits
  <2>4. PICK c \in Linked \cap Linked' : c = current
    BY <2>3 DEF Sound, DispatchSafe
  <2>5. PICK w \in Linked \cap Linked' : w = watched
    BY <1>1, <2>1, <2>2 DEF Waits
  <2>6. \A t \in ahead' : t \in Linked /\ t \in Linked'
    BY <2>1, <2>3 DEF OInv, AheadIsBehind, OrderStays
  <2>7. ASSUME NEW t \in ahead', t # c PROVE Round(c, w, t)'
    <3>1. t \in Linked \cap Linked' /\ Round(c, w, t)
      BY <2>1, <2>4, <2>5, <2>6, <2>7 DEF OInv, AheadIsBehind
    <3>2. /\ Before(c, w) => Before(c, w)'
          /\ Before(w, t) => Before(w, t)'
          /\ Before(t, c) => Before(t, c)'
      BY <2>3, <2>4, <2>5, <3>1 DEF OrderStays
    <3> QED
      BY <3>1, <3>2 DEF Round
  <2>8. \A t \in ahead' \ {current'} : Round(current, watched, t)'
    BY <1>1, <2>4, <2>5, <2>7 DEF Round, Before
  <2> QED
    BY <1>1, <2>1, <2>6, <2>8 DEF OInv, NoOvertaking, AheadIsBehind
<1> QED
  BY <1>2, <1>3

LEMMA SameOrder ==
    ASSUME UNCHANGED <<procs, threads>>
    PROVE  /\ Linked' = Linked
           /\ \A x, y : Before(x, y)' <=> Before(x, y)
           /\ OrderStays
<1>1. Places' = Places
  BY DEF Places
<1>2. \A s : ThreadAt(s)' = ThreadAt(s)
  BY DEF ThreadAt
<1>3. Linked' = Linked
  BY <1>1, <1>2 DEF Linked
<1>4. \A x, y : Before(x, y)' <=> Before(x, y)
  BY <1>1, <1>2 DEF Before
<1> QED
  BY <1>3, <1>4 DEF OrderStays

\* The thread the search finds is not ahead of the watched one, and those that
\* are ahead lie behind the watched one on the way from it too.
LEMMA SwitchOInv ==
    ASSUME Sound, Sound', OInv, HistoryNext, running, PspSetupTaskSWEnv,
           UNCHANGED <<procs, threads, running>>
    PROVE  OInv'
<1>1. PICK r \in PspFindNextThreadScheduled : current' = r
  BY DEF PspSetupTaskSWEnv
<1>2. CASE r = current
  BY <1>1, <1>2, StayOInv, SameOrder
<1>3. CASE r # current
  <2>1. TypeOK /\ NoDangling /\ SInv
    BY DEF Sound, SInv, IInv
  <2>2. PICK c \in Linked : c = current
    BY DEF Sound, DispatchSafe
  <2>3. PICK w : w = watched /\ w = watched'
    BY DEF HistoryNext
  <2>4. Waits(w) => w \in Linked /\ Runnable(w) /\ w # c
    BY <2>2 DEF Waits, Runnable
  <2>5. r \in Linked /\ (Waits(w) => ~Round(c, w, r))
    <3>1. r \in Linked
      BY <1>1, NextIsRunnable
    <3>2. ASSUME Waits(w) PROVE ~Round(current, w, r)
      BY <1>1, <2>1, <2>4, <3>2, NonePassed
    <3> QED
      BY <2>2, <3>1, <3>2
  <2>6. /\ ahead # {} => Waits(w)
        /\ ahead \subseteq Linked
        /\ \A t \in ahead \ {c} : Round(c, w, t)
    BY <2>2, <2>3 DEF OInv, AheadIsBehind
  <2>7. ~overtaken'
    BY <1>1, <1>3, <2>2, <2>3, <2>5, <2>6 DEF HistoryNext
  <2>8. CASE ahead' = {}
    BY <2>7, <2>8 DEF OInv, NoOvertaking, AheadIsBehind
  <2>9. CASE ahead' # {}
    <3>1. Waits(w)' /\ ahead' \subseteq ahead \cup {r}
      BY <1>1, <1>3, <2>3, <2>9 DEF HistoryNext
    <3>2. w \in Linked /\ w # r
      BY <1>1, <3>1, SameOrder DEF Waits
    <3>3. ASSUME NEW t \in ahead, t # r PROVE Round(r, w, t)
      <4>1. Waits(w) /\ t \in Linked
        BY <2>6, <3>3
      <4>2. Round(c, r, w)
        BY <1>3, <2>1, <2>2, <2>4, <2>5, <3>2, <4>1, OneIsFirst
      <4>3. CASE t = c
        BY <4>2, <4>3, RoundTurns
      <4>4. CASE t # c
        <5>1. Round(c, w, t)
          BY <2>6, <4>4
        <5> QED
          BY <2>1, <2>2, <2>5, <3>2, <4>1, <4>2, <5>1, RoundGoesOn
      <4> QED
        BY <4>3, <4>4
    <3>4. \A x, y, z : Round(x, y, z) => Round(x, y, z)'
      BY SameOrder DEF Round
    <3>5. \A t \in ahead' \ {current'} : Round(r, w, t)'
      BY <1>1, <3>1, <3>3, <3>4
    <3>6. \A t \in ahead' \ {current'} : Round(current, watched, t)'
      BY <1>1, <2>3, <3>5 DEF Round, Before
    <3>7. ahead' \subseteq Linked'
      BY <2>5, <2>6, <3>1, SameOrder
    <3> QED
      BY <2>3, <2>7, <3>1, <3>6, <3>7 DEF OInv, NoOvertaking, AheadIsBehind
  <2> QED
    BY <2>8, <2>9
<1> QED
  BY <1>2, <1>3

\* A new thread goes to the end of its list.
LEMMA LinkOrder ==
    ASSUME Sound, NEW c \in Mains, PspAddNewThread(c)
    PROVE  OrderStays
<1>1. TypeOK /\ HandlesHeld
  BY DEF Sound, SInv, IInv
<1>2. PICK t \in Threads : made[c] = t
  BY <1>1 DEF PspAddNewThread, AtPc, HandlesHeld
<1>3. PICK p \in Processes : p = parent[t]
  BY <1>1, <1>2 DEF TypeOK
<1>4. procs' = procs /\ threads' = [threads EXCEPT ![p] = Append(@, t)]
  BY <1>2, <1>3 DEF PspAddNewThread
<1>5. /\ Len(threads[p]) \in Nat /\ Len(Append(threads[p], t)) = Len(threads[p]) + 1
      /\ \A j \in 1 .. Len(threads[p]) : Append(threads[p], t)[j] = threads[p][j]
  <2>1. threads[p] \in Seq(Threads)
    BY <1>1 DEF TypeOK
  <2> QED
    BY <2>1
<1>6. PICK list : list = Append(threads[p], t)
  OBVIOUS
<1>7. /\ \A q \in Processes : threads'[q] = IF q = p THEN list ELSE threads[q]
      /\ Len(threads[p]) \in Nat /\ Len(list) = Len(threads[p]) + 1
      /\ \A j \in 1 .. Len(threads[p]) : list[j] = threads[p][j]
  BY <1>1, <1>4, <1>5, <1>6 DEF TypeOK
<1>8. ASSUME NEW s \in Places PROVE s \in Places' /\ ThreadAt(s)' = ThreadAt(s)
  <2>1. PICK i : i = s[1]
    OBVIOUS
  <2>2. PICK j : j = s[2]
    OBVIOUS
  <2>3. /\ i \in 1 .. Len(procs) /\ j \in 1 .. Len(threads[procs[i]])
        /\ procs[i] \in Processes /\ j \in Nat /\ s = <<i, j>>
    BY <1>1, <2>1, <2>2, PlaceIs
  <2>4. j \in 1 .. Len(threads'[procs[i]]) /\ threads'[procs[i]][j] = threads[procs[i]][j]
    <3>1. CASE procs[i] = p
      BY <1>7, <2>3, <3>1
    <3>2. CASE procs[i] # p
      BY <1>7, <2>3, <3>2
    <3> QED
      BY <3>1, <3>2
  <2>5. <<i, j>> \in Places'
    BY <1>4, <2>3, <2>4 DEF Places
  <2> QED
    BY <1>4, <2>3, <2>4, <2>5 DEF ThreadAt
<1>9. Linked \subseteq Linked'
  BY <1>8 DEF Linked
<1>10. \A x, y : Before(x, y) => Before(x, y)'
  BY <1>8 DEF Before
<1> QED
  BY <1>9, <1>10 DEF OrderStays

\* Cutting moves the threads behind the one that is cut one place forward.
LEMMA CutPlaces ==
    ASSUME SInv, running, NEW t \in Threads, NEW p \in DriverSet, p = parent[t],
           InList(t), status[t] = TERMINATED
    PROVE  \E k \in 1 .. Len(threads[p]) :
             /\ threads[p][k] = t
             /\ Len(Cut(p, t)) = Len(threads[p]) - 1
             /\ \A i \in 1 .. Len(threads[p]) - 1 :
                  Cut(p, t)[i] = IF i < k THEN threads[p][i] ELSE threads[p][i + 1]
<1>1. TypeOK /\ CountsMatch /\ Lists /\ Heads /\ p \in Processes
  BY Kinds DEF SInv, Safe, IInv, Lists
<1>2. PICK s \in Seq(Threads) : s = threads[p]
  BY <1>1 DEF TypeOK
<1>3. /\ thread_count[p] = Len(s) /\ Len(s) \in Nat
      /\ \A j, k \in 1 .. Len(s) : s[j] = s[k] => j = k
  BY <1>1, <1>2 DEF CountsMatch, Lists
<1>4. PICK k \in 1 .. Len(s) : s[k] = t
  BY <1>2 DEF InList, IsIn
<1>5. s # << >> => s[1] = Main[p] /\ (status[Main[p]] = TERMINATED => Len(s) = 1)
  BY <1>1, <1>2 DEF Heads
<1>6. CASE Len(s) = 1
  <2>1. Cut(p, t) = << >>
    BY <1>3, <1>6 DEF Cut
  <2>2. Len(Cut(p, t)) = 0 /\ Len(s) - 1 = 0
    BY <1>6, <2>1
  <2> QED
    BY <1>2, <1>4, <2>2
<1>7. CASE Len(s) # 1
  <2>1. s # << >> /\ k \in 2 .. Len(s)
    BY <1>3, <1>4, <1>5, <1>7
  <2>2. (CHOOSE j \in 1 .. Len(s) : s[j] = t) = k
    BY <1>3, <1>4
  <2>3. Cut(p, t) = WithoutPlace(s, k)
    BY <1>2, <1>3, <1>7, <2>2 DEF Cut
  <2>4. /\ Len(WithoutPlace(s, k)) = Len(s) - 1
        /\ \A i \in 1 .. Len(s) - 1 : WithoutPlace(s, k)[i] = IF i < k THEN s[i] ELSE s[i + 1]
    BY <2>1, WithoutPlaceAt
  <2> QED
    BY <1>2, <1>4, <2>3, <2>4
<1> QED
  BY <1>6, <1>7

LEMMA DeleteOrder ==
    ASSUME Sound, Sound', DeleteThread
    PROVE  OrderStays
<1>1. /\ SInv /\ TypeOK /\ HandlesHeld /\ Ended /\ NoDangling
      /\ Linked' \subseteq allocated'
  BY DEF Sound, SInv, Safe, IInv, NoDangling
<1>2. running /\ pc["thread_cutter"] = "cut" /\ procs' = procs
  BY DEF DeleteThread, AtPc
<1>3. PICK t \in Threads : item = t
  BY <1>1, <1>2 DEF HandlesHeld
<1>4. CASE ~CanCut(item)
  BY <1>2, <1>4, SameOrder DEF DeleteThread
<1>5. CASE CanCut(item)
  <2>1. PICK p \in DriverSet : p = parent[t] /\ p \in Processes
    BY <1>1, <1>3, <1>5 DEF CanCut, TypeOK, Processes
  <2>2. InList(t) /\ status[t] = TERMINATED
    BY <1>1, <1>3 DEF Ended, IsDoomed
  <2>3. PICK list : list = Cut(p, t)
    OBVIOUS
  <2>4. PICK n \in Nat : n = Len(threads[p])
    <3>1. threads[p] \in Seq(Threads)
      BY <1>1, <2>1 DEF TypeOK
    <3> QED
      BY <3>1, LenProperties
  <2>5. PICK k \in 1 .. n :
          /\ threads[p][k] = t /\ Len(list) = n - 1
          /\ \A i \in 1 .. n - 1 : list[i] = IF i < k THEN threads[p][i] ELSE threads[p][i + 1]
    <3>1. \E k \in 1 .. Len(threads[p]) :
            /\ threads[p][k] = t
            /\ Len(Cut(p, t)) = Len(threads[p]) - 1
            /\ \A i \in 1 .. Len(threads[p]) - 1 :
                 Cut(p, t)[i] = IF i < k THEN threads[p][i] ELSE threads[p][i + 1]
      BY <1>1, <1>2, <2>1, <2>2, CutPlaces
    <3> QED
      BY <2>3, <2>4, <3>1, Zenon
  <2>6. threads' = [threads EXCEPT ![p] = list] /\ allocated' = allocated \ {t}
    BY <1>3, <1>5, <2>1, <2>3 DEF DeleteThread, BlocksWithout
  <2>7. \A q \in Processes : threads'[q] = IF q = p THEN list ELSE threads[q]
    BY <1>1, <2>6 DEF TypeOK
  <2> DEFINE Moved(s) == IF procs[s[1]] = p /\ s[2] > k THEN <<s[1], s[2] - 1>> ELSE s
  <2>8. ASSUME NEW s \in Places, ThreadAt(s) # t, NEW x, x = Moved(s)
        PROVE  x \in Places' /\ ThreadAt(x)' = ThreadAt(s)
    <3>1. PICK i : i = s[1]
      OBVIOUS
    <3>2. PICK j : j = s[2]
      OBVIOUS
    <3>3. /\ i \in 1 .. Len(procs) /\ j \in 1 .. Len(threads[procs[i]])
          /\ procs[i] \in Processes /\ j \in Nat
          /\ s = <<i, j>> /\ s[1] = i /\ s[2] = j
      BY <1>1, <3>1, <3>2, PlaceIs
    <3>4. ThreadAt(s) = threads[procs[i]][j]
      BY <3>3 DEF ThreadAt
    <3>5. ASSUME NEW m \in 1 .. Len(threads'[procs[i]]),
                 threads'[procs[i]][m] = threads[procs[i]][j], x = <<i, m>>
          PROVE  x \in Places' /\ ThreadAt(x)' = ThreadAt(s)
      <4>1. <<i, m>> \in Places'
        BY <1>2, <3>3, <3>5 DEF Places
      <4>2. ThreadAt(<<i, m>>)' = ThreadAt(s)
        BY <1>2, <3>3, <3>4, <3>5 DEF ThreadAt
      <4> QED
        BY <3>5, <4>1, <4>2
    <3>6. CASE procs[i] # p
      BY <2>7, <2>8, <3>3, <3>5, <3>6
    <3>7. CASE procs[i] = p /\ j > k
      <4>1. j \in Nat /\ j <= n /\ j - 1 \in 1 .. n - 1 /\ ~(j - 1 < k) /\ (j - 1) + 1 = j
        BY <2>4, <2>5, <3>3, <3>7
      <4>2. list[j - 1] = threads[p][j]
        BY <2>5, <4>1
      <4>3. x = <<i, j - 1>>
        BY <2>8, <3>3, <3>7
      <4> QED
        BY <2>1, <2>5, <2>7, <3>5, <3>7, <4>1, <4>2, <4>3
    <3>8. CASE procs[i] = p /\ ~(j > k)
      <4>1. j # k
        BY <2>5, <2>8, <3>4, <3>8
      <4>2. j \in 1 .. n - 1 /\ j < k
        BY <2>4, <2>5, <3>3, <3>8, <4>1
      <4>3. list[j] = threads[p][j]
        BY <2>5, <4>2
      <4>4. x = <<i, j>>
        BY <2>8, <3>3, <3>8
      <4> QED
        BY <2>1, <2>5, <2>7, <3>5, <3>8, <4>2, <4>3, <4>4
    <3> QED
      BY <3>6, <3>7, <3>8
  <2>9. ASSUME NEW r \in Places, NEW s \in Places, ThreadAt(r) # t, ThreadAt(s) # t,
               Precedes(r, s)
        PROVE  Precedes(Moved(r), Moved(s))
    <3>1. /\ r[1] \in Nat /\ r[2] \in Nat /\ s[1] \in Nat /\ s[2] \in Nat
          /\ r = <<r[1], r[2]>> /\ s = <<s[1], s[2]>>
      BY <1>1, PlaceIs
    <3>2. procs[r[1]] = p => r[2] # k
      BY <2>5, <2>9 DEF ThreadAt
    <3>3. procs[s[1]] = p => s[2] # k
      BY <2>5, <2>9 DEF ThreadAt
    <3>4. k \in Nat
      BY <2>4, <2>5
    <3>5. CASE r[1] < s[1]
      BY <3>1, <3>5 DEF Precedes
    <3>6. CASE r[1] = s[1] /\ r[2] < s[2]
      BY <3>1, <3>2, <3>3, <3>4, <3>6 DEF Precedes
    <3> QED
      BY <2>9, <3>5, <3>6 DEF Precedes
  <2> HIDE DEF Moved
  <2>10. ASSUME NEW x \in Linked, x # t PROVE x \in Linked'
    <3>1. PICK s \in Places : ThreadAt(s) = x
      BY <2>10 DEF Linked
    <3>2. PICK m : m = Moved(s)
      OBVIOUS
    <3>3. m \in Places' /\ ThreadAt(m)' = x
      BY <2>8, <2>10, <3>1, <3>2
    <3> QED
      BY <3>3 DEF Linked
  <2>11. ASSUME NEW x, NEW y, x # t, y # t, Before(x, y) PROVE Before(x, y)'
    <3>1. PICK r \in Places, s \in Places : ThreadAt(r) = x /\ ThreadAt(s) = y /\ Precedes(r, s)
      BY <2>11 DEF Before
    <3>2. PICK l, m : l = Moved(r) /\ m = Moved(s)
      OBVIOUS
    <3>3. /\ l \in Places' /\ ThreadAt(l)' = x
          /\ m \in Places' /\ ThreadAt(m)' = y
      BY <2>8, <2>11, <3>1, <3>2
    <3>4. Precedes(l, m)
      BY <2>9, <2>11, <3>1, <3>2
    <3> QED
      BY <3>3, <3>4 DEF Before, Precedes
  <2>12. t \notin allocated' /\ t \notin Linked'
    BY <1>1, <2>6
  <2> QED
    BY <2>10, <2>11, <2>12 DEF OrderStays
<1> QED
  BY <1>4, <1>5

\* Every step.
LEMMA TaskSwitchOInv ==
    ASSUME Sound, Sound', OInv, HistoryNext, running, NEW w, HalTaskSwitch(w)
    PROVE  OInv'
  BY SwitchOInv DEF HalTaskSwitch, lists

LEMMA SystemOInv ==
    ASSUME Sound, Sound', OInv, HistoryNext,
           Boot \/ Psp_IRQ_SystemTimer \/ PspIdleThread \/ PspProcessCutterThread \/ CutterStep
    PROVE  OInv'
<1>1. CASE Boot
  BY <1>1, StayOInv DEF Boot, EnterIdleThread, InitializeDriver
<1>2. CASE Psp_IRQ_SystemTimer
  BY <1>2, SwitchOInv DEF Psp_IRQ_SystemTimer, lists
<1>3. CASE PspIdleThread \/ PspProcessCutterThread \/ CutterSwitches
  BY <1>3, TaskSwitchOInv DEF PspIdleThread, PspProcessCutterThread, CutterSwitches, AtPc
<1>4. CASE PopCuttingItem
  BY <1>4, SameOrder, StayOInv DEF PopCuttingItem, lists
<1>5. CASE DeleteThread
  BY <1>5, DeleteOrder, StayOInv DEF DeleteThread
<1> QED
  BY <1>1, <1>2, <1>3, <1>4, <1>5 DEF CutterStep

LEMMA CreationOInv ==
    ASSUME Sound, Sound', OInv, HistoryNext, NEW c \in Mains, CreationStep(c)
    PROVE  OInv'
<1>1. ASSUME NEW t \in Spare, \E user, auto \in BOOLEAN : AllocateTCB(c, t, user, auto)
      PROVE  OInv'
  <2>1. UNCHANGED <<procs, threads, current, running>>
    BY <1>1 DEF AllocateTCB, lists
  <2> QED
    BY <2>1, SameOrder, StayOInv
<1>2. CASE AllocateStack(c) \/ SetupTSS(c)
  <2>1. UNCHANGED <<procs, threads, current, running>>
    BY <1>2 DEF AllocateStack, SetupTSS, lists
  <2> QED
    BY <2>1, SameOrder, StayOInv
<1>3. CASE PspAddNewThread(c)
  BY <1>3, LinkOrder, StayOInv DEF PspAddNewThread
<1> QED
  BY <1>1, <1>2, <1>3, Zenon DEF CreationStep

LEMMA ClientOInv ==
    ASSUME Sound, Sound', OInv, HistoryNext, ClientStep
    PROVE  OInv'
<1>1. ASSUME NEW c \in Mains, StartThread(c) \/ PsDeleteThread(c) PROVE OInv'
  <2>1. UNCHANGED <<procs, threads, current, running>>
    BY <1>1 DEF StartThread, PsDeleteThread, lists
  <2> QED
    BY <2>1, SameOrder, StayOInv
<1>2. ASSUME NEW t, BlockSelf(t) \/ Return(t) \/ PopJob \/ WakeThread PROVE OInv'
  <2>1. UNCHANGED <<procs, threads, current, running>>
    BY <1>2 DEF BlockSelf, Return, PopJob, WakeThread, lists
  <2> QED
    BY <2>1, SameOrder, StayOInv
<1>3. ASSUME NEW t \in Mains \cup Spare, Yield(t) \/ BlockedSwitches(t) \/ ReturnedSwitches(t)
      PROVE  OInv'
  BY <1>3, TaskSwitchOInv DEF Yield, BlockedSwitches, ReturnedSwitches, AtPc
<1> QED
  BY <1>1, <1>2, <1>3, CreationOInv, Zenon DEF ClientStep

\* While a thread waits READY no other gets the CPU twice: neither the timer
\* nor a voluntary switch goes past it, and the threads that are linked and cut
\* meanwhile do not change its turn.
THEOREM OrderCorrect == HeadLeavesLast => (OrderSpec => []NoOvertaking)
<1> SUFFICES ASSUME HeadLeavesLast PROVE OrderSpec => []NoOvertaking
  OBVIOUS
<1>1. Sound /\ Sound' /\ OInv /\ [OrderNext]_<<vars, history>> => OInv'
  <2> SUFFICES ASSUME Sound, Sound', OInv, [OrderNext]_<<vars, history>> PROVE OInv'
    OBVIOUS
  <2>1. CASE OrderNext
    BY <2>1, SystemOInv, ClientOInv, Zenon DEF OrderNext, Next
  <2>2. CASE UNCHANGED <<vars, history>>
    <3>1. /\ UNCHANGED <<procs, threads, current, running, status>>
          /\ UNCHANGED <<watched, ahead, overtaken>>
      BY <2>2 DEF vars, lists, history
    <3>2. Waits(watched)' <=> Waits(watched)
      BY <3>1, SameOrder DEF Waits
    <3>3. \A x, y, z : Round(x, y, z) => Round(x, y, z)'
      BY <3>1, SameOrder DEF Round
    <3>4. \A t \in ahead' \ {current'} : Round(current, watched, t)'
      BY <3>1, <3>3 DEF OInv, AheadIsBehind
    <3> QED
      BY <3>1, <3>2, <3>4, SameOrder DEF OInv, NoOvertaking, AheadIsBehind
  <2> QED
    BY <2>1, <2>2
<1>2. OrderSpec => Spec
  <2>1. [OrderNext]_<<vars, history>> => [Next]_vars
    BY DEF OrderNext
  <2> QED
    BY <2>1, PTL DEF OrderSpec, OrderInit, Spec
<1>3. OInv => NoOvertaking
  BY DEF OInv
<1> QED
  BY <1>1, <1>2, <1>3, InitOInv, SoundAlways, PTL DEF OrderSpec, OrderInit
=============================================================================
