------------------------- MODULE FloppyDriverProofs -------------------------
(***************************************************************************)
(* No wake-up is lost in the floppy driver, for any number of threads, any *)
(* size of the job queue and any requests; and a read inside a track       *)
(* returns the sectors it asked for.                                       *)
(***************************************************************************)
EXTENDS FloppyDriver, TLAPS

----------------------------------------------------------------------------
(* No lost wake-up.  WaitingHasJob is inductive: a thread that can call has *)
(* no job, so the one it queues is its only one; the one that leaves the    *)
(* queue goes to the hand, and leaves the hand when its thread is readied.  *)

\* A queued job adds its place at the end of the queue to those of its thread.
LEMMA QueuedJob ==
    ASSUME TypeOK, NEW j \in Jobs, jobs' = Append(jobs, j), NEW c \in Clients
    PROVE  JobsOf(c)' = JobsOf(c) \cup (IF j.thread = c THEN {Len(jobs) + 1} ELSE {})
<1>1. /\ Len(jobs') = Len(jobs) + 1 /\ Len(jobs) \in Nat
      /\ \A k \in 1 .. Len(jobs) : jobs'[k] = jobs[k]
      /\ jobs'[Len(jobs) + 1] = j
  BY DEF TypeOK
<1> QED
  BY <1>1 DEF JobsOf

\* The job at the head leaves, the others move up by one.
LEMMA PoppedJob ==
    ASSUME TypeOK, jobs # << >>, jobs' = Tail(jobs), NEW c \in Clients
    PROVE  /\ \A k \in Nat : k \in JobsOf(c)' <=> k # 0 /\ k + 1 \in JobsOf(c)
           /\ 1 \in JobsOf(c) <=> Head(jobs).thread = c
           /\ JobsOf(c) \subseteq Nat \ {0} /\ JobsOf(c)' \subseteq Nat \ {0}
<1>1. /\ Len(jobs') = Len(jobs) - 1 /\ Len(jobs) \in Nat \ {0}
      /\ \A k \in 1 .. Len(jobs) - 1 : jobs'[k] = jobs[k + 1]
      /\ Head(jobs) = jobs[1]
  BY DEF TypeOK
<1> QED
  BY <1>1 DEF JobsOf

LEMMA JobFields ==
    ASSUME NEW j \in Jobs
    PROVE  j.sector \in Nat /\ j.number \in Nat /\ j.number \in 0 .. 255
  BY DEF Jobs

LEMMA CommandList ==
    /\ Len(Commands) = 4
    /\ Commands[1] = "motor" /\ Commands[2] = "calibrate"
    /\ Commands[3] = "seek" /\ Commands[4] = "read"
  BY DEF Commands

LEMMA WaitingInit == Init => WaitingHasJob
<1> SUFFICES ASSUME Init PROVE WaitingHasJob
  OBVIOUS
<1>1. NoJob \in Jobs
  BY DEF NoJob, Jobs
<1>2. jobs \in Seq(Jobs) /\ Len(jobs) <= FDD_JOB_ITEM_Q_SIZE
  BY DriverAssumption DEF Init
<1>3. buffer \in [Clients -> Seq(Contents)] /\ dma \in [Track -> Contents]
  BY DEF Init, Contents
<1>4. /\ status \in [Clients -> {READY, WAITING}]
      /\ pc \in [Clients -> {"idle", "reading"}]
      /\ request \in [Clients -> Nat \X (0 .. 255)]
      /\ result \in [Clients -> {"none", "refused", "done"}]
  BY DEF Init
<1>5. /\ step \in {"pop", "reset", "issue", "wait", "dma", "copy", "off", "wake"}
      /\ stage \in 1 .. Len(Commands) /\ job \in Jobs
      /\ fdc \in {"off", "ready", "result"} \cup {Commands[k] : k \in 1 .. Len(Commands)}
      /\ flag \in BOOLEAN /\ irq \in BOOLEAN /\ armed \in BOOLEAN
  <2>1. flag \in BOOLEAN /\ irq \in BOOLEAN /\ armed \in BOOLEAN
    BY Zenon DEF Init
  <2>2. step = "pop" /\ stage = 1 /\ job = NoJob /\ fdc = "off"
    BY DEF Init
  <2>3. 1 \in 1 .. Len(Commands)
    BY CommandList
  <2> QED
    BY <1>1, <2>1, <2>2, <2>3
<1>6. TypeOK
  BY <1>2, <1>3, <1>4, <1>5 DEF TypeOK
<1>7. ASSUME NEW c \in Clients PROVE HasItsJob(c)
  <2>1. JobsOf(c) = {}
    <3>1. Len(jobs) = 0
      BY DEF Init
    <3> QED
      BY <3>1 DEF JobsOf
  <2>2. ~InHand(c) /\ status[c] = READY
    BY DEF Init, InHand
  <2> QED
    BY <2>1, <2>2 DEF HasItsJob, READY, WAITING
<1> QED
  BY <1>6, <1>7 DEF WaitingHasJob

LEMMA CallType ==
    ASSUME WaitingHasJob, NEW c \in Clients, NEW r \in Requests, FddReadSector(c, r)
    PROVE  TypeOK'
<1>1. TypeOK /\ r \in Nat \X (0 .. 255)
  BY DriverAssumption DEF WaitingHasJob
<1>2. [sector |-> r[1], number |-> r[2], thread |-> c] \in Jobs
  BY <1>1 DEF Jobs
<1>3. jobs' \in Seq(Jobs) /\ Len(jobs') <= FDD_JOB_ITEM_Q_SIZE
  <2>1. CASE jobs' = jobs
    BY <1>1, <2>1 DEF TypeOK
  <2>2. CASE HasRoom /\ jobs' = Append(jobs, [sector |-> r[1], number |-> r[2], thread |-> c])
    <3>1. jobs \in Seq(Jobs) /\ Len(jobs) \in Nat /\ Len(jobs) < FDD_JOB_ITEM_Q_SIZE
      BY <1>1, <2>2 DEF TypeOK, HasRoom
    <3>2. jobs' \in Seq(Jobs) /\ Len(jobs') = Len(jobs) + 1
      BY <1>2, <2>2, <3>1
    <3> QED
      BY <3>1, <3>2, DriverAssumption
  <2> QED
    BY <2>1, <2>2 DEF FddReadSector
<1>4. /\ status' \in [Clients -> {READY, WAITING}]
      /\ pc' \in [Clients -> {"idle", "reading"}]
      /\ request' \in [Clients -> Nat \X (0 .. 255)]
      /\ result' \in [Clients -> {"none", "refused", "done"}]
  <2>1. /\ status' = status \/ status' = [status EXCEPT ![c] = WAITING]
        /\ pc' = pc \/ pc' = [pc EXCEPT ![c] = "reading"]
        /\ request' = [request EXCEPT ![c] = r]
        /\ \/ result' = [result EXCEPT ![c] = "none"]
           \/ result' = [result EXCEPT ![c] = "refused"]
    BY DEF FddReadSector, StatusOfCaller
  <2>2. /\ status \in [Clients -> {READY, WAITING}]
        /\ pc \in [Clients -> {"idle", "reading"}]
        /\ request \in [Clients -> Nat \X (0 .. 255)]
        /\ result \in [Clients -> {"none", "refused", "done"}]
    BY <1>1 DEF TypeOK
  <2>3. request' \in [Clients -> Nat \X (0 .. 255)]
    BY <1>1, <2>1, <2>2
  <2>4. status' \in [Clients -> {READY, WAITING}]
    BY <2>1, <2>2
  <2>5. pc' \in [Clients -> {"idle", "reading"}]
    BY <2>1, <2>2
  <2>6. result' \in [Clients -> {"none", "refused", "done"}]
    BY <2>1, <2>2
  <2> QED
    BY <2>3, <2>4, <2>5, <2>6
<1>5. UNCHANGED <<buffer, step, stage, job, flag, fdc, irq, armed, dma>>
  BY DEF FddReadSector, thread, controller
<1>6. fdc' \in {"off", "ready", "result"} \cup {Commands[k] : k \in 1 .. Len(Commands)}
  BY <1>1, <1>5 DEF TypeOK
<1> QED
  BY <1>1, <1>3, <1>4, <1>5, <1>6 DEF TypeOK

LEMMA CallWaiting ==
    ASSUME WaitingHasJob, NEW c \in Clients, NEW r \in Requests, FddReadSector(c, r)
    PROVE  WaitingHasJob'
<1>1. TypeOK /\ TypeOK'
  BY CallType DEF WaitingHasJob
<1>2. UNCHANGED <<step, job>>
  BY DEF FddReadSector, thread
<1>3. CASE UNCHANGED <<jobs, status, pc>>
  BY <1>1, <1>2, <1>3 DEF WaitingHasJob, HasItsJob, JobsOf, InHand
<1>4. CASE /\ jobs' = Append(jobs, [sector |-> r[1], number |-> r[2], thread |-> c])
           /\ status' = StatusOfCaller(c) /\ pc' = [pc EXCEPT ![c] = "reading"]
  <2>1. [sector |-> r[1], number |-> r[2], thread |-> c] \in Jobs
    BY DriverAssumption DEF Jobs
  <2>2. status[c] = READY /\ JobsOf(c) = {} /\ ~InHand(c)
    BY DEF FddReadSector, WaitingHasJob, HasItsJob, READY, WAITING
  <2> ASSUME NEW d \in Clients PROVE HasItsJob(d)'
    <3>1. JobsOf(d)' = JobsOf(d) \cup (IF c = d THEN {Len(jobs) + 1} ELSE {})
      BY <1>1, <1>4, <2>1, QueuedJob
    <3>2. HasItsJob(d) /\ (InHand(d)' <=> InHand(d))
      BY <1>2 DEF WaitingHasJob, InHand
    <3>3. CASE d = c
      BY <1>1, <1>4, <2>2, <3>1, <3>2, <3>3 DEF HasItsJob, StatusOfCaller, TypeOK, READY, WAITING
    <3>4. CASE d # c
      <4>1. status'[d] = status[d] /\ pc'[d] = pc[d]
        BY <1>1, <1>4, <3>4 DEF StatusOfCaller, TypeOK
      <4>2. JobsOf(d)' = JobsOf(d)
        BY <3>1, <3>4
      <4> QED
        BY <3>2, <4>1, <4>2 DEF HasItsJob
    <3> QED
      BY <3>3, <3>4
  <2> QED
    BY <1>1 DEF WaitingHasJob
<1>5. \/ UNCHANGED <<jobs, status, pc>>
      \/ /\ jobs' = Append(jobs, [sector |-> r[1], number |-> r[2], thread |-> c])
         /\ status' = StatusOfCaller(c) /\ pc' = [pc EXCEPT ![c] = "reading"]
  BY Zenon DEF FddReadSector
<1> QED
  BY <1>3, <1>4, <1>5, Zenon

LEMMA ReturnWaiting ==
    ASSUME WaitingHasJob, NEW c \in Clients, ReadReturns(c)
    PROVE  WaitingHasJob'
<1>1. TypeOK'
  BY DEF WaitingHasJob, TypeOK, ReadReturns, thread, controller
<1>2. ASSUME NEW d \in Clients PROVE HasItsJob(d)'
  <2>1. /\ status[c] = READY /\ UNCHANGED <<jobs, status, step, job>>
        /\ pc' = [pc EXCEPT ![c] = "idle"]
    BY DEF ReadReturns, thread
  <2>2. HasItsJob(d) /\ pc \in [Clients -> {"idle", "reading"}]
    BY DEF WaitingHasJob, TypeOK
  <2>3. JobsOf(d)' = JobsOf(d) /\ (InHand(d)' <=> InHand(d)) /\ status'[d] = status[d]
    BY <2>1 DEF JobsOf, InHand
  <2>4. status[d] = WAITING => pc'[d] = pc[d]
    BY <2>1, <2>2 DEF READY, WAITING
  <2> QED
    BY <2>2, <2>3, <2>4 DEF HasItsJob
<1> QED
  BY <1>1, <1>2 DEF WaitingHasJob

LEMMA PopWaiting ==
    ASSUME WaitingHasJob, FddpPopJobItem
    PROVE  WaitingHasJob'
<1>1. TypeOK
  BY DEF WaitingHasJob
<1>2. /\ step = "pop" /\ jobs # << >> /\ job' = Head(jobs) /\ jobs' = Tail(jobs)
      /\ step' = "reset" /\ stage' = 1 /\ UNCHANGED <<clients, flag, controller>>
  BY DEF FddpPopJobItem
<1>3. TypeOK'
  <2>1. job' \in Jobs /\ jobs' \in Seq(Jobs) /\ Len(jobs') <= FDD_JOB_ITEM_Q_SIZE
    <3>1. jobs \in Seq(Jobs) /\ Len(jobs) \in Nat \ {0} /\ Len(jobs) <= FDD_JOB_ITEM_Q_SIZE
      BY <1>1, <1>2 DEF TypeOK
    <3>2. Head(jobs) \in Jobs /\ Tail(jobs) \in Seq(Jobs) /\ Len(Tail(jobs)) = Len(jobs) - 1
      BY <1>2, <3>1
    <3> QED
      BY <1>2, <3>1, <3>2, DriverAssumption
  <2>2. stage' \in 1 .. Len(Commands) /\ step' \in {"pop", "reset"}
    BY <1>2, CommandList
  <2> QED
    BY <1>1, <1>2, <2>1, <2>2 DEF TypeOK, clients, calls, controller
<1>4. ASSUME NEW c \in Clients PROVE HasItsJob(c)'
  <2>1. /\ \A k \in Nat : k \in JobsOf(c)' <=> k # 0 /\ k + 1 \in JobsOf(c)
        /\ 1 \in JobsOf(c) <=> Head(jobs).thread = c
        /\ JobsOf(c) \subseteq Nat \ {0} /\ JobsOf(c)' \subseteq Nat \ {0}
    BY <1>1, <1>2, PoppedJob
  <2>2. HasItsJob(c) /\ ~InHand(c) /\ UNCHANGED <<status, pc>>
    BY <1>2 DEF WaitingHasJob, InHand, clients, calls
  <2>3. InHand(c)' <=> 1 \in JobsOf(c)
    BY <1>2, <2>1 DEF InHand
  <2>4. CASE 1 \in JobsOf(c)
    <3>1. JobsOf(c)' = {}
      BY <2>1, <2>2, <2>4 DEF HasItsJob
    <3> QED
      BY <2>2, <2>3, <2>4, <3>1 DEF HasItsJob
  <2>5. CASE 1 \notin JobsOf(c)
    <3>1. JobsOf(c)' # {} <=> JobsOf(c) # {}
      <4>1. ASSUME NEW k \in JobsOf(c) PROVE k - 1 \in JobsOf(c)'
        <5>1. k \in Nat /\ k - 1 \in Nat /\ k - 1 # 0 /\ (k - 1) + 1 = k
          BY <2>1, <2>5, <4>1
        <5> QED
          BY <2>1, <5>1
      <4>2. ASSUME NEW k \in JobsOf(c)' PROVE k + 1 \in JobsOf(c)
        BY <2>1, <4>2
      <4> QED
        BY <4>1, <4>2
    <3>2. \A j, k \in JobsOf(c)' : j = k
      <4> SUFFICES ASSUME NEW j \in JobsOf(c)', NEW k \in JobsOf(c)' PROVE j = k
        OBVIOUS
      <4>1. j \in Nat /\ k \in Nat /\ j + 1 \in JobsOf(c) /\ k + 1 \in JobsOf(c)
        BY <2>1
      <4>2. j + 1 = k + 1
        BY <2>2, <4>1 DEF HasItsJob
      <4> QED
        BY <4>1, <4>2
    <3> QED
      BY <2>2, <2>3, <2>5, <3>1, <3>2 DEF HasItsJob
  <2> QED
    BY <2>4, <2>5
<1> QED
  BY <1>3, <1>4 DEF WaitingHasJob

\* The steps of the job thread between a pop and a wake-up keep the job in hand.
LEMMA StillInHand ==
    ASSUME WaitingHasJob, TypeOK', step # "pop", step' # "pop", UNCHANGED <<jobs, status, pc, job>>
    PROVE  WaitingHasJob'
<1> SUFFICES ASSUME NEW c \in Clients PROVE HasItsJob(c)'
  BY DEF WaitingHasJob
<1>1. HasItsJob(c) /\ JobsOf(c)' = JobsOf(c) /\ (InHand(c)' <=> InHand(c))
  BY DEF WaitingHasJob, JobsOf, InHand
<1> QED
  BY <1>1 DEF HasItsJob

LEMMA WakeWaiting ==
    ASSUME WaitingHasJob, WakeReader
    PROVE  WaitingHasJob'
<1>1. NoJob \in Jobs
  BY DEF NoJob, Jobs
<1>2. TypeOK'
  BY <1>1 DEF WaitingHasJob, TypeOK, WakeReader, calls, controller
<1>3. ASSUME NEW c \in Clients PROVE HasItsJob(c)'
  <2>1. /\ step = "wake" /\ status' = [status EXCEPT ![job.thread] = READY]
        /\ step' = "pop" /\ UNCHANGED <<jobs, pc>>
    BY DEF WakeReader, calls
  <2>2. HasItsJob(c) /\ JobsOf(c)' = JobsOf(c) /\ ~InHand(c)'
    BY <2>1 DEF WaitingHasJob, JobsOf, InHand
  <2>3. InHand(c) <=> job.thread = c
    BY <2>1 DEF InHand
  <2>4. status \in [Clients -> {READY, WAITING}]
    BY DEF WaitingHasJob, TypeOK
  <2>5. status'[c] = IF job.thread = c THEN READY ELSE status[c]
    BY <2>1, <2>4
  <2> QED
    BY <2>1, <2>2, <2>3, <2>5 DEF HasItsJob, READY, WAITING
<1> QED
  BY <1>2, <1>3 DEF WaitingHasJob

\* What is copied is a sequence of sectors, or of what is no sector.
LEMMA CopyType ==
    ASSUME TypeOK, Copy
    PROVE  buffer' \in [Clients -> Seq(Contents)]
<1> DEFINE first == SectorOf(job.sector) - 1
           At(k) == IF k \in Track THEN dma[k] ELSE NoData
           copied == [i \in 1 .. job.number |-> At(first + i - 1)]
<1>1. buffer' = [buffer EXCEPT ![job.thread] = copied]
  BY DEF Copy
<1>2. job.number \in Nat
  <2>1. job \in Jobs
    BY DEF TypeOK
  <2> QED
    BY <2>1, JobFields
<1>3. \A i \in 1 .. job.number : At(first + i - 1) \in Contents
  BY DEF TypeOK, Contents
<1>4. copied \in Seq(Contents)
  <2> HIDE DEF At, first
  <2>1. copied \in [1 .. job.number -> Contents]
    BY <1>3
  <2>2. [1 .. job.number -> Contents] \subseteq Seq(Contents)
    BY <1>2
  <2> QED
    BY <2>1, <2>2
<1> HIDE DEF copied
<1> QED
  BY <1>1, <1>4 DEF TypeOK

LEMMA JobThreadWaiting ==
    ASSUME WaitingHasJob, JobThread
    PROVE  WaitingHasJob'
<1>1. TypeOK /\ stage \in 1 .. 4
  BY CommandList DEF WaitingHasJob, TypeOK
<1>2. CASE ResetFlag
  <2>1. step = "reset" /\ step' = "issue" /\ flag' = FALSE
        /\ UNCHANGED <<jobs, clients, stage, job, controller>>
    BY <1>2 DEF ResetFlag, FlagBefore
  <2>2. TypeOK'
    BY <1>1, <2>1 DEF TypeOK, clients, calls, controller
  <2> QED
    BY <2>1, <2>2, StillInHand DEF clients, calls
<1>3. CASE Issue
  <2>1. step = "issue" /\ step' = "wait"
        /\ UNCHANGED <<jobs, clients, stage, job, flag, irq, armed, dma>>
    BY <1>3 DEF Issue
  <2>2. fdc' = "motor" \/ fdc' = fdc \/ fdc' = Commands[stage]
    BY <1>3 DEF Issue
  <2>3. fdc' \in {"off", "ready", "result"} \cup {Commands[k] : k \in 1 .. Len(Commands)}
    BY <1>1, <2>2, CommandList DEF TypeOK
  <2>4. TypeOK'
    BY <1>1, <2>1, <2>3 DEF TypeOK, clients, calls
  <2> QED
    BY <2>1, <2>4, StillInHand DEF clients, calls
<1>4. CASE Wait
  <2>1. step = "wait" /\ UNCHANGED <<jobs, clients, job, flag, controller>>
    BY <1>4 DEF Wait
  <2>2. step' \in {"dma", "copy", "reset"} /\ stage' \in 1 .. 4
    BY <1>1, <1>4, CommandList DEF Wait
  <2>3. TypeOK'
    BY <1>1, <2>1, <2>2, CommandList DEF TypeOK, clients, calls, controller
  <2> QED
    BY <2>1, <2>2, <2>3, StillInHand DEF clients, calls
<1>5. CASE FddpSetupDMA
  <2>1. step = "dma" /\ step' = "reset" /\ armed' = TRUE
        /\ UNCHANGED <<jobs, clients, stage, job, flag, fdc, irq, dma>>
    BY <1>5 DEF FddpSetupDMA
  <2>2. TypeOK'
    BY <1>1, <2>1 DEF TypeOK, clients, calls
  <2> QED
    BY <2>1, <2>2, StillInHand DEF clients, calls
<1>6. CASE Copy
  <2>1. step = "copy" /\ step' = "off"
        /\ UNCHANGED <<jobs, calls, status, stage, job, flag, controller>>
    BY <1>6 DEF Copy
  <2>2. TypeOK'
    BY <1>1, <1>6, <2>1, CopyType DEF TypeOK, calls, controller
  <2> QED
    BY <2>1, <2>2, StillInHand DEF calls
<1>7. CASE FddpTurnOffMotor
  <2>1. step = "off" /\ step' = "wake" /\ fdc' = "off"
        /\ UNCHANGED <<jobs, clients, stage, job, flag, irq, armed, dma>>
    BY <1>7 DEF FddpTurnOffMotor, AfterMotorOff
  <2>2. TypeOK'
    BY <1>1, <2>1 DEF TypeOK, clients, calls
  <2> QED
    BY <2>1, <2>2, StillInHand DEF clients, calls
<1> QED
  BY <1>2, <1>3, <1>4, <1>5, <1>6, <1>7, PopWaiting, WakeWaiting DEF JobThread

\* The controller and its interrupt touch no thread and no job.
LEMMA ControllerWaiting ==
    ASSUME WaitingHasJob, CommandEnds \/ Fdd_IRQ_Handler
    PROVE  WaitingHasJob'
<1>1. TypeOK /\ UNCHANGED <<jobs, clients, thread>>
  BY DEF WaitingHasJob, CommandEnds, Fdd_IRQ_Handler
<1>2. fdc' \in {"off", "ready", "result"} \cup {Commands[k] : k \in 1 .. Len(Commands)}
  BY <1>1 DEF TypeOK, CommandEnds, Fdd_IRQ_Handler
<1>3. dma' \in [Track -> Contents]
  <2>1. CASE dma' = dma
    BY <1>1, <2>1 DEF TypeOK
  <2>2. CASE dma' = [k \in Track |-> OnDisk(TrackOf(job.sector), HeadOf(job.sector), k)]
    <3>1. job.sector \in Nat /\ SECTORS_PER_TRACK \in Nat \ {0}
      <4>1. job \in Jobs
        BY <1>1 DEF TypeOK
      <4> QED
        BY <4>1, JobFields, DriverAssumption
    <3>2. TrackOf(job.sector) \in Nat /\ HeadOf(job.sector) \in Nat
      BY <3>1 DEF TrackOf, HeadOf
    <3>3. \A k \in Track : OnDisk(TrackOf(job.sector), HeadOf(job.sector), k) \in Nat
      BY <3>1, <3>2 DEF OnDisk, Track
    <3> QED
      BY <2>2, <3>3 DEF Contents
  <2> QED
    BY <2>1, <2>2 DEF CommandEnds, Fdd_IRQ_Handler
<1>4. flag' \in BOOLEAN /\ irq' \in BOOLEAN /\ armed' \in BOOLEAN
  BY <1>1 DEF TypeOK, CommandEnds, Fdd_IRQ_Handler
<1>5. TypeOK'
  BY <1>1, <1>2, <1>3, <1>4 DEF TypeOK, clients, calls, thread
<1> QED
  BY <1>1, <1>5 DEF WaitingHasJob, HasItsJob, JobsOf, InHand, clients, calls, thread

LEMMA WaitingStep == WaitingHasJob /\ [Next]_vars => WaitingHasJob'
<1> SUFFICES ASSUME WaitingHasJob, [Next]_vars PROVE WaitingHasJob'
  OBVIOUS
<1>1. CASE UNCHANGED vars
  BY <1>1 DEF vars, clients, calls, thread, controller, WaitingHasJob, TypeOK, HasItsJob, JobsOf, InHand
<1> QED
  BY <1>1, CallWaiting, ReturnWaiting, JobThreadWaiting, ControllerWaiting DEF Next

\* A thread sleeps exactly as long as the driver holds one job of its, however
\* many threads read and however short the queue is: no wake-up is lost, none
\* comes from an earlier call.
THEOREM NoLostWakeup == Spec => []WaitingHasJob
  BY WaitingInit, WaitingStep, PTL DEF Spec

----------------------------------------------------------------------------
(***************************************************************************)
(* A read inside a track returns the sectors it asked for, for any number  *)
(* of threads, any size of the job queue and of a track.                   *)
(*                                                                         *)
(* One flag stands for every interrupt of the controller, so the argument  *)
(* is the hand-shake: at each place of the job thread the controller, its  *)
(* pending interrupt and the flag are in one of a few combinations, and    *)
(* the flag can only end the wait of the command it belongs to.            *)
(***************************************************************************)

\* The requests the driver serves right: inside a track, on a track whose number
\* fits the BYTE that holds it.
InsideATrack(r) ==
    /\ (r[1] % SECTORS_PER_TRACK) + r[2] <= SECTORS_PER_TRACK
    /\ r[1] \div (SECTORS_PER_TRACK * 2) < 256

RequestsInside == \A r \in Requests : InsideATrack(r)

\* What a request is to return.
Sectors(r) == [i \in 1 .. r[2] |-> r[1] + i - 1]

----------------------------------------------------------------------------
(* Arithmetic of the disk.                                                 *)

LEMMA Remainder ==
    ASSUME NEW n \in Nat \ {0}, NEW a \in Nat, NEW b \in 0 .. (n - 1)
    PROVE  (a * n + b) % n = b /\ (a * n + b) \div n = a
<1>1. a * n \in Nat
  OBVIOUS
<1> QED
  BY <1>1

LEMMA Division ==
    ASSUME NEW n \in Nat \ {0}, NEW s \in Nat
    PROVE  /\ s \div n \in Nat /\ s % n \in 0 .. (n - 1)
           /\ s = (s \div n) * n + (s % n)
  OBVIOUS

\* Head, track and sector, as the driver computes them, lead back to the sector.
LEMMA SectorOnDisk ==
    ASSUME NEW s \in Nat, s \div (SECTORS_PER_TRACK * 2) < 256
    PROVE  OnDisk(TrackOf(s), HeadOf(s), s % SECTORS_PER_TRACK) = s
<1> DEFINE n == SECTORS_PER_TRACK
           q == s \div (n * 2)
           r == s % (n * 2)
           h == r \div n
           t == r % n
<1>1. n \in Nat \ {0} /\ n * 2 \in Nat \ {0}
  BY DriverAssumption
<1> HIDE DEF n
<1>2. q \in Nat /\ r \in 0 .. (n * 2 - 1) /\ s = q * (n * 2) + r
  BY <1>1, Division
<1>3. r \in Nat
  BY <1>1, <1>2
<1> HIDE DEF q, r
<1>4. h \in Nat /\ t \in 0 .. (n - 1) /\ r = h * n + t
  BY <1>1, <1>3, Division
<1> HIDE DEF h, t
<1>5. q * (n * 2) = (q * 2) * n /\ (q * 2 + h) * n = (q * 2) * n + h * n
      /\ q * 2 + h \in Nat /\ h * n \in Nat /\ q * (n * 2) \in Nat
  BY <1>1, <1>2, <1>4
<1>6. s = (q * 2 + h) * n + t
  BY <1>1, <1>2, <1>4, <1>5
<1>7. s % n = t
  BY <1>1, <1>4, <1>5, <1>6, Remainder
<1>8. TrackOf(s) = q
  <2>1. q < 256
    BY DEF q, n
  <2>2. q % 256 = q
    BY <1>2, <2>1
  <2> QED
    BY <2>2 DEF TrackOf, q, n
<1>9. HeadOf(s) = h
  BY DEF HeadOf, h, r, n
<1> QED
  BY <1>6, <1>7, <1>8, <1>9 DEF OnDisk, n

----------------------------------------------------------------------------
(* The invariant.                                                          *)

\* Every job is the call its thread waits in.
JobIsRequest(j) ==
    /\ j.thread \in Clients
    /\ request[j.thread] = <<j.sector, j.number>>
    /\ InsideATrack(<<j.sector, j.number>>)

JobsAreRequests ==
    /\ \A k \in 1 .. Len(jobs) : JobIsRequest(jobs[k])
    /\ step # "pop" => JobIsRequest(job)

\* The controller before a command, and after it.
Before(k) == IF k = 1 THEN "off" ELSE "ready"
After(k) == IF k = 4 THEN "result" ELSE "ready"

\* The interrupt the job thread waits for is still to be raised, pending, or
\* told to the flag; elsewhere none is on its way.
Handshake ==
    /\ armed <=> \/ stage = 4 /\ step \in {"reset", "issue"}
                 \/ step = "wait" /\ fdc = "read"
    /\ step = "wait" => \/ fdc = Commands[stage] /\ ~irq /\ ~flag
                        \/ fdc = After(stage) /\ irq /\ ~flag
                        \/ fdc = After(stage) /\ ~irq /\ flag
    /\ step # "wait" => ~irq
    /\ step \in {"reset", "issue"} => fdc = Before(stage)
    /\ step = "issue" => ~flag
    /\ step = "dma" => stage = 4 /\ fdc = "ready"
    /\ step \in {"pop", "wake"} => fdc = "off"
    /\ step \in {"copy", "off"} => fdc = "result"

\* Once the read has ended the DMA area holds the track of the job.
TrackRead == dma = [k \in Track |-> OnDisk(TrackOf(job.sector), HeadOf(job.sector), k)]
DataArrives == (step = "wait" /\ fdc = "result") \/ step = "copy" => TrackRead

\* The buffer is right from the copy on, until the call returns and after.
Filled(c) == buffer[c] = Sectors(request[c])
BufferFilled == step \in {"off", "wake"} => Filled(job.thread)
Returned ==
    \A c \in Clients :
        /\ pc[c] = "reading" /\ status[c] = READY => Filled(c)
        /\ result[c] = "done" => Filled(c) /\ pc[c] = "idle"

DInv ==
    /\ WaitingHasJob /\ JobsAreRequests
    /\ Handshake /\ DataArrives
    /\ BufferFilled /\ Returned

LEMMA DeliveryInit == Init => DInv
<1> SUFFICES ASSUME Init PROVE DInv
  OBVIOUS
<1>1. step = "pop" /\ stage = 1 /\ fdc = "off" /\ ~irq /\ ~armed /\ Len(jobs) = 0
  BY DEF Init
<1>2. JobsAreRequests
  BY <1>1 DEF JobsAreRequests
<1>3. Handshake
  BY <1>1 DEF Handshake
<1>4. DataArrives /\ BufferFilled
  BY <1>1 DEF DataArrives, BufferFilled
<1>5. Returned
  BY DEF Init, Returned
<1> QED
  BY <1>2, <1>3, <1>4, <1>5, WaitingInit DEF DInv

----------------------------------------------------------------------------
(* Calls and returns.                                                      *)

\* A thread that can call has no job: its new request disturbs none.
LEMMA CallRequests ==
    ASSUME RequestsInside, DInv, NEW c \in Clients, NEW r \in Requests, FddReadSector(c, r)
    PROVE  JobsAreRequests' /\ (step # "pop" => job.thread # c /\ job.thread \in Clients)
<1>1. TypeOK /\ JobsOf(c) = {} /\ ~InHand(c)
  BY DEF FddReadSector, DInv, WaitingHasJob, HasItsJob, READY, WAITING
<1>2. r = <<r[1], r[2]>> /\ r[1] \in Nat /\ r[2] \in 1 .. 255 /\ InsideATrack(<<r[1], r[2]>>)
  BY DriverAssumption DEF RequestsInside, InsideATrack
<1>3. request' = [request EXCEPT ![c] = r] /\ request \in [Clients -> Nat \X (0 .. 255)]
      /\ UNCHANGED <<step, job>>
  BY <1>1 DEF FddReadSector, TypeOK, thread
<1>4. ASSUME NEW j, JobIsRequest(j), j.thread # c PROVE JobIsRequest(j)'
  BY <1>3, <1>4 DEF JobIsRequest, InsideATrack
<1>5. ASSUME NEW k \in 1 .. Len(jobs), NEW j, j = jobs[k] PROVE JobIsRequest(j)'
  <2>1. j.thread # c
    BY <1>1, <1>5 DEF JobsOf
  <2>2. JobIsRequest(j)
    BY <1>5 DEF DInv, JobsAreRequests
  <2> QED
    BY <1>4, <2>1, <2>2
<1>6. step # "pop" => JobIsRequest(job) /\ job.thread # c
  BY <1>1 DEF DInv, JobsAreRequests, InHand
<1>7. step' # "pop" => JobIsRequest(job)'
  BY <1>3, <1>4, <1>6
<1>8. CASE jobs' = jobs
  <2>1. ASSUME NEW k \in 1 .. Len(jobs') PROVE JobIsRequest(jobs[k])'
    <3>1. PICK j : j = jobs[k]
      OBVIOUS
    <3>2. JobIsRequest(j)'
      BY <1>5, <1>8, <2>1, <3>1
    <3> QED
      BY <1>8, <3>1, <3>2
  <2> QED
    BY <1>6, <1>7, <2>1 DEF JobsAreRequests, JobIsRequest
<1>9. CASE jobs' = Append(jobs, [sector |-> r[1], number |-> r[2], thread |-> c])
  <2> DEFINE j == [sector |-> r[1], number |-> r[2], thread |-> c]
  <2>1. /\ Len(jobs') = Len(jobs) + 1 /\ Len(jobs) \in Nat
        /\ \A k \in 1 .. Len(jobs) : jobs'[k] = jobs[k]
        /\ jobs'[Len(jobs) + 1] = j
    BY <1>1, <1>9 DEF TypeOK
  <2>2. JobIsRequest(j)'
    BY <1>2, <1>3 DEF JobIsRequest, InsideATrack
  <2> HIDE DEF j
  <2>3. ASSUME NEW k \in 1 .. Len(jobs') PROVE JobIsRequest(jobs[k])'
    <3>1. CASE k \in 1 .. Len(jobs)
      <4>1. PICK i : i = jobs[k]
        OBVIOUS
      <4>2. JobIsRequest(i)'
        BY <1>5, <3>1, <4>1
      <4> QED
        BY <2>1, <3>1, <4>1, <4>2
    <3>2. CASE k = Len(jobs) + 1
      BY <2>1, <2>2, <3>2 DEF JobIsRequest
    <3> QED
      BY <2>1, <2>3, <3>1, <3>2
  <2> QED
    BY <1>6, <1>7, <2>3 DEF JobsAreRequests, JobIsRequest
<1> QED
  BY <1>8, <1>9 DEF FddReadSector

LEMMA CallDelivers ==
    ASSUME RequestsInside, DInv, NEW c \in Clients, NEW r \in Requests, FddReadSector(c, r)
    PROVE  DInv'
<1>1. TypeOK /\ WaitingHasJob' /\ JobsAreRequests'
  BY CallWaiting, CallRequests DEF DInv, WaitingHasJob
<1>2. UNCHANGED <<buffer, step, stage, job, flag, fdc, irq, armed, dma>>
  BY DEF FddReadSector, thread, controller
<1>3. Handshake' /\ DataArrives'
  BY <1>2 DEF DInv, Handshake, DataArrives, TrackRead
<1>4. \A d \in Clients : d # c =>
        UNCHANGED <<request[d], pc[d], status[d], result[d]>> /\ (Filled(d)' <=> Filled(d))
  BY <1>1, <1>2 DEF FddReadSector, TypeOK, StatusOfCaller, Filled, Sectors
<1>5. BufferFilled'
  <2>1. step # "pop" => job.thread # c /\ job.thread \in Clients
    BY CallRequests
  <2> QED
    BY <1>2, <1>4, <2>1 DEF DInv, BufferFilled, Filled
<1>6. \/ status'[c] = WAITING /\ result'[c] = "none"
      \/ pc'[c] = "idle" /\ result'[c] = "refused"
  BY <1>1 DEF FddReadSector, TypeOK, StatusOfCaller
<1>7. Returned'
  BY <1>4, <1>6 DEF DInv, Returned, READY, WAITING
<1> QED
  BY <1>1, <1>3, <1>5, <1>7 DEF DInv

LEMMA ReturnDelivers ==
    ASSUME DInv, NEW c \in Clients, ReadReturns(c)
    PROVE  DInv'
<1>1. TypeOK /\ WaitingHasJob'
  BY ReturnWaiting DEF DInv, WaitingHasJob
<1>2. UNCHANGED <<jobs, status, request, buffer, step, stage, job, flag, fdc, irq, armed, dma>>
  BY DEF ReadReturns, thread, controller
<1>3. JobsAreRequests' /\ Handshake' /\ DataArrives' /\ BufferFilled'
  BY <1>2 DEF DInv, JobsAreRequests, JobIsRequest, InsideATrack, Handshake, DataArrives,
              TrackRead, BufferFilled, Filled, Sectors
<1>4. \A d \in Clients : Filled(d)' <=> Filled(d)
  BY <1>2 DEF Filled, Sectors
<1>5. Filled(c)
  BY DEF ReadReturns, DInv, Returned
<1>6. Returned'
  BY <1>1, <1>2, <1>4, <1>5 DEF ReadReturns, DInv, Returned, TypeOK
<1> QED
  BY <1>1, <1>3, <1>6 DEF DInv

----------------------------------------------------------------------------
(* The job thread.                                                         *)

\* What the steps of the job thread leave alone.
LEMMA SameRequests ==
    ASSUME DInv, UNCHANGED <<jobs, calls, status>>
    PROVE  /\ step # "pop" /\ job' = job => JobsAreRequests'
           /\ buffer' = buffer => Returned'
           /\ buffer' = buffer => \A d : Filled(d)' <=> Filled(d)
<1>1. UNCHANGED <<jobs, status, pc, request, result>>
  BY DEF calls
<1>2. step # "pop" /\ job' = job => JobsAreRequests'
  BY <1>1 DEF DInv, JobsAreRequests, JobIsRequest, InsideATrack
<1>3. ASSUME buffer' = buffer PROVE \A d : Filled(d)' <=> Filled(d)
  BY <1>1, <1>3 DEF Filled, Sectors
<1>4. buffer' = buffer => Returned'
  BY <1>1, <1>3 DEF DInv, Returned
<1> QED
  BY <1>2, <1>3, <1>4

LEMMA PopDelivers ==
    ASSUME DInv, FddpPopJobItem
    PROVE  DInv'
<1>1. TypeOK /\ WaitingHasJob'
  BY PopWaiting DEF DInv, WaitingHasJob
<1>2. /\ step = "pop" /\ jobs # << >> /\ job' = Head(jobs) /\ jobs' = Tail(jobs)
      /\ step' = "reset" /\ stage' = 1
      /\ UNCHANGED <<pc, request, result, status, buffer, flag, fdc, irq, armed, dma>>
  BY DEF FddpPopJobItem, clients, calls, controller
<1>3. ASSUME NEW j, JobIsRequest(j) PROVE JobIsRequest(j)'
  BY <1>2, <1>3 DEF JobIsRequest, InsideATrack
<1>4. /\ Len(jobs') = Len(jobs) - 1 /\ Len(jobs) \in Nat \ {0}
      /\ \A k \in 1 .. Len(jobs) - 1 : jobs'[k] = jobs[k + 1]
      /\ job' = jobs[1]
  BY <1>1, <1>2 DEF TypeOK
<1>5. JobIsRequest(job)'
  <2>1. PICK j : j = jobs[1]
    OBVIOUS
  <2>2. JobIsRequest(j)'
    BY <1>3, <1>4, <2>1 DEF DInv, JobsAreRequests
  <2> QED
    BY <1>4, <2>1, <2>2
<1>6. ASSUME NEW k \in 1 .. Len(jobs') PROVE JobIsRequest(jobs[k])'
  <2>1. PICK j : j = jobs[k + 1]
    OBVIOUS
  <2>2. JobIsRequest(j)'
    BY <1>3, <1>4, <1>6, <2>1 DEF DInv, JobsAreRequests
  <2>3. jobs'[k] = j
    BY <1>4, <1>6, <2>1
  <2> QED
    BY <2>2, <2>3
<1>7. JobsAreRequests'
  BY <1>5, <1>6 DEF JobsAreRequests
<1>8. Handshake' /\ DataArrives' /\ BufferFilled'
  BY <1>2 DEF DInv, Handshake, DataArrives, BufferFilled, Before
<1>9. Returned'
  BY <1>2 DEF DInv, Returned, Filled, Sectors
<1> QED
  BY <1>1, <1>7, <1>8, <1>9 DEF DInv

\* The hand-shake of a command: reset of the flag, the command, the wait.
LEMMA CommandDelivers ==
    ASSUME DInv, ResetFlag \/ Issue \/ Wait \/ FddpSetupDMA
    PROVE  DInv'
<1>1. /\ WaitingHasJob' /\ stage \in 1 .. 4
      /\ Commands[1] = "motor" /\ Commands[2] = "calibrate"
      /\ Commands[3] = "seek" /\ Commands[4] = "read" /\ Len(Commands) = 4
  BY JobThreadWaiting, CommandList DEF DInv, WaitingHasJob, TypeOK, JobThread
<1>2. Handshake /\ DataArrives
  BY DEF DInv
<1>3. /\ UNCHANGED <<jobs, calls, status, buffer, job, dma, irq>>
      /\ step \in {"reset", "issue", "wait", "dma"}
      /\ step' \in {"reset", "issue", "wait", "dma", "copy"}
  BY <1>1 DEF ResetFlag, Issue, Wait, FddpSetupDMA, clients, controller
<1>4. JobsAreRequests' /\ Returned' /\ BufferFilled'
  BY <1>3, SameRequests DEF BufferFilled
<1>5. Handshake' /\ DataArrives'
  <2>1. CASE ResetFlag
    <3>1. step = "reset" /\ step' = "issue" /\ ~flag' /\ UNCHANGED <<stage, fdc, irq, armed>>
      BY <2>1 DEF ResetFlag, FlagBefore, controller
    <3> QED
      BY <1>2, <3>1 DEF Handshake, DataArrives, Before
  <2>2. CASE Issue
    <3>1. /\ step = "issue" /\ step' = "wait" /\ UNCHANGED <<stage, flag, irq, armed>>
          /\ fdc = Before(stage) /\ ~irq /\ ~flag /\ (armed <=> stage = 4)
      BY <1>2, <2>2 DEF Issue, Handshake
    <3>2. fdc' = Commands[stage]
      BY <1>1, <2>2, <3>1 DEF Issue, Before
    <3> QED
      BY <1>1, <3>1, <3>2 DEF Handshake, DataArrives
  <2>3. CASE Wait
    <3>1. /\ step = "wait" /\ flag /\ UNCHANGED <<fdc, irq, armed>>
          /\ fdc = After(stage) /\ ~irq /\ (armed <=> fdc = "read")
      BY <1>2, <2>3 DEF Wait, Handshake, controller
    <3>2. CASE stage \in {1, 2}
      <4>1. stage' = stage + 1 /\ step' = "reset" /\ fdc = "ready"
        BY <1>1, <2>3, <3>1, <3>2 DEF Wait, After
      <4> QED
        BY <3>1, <3>2, <4>1 DEF Handshake, DataArrives, Before
    <3>3. CASE stage = 3
      <4>1. stage' = 4 /\ step' = "dma" /\ fdc = "ready"
        BY <1>1, <2>3, <3>1, <3>3 DEF Wait, After
      <4> QED
        BY <3>1, <4>1 DEF Handshake, DataArrives
    <3>4. CASE stage = 4
      <4>1. stage' = 4 /\ step' = "copy" /\ fdc = "result"
        BY <1>1, <2>3, <3>1, <3>4 DEF Wait, After
      <4>2. TrackRead'
        BY <1>2, <1>3, <3>1, <4>1 DEF DataArrives, TrackRead
      <4> QED
        BY <3>1, <4>1, <4>2 DEF Handshake, DataArrives
    <3> QED
      BY <1>1, <3>2, <3>3, <3>4
  <2>4. CASE FddpSetupDMA
    <3>1. step = "dma" /\ step' = "reset" /\ armed' = TRUE /\ UNCHANGED <<stage, flag, fdc, irq>>
      BY <2>4 DEF FddpSetupDMA
    <3> QED
      BY <1>2, <3>1 DEF Handshake, DataArrives, Before
  <2> QED
    BY <2>1, <2>2, <2>3, <2>4
<1> QED
  BY <1>1, <1>4, <1>5 DEF DInv

\* The copy takes from the track just the sectors of the request: it asks for
\* none past the end.
LEMMA CopyFills ==
    ASSUME DInv, Copy
    PROVE  buffer' = [buffer EXCEPT ![job.thread] = Sectors(request[job.thread])]
<1> DEFINE s == job.sector
           n == job.number
           first == SectorOf(s) - 1
           At(k) == IF k \in Track THEN dma[k] ELSE NoData
<1>1. step = "copy" /\ buffer' = [buffer EXCEPT ![job.thread] = [i \in 1 .. n |-> At(first + i - 1)]]
  BY DEF Copy
<1>2. s \in Nat /\ n \in Nat
  <2>1. job \in Jobs
    BY DEF DInv, WaitingHasJob, TypeOK
  <2> QED
    BY <2>1, JobFields
<1>3. request[job.thread] = <<s, n>> /\ InsideATrack(<<s, n>>)
  BY <1>1 DEF DInv, JobsAreRequests, JobIsRequest
<1>4. /\ (s % SECTORS_PER_TRACK) + n <= SECTORS_PER_TRACK
      /\ s \div (SECTORS_PER_TRACK * 2) < 256
      /\ SECTORS_PER_TRACK \in Nat \ {0}
  BY <1>3, DriverAssumption DEF InsideATrack
<1>5. first = s % SECTORS_PER_TRACK /\ first \in Nat
  BY <1>2, <1>4 DEF SectorOf
<1>6. OnDisk(TrackOf(s), HeadOf(s), first) = s
  BY <1>2, <1>4, <1>5, SectorOnDisk
<1>7. dma = [k \in Track |-> OnDisk(TrackOf(s), HeadOf(s), k)]
  BY <1>1 DEF DInv, DataArrives, TrackRead
<1>8. ASSUME NEW i \in 1 .. n PROVE At(first + i - 1) = s + i - 1
  <2>1. first + i - 1 \in Track
    BY <1>2, <1>4, <1>5, <1>8 DEF Track
  <2>2. At(first + i - 1) = OnDisk(TrackOf(s), HeadOf(s), first + i - 1)
    BY <1>7, <2>1
  <2>3. TrackOf(s) \in Nat /\ HeadOf(s) \in Nat
    BY <1>2, <1>4 DEF TrackOf, HeadOf
  <2> DEFINE base == (TrackOf(s) * 2 + HeadOf(s)) * SECTORS_PER_TRACK
  <2>4. base \in Int
    BY <1>4, <2>3
  <2>5. OnDisk(TrackOf(s), HeadOf(s), first + i - 1) = base + (first + i - 1) /\ base + first = s
    BY <1>6 DEF OnDisk
  <2> HIDE DEF base, first, s
  <2> QED
    BY <1>2, <1>5, <1>8, <2>2, <2>4, <2>5
<1>9. [i \in 1 .. n |-> At(first + i - 1)] = Sectors(request[job.thread])
  <2> HIDE DEF At, first, s, n
  <2> QED
    BY <1>3, <1>8 DEF Sectors
<1> QED
  BY <1>1, <1>9

\* The thread of the job is still in its call: no other buffer is touched.
LEMMA CopyDelivers ==
    ASSUME DInv, Copy
    PROVE  DInv'
<1>1. TypeOK /\ WaitingHasJob'
  BY JobThreadWaiting DEF DInv, WaitingHasJob, JobThread
<1>2. /\ step = "copy" /\ step' = "off"
      /\ UNCHANGED <<jobs, calls, pc, request, result, status, stage, job, flag, fdc, irq, armed, dma>>
  BY DEF Copy, calls, controller
<1>3. JobsAreRequests'
  BY <1>2, SameRequests
<1>4. Handshake' /\ DataArrives'
  BY <1>2 DEF DInv, Handshake, DataArrives
<1>5. PICK c \in Clients : c = job.thread
  BY <1>2 DEF DInv, JobsAreRequests, JobIsRequest
<1>6. buffer' = [buffer EXCEPT ![c] = Sectors(request[c])] /\ buffer \in [Clients -> Seq(Contents)]
  BY <1>1, <1>5, CopyFills DEF TypeOK
<1>7. status[c] = WAITING /\ pc[c] = "reading"
  BY <1>2, <1>5 DEF DInv, WaitingHasJob, HasItsJob, InHand
<1>8. Filled(c)' /\ \A d \in Clients : d # c => (Filled(d)' <=> Filled(d))
  BY <1>2, <1>6 DEF Filled, Sectors
<1>9. BufferFilled'
  BY <1>2, <1>5, <1>8 DEF BufferFilled, Filled
<1>10. Returned'
  BY <1>2, <1>7, <1>8 DEF DInv, Returned, READY, WAITING
<1> QED
  BY <1>1, <1>3, <1>4, <1>9, <1>10 DEF DInv

LEMMA MotorDelivers ==
    ASSUME DInv, FddpTurnOffMotor
    PROVE  DInv'
<1>1. WaitingHasJob'
  BY JobThreadWaiting DEF DInv, JobThread
<1>2. /\ step = "off" /\ step' = "wake" /\ fdc' = "off"
      /\ UNCHANGED <<jobs, calls, request, status, buffer, stage, job, flag, irq, armed, dma>>
  BY DEF FddpTurnOffMotor, AfterMotorOff, clients, calls
<1>3. JobsAreRequests' /\ Returned'
  BY <1>2, SameRequests
<1>4. Handshake' /\ DataArrives'
  BY <1>2 DEF DInv, Handshake, DataArrives
<1>5. BufferFilled'
  BY <1>2 DEF DInv, BufferFilled, Filled, Sectors
<1> QED
  BY <1>1, <1>3, <1>4, <1>5 DEF DInv

LEMMA WakeDelivers ==
    ASSUME DInv, WakeReader
    PROVE  DInv'
<1>1. TypeOK /\ WaitingHasJob'
  BY JobThreadWaiting DEF DInv, WaitingHasJob, JobThread
<1>2. /\ step = "wake" /\ step' = "pop" /\ status' = [status EXCEPT ![job.thread] = READY]
      /\ UNCHANGED <<jobs, pc, request, result, buffer, stage, flag, fdc, irq, armed, dma>>
  BY DEF WakeReader, calls, controller
<1>3. JobsAreRequests'
  BY <1>2 DEF DInv, JobsAreRequests, JobIsRequest, InsideATrack
<1>4. Handshake' /\ DataArrives' /\ BufferFilled'
  BY <1>2 DEF DInv, Handshake, DataArrives, BufferFilled
<1>5. PICK c \in Clients : c = job.thread
  BY <1>2 DEF DInv, JobsAreRequests, JobIsRequest
<1>6. Filled(c)
  BY <1>2, <1>5 DEF DInv, BufferFilled, Filled
<1>7. /\ \A d : Filled(d)' <=> Filled(d)
      /\ \A d \in Clients : d # c => status'[d] = status[d]
  BY <1>1, <1>2, <1>5 DEF Filled, Sectors, TypeOK
<1>8. Returned'
  BY <1>2, <1>6, <1>7 DEF DInv, Returned
<1> QED
  BY <1>1, <1>3, <1>4, <1>8 DEF DInv

----------------------------------------------------------------------------
(* The controller.                                                         *)

\* A command that ends belongs to a wait whose flag is still to be set; if it
\* is the read, the track of the job has arrived.
LEMMA ControllerDelivers ==
    ASSUME DInv, CommandEnds \/ Fdd_IRQ_Handler
    PROVE  DInv'
<1>1. WaitingHasJob' /\ stage \in 1 .. 4
  BY ControllerWaiting, CommandList DEF DInv, WaitingHasJob, TypeOK
<1>2. UNCHANGED <<jobs, calls, request, status, buffer, step, stage, job>>
  BY DEF CommandEnds, Fdd_IRQ_Handler, clients, calls, thread
<1>3. JobsAreRequests' /\ Returned' /\ BufferFilled'
  <2>1. JobsAreRequests'
    BY <1>2 DEF DInv, JobsAreRequests, JobIsRequest, InsideATrack
  <2>2. Returned'
    BY <1>2, SameRequests
  <2>3. BufferFilled'
    BY <1>2 DEF DInv, BufferFilled, Filled, Sectors
  <2> QED
    BY <2>1, <2>2, <2>3
<1>4. Handshake /\ DataArrives
  BY DEF DInv
<1>5. CASE CommandEnds
  <2>1. step = "wait" /\ fdc = Commands[stage] /\ ~irq /\ ~flag /\ (armed <=> fdc = "read")
    <3>1. fdc \in {"motor", "calibrate", "seek", "read"}
      BY <1>5, CommandList DEF CommandEnds
    <3>2. step \notin {"reset", "issue", "dma", "pop", "wake", "copy", "off"}
      BY <1>4, <3>1 DEF Handshake, Before
    <3>3. step = "wait"
      BY <3>2 DEF DInv, WaitingHasJob, TypeOK
    <3>4. fdc # After(stage)
      BY <3>1 DEF After
    <3> QED
      BY <1>4, <3>3, <3>4 DEF Handshake
  <2>2. fdc = "read" <=> stage = 4
    BY <1>1, <2>1, CommandList
  <2>3. irq' /\ flag' = flag /\ fdc' = After(stage) /\ ~armed' /\ (fdc' = "result" => TrackRead')
    BY <1>2, <1>5, <2>1, <2>2 DEF CommandEnds, After, TrackRead
  <2>4. Handshake'
    BY <1>1, <1>2, <2>1, <2>3 DEF Handshake, After
  <2>5. DataArrives'
    BY <1>2, <2>1, <2>3 DEF DataArrives
  <2> QED
    BY <1>1, <1>3, <2>4, <2>5 DEF DInv
<1>6. CASE Fdd_IRQ_Handler
  <2>1. irq /\ ~irq' /\ flag' /\ UNCHANGED <<fdc, armed, dma>>
    BY <1>6 DEF Fdd_IRQ_Handler
  <2>2. Handshake' /\ DataArrives'
    BY <1>2, <1>4, <2>1 DEF Handshake, DataArrives, TrackRead
  <2> QED
    BY <1>1, <1>3, <2>2 DEF DInv
<1> QED
  BY <1>5, <1>6

LEMMA DeliveryStep ==
    ASSUME RequestsInside, DInv, [Next]_vars
    PROVE  DInv'
<1>1. CASE UNCHANGED vars
  <2>1. UNCHANGED <<jobs, status, pc, request, result, buffer, step, stage, job, flag, fdc, irq, armed, dma>>
    BY <1>1 DEF vars, clients, calls, thread, controller
  <2>2. WaitingHasJob'
    BY WaitingStep DEF DInv
  <2>3. JobsAreRequests'
    BY <2>1 DEF DInv, JobsAreRequests, JobIsRequest, InsideATrack
  <2>4. Handshake' /\ DataArrives'
    BY <2>1 DEF DInv, Handshake, DataArrives, TrackRead
  <2>5. BufferFilled' /\ Returned'
    BY <2>1 DEF DInv, BufferFilled, Returned, Filled, Sectors
  <2> QED
    BY <2>2, <2>3, <2>4, <2>5 DEF DInv
<1>2. CASE JobThread
  BY <1>2, PopDelivers, CommandDelivers, CopyDelivers, MotorDelivers, WakeDelivers DEF JobThread
<1> QED
  BY <1>1, <1>2, CallDelivers, ReturnDelivers, ControllerDelivers DEF Next

\* When FddReadSector returns TRUE the buffer holds the sectors asked for, if
\* every request stays inside a track of a number below 256: however the
\* threads, the job thread and the interrupts of the controller interleave.
THEOREM ReadsDeliver == RequestsInside => (Spec => []ReadDelivers)
<1>1. RequestsInside /\ DInv /\ [Next]_vars => DInv'
  BY DeliveryStep
<1>2. DInv => ReadDelivers
  BY DEF DInv, Returned, Filled, Sectors, ReadDelivers
<1> SUFFICES ASSUME RequestsInside PROVE Spec => []ReadDelivers
  OBVIOUS
<1>3. DInv /\ [Next]_vars => DInv'
  BY <1>1
<1> QED
  BY DeliveryInit, <1>2, <1>3, PTL DEF Spec
=============================================================================
