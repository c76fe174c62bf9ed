---------------------------- MODULE FloppyDriver ----------------------------
(***************************************************************************)
(* The floppy driver of src/mylysos/fdddrv.c: threads queue a job and      *)
(* block; the job thread pops it, takes the controller through its four    *)
(* commands, waiting for an interrupt after each, copies what the DMA left *)
(* in low memory and readies the thread.  A thread executes only while it  *)
(* is READY; any of them may be interrupted between two steps, by another  *)
(* or by the controller.                                                   *)
(*                                                                         *)
(* The content of a sector is its number.  The controller and the DMA are  *)
(* outside the repository: they are modelled by what the driver waits for. *)
(***************************************************************************)
EXTENDS Integers, Sequences

CONSTANTS
    Clients,            \* the threads that read
    Requests,           \* what they read: <<first sector, number of sectors>>
    SECTORS_PER_TRACK,
    FDD_JOB_ITEM_Q_SIZE,
    NoData              \* memory that holds nothing of the disk

ASSUME DriverAssumption ==
    /\ SECTORS_PER_TRACK \in 1 .. 255
    /\ FDD_JOB_ITEM_Q_SIZE \in 1 .. 255
    /\ Requests \subseteq Nat \X (1 .. 255)
    /\ NoData \notin Nat

VARIABLES
    jobs,       \* m_JobItemQ, oldest first: RingQueue shows the ring is this
    status,     \* thread_status of each client
    pc,         \* whether a client is inside FddReadSector
    request,    \* its last call
    result,     \* what the call returned
    buffer,     \* what pt_data points to
    step,       \* where the job thread is in its code
    stage,      \* the command it is at
    job,        \* job_item
    flag,       \* m_FddInterruptOccurred
    fdc,        \* what the controller does
    irq,        \* its interrupt is pending
    armed,      \* the DMA is set up for a transfer
    dma         \* the DMA area at address 0: a track

calls == <<pc, request, result>>
clients == <<calls, status, buffer>>
controller == <<fdc, irq, armed, dma>>
thread == <<step, stage, job>>
vars == <<jobs, clients, thread, flag, controller>>

READY == "READY"
WAITING == "WAITING"
NoJob == [sector |-> 0, number |-> 0, thread |-> NoData]
Commands == <<"motor", "calibrate", "seek", "read">>
Track == 0 .. (SECTORS_PER_TRACK - 1)

\* Where a sector is, in the BYTEs the driver computes.
HeadOf(sector) == (sector % (SECTORS_PER_TRACK * 2)) \div SECTORS_PER_TRACK
TrackOf(sector) == (sector \div (SECTORS_PER_TRACK * 2)) % 256
SectorOf(sector) == (sector % SECTORS_PER_TRACK) + 1

\* The k-th sector, from 0, of a head of a track.
OnDisk(track, head, k) == (track * 2 + head) * SECTORS_PER_TRACK + k

----------------------------------------------------------------------------
(* FddReadSector.                                                          *)

\* Mutated form: the job is queued before the thread becomes WAITING.
StatusOfCaller_Late(c) == status

StatusOfCaller(c) == [status EXCEPT ![c] = WAITING]

HasRoom == Len(jobs) < FDD_JOB_ITEM_Q_SIZE

\* The push and the change of status share one critical section.
FddReadSector(c, r) ==
    /\ status[c] = READY
    /\ pc[c] = "idle"
    /\ request' = [request EXCEPT ![c] = r]
    /\ \/ /\ HasRoom
          /\ jobs' = Append(jobs, [sector |-> r[1], number |-> r[2], thread |-> c])
          /\ status' = StatusOfCaller(c)
          /\ pc' = [pc EXCEPT ![c] = "reading"]
          /\ result' = [result EXCEPT ![c] = "none"]
       \/ /\ ~HasRoom
          /\ result' = [result EXCEPT ![c] = "refused"]
          /\ UNCHANGED <<jobs, status, pc>>
    /\ UNCHANGED <<buffer, thread, flag, controller>>

\* The switch after the critical section comes back once the thread is READY
\* again, and the call returns TRUE, whatever became of the read.
ReadReturns(c) ==
    /\ status[c] = READY
    /\ pc[c] = "reading"
    /\ pc' = [pc EXCEPT ![c] = "idle"]
    /\ result' = [result EXCEPT ![c] = "done"]
    /\ UNCHANGED <<jobs, status, request, buffer, thread, flag, controller>>

----------------------------------------------------------------------------
(* FddpJobProcessThread and FddpReadWriteSector.                           *)

\* With an empty queue the thread switches, which changes nothing here.
FddpPopJobItem ==
    /\ step = "pop"
    /\ jobs # << >>
    /\ job' = Head(jobs)
    /\ jobs' = Tail(jobs)
    /\ step' = "reset"
    /\ stage' = 1
    /\ UNCHANGED <<clients, flag, controller>>

\* Mutated form: the flag is left as the interrupt before set it.
FlagBefore_Kept == flag

FlagBefore == FALSE

ResetFlag ==
    /\ step = "reset"
    /\ flag' = FlagBefore
    /\ step' = "issue"
    /\ UNCHANGED <<jobs, clients, stage, job, controller>>

\* Turning the motor on takes the controller out of its reset; a controller
\* that was not in reset says nothing.  The other commands are written when
\* the controller asks for them: not in the middle of one, nor with the
\* result of a read still in it.
Issue ==
    /\ step = "issue"
    /\ IF Commands[stage] = "motor"
       THEN fdc' = IF fdc = "off" THEN "motor" ELSE fdc
       ELSE fdc = "ready" /\ fdc' = Commands[stage]
    /\ step' = "wait"
    /\ UNCHANGED <<jobs, clients, stage, job, flag, irq, armed, dma>>

Wait ==
    /\ step = "wait"
    /\ flag
    /\ stage' = IF stage < Len(Commands) THEN stage + 1 ELSE stage
    /\ step' = CASE Commands[stage] = "seek" -> "dma"
                 [] Commands[stage] = "read" -> "copy"
                 [] OTHER -> "reset"
    /\ UNCHANGED <<jobs, clients, job, flag, controller>>

FddpSetupDMA ==
    /\ step = "dma"
    /\ armed' = TRUE
    /\ step' = "reset"
    /\ UNCHANGED <<jobs, clients, stage, job, flag, fdc, irq, dma>>

\* As many sectors as were asked for, also past the end of the track.
Copy ==
    LET first == SectorOf(job.sector) - 1
        At(k) == IF k \in Track THEN dma[k] ELSE NoData
    IN /\ step = "copy"
       /\ buffer' = [buffer EXCEPT ![job.thread] = [i \in 1 .. job.number |-> At(first + i - 1)]]
       /\ step' = "off"
       /\ UNCHANGED <<jobs, calls, status, stage, job, flag, controller>>

\* Mutated form: the motor is left on.
AfterMotorOff_On == fdc

AfterMotorOff == "off"

FddpTurnOffMotor ==
    /\ step = "off"
    /\ fdc' = AfterMotorOff
    /\ step' = "wake"
    /\ UNCHANGED <<jobs, clients, stage, job, flag, irq, armed, dma>>

WakeReader ==
    /\ step = "wake"
    /\ status' = [status EXCEPT ![job.thread] = READY]
    /\ job' = NoJob
    /\ step' = "pop"
    /\ UNCHANGED <<jobs, calls, buffer, stage, flag, controller>>

----------------------------------------------------------------------------
(* The controller, and its interrupt.                                      *)

\* A command ends: the read has transferred the track of the head it was told,
\* and leaves its result in the controller.
CommandEnds ==
    /\ fdc \in {Commands[k] : k \in 1 .. Len(Commands)}
    /\ fdc' = IF fdc = "read" THEN "result" ELSE "ready"
    /\ IF fdc = "read" /\ armed
       THEN /\ dma' = [k \in Track |-> OnDisk(TrackOf(job.sector), HeadOf(job.sector), k)]
            /\ armed' = FALSE
       ELSE UNCHANGED <<dma, armed>>
    /\ irq' = TRUE
    /\ UNCHANGED <<jobs, clients, thread, flag>>

Fdd_IRQ_Handler ==
    /\ irq
    /\ irq' = FALSE
    /\ flag' = TRUE
    /\ UNCHANGED <<jobs, clients, thread, fdc, armed, dma>>

Init ==
    /\ jobs = << >>
    /\ status = [c \in Clients |-> READY]
    /\ pc = [c \in Clients |-> "idle"]
    /\ request = [c \in Clients |-> <<0, 0>>]
    /\ result = [c \in Clients |-> "none"]
    /\ buffer = [c \in Clients |-> << >>]
    /\ step = "pop" /\ stage = 1 /\ job = NoJob
    /\ flag = FALSE
    /\ fdc = "off"      \* FddInitializeDriver turns the motor off
    /\ irq = FALSE /\ armed = FALSE
    /\ dma = [k \in Track |-> NoData]

JobThread ==
    \/ FddpPopJobItem \/ ResetFlag \/ Issue \/ Wait \/ FddpSetupDMA
    \/ Copy \/ FddpTurnOffMotor \/ WakeReader

Next ==
    \/ \E c \in Clients :
         \/ \E r \in Requests : FddReadSector(c, r)
         \/ ReadReturns(c)
    \/ JobThread
    \/ CommandEnds
    \/ Fdd_IRQ_Handler

(***************************************************************************)
(* The scheduler gives every READY thread the CPU (NoStarvation of the     *)
(* process manager), the controller ends its commands, and an interrupt is *)
(* taken.  Nobody has to call FddReadSector.                               *)
(***************************************************************************)
Fairness ==
    /\ \A c \in Clients : WF_vars(ReadReturns(c))
    /\ WF_vars(JobThread)
    /\ WF_vars(CommandEnds)
    /\ WF_vars(Fdd_IRQ_Handler)

Spec == Init /\ [][Next]_vars
FairSpec == Spec /\ Fairness

----------------------------------------------------------------------------
(* Properties.                                                             *)

Jobs == [sector : Nat, number : 0 .. 255, thread : Clients \cup {NoData}]
Contents == Nat \cup {NoData}

\* Every variable has its type; the queue never outgrows its array.
TypeOK ==
    /\ jobs \in Seq(Jobs) /\ Len(jobs) <= FDD_JOB_ITEM_Q_SIZE
    /\ status \in [Clients -> {READY, WAITING}]
    /\ pc \in [Clients -> {"idle", "reading"}]
    /\ request \in [Clients -> Nat \X (0 .. 255)]
    /\ result \in [Clients -> {"none", "refused", "done"}]
    /\ buffer \in [Clients -> Seq(Contents)]
    /\ step \in {"pop", "reset", "issue", "wait", "dma", "copy", "off", "wake"}
    /\ stage \in 1 .. Len(Commands)
    /\ job \in Jobs
    /\ flag \in BOOLEAN /\ irq \in BOOLEAN /\ armed \in BOOLEAN
    /\ fdc \in {"off", "ready", "result"} \cup {Commands[k] : k \in 1 .. Len(Commands)}
    /\ dma \in [Track -> Contents]

\* The jobs of a thread: queued, or in the hand of the job thread.
JobsOf(c) == {k \in 1 .. Len(jobs) : jobs[k].thread = c}
InHand(c) == step # "pop" /\ job.thread = c

HasItsJob(c) ==
    /\ status[c] = WAITING => pc[c] = "reading"
    /\ status[c] = WAITING <=> JobsOf(c) # {} \/ InHand(c)
    /\ \A j, k \in JobsOf(c) : j = k
    /\ ~(JobsOf(c) # {} /\ InHand(c))

\* The types are right, and a thread is WAITING exactly as long as the driver
\* holds one job of its: it cannot sleep with no one left to wake it, nor be
\* woken by a job of an earlier call, nor go on while its buffer is still to be
\* written.
WaitingHasJob == TypeOK /\ \A c \in Clients : HasItsJob(c)

\* When FddReadSector returns TRUE the buffer holds the sectors asked for.
ReadDelivers ==
    \A c \in Clients : result[c] = "done" =>
        buffer[c] = [i \in 1 .. request[c][2] |-> request[c][1] + i - 1]

\* Every queued read returns: the job thread never waits for an interrupt that
\* has come already, or never comes, and never for a controller that waits.
ReadsReturn == \A c \in Clients : pc[c] = "reading" ~> pc[c] = "idle"
=============================================================================
