----------------------------- MODULE Processor -----------------------------
(***************************************************************************)
(* The hardware layer of src/mylysos/hal.c and what process.c, kernel.c    *)
(* and mylysos.c set up with it: descriptors of the hardware tasks, their  *)
(* busy bits and back links, the interrupt table, the handlers'            *)
(* instructions and the two interrupt controllers.  A task switch, one     *)
(* step of ProcessManager, is here the passage through a task gate, the    *)
(* rewriting of the descriptor the gate was left through, and the nested   *)
(* return, with devices that interrupt wherever interrupts are enabled.    *)
(*                                                                         *)
(* The processor and the controllers are outside the repository: they are  *)
(* modelled by what the code relies on.  The content of a register set is  *)
(* the number of instructions its thread has executed.                     *)
(***************************************************************************)
EXTENDS Integers, Sequences, FiniteSetsExt

CONSTANTS
    Threads, Idle,
    Devices,        \* the interrupt lines that have a device
    Exceptions,     \* the exceptions threads raise
    Rounds,         \* bound: instructions are counted modulo this number
    Burst           \* bound: requests of a line between two instructions of threads

ASSUME ProcessorAssumption ==
    /\ Idle \in Threads /\ Threads \cap {"init", "timer", "soft", "none"} = {}
    /\ Devices \subseteq 0 .. 15 /\ Exceptions \subseteq (0 .. 18) \ {15}
    /\ Rounds \in Nat \ {0} /\ Burst \in Nat

Tasks == Threads \cup {"init", "timer", "soft"}

VARIABLES
    boot,               \* how far the initialisation is
    idt,                \* the vectors of m_IdtGate that have a gate
    gdt,                \* m_GdtTable: the descriptors of task state segments
    tss, link,          \* thread_tss32 of each task, and its prev_task_link
    tr, loaded,         \* the task register, and the task it was loaded for
    cpu,                \* registers, flags and stack
    irr, isr,           \* lines requested, and lines in service
    requests,           \* how often each line asked since a thread's last instruction
    ready,              \* the threads the scheduler may choose
    pt_current_thread,
    stopped             \* why the processor does nothing any more, or "no"

tables == <<idt, gdt, link>>
pic == <<irr, isr, requests>>
scheduler == <<ready, pt_current_thread>>
vars == <<boot, tables, tss, tr, loaded, cpu, pic, scheduler, stopped>>

TASK_SW_SEG == 40
INIT_TSS_SEG == 48
TMR_TSS_SEG == 56
SOFT_TS_TSS_SEG == 64
SOFT_TASK_SW_INT_NUMBER == 48
Segments == {TASK_SW_SEG, INIT_TSS_SEG, TMR_TSS_SEG, SOFT_TS_TSS_SEG}

Junk == -1      \* what a handler leaves in the registers

\* A register set about to execute the instructions at; a thread's own, when
\* there are none.
Context(at, iff, nt) == [at |-> at, regs |-> 0, iff |-> iff, nt |-> nt, stack |-> << >>]
Unset == Context(<<"unset">>, FALSE, FALSE)

----------------------------------------------------------------------------
(* The handlers, as the instructions that matter.                          *)

\* Divide error, debug, NMI: report, and back to where it happened.
Halp_ECT_DivideByZero == <<"pushad", "call", "popad", "iretd">>
Halp_ECT_INTO == Halp_ECT_DivideByZero
Halp_ECT_CoprocessorOverrun == Halp_ECT_DivideByZero
Halp_ECT_PageFault == Halp_ECT_DivideByZero

\* Those that never return.
Halp_ECT_Breakpoint == <<"cli", "pushad", "call", "hang">>
Halp_ECT_InvaildOpcode == <<"pushad", "call", "hang">>
Halp_ECT_DoubleFault == <<"hang">>
Halp_ECT_GeneralProtection == <<"pushad", "call", "hang">>

\* Save, call the driver, end of interrupt, restore, return; the floppy's stub
\* is the same, those of lines without a driver call CrtPrintf.
Halp_IRQ_Keyboard == <<"pushad", "call", "eoi", "popad", "iretd">>
Halp_IRQ_ReqFromSlave8259 == Halp_IRQ_Keyboard
Halp_IRQ_FloppyDisk == Halp_IRQ_Keyboard

\* The slave's lines end the interrupt in both controllers.
Halp_IRQ_CMOSClock == <<"pushad", "call", "eoi", "eoi_slave", "popad", "iretd">>

\* Mutated form: the tick ends without telling the controller.
Psp_IRQ_SystemTimer_NoEnd == <<"cli", "switch", "iretd">>

\* The timer's and the soft interrupt's tasks loop: they are resumed after
\* their iretd.
Psp_IRQ_SystemTimer == <<"cli", "switch", "eoi", "iretd">>
PspSoftTaskSW == <<"cli", "switch", "iretd">>

CodeOf(task) ==
    IF task = "timer" THEN Psp_IRQ_SystemTimer ELSE IF task = "soft" THEN PspSoftTaskSW ELSE << >>

\* The interrupt table the code fills in: every exception but 15, the lines but
\* 10, 11 and 15, and the two task gates.
Vectors ==
    ((0 .. 14) \cup (16 .. 18)) \cup ((33 .. 41) \cup (44 .. 46)) \cup {32, SOFT_TASK_SW_INT_NUMBER}

m_IntHandlers(v) ==
    CASE v = 32 -> [task |-> TRUE, segment |-> TMR_TSS_SEG]
      [] v = SOFT_TASK_SW_INT_NUMBER -> [task |-> TRUE, segment |-> SOFT_TS_TSS_SEG]
      [] OTHER -> [task |-> FALSE, code |->
            CASE v \in (0 .. 2) -> Halp_ECT_DivideByZero
              [] v = 3 -> Halp_ECT_Breakpoint
              [] v \in {4, 5, 7} -> Halp_ECT_INTO
              [] v = 6 -> Halp_ECT_InvaildOpcode
              [] v = 8 -> Halp_ECT_DoubleFault
              [] v \in (9 .. 12) -> Halp_ECT_CoprocessorOverrun
              [] v = 13 -> Halp_ECT_GeneralProtection
              [] v \in {14, 16, 17, 18} -> Halp_ECT_PageFault
              [] v = 33 -> Halp_IRQ_Keyboard
              [] v \in (34 .. 37) \cup {39} -> Halp_IRQ_ReqFromSlave8259
              [] v = 38 -> Halp_IRQ_FloppyDisk
              [] OTHER -> Halp_IRQ_CMOSClock]

----------------------------------------------------------------------------
(* Task state segments and their descriptors.                              *)

Descriptor(task, busy) == [task |-> task, busy |-> busy]

HalWriteTssIntoGdt(table, task, segment, busy) ==
    [table EXCEPT ![segment] = Descriptor(task, busy)]

HalChangeTssBusyBit(table, segment) == [table EXCEPT ![segment].busy = TRUE]

\* Interrupts enabled, the other flags those of the creator.
FirstContext(task) == Context(CodeOf(task), TRUE, cpu.nt)

\* The switching environment the call ends with: TASK_SW_SEG is marked busy.
HalSetupTSS(task) == tss' = [tss EXCEPT ![task] = FirstContext(task)]

HalSetupTaskLink(task, segment) == [link EXCEPT ![task] = segment]

----------------------------------------------------------------------------
(* Initialisation, with interrupts disabled until the idle thread runs.    *)

Booting(now, next) == boot = now /\ boot' = next /\ stopped = "no"

\* The gate may stay closed: the kernel is halted.
HalpEnableA20 ==
    /\ \/ Booting("a20", "pic") /\ UNCHANGED stopped
       \/ Booting("a20", "a20") /\ stopped' = "A20"
    /\ UNCHANGED <<tables, tss, tr, loaded, cpu, pic, scheduler>>

\* Initialising a controller clears its requests; no line is masked.
HalpInitPIC ==
    /\ Booting("pic", "idt")
    /\ irr' = {} /\ isr' = {}
    /\ UNCHANGED <<requests, tables, tss, tr, loaded, cpu, scheduler, stopped>>

HalpStartIntService ==
    /\ Booting("idt", "init")
    /\ idt' = Vectors
    /\ UNCHANGED <<gdt, link, tss, tr, loaded, cpu, pic, scheduler, stopped>>

\* The boot code becomes a task whose back link leads to TASK_SW_SEG.
InitTask ==
    /\ Booting("init", "timer")
    /\ HalSetupTSS("init")
    /\ link' = HalSetupTaskLink("init", TASK_SW_SEG)
    /\ gdt' = HalWriteTssIntoGdt(HalChangeTssBusyBit(gdt, TASK_SW_SEG), "init", INIT_TSS_SEG, TRUE)
    /\ tr' = INIT_TSS_SEG /\ loaded' = "init"
    /\ UNCHANGED <<idt, cpu, pic, scheduler, stopped>>

\* Mutated form: the descriptor of a gate's task is written as a busy one.
GateDescriptor_Busy(table, task, segment) == HalWriteTssIntoGdt(table, task, segment, TRUE)

GateDescriptor(table, task, segment) == HalWriteTssIntoGdt(table, task, segment, FALSE)

PsCreateIntThread(now, next, task, segment) ==
    /\ Booting(now, next)
    /\ HalSetupTSS(task)
    /\ gdt' = GateDescriptor(HalChangeTssBusyBit(gdt, TASK_SW_SEG), task, segment)
    /\ UNCHANGED <<idt, link, tr, loaded, cpu, pic, scheduler, stopped>>

IdleThread ==
    /\ Booting("idle", "rest")
    /\ HalSetupTSS(Idle)
    /\ gdt' = HalWriteTssIntoGdt(gdt, Idle, TASK_SW_SEG, TRUE)
    /\ ready' = {Idle} /\ pt_current_thread' = Idle
    /\ UNCHANGED <<idt, link, tr, loaded, cpu, pic, stopped>>

----------------------------------------------------------------------------
(* The processor.                                                          *)

\* Entering a handler: an interrupt gate pushes a return address and flags, and
\* an error code for some exceptions; a task gate saves the whole task, links
\* back to it and needs a descriptor that is not busy.
HasErrorCode(v) == v \in {8, 10, 11, 12, 13, 14, 17}

ReturnFrame == [kind |-> "return", at |-> cpu.at, iff |-> cpu.iff, nt |-> cpu.nt]

Interrupt(v) ==
    /\ v \in idt /\ ~m_IntHandlers(v).task
    /\ cpu' = [cpu EXCEPT !.at = m_IntHandlers(v).code, !.iff = FALSE, !.nt = FALSE,
                          !.stack = (IF HasErrorCode(v) THEN <<[kind |-> "code"]>> ELSE << >>)
                                        \o <<ReturnFrame>> \o @]
    /\ UNCHANGED <<gdt, link, tss, tr, loaded, stopped>>

TaskGate(v) ==
    /\ v \in idt /\ m_IntHandlers(v).task
    /\ LET segment == m_IntHandlers(v).segment
           task == gdt[segment].task
       IN  /\ ~gdt[segment].busy
           /\ tss' = [tss EXCEPT ![loaded] = cpu]
           /\ link' = [link EXCEPT ![task] = tr]
           /\ gdt' = HalWriteTssIntoGdt(gdt, task, segment, TRUE)
           /\ tr' = segment /\ loaded' = task
           /\ cpu' = [tss[task] EXCEPT !.nt = TRUE]
    /\ UNCHANGED stopped

\* No gate, or a busy task: general protection, whose handler hangs.
NoWay(v) ==
    /\ \/ v \notin idt
       \/ m_IntHandlers(v).task /\ gdt[m_IntHandlers(v).segment].busy
    /\ stopped' = "no gate"
    /\ UNCHANGED <<gdt, link, tss, tr, loaded, cpu>>

Enter(v) == (Interrupt(v) \/ TaskGate(v) \/ NoWay(v)) /\ UNCHANGED idt

\* The controllers: fully nested, the slave on line 2, vectors from 0x20.
Rank(l) == IF l < 2 THEN l ELSE IF l > 7 THEN l - 6 ELSE l + 7
Slave(l) == l > 7
Blocks(s, l) == IF Slave(s) /\ Slave(l) THEN s <= l ELSE Rank(s) <= Rank(l) \/ (s = 2 /\ Slave(l))

Deliverable == {l \in irr : \A s \in isr : ~Blocks(s, l)}
Interrupted == cpu.iff /\ Deliverable # {}

\* A slave's line is in service in both controllers, as line 2 in the master.
Acknowledge ==
    /\ boot = "done" /\ stopped = "no" /\ Interrupted
    /\ \E l \in Deliverable :
          /\ \A k \in Deliverable : Rank(l) <= Rank(k)
          /\ irr' = irr \ {l}
          /\ isr' = isr \cup {l} \cup (IF Slave(l) THEN {2} ELSE {})
          /\ Enter(32 + l)
    /\ UNCHANGED <<boot, requests, scheduler>>

Request(l) ==
    /\ stopped = "no" /\ requests[l] < Burst
    /\ irr' = irr \cup {l}
    /\ requests' = [requests EXCEPT ![l] = @ + 1]
    /\ UNCHANGED <<boot, tables, tss, tr, loaded, cpu, isr, scheduler, stopped>>

\* A non-specific end of interrupt clears the highest line in service.
WithoutHighest(lines) ==
    IF lines = {} THEN {} ELSE {CHOOSE l \in lines : \A k \in lines : Rank(l) <= Rank(k)}

EndMaster == isr \ WithoutHighest({l \in isr : ~Slave(l)})
EndSlave == isr \ WithoutHighest({l \in isr : Slave(l)})

----------------------------------------------------------------------------
(* The instructions of a handler.                                          *)

Executes(instruction) ==
    /\ boot = "done" /\ stopped = "no" /\ ~Interrupted
    /\ cpu.at # << >> /\ Head(cpu.at) = instruction
    /\ UNCHANGED boot

After == [cpu EXCEPT !.at = Tail(@)]

Cli ==
    /\ Executes("cli")
    /\ cpu' = [After EXCEPT !.iff = FALSE]
    /\ UNCHANGED <<tables, tss, tr, loaded, pic, scheduler, stopped>>

Pushad ==
    /\ Executes("pushad")
    /\ cpu' = [After EXCEPT !.stack = <<[kind |-> "registers", regs |-> cpu.regs]>> \o @]
    /\ UNCHANGED <<tables, tss, tr, loaded, pic, scheduler, stopped>>

Call ==
    /\ Executes("call")
    /\ cpu' = [After EXCEPT !.regs = Junk]
    /\ UNCHANGED <<tables, tss, tr, loaded, pic, scheduler, stopped>>

Popad ==
    /\ Executes("popad")
    /\ cpu' = [After EXCEPT !.regs = Head(cpu.stack).regs, !.stack = Tail(@)]
    /\ UNCHANGED <<tables, tss, tr, loaded, pic, scheduler, stopped>>

EndOfInterrupt ==
    /\ \/ Executes("eoi") /\ isr' = EndMaster
       \/ Executes("eoi_slave") /\ isr' = EndSlave
    /\ cpu' = After
    /\ UNCHANGED <<tables, tss, tr, loaded, irr, requests, scheduler, stopped>>

\* Mutated form: the descriptor is rewritten for the thread that loses the CPU.
NextTask_Current(next) == pt_current_thread

NextTask(next) == next

\* The search moves pt_current_thread; the descriptor follows when it changed.
PspSetupTaskSWEnv ==
    /\ Executes("switch")
    /\ \E next \in ready :
          /\ gdt' = IF next = pt_current_thread THEN gdt
                    ELSE HalWriteTssIntoGdt(gdt, NextTask(next), TASK_SW_SEG, TRUE)
          /\ pt_current_thread' = next
    /\ cpu' = After
    /\ UNCHANGED <<idt, link, tss, tr, loaded, pic, ready, stopped>>

\* A return inside a task, to what the top of the stack says.
Return ==
    /\ Executes("iretd") /\ ~cpu.nt
    /\ LET top == Head(cpu.stack)
       IN  \/ /\ top.kind = "return"
              /\ cpu' = [cpu EXCEPT !.at = top.at, !.iff = top.iff, !.nt = top.nt, !.stack = Tail(@)]
              /\ UNCHANGED stopped
           \/ /\ top.kind = "code"      \* taken for the address to return to
              /\ stopped' = "lost"
              /\ UNCHANGED cpu
    /\ UNCHANGED <<tables, tss, tr, loaded, pic, scheduler>>

\* A nested return: the task behind the back link goes on, and the one that
\* returns will go on after its iretd.
NestedReturn ==
    LET back == link[loaded]
        next == gdt[back].task
    IN  IF ~gdt[back].busy
        THEN /\ stopped' = "back link"
             /\ UNCHANGED <<gdt, tss, tr, loaded, cpu>>
        ELSE /\ tss' = [tss EXCEPT ![loaded] = [cpu EXCEPT !.nt = FALSE, !.at = CodeOf(loaded)]]
             /\ gdt' = HalWriteTssIntoGdt(gdt, gdt[tr].task, tr, FALSE)
             /\ tr' = back /\ loaded' = next
             /\ cpu' = tss'[next]
             /\ UNCHANGED stopped

GateReturn ==
    /\ Executes("iretd") /\ cpu.nt
    /\ NestedReturn
    /\ UNCHANGED <<idt, link, pic, scheduler>>

Hang ==
    /\ Executes("hang")
    /\ stopped' = "hang"
    /\ UNCHANGED <<tables, tss, tr, loaded, cpu, pic, scheduler>>

\* The boot code sets NT and returns: the idle thread runs.
FirstSwitch ==
    /\ boot = "rest" /\ stopped = "no" /\ boot' = "done"
    /\ NestedReturn
    /\ UNCHANGED <<idt, link, pic, scheduler>>

----------------------------------------------------------------------------
(* The threads.                                                            *)

OwnCode ==
    /\ boot = "done" /\ stopped = "no" /\ ~Interrupted
    /\ loaded \in Threads /\ cpu.at = << >>
    /\ UNCHANGED boot

Instruction ==
    /\ OwnCode
    /\ cpu' = [cpu EXCEPT !.regs = (@ + 1) % Rounds]
    /\ requests' = [l \in Devices |-> 0]
    /\ UNCHANGED <<tables, tss, tr, loaded, irr, isr, scheduler, stopped>>

\* ENTER_CRITICAL_SECTION and EXIT_CRITICAL_SECTION.
EnterCritical ==
    /\ OwnCode /\ cpu.iff
    /\ cpu' = [cpu EXCEPT !.iff = FALSE]
    /\ UNCHANGED <<tables, tss, tr, loaded, pic, scheduler, stopped>>

ExitCritical ==
    /\ OwnCode /\ ~cpu.iff
    /\ cpu' = [cpu EXCEPT !.iff = TRUE]
    /\ UNCHANGED <<tables, tss, tr, loaded, pic, scheduler, stopped>>

HalTaskSwitch ==
    /\ OwnCode /\ cpu.iff
    /\ Enter(SOFT_TASK_SW_INT_NUMBER)
    /\ UNCHANGED <<pic, scheduler>>

\* An exception: of a program, never of the kernel's critical sections.
Raise(v) ==
    /\ OwnCode /\ cpu.iff
    /\ Enter(v)
    /\ UNCHANGED <<pic, scheduler>>

\* A thread, or the boot code before the first switch, creates another ...
MayCreate == (boot = "rest" /\ stopped = "no" /\ UNCHANGED boot) \/ OwnCode

PsCreateThread(t) ==
    /\ MayCreate /\ tss[t] = Unset
    /\ HalSetupTSS(t)
    /\ gdt' = HalChangeTssBusyBit(gdt, TASK_SW_SEG)
    /\ UNCHANGED <<idt, link, tr, loaded, cpu, pic, scheduler, stopped>>

\* ... and makes it READY.
PsSetThreadStatus(t) ==
    /\ MayCreate /\ tss[t] # Unset /\ t \notin ready
    /\ ready' = ready \cup {t}
    /\ UNCHANGED <<tables, tss, tr, loaded, cpu, pic, pt_current_thread, stopped>>

Stopped == stopped # "no" /\ UNCHANGED vars

----------------------------------------------------------------------------
Init ==
    /\ boot = "a20" /\ stopped = "no"
    /\ idt = {}
    /\ gdt = [s \in Segments |-> Descriptor("none", FALSE)]
    /\ tss = [t \in Tasks |-> Unset]
    /\ link = [t \in Tasks |-> 0]
    /\ tr = 0 /\ loaded = "none"
    /\ cpu = Context(<< >>, FALSE, FALSE)
    /\ irr = {} /\ isr = {} /\ requests = [l \in Devices |-> 0]
    /\ ready = {} /\ pt_current_thread = Idle

KrnInitializeKernel ==
    \/ HalpEnableA20 \/ HalpInitPIC \/ HalpStartIntService \/ InitTask
    \/ PsCreateIntThread("timer", "soft", "timer", TMR_TSS_SEG)
    \/ PsCreateIntThread("soft", "idle", "soft", SOFT_TS_TSS_SEG)
    \/ IdleThread \/ FirstSwitch

Handler ==
    \/ Cli \/ Pushad \/ Call \/ Popad \/ EndOfInterrupt
    \/ PspSetupTaskSWEnv \/ Return \/ GateReturn \/ Hang

Next ==
    \/ KrnInitializeKernel \/ Acknowledge \/ Handler
    \/ Instruction \/ EnterCritical \/ ExitCritical \/ HalTaskSwitch
    \/ \E v \in Exceptions : Raise(v)
    \/ \E t \in Threads : PsCreateThread(t) \/ PsSetThreadStatus(t)
    \/ \E l \in Devices : Request(l)
    \/ Stopped

Spec == Init /\ [][Next]_vars

\* The processor does not rest, and a critical section is left.
FairSpec ==
    /\ Spec
    /\ WF_vars(KrnInitializeKernel) /\ WF_vars(Acknowledge) /\ WF_vars(Handler)
    /\ WF_vars(ExitCritical)

----------------------------------------------------------------------------
(* Properties.                                                             *)

Instructions ==
    {"cli", "pushad", "call", "popad", "eoi", "eoi_slave", "switch", "iretd", "hang", "unset"}

TypeOK ==
    /\ gdt \in [Segments -> [task : Tasks \cup {"none"}, busy : BOOLEAN]]
    /\ link \in [Tasks -> Segments \cup {0}]
    /\ tr \in Segments \cup {0} /\ loaded \in Tasks \cup {"none"}
    /\ isr \subseteq Devices \cup {2} /\ irr \subseteq Devices
    /\ ready \subseteq Threads /\ pt_current_thread \in Threads
    /\ \A c \in {cpu} \cup {tss[t] : t \in Tasks} :
          /\ \A i \in 1 .. Len(c.at) : c.at[i] \in Instructions
          /\ c.regs \in -1 .. (Rounds - 1) /\ c.iff \in BOOLEAN /\ c.nt \in BOOLEAN
          /\ Len(c.stack) <= 3

\* However the timer, the soft interrupt and the devices nest, no gate is found
\* busy or missing, and no back link leads to a task that is not waiting: what
\* the busy bits of hal.c:126-152 and the links of process.c:560-590 are for.
GatesOpen == TypeOK /\ stopped \notin {"no gate", "back link"}

\* Where the registers of a thread are: in the processor or in its task state
\* segment, and there on the stack once a handler has pushed them.
Held(t) == IF loaded = t THEN cpu ELSE tss[t]

Registers(t) ==
    LET saved == {i \in DOMAIN Held(t).stack : Held(t).stack[i].kind = "registers"}
    IN  IF saved = {} THEN Held(t).regs ELSE Held(t).stack[CHOOSE i \in saved : TRUE].regs

Sharing == INSTANCE CpuSharing WITH
    running <- pt_current_thread,
    started <- ready \cup {Idle},
    done <- [t \in Threads |-> Registers(t)]

\* Descriptors rewritten, contexts saved and restored by gates and by pushad, at
\* any moment: to each thread it looks like a processor of its own.
SharingSpec == Sharing!Spec

\* Every request is handled, with all that compete with it, unless the processor
\* has stopped: no handler leaves a line in service, which would shut out the
\* lines below it for good.
Quiet == irr = {} /\ isr = {}
RequestServed == \A l \in Devices : l \in irr ~> (Quiet \/ stopped # "no")
=============================================================================
