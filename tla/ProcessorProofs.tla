-------------------------- MODULE ProcessorProofs --------------------------
(***************************************************************************)
(* The hardware layer gives each thread a processor of its own, for any    *)
(* threads, devices and exceptions, wherever an interrupt comes.           *)
(*                                                                         *)
(* The argument is what may run on what.  A thread, or the soft            *)
(* interrupt's task before its first cli, may be interrupted by a handler, *)
(* which runs with interrupts disabled to its end; the timer's task may    *)
(* come on top of a thread or of the soft task, and nothing comes on top   *)
(* of it, because its line is in service until its interrupts are          *)
(* disabled.  So the busy bits and the back links name, at every moment,   *)
(* exactly the tasks that lie under the one that runs.                     *)
(***************************************************************************)
EXTENDS Processor, SequenceTheorems, TLAPS

\* Every line the controllers may be asked for has a gate.
DevicesHaveGates == Devices \cap {10, 11, 15} = {}

Values == -1 .. (Rounds - 1)
Frame ==
    [kind : {"return"}, at : Seq(Instructions), iff : BOOLEAN, nt : BOOLEAN]
        \cup [kind : {"registers"}, regs : Values] \cup [kind : {"code"}]
Contexts ==
    [at : Seq(Instructions), regs : Values, iff : BOOLEAN, nt : BOOLEAN, stack : Seq(Frame)]

Descriptors == [task : Tasks \cup {"none"}, busy : BOOLEAN]

Types ==
    /\ gdt \in [Segments -> Descriptors]
    /\ link \in [Tasks -> Segments \cup {0}]
    /\ tr \in Segments \cup {0} /\ loaded \in Tasks \cup {"none"}
    /\ isr \subseteq Devices \cup {2} /\ irr \subseteq Devices
    /\ ready \subseteq Threads /\ pt_current_thread \in Threads
    /\ cpu \in Contexts /\ tss \in [Tasks -> Contexts]
    /\ boot \in {"a20", "pic", "idt", "init", "timer", "soft", "idle", "rest", "done"}

\* The code of a handler, before its registers are pushed and after they are
\* popped, and in between.
HandlerCodes ==
    {Halp_ECT_DivideByZero, Halp_ECT_Breakpoint, Halp_ECT_InvaildOpcode, Halp_ECT_DoubleFault,
     Halp_IRQ_Keyboard, Halp_IRQ_CMOSClock}
Outside == HandlerCodes \cup {<<"iretd">>}
Inside ==
    {<<"call", "popad", "iretd">>, <<"popad", "iretd">>, <<"call", "hang">>, <<"hang">>,
     <<"call", "eoi", "popad", "iretd">>, <<"eoi", "popad", "iretd">>,
     <<"call", "eoi", "eoi_slave", "popad", "iretd">>, <<"eoi", "eoi_slave", "popad", "iretd">>,
     <<"eoi_slave", "popad", "iretd">>}

\* A handler that came upon the code at, when the registers were regs.
Frames(at, nt) ==
    LET back == [kind |-> "return", at |-> at, iff |-> TRUE, nt |-> nt]
    IN  {<<back>>, <<[kind |-> "code"], back>>}
Saved(frame, regs) == <<[kind |-> "registers", regs |-> regs]>> \o frame

HandlerContext(c, at, nt, regs) ==
    /\ ~c.iff /\ ~c.nt
    /\ \E frame \in Frames(at, nt) :
         \/ c.at \in Outside /\ c.stack = frame /\ c.regs = regs
         \/ c.at \in Inside /\ c.stack = Saved(frame, regs)
InHandler(at, nt, regs) == HandlerContext(cpu, at, nt, regs)

\* The registers of a thread that is executing its own code, and of one that is not.
Own(c) == c.at = << >> /\ ~c.nt /\ c.stack = << >> /\ c.regs \in 0 .. (Rounds - 1)
Waiting(c) == Own(c) /\ c.iff

\* The tasks behind the two gates.
Suffixes(task) ==
    IF task = "timer"
    THEN {Psp_IRQ_SystemTimer, <<"switch", "eoi", "iretd">>, <<"eoi", "iretd">>, <<"iretd">>}
    ELSE {PspSoftTaskSW, <<"switch", "iretd">>, <<"iretd">>}
InGate(task) ==
    /\ cpu.at \in Suffixes(task) /\ cpu.nt /\ cpu.stack = << >>
    /\ cpu.iff => cpu.at = CodeOf(task)

Busy(segment) == gdt[segment].busy

ThreadRuns ==
    /\ loaded = pt_current_thread /\ tr = TASK_SW_SEG
    /\ ~Busy(TMR_TSS_SEG) /\ ~Busy(SOFT_TS_TSS_SEG)
    /\ Own(cpu) \/ \E r \in 0 .. (Rounds - 1) : InHandler(<< >>, FALSE, r)

SoftRuns ==
    /\ loaded = "soft" /\ tr = SOFT_TS_TSS_SEG /\ link["soft"] = TASK_SW_SEG
    /\ ~Busy(TMR_TSS_SEG) /\ Busy(SOFT_TS_TSS_SEG)
    /\ InGate("soft") \/ \E r \in Values : InHandler(PspSoftTaskSW, TRUE, r)

TimerRuns ==
    /\ loaded = "timer" /\ tr = TMR_TSS_SEG /\ Busy(TMR_TSS_SEG)
    /\ InGate("timer") /\ (cpu.iff => 0 \in isr)
    /\ \/ link["timer"] = TASK_SW_SEG /\ ~Busy(SOFT_TS_TSS_SEG)
       \/ /\ link["timer"] = SOFT_TS_TSS_SEG /\ Busy(SOFT_TS_TSS_SEG)
          /\ link["soft"] = TASK_SW_SEG /\ tss["soft"].nt

\* The boot code: what is set up when.
Booted(phases) == boot \in phases \cup {"rest", "done"}
BootCode ==
    /\ boot \notin {"a20", "pic", "idt"} => idt = Vectors
    /\ boot # "done" => /\ cpu = Context(<< >>, FALSE, FALSE) /\ loaded \in {"none", "init"}
                        /\ ~Busy(TMR_TSS_SEG) /\ ~Busy(SOFT_TS_TSS_SEG)
    /\ boot \in {"timer", "soft", "idle", "rest"} =>
         loaded = "init" /\ tr = INIT_TSS_SEG /\ link["init"] = TASK_SW_SEG
    /\ Booted({"soft", "idle"}) =>
         gdt[TMR_TSS_SEG].task = "timer" /\ tss["timer"].at = CodeOf("timer")
    /\ Booted({"idle"}) => gdt[SOFT_TS_TSS_SEG].task = "soft" /\ tss["soft"].at = CodeOf("soft")
    /\ IF Booted({}) THEN /\ gdt[TASK_SW_SEG] = Descriptor(pt_current_thread, TRUE)
                          /\ Idle \in ready /\ pt_current_thread \in ready
       ELSE ready = {} /\ pt_current_thread = Idle /\ \A t \in Threads : tss[t] = Unset

\* The task state segments.
Segmented ==
    /\ \A t \in Tasks : tss[t].stack = << >>
    /\ \A t \in Threads : /\ tss[t] = Unset \/ Waiting(tss[t])
                          /\ IF t \in ready THEN Waiting(tss[t]) ELSE tss[t].regs = 0

PInv ==
    /\ Types /\ BootCode /\ Segmented
    /\ boot = "done" => ThreadRuns \/ SoftRuns \/ TimerRuns

----------------------------------------------------------------------------
(* The handlers' code, instruction by instruction.                         *)

LEMMA OutsideCode ==
    ASSUME NEW at \in Outside
    PROVE  /\ at \in Seq(Instructions) /\ at # << >>
           /\ Head(at) \in {"cli", "pushad", "hang", "iretd"}
           /\ Head(at) = "cli" => Tail(at) \in Outside
           /\ Head(at) = "pushad" => Tail(at) \in Inside
<1>1. CASE at = <<"pushad", "call", "popad", "iretd">>
  BY <1>1 DEF Outside, Inside, HandlerCodes, Halp_ECT_DivideByZero, Halp_ECT_Breakpoint, Halp_ECT_InvaildOpcode, Halp_ECT_DoubleFault, Halp_IRQ_Keyboard, Halp_IRQ_CMOSClock, Instructions
<1>2. CASE at = <<"cli", "pushad", "call", "hang">>
  BY <1>2 DEF Outside, Inside, HandlerCodes, Halp_ECT_DivideByZero, Halp_ECT_Breakpoint, Halp_ECT_InvaildOpcode, Halp_ECT_DoubleFault, Halp_IRQ_Keyboard, Halp_IRQ_CMOSClock, Instructions
<1>3. CASE at = <<"pushad", "call", "hang">>
  BY <1>3 DEF Outside, Inside, HandlerCodes, Halp_ECT_DivideByZero, Halp_ECT_Breakpoint, Halp_ECT_InvaildOpcode, Halp_ECT_DoubleFault, Halp_IRQ_Keyboard, Halp_IRQ_CMOSClock, Instructions
<1>4. CASE at = <<"hang">>
  BY <1>4 DEF Outside, Inside, HandlerCodes, Halp_ECT_DivideByZero, Halp_ECT_Breakpoint, Halp_ECT_InvaildOpcode, Halp_ECT_DoubleFault, Halp_IRQ_Keyboard, Halp_IRQ_CMOSClock, Instructions
<1>5. CASE at = <<"pushad", "call", "eoi", "popad", "iretd">>
  BY <1>5 DEF Outside, Inside, HandlerCodes, Halp_ECT_DivideByZero, Halp_ECT_Breakpoint, Halp_ECT_InvaildOpcode, Halp_ECT_DoubleFault, Halp_IRQ_Keyboard, Halp_IRQ_CMOSClock, Instructions
<1>6. CASE at = <<"pushad", "call", "eoi", "eoi_slave", "popad", "iretd">>
  BY <1>6 DEF Outside, Inside, HandlerCodes, Halp_ECT_DivideByZero, Halp_ECT_Breakpoint, Halp_ECT_InvaildOpcode, Halp_ECT_DoubleFault, Halp_IRQ_Keyboard, Halp_IRQ_CMOSClock, Instructions
<1>7. CASE at = <<"iretd">>
  BY <1>7 DEF Outside, Inside, HandlerCodes, Halp_ECT_DivideByZero, Halp_ECT_Breakpoint, Halp_ECT_InvaildOpcode, Halp_ECT_DoubleFault, Halp_IRQ_Keyboard, Halp_IRQ_CMOSClock, Instructions
<1> QED
  BY <1>1, <1>2, <1>3, <1>4, <1>5, <1>6, <1>7
  DEF Outside, HandlerCodes, Halp_ECT_DivideByZero, Halp_ECT_Breakpoint, Halp_ECT_InvaildOpcode,
      Halp_ECT_DoubleFault, Halp_IRQ_Keyboard, Halp_IRQ_CMOSClock

LEMMA InsideCode ==
    ASSUME NEW at \in Inside
    PROVE  /\ at \in Seq(Instructions) /\ at # << >>
           /\ Head(at) \in {"call", "eoi", "eoi_slave", "popad", "hang"}
           /\ Head(at) \in {"call", "eoi", "eoi_slave"} => Tail(at) \in Inside
           /\ Head(at) = "popad" => Tail(at) = <<"iretd">>
<1>1. CASE at = <<"call", "popad", "iretd">>
  BY <1>1 DEF Inside, Instructions
<1>2. CASE at = <<"popad", "iretd">>
  BY <1>2 DEF Inside, Instructions
<1>3. CASE at = <<"call", "hang">>
  BY <1>3 DEF Inside, Instructions
<1>4. CASE at = <<"hang">>
  BY <1>4 DEF Inside, Instructions
<1>5. CASE at = <<"call", "eoi", "popad", "iretd">>
  BY <1>5 DEF Inside, Instructions
<1>6. CASE at = <<"eoi", "popad", "iretd">>
  BY <1>6 DEF Inside, Instructions
<1>7. CASE at = <<"call", "eoi", "eoi_slave", "popad", "iretd">>
  BY <1>7 DEF Inside, Instructions
<1>8. CASE at = <<"eoi", "eoi_slave", "popad", "iretd">>
  BY <1>8 DEF Inside, Instructions
<1>9. CASE at = <<"eoi_slave", "popad", "iretd">>
  BY <1>9 DEF Inside, Instructions
<1> QED
  BY <1>1, <1>2, <1>3, <1>4, <1>5, <1>6, <1>7, <1>8, <1>9 DEF Inside

LEMMA GateCode ==
    ASSUME NEW task \in {"timer", "soft"}, NEW at \in Suffixes(task)
    PROVE  /\ at \in Seq(Instructions) /\ at # << >>
           /\ Head(at) \in {"cli", "switch", "eoi", "iretd"}
           /\ Head(at) # "iretd" => Tail(at) \in Suffixes(task)
           /\ at = CodeOf(task) <=> Head(at) = "cli"
           /\ CodeOf(task) \in Suffixes(task)
<1>1. CASE at = <<"cli", "switch", "eoi", "iretd">> /\ task = "timer"
  BY <1>1 DEF Suffixes, CodeOf, Psp_IRQ_SystemTimer, Instructions
<1>2. CASE at = <<"switch", "eoi", "iretd">> /\ task = "timer"
  BY <1>2 DEF Suffixes, CodeOf, Psp_IRQ_SystemTimer, Instructions
<1>3. CASE at = <<"eoi", "iretd">> /\ task = "timer"
  BY <1>3 DEF Suffixes, CodeOf, Psp_IRQ_SystemTimer, Instructions
<1>4. CASE at = <<"cli", "switch", "iretd">> /\ task = "soft"
  BY <1>4 DEF Suffixes, CodeOf, PspSoftTaskSW, Instructions
<1>5. CASE at = <<"switch", "iretd">> /\ task = "soft"
  BY <1>5 DEF Suffixes, CodeOf, PspSoftTaskSW, Instructions
<1>6. CASE at = <<"iretd">>
  BY <1>6 DEF Suffixes, CodeOf, Psp_IRQ_SystemTimer, PspSoftTaskSW, Instructions
<1> QED
  BY <1>1, <1>2, <1>3, <1>4, <1>5, <1>6 DEF Suffixes, Psp_IRQ_SystemTimer, PspSoftTaskSW

\* The interrupt table leads to the two tasks and to the handlers.
LEMMA Table ==
    ASSUME NEW v \in Vectors
    PROVE  /\ v \in Nat
           /\ m_IntHandlers(v).task <=> v \in {32, SOFT_TASK_SW_INT_NUMBER}
           /\ v = 32 => m_IntHandlers(v).segment = TMR_TSS_SEG
           /\ v = SOFT_TASK_SW_INT_NUMBER => m_IntHandlers(v).segment = SOFT_TS_TSS_SEG
           /\ ~m_IntHandlers(v).task => m_IntHandlers(v).code \in HandlerCodes
<1>1. v \in 0 .. 48
  BY DEF Vectors, SOFT_TASK_SW_INT_NUMBER
<1>2. CASE v \in {32, SOFT_TASK_SW_INT_NUMBER}
  BY <1>2 DEF m_IntHandlers, SOFT_TASK_SW_INT_NUMBER
<1>3. CASE v \notin {32, SOFT_TASK_SW_INT_NUMBER}
  <2> DEFINE code == m_IntHandlers(v).code
  <2>1. ~m_IntHandlers(v).task
    BY <1>3 DEF m_IntHandlers
  <2>2. code \in {Halp_ECT_DivideByZero, Halp_ECT_Breakpoint, Halp_ECT_INTO, Halp_ECT_InvaildOpcode,
                  Halp_ECT_DoubleFault, Halp_ECT_CoprocessorOverrun, Halp_ECT_GeneralProtection,
                  Halp_ECT_PageFault, Halp_IRQ_Keyboard, Halp_IRQ_ReqFromSlave8259,
                  Halp_IRQ_FloppyDisk, Halp_IRQ_CMOSClock}
    BY <1>1, <1>3 DEF m_IntHandlers
  <2> HIDE DEF code
  <2>3. code \in HandlerCodes
    BY <2>2 DEF HandlerCodes, Halp_ECT_INTO, Halp_ECT_CoprocessorOverrun, Halp_ECT_PageFault,
                Halp_ECT_GeneralProtection, Halp_ECT_InvaildOpcode,
                Halp_IRQ_ReqFromSlave8259, Halp_IRQ_FloppyDisk
  <2> QED
    BY <1>1, <1>3, <2>1, <2>3 DEF code
<1> QED
  BY <1>2, <1>3

----------------------------------------------------------------------------
(* A handler on a stack.                                                   *)

LEMMA Pushed ==
    ASSUME NEW S, NEW top \in S, NEW s \in Seq(S)
    PROVE  /\ <<top>> \o s \in Seq(S) /\ <<top>> \o s # << >>
           /\ Len(<<top>> \o s) = Len(s) + 1
           /\ (<<top>> \o s)[1] = top /\ Head(<<top>> \o s) = top
           /\ \A i \in 2 .. Len(s) + 1 : (<<top>> \o s)[i] = s[i - 1]
           /\ Tail(<<top>> \o s) = s
<1> DEFINE t == <<top>> \o s
<1>1. t \in Seq(S) /\ t # << >> /\ Len(t) = Len(s) + 1 /\ t[1] = top /\ Head(t) = top
  OBVIOUS
<1>2. \A i \in 2 .. Len(s) + 1 : t[i] = s[i - 1]
  BY ConcatProperties
<1> HIDE DEF t
<1>3. /\ Tail(t) \in Seq(S) /\ Len(Tail(t)) = Len(t) - 1
      /\ \A i \in 1 .. Len(Tail(t)) : Tail(t)[i] = t[i + 1]
  BY <1>1, HeadTailProperties
<1>4. Tail(t) = s
  <2>1. Len(Tail(t)) = Len(s)
    BY <1>1, <1>3, LenProperties
  <2>2. \A i \in 1 .. Len(s) : Tail(t)[i] = s[i]
    <3> TAKE i \in 1 .. Len(s)
    <3>1. Tail(t)[i] = t[i + 1]
      BY <1>3, <2>1
    <3>2. i + 1 \in 2 .. Len(s) + 1 /\ (i + 1) - 1 = i
      BY LenProperties
    <3> QED
      BY <1>2, <3>1, <3>2
  <2> QED
    BY <1>3, <2>1, <2>2, SeqEqual
<1> QED
  BY <1>1, <1>2, <1>4 DEF t

LEMMA Pair ==
    ASSUME NEW S, NEW a \in S, NEW b \in S
    PROVE  <<a>> \o <<b>> = <<a, b>>
<1>1. <<a>> \o <<b>> \in Seq(S) /\ Len(<<a>> \o <<b>>) = 2 /\ <<a, b>> \in Seq(S) /\ Len(<<a, b>>) = 2
  OBVIOUS
<1>2. \A i \in 1 .. 2 : i = 1 \/ i = 2
  OBVIOUS
<1>3. (<<a>> \o <<b>>)[1] = a /\ (<<a>> \o <<b>>)[2] = b
  OBVIOUS
<1>4. \A i \in 1 .. 2 : (<<a>> \o <<b>>)[i] = <<a, b>>[i]
  BY <1>2, <1>3
<1>5. Len(<<a>> \o <<b>>) = Len(<<a, b>>)
  BY <1>1
<1> QED
  BY <1>1, <1>4, <1>5, SeqEqual

\* A frame is the return address, under an error code or not.
LEMMA FramesAre ==
    ASSUME NEW at \in Seq(Instructions), NEW nt \in BOOLEAN, NEW frame \in Frames(at, nt)
    PROVE  /\ frame \in Seq(Frame) /\ frame # << >> /\ Len(frame) \in {1, 2}
           /\ \A i \in 1 .. Len(frame) : frame[i].kind # "registers"
           /\ Head(frame).kind \in {"return", "code"}
           /\ Head(frame).kind = "return" =>
                /\ Head(frame) = [kind |-> "return", at |-> at, iff |-> TRUE, nt |-> nt]
                /\ Tail(frame) = << >>
<1> DEFINE back == [kind |-> "return", at |-> at, iff |-> TRUE, nt |-> nt]
           code == [kind |-> "code"]
<1>1. back \in Frame /\ code \in Frame /\ back.kind = "return" /\ code.kind = "code"
  BY DEF Frame
<1>2. frame \in {<<back>>, <<code, back>>}
  BY DEF Frames
<1> HIDE DEF back, code
<1>3. CASE frame = <<back>>
  <2>1. \A i \in 1 .. 1 : i = 1
    OBVIOUS
  <2>2. frame \in Seq(Frame) /\ frame # << >> /\ Len(frame) = 1 /\ frame[1] = back
    BY <1>1, <1>3
  <2>3. Head(frame) = back /\ Tail(frame) = << >>
    BY <1>3
  <2> QED
    BY <1>1, <2>1, <2>2, <2>3 DEF back
<1>4. CASE frame = <<code, back>>
  <2>1. \A i \in 1 .. 2 : i = 1 \/ i = 2
    OBVIOUS
  <2>2. frame \in Seq(Frame) /\ frame # << >> /\ Len(frame) = 2 /\ frame[1] = code /\ frame[2] = back
    BY <1>1, <1>4
  <2>3. Head(frame) = code
    BY <1>4
  <2> QED
    BY <1>1, <2>1, <2>2, <2>3
<1> QED
  BY <1>2, <1>3, <1>4

\* The registers pushed on it are the only ones there, and come off again.
LEMMA SavedAre ==
    ASSUME NEW at \in Seq(Instructions), NEW nt \in BOOLEAN, NEW frame \in Frames(at, nt),
           NEW r \in Values
    PROVE  /\ Saved(frame, r) \in Seq(Frame) /\ Len(Saved(frame, r)) \in {2, 3}
           /\ Saved(frame, r)[1].kind = "registers" /\ Saved(frame, r)[1].regs = r
           /\ \A i \in 2 .. Len(Saved(frame, r)) : Saved(frame, r)[i].kind # "registers"
           /\ Head(Saved(frame, r)).regs = r /\ Tail(Saved(frame, r)) = frame
<1> DEFINE top == [kind |-> "registers", regs |-> r]
<1>1. top \in Frame /\ top.kind = "registers" /\ top.regs = r
  BY DEF Frame
<1>2. Saved(frame, r) = <<top>> \o frame
  BY DEF Saved
<1>3. /\ frame \in Seq(Frame) /\ Len(frame) \in {1, 2}
      /\ \A i \in 1 .. Len(frame) : frame[i].kind # "registers"
  BY FramesAre
<1> HIDE DEF top
<1>4. /\ Saved(frame, r) \in Seq(Frame) /\ Len(Saved(frame, r)) = Len(frame) + 1
      /\ Saved(frame, r)[1] = top /\ Head(Saved(frame, r)) = top /\ Tail(Saved(frame, r)) = frame
      /\ \A i \in 2 .. Len(frame) + 1 : Saved(frame, r)[i] = frame[i - 1]
  BY <1>1, <1>2, <1>3, Pushed
<1>5. \A i \in 2 .. Len(Saved(frame, r)) : Saved(frame, r)[i].kind # "registers"
  <2> TAKE i \in 2 .. Len(Saved(frame, r))
  <2>1. i \in 2 .. Len(frame) + 1 /\ i - 1 \in 1 .. Len(frame)
    BY <1>3, <1>4
  <2> QED
    BY <1>3, <1>4, <2>1
<1> QED
  BY <1>1, <1>3, <1>4, <1>5

LEMMA Numbers == Junk \in Values /\ 0 \in Values /\ 0 .. (Rounds - 1) \subseteq Values
  BY ProcessorAssumption DEF Values, Junk

\* A handler's instructions leave the code it came upon alone, and its registers
\* where they are restored from.
LEMMA HandlerSteps ==
    ASSUME NEW at \in Seq(Instructions), NEW nt \in BOOLEAN, NEW r \in Values,
           cpu \in Contexts, InHandler(at, nt, r),
           Cli \/ Pushad \/ Call \/ Popad \/ EndOfInterrupt
    PROVE  InHandler(at, nt, r)' /\ cpu' \in Contexts
<1> PICK frame \in Frames(at, nt) :
      \/ cpu.at \in Outside /\ cpu.stack = frame /\ cpu.regs = r
      \/ cpu.at \in Inside /\ cpu.stack = Saved(frame, r)
  BY DEF InHandler, HandlerContext
<1>0. ~cpu.iff /\ ~cpu.nt /\ frame \in Seq(Frame) /\ Saved(frame, r) \in Seq(Frame)
  BY FramesAre, SavedAre DEF InHandler, HandlerContext
<1> DEFINE Becomes(rest, regs, stack) ==
        [at |-> rest, regs |-> regs, iff |-> FALSE, nt |-> FALSE, stack |-> stack]
<1>a. ASSUME NEW rest, NEW regs \in Values, NEW stack, cpu' = Becomes(rest, regs, stack),
             \/ rest \in Outside /\ stack = frame /\ regs = r
             \/ rest \in Inside /\ stack = Saved(frame, r)
      PROVE  InHandler(at, nt, r)' /\ cpu' \in Contexts
  <2>1. rest \in Seq(Instructions) /\ stack \in Seq(Frame)
    BY <1>0, <1>a, OutsideCode, InsideCode
  <2>2. cpu' \in Contexts
    BY <1>a, <2>1 DEF Contexts
  <2> QED
    BY <1>a, <2>2 DEF InHandler, HandlerContext
<1>1. CASE Cli
  <2>1. Head(cpu.at) = "cli" /\ cpu' = Becomes(Tail(cpu.at), cpu.regs, cpu.stack)
    BY <1>0, <1>1 DEF Cli, Executes, After, Contexts
  <2>2. cpu.at \in Outside /\ Tail(cpu.at) \in Outside
    BY <2>1, OutsideCode, InsideCode
  <2>3. cpu.stack = frame /\ cpu.regs = r
    BY <2>1, InsideCode
  <2> QED
    BY <1>a, <2>1, <2>2, <2>3
<1>2. CASE Pushad
  <2>1. /\ Head(cpu.at) = "pushad"
        /\ cpu' = Becomes(Tail(cpu.at), cpu.regs, Saved(cpu.stack, cpu.regs))
    BY <1>0, <1>2 DEF Pushad, Executes, After, Contexts, Saved
  <2>2. cpu.at \in Outside /\ Tail(cpu.at) \in Inside
    BY <2>1, OutsideCode, InsideCode
  <2>3. cpu.stack = frame /\ cpu.regs = r
    BY <2>1, InsideCode
  <2> QED
    BY <1>a, <2>1, <2>2, <2>3
<1>3. CASE Call
  <2>1. Head(cpu.at) = "call" /\ cpu' = Becomes(Tail(cpu.at), Junk, cpu.stack)
    BY <1>0, <1>3 DEF Call, Executes, After, Contexts
  <2>2. cpu.at \in Inside /\ Tail(cpu.at) \in Inside
    BY <2>1, OutsideCode, InsideCode
  <2>3. cpu.stack = Saved(frame, r)
    BY <2>1, OutsideCode
  <2> QED
    BY <1>a, <2>1, <2>2, <2>3, Numbers
<1>4. CASE Popad
  <2>1. /\ Head(cpu.at) = "popad"
        /\ cpu' = Becomes(Tail(cpu.at), Head(cpu.stack).regs, Tail(cpu.stack))
    BY <1>0, <1>4 DEF Popad, Executes, After, Contexts
  <2>2. Tail(cpu.at) = <<"iretd">> /\ Tail(cpu.at) \in Outside
    BY <2>1, OutsideCode, InsideCode DEF Outside
  <2>3. cpu.stack = Saved(frame, r)
    BY <2>1, OutsideCode
  <2>4. Head(cpu.stack).regs = r /\ Tail(cpu.stack) = frame
    BY <2>3, SavedAre
  <2> QED
    BY <1>a, <2>1, <2>2, <2>4
<1>5. CASE EndOfInterrupt
  <2>1. Head(cpu.at) \in {"eoi", "eoi_slave"} /\ cpu' = Becomes(Tail(cpu.at), cpu.regs, cpu.stack)
    BY <1>0, <1>5 DEF EndOfInterrupt, Executes, After, Contexts
  <2>2. cpu.at \in Inside /\ Tail(cpu.at) \in Inside
    BY <2>1, OutsideCode, InsideCode
  <2>3. cpu.stack = Saved(frame, r) /\ cpu.regs \in Values
    BY <2>1, OutsideCode DEF Contexts
  <2> QED
    BY <1>a, <2>1, <2>2, <2>3
<1> QED
  BY <1>1, <1>2, <1>3, <1>4, <1>5

\* It returns to that code, unless an error code is taken for the address.
LEMMA HandlerReturns ==
    ASSUME NEW at \in Seq(Instructions), NEW nt \in BOOLEAN, NEW r \in Values,
           cpu \in Contexts, InHandler(at, nt, r), Return
    PROVE  \/ UNCHANGED cpu
           \/ /\ cpu' \in Contexts
              /\ cpu'.at = at /\ cpu'.iff /\ cpu'.nt = nt /\ cpu'.stack = << >> /\ cpu'.regs = r
<1> PICK frame \in Frames(at, nt) :
      \/ cpu.at \in Outside /\ cpu.stack = frame /\ cpu.regs = r
      \/ cpu.at \in Inside /\ cpu.stack = Saved(frame, r)
  BY DEF InHandler, HandlerContext
<1>1. Head(cpu.at) = "iretd"
  BY DEF Return, Executes
<1>2. cpu.stack = frame /\ cpu.regs = r
  BY <1>1, InsideCode
<1>3. CASE UNCHANGED cpu
  BY <1>3
<1>4. CASE cpu' # cpu
  <2> DEFINE top == Head(cpu.stack)
  <2>1. top.kind = "return" /\ cpu' = [cpu EXCEPT !.at = top.at, !.iff = top.iff, !.nt = top.nt,
                                                  !.stack = Tail(cpu.stack)]
    BY <1>4 DEF Return
  <2>2. top = [kind |-> "return", at |-> at, iff |-> TRUE, nt |-> nt] /\ Tail(cpu.stack) = << >>
    BY <1>2, <2>1, FramesAre
  <2>3. top.at = at /\ top.iff = TRUE /\ top.nt = nt
    BY <2>2
  <2> HIDE DEF top
  <2>4. cpu' = [at |-> at, regs |-> r, iff |-> TRUE, nt |-> nt, stack |-> << >>]
    BY <1>2, <2>1, <2>2, <2>3 DEF Contexts
  <2>5. << >> \in Seq(Frame)
    OBVIOUS
  <2> QED
    BY <2>4, <2>5 DEF Contexts
<1> QED
  BY <1>3, <1>4

\* An interrupt gate, with nothing on the stack, begins one.
LEMMA HandlerBegins ==
    ASSUME NEW v \in Vectors, NEW at, NEW nt, NEW r, cpu \in Contexts,
           cpu.at = at, cpu.nt = nt, cpu.regs = r, cpu.iff, cpu.stack = << >>, Interrupt(v)
    PROVE  InHandler(at, nt, r)' /\ cpu' \in Contexts
<1> DEFINE back == [kind |-> "return", at |-> at, iff |-> TRUE, nt |-> nt]
           code == [kind |-> "code"]
           frame == (IF HasErrorCode(v) THEN <<code>> ELSE << >>) \o <<ReturnFrame>> \o << >>
<1>1. at \in Seq(Instructions) /\ nt \in BOOLEAN /\ r \in Values /\ cpu.iff = TRUE
  BY DEF Contexts
<1>2. ReturnFrame = back /\ back \in Frame /\ code \in Frame
  BY <1>1 DEF ReturnFrame, Frame
<1>3. frame \in Frames(at, nt)
  <2> HIDE DEF back, code
  <2>1. <<back>> \in Seq(Frame) /\ <<code>> \in Seq(Frame) /\ <<code, back>> \in Seq(Frame)
    BY <1>2
  <2>2. << >> \o <<back>> = <<back>> /\ <<code>> \o <<back>> = <<code, back>>
    BY <1>2, <2>1, ConcatEmptySeq, Pair
  <2>3. <<back>> \o << >> = <<back>> /\ <<code, back>> \o << >> = <<code, back>>
    BY <2>1, ConcatEmptySeq
  <2>4. frame \in {<<back>>, <<code, back>>}
    BY <1>2, <2>2, <2>3
  <2> QED
    BY <2>4 DEF Frames, back, code
<1>4. m_IntHandlers(v).code \in HandlerCodes
  BY Table DEF Interrupt
<1>5. m_IntHandlers(v).code \in Outside /\ m_IntHandlers(v).code \in Seq(Instructions)
  BY <1>4, OutsideCode DEF Outside
<1> HIDE DEF frame
<1>6. frame \in Seq(Frame)
  BY <1>1, <1>3, FramesAre
<1>7. cpu' = [cpu EXCEPT !.at = m_IntHandlers(v).code, !.iff = FALSE, !.nt = FALSE, !.stack = frame]
  BY DEF Interrupt, frame
<1> HIDE DEF back, code
<1>8. cpu' = [at |-> m_IntHandlers(v).code, regs |-> r, iff |-> FALSE, nt |-> FALSE, stack |-> frame]
  BY <1>7 DEF Contexts
<1>9. cpu' \in Contexts
  BY <1>1, <1>5, <1>6, <1>8 DEF Contexts
<1> QED
  BY <1>3, <1>5, <1>8, <1>9 DEF InHandler, HandlerContext

----------------------------------------------------------------------------
(* The invariant: initially, and while the kernel boots.                   *)

LEMMA TypesOfContexts ==
    ASSUME NEW c \in Contexts
    PROVE  /\ c = [at |-> c.at, regs |-> c.regs, iff |-> c.iff, nt |-> c.nt, stack |-> c.stack]
           /\ c.at \in Seq(Instructions) /\ c.regs \in Values
           /\ c.iff \in BOOLEAN /\ c.nt \in BOOLEAN /\ c.stack \in Seq(Frame)
  BY DEF Contexts

\* A register set at the beginning of a task.
LEMMA FirstContexts ==
    ASSUME NEW task \in Tasks, cpu.nt \in BOOLEAN
    PROVE  /\ FirstContext(task) \in Contexts
           /\ FirstContext(task).at = CodeOf(task) /\ FirstContext(task).iff
           /\ FirstContext(task).stack = << >> /\ FirstContext(task).regs = 0
           /\ FirstContext(task).nt = cpu.nt
<1>1. CodeOf(task) \in {<<"cli", "switch", "eoi", "iretd">>, <<"cli", "switch", "iretd">>, << >>}
  BY DEF CodeOf, Psp_IRQ_SystemTimer, PspSoftTaskSW
<1>3. CodeOf(task) \in Seq(Instructions)
  <2>1. <<"cli", "switch", "eoi", "iretd">> \in Seq(Instructions)
    BY DEF Instructions
  <2>2. <<"cli", "switch", "iretd">> \in Seq(Instructions) /\ << >> \in Seq(Instructions)
    BY DEF Instructions
  <2> QED
    BY <1>1, <2>1, <2>2
<1>2. << >> \in Seq(Frame)
  OBVIOUS
<1> QED
  BY <1>2, <1>3, Numbers DEF FirstContext, Context, Contexts

LEMMA UnsetContext ==
    /\ Unset \in Contexts /\ Unset.stack = << >> /\ Unset.regs = 0 /\ ~Waiting(Unset)
    /\ Context(<< >>, FALSE, FALSE) \in Contexts
<1>1. << >> \in Seq(Frame) /\ << >> \in Seq(Instructions) /\ <<"unset">> \in Seq(Instructions)
  BY DEF Instructions
<1>2. <<"unset">> # << >>
  OBVIOUS
<1> QED
  BY <1>1, <1>2, Numbers DEF Unset, Context, Contexts, Waiting, Own

LEMMA TasksAre ==
    /\ Threads \subseteq Tasks /\ {"init", "timer", "soft"} \subseteq Tasks /\ Idle \in Threads
    /\ "init" \notin Threads /\ "timer" \notin Threads /\ "soft" \notin Threads /\ "none" \notin Threads
    /\ \A t \in Threads : CodeOf(t) = << >>
    /\ CodeOf("timer") = Psp_IRQ_SystemTimer /\ CodeOf("soft") = PspSoftTaskSW
  BY ProcessorAssumption DEF Tasks, CodeOf

\* A thread is created waiting, by a creator outside nested tasks.
LEMMA FirstOfThread ==
    ASSUME NEW t \in Threads, cpu.nt = FALSE
    PROVE  /\ FirstContext(t) \in Contexts /\ FirstContext(t).stack = << >>
           /\ FirstContext(t).regs = 0 /\ Waiting(FirstContext(t))
<1> DEFINE c == FirstContext(t)
<1>1. c \in Contexts /\ c.at = << >> /\ c.iff /\ c.stack = << >> /\ c.regs = 0 /\ c.nt = FALSE
  BY FirstContexts, TasksAre
<1>2. 0 \in 0 .. (Rounds - 1)
  BY ProcessorAssumption
<1> HIDE DEF c
<1>3. Waiting(c)
  BY <1>1, <1>2 DEF Waiting, Own
<1> QED
  BY <1>1, <1>3 DEF c

LEMMA SegmentsAre ==
    /\ TASK_SW_SEG \in Segments /\ INIT_TSS_SEG \in Segments
    /\ TMR_TSS_SEG \in Segments /\ SOFT_TS_TSS_SEG \in Segments
    /\ TASK_SW_SEG # INIT_TSS_SEG /\ TASK_SW_SEG # TMR_TSS_SEG /\ TASK_SW_SEG # SOFT_TS_TSS_SEG
    /\ INIT_TSS_SEG # TMR_TSS_SEG /\ INIT_TSS_SEG # SOFT_TS_TSS_SEG
    /\ TMR_TSS_SEG # SOFT_TS_TSS_SEG
    /\ INIT_TSS_SEG # 0 /\ TMR_TSS_SEG # 0 /\ SOFT_TS_TSS_SEG # 0 /\ TASK_SW_SEG # 0
  BY DEF Segments, TASK_SW_SEG, INIT_TSS_SEG, TMR_TSS_SEG, SOFT_TS_TSS_SEG

LEMMA InitPInv == Init => PInv
<1> SUFFICES ASSUME Init PROVE PInv
  OBVIOUS
<1>1. Types
  BY UnsetContext, TasksAre DEF Init, Types, Descriptor, Descriptors
<1>2. BootCode
  BY TasksAre, SegmentsAre DEF Init, BootCode, Booted, Busy, Descriptor
<1>3. Segmented
  BY UnsetContext, TasksAre DEF Init, Segmented
<1> QED
  BY <1>1, <1>2, <1>3 DEF PInv, Init

LEMMA FirstStepsPInv ==
    ASSUME PInv, HalpEnableA20 \/ HalpInitPIC \/ HalpStartIntService
    PROVE  PInv'
<1>1. boot # "done" /\ boot' # "done"
  BY DEF HalpEnableA20, HalpInitPIC, HalpStartIntService, Booting
<1>2. UNCHANGED <<gdt, tss, link, tr, loaded, cpu, scheduler>>
  BY DEF HalpEnableA20, HalpInitPIC, HalpStartIntService, tables
<1>3. Types'
  BY <1>2 DEF PInv, Types, HalpEnableA20, HalpInitPIC, HalpStartIntService, Booting, pic, scheduler
<1>4. BootCode'
  BY <1>1, <1>2 DEF PInv, BootCode, Booted, Busy, HalpEnableA20, HalpInitPIC, HalpStartIntService,
                    Booting, scheduler, tables
<1>5. Segmented'
  BY <1>2 DEF PInv, Segmented, scheduler
<1> QED
  BY <1>1, <1>3, <1>4, <1>5 DEF PInv

\* A task is set up with a segment of its own.
LEMMA SetsUp ==
    ASSUME PInv, boot # "done", NEW task \in Tasks, NEW busy \in BOOLEAN,
           NEW segment \in Segments \ {TASK_SW_SEG}, HalSetupTSS(task),
           gdt' = HalWriteTssIntoGdt(HalChangeTssBusyBit(gdt, TASK_SW_SEG), task, segment, busy)
    PROVE  /\ tss' \in [Tasks -> Contexts]
           /\ gdt' \in [Segments -> Descriptors]
           /\ tss'[task].at = CodeOf(task) /\ tss'[task].stack = << >>
           /\ \A t \in Tasks \ {task} : tss'[t] = tss[t]
           /\ gdt'[segment] = Descriptor(task, busy)
           /\ \A s \in Segments \ {TASK_SW_SEG, segment} : gdt'[s] = gdt[s]
<1>1. cpu.nt \in BOOLEAN /\ tss \in [Tasks -> Contexts]
      /\ gdt \in [Segments -> Descriptors]
  BY TypesOfContexts DEF PInv, Types
<1>2. tss' = [tss EXCEPT ![task] = FirstContext(task)]
  BY DEF HalSetupTSS
<1>3. gdt' = [[gdt EXCEPT ![TASK_SW_SEG].busy = TRUE] EXCEPT ![segment] = [task |-> task, busy |-> busy]]
  BY DEF HalWriteTssIntoGdt, HalChangeTssBusyBit, Descriptor
<1>4. TASK_SW_SEG \in Segments
  BY DEF Segments
<1>5. [gdt EXCEPT ![TASK_SW_SEG].busy = TRUE] \in [Segments -> Descriptors]
  BY <1>1, <1>4 DEF Descriptors
<1>6. [task |-> task, busy |-> busy] \in Descriptors
  BY DEF Descriptors
<1>7. FirstContext(task) \in Contexts /\ FirstContext(task).at = CodeOf(task)
      /\ FirstContext(task).stack = << >>
  BY <1>1, FirstContexts
<1>8. /\ gdt' \in [Segments -> Descriptors] /\ gdt'[segment] = Descriptor(task, busy)
      /\ \A s \in Segments \ {TASK_SW_SEG, segment} : gdt'[s] = gdt[s]
  BY <1>1, <1>3, <1>4, <1>5, <1>6 DEF Descriptor
<1> QED
  BY <1>1, <1>2, <1>7, <1>8

LEMMA InitTaskPInv ==
    ASSUME PInv, InitTask
    PROVE  PInv'
<1>1. boot = "init" /\ boot' = "timer"
  BY DEF InitTask, Booting
<1>2. /\ tss' \in [Tasks -> Contexts]
      /\ gdt' \in [Segments -> Descriptors]
      /\ tss'["init"].stack = << >> /\ \A t \in Tasks \ {"init"} : tss'[t] = tss[t]
      /\ gdt'[TMR_TSS_SEG] = gdt[TMR_TSS_SEG] /\ gdt'[SOFT_TS_TSS_SEG] = gdt[SOFT_TS_TSS_SEG]
  <2>1. /\ HalSetupTSS("init")
        /\ gdt' = HalWriteTssIntoGdt(HalChangeTssBusyBit(gdt, TASK_SW_SEG), "init", INIT_TSS_SEG, TRUE)
    BY DEF InitTask
  <2>2. "init" \in Tasks /\ INIT_TSS_SEG \in Segments \ {TASK_SW_SEG}
    BY SegmentsAre, TasksAre
  <2> QED
    BY <1>1, <2>1, <2>2, SetsUp, SegmentsAre
<1>3. Types'
  <2>1. link' \in [Tasks -> Segments \cup {0}] /\ tr' \in Segments /\ loaded' \in Tasks
    BY SegmentsAre, TasksAre DEF PInv, Types, InitTask, HalSetupTaskLink
  <2> QED
    BY <1>1, <1>2, <2>1 DEF PInv, Types, InitTask, pic, scheduler
<1>4. BootCode'
  <2>1. idt' = Vectors
    BY <1>1 DEF PInv, BootCode, InitTask
  <2>2. cpu' = Context(<< >>, FALSE, FALSE) /\ loaded' \in {"none", "init"}
    BY <1>1 DEF PInv, BootCode, InitTask
  <2>3. ~Busy(TMR_TSS_SEG)' /\ ~Busy(SOFT_TS_TSS_SEG)'
    BY <1>1, <1>2 DEF PInv, BootCode, Busy
  <2>4. loaded' = "init" /\ tr' = INIT_TSS_SEG /\ link'["init"] = TASK_SW_SEG
    BY TasksAre DEF PInv, Types, InitTask, HalSetupTaskLink
  <2>5. ready' = {} /\ pt_current_thread' = Idle /\ \A t \in Threads : tss'[t] = Unset
    BY <1>1, <1>2, TasksAre DEF PInv, BootCode, Booted, InitTask, scheduler
  <2> QED
    BY <1>1, <2>1, <2>2, <2>3, <2>4, <2>5 DEF BootCode, Booted
<1>5. Segmented'
  BY <1>2, TasksAre DEF PInv, Segmented, InitTask, scheduler
<1> QED
  BY <1>1, <1>3, <1>4, <1>5 DEF PInv

LEMMA IntThreadPInv ==
    ASSUME PInv,
           \/ PsCreateIntThread("timer", "soft", "timer", TMR_TSS_SEG)
           \/ PsCreateIntThread("soft", "idle", "soft", SOFT_TS_TSS_SEG)
    PROVE  PInv'
<1>1. ASSUME PsCreateIntThread("timer", "soft", "timer", TMR_TSS_SEG) PROVE PInv'
  <2>1. boot = "timer" /\ boot' = "soft"
    BY <1>1 DEF PsCreateIntThread, Booting
  <2>2. /\ tss' \in [Tasks -> Contexts]
        /\ gdt' \in [Segments -> Descriptors]
        /\ tss'["timer"].stack = << >> /\ tss'["timer"].at = CodeOf("timer")
        /\ \A t \in Tasks \ {"timer"} : tss'[t] = tss[t]
        /\ gdt'[TMR_TSS_SEG] = Descriptor("timer", FALSE)
        /\ gdt'[SOFT_TS_TSS_SEG] = gdt[SOFT_TS_TSS_SEG]
    <3>1. /\ HalSetupTSS("timer")
          /\ gdt' = HalWriteTssIntoGdt(HalChangeTssBusyBit(gdt, TASK_SW_SEG), "timer", TMR_TSS_SEG, FALSE)
      BY <1>1 DEF PsCreateIntThread, GateDescriptor
    <3>2. "timer" \in Tasks /\ TMR_TSS_SEG \in Segments \ {TASK_SW_SEG}
      BY SegmentsAre, TasksAre
    <3> QED
      BY <2>1, <3>1, <3>2, SetsUp, SegmentsAre
  <2>3. Types'
    BY <1>1, <2>1, <2>2 DEF PInv, Types, PsCreateIntThread, pic, scheduler
  <2>4. BootCode'
    <3>1. /\ idt' = Vectors /\ cpu' = Context(<< >>, FALSE, FALSE)
          /\ loaded' = "init" /\ tr' = INIT_TSS_SEG /\ link'["init"] = TASK_SW_SEG
      BY <1>1, <2>1 DEF PInv, BootCode, PsCreateIntThread
    <3>2. ~Busy(TMR_TSS_SEG)' /\ ~Busy(SOFT_TS_TSS_SEG)'
      BY <2>1, <2>2 DEF PInv, BootCode, Busy, Descriptor
    <3>3. gdt'[TMR_TSS_SEG].task = "timer" /\ tss'["timer"].at = CodeOf("timer")
      BY <2>2 DEF Descriptor
    <3>4. ready' = {} /\ pt_current_thread' = Idle /\ \A t \in Threads : tss'[t] = Unset
      BY <1>1, <2>1, <2>2, TasksAre DEF PInv, BootCode, Booted, PsCreateIntThread, scheduler
    <3> QED
      BY <2>1, <3>1, <3>2, <3>3, <3>4 DEF BootCode, Booted
  <2>5. Segmented'
    BY <1>1, <2>2, TasksAre DEF PInv, Segmented, PsCreateIntThread, scheduler
  <2> QED
    BY <2>1, <2>3, <2>4, <2>5 DEF PInv
<1>2. ASSUME PsCreateIntThread("soft", "idle", "soft", SOFT_TS_TSS_SEG) PROVE PInv'
  <2>1. boot = "soft" /\ boot' = "idle"
    BY <1>2 DEF PsCreateIntThread, Booting
  <2>2. /\ tss' \in [Tasks -> Contexts]
        /\ gdt' \in [Segments -> Descriptors]
        /\ tss'["soft"].stack = << >> /\ tss'["soft"].at = CodeOf("soft")
        /\ \A t \in Tasks \ {"soft"} : tss'[t] = tss[t]
        /\ gdt'[SOFT_TS_TSS_SEG] = Descriptor("soft", FALSE)
        /\ gdt'[TMR_TSS_SEG] = gdt[TMR_TSS_SEG]
    <3>1. /\ HalSetupTSS("soft")
          /\ gdt' = HalWriteTssIntoGdt(HalChangeTssBusyBit(gdt, TASK_SW_SEG), "soft", SOFT_TS_TSS_SEG, FALSE)
      BY <1>2 DEF PsCreateIntThread, GateDescriptor
    <3>2. "soft" \in Tasks /\ SOFT_TS_TSS_SEG \in Segments \ {TASK_SW_SEG}
      BY SegmentsAre, TasksAre
    <3> QED
      BY <2>1, <3>1, <3>2, SetsUp, SegmentsAre
  <2>3. Types'
    BY <1>2, <2>1, <2>2 DEF PInv, Types, PsCreateIntThread, pic, scheduler
  <2>4. BootCode'
    <3>1. /\ idt' = Vectors /\ cpu' = Context(<< >>, FALSE, FALSE)
          /\ loaded' = "init" /\ tr' = INIT_TSS_SEG /\ link'["init"] = TASK_SW_SEG
      BY <1>2, <2>1 DEF PInv, BootCode, PsCreateIntThread
    <3>2. ~Busy(TMR_TSS_SEG)' /\ ~Busy(SOFT_TS_TSS_SEG)'
      BY <2>1, <2>2 DEF PInv, BootCode, Busy, Descriptor
    <3>3. gdt'[SOFT_TS_TSS_SEG].task = "soft" /\ tss'["soft"].at = CodeOf("soft")
      BY <2>2 DEF Descriptor
    <3>4. ready' = {} /\ pt_current_thread' = Idle /\ \A t \in Threads : tss'[t] = Unset
      BY <1>2, <2>1, <2>2, TasksAre DEF PInv, BootCode, Booted, PsCreateIntThread, scheduler
    <3>5. gdt'[TMR_TSS_SEG].task = "timer" /\ tss'["timer"].at = CodeOf("timer")
      BY <2>1, <2>2, TasksAre DEF PInv, BootCode, Booted
    <3> QED
      BY <2>1, <3>1, <3>2, <3>3, <3>4, <3>5 DEF BootCode, Booted
  <2>5. Segmented'
    BY <1>2, <2>2, TasksAre DEF PInv, Segmented, PsCreateIntThread, scheduler
  <2> QED
    BY <2>1, <2>3, <2>4, <2>5 DEF PInv
<1> QED
  BY <1>1, <1>2

LEMMA IdleThreadPInv ==
    ASSUME PInv, IdleThread
    PROVE  PInv'
<1>1. boot = "idle" /\ boot' = "rest"
  BY DEF IdleThread, Booting
<1>2. /\ tss \in [Tasks -> Contexts] /\ Idle \in Tasks
      /\ gdt \in [Segments -> Descriptors]
      /\ cpu = Context(<< >>, FALSE, FALSE) /\ cpu.nt = FALSE
  BY <1>1, TasksAre DEF PInv, Types, BootCode, Context
<1>3. tss' = [tss EXCEPT ![Idle] = FirstContext(Idle)]
  BY DEF IdleThread, HalSetupTSS
<1>4. gdt' = [gdt EXCEPT ![TASK_SW_SEG] = Descriptor(Idle, TRUE)]
  BY DEF IdleThread, HalWriteTssIntoGdt
<1>5. FirstContext(Idle) \in Contexts /\ FirstContext(Idle).stack = << >> /\ Waiting(FirstContext(Idle))
  BY <1>2, FirstOfThread, TasksAre
<1>6. Types'
  <2>1. Descriptor(Idle, TRUE) \in Descriptors
    BY <1>2 DEF Descriptor, Descriptors
  <2>2. gdt' \in [Segments -> Descriptors] /\ tss' \in [Tasks -> Contexts]
    BY <1>2, <1>3, <1>4, <1>5, <2>1, SegmentsAre
  <2>3. ready' \subseteq Threads /\ pt_current_thread' \in Threads
    BY TasksAre DEF IdleThread
  <2> QED
    BY <1>1, <2>2, <2>3 DEF PInv, Types, IdleThread, pic
<1>7. BootCode'
  <2>1. /\ idt' = Vectors /\ cpu' = Context(<< >>, FALSE, FALSE)
        /\ loaded' = "init" /\ tr' = INIT_TSS_SEG /\ link'["init"] = TASK_SW_SEG
    BY <1>1 DEF PInv, BootCode, IdleThread
  <2>2. gdt'[TMR_TSS_SEG] = gdt[TMR_TSS_SEG] /\ gdt'[SOFT_TS_TSS_SEG] = gdt[SOFT_TS_TSS_SEG]
    BY <1>2, <1>4, SegmentsAre
  <2>3. tss'["timer"] = tss["timer"] /\ tss'["soft"] = tss["soft"]
    BY <1>2, <1>3, TasksAre
  <2>4. ~Busy(TMR_TSS_SEG)' /\ ~Busy(SOFT_TS_TSS_SEG)'
    BY <1>1, <2>2 DEF PInv, BootCode, Busy
  <2>5. /\ gdt'[TMR_TSS_SEG].task = "timer" /\ tss'["timer"].at = CodeOf("timer")
        /\ gdt'[SOFT_TS_TSS_SEG].task = "soft" /\ tss'["soft"].at = CodeOf("soft")
    BY <1>1, <2>2, <2>3 DEF PInv, BootCode, Booted
  <2>6. /\ gdt'[TASK_SW_SEG] = Descriptor(pt_current_thread', TRUE)
        /\ Idle \in ready' /\ pt_current_thread' \in ready'
    BY <1>2, <1>4, SegmentsAre DEF IdleThread
  <2> QED
    BY <1>1, <2>1, <2>4, <2>5, <2>6 DEF BootCode, Booted
<1>8. Segmented'
  <2>1. ready' = {Idle} /\ \A t \in Threads : tss[t] = Unset
    BY <1>1 DEF PInv, BootCode, Booted, IdleThread
  <2>2. \A t \in Tasks \ {Idle} : tss'[t] = tss[t]
    BY <1>2, <1>3
  <2>3. tss'[Idle] = FirstContext(Idle)
    BY <1>2, <1>3
  <2> QED
    BY <1>5, <2>1, <2>2, <2>3, TasksAre, UnsetContext DEF PInv, Segmented
<1> QED
  BY <1>1, <1>6, <1>7, <1>8 DEF PInv

----------------------------------------------------------------------------
(* The nested return.                                                      *)

LEMMA Returns ==
    ASSUME PInv, loaded \in Tasks, tr \in Segments, link[loaded] \in Segments \ {tr},
           Busy(link[loaded]), gdt[link[loaded]].task \in Tasks \ {loaded},
           cpu.stack = << >>, NestedReturn
    PROVE  /\ UNCHANGED stopped
           /\ tr' = link[loaded] /\ loaded' = gdt[link[loaded]].task
           /\ cpu' = tss[gdt[link[loaded]].task] /\ cpu' \in Contexts
           /\ tss' \in [Tasks -> Contexts] /\ gdt' \in [Segments -> Descriptors]
           /\ \A t \in Tasks \ {loaded} : tss'[t] = tss[t]
           /\ tss'[loaded].stack = << >> /\ tss'[loaded].at = CodeOf(loaded)
           /\ \A s \in Segments \ {tr} : gdt'[s] = gdt[s]
           /\ gdt'[tr] = Descriptor(gdt[tr].task, FALSE)
<1> DEFINE left == [cpu EXCEPT !.nt = FALSE, !.at = CodeOf(loaded)]
<1>1. cpu \in Contexts /\ tss \in [Tasks -> Contexts] /\ gdt \in [Segments -> Descriptors]
  BY DEF PInv, Types
<1>2. left \in Contexts /\ left.stack = << >> /\ left.at = CodeOf(loaded)
  <2>1. CodeOf(loaded) \in Seq(Instructions)
    <3>1. << >> \in Seq(Instructions)
      OBVIOUS
    <3>2. CodeOf("timer") \in Suffixes("timer") /\ CodeOf("soft") \in Suffixes("soft")
      BY GateCode DEF Suffixes
    <3>3. CodeOf("timer") \in Seq(Instructions) /\ CodeOf("soft") \in Seq(Instructions)
      BY <3>2, GateCode
    <3>4. loaded \notin {"timer", "soft"} => CodeOf(loaded) = << >>
      BY DEF CodeOf
    <3> QED
      BY <3>1, <3>3, <3>4
  <2> QED
    BY <1>1, <2>1 DEF Contexts
<1> HIDE DEF left
<1>3. /\ tss' = [tss EXCEPT ![loaded] = left]
      /\ gdt' = [gdt EXCEPT ![tr] = Descriptor(gdt[tr].task, FALSE)]
      /\ tr' = link[loaded] /\ loaded' = gdt[link[loaded]].task
      /\ cpu' = tss'[gdt[link[loaded]].task] /\ UNCHANGED stopped
  BY DEF NestedReturn, Busy, HalWriteTssIntoGdt, left
<1>4. Descriptor(gdt[tr].task, FALSE) \in Descriptors
  BY <1>1 DEF Descriptor, Descriptors
<1> QED
  BY <1>1, <1>2, <1>3, <1>4

\* The boot code leaves the processor to the idle thread.
LEMMA FirstSwitchPInv ==
    ASSUME PInv, FirstSwitch
    PROVE  /\ PInv' /\ ThreadRuns' /\ UNCHANGED stopped /\ loaded = "init"
           /\ loaded' = pt_current_thread /\ Own(cpu)'
           /\ \A t \in Threads : tss'[t] = tss[t]
           /\ cpu' = tss[pt_current_thread]
<1>1. boot = "rest" /\ boot' = "done" /\ UNCHANGED <<idt, link, pic, scheduler>> /\ NestedReturn
  BY DEF FirstSwitch
<1>2. /\ idt = Vectors /\ cpu = Context(<< >>, FALSE, FALSE)
      /\ ~Busy(TMR_TSS_SEG) /\ ~Busy(SOFT_TS_TSS_SEG)
      /\ loaded = "init" /\ tr = INIT_TSS_SEG /\ link["init"] = TASK_SW_SEG
  BY <1>1 DEF PInv, BootCode
<1>3. /\ gdt[TMR_TSS_SEG].task = "timer" /\ tss["timer"].at = CodeOf("timer")
      /\ gdt[SOFT_TS_TSS_SEG].task = "soft" /\ tss["soft"].at = CodeOf("soft")
      /\ gdt[TASK_SW_SEG] = Descriptor(pt_current_thread, TRUE)
      /\ Idle \in ready /\ pt_current_thread \in ready
  BY <1>1 DEF PInv, BootCode, Booted
<1>4. /\ pt_current_thread \in Threads /\ pt_current_thread \in Tasks \ {"init"}
      /\ Waiting(tss[pt_current_thread]) /\ cpu.stack = << >>
  BY <1>2, <1>3, TasksAre DEF PInv, Types, Segmented, Context
<1>5. Busy(TASK_SW_SEG) /\ gdt[TASK_SW_SEG].task = pt_current_thread
  BY <1>3 DEF Busy, Descriptor
<1>6. "init" \in Tasks /\ INIT_TSS_SEG \in Segments /\ TASK_SW_SEG \in Segments
      /\ TASK_SW_SEG # INIT_TSS_SEG
  BY SegmentsAre, TasksAre
<1>7. /\ UNCHANGED stopped /\ tr' = TASK_SW_SEG /\ loaded' = pt_current_thread
      /\ cpu' = tss[pt_current_thread] /\ cpu' \in Contexts
      /\ tss' \in [Tasks -> Contexts] /\ gdt' \in [Segments -> Descriptors]
      /\ \A t \in Tasks \ {"init"} : tss'[t] = tss[t]
      /\ tss'["init"].stack = << >>
      /\ \A s \in Segments \ {INIT_TSS_SEG} : gdt'[s] = gdt[s]
  BY <1>1, <1>2, <1>4, <1>5, <1>6, Returns
<1>8. Types'
  BY <1>1, <1>6, <1>7, <1>4 DEF PInv, Types, pic, scheduler
<1>9. gdt'[TMR_TSS_SEG] = gdt[TMR_TSS_SEG] /\ gdt'[SOFT_TS_TSS_SEG] = gdt[SOFT_TS_TSS_SEG]
      /\ gdt'[TASK_SW_SEG] = gdt[TASK_SW_SEG]
      /\ tss'["timer"] = tss["timer"] /\ tss'["soft"] = tss["soft"]
  BY <1>7, SegmentsAre, TasksAre
<1>10. BootCode'
  BY <1>1, <1>2, <1>3, <1>9 DEF BootCode, Booted, Busy, scheduler
<1>11. Segmented'
  BY <1>1, <1>6, <1>7, TasksAre DEF PInv, Segmented, scheduler
<1>12. ThreadRuns' /\ Own(cpu)'
  BY <1>1, <1>2, <1>4, <1>7, <1>9 DEF ThreadRuns, Waiting, Busy, scheduler, Own
<1> QED
  BY <1>1, <1>2, <1>7, <1>8, <1>10, <1>11, <1>12, TasksAre DEF PInv

\* What holds once the kernel runs.
LEMMA Running ==
    ASSUME PInv, boot = "done"
    PROVE  /\ idt = Vectors
           /\ gdt[TMR_TSS_SEG].task = "timer" /\ tss["timer"].at = CodeOf("timer")
           /\ gdt[SOFT_TS_TSS_SEG].task = "soft" /\ tss["soft"].at = CodeOf("soft")
           /\ gdt[TASK_SW_SEG] = Descriptor(pt_current_thread, TRUE)
           /\ Busy(TASK_SW_SEG) /\ gdt[TASK_SW_SEG].task = pt_current_thread
           /\ Idle \in ready /\ pt_current_thread \in ready /\ pt_current_thread \in Threads
           /\ pt_current_thread \in Tasks /\ pt_current_thread \notin {"init", "timer", "soft"}
           /\ Waiting(tss[pt_current_thread])
           /\ cpu \in Contexts
  BY TasksAre DEF PInv, BootCode, Booted, Types, Segmented, Busy, Descriptor

----------------------------------------------------------------------------
(* Where the registers of the threads are.                                 *)

RegistersOf(c) ==
    LET saved == {i \in DOMAIN c.stack : c.stack[i].kind = "registers"}
    IN  IF saved = {} THEN c.regs ELSE c.stack[CHOOSE i \in saved : TRUE].regs

LEMMA RegistersAre ==
    ASSUME NEW t \in Threads
    PROVE  Registers(t) = RegistersOf(Held(t)) /\ Registers(t)' = RegistersOf(Held(t)')
  BY DEF Registers, RegistersOf, Held

LEMMA RegistersIn ==
    ASSUME NEW c, c.stack = << >>
    PROVE  RegistersOf(c) = c.regs
  BY DEF RegistersOf

LEMMA RegistersPushed ==
    ASSUME NEW c, NEW at \in Seq(Instructions), NEW nt \in BOOLEAN, NEW r \in Values,
           HandlerContext(c, at, nt, r)
    PROVE  RegistersOf(c) = r
<1> DEFINE saved == {i \in DOMAIN c.stack : c.stack[i].kind = "registers"}
<1>0. RegistersOf(c) = IF saved = {} THEN c.regs ELSE c.stack[CHOOSE i \in saved : TRUE].regs
  BY DEF RegistersOf
<1> HIDE DEF saved
<1>1. PICK frame \in Frames(at, nt) :
        \/ c.stack = frame /\ c.regs = r
        \/ c.stack = Saved(frame, r)
  BY DEF HandlerContext
<1>2. CASE c.stack = frame /\ c.regs = r
  <2>1. frame \in Seq(Frame) /\ \A i \in 1 .. Len(frame) : frame[i].kind # "registers"
    BY FramesAre
  <2>2. DOMAIN frame = 1 .. Len(frame)
    BY <2>1, LenProperties
  <2>3. saved = {}
    BY <1>2, <2>1, <2>2 DEF saved
  <2> QED
    BY <1>0, <1>2, <2>3
<1>3. CASE c.stack = Saved(frame, r)
  <2> DEFINE stack == Saved(frame, r)
  <2>1. /\ stack \in Seq(Frame) /\ Len(stack) \in {2, 3} /\ stack[1].kind = "registers"
        /\ stack[1].regs = r /\ \A i \in 2 .. Len(stack) : stack[i].kind # "registers"
    BY SavedAre
  <2> HIDE DEF stack
  <2>2. DOMAIN stack = 1 .. Len(stack)
    BY <2>1, LenProperties
  <2>3. 1 \in DOMAIN stack /\ \A i \in DOMAIN stack : stack[i].kind = "registers" <=> i = 1
    BY <2>1, <2>2
  <2>4. c.stack = stack
    BY <1>3 DEF stack
  <2>5. saved = {1}
    BY <2>3, <2>4 DEF saved
  <2>6. (CHOOSE i \in {1} : TRUE) = 1
    OBVIOUS
  <2> QED
    BY <1>0, <2>1, <2>4, <2>5, <2>6
<1> QED
  BY <1>1, <1>2, <1>3

SameRegisters == \A t \in Threads : Registers(t)' = Registers(t)

LEMMA ElsewhereRegisters ==
    ASSUME NEW t \in Threads
    PROVE  /\ Segmented /\ loaded # t => Registers(t) = tss[t].regs
           /\ Segmented' /\ loaded' # t => Registers(t)' = tss'[t].regs
           /\ loaded = t /\ cpu.stack = << >> => Registers(t) = cpu.regs
           /\ loaded' = t /\ cpu'.stack = << >> => Registers(t)' = cpu'.regs
           /\ \A r \in Values : loaded = t /\ InHandler(<< >>, FALSE, r) => Registers(t) = r
           /\ \A r \in Values : loaded' = t /\ InHandler(<< >>, FALSE, r)' => Registers(t)' = r
<1>1. t \in Tasks
  BY TasksAre
<1>2. Segmented => tss[t].stack = << >>
  BY <1>1 DEF Segmented
<1>3. Segmented' => tss'[t].stack = << >>
  BY <1>1 DEF Segmented
<1>4. /\ Held(t) = IF loaded = t THEN cpu ELSE tss[t]
      /\ Held(t)' = IF loaded' = t THEN cpu' ELSE tss'[t]
  BY DEF Held
<1>5. /\ Registers(t) = RegistersOf(Held(t)) /\ Registers(t)' = RegistersOf(Held(t)')
  BY RegistersAre
<1>6. << >> \in Seq(Instructions)
  OBVIOUS
<1>7. \A r \in Values : loaded = t /\ InHandler(<< >>, FALSE, r) => Registers(t) = r
  BY <1>4, <1>5, <1>6, RegistersPushed DEF InHandler
<1>8. \A r \in Values : loaded' = t /\ InHandler(<< >>, FALSE, r)' => Registers(t)' = r
  BY <1>4, <1>5, <1>6, RegistersPushed DEF InHandler
<1> QED
  BY <1>2, <1>3, <1>4, <1>5, <1>7, <1>8, RegistersIn

----------------------------------------------------------------------------
(* The instructions of handlers and of the tasks behind the gates.         *)

\* A step that changes the registers of the processor, and the controllers.
LEMMA CpuChanges ==
    ASSUME PInv, boot = "done", boot' = boot, UNCHANGED <<tables, tss, tr, loaded, scheduler>>,
           cpu' \in Contexts, irr' \subseteq Devices, isr' \subseteq Devices \cup {2},
           (ThreadRuns \/ SoftRuns \/ TimerRuns)'
    PROVE  PInv'
<1>1. Types'
  BY DEF PInv, Types, tables, scheduler
<1>2. BootCode' /\ Segmented'
  BY DEF PInv, BootCode, Booted, Busy, Segmented, tables, scheduler
<1> QED
  BY <1>1, <1>2 DEF PInv

LEMMA GateSteps ==
    ASSUME NEW task \in {"timer", "soft"}, InGate(task), cpu \in Contexts,
           Cli \/ Pushad \/ Call \/ Popad \/ EndOfInterrupt
    PROVE  InGate(task)' /\ ~cpu'.iff /\ cpu' \in Contexts
<1>1. cpu.at \in Suffixes(task) /\ cpu.nt /\ cpu.stack = << >> /\ (cpu.iff => cpu.at = CodeOf(task))
  BY DEF InGate
<1>2. /\ Head(cpu.at) \in {"cli", "eoi", "eoi_slave"}
      /\ \/ Head(cpu.at) = "cli" /\ cpu' = [cpu EXCEPT !.at = Tail(cpu.at), !.iff = FALSE]
         \/ Head(cpu.at) # "cli" /\ cpu' = [cpu EXCEPT !.at = Tail(cpu.at)]
  BY <1>1, GateCode DEF Cli, Pushad, Call, Popad, EndOfInterrupt, Executes, After, Contexts
<1>3. Tail(cpu.at) \in Suffixes(task) /\ Tail(cpu.at) \in Seq(Instructions)
  BY <1>1, <1>2, GateCode
<1>4. Head(cpu.at) # "cli" => ~cpu.iff
  BY <1>1, GateCode
<1>5. cpu' \in Contexts /\ cpu'.at = Tail(cpu.at) /\ ~cpu'.iff /\ cpu'.nt /\ cpu'.stack = << >>
  BY <1>1, <1>2, <1>3, <1>4 DEF Contexts
<1> QED
  BY <1>3, <1>5 DEF InGate

\* Nothing but the code of the running thread is its own; a handler and the two
\* tasks execute instructions.
LEMMA OwnHasNoCode ==
    ASSUME Own(cpu)
    PROVE  cpu.at = << >> /\ cpu.stack = << >> /\ cpu.nt = FALSE
  BY DEF Own

LEMMA RunningCases ==
    ASSUME PInv, boot = "done", cpu.at # << >>
    PROVE  \/ ThreadRuns /\ \E r \in 0 .. (Rounds - 1) : InHandler(<< >>, FALSE, r)
           \/ SoftRuns \/ TimerRuns
  BY DEF PInv, ThreadRuns, Own

\* When the thread stays where it is, so do all registers.
LEMMA SameElsewhere ==
    ASSUME Segmented, Segmented', loaded \notin Threads, loaded' \notin Threads,
           \A t \in Threads : tss'[t] = tss[t]
    PROVE  SameRegisters
  BY ElsewhereRegisters DEF SameRegisters

LEMMA SameInHandler ==
    ASSUME Segmented, Segmented', NEW r \in Values, UNCHANGED <<loaded, tss>>,
           InHandler(<< >>, FALSE, r), InHandler(<< >>, FALSE, r)'
    PROVE  SameRegisters
<1> SUFFICES ASSUME NEW t \in Threads PROVE Registers(t)' = Registers(t)
  BY DEF SameRegisters
<1>1. CASE loaded = t
  BY <1>1, ElsewhereRegisters
<1>2. CASE loaded # t
  BY <1>2, ElsewhereRegisters
<1> QED
  BY <1>1, <1>2

LEMMA HandlerPInv ==
    ASSUME PInv, Cli \/ Pushad \/ Call \/ Popad \/ EndOfInterrupt
    PROVE  PInv' /\ SameRegisters
<1>1. /\ boot = "done" /\ boot' = boot /\ cpu.at # << >>
      /\ UNCHANGED <<tables, tss, tr, loaded, scheduler>>
  BY DEF Cli, Pushad, Call, Popad, EndOfInterrupt, Executes
<1>2. irr' \subseteq Devices /\ isr' \subseteq Devices \cup {2}
  BY DEF PInv, Types, Cli, Pushad, Call, Popad, EndOfInterrupt, pic, EndMaster, EndSlave
<1>3. cpu \in Contexts /\ Segmented /\ pt_current_thread \notin {"timer", "soft"}
  BY <1>1, Running DEF PInv
<1>4. << >> \in Seq(Instructions) /\ PspSoftTaskSW \in Seq(Instructions)
  BY DEF PspSoftTaskSW, Instructions
<1>5. ASSUME ThreadRuns, NEW r \in 0 .. (Rounds - 1), InHandler(<< >>, FALSE, r)
      PROVE  PInv' /\ SameRegisters
  <2>1. r \in Values
    BY Numbers
  <2>2. InHandler(<< >>, FALSE, r)' /\ cpu' \in Contexts
    BY <1>3, <1>4, <1>5, <2>1, HandlerSteps
  <2>3. ThreadRuns'
    BY <1>1, <1>5, <2>2 DEF ThreadRuns, Busy, tables, scheduler
  <2>4. PInv'
    BY <1>1, <1>2, <2>2, <2>3, CpuChanges
  <2>5. Segmented'
    BY <2>4 DEF PInv
  <2> QED
    BY <1>1, <1>3, <1>5, <2>1, <2>2, <2>4, <2>5, SameInHandler
<1>6. ASSUME SoftRuns
      PROVE  PInv' /\ SameRegisters
  <2>1. CASE InGate("soft")
    <3>1. InGate("soft")' /\ cpu' \in Contexts
      BY <1>3, <2>1, GateSteps
    <3>2. SoftRuns'
      BY <1>1, <1>6, <3>1 DEF SoftRuns, Busy, tables
    <3> QED
      BY <1>1, <1>2, <3>1, <3>2, CpuChanges, SameElsewhere, TasksAre DEF PInv, SoftRuns
  <2>2. ASSUME NEW r \in Values, InHandler(PspSoftTaskSW, TRUE, r) PROVE PInv' /\ SameRegisters
    <3>1. InHandler(PspSoftTaskSW, TRUE, r)' /\ cpu' \in Contexts
      BY <1>3, <1>4, <2>2, HandlerSteps
    <3>2. SoftRuns'
      BY <1>1, <1>6, <3>1 DEF SoftRuns, Busy, tables
    <3> QED
      BY <1>1, <1>2, <3>1, <3>2, CpuChanges, SameElsewhere, TasksAre DEF PInv, SoftRuns
  <2> QED
    BY <1>6, <2>1, <2>2 DEF SoftRuns
<1>7. ASSUME TimerRuns
      PROVE  PInv' /\ SameRegisters
  <2>1. InGate("timer")' /\ cpu' \in Contexts /\ ~cpu'.iff
    BY <1>3, <1>7, GateSteps DEF TimerRuns
  <2>2. TimerRuns'
    BY <1>1, <1>7, <2>1 DEF TimerRuns, Busy, tables
  <2> QED
    BY <1>1, <1>2, <2>1, <2>2, CpuChanges, SameElsewhere, TasksAre DEF PInv, TimerRuns
<1> QED
  BY <1>1, <1>5, <1>6, <1>7, RunningCases

\* The search for the next thread, in one of the two tasks.
LEMMA SwitchPInv ==
    ASSUME PInv, PspSetupTaskSWEnv
    PROVE  PInv' /\ SameRegisters
<1>1. /\ boot = "done" /\ boot' = boot /\ cpu.at # << >> /\ Head(cpu.at) = "switch"
      /\ UNCHANGED <<idt, link, tss, tr, loaded, pic, ready>>
  BY DEF PspSetupTaskSWEnv, Executes
<1>2. cpu' = [cpu EXCEPT !.at = Tail(cpu.at)]
  BY Running, <1>1 DEF PspSetupTaskSWEnv, After, Contexts
<1>3. /\ pt_current_thread' \in ready
      /\ gdt' = [gdt EXCEPT ![TASK_SW_SEG] = Descriptor(pt_current_thread', TRUE)]
  <2>1. gdt \in [Segments -> Descriptors] /\ TASK_SW_SEG \in Segments
    BY SegmentsAre DEF PInv, Types
  <2>2. gdt[TASK_SW_SEG] = Descriptor(pt_current_thread, TRUE)
    BY <1>1, Running
  <2> QED
    BY <2>1, <2>2 DEF PspSetupTaskSWEnv, NextTask, HalWriteTssIntoGdt
<1>4. ~ \E r \in Values : InHandler(<< >>, FALSE, r) \/ InHandler(PspSoftTaskSW, TRUE, r)
  BY <1>1, OutsideCode, InsideCode DEF InHandler, HandlerContext
<1>5. \/ SoftRuns /\ InGate("soft")
      \/ TimerRuns /\ InGate("timer")
  BY <1>1, <1>4, RunningCases, Numbers DEF SoftRuns, TimerRuns
<1>6. /\ pt_current_thread' \in Threads /\ pt_current_thread' \in Tasks
      /\ Descriptor(pt_current_thread', TRUE) \in Descriptors
  BY <1>3, TasksAre DEF PInv, Types, Descriptor, Descriptors
<1>7. /\ gdt' \in [Segments -> Descriptors]
      /\ gdt'[TASK_SW_SEG] = Descriptor(pt_current_thread', TRUE)
      /\ \A s \in Segments \ {TASK_SW_SEG} : gdt'[s] = gdt[s]
  BY <1>3, <1>6, SegmentsAre DEF PInv, Types
<1>8. ASSUME NEW task \in {"timer", "soft"}, InGate(task)
      PROVE  InGate(task)' /\ ~cpu'.iff /\ cpu' \in Contexts
  <2>1. cpu.at \in Suffixes(task) /\ cpu.nt /\ cpu.stack = << >> /\ (cpu.iff => cpu.at = CodeOf(task))
    BY <1>8 DEF InGate
  <2>2. Tail(cpu.at) \in Suffixes(task) /\ Tail(cpu.at) \in Seq(Instructions) /\ ~cpu.iff
    BY <1>1, <2>1, GateCode
  <2>3. cpu' \in Contexts /\ cpu'.at = Tail(cpu.at) /\ ~cpu'.iff /\ cpu'.nt /\ cpu'.stack = << >>
    BY <1>1, <1>2, <2>1, <2>2, Running DEF Contexts
  <2> QED
    BY <2>2, <2>3 DEF InGate
<1>9. cpu' \in Contexts
  BY <1>5, <1>8
<1>10. Types'
  BY <1>1, <1>6, <1>7, <1>9 DEF PInv, Types, pic
<1>11. gdt'[TMR_TSS_SEG] = gdt[TMR_TSS_SEG] /\ gdt'[SOFT_TS_TSS_SEG] = gdt[SOFT_TS_TSS_SEG]
  BY <1>7, SegmentsAre
<1>12. BootCode'
  BY <1>1, <1>3, <1>7, <1>11 DEF PInv, BootCode, Booted, Busy
<1>13. Segmented'
  BY <1>1 DEF PInv, Segmented
<1>14. SoftRuns' \/ TimerRuns'
  BY <1>1, <1>5, <1>8, <1>11 DEF SoftRuns, TimerRuns, Busy, pic
<1>15. PInv'
  BY <1>10, <1>12, <1>13, <1>14 DEF PInv
<1>16. loaded \notin Threads /\ loaded' \notin Threads
  BY <1>1, <1>5, TasksAre DEF SoftRuns, TimerRuns
<1> QED
  BY <1>1, <1>13, <1>15, <1>16, SameElsewhere DEF PInv

\* A handler returns to the thread or to the soft interrupt's task.
LEMMA ReturnPInv ==
    ASSUME PInv, Return
    PROVE  PInv' /\ SameRegisters
<1>1. /\ boot = "done" /\ boot' = boot /\ cpu.at # << >> /\ ~cpu.nt
      /\ UNCHANGED <<tables, tss, tr, loaded, pic, scheduler>>
  BY DEF Return, Executes
<1>2. irr' \subseteq Devices /\ isr' \subseteq Devices \cup {2}
  BY <1>1 DEF PInv, Types, pic
<1>3. cpu \in Contexts /\ Segmented /\ pt_current_thread \notin {"timer", "soft"}
  BY <1>1, Running DEF PInv
<1>4. << >> \in Seq(Instructions) /\ PspSoftTaskSW \in Seq(Instructions)
  BY DEF PspSoftTaskSW, Instructions
<1>5. ASSUME ThreadRuns, NEW r \in 0 .. (Rounds - 1), InHandler(<< >>, FALSE, r)
      PROVE  PInv' /\ SameRegisters
  <2>1. r \in Values
    BY Numbers
  <2>2. CASE UNCHANGED cpu
    <3>1. InHandler(<< >>, FALSE, r)'
      BY <1>5, <2>2 DEF InHandler
    <3>2. ThreadRuns'
      BY <1>1, <1>5, <3>1 DEF ThreadRuns, Busy, tables, scheduler
    <3>3. PInv'
      BY <1>1, <1>2, <1>3, <2>2, <3>2, CpuChanges
    <3>4. Segmented'
      BY <3>3 DEF PInv
    <3> QED
      BY <1>1, <1>3, <1>5, <2>1, <3>1, <3>3, <3>4, SameInHandler
  <2>3. CASE /\ cpu' \in Contexts /\ cpu'.at = << >> /\ cpu'.iff /\ cpu'.nt = FALSE
             /\ cpu'.stack = << >> /\ cpu'.regs = r
    <3>1. Own(cpu)'
      BY <2>3 DEF Own
    <3>2. ThreadRuns'
      BY <1>1, <1>5, <3>1 DEF ThreadRuns, Busy, tables, scheduler
    <3>3. PInv'
      BY <1>1, <1>2, <2>3, <3>2, CpuChanges
    <3>4. Segmented'
      BY <3>3 DEF PInv
    <3>5. SameRegisters
      <4> SUFFICES ASSUME NEW t \in Threads PROVE Registers(t)' = Registers(t)
        BY DEF SameRegisters
      <4>1. CASE loaded = t
        BY <1>1, <1>5, <2>1, <2>3, <4>1, ElsewhereRegisters
      <4>2. CASE loaded # t
        BY <1>1, <1>3, <3>4, <4>2, ElsewhereRegisters
      <4> QED
        BY <4>1, <4>2
    <3> QED
      BY <3>3, <3>5
  <2> QED
    BY <1>3, <1>4, <1>5, <2>1, <2>2, <2>3, HandlerReturns
<1>6. ASSUME SoftRuns
      PROVE  PInv' /\ SameRegisters
  <2>1. PICK r \in Values : InHandler(PspSoftTaskSW, TRUE, r)
    BY <1>1, <1>6 DEF SoftRuns, InGate
  <2>2. SoftRuns' /\ cpu' \in Contexts
    <3>1. CASE UNCHANGED cpu
      BY <1>1, <1>3, <1>6, <3>1 DEF SoftRuns, InHandler, InGate, Busy, tables
    <3>2. CASE /\ cpu' \in Contexts /\ cpu'.at = PspSoftTaskSW /\ cpu'.iff /\ cpu'.nt = TRUE
               /\ cpu'.stack = << >> /\ cpu'.regs = r
      <4>1. InGate("soft")'
        BY <3>2, TasksAre DEF InGate, Suffixes
      <4> QED
        BY <1>1, <1>6, <3>2, <4>1 DEF SoftRuns, Busy, tables
    <3> QED
      BY <1>3, <1>4, <2>1, <3>1, <3>2, HandlerReturns
  <2> QED
    BY <1>1, <1>2, <2>2, CpuChanges, SameElsewhere, TasksAre, <1>6 DEF PInv, SoftRuns
<1>7. ~TimerRuns
  BY <1>1 DEF TimerRuns, InGate
<1> QED
  BY <1>1, <1>5, <1>6, <1>7, RunningCases

\* The timer's task, or the soft interrupt's, goes back to what it came upon.
LEMMA GateReturnPInv ==
    ASSUME PInv, GateReturn
    PROVE  PInv' /\ SameRegisters /\ UNCHANGED stopped
<1>1. /\ boot = "done" /\ boot' = boot /\ cpu.at # << >> /\ cpu.nt /\ NestedReturn
      /\ UNCHANGED <<idt, link, pic, scheduler>>
  BY DEF GateReturn, Executes
<1>2. ~ \E r \in Values : InHandler(<< >>, FALSE, r) \/ InHandler(PspSoftTaskSW, TRUE, r)
  BY <1>1 DEF InHandler, HandlerContext
<1>3. \/ SoftRuns /\ InGate("soft")
      \/ TimerRuns /\ InGate("timer")
  BY <1>1, <1>2, RunningCases, Numbers DEF SoftRuns, TimerRuns
<1>4. Segmented /\ cpu.stack = << >> /\ loaded \notin Threads /\ loaded \in Tasks
  BY <1>3, TasksAre DEF PInv, InGate, SoftRuns, TimerRuns
<1>5. ASSUME link[loaded] = TASK_SW_SEG, loaded \in {"timer", "soft"}, tr \in {TMR_TSS_SEG, SOFT_TS_TSS_SEG},
             tr # TMR_TSS_SEG => ~Busy(TMR_TSS_SEG),
             tr # SOFT_TS_TSS_SEG => ~Busy(SOFT_TS_TSS_SEG)
      PROVE  PInv' /\ SameRegisters /\ UNCHANGED stopped
  <2>1. /\ tr \in Segments /\ link[loaded] \in Segments \ {tr} /\ Busy(link[loaded])
        /\ gdt[link[loaded]].task = pt_current_thread
        /\ gdt[link[loaded]].task \in Tasks \ {loaded}
    BY <1>1, <1>5, Running, SegmentsAre
  <2>2. /\ UNCHANGED stopped
        /\ tr' = TASK_SW_SEG /\ loaded' = pt_current_thread
        /\ cpu' = tss[pt_current_thread] /\ cpu' \in Contexts
        /\ tss' \in [Tasks -> Contexts] /\ gdt' \in [Segments -> Descriptors]
        /\ \A t \in Tasks \ {loaded} : tss'[t] = tss[t]
        /\ tss'[loaded].stack = << >> /\ tss'[loaded].at = CodeOf(loaded)
        /\ \A s \in Segments \ {tr} : gdt'[s] = gdt[s]
        /\ gdt'[tr] = Descriptor(gdt[tr].task, FALSE)
    BY <1>1, <1>4, <1>5, <2>1, Returns
  <2>3. /\ gdt'[TMR_TSS_SEG].task = "timer" /\ gdt'[SOFT_TS_TSS_SEG].task = "soft"
        /\ ~Busy(TMR_TSS_SEG)' /\ ~Busy(SOFT_TS_TSS_SEG)'
        /\ gdt'[TASK_SW_SEG] = gdt[TASK_SW_SEG]
    BY <1>1, <1>5, <2>2, Running, SegmentsAre DEF Descriptor, Busy
  <2>4. tss'["timer"].at = CodeOf("timer") /\ tss'["soft"].at = CodeOf("soft")
    BY <1>1, <1>5, <2>2, Running, TasksAre
  <2>5. Types'
    BY <1>1, <2>2, Running, SegmentsAre DEF PInv, Types, pic, scheduler
  <2>6. BootCode'
    BY <1>1, <2>3, <2>4, Running DEF BootCode, Booted, scheduler
  <2>7. Segmented'
    BY <1>1, <1>4, <2>2, TasksAre DEF Segmented, scheduler
  <2>8. Own(cpu)'
    BY <1>1, <2>2, Running DEF Waiting, Own
  <2>9. ThreadRuns'
    BY <1>1, <2>2, <2>3, <2>8 DEF ThreadRuns, scheduler
  <2>10. PInv'
    BY <2>5, <2>6, <2>7, <2>9 DEF PInv
  <2>11. SameRegisters
    <3> SUFFICES ASSUME NEW t \in Threads PROVE Registers(t)' = Registers(t)
      BY DEF SameRegisters
    <3>1. tss'[t] = tss[t] /\ Registers(t) = tss[t].regs
      BY <1>4, <2>2, TasksAre, ElsewhereRegisters
    <3>2. CASE loaded' = t
      <4>1. cpu' = tss[t] /\ cpu'.stack = << >>
        BY <2>2, <2>8, <3>2 DEF Own
      <4> QED
        BY <3>1, <3>2, <4>1, ElsewhereRegisters
    <3>3. CASE loaded' # t
      BY <2>7, <3>1, <3>3, ElsewhereRegisters
    <3> QED
      BY <3>2, <3>3
  <2> QED
    BY <2>2, <2>10, <2>11
<1>6. CASE SoftRuns
  BY <1>5, <1>6, SegmentsAre DEF SoftRuns
<1>7. CASE TimerRuns /\ link["timer"] = TASK_SW_SEG
  <2>1. ~Busy(SOFT_TS_TSS_SEG)
    BY <1>1, <1>7, SegmentsAre DEF TimerRuns
  <2> QED
    BY <1>5, <1>7, <2>1, SegmentsAre DEF TimerRuns
<1>8. CASE TimerRuns /\ link["timer"] = SOFT_TS_TSS_SEG
  <2>1. /\ loaded = "timer" /\ tr = TMR_TSS_SEG /\ Busy(SOFT_TS_TSS_SEG) /\ Busy(TMR_TSS_SEG)
        /\ link["soft"] = TASK_SW_SEG /\ tss["soft"].nt
    BY <1>8, SegmentsAre DEF TimerRuns
  <2>2. /\ tr \in Segments /\ link[loaded] \in Segments \ {tr} /\ Busy(link[loaded])
        /\ gdt[link[loaded]].task = "soft" /\ gdt[link[loaded]].task \in Tasks \ {loaded}
    BY <1>1, <1>8, <2>1, Running, SegmentsAre, TasksAre
  <2>3. /\ UNCHANGED stopped
        /\ tr' = SOFT_TS_TSS_SEG /\ loaded' = "soft"
        /\ cpu' = tss["soft"] /\ cpu' \in Contexts
        /\ tss' \in [Tasks -> Contexts] /\ gdt' \in [Segments -> Descriptors]
        /\ \A t \in Tasks \ {"timer"} : tss'[t] = tss[t]
        /\ tss'["timer"].stack = << >> /\ tss'["timer"].at = CodeOf("timer")
        /\ \A s \in Segments \ {TMR_TSS_SEG} : gdt'[s] = gdt[s]
        /\ gdt'[TMR_TSS_SEG] = Descriptor("timer", FALSE)
    BY <1>1, <1>4, <1>8, <2>1, <2>2, Returns, Running
  <2>4. /\ gdt'[TMR_TSS_SEG].task = "timer" /\ ~Busy(TMR_TSS_SEG)'
        /\ gdt'[SOFT_TS_TSS_SEG] = gdt[SOFT_TS_TSS_SEG] /\ gdt'[TASK_SW_SEG] = gdt[TASK_SW_SEG]
        /\ tss'["soft"] = tss["soft"]
    BY <2>3, SegmentsAre, TasksAre DEF Descriptor, Busy
  <2>5. Types'
    BY <1>1, <2>3, SegmentsAre, TasksAre DEF PInv, Types, pic, scheduler
  <2>6. BootCode'
    BY <1>1, <2>3, <2>4, Running DEF BootCode, Booted, scheduler
  <2>7. Segmented'
    BY <1>1, <1>4, <2>3, TasksAre DEF Segmented, scheduler
  <2>8. InGate("soft")'
    <3>1. cpu'.at = CodeOf("soft") /\ cpu'.stack = << >> /\ cpu'.nt
      BY <1>1, <1>4, <2>1, <2>3, Running, TasksAre DEF Segmented
    <3>2. CodeOf("soft") \in Suffixes("soft")
      BY TasksAre DEF Suffixes
    <3> QED
      BY <3>1, <3>2 DEF InGate
  <2>9. SoftRuns'
    BY <1>1, <2>1, <2>3, <2>4, <2>8 DEF SoftRuns, Busy
  <2>10. PInv'
    BY <2>5, <2>6, <2>7, <2>9 DEF PInv
  <2>11. SameRegisters
    BY <1>4, <2>3, <2>7, SameElsewhere, TasksAre
  <2> QED
    BY <2>3, <2>10, <2>11
<1> QED
  BY <1>3, <1>6, <1>7, <1>8 DEF TimerRuns

----------------------------------------------------------------------------
(* Interrupts.                                                             *)

\* While the timer's line is in service nothing is delivered.
LEMMA TimerShutsOut ==
    ASSUME 0 \in isr, irr \subseteq Devices
    PROVE  Deliverable = {}
<1> SUFFICES ASSUME NEW l \in irr PROVE Blocks(0, l)
  BY DEF Deliverable
<1>1. l \in 0 .. 15
  BY ProcessorAssumption
<1>2. Rank(0) <= Rank(l)
  BY <1>1 DEF Rank
<1> QED
  BY <1>2 DEF Blocks, Slave

\* What may be interrupted: a thread's own code, or the soft interrupt's task
\* before it disables interrupts.
LEMMA Interruptible ==
    ASSUME PInv, boot = "done", cpu.iff
    PROVE  \/ ThreadRuns /\ Own(cpu)
           \/ SoftRuns /\ InGate("soft") /\ cpu.at = CodeOf("soft")
           \/ TimerRuns /\ Deliverable = {}
<1>1. irr \subseteq Devices
  BY DEF PInv, Types
<1> QED
  BY <1>1, TimerShutsOut DEF PInv, ThreadRuns, SoftRuns, TimerRuns, InHandler, HandlerContext, InGate

\* A task gate that is open, from a thread or from the soft interrupt's task.
LEMMA GatePInv ==
    ASSUME PInv, boot = "done", boot' = boot, UNCHANGED <<idt, scheduler>>,
           irr' \subseteq Devices, isr' \subseteq Devices \cup {2}, cpu.iff,
           NEW v \in {32, SOFT_TASK_SW_INT_NUMBER}, TaskGate(v),
           \/ ThreadRuns /\ Own(cpu)
           \/ v = 32 /\ SoftRuns /\ InGate("soft") /\ cpu.at = CodeOf("soft"),
           v = 32 => 0 \in isr'
    PROVE  PInv' /\ SameRegisters /\ UNCHANGED stopped
<1> DEFINE task == IF v = 32 THEN "timer" ELSE "soft"
           segment == IF v = 32 THEN TMR_TSS_SEG ELSE SOFT_TS_TSS_SEG
           entered == [tss[task] EXCEPT !.nt = TRUE]
<1>1. /\ cpu \in Contexts /\ tss \in [Tasks -> Contexts] /\ gdt \in [Segments -> Descriptors]
      /\ link \in [Tasks -> Segments \cup {0}] /\ Segmented
  BY DEF PInv, Types
<1>2. task \in {"timer", "soft"} /\ task \in Tasks /\ segment \in Segments /\ segment # TASK_SW_SEG
      /\ gdt[segment].task = task
  BY TasksAre, SegmentsAre, Running
<1>3. m_IntHandlers(v).segment = segment
  BY DEF m_IntHandlers, SOFT_TASK_SW_INT_NUMBER
<1>4. /\ ~Busy(segment) /\ UNCHANGED stopped
      /\ tss' = [tss EXCEPT ![loaded] = cpu] /\ link' = [link EXCEPT ![task] = tr]
      /\ gdt' = [gdt EXCEPT ![segment] = Descriptor(task, TRUE)]
      /\ tr' = segment /\ loaded' = task /\ cpu' = entered
  BY <1>2, <1>3 DEF TaskGate, Busy, HalWriteTssIntoGdt
<1>5. /\ loaded \in Tasks /\ loaded # task /\ tr \in Segments /\ tr # segment /\ cpu.stack = << >>
      /\ Busy(tr)
  BY Running, SegmentsAre, TasksAre DEF ThreadRuns, SoftRuns, Own, InGate
<1>6. tss[task].at = CodeOf(task) /\ tss[task].stack = << >>
  BY <1>1, <1>2, Running DEF Segmented
<1> HIDE DEF task, segment
<1>7. entered \in Contexts /\ entered.at = CodeOf(task) /\ entered.nt /\ entered.stack = << >>
  <2>1. tss[task] \in Contexts
    BY <1>1, <1>2
  <2> QED
    BY <1>6, <2>1 DEF Contexts
<1> HIDE DEF entered
<1>8. InGate(task)' /\ cpu' \in Contexts
  <2>1. CodeOf(task) \in Suffixes(task)
    BY <1>2, TasksAre DEF Suffixes
  <2> QED
    BY <1>4, <1>7, <2>1 DEF InGate
<1>9. /\ Descriptor(task, TRUE) \in Descriptors /\ Busy(segment)'
      /\ \A s \in Segments \ {segment} : gdt'[s] = gdt[s]
      /\ gdt'[segment].task = task
  BY <1>1, <1>2, <1>4 DEF Descriptor, Descriptors, Busy
<1>10. Types'
  BY <1>1, <1>2, <1>4, <1>5, <1>8, <1>9 DEF PInv, Types, scheduler
<1>11. /\ tss'[loaded] = cpu /\ \A t \in Tasks \ {loaded} : tss'[t] = tss[t]
       /\ link'[task] = tr /\ \A t \in Tasks \ {task} : link'[t] = link[t]
  BY <1>1, <1>2, <1>4, <1>5
<1>12. loaded \in {"timer", "soft"} => cpu.at = CodeOf(loaded)
  BY Running DEF ThreadRuns, SoftRuns
<1>13. BootCode'
  <2>1. /\ gdt'[TMR_TSS_SEG].task = "timer" /\ gdt'[SOFT_TS_TSS_SEG].task = "soft"
        /\ gdt'[TASK_SW_SEG] = gdt[TASK_SW_SEG]
    BY <1>2, <1>9, Running, SegmentsAre DEF task, segment
  <2>2. tss'["timer"].at = CodeOf("timer") /\ tss'["soft"].at = CodeOf("soft")
    BY <1>11, <1>12, Running, TasksAre
  <2> QED
    BY <2>1, <2>2, Running DEF BootCode, Booted, scheduler
<1>14. loaded \in Threads => Waiting(cpu)
  BY TasksAre DEF Waiting, ThreadRuns, SoftRuns
<1>15. Segmented'
  <2>1. \A t \in Tasks : tss'[t].stack = << >>
    BY <1>1, <1>5, <1>11 DEF Segmented
  <2>2. loaded \in Threads => loaded \in ready
    BY Running, TasksAre DEF ThreadRuns, SoftRuns
  <2>3. ASSUME NEW t \in Threads
        PROVE  /\ tss'[t] = Unset \/ Waiting(tss'[t])
               /\ IF t \in ready' THEN Waiting(tss'[t]) ELSE tss'[t].regs = 0
    <3>1. CASE t = loaded
      BY <1>11, <1>14, <2>2, <3>1 DEF scheduler
    <3>2. CASE t # loaded
      <4>1. tss'[t] = tss[t]
        BY <1>11, <3>2, TasksAre
      <4> QED
        BY <1>1, <4>1 DEF Segmented, scheduler
    <3> QED
      BY <3>1, <3>2
  <2> QED
    BY <2>1, <2>3 DEF Segmented
<1>16. ASSUME v = SOFT_TASK_SW_INT_NUMBER PROVE SoftRuns'
  <2>1. /\ task = "soft" /\ segment = SOFT_TS_TSS_SEG /\ ThreadRuns
    BY <1>16 DEF task, segment, SOFT_TASK_SW_INT_NUMBER
  <2>2. link'["soft"] = TASK_SW_SEG /\ ~Busy(TMR_TSS_SEG)'
    BY <1>9, <1>11, <2>1, SegmentsAre DEF ThreadRuns, Busy
  <2> QED
    <3>1. loaded' = "soft" /\ tr' = SOFT_TS_TSS_SEG /\ Busy(SOFT_TS_TSS_SEG)' /\ InGate("soft")'
      BY <1>4, <1>8, <1>9, <2>1
    <3> QED
      BY <2>2, <3>1 DEF SoftRuns
<1>17. ASSUME v = 32 PROVE TimerRuns'
  <2>1. /\ task = "timer" /\ segment = TMR_TSS_SEG
    BY <1>17 DEF task, segment
  <2>0. loaded' = "timer" /\ tr' = TMR_TSS_SEG /\ Busy(TMR_TSS_SEG)' /\ InGate("timer")' /\ 0 \in isr'
    BY <1>4, <1>8, <1>9, <1>17, <2>1
  <2>2. CASE ThreadRuns
    <3>1. link'["timer"] = TASK_SW_SEG /\ ~Busy(SOFT_TS_TSS_SEG)'
      BY <1>9, <1>11, <2>1, <2>2, SegmentsAre DEF ThreadRuns, Busy
    <3> QED
      BY <2>0, <3>1 DEF TimerRuns
  <2>3. CASE SoftRuns /\ InGate("soft")
    <3>1. link'["timer"] = SOFT_TS_TSS_SEG /\ Busy(SOFT_TS_TSS_SEG)'
      BY <1>9, <1>11, <2>1, <2>3, SegmentsAre DEF SoftRuns, Busy
    <3>2. link'["soft"] = TASK_SW_SEG /\ tss'["soft"].nt
      BY <1>11, <2>1, <2>3, TasksAre DEF SoftRuns, InGate
    <3> QED
      BY <2>0, <3>1, <3>2 DEF TimerRuns
  <2> QED
    BY <1>17, <2>2, <2>3
<1>18. PInv'
  BY <1>10, <1>13, <1>15, <1>16, <1>17 DEF PInv
<1>19. SameRegisters
  <2> SUFFICES ASSUME NEW t \in Threads PROVE Registers(t)' = Registers(t)
    BY DEF SameRegisters
  <2>1. loaded' # t
    BY <1>2, <1>4, TasksAre
  <2>2. Registers(t)' = tss'[t].regs
    BY <1>15, <2>1, ElsewhereRegisters
  <2>3. CASE loaded = t
    BY <1>5, <1>11, <2>2, <2>3, ElsewhereRegisters
  <2>4. CASE loaded # t
    BY <1>1, <1>11, <2>2, <2>4, ElsewhereRegisters, TasksAre
  <2> QED
    BY <2>3, <2>4
<1> QED
  BY <1>4, <1>18, <1>19

\* An interrupt gate, under the same conditions.
LEMMA InterruptPInv ==
    ASSUME PInv, boot = "done", boot' = boot, UNCHANGED <<idt, scheduler>>,
           irr' \subseteq Devices, isr' \subseteq Devices \cup {2}, cpu.iff,
           NEW v \in Vectors, Interrupt(v),
           \/ ThreadRuns /\ Own(cpu)
           \/ SoftRuns /\ InGate("soft") /\ cpu.at = CodeOf("soft")
    PROVE  PInv' /\ SameRegisters
<1>1. UNCHANGED <<tables, tss, tr, loaded, stopped>>
  BY DEF Interrupt, tables
<1>2. cpu \in Contexts /\ Segmented
  BY DEF PInv, Types
<1>3. CASE ThreadRuns /\ Own(cpu)
  <2>1. PICK r \in 0 .. (Rounds - 1) : cpu.regs = r
    BY <1>3 DEF Own
  <2>2. cpu.at = << >> /\ cpu.nt = FALSE /\ cpu.stack = << >>
    BY <1>3 DEF Own
  <2>3. InHandler(<< >>, FALSE, r)' /\ cpu' \in Contexts
    BY <1>2, <2>1, <2>2, HandlerBegins
  <2>4. ThreadRuns'
    BY <1>1, <1>3, <2>3 DEF ThreadRuns, Busy, tables, scheduler
  <2>5. PInv'
    BY <1>1, <2>3, <2>4, CpuChanges
  <2>6. SameRegisters
    <3> SUFFICES ASSUME NEW t \in Threads PROVE Registers(t)' = Registers(t)
      BY DEF SameRegisters
    <3>1. Segmented' /\ r \in Values
      BY <2>5, Numbers DEF PInv
    <3>2. CASE loaded = t
      <4>1. loaded' = t
        BY <1>1, <3>2
      <4>2. Registers(t) = r
        BY <2>1, <2>2, <3>2, ElsewhereRegisters
      <4>3. Registers(t)' = r
        BY <2>3, <3>1, <4>1, ElsewhereRegisters
      <4> QED
        BY <4>2, <4>3
    <3>3. CASE loaded # t
      BY <1>1, <1>2, <3>1, <3>3, ElsewhereRegisters
    <3> QED
      BY <3>2, <3>3
  <2> QED
    BY <2>5, <2>6
<1>4. CASE SoftRuns /\ InGate("soft") /\ cpu.at = CodeOf("soft")
  <2>1. PICK r \in Values : cpu.regs = r
    BY <1>2, TypesOfContexts
  <2>2. cpu.at = PspSoftTaskSW /\ cpu.nt = TRUE /\ cpu.stack = << >>
    BY <1>2, <1>4, TasksAre, TypesOfContexts DEF InGate
  <2>3. InHandler(PspSoftTaskSW, TRUE, r)' /\ cpu' \in Contexts
    BY <1>2, <2>1, <2>2, HandlerBegins
  <2>4. SoftRuns'
    BY <1>1, <1>4, <2>3 DEF SoftRuns, Busy, tables
  <2>5. PInv'
    BY <1>1, <2>3, <2>4, CpuChanges
  <2>6. Segmented' /\ loaded \notin Threads /\ loaded' \notin Threads
    BY <1>1, <1>4, <2>5, TasksAre DEF PInv, SoftRuns
  <2> QED
    BY <1>1, <1>2, <2>5, <2>6, SameElsewhere
<1> QED
  BY <1>3, <1>4

LEMMA EnterPInv ==
    ASSUME PInv, boot = "done", boot' = boot, UNCHANGED scheduler,
           irr' \subseteq Devices, isr' \subseteq Devices \cup {2}, cpu.iff,
           NEW v, Enter(v), v = 32 => 0 \in isr',
           \/ ThreadRuns /\ Own(cpu)
           \/ v # SOFT_TASK_SW_INT_NUMBER /\ SoftRuns /\ InGate("soft") /\ cpu.at = CodeOf("soft")
    PROVE  PInv' /\ SameRegisters /\ (v \in Vectors => UNCHANGED stopped)
<1>1. idt = Vectors /\ UNCHANGED idt /\ Segmented /\ cpu \in Contexts
  BY Running DEF Enter, PInv
<1>2. CASE Interrupt(v)
  <2>1. v \in Vectors /\ UNCHANGED stopped
    BY <1>1, <1>2 DEF Interrupt
  <2> QED
    BY <1>1, <1>2, <2>1, InterruptPInv
<1>3. CASE TaskGate(v)
  <2>1. v \in {32, SOFT_TASK_SW_INT_NUMBER}
    BY <1>1, <1>3, Table DEF TaskGate
  <2>2. \/ ThreadRuns /\ Own(cpu)
        \/ v = 32 /\ SoftRuns /\ InGate("soft") /\ cpu.at = CodeOf("soft")
    BY <2>1
  <2> QED
    BY <1>1, <1>3, <2>1, <2>2, GatePInv
<1>4. CASE NoWay(v)
  <2>1. UNCHANGED <<tables, tss, tr, loaded, cpu>>
    BY <1>1, <1>4 DEF NoWay, tables
  <2>2. v \notin Vectors
    <3> SUFFICES ASSUME v \in Vectors PROVE FALSE
      OBVIOUS
    <3>1. m_IntHandlers(v).task /\ gdt[m_IntHandlers(v).segment].busy
      BY <1>1, <1>4 DEF NoWay
    <3>2. CASE v = 32
      BY <3>1, <3>2, Table DEF ThreadRuns, SoftRuns, Busy
    <3>3. CASE v = SOFT_TASK_SW_INT_NUMBER
      BY <3>1, <3>3, Table DEF ThreadRuns, Busy
    <3> QED
      BY <3>1, <3>2, <3>3, Table
  <2>3. (ThreadRuns \/ SoftRuns)'
    BY <2>1 DEF ThreadRuns, SoftRuns, Own, InHandler, InGate, Busy, tables, scheduler
  <2>4. PInv'
    BY <1>1, <2>1, <2>3, CpuChanges
  <2>5. SameRegisters
    BY <2>1 DEF SameRegisters, Registers, Held
  <2> QED
    BY <2>2, <2>4, <2>5
<1> QED
  BY <1>2, <1>3, <1>4 DEF Enter

LEMMA AcknowledgePInv ==
    ASSUME PInv, Acknowledge
    PROVE  PInv' /\ SameRegisters /\ (DevicesHaveGates => UNCHANGED stopped)
<1>1. boot = "done" /\ boot' = boot /\ cpu.iff /\ Deliverable # {} /\ UNCHANGED <<requests, scheduler>>
  BY DEF Acknowledge, Interrupted
<1>2. PICK l \in Deliverable :
        /\ irr' = irr \ {l} /\ isr' = isr \cup {l} \cup (IF Slave(l) THEN {2} ELSE {})
        /\ Enter(32 + l)
  BY DEF Acknowledge
<1>3. l \in Devices /\ l \in 0 .. 15
  BY ProcessorAssumption DEF PInv, Types, Deliverable
<1>4. irr' \subseteq Devices /\ isr' \subseteq Devices \cup {2} /\ (32 + l = 32 => 0 \in isr')
  BY <1>2, <1>3 DEF PInv, Types
<1>5. 32 + l # SOFT_TASK_SW_INT_NUMBER
  BY <1>3 DEF SOFT_TASK_SW_INT_NUMBER
<1>6. \/ ThreadRuns /\ Own(cpu)
      \/ SoftRuns /\ InGate("soft") /\ cpu.at = CodeOf("soft")
  BY <1>1, Interruptible
<1>7. DevicesHaveGates => 32 + l \in Vectors
  <2> SUFFICES ASSUME DevicesHaveGates PROVE 32 + l \in Vectors
    OBVIOUS
  <2>1. l \in (0 .. 9) \cup (12 .. 14)
    BY <1>3 DEF DevicesHaveGates
  <2> QED
    BY <2>1 DEF Vectors
<1> QED
  BY <1>1, <1>2, <1>4, <1>5, <1>6, <1>7, EnterPInv

----------------------------------------------------------------------------
(* The threads.                                                            *)

LEMMA OwnCodeRuns ==
    ASSUME PInv, OwnCode
    PROVE  /\ boot = "done" /\ boot' = boot
           /\ ThreadRuns /\ Own(cpu) /\ loaded = pt_current_thread /\ cpu \in Contexts
           /\ irr \subseteq Devices /\ isr \subseteq Devices \cup {2} /\ Segmented
<1>1. /\ boot = "done" /\ boot' = boot /\ loaded \in Threads /\ cpu.at = << >>
      /\ irr \subseteq Devices /\ isr \subseteq Devices \cup {2} /\ cpu \in Contexts
  BY DEF OwnCode, PInv, Types
<1>2. ThreadRuns
  BY <1>1, TasksAre DEF PInv, SoftRuns, TimerRuns
<1>3. ~ \E r \in Values : InHandler(<< >>, FALSE, r)
  BY <1>1, OutsideCode, InsideCode DEF InHandler, HandlerContext
<1> QED
  BY <1>1, <1>2, <1>3, Numbers DEF ThreadRuns, PInv

LEMMA InstructionPInv ==
    ASSUME PInv, Instruction
    PROVE  /\ PInv'
           /\ Registers(pt_current_thread)' = (Registers(pt_current_thread) + 1) % Rounds
           /\ \A t \in Threads \ {pt_current_thread} : Registers(t)' = Registers(t)
<1>1. OwnCode /\ UNCHANGED <<tables, tss, tr, loaded, irr, isr, scheduler, stopped>>
  BY DEF Instruction
<1>2. /\ boot = "done" /\ boot' = boot
      /\ ThreadRuns /\ Own(cpu) /\ loaded = pt_current_thread /\ cpu \in Contexts
      /\ irr \subseteq Devices /\ isr \subseteq Devices \cup {2} /\ Segmented
  BY <1>1, OwnCodeRuns
<1>3. (cpu.regs + 1) % Rounds \in 0 .. (Rounds - 1)
  BY <1>2, ProcessorAssumption DEF Own
<1> DEFINE n == (cpu.regs + 1) % Rounds
<1>4. cpu' = [cpu EXCEPT !.regs = n]
  BY <1>2 DEF Instruction, Contexts
<1> HIDE DEF n
<1>5. n \in 0 .. (Rounds - 1) /\ n \in Values
  BY <1>3, Numbers DEF n
<1>6. /\ cpu' \in Contexts /\ cpu'.regs = n /\ cpu'.at = cpu.at /\ cpu'.nt = cpu.nt
      /\ cpu'.stack = cpu.stack
  BY <1>2, <1>4, <1>5 DEF Contexts
<1>7. Own(cpu)'
  BY <1>2, <1>5, <1>6 DEF Own
<1>8. ThreadRuns'
  BY <1>1, <1>2, <1>7 DEF ThreadRuns, Busy, tables, scheduler
<1>9. PInv'
  BY <1>1, <1>2, <1>6, <1>8, CpuChanges
<1>10. pt_current_thread \in Threads /\ UNCHANGED <<pt_current_thread, loaded, tss>>
  BY <1>1, <1>2, Running DEF scheduler
<1>11. Registers(pt_current_thread) = cpu.regs
  BY <1>2, <1>10, ElsewhereRegisters DEF Own
<1>12. Registers(pt_current_thread)' = n
  <2>1. pt_current_thread' = pt_current_thread /\ loaded' = pt_current_thread /\ cpu'.stack = << >>
    BY <1>2, <1>6, <1>10 DEF Own
  <2>2. \A t \in Threads : loaded' = t => Registers(t)' = n
    BY <1>6, <2>1, ElsewhereRegisters
  <2> QED
    BY <1>10, <2>1, <2>2 DEF Registers, Held
<1>13. ASSUME NEW t \in Threads \ {pt_current_thread} PROVE Registers(t)' = Registers(t)
  BY <1>2, <1>9, <1>10, ElsewhereRegisters DEF PInv
<1> QED
  BY <1>9, <1>11, <1>12, <1>13 DEF n

LEMMA CriticalPInv ==
    ASSUME PInv, EnterCritical \/ ExitCritical
    PROVE  PInv' /\ SameRegisters
<1>1. OwnCode /\ UNCHANGED <<tables, tss, tr, loaded, pic, scheduler, stopped>>
  BY DEF EnterCritical, ExitCritical
<1>2. /\ boot = "done" /\ boot' = boot
      /\ ThreadRuns /\ Own(cpu) /\ loaded = pt_current_thread /\ cpu \in Contexts
      /\ irr \subseteq Devices /\ isr \subseteq Devices \cup {2} /\ Segmented
  BY <1>1, OwnCodeRuns
<1>3. PICK iff \in BOOLEAN : cpu' = [cpu EXCEPT !.iff = iff]
  BY DEF EnterCritical, ExitCritical
<1>4. /\ cpu' \in Contexts /\ cpu'.regs = cpu.regs /\ cpu'.at = cpu.at /\ cpu'.nt = cpu.nt
      /\ cpu'.stack = cpu.stack
  BY <1>2, <1>3 DEF Contexts
<1>5. Own(cpu)'
  BY <1>2, <1>4 DEF Own
<1>6. ThreadRuns'
  BY <1>1, <1>2, <1>5 DEF ThreadRuns, Busy, tables, scheduler
<1>7. PInv'
  BY <1>1, <1>2, <1>4, <1>6, CpuChanges DEF pic
<1>8. SameRegisters
  <2> SUFFICES ASSUME NEW t \in Threads PROVE Registers(t)' = Registers(t)
    BY DEF SameRegisters
  <2>1. CASE loaded = t
    BY <1>1, <1>2, <1>4, <2>1, ElsewhereRegisters DEF Own
  <2>2. CASE loaded # t
    BY <1>1, <1>2, <1>7, <2>2, ElsewhereRegisters DEF PInv
  <2> QED
    BY <2>1, <2>2
<1> QED
  BY <1>7, <1>8

LEMMA TrapPInv ==
    ASSUME PInv, HalTaskSwitch \/ \E v \in Exceptions : Raise(v)
    PROVE  PInv' /\ SameRegisters /\ UNCHANGED stopped
<1>1. OwnCode /\ cpu.iff /\ UNCHANGED <<pic, scheduler>>
  BY DEF HalTaskSwitch, Raise
<1>2. PICK v \in Vectors : Enter(v) /\ v # 32
  <2>1. SOFT_TASK_SW_INT_NUMBER \in Vectors /\ SOFT_TASK_SW_INT_NUMBER # 32
    BY DEF Vectors, SOFT_TASK_SW_INT_NUMBER
  <2>2. \A v \in Exceptions : v \in Vectors /\ v # 32
    BY ProcessorAssumption DEF Vectors
  <2> QED
    BY <2>1, <2>2 DEF HalTaskSwitch, Raise
<1>3. /\ boot = "done" /\ boot' = boot /\ ThreadRuns /\ Own(cpu)
      /\ irr' \subseteq Devices /\ isr' \subseteq Devices \cup {2}
  BY <1>1, OwnCodeRuns DEF pic
<1> QED
  BY <1>1, <1>2, <1>3, EnterPInv

\* Threads are created and made READY by the boot code, or by one another.
LEMMA MayCreateRuns ==
    ASSUME PInv, MayCreate
    PROVE  /\ boot \in {"rest", "done"} /\ boot' = boot /\ Booted({}) /\ cpu.nt = FALSE
           /\ loaded \in Threads => loaded \in ready
           /\ gdt[TASK_SW_SEG] = Descriptor(pt_current_thread, TRUE)
           /\ Idle \in ready /\ pt_current_thread \in ready
<1>1. CASE boot = "rest" /\ boot' = boot
  <2>1. cpu = Context(<< >>, FALSE, FALSE) /\ loaded \notin Threads
    BY <1>1, TasksAre DEF PInv, BootCode
  <2>2. cpu.nt = FALSE
    BY <2>1 DEF Context
  <2>3. /\ gdt[TASK_SW_SEG] = Descriptor(pt_current_thread, TRUE)
        /\ Idle \in ready /\ pt_current_thread \in ready
    BY <1>1 DEF PInv, BootCode, Booted
  <2> QED
    BY <1>1, <2>1, <2>2, <2>3 DEF Booted
<1>2. CASE OwnCode
  <2>1. boot = "done" /\ boot' = boot /\ Own(cpu) /\ loaded = pt_current_thread /\ cpu \in Contexts
    BY <1>2, OwnCodeRuns
  <2>2. cpu.nt = FALSE
    BY <2>1, TypesOfContexts DEF Own
  <2> QED
    BY <2>1, <2>2, Running DEF Booted
<1> QED
  BY <1>1, <1>2 DEF MayCreate

LEMMA CreatePInv ==
    ASSUME PInv, NEW t \in Threads, PsCreateThread(t)
    PROVE  PInv' /\ SameRegisters
<1>1. /\ MayCreate /\ tss[t] = Unset /\ tss' = [tss EXCEPT ![t] = FirstContext(t)]
      /\ gdt' = [gdt EXCEPT ![TASK_SW_SEG].busy = TRUE]
      /\ UNCHANGED <<idt, link, tr, loaded, cpu, pic, scheduler, stopped>>
  BY DEF PsCreateThread, HalSetupTSS, HalChangeTssBusyBit
<1>2. /\ boot \in {"rest", "done"} /\ boot' = boot /\ Booted({}) /\ cpu.nt = FALSE
      /\ loaded \in Threads => loaded \in ready
      /\ gdt[TASK_SW_SEG] = Descriptor(pt_current_thread, TRUE)
      /\ Idle \in ready /\ pt_current_thread \in ready
  BY <1>1, MayCreateRuns
<1>3. /\ FirstContext(t) \in Contexts /\ FirstContext(t).stack = << >>
      /\ FirstContext(t).regs = 0 /\ Waiting(FirstContext(t))
  BY <1>2, FirstOfThread
<1>4. gdt' = gdt
  <2>1. gdt \in [Segments -> Descriptors]
    BY DEF PInv, Types
  <2> QED
    BY <1>1, <1>2, <2>1, SegmentsAre DEF Descriptor, Descriptors
<1>5. /\ tss' \in [Tasks -> Contexts] /\ tss'[t] = FirstContext(t)
      /\ \A u \in Tasks \ {t} : tss'[u] = tss[u]
  BY <1>1, <1>3, TasksAre DEF PInv, Types
<1>6. t \notin ready /\ t # loaded /\ t \in Tasks
  BY <1>1, <1>2, UnsetContext, TasksAre DEF PInv, Segmented
<1>7. Types'
  BY <1>1, <1>2, <1>4, <1>5 DEF PInv, Types, pic, scheduler
<1>8. BootCode'
  <2>1. tss'["timer"] = tss["timer"] /\ tss'["soft"] = tss["soft"]
    BY <1>5, TasksAre
  <2> QED
    BY <1>1, <1>2, <1>4, <2>1 DEF PInv, BootCode, Booted, Busy, scheduler
<1>9. Segmented'
  <2>1. \A u \in Tasks : tss'[u].stack = << >>
    BY <1>3, <1>5 DEF PInv, Segmented
  <2>2. ASSUME NEW u \in Threads
        PROVE  /\ tss'[u] = Unset \/ Waiting(tss'[u])
               /\ IF u \in ready' THEN Waiting(tss'[u]) ELSE tss'[u].regs = 0
    <3>1. CASE u = t
      BY <1>1, <1>3, <1>5, <1>6, <3>1
    <3>2. CASE u # t
      <4>1. tss'[u] = tss[u]
        BY <1>5, <3>2, TasksAre
      <4> QED
        BY <1>1, <4>1 DEF PInv, Segmented, scheduler
    <3> QED
      BY <3>1, <3>2
  <2> QED
    BY <2>1, <2>2 DEF Segmented
<1>10. boot = "done" => (ThreadRuns \/ SoftRuns \/ TimerRuns)'
  <2>1. tss'["soft"] = tss["soft"]
    BY <1>5, TasksAre
  <2> QED
    BY <1>1, <1>4, <2>1
    DEF PInv, ThreadRuns, SoftRuns, TimerRuns, Own, InHandler, InGate, Busy, pic, scheduler
<1>11. PInv'
  BY <1>2, <1>7, <1>8, <1>9, <1>10 DEF PInv
<1>12. SameRegisters
  <2> SUFFICES ASSUME NEW u \in Threads PROVE Registers(u)' = Registers(u)
    BY DEF SameRegisters
  <2>1. CASE u = t
    <3>1. Registers(u) = 0
      BY <1>1, <1>6, <2>1, ElsewhereRegisters, UnsetContext DEF PInv
    <3>2. Registers(u)' = 0
      BY <1>1, <1>3, <1>5, <1>6, <1>9, <2>1, ElsewhereRegisters
    <3> QED
      BY <3>1, <3>2
  <2>2. CASE u # t
    <3>1. tss'[u] = tss[u]
      BY <1>5, <2>2, TasksAre
    <3>2. Held(u)' = Held(u)
      BY <1>1, <3>1 DEF Held
    <3> QED
      BY <3>2, RegistersAre
  <2> QED
    BY <2>1, <2>2
<1> QED
  BY <1>11, <1>12

LEMMA ReadyPInv ==
    ASSUME PInv, NEW t \in Threads, PsSetThreadStatus(t)
    PROVE  PInv' /\ SameRegisters /\ Registers(t) = 0 /\ UNCHANGED pt_current_thread
           /\ ready' = ready \cup {t} /\ Idle \in ready
<1>1. /\ MayCreate /\ tss[t] # Unset /\ t \notin ready /\ ready' = ready \cup {t}
      /\ UNCHANGED <<tables, tss, tr, loaded, cpu, pic, pt_current_thread, stopped>>
  BY DEF PsSetThreadStatus
<1>2. /\ boot \in {"rest", "done"} /\ boot' = boot /\ Booted({})
      /\ loaded \in Threads => loaded \in ready
      /\ Idle \in ready /\ pt_current_thread \in ready
  BY <1>1, MayCreateRuns
<1>3. Types'
  BY <1>1, <1>2 DEF PInv, Types, tables, pic
<1>4. BootCode'
  BY <1>1, <1>2 DEF PInv, BootCode, Booted, Busy, tables
<1>5. Segmented'
  BY <1>1 DEF PInv, Segmented
<1>6. boot = "done" => (ThreadRuns \/ SoftRuns \/ TimerRuns)'
  BY <1>1 DEF PInv, ThreadRuns, SoftRuns, TimerRuns, Own, InHandler, InGate, Busy, pic, tables
<1>7. PInv'
  BY <1>2, <1>3, <1>4, <1>5, <1>6 DEF PInv
<1>8. SameRegisters
  BY <1>1 DEF SameRegisters, Registers, Held
<1>9. Registers(t) = 0
  BY <1>1, <1>2, ElsewhereRegisters DEF PInv, Segmented
<1> QED
  BY <1>1, <1>2, <1>7, <1>8, <1>9

\* Steps that leave all but the controllers, or why the processor stopped, alone.
LEMMA AsidePInv ==
    ASSUME PInv, Hang \/ (\E l \in Devices : Request(l)) \/ UNCHANGED vars
    PROVE  PInv' /\ SameRegisters /\ UNCHANGED scheduler
<1>1. UNCHANGED <<boot, tables, tss, tr, loaded, cpu, isr, scheduler>>
  BY DEF Hang, Executes, Request, vars, pic
<1>2. irr' \subseteq Devices
  BY DEF PInv, Types, Hang, Request, vars, pic
<1>3. Types'
  BY <1>1, <1>2 DEF PInv, Types, tables, scheduler
<1>4. BootCode'
  BY <1>1 DEF PInv, BootCode, Booted, Busy, tables, scheduler
<1>5. Segmented'
  BY <1>1 DEF PInv, Segmented, scheduler
<1>6. boot = "done" => (ThreadRuns \/ SoftRuns \/ TimerRuns)'
  BY <1>1 DEF PInv, ThreadRuns, SoftRuns, TimerRuns, Own, InHandler, InGate, Busy, tables, scheduler
<1>7. PInv'
  BY <1>1, <1>3, <1>4, <1>5, <1>6 DEF PInv
<1>8. SameRegisters
  BY <1>1 DEF SameRegisters, Registers, Held
<1> QED
  BY <1>1, <1>7, <1>8

----------------------------------------------------------------------------
(* The theorems.                                                           *)

LEMMA BootRegisters ==
    ASSUME PInv, PInv',
           \/ HalpEnableA20 \/ HalpInitPIC \/ HalpStartIntService \/ InitTask
           \/ PsCreateIntThread("timer", "soft", "timer", TMR_TSS_SEG)
           \/ PsCreateIntThread("soft", "idle", "soft", SOFT_TS_TSS_SEG)
    PROVE  SameRegisters /\ UNCHANGED scheduler
<1>1. boot # "done" /\ boot' # "done" /\ UNCHANGED scheduler
  BY DEF HalpEnableA20, HalpInitPIC, HalpStartIntService, InitTask, PsCreateIntThread, Booting
<1>2. loaded \notin Threads /\ loaded' \notin Threads /\ Segmented /\ Segmented'
  BY <1>1, TasksAre DEF PInv, BootCode
<1>3. \A t \in Threads : tss'[t] = tss[t]
  BY TasksAre DEF PInv, Types, HalpEnableA20, HalpInitPIC, HalpStartIntService, InitTask,
                  PsCreateIntThread, HalSetupTSS
<1> QED
  BY <1>1, <1>2, <1>3, SameElsewhere

LEMMA IdleRegisters ==
    ASSUME PInv, PInv', IdleThread
    PROVE  SameRegisters /\ UNCHANGED pt_current_thread /\ ready \cup {Idle} = ready' \cup {Idle}
<1>1. boot = "idle" /\ boot' = "rest" /\ ready' = {Idle} /\ pt_current_thread' = Idle
  BY DEF IdleThread, Booting
<1>2. /\ loaded \notin Threads /\ loaded' \notin Threads /\ Segmented /\ Segmented'
      /\ ready = {} /\ pt_current_thread = Idle /\ tss[Idle] = Unset
      /\ cpu = Context(<< >>, FALSE, FALSE)
  BY <1>1, TasksAre DEF PInv, BootCode, Booted
<1>3. tss' = [tss EXCEPT ![Idle] = FirstContext(Idle)] /\ cpu.nt = FALSE /\ tss \in [Tasks -> Contexts]
  BY <1>2 DEF IdleThread, HalSetupTSS, Context, PInv, Types
<1>4. SameRegisters
  <2> SUFFICES ASSUME NEW t \in Threads PROVE Registers(t)' = Registers(t)
    BY DEF SameRegisters
  <2>1. Registers(t) = tss[t].regs /\ Registers(t)' = tss'[t].regs
    BY <1>2, ElsewhereRegisters
  <2>2. CASE t = Idle
    BY <1>2, <1>3, <2>1, <2>2, FirstOfThread, UnsetContext, TasksAre
  <2>3. CASE t # Idle
    BY <1>3, <2>1, <2>3, TasksAre
  <2> QED
    BY <2>2, <2>3
<1> QED
  BY <1>1, <1>2, <1>4

LEMMA FirstSwitchRegisters ==
    ASSUME PInv, FirstSwitch
    PROVE  SameRegisters
<1>1. /\ PInv' /\ loaded = "init" /\ loaded' = pt_current_thread /\ Own(cpu)'
      /\ \A t \in Threads : tss'[t] = tss[t]
      /\ cpu' = tss[pt_current_thread]
  BY FirstSwitchPInv
<1> SUFFICES ASSUME NEW t \in Threads PROVE Registers(t)' = Registers(t)
  BY DEF SameRegisters
<1>2. Registers(t) = tss[t].regs
  BY <1>1, TasksAre, ElsewhereRegisters DEF PInv
<1>3. CASE loaded' = t
  <2>1. cpu' = tss[t] /\ cpu'.stack = << >>
    BY <1>1, <1>3 DEF Own
  <2> QED
    BY <1>2, <1>3, <2>1, ElsewhereRegisters
<1>4. CASE loaded' # t
  BY <1>1, <1>2, <1>4, ElsewhereRegisters DEF PInv
<1> QED
  BY <1>3, <1>4

LEMMA StepPInv ==
    ASSUME PInv, [Next]_vars
    PROVE  PInv'
<1>1. CASE KrnInitializeKernel
  BY <1>1, FirstStepsPInv, InitTaskPInv, IntThreadPInv, IdleThreadPInv, FirstSwitchPInv
  DEF KrnInitializeKernel
<1>2. CASE Acknowledge
  BY <1>2, AcknowledgePInv
<1>3. CASE Handler
  BY <1>3, HandlerPInv, SwitchPInv, ReturnPInv, GateReturnPInv, AsidePInv DEF Handler
<1>4. CASE Instruction \/ EnterCritical \/ ExitCritical
  BY <1>4, InstructionPInv, CriticalPInv
<1>5. CASE HalTaskSwitch \/ \E v \in Exceptions : Raise(v)
  BY <1>5, TrapPInv
<1>6. CASE \E t \in Threads : PsCreateThread(t) \/ PsSetThreadStatus(t)
  BY <1>6, CreatePInv, ReadyPInv
<1>7. CASE (\E l \in Devices : Request(l)) \/ Stopped \/ UNCHANGED vars
  BY <1>7, AsidePInv DEF Stopped
<1> QED
  BY <1>1, <1>2, <1>3, <1>4, <1>5, <1>6, <1>7 DEF Next

\* What runs on what, at every moment of every execution: the busy bits and the
\* back links name exactly the tasks that lie under the one that runs.
THEOREM PInvHolds == Spec => []PInv
<1>1. Init => PInv
  BY InitPInv
<1>2. PInv /\ [Next]_vars => PInv'
  BY StepPInv
<1> QED
  BY <1>1, <1>2, PTL DEF Spec

LEMMA TypeOKHolds ==
    ASSUME PInv
    PROVE  TypeOK
<1>1. \A c \in Contexts : /\ \A i \in 1 .. Len(c.at) : c.at[i] \in Instructions
                          /\ c.regs \in -1 .. (Rounds - 1) /\ c.iff \in BOOLEAN /\ c.nt \in BOOLEAN
  BY ElementOfSeq DEF Contexts, Values
<1>2. \A t \in Tasks : tss[t] \in Contexts /\ tss[t].stack = << >>
  BY DEF PInv, Types, Segmented
<1>3. ASSUME NEW at \in Seq(Instructions), NEW nt \in BOOLEAN, NEW r \in Values, InHandler(at, nt, r)
      PROVE  Len(cpu.stack) <= 3
  BY <1>3, FramesAre, SavedAre DEF InHandler, HandlerContext
<1>4. << >> \in Seq(Instructions) /\ PspSoftTaskSW \in Seq(Instructions)
  BY DEF PspSoftTaskSW, Instructions
<1>5. cpu \in Contexts /\ Len(cpu.stack) <= 3
  <2>1. cpu \in Contexts
    BY DEF PInv, Types
  <2>2. cpu.stack = << >> => Len(cpu.stack) <= 3
    OBVIOUS
  <2>3. CASE boot # "done"
    <3>1. cpu.stack = << >>
      BY <2>3 DEF PInv, BootCode, Context
    <3> QED
      BY <2>1, <2>2, <3>1
  <2>4. CASE boot = "done"
    <3>1. \/ cpu.stack = << >>
          \/ \E r \in Values : InHandler(<< >>, FALSE, r) \/ InHandler(PspSoftTaskSW, TRUE, r)
      BY <2>4, Numbers DEF PInv, ThreadRuns, SoftRuns, TimerRuns, Own, InGate
    <3> QED
      BY <1>3, <1>4, <2>1, <2>2, <3>1
  <2> QED
    BY <2>3, <2>4
<1>6. \A c \in {cpu} \cup {tss[t] : t \in Tasks} : c \in Contexts /\ Len(c.stack) <= 3
  BY <1>2, <1>5
<1> QED
  BY <1>1, <1>6 DEF PInv, Types, TypeOK, Descriptors

\* No gate is missing or busy when it is needed, and no nested return finds its
\* back link leading to a task that is not waiting, for any threads, exceptions
\* and devices whose lines the interrupt table knows: the busy bits of
\* hal.c:126-152 and the links of process.c:560-590 are in step.
THEOREM GatesCorrect ==
    ASSUME DevicesHaveGates
    PROVE  Spec => []GatesOpen
<1> DEFINE Open == stopped \notin {"no gate", "back link"}
<1>1. Init => Open
  BY DEF Init
<1>2. PInv /\ Open /\ [Next]_vars => Open'
  <2> SUFFICES ASSUME PInv, Open, [Next]_vars PROVE Open'
    OBVIOUS
  <2>1. CASE KrnInitializeKernel
    <3>1. CASE FirstSwitch
      BY <3>1, FirstSwitchPInv
    <3>2. CASE ~FirstSwitch
      BY <2>1, <3>2 DEF KrnInitializeKernel, HalpEnableA20, HalpInitPIC, HalpStartIntService, InitTask,
                        PsCreateIntThread, IdleThread, Booting
    <3> QED
      BY <3>1, <3>2
  <2>2. CASE Acknowledge
    BY <2>2, AcknowledgePInv
  <2>3. CASE Handler
    <3>1. CASE GateReturn
      BY <3>1, GateReturnPInv
    <3>2. CASE ~GateReturn
      BY <2>3, <3>2 DEF Handler, Cli, Pushad, Call, Popad, EndOfInterrupt, PspSetupTaskSWEnv, Return, Hang
    <3> QED
      BY <3>1, <3>2
  <2>4. CASE Instruction \/ EnterCritical \/ ExitCritical
    BY <2>4 DEF Instruction, EnterCritical, ExitCritical
  <2>5. CASE HalTaskSwitch \/ \E v \in Exceptions : Raise(v)
    BY <2>5, TrapPInv
  <2>6. CASE \E t \in Threads : PsCreateThread(t) \/ PsSetThreadStatus(t)
    BY <2>6 DEF PsCreateThread, PsSetThreadStatus
  <2>7. CASE (\E l \in Devices : Request(l)) \/ Stopped \/ UNCHANGED vars
    BY <2>7 DEF Request, Stopped, vars
  <2> QED
    BY <2>1, <2>2, <2>3, <2>4, <2>5, <2>6, <2>7 DEF Next
<1>3. PInv /\ Open => GatesOpen
  BY TypeOKHolds DEF GatesOpen
<1> HIDE DEF Open
<1> QED
  BY <1>1, <1>2, <1>3, PInvHolds, PTL DEF Spec

\* To each thread it is a processor of its own: whatever interrupts it, and
\* whatever runs in between, it goes on with the registers it had, for any
\* threads, devices and exceptions.
THEOREM SharingCorrect == Spec => SharingSpec
<1>1. ASSUME SameRegisters, UNCHANGED pt_current_thread, ready \cup {Idle} = ready' \cup {Idle}
      PROVE  UNCHANGED Sharing!sharing
  BY <1>1 DEF SameRegisters, Sharing!sharing
<1>2. Init => Sharing!Init
  <2> SUFFICES ASSUME Init PROVE Sharing!Init
    OBVIOUS
  <2>1. Segmented /\ loaded \notin Threads /\ \A t \in Threads : tss[t] = Unset
    BY InitPInv, TasksAre DEF PInv, Init
  <2>2. \A t \in Threads : Registers(t) = 0
    BY <2>1, ElsewhereRegisters, UnsetContext
  <2> QED
    BY <2>2 DEF Init, Sharing!Init
<1>3. PInv /\ PInv' /\ [Next]_vars => [Sharing!Next]_(Sharing!sharing)
  <2> SUFFICES ASSUME PInv, PInv', [Next]_vars PROVE [Sharing!Next]_(Sharing!sharing)
    OBVIOUS
  <2>1. CASE KrnInitializeKernel
    BY <1>1, <2>1, BootRegisters, IdleRegisters, FirstSwitchRegisters
    DEF KrnInitializeKernel, FirstSwitch, scheduler
  <2>2. CASE Acknowledge
    BY <1>1, <2>2, AcknowledgePInv DEF Acknowledge, scheduler
  <2>3. CASE Handler
    <3>1. CASE PspSetupTaskSWEnv
      <4>1. SameRegisters /\ UNCHANGED ready
        BY <3>1, SwitchPInv DEF PspSetupTaskSWEnv
      <4>2. PICK next \in ready : pt_current_thread' = next
        BY <3>1 DEF PspSetupTaskSWEnv
      <4>3. next \in Threads
        BY DEF PInv, Types
      <4> QED
        BY <4>1, <4>2, <4>3 DEF SameRegisters, Sharing!Next, Sharing!Switch
    <3>2. CASE ~PspSetupTaskSWEnv
      <4>1. SameRegisters
        BY <2>3, <3>2, HandlerPInv, ReturnPInv, GateReturnPInv, AsidePInv DEF Handler
      <4>2. UNCHANGED scheduler
        BY <2>3, <3>2 DEF Handler, Cli, Pushad, Call, Popad, EndOfInterrupt, Return, GateReturn, Hang
      <4> QED
        BY <1>1, <4>1, <4>2 DEF scheduler
    <3> QED
      BY <3>1, <3>2
  <2>4. CASE Instruction
    <3>1. /\ Registers(pt_current_thread)' = (Registers(pt_current_thread) + 1) % Rounds
          /\ \A t \in Threads \ {pt_current_thread} : Registers(t)' = Registers(t)
          /\ UNCHANGED scheduler /\ pt_current_thread \in Threads
      BY <2>4, InstructionPInv DEF Instruction, PInv, Types
    <3>2. \A t \in Threads : Registers(t)' = IF t = pt_current_thread THEN (Registers(t) + 1) % Rounds
                                             ELSE Registers(t)
      <4> TAKE t \in Threads
      <4>1. CASE t = pt_current_thread
        <5>1. Registers(t)' = Registers(pt_current_thread)'
          BY <3>1, <4>1 DEF Registers, Held, scheduler
        <5> QED
          BY <3>1, <4>1, <5>1
      <4>2. CASE t # pt_current_thread
        BY <3>1, <4>2
      <4> QED
        BY <4>1, <4>2
    <3>3. Sharing!Step
      BY <3>1, <3>2 DEF Sharing!Step, scheduler
    <3> QED
      BY <3>3 DEF Sharing!Next
  <2>5. CASE EnterCritical \/ ExitCritical
    BY <1>1, <2>5, CriticalPInv DEF EnterCritical, ExitCritical, scheduler
  <2>6. CASE HalTaskSwitch \/ \E v \in Exceptions : Raise(v)
    BY <1>1, <2>6, TrapPInv DEF HalTaskSwitch, Raise, scheduler
  <2>7. CASE \E t \in Threads : PsCreateThread(t)
    BY <1>1, <2>7, CreatePInv DEF PsCreateThread, scheduler
  <2>8. CASE \E t \in Threads : PsSetThreadStatus(t)
    <3>1. PICK t \in Threads : PsSetThreadStatus(t)
      BY <2>8
    <3>2. /\ SameRegisters /\ Registers(t) = 0 /\ UNCHANGED pt_current_thread
          /\ ready' = ready \cup {t}
      BY <3>1, ReadyPInv
    <3> QED
      BY <3>2 DEF SameRegisters, Sharing!Next, Sharing!Start
  <2>9. CASE (\E l \in Devices : Request(l)) \/ Stopped \/ UNCHANGED vars
    BY <1>1, <2>9, AsidePInv DEF Stopped, scheduler
  <2> QED
    BY <2>1, <2>2, <2>3, <2>4, <2>5, <2>6, <2>7, <2>8, <2>9 DEF Next
<1> QED
  BY <1>2, <1>3, PInvHolds, PTL DEF Spec, SharingSpec, Sharing!Spec
=============================================================================
