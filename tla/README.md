# A verification of mylysos

mylysos is a teaching kernel for 32-bit x86: one processor, hardware task
switching, a round-robin scheduler, a block allocator, a keyboard and a floppy
driver, FAT12 read only, a text console and a shell.  This directory holds TLA+
models of it, the configurations with which TLC checks them, and proofs for
TLAPS.  `PROJECT.json` is the index: which definition models which lines, what
each run checks, which hazards of the code each property is aimed at.

## 1. The system

`mylysos_init` (`src/mylysos/mylysos.c`) runs with interrupts disabled: console,
memory manager, process manager, system calls, keyboard, floppy, shell.  Then
`iretd` enters the idle thread, and from there on three things move the system:
the timer task (50 per second), the software interrupt behind `HalTaskSwitch`,
and the interrupts of the keyboard and the floppy controller.

| Part | State | Operations | Talks to |
|------|-------|------------|----------|
| memory manager, `mmanager.c` | descriptor table, counters | allocate, free | everybody, by call |
| process manager, `process.c` | lists of processes and threads, current thread, two cutting lists | create, delete, set status, switch, cut, `ps` | memory manager; drivers and shell by call; the CPU's task gates |
| ring queues (in `process.c`, `kbddrv.c`, `fdddrv.c`) | count, head, tail, array | push, pop | |
| keyboard driver, `kbddrv.c` | raw queue, user queue, modifiers, indicators | interrupt, translator thread, `KbdGetKey` | shell |
| floppy driver, `fdddrv.c` | job queue, interrupt flag, DMA area | `FddReadSector`, job thread, interrupt | file system; blocks and readies threads |
| FAT file system, `fatfs.c` | FAT, root directory, a block per open file | list, open, read, close | floppy driver, memory manager |
| shell, `hshell.c` | command line | main loop, parser, the commands, running a program | everything above |
| console, `6845crt.c` | cursor, video memory | print, clear | shell, drivers |
| system calls, `syscall.c` | the message, static | terminate, print | process manager, console |
| hardware layer, `hal.c`, `hal_asm.asm` | GDT, IDT, task states, interrupt controllers | set up, write descriptors | process manager |
| library, `string.c`, `vsprintf.c` | none | | everybody |
| the older kernel, `src/Multilevel_Queue_Scheduling` | as above, with three priority queues | as above; the timer chooses a queue | |
| application, `src/Application` | none | prints and ends | system calls |

How they interact: every driver and the shell has a process with one main
thread.  A keystroke is queued by the interrupt, popped and translated by the
driver's thread, and taken by the shell, which polls `KbdGetKey` and yields.  A
file read goes from the shell's thread through `FsReadFile` to `FddReadSector`,
which queues a job and blocks the thread; the driver's thread serves the job and
readies it.  A program is a thread the shell creates, waits for and deletes.

### What is hard about it

- *Interleavings.*  The timer may come between any two instructions outside the
  short `ENTER_CRITICAL_SECTION` regions: while a thread is half made, between
  setting its own status and giving up the CPU, while the cutter unlinks another.
- *Order of blocking and waking.*  A reader blocks itself and a driver thread
  wakes it with an unconditional assignment of the status.
- *Two structures that must agree.*  The older kernel takes an entry from a priority
  queue and then searches the lists of all threads.
- *One flag for all interrupts* of the floppy controller, reset before each
  command and polled after it.
- *Recycled memory.*  A freed thread block may be the next one handed out.
- *Limits.*  Five rings of BYTE counters, a cutting list that drops what does not
  fit, a pool that refuses; 128 characters of command line.
- *Boundaries.*  The last descriptor of the pool, entries of 12 bits, reads that
  end with a sector, text that wraps in the last row of the screen.

### What makes each part correct

- *Memory manager*: allocations never overlap and lie in the pool; freeing any
  address releases one whole run or nothing; the counters count the table.
- *Queues*: each ring is a bounded FIFO queue.
- *Process manager*: the CPU is only given to linked, complete, runnable threads;
  a thread is freed once and never while something can still reach it; the end of
  a thread is final; a ready thread runs before any other runs twice; what is to
  be deleted is freed.
- *Floppy driver*: a reader sleeps just as long as its job exists, its buffer is
  written only then, and it returns with its own sectors.
- *File system*: an open file is a sequence of bytes with a position; no block of
  a file is lost.
- *Keyboard driver*: characters come out in the order and case they were typed;
  a full queue leaves out keys and does nothing else.
- *Shell and console*: what is on the line is what runs, and what the screen shows.
- *Older scheduler*: the queues are lists, each gets its turn, nobody starves.

## 2. The modules

| Module | Models | State and actions |
|--------|--------|-------------------|
| `BlockPool` | the promise of the memory manager | a set of disjoint runs; grant, refuse, release |
| `MemoryManager` | `mmanager.c` | the descriptor table and the counters; `MmAllocateNonCachedMemory` and `MmFreeNonCachedMemory`, one step each since both run with interrupts disabled; the loop of the scan, turn by turn, beside the formula the step uses |
| `BoundedFifo` | the promise of a queue | a sequence |
| `RingQueue` | the rings | count, head, tail as BYTEs, array; push, pop |
| `ProcessManager` | `process.c` and its callers | the two levels of lists, the statuses, the cutting list, the driver's jobs, where each thread is in its code; ticks, voluntary switches, the cutter's steps, the steps of creating, starting, awaiting, deleting and ending threads |
| `FloppyDriver` | `fdddrv.c` | job queue, flag, the readers, the job thread's program counter; the controller and its DMA are external |
| `SequentialFiles` | the promise of the file system | per handle a name, a position, and the end of the sector that was last refused to it |
| `FatFs` | `fatfs.c` | the packed table, the directory, the control blocks, the step of a call that may block |
| `KeyboardDriver` | `kbddrv.c` | both queues, the flags, the code in the translator's hand; the user and the keyboard are external |
| `Console` | `6845crt.c` | operators on a screen: cells and a position |
| `MultilevelScheduler` | `process.c` of the older kernel | the queues as front, end, count and nodes; status, current thread, chosen queue, counts of ticks; tick, yield |
| `Shell` | `hshell.c` on the console | the screen, `m_CmdLine`, `cmd_next_pos`; backspace, return, any other character |
| `SchedulingOrder`, `QueueTurns` | nothing of their own | histories of `ProcessManager` and of `MultilevelScheduler` |
| `CpuSharing` | the promise of the hardware layer | who has the processor, how far each thread is |
| `Processor` | `hal.c`, `hal_asm.asm` and the task gates of `process.c` | interrupt table, descriptors with busy bits, task state segments, back links, registers and stacks, both interrupt controllers; the steps of the boot, gates, the handlers' instructions, returns |
| `Commands` | the commands of `hshell.c`, `syscall.c`, the application's library, `ps` and the clock of `process.c` | where the shell is, memory at 0x00100000, control blocks and their links, the static message pointer, the walk of `ps`; each access between which another thread may come |

The modules named `...Proofs` hold the theorems (section 4).  Those about `RingQueue` stand
in `KeyboardDriverProofs`, whose driver has two rings; those about `Commands` in `ShellProofs`.  Two modules add a
history to a specification, for one property each, and leave its steps as they are:
`SchedulingOrder` who had the CPU since a watched thread became READY (`NoOvertaking`),
`QueueTurns` how many ticks each queue of the older kernel was passed over (`TurnComes`).
The modules named `MC...` give constants their values for TLC.  Definitions named `X_Something` with the
comment "Mutated form" are plausible mistakes in `X`; they are used nowhere in the
specification and serve to see that a property can fail.

How they compose.  `MemoryManager` implements `BlockPool`, which is how
`ProcessManager`, `FatFs` and `Commands` use memory.  `FatFs` implements
`SequentialFiles`; `Commands` instantiates that promise for the files it runs and
types, with its refusals.  `Processor` implements `CpuSharing`: the step "the
processor goes to another thread" that `ProcessManager` and `MultilevelScheduler`
take is there the passage through a gate.  `Shell` instantiates `Console`.  The rings of
`ProcessManager`, `KeyboardDriver`, `FloppyDriver` and `Commands` are sequences with a
limit, which is `BoundedFifo`, which `RingQueue` implements.  The invariants named
`TypeOK` are a conjunct of a stronger one where a module has such a one
(`GatesOpen`, `WaitingHasJob`, `BlocksAreHeld`, `ModifiersFollow`, `WithinLine`,
`QueuesAreLists`, `NothingLeftBehind`).

### How the models stand to the code

*Steps.*  A region between `ENTER_CRITICAL_SECTION` and `EXIT_CRITICAL_SECTION`
(pushfd, cli, popfd), an interrupt handler and the body of a task gate are one
step.  Elsewhere each access to state that another thread or an interrupt also
touches is a step of its own.  In `ProcessManager` only `current` takes steps,
and a tick may come before any of them.  In `FloppyDriver` and `KeyboardDriver`
the scheduler is abstracted to "any thread that is READY may take the next
step", which includes every schedule the process manager produces.

*Memory.*  `ProcessManager` uses the memory manager through its promise: a block
is any free handle, and the stack may be refused.  A freed handle may be handed
out at once, which is what makes stale links visible.  The boot sequence is part
of the model: until `EnterIdleThread` no tick can come.

*Clients.*  The threads `ProcessManager` calls mains do what the callers in the
repository do with the exported functions: create, make ready, poll for the end,
delete (the shell), queue a job and block (the file system's caller), pop a job and
wake its thread (the floppy thread), and return from their start routine.  As in
`PsSetThreadStatus` the driver's and the maker's READY is written over whatever
status is there; that it never meets a thread that has ended is `EndIsFinal`, a matter of
the job queue and of what a maker does before it lets a thread go.

*Disk.*  `FatFs` packs the entries of a table into bytes as the format does and
decodes them as the code does.  A blocking read is two steps, with the refusal by a
full job queue as an alternative at each.  `answer` records whether a call met a refusal, and
`unsure` up to where the sector refused to a handle would have gone; the refinement maps it to
the abstract file's `until`.  A call that met no refusal must stop where a perfect
file would, and every byte beyond `until` must be right: with no refusal it is 0, so the
behaviours of a driver that never refuses, which are among those of the run, are checked against
exact files.

*Older kernel.*  The boot code runs with interrupts disabled, so the model starts at
its end, with every thread queued when it was made and some made READY afterwards.
The nodes of the queues are blocks that the memory manager hands out first fit; only
those in use have a content, so that a read of a freed one would be an error.  When they
run out a switch goes on with address zero, as the code does: the entry is written there, the
count goes up, and the next node is linked behind it, where no walk finds it.  The
order of the list is that of processes and their threads, which `PspAddNewProcess`
and `PspAddNewThread` append.

*Keyboard.*  A scan code is a key and its top bit.  The history variables `down`,
`caps` and `typed` are what the user did, against which the flags and the
characters are compared.  The driver has one flag for both shift keys and one for both
ctrl keys, and letting go of either key clears it: `overruled` has the keys that are held
all the same, and `Counting` those the flags are compared with.

*Hardware.*  In `Processor` the content of a register set is how many instructions
its thread has executed, modulo `Rounds`; a handler's call leaves junk in the registers, so
that what `pushad`, `popad` and the gates save and restore is visible.  The processor and the
8259s are external and do what the code relies on: a task gate refuses a busy
descriptor, links back and sets NT; `iretd` under NT goes through the link; an
interrupt gate masks and pushes; a controller withholds lines of lower rank than one
in service.  A handler is the list of its instructions that matter, with an
interrupt possible between any two where interrupts are enabled.  The gates'
tasks are left after their `iretd` and resumed there, at the jump back to their
start.  The choice of the next thread is any of the ready ones.

*Commands.*  A byte of a program is what it makes the program do: a text to print,
or the end.  Loading copies portions of `ReadSize` over what the program before left.
A call is two steps, storing the pointer to the message and the switch on what it
leads to.  Freed control blocks keep their link until they are allocated again,
as memory does; `ps` prints a thread and goes on in separate steps, the cutter
comes between.  `type` prints a portion with `%s` through a buffer on the stack, as long as a
portion: a NUL in the file cuts the portion there, and one without a NUL has its terminator
written behind the buffer, after which the shell goes on or is lost (`pc = "lost"`).

*Shell.*  The commands are reduced to the text they print; `strupr` is left out
because letters have no case.  `typed` and `entered` are the line as a history: the characters
typed, less those taken back.  An access outside `m_CmdLine` sets `stray`, and what it would
hit is not modelled.  `quirks` records what is unusual about a line: a tab, a NUL, a prompt that
began inside a row, a line that reached the last cell of the array.  None of these is
excluded; the properties say which of them matters to what.

## 3. What is checked

| Run | Module, bounds | What it shows |
|-----|----------------|---------------|
| `memory_manager` | seven blocks of four bytes; requests of nothing, of less than, exactly and just more than a block, of three blocks and of six; descriptor 0 starts with garbage in its size | every sequence of calls with every address keeps the table a tiling by whole runs, the counters right and the scan first fit, and implements `BlockPool` |
| `ring_queue` | three entries, three items | the ring implements `BoundedFifo` around every wrap |
| `process_manager` | two drivers with their mains, two spare blocks, memory for one more stack, a cutting list of one | the safety of the lists, the switch and the deletion, that no block is lost but one refused its stack, that no READY written late revives an ended thread, and that no thread gets the CPU twice while another waits READY |
| `process_liveness` | the same with one spare block and a cutting list that has room | no starvation; what is deleted, or deletes itself, is freed |
| `head_thread` | as above, mains may return while other threads of their process live | violation: see below |
| `floppy_driver` | three readers, a queue of one, tracks of three sectors, two heads | no lost wake-up, the right data, every accepted read returns |
| `fat_files` | ten clusters, sectors of two bytes, files that end inside a sector, at its end, empty, erased and twice by name; two handles; every read may be refused | `FatFs` implements `SequentialFiles`: every byte right, each call stopping where it should, a refusal costing one handle one sector; no control block is lost |
| `keyboard_driver` | both shift and both ctrl keys, one with a prefix, capslock, a letter; queues of three and two; five events | order, case and modifiers, and what overflow may do |
| `shell_line` | rows of five, three rows, an array of five, eight keys among a letter, space, backspace, return, tab and a modifier's NUL; outputs that end their row and that do not | what runs is what was typed; the array is left only by lines with a tab, inside a row, or as long as it; line and screen agree through wraps, scrolls, corrections and stale contents |
| `multilevel_scheduler` | the timer's task and five threads: two of high priority and two of normal, one of each yielding, one low; five nodes, which run out; counts up to five | the queues are separate lists also once nodes are refused, each gets its turn within the ticks of one round and the next, no starvation |
| `hardware` | idle and two threads made later; the timer, the keyboard, a line of the slave, each asking once between two instructions of a thread; an exception that returns, one that halts, one with an error code | no gate is found busy and no back link leads astray, each thread has a processor of its own (`CpuSharing`), every request is handled unless the processor was halted |
| `programs` | a program of three bytes and one of two, a text, one with a NUL, a missing file; portions, sectors and the buffer of `CrtpPrintfFmt` of two; two control blocks, a cutting list of one; every read may be refused | a command prints what it was asked for, but for what a NUL hides, `ps` lists every thread once, nothing stays behind at the prompt, the prompt comes back unless a portion overran the buffer |

Why these bounds are enough to mean something: each is the smallest at which the
boundary it concerns is met from both sides and in combination.  Three ring
entries put both indices at every place with every count.  A cutting list of one
is full as soon as two threads end; two spare blocks allow one to be recycled
while the other is doomed; a second driver gives the search a process before and
one after the current.  Three readers fill a queue of one while a job is in hand.
Sectors of two bytes let one read cross none, one or two boundaries; the chain of
the test file goes forwards and backwards over odd and even clusters.  Five events
overflow both key queues, toggle capslock twice, and hold both keys of a pair and let go of
one before the letter; eight keys scroll the screen, make four lines, write one past the
end of the array and take a tab back to before its start.  Two normal threads of which one
yields use up the nodes of the older kernel; the counts go on growing then and are
cut at five, where that model ends (its run says `CHECK_DEADLOCK FALSE` for it).  Three lines of the controllers nest in every order, one of
them through both; two threads besides the idle one let a gate be left for the same
thread, for another, and for one that has never run.  Portions of two make a program
end inside a portion and the next be shorter than it; two control blocks let the
cutter free one, or find its list full, while the shell links the other.  What is not covered: blocks recycled
more often than the spare ones allow, queues and lists longer than these; the proofs of section 4
cover every size for what they state.

### What the violations show

- **`head_thread`** (`process.c:498`).  The cutter unlinks a thread through
  `pt_prev_thread`.  For the first thread of a list that is the thread itself:
  it stays linked, its block is freed and `thread_count` is decremented.  All
  callers in the repository create the threads that end after the main thread
  that does not, so `HeadLeavesLast = TRUE` in the passing runs describes them.

Seen while modelling and not made into runs:

- keyboard: releasing one shift key while the other is down ends the shift
  (`kbddrv.c:254`; `Counting` of `KeyboardDriver`); a modifier reaches the shell as an
  ordinary key with the character NUL, and the command line ends there
  (`kbddrv.c:293`, `hshell.c:150`; `Cut` of `Shell`);
  `KbdpPopUserKeyData` of the older kernel never advances its head;
- floppy: a read that crosses the end of a track copies what lies behind the DMA
  area (`fdddrv.c:226`; no caller in the repository asks for one);
- files: after a refused read the following ones on the same handle return the old sector
  again, until they have passed the refused one (`fatfs.c:246`; `until` of `SequentialFiles`);
- shell: a tab moves the cursor four columns for one character, so two backspaces
  after it write `m_CmdLine[-1]` (`hshell.c:132`); the same happens when the prompt began inside a
  row, and a line of 128 characters has its terminator written behind the array, a longer
  one its characters (`hshell.c:150`; the parser may read there from 127 on); these are the three ways `WithinLine` names; `type` ends a portion at a
  NUL, and a portion of 256 bytes without one has its terminator written behind the
  buffer of `CrtpPrintfFmt` (`6845crt.c:45`; `Overruns` of `Commands`); a line that
  wraps cannot be corrected with the cursor in the first columns of the second row
  (`hshell.c:129`); the name of a command is copied into 13 bytes (`hshell.c:285`);
  `dir` shows the hour from noon to one as A.M. (`hshell.c:348`); `free` subtracts from
  the whole memory, so that what it calls available exceeds the pool by what lies
  below it (`mmanager.c:231`, `hshell.c:441`);
- hardware: exceptions with an error code return to it (`hal.c:421-565`; `stopped` is
  then "lost", which the properties allow); `esp0` is computed from the address of the function
  `SysGetSyscallStackPtr` instead of its result (`hal.c:90`; nothing runs outside
  ring 0); lines 10, 11 and 15 are not masked and have no gate;
- older kernel: the entry a tick takes from the chosen queue is only where the
  search for a runnable thread begins, and it begins behind it (`process.c:452` there): the
  quotas of six, three and one shape the order of the queues (`TurnComes`), not who
  runs; its switch sets the thread it leaves to RUNNING (`process.c:505` there), which
  would bring a thread that blocks or ends back to life, had its boot code one; with a
  second normal thread its queues grow for as long as threads yield while the
  chosen queue is empty, and nothing checks the allocation (`process.c:753` there): from then on
  counts are higher than lists are long, and some nodes are lost (`QueuesAreLists`).

### Fairness

`ProcessManager!FairSpec`: the boot code goes on; the timer ticks again and again (it is programmed once
and its gate sends the end of interrupt each time) and the thread cutter, when it
has the CPU, takes its steps before the next tick often enough; the clients have
no fairness, none has to end.  `FloppyDriver!FairSpec`: the job thread and the
threads that were readied get the CPU, which is `NoStarvation` of the process
manager, and the controller ends its commands and its interrupt is taken.  The
code has no timeout, so the last two cannot be dispensed with.  Nobody has to
call anything.  In `MCMultilevel` only the timer has to tick.  `Processor!FairSpec`:
the processor executes its handlers and the boot code, acknowledges what it may, and
a critical section ends; no device has to ask.  `Commands!FairSpec`: the shell, the
cutter and the program's thread are scheduled again and again, which is
`NoStarvation`; nobody has to type.

`CHECK_DEADLOCK FALSE` is said where the system may stop: the shell's thread ends
when the file system cannot be loaded, the user may stop typing, and what a refused
sector leaves of a program may do nothing for ever, as may a shell lost in `type` (`programs`);
and in `multilevel_scheduler`, where it is the bound on the counts that stops the model.

## 4. What is proved

| Theorem | Statement |
|---------|-----------|
| `MemoryManagerProofs!TypeCorrect` | `Spec => []TypeOK`; the counters stay within the pool, so nothing wraps |
| `MemoryManagerProofs!CountersCorrect` | `Spec => []CountersMatchTable` |
| `MemoryManagerProofs!TilingCorrect` | `Spec => []RunsTileTable` |
| `KeyboardDriverProofs!RingCorrect` | `Spec => []RingOK`, for every size up to 255 |
| `KeyboardDriverProofs!RingImplementsFifo` | `Spec => FifoSpec`: the ring implements the bounded queue |
| `MemoryManagerProofs!ScanIsFirstFit` | `Spec => []ScanFindsFirstFit`: the loop over the table ends, at the first fit |
| `ProcessManagerProofs!TypeCorrect` | `Spec => []TypeOK` for any drivers, clients and limits |
| `ProcessManagerProofs!OneRunningCorrect` | `Spec => []OneRunning` |
| `ProcessManagerProofs!CountsCorrect` | `HeadLeavesLast => (Spec => []CountsMatch)` |
| `ProcessManagerProofs!ListsCorrect` | the same of `NoDangling`: no freed block in a list, no block twice |
| `ProcessManagerProofs!DispatchCorrect` | the same of `DispatchSafe`: the CPU is on a live block with a task state |
| `ProcessManagerProofs!CuttingCorrect` | the same of `CuttingSafe`: freed once, after its end, not under the CPU |
| `ProcessManagerProofs!MemoryCorrect` | the same of `MemoryAccounted`: every block allocated, of kernel or user, is linked, being made, or lost with a refused stack |
| `ProcessManagerProofs!EndIsFinalCorrect` | `HeadLeavesLast => (Spec => EndIsFinal)`, an action property: no READY written without a look meets an ended thread |
| `ProcessManagerProofs!OrderCorrect` | `HeadLeavesLast => (OrderSpec => []NoOvertaking)`: nobody twice before a READY thread once |
| `FloppyDriverProofs!NoLostWakeup` | `Spec => []WaitingHasJob`, for any readers and any queue |
| `FloppyDriverProofs!ReadsDeliver` | `RequestsInside => (Spec => []ReadDelivers)` |
| `MemoryManagerProofs!TableImplementsPool` | `Spec => PoolSpec`: the table implements `BlockPool` |
| `FatFsProofs!FilesInvariant` | `Spec => []FInv`, the inductive invariant of the open files |
| `FatFsProofs!BlocksCorrect` | `Spec => []BlocksAreHeld`: no control block is lost |
| `FatFsProofs!FilesCorrect` | `Spec => FilesSpec`: `FatFs` implements `SequentialFiles` |
| `KeyboardDriverProofs!KeyboardInvariant` | `Spec => []KInv`, the inductive invariant of the codes on their way |
| `KeyboardDriverProofs!ModifiersCorrect` | `Spec => []ModifiersFollow`, for any keys |
| `KeyboardDriverProofs!TypedCorrect` | `Spec => []TypedInOrder`, for any keys |
| `KeyboardDriverProofs!GivenCorrect` | `Spec => []NothingInvented`, for any keyboard and with any overflow |
| `ProcessorProofs!PInvHolds` | `Spec => []PInv`, the inductive invariant of tasks and handlers |
| `ProcessorProofs!GatesCorrect` | under `DevicesHaveGates`, `Spec => []GatesOpen` |
| `ProcessorProofs!SharingCorrect` | `Spec => SharingSpec`: `Processor` implements `CpuSharing` |
| `MultilevelProofs!QueuesCorrect` | `Spec => []QueuesAreLists`, for any threads and any memory for nodes, refused ones included |
| `MultilevelProofs!TurnCorrect` | `TurnsSpec => []TurnComes`: the ticks a queue may be passed over |
| `ShellProofs!CursorFollows` | `Spec => []ShellInv`, the inductive invariant of the line, for any keys and outputs |
| `ShellProofs!LineInBounds` | `Spec => []WithinLine`, for any keys and outputs |
| `ShellProofs!LineOnScreen` | `Spec => []LineIsShown`, for any keys and outputs |
| `ShellProofs!RunsTheLine` | `Spec => []RunsWhatWasTyped`, for any keys and outputs |
| `ShellProofs!NoTextIsLost` | under `NoBackspace`, `Spec => TextStays`, an action property |
| `ShellProofs!PsListsEveryThread` | `CommandsSpec => []PsListsAll`, for any blocks and any cutting list |
| `ShellProofs!NothingStaysBehind` | `CommandsSpec => []NothingLeftBehind` |
| `ShellProofs!CommandsAnswer` | under `Programs`, `CommandsSpec => []AnswersCommand`, for any files |

*Memory manager.*  The invariant is `TypeOK /\ CountersMatchTable /\ RunsTileTable`
together: the counters are cardinalities of sets of descriptors, and that a free
releases as many descriptors as it subtracts holds only because the run it finds
is a run of the tiling; the tiling is kept because a run is only granted in a
hole.  Two lemmas about cardinalities carry the arithmetic, one of the address
conversion carries the step from an arbitrary address to a descriptor.
Assumptions: `GeometryAssumption`, sizes that are positive, and
`InputAssumption`, requests and leftovers of memory that are natural numbers.

*The pool it implements.*  A grant and a free map to those of `BlockPool` by what the
tiling says of the run they write or find.  The refusal needs an argument: the scan
jumps from run to run and stops before the last descriptor, and has to have missed no
hole.  From any hole the free descriptors before it lead back to the end of a run or
to the start of the table, where the scan does look.  The least such descriptor exists by
`LeastNumber`, which is drawn from the library's theorem on finite sets ordered by
inclusion, since induction itself is out of reach.

*Ring.*  `RingOK` says that tail is count places after head around the end of the
array.  With it, a push appends to the sequence of entries and a pop takes its
head (`PushAppends`, `PopTakesHead`), which is the refinement.  Assumptions: a size
that fits a BYTE, and at least one item.

*Process manager.*  `TypeOK` is not inductive: the cutter frees what its hand holds
and a client uses the handle it holds, so the invariant `IInv` adds that those are
handles of threads where the code uses them.  `OneRunning` then needs only that a
switch demotes the thread it takes the CPU from, and that no other step writes
RUNNING.  Assumption: `ConfigurationAssumption`, names that are different.

*Process manager, safety.*  No property is inductive alone: the cutter may free a block because it
unlinks it; it unlinks it because the block is not the head of a list with others; and nobody
uses the block afterwards because its maker gives up the handle of what will delete
itself.  `SInv` therefore has, besides `IInv`, seven parts: how far the boot
code is, the lists with their counts and parents, their heads, the handles that are held and
the steps of a creation, the task states, the threads in the cutter's list and hand, and
the stacks.  Every step of the specification, those before the boot code ends included, is shown
to keep it; one lemma per step.  `RInv` adds two parts.  `Requests`: the driver's queue and hand hold each
thread at most once, and only threads that are WAITING, and what a maker is about to start is STOP.
That is why the READY both write without looking revives nobody, and it holds because a thread queues its
job and sets itself WAITING in one critical section, and can do nothing more until the driver has served it.
`Accounted`: which blocks are linked, being made, or lost.  Assumption, besides `ConfigurationAssumption`:
`HeadLeavesLast`, that the first thread of a process returns only when it is alone in it, which
every program in the repository observes.  Without it `CountsMatch` is false, as the run
`head_thread` shows, so the assumption cannot be dropped.

*Process manager, order.*  A thread that waits READY sees each other thread get the CPU
at most once.  The argument is about the way the search goes: the lists put the threads
in an order, and round from the current thread whoever has had the CPU since the watched
thread became READY lies behind it (`AheadIsBehind`).  The thread a switch chooses is the first
runnable one on that way, so it is the watched one or lies before it, and everybody's place
relative to the watched thread is kept when the way starts further on.  A thread that is linked in
between, or one that is unlinked, leaves the order of the others as it is, which is where `SInv` and
with it `HeadLeavesLast` are needed.  `OInv`, the property and this conjunct, is what TLC
checked before it was proved.

*Floppy driver.*  `WaitingHasJob` is inductive: a thread that can call has no job, so the
one it queues is its only one, which moves to the driver's hand and leaves it with
the wake-up.  `ReadDelivers` needs the hand-shake between the job thread, the controller,
the interrupt and the flag: that when the flag is seen set the DMA area holds the sectors
that were asked for, and that an interrupt is outstanding only while the thread waits for its
own command; and that head, track and sector, which are computed in BYTEs, recompose to the number of the sector.
Assumption: `RequestsInside`, a request lies inside one track whose number fits a BYTE,
which holds of the single sectors the file system asks for.  Requests that cross the end of a
track are accepted by the code and get other data (section 3).

*File system.*  `FInv` says of an open file which cluster of its chain it is at, that its
buffer holds a sector of the file, which one unless a read of it was refused, and, between
the steps of a read, how much of what was asked for is copied and how much is left.  A read of
any length then gives bytes of the file because each portion it copies ends at the sector's end, at the file's
or at the request's, and the next cluster is decoded from the packed table exactly when there is
a next byte.  The odd and even entries of twelve bits are lemmas of their own.  The refinement maps
an open file to name, position and the end of the sector last refused to it: a buffer that is not the sector of the
position is possible only below that end, so from there on the bytes are right again, and a call that met no refusal
stops where its portion or the file does.  Assumptions: `DiskAssumption`, a table of an
even number of entries of twelve bits, and `ChainsAssumption`, every file on the disk has as many clusters as its
size asks for and an end mark behind them: the disk is well formed, which the code takes for granted.
Positions are unbounded numbers in the model; in the code they are DWORDs, bounded by the size of the file.

*Keyboard driver.*  The translator works on codes the user produced earlier, so no property of its
flags is inductive.  `KInv` looks ahead instead: the run of the translator over the codes that wait, in
its hand, in the queue and on the wire, ends with the user's flags and gives exactly the
characters that are missing (`CatchesUp`).  Each step takes a code from one end of that
run or adds some at the other.  Once a queue has overflowed there is no such run, and what is
left is that the keys of the codes on their way and of the characters given are, in order,
among those typed (`AmongTyped`).  The user's flags are those of `Counting`: a key that is pressed makes both keys of its pair
count if they are held, one that is let go makes neither count, which is what one flag for the pair does.
Assumption: `KeyboardAssumption`, queues of a size.

*Processor.*  `PInv` names, for each place the machine can be at, what descriptors, links, registers and
stack are: a thread runs, perhaps under one handler, whose frame on the stack and saved registers are
those of the thread; or the software gate's task; or the timer's, which interrupted the thread or the
software gate.  There are no deeper cases because the timer's task runs with interrupts disabled until its switch is
done.  `GatesOpen` and the refinement are read off from it: every register of a
thread that is not running is in its segment, in the frame, or in the processor.  Assumptions:
`ProcessorAssumption`, and for the gates `DevicesHaveGates`: the boot code unmasks lines 10, 11 and 15
without a gate for them, so a device there would find none.

*Older scheduler, queues.*  The invariant says that there is, for each queue, a sequence of nodes that a walk
from the front meets, no longer than the count (`Chain`), and that no node is at two places (`Apart`).  The end of a queue is the
last of its sequence, or address zero, or a node that no walk meets (`Loose`): one linked behind address zero after a
refusal, so that what is linked behind the end then disturbs no list.  As long as nothing has been refused each sequence has just as
many members as the count says and ends at the end, and no node is loose (`Complete`).  A push appends to one sequence a node that is
free, or adds a loose one, or writes address zero; a pop of k entries takes its first k away, or all there are; the search
that skips entries never looks behind the last.  That the walk (`NodesOf`, a recursive function) yields the
sequence, that the boot code's pushes (`BootQueues`) find a free node, and that such functions exist at all, is
proved from the least counterexample (`LeastNumber`), induction being out of reach.  Assumption: `SchedulerAssumption`, by which the
boot code, and only the boot code, has a node for each thread it queues.

*Older scheduler, turns.*  How long a queue has been passed over is bounded by the ticks the
others have spent of their quotas, in this round, or in the rest of the last and in this one (`WaitBounds`).

*The loop of the scan.*  `FirstFit` says in one formula what the `while` of
`MmAllocateNonCachedMemory` finds in many turns; `Turn` is a turn of it and `Scanned` where it ends.
Between turns the descriptors from `pAllocStart` to `pCur` are free, and no place before
them at which the scan starts has a hole (`Scanning`).  A used descriptor the loop
comes to is the first of a run (`JumpsOverRun`), because what lies before it is free or the end of another
run, and the tiling has no overlap; so it jumps by a length above zero and stays in the table.  Each
turn gets further, hence after as many turns as there are descriptors the loop is over.

*Shell, the line.*  `ShellInv` excludes no key and no output; it says of which lines what holds, by their quirks.  On a line
that begins its row and has no tab the cursor is at the column of the prompt and at most the line's characters behind the start of a row
(`AtColumn`; a NUL is in the line and not on the screen).  A backspace is refused
when the cursor's column is at most the prompt's length, which keeps it out of the prompt on every row,
and is why nothing is written before the array; behind it nothing is written unless the line has come to its last
cell.  A line without tab and NUL is in the cells before the cursor, behind the prompt, wherever that began: scrolling takes
a row from the top, and the place moves with it (`Holds`).  As long as the array has not been left, it holds the characters typed, less
those taken back, up to `cmd_next_pos` (`LineKept`).  That the parser runs the
words of the line up to its first NUL is an argument about the first space and the first character
after the spaces; what earlier lines left behind the terminating NUL is not looked at.  Assumption:
`ShellAssumption`, that no key gives a line feed (only the table for ctrl has it, which `KbdpTranslatorThread` never takes), an array of at least two characters, and a screen with room for the prompt
and the longest line.

*Shell, the screen.*  `TextStays` compares the screen with one that has no end: a key or a text brings the
cursor to some place on it (`Ahead`), and the screen shows it moved up by whole rows, so many as bring the
cursor back.  The proof follows a text character by character (`Reached`); each prefix of it has
scrolled some rows and kept what stood before the first cursor.  It needs no condition on the keys; on
the output only `NoBackspace`, since a text with backspaces may take back more than its own.

*Commands, the lists.*  `ps` follows links while the cutter unlinks and frees the block it stands on.  The invariant
gives each thread a rank that grows along the links.  A thread that is freed under the walk
keeps its rank, and `walked` remembers it: its link leads to a thread of higher rank, of
the list or of `walked` again, so the walk goes on to where the list goes on.  Every thread that was
linked all the time and ranks below where the walk stands has been printed, and what has been printed
has growing ranks, so none twice.  It matters that a block is not handed out again during a walk: the only
thread that allocates is the shell's, which is the one that walks.

*Commands, what is left.*  `ThreadsInv`: a block in use belongs to a thread that has ended, or is the one the shell is about
between its creation and its end.  `FilesInv`: the file is open, at a position inside it, just while the
command is about it.  With the lists' invariant, `NothingLeftBehind` is read off at the prompt.  No
condition is needed: refused sectors, a full cutting list and damaged programs are included.

*Commands, what is printed.*  `OutputInv` says for each place of the command what has been delivered: up to which byte
memory at the load address is the file, of the program's thread that its place is how many texts have been printed,
and that the pointer of a call in progress leads to its own message; of a typed file that the output
is its bytes up to the position but for those that a NUL hides in their portion (`Shows`), each at a place of its own.  The
shell is lost only on a portion that is visible from end to end and as long as the buffer (`FillsBuffer`).  A portion shorter than what was asked for is the last, which
is why the loader may advance by the size asked for.  Assumption: `Programs`, every executable file has an end
in it; the entry code (`lib/entry.asm`) calls `API_ExitProgram` after `main` returns.  Without an end a thread goes
on through whatever an earlier, longer program left there.

*Only model-checked*: liveness, which is out of the prover's reach: `NoStarvation`, `EndedIsFreed`,
`ReadsReturn`, `RequestServed`, `ShellComesBack`.  Every invariant and every action property the
passing runs check, and every refinement, is stated by a theorem.

## 5. What is not modelled

- *Machine set-up*: the rate of the timer, the segments of code and data, the
  port instructions.
- *System calls* of types that no library function sends; the entry through the call
  gate has no step of its own.
- *The process cutter's work*: nothing pushes to its list.  Its thread is a thread
  that switches.
- *Ids and the tick count*, which decide nothing.
- *Attributes and printing at a given position*; `vsprintf` and the string
  library, which have no state.
- *The rest of the older kernel*: its memory manager, drivers and hardware layer are
  earlier forms of those modelled; the end of a thread and the cutters do not occur
  in what its boot code starts.
- *Boot sector, entry, build products.*

## 6. Plan

Order of work, the most important first; all of it is done.

1. `MemoryManager` over `BlockPool`; `RingQueue` over `BoundedFifo`: what all
   else stands on.
2. `ProcessManager`, safety, order and liveness.
3. `FloppyDriver`, then `FatFs` over `SequentialFiles`.
4. `KeyboardDriver`, then `Console` and `Shell`.
5. Proofs: types, counters, tiling, the ring's refinement, `OneRunning`.
6. `MultilevelScheduler`, the scheduler of the older kernel.
7. `Processor` over `CpuSharing`: the hardware tasks behind the switch.
8. `Commands` over `SequentialFiles`: running and ending a program, `ps`, the clock.
9. Proofs: `CountsMatch`, `NoDangling`, `CuttingSafe`, `DispatchSafe`, `MemoryAccounted` and
   `EndIsFinal` from one inductive invariant under `HeadLeavesLast`; that
   `MemoryManager` implements `BlockPool`; `WaitingHasJob` and `ReadDelivers`.
10. Proofs: `NoOvertaking`; `FilesSpec` and `BlocksAreHeld` of the file system; order, case and modifiers of the
    keyboard; `GatesOpen` and `SharingSpec` of `Processor`; the lists and the turns of the older kernel's queues.
11. Proofs: the shell's line and screen; `PsListsAll`, `NothingLeftBehind` and `AnswersCommand` of `Commands`;
    the loop of the memory manager's scan.
