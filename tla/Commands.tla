------------------------------ MODULE Commands ------------------------------
(***************************************************************************)
(* The commands of src/mylysos/hshell.c that take long enough to be        *)
(* interrupted: running a program, typing a file, listing the threads and  *)
(* hiding the clock; with the program's thread and its system calls        *)
(* (syscall.c and the library of src/Application), the thread cutter that  *)
(* frees a finished program behind the shell's back, and the soft          *)
(* interrupt that draws the clock.  Interrupts are enabled but for the     *)
(* critical sections: any of these may take a step between two of another. *)
(*                                                                         *)
(* Files are those of SequentialFiles, which FatFs implements.  A byte of  *)
(* a program stands for what it makes the program do: a text to print, or  *)
(* the end.  A full screen and what ps prints of a process are left out.   *)
(*                                                                         *)
(* What is typed goes through the buffer of CrtpPrintfFmt, as long as a    *)
(* portion of the file and not longer.  A portion without a NUL has its    *)
(* terminator written behind it, on the stack: the shell goes on as if     *)
(* nothing had happened, or returns to nowhere and is lost.                *)
(***************************************************************************)
EXTENDS SequencesExt, FiniteSetsExt, Integers

CONSTANTS
    Names,              \* names the user types
    Texts,              \* what a byte may print
    Content(_),         \* the bytes of a file
    Exists(_),
    Executable(_),      \* whether a name has the extension EXE, or none
    Blocks,             \* memory for control blocks of threads
    ReadSize,           \* bytes the shell reads at a time: 256 in the source
    BlockSize,          \* bytes of a sector
    ImageSize,          \* bytes of memory from 0x00100000 on
    MAX_CUTTING_ITEM,
    MayRefuse           \* whether the driver may refuse a sector

Exit == "exit"          \* the call of API_ExitProgram
Nul == "nul"            \* the byte at which %s ends a text
None == "none"          \* no message, and in memory nothing that was loaded
Bytes == Texts \cup {Exit, Nul}
Image == 0 .. (ImageSize - 1)
Nil == "nil"
File == "h"             \* the handle FsOpenFile returns

\* The threads there are all the time, those of the processes before the shell's
\* and the shell's own.
Idle == "idle"
Cutter == "cutter"
Main == "shell"
Heads == <<Idle, Main>>

ASSUME CommandsAssumption ==
    /\ ReadSize \in Nat \ {0} /\ BlockSize \in Nat \ {0}
    /\ ImageSize \in Nat /\ MAX_CUTTING_ITEM \in Nat
    /\ \A name \in Names : Content(name) \in Seq(Bytes) /\ Len(Content(name)) <= ImageSize
    /\ Texts \cap {Exit, None} = {} /\ Blocks \cap {Idle, Cutter, Main, Nil} = {}

VARIABLES
    pc,                     \* where the shell's thread is
    name,                   \* the file its command is about
    image, pAddr,           \* the memory programs are loaded to, and how far it is
    opened, answer,         \* the files
    UserThread,             \* the handle PsCreateUserThread gave
    allocated, next,        \* control blocks in use, and their pt_next_thread
    status, eip, syscall,   \* of each block's thread: thread_status, place, message
    call_msg,               \* the manager's static pointer: whose message
    cutting, item,          \* the cutting list, and the handle the cutter popped
    process, now_thread,    \* where ps stands in the two lists
    listed, throughout,     \* what it has printed; what has been linked all the time
    m_bShowTSWatchdogClock, clock,
    output,                 \* what the command has printed; nothing at the prompt
    refused                 \* the driver has refused a sector to this command

files == <<opened, answer, refused>>
program == <<status, eip, syscall, call_msg>>
memory == <<allocated, next>>
cutter == <<cutting, item>>
walk == <<process, now_thread, listed, throughout>>
watchdog == <<m_bShowTSWatchdogClock, clock>>
loading == <<image, pAddr, UserThread>>
commandsVars == <<pc, name, loading, files, memory, program, cutter, walk, watchdog, output>>

Files == INSTANCE SequentialFiles WITH Handles <- {File}, ReadSizes <- {ReadSize}

\* Whatever the file system answers that it may answer.
Replies == [op : {"open", "close"}, handle : {File, ""}, data : {<< >>}, refused : BOOLEAN]
    \cup [op : {"read"}, handle : {File}, data : BoundedSeq(Bytes, ReadSize), refused : BOOLEAN]
CallFiles(call) == answer' \in Replies /\ call

Linked(heads) ==
    LET reached[t \in Blocks \cup {Idle, Cutter, Main, Nil}] ==
            IF t = Nil THEN {} ELSE {t} \cup reached[next[t]]
    IN  UNION {reached[heads[i]] : i \in DOMAIN heads}

----------------------------------------------------------------------------
(* HshpParser's dispatch.                                                  *)

AwaitsCommand == pc = "prompt"

\* A command that is over.
Finished == pc' = "prompt"

Command(n) ==
    /\ AwaitsCommand
    /\ name' = n
    /\ UNCHANGED <<output, refused>>

\* Hshp_CMD_excute and Hshp_CMD_type, up to FsOpenFile.
Hshp_CMD_excute(n) ==
    /\ Command(n)
    /\ IF Executable(n) THEN pc' = "open_program" ELSE Finished
    /\ UNCHANGED <<loading, opened, answer, memory, program, cutter, walk, watchdog>>

Hshp_CMD_type(n) ==
    /\ Command(n) /\ pc' = "open_text"
    /\ UNCHANGED <<loading, opened, answer, memory, program, cutter, walk, watchdog>>

OpenFile ==
    /\ pc \in {"open_program", "open_text"}
    /\ CallFiles(Files!Open(name))
    /\ IF answer'.handle = "" THEN Finished
       ELSE pc' = IF pc = "open_program" THEN "load" ELSE "type"
    /\ UNCHANGED <<name, loading, refused, memory, program, cutter, walk, watchdog, output>>

----------------------------------------------------------------------------
(* Running a program.                                                      *)

\* pAddr advances by the size asked for.
PlaceOf(i) == i - pAddr

\* The address in the portion just read, for a place of the image.
InPortion(i) == PlaceOf(i) \in 0 .. (Len(answer'.data) - 1)

FsReadFile ==
    /\ CallFiles(Files!Read(File, ReadSize))
    /\ refused' = (refused \/ answer'.refused)

Load ==
    /\ pc = "load"
    /\ FsReadFile
    /\ IF answer'.data = << >> THEN pc' = "create" /\ UNCHANGED <<image, pAddr>>
       ELSE /\ pc' = "load"
            /\ image' = [i \in Image |->
                            IF InPortion(i) THEN answer'.data[PlaceOf(i) + 1] ELSE image[i]]
            /\ pAddr' = pAddr + ReadSize
    /\ UNCHANGED <<name, UserThread, memory, program, cutter, walk, watchdog, output>>

\* PsCreateUserThread: memory for the control block, or none; the thread is
\* linked last; its registers are set.
AllocateThread ==
    /\ pc = "create"
    /\ \/ \E b \in Blocks \ allocated :
            /\ allocated' = allocated \cup {b}
            /\ next' = [next EXCEPT ![b] = Nil]
            /\ status' = [status EXCEPT ![b] = "STOP"]
            /\ UserThread' = b
            /\ pc' = "link"
       \/ /\ Blocks = allocated
          /\ pc' = "give_up"
          /\ UNCHANGED <<memory, status, UserThread>>
    /\ UNCHANGED <<name, image, pAddr, files, eip, syscall, call_msg, cutter, walk, watchdog, output>>

PspAddNewThread ==
    /\ pc = "link" /\ pc' = "setup"
    /\ \E last \in Linked(<<Main>>) :
          next[last] = Nil /\ next' = [next EXCEPT ![last] = UserThread]
    /\ UNCHANGED <<name, loading, files, allocated, program, cutter, walk, watchdog, output>>

HalSetupTSS ==
    /\ pc = "setup" /\ pc' = "start"
    /\ eip' = [eip EXCEPT ![UserThread] = 0]
    /\ syscall' = [syscall EXCEPT ![UserThread] = None]
    /\ UNCHANGED <<name, loading, files, memory, status, call_msg, cutter, walk, watchdog, output>>

\* Mutated form: the shell does not wait for the end of the program.
AfterStart_NoWait == "delete"

AfterStart == "poll"

Start ==
    /\ pc = "start" /\ pc' = AfterStart
    /\ status' = [status EXCEPT ![UserThread] = "READY"]
    /\ UNCHANGED <<name, loading, files, memory, eip, syscall, call_msg, cutter, walk, watchdog, output>>

\* The loop around HalTaskSwitch, once it ends.
Poll ==
    /\ pc = "poll" /\ status[UserThread] = "TERMINATED"
    /\ pc' = "delete"
    /\ UNCHANGED <<name, loading, files, memory, program, cutter, walk, watchdog, output>>

\* A full cutting list takes nothing, and the shell does not look.
PsDeleteThread ==
    /\ pc = "delete" /\ pc' = "close"
    /\ cutting' = IF Len(cutting) < MAX_CUTTING_ITEM THEN Append(cutting, UserThread) ELSE cutting
    /\ UNCHANGED <<name, loading, files, memory, program, item, walk, watchdog, output>>

\* What refused reads have left in memory is forgotten: nothing is promised of it.
CloseFile ==
    /\ pc \in {"close", "close_text", "give_up"} /\ Finished
    /\ CallFiles(Files!Close(File))
    /\ output' = << >>
    /\ image' = IF refused THEN [i \in Image |-> None] ELSE image
    /\ pAddr' = 0 /\ UserThread' = Nil /\ refused' = FALSE
    /\ UNCHANGED <<name, memory, program, cutter, walk, watchdog>>

----------------------------------------------------------------------------
(* The program's thread: API_PrintText, API_ExitProgram and the call gate. *)

\* Garbage that is no program does not come back.
Executes(b) == b \in allocated /\ status[b] = "READY" /\ eip[b] \in Image /\ image[eip[b]] # None

\* Mutated form: the manager keeps the pointer of an earlier call.
PointerTo_Earlier(b) == call_msg

PointerTo(b) == b

\* internel_syscall builds the message on the program's stack; the manager
\* stores the pointer to it.
CallGate(b) ==
    /\ Executes(b) /\ syscall[b] = None
    /\ syscall' = [syscall EXCEPT ![b] = image[eip[b]]]
    /\ call_msg' = PointerTo(b)
    /\ UNCHANGED <<pc, name, loading, files, memory, status, eip, cutter, walk, watchdog, output>>

Message == syscall[call_msg]

\* The switch over the type of the message the pointer now leads to.
Sysp_SERVICE_CALL_MANAGER(b) ==
    /\ Executes(b) /\ syscall[b] # None
    /\ \/ /\ Message = Exit
          /\ status' = [status EXCEPT ![b] = "TERMINATED"]
          /\ UNCHANGED <<output, eip, syscall>>
       \/ /\ Message \in Texts
          /\ output' = Append(output, Message)
          /\ eip' = [eip EXCEPT ![b] = @ + 1]
          /\ syscall' = [syscall EXCEPT ![b] = None]
          /\ UNCHANGED status
    /\ UNCHANGED <<pc, name, loading, files, memory, call_msg, cutter, walk, watchdog>>

----------------------------------------------------------------------------
(* The thread cutter.                                                      *)

PspPopCuttingItem ==
    /\ item = Nil /\ cutting # << >>
    /\ item' = Head(cutting) /\ cutting' = Tail(cutting)
    /\ UNCHANGED <<pc, name, loading, files, memory, program, walk, watchdog, output>>

\* Mutated form: the block is marked the end of its list as it is freed.
NextOfFreed_Nil == Nil

\* Memory that has been freed keeps its content until it is allocated again.
NextOfFreed == next[item]

\* One critical section; a thread that is not linked is left alone.
PspThreadCutterThread ==
    /\ item # Nil /\ item' = Nil
    /\ \/ \E prev \in Linked(<<Main>>) :
             /\ next[prev] = item
             /\ next' = [next EXCEPT ![prev] = next[item], ![item] = NextOfFreed]
             /\ allocated' = allocated \ {item}
             /\ throughout' = throughout \ {item}
       \/ item \notin Linked(<<Main>>) /\ UNCHANGED <<memory, throughout>>
    /\ UNCHANGED <<pc, name, loading, files, program, cutting, process, now_thread, listed, watchdog, output>>

----------------------------------------------------------------------------
(* ShellCommand_ps: prints a thread, then goes on to the next.             *)

Hshp_CMD_ps ==
    /\ Command(name) /\ pc' = "print_thread"
    /\ process' = 1 /\ now_thread' = Heads[1]
    /\ listed' = << >> /\ throughout' = Linked(Heads)
    /\ UNCHANGED <<loading, opened, answer, memory, program, cutter, watchdog>>

PrintThread ==
    /\ pc = "print_thread" /\ pc' = "next_thread"
    /\ listed' = Append(listed, now_thread)
    /\ UNCHANGED <<name, loading, files, memory, program, cutter, process, now_thread, throughout, watchdog, output>>

\* The next thread, or the first of the next process, or the end.
NextThread ==
    /\ pc = "next_thread"
    /\ LET after == next[now_thread]
       IN  \/ /\ after # Nil
              /\ now_thread' = after /\ pc' = "print_thread" /\ UNCHANGED process
           \/ /\ after = Nil /\ process < Len(Heads)
              /\ process' = process + 1 /\ now_thread' = Heads[process + 1] /\ pc' = "print_thread"
           \/ /\ after = Nil /\ process = Len(Heads)
              /\ pc' = "listed" /\ UNCHANGED <<process, now_thread>>
    /\ UNCHANGED <<name, loading, files, memory, program, cutter, listed, throughout, watchdog, output>>

EndOfList ==
    /\ pc = "listed" /\ Finished
    /\ process' = 1 /\ now_thread' = Nil /\ listed' = << >> /\ throughout' = {}
    /\ UNCHANGED <<name, loading, files, memory, program, cutter, watchdog, output>>

----------------------------------------------------------------------------
(* Typing a file: a portion is read and printed, until none comes.         *)

\* Mutated form: the portion is printed byte by byte.
UpToNul_All(data) == data

\* The text %s finds in the shell's buffer, which is cleared before every read.
UpToNul(data) == SubSeq(data, 1, Min({i \in DOMAIN data : data[i] = Nul} \cup {Len(data) + 1}) - 1)

\* With its terminator the text is longer than the buffer of CrtpPrintfFmt.
Overruns(text) == Len(text) + 1 > ReadSize

TypePortion ==
    /\ pc = "type"
    /\ FsReadFile
    /\ output' = output \o UpToNul(answer'.data)
    /\ \/ answer'.data = << >> /\ pc' = "close_text"
       \/ answer'.data # << >> /\ pc' = "type"
       \/ Overruns(UpToNul(answer'.data)) /\ pc' = "lost"
    /\ UNCHANGED <<name, loading, memory, program, cutter, walk, watchdog>>

----------------------------------------------------------------------------
(* TOGGLE and the clock of the soft interrupt.                             *)

\* PsShowTSWachdogClock sets the flag, then erases the clock.
Hshp_CMD_toggle ==
    /\ Command(name)
    /\ m_bShowTSWatchdogClock' = ~m_bShowTSWatchdogClock
    /\ IF m_bShowTSWatchdogClock THEN pc' = "erase" ELSE Finished
    /\ UNCHANGED <<loading, opened, answer, memory, program, cutter, walk, clock>>

EraseClock ==
    /\ pc = "erase" /\ Finished
    /\ clock' = FALSE
    /\ UNCHANGED <<name, loading, files, memory, program, cutter, walk, m_bShowTSWatchdogClock, output>>

PspSoftTaskSW ==
    /\ m_bShowTSWatchdogClock /\ clock' = TRUE
    /\ UNCHANGED <<pc, name, loading, files, memory, program, cutter, walk, m_bShowTSWatchdogClock, output>>

----------------------------------------------------------------------------
CommandsInit ==
    /\ pc = "prompt" /\ name \in Names
    /\ image = [i \in Image |-> None] /\ pAddr = 0 /\ UserThread = Nil
    /\ Files!Init /\ refused = FALSE
    /\ allocated = {}
    /\ next = [t \in Blocks \cup {Idle, Cutter, Main} |-> IF t = Idle THEN Cutter ELSE Nil]
    /\ status = [b \in Blocks |-> "STOP"] /\ eip = [b \in Blocks |-> 0]
    /\ syscall = [b \in Blocks |-> None] /\ call_msg \in Blocks
    /\ cutting = << >> /\ item = Nil
    /\ process = 1 /\ now_thread = Nil /\ listed = << >> /\ throughout = {}
    /\ m_bShowTSWatchdogClock = TRUE /\ clock = FALSE
    /\ output = << >>

HshpParser ==
    \/ \E n \in Names : Hshp_CMD_excute(n) \/ Hshp_CMD_type(n)
    \/ Hshp_CMD_ps \/ Hshp_CMD_toggle

Continue ==
    \/ OpenFile \/ Load \/ AllocateThread \/ PspAddNewThread \/ HalSetupTSS \/ Start \/ Poll
    \/ PsDeleteThread \/ CloseFile \/ PrintThread \/ NextThread \/ EndOfList
    \/ TypePortion \/ EraseClock

UserProgram(b) == CallGate(b) \/ Sysp_SERVICE_CALL_MANAGER(b)
CutterThread == PspPopCuttingItem \/ PspThreadCutterThread

CommandsNext ==
    \/ HshpParser \/ Continue \/ CutterThread \/ PspSoftTaskSW
    \/ \E b \in Blocks : UserProgram(b)

CommandsSpec == CommandsInit /\ [][CommandsNext]_commandsVars

\* Every thread that can run is scheduled again: NoStarvation of ProcessManager.
FairSpec ==
    /\ CommandsSpec
    /\ WF_commandsVars(Continue) /\ WF_commandsVars(CutterThread)
    /\ \A b \in Blocks : WF_commandsVars(UserProgram(b))

----------------------------------------------------------------------------
(* Properties.                                                             *)

CommandsTypeOK ==
    /\ name \in Names /\ image \in [Image -> Bytes \cup {None}] /\ pAddr \in Nat
    /\ allocated \subseteq Blocks
    /\ next \in [Blocks \cup {Idle, Cutter, Main} -> Blocks \cup {Cutter, Nil}]
    /\ status \in [Blocks -> {"STOP", "READY", "TERMINATED"}]
    /\ cutting \in BoundedSeq(Blocks, MAX_CUTTING_ITEM) /\ item \in Blocks \cup {Nil}

\* What a program prints before its end.
TextsOf(data) == SubSeq(data, 1, Min({i \in DOMAIN data : data[i] = Exit}) - 1)

\* The places of a file's first bytes that have no NUL before them, nor are one, in
\* their portion.
Visible(bytes, n) ==
    {i \in 1 .. n : \A m \in 1 .. i : bytes[m] = Nul => (m - 1) \div ReadSize < (i - 1) \div ReadSize}

\* A text is the visible bytes, each once, in their order.
Shows(text, bytes, n) ==
    \E place \in [DOMAIN text -> Visible(bytes, n)] :
        /\ Range(place) = Visible(bytes, n)
        /\ \A i, j \in DOMAIN text : i < j => place[i] < place[j]
        /\ \A i \in DOMAIN text : text[i] = bytes[place[i]]

\* A portion of the file is visible from its first byte to its last.
FillsBuffer(bytes) ==
    \E n \in 0 .. Len(bytes) : (n * ReadSize + 1) .. ((n + 1) * ReadSize) \subseteq Visible(bytes, Len(bytes))

\* What a command prints is what it was asked for: a program that is loaded in
\* portions over the one before it, in memory nothing protects, and that calls
\* through one static message pointer, prints its own texts in order, all of them
\* once it has ended.  A file that is typed appears as far as it has been read, each
\* byte once, but for what a NUL hides in its portion, and has been read to its end
\* when it is closed; the shell is lost on the way only if a portion of the file fills
\* the buffer it is printed through.  All this unless the driver has refused the
\* command a sector: the shell runs and types what came.
AnswersCommand ==
    ~refused =>
        /\ pc = "poll" => IsPrefix(output, Content(name))
        /\ pc = "close" => output = TextsOf(Content(name))
        /\ pc \in {"type", "close_text", "lost"} => Shows(output, Content(name), opened[File].pos)
        /\ pc = "close_text" => opened[File].pos = Len(Content(name))
        /\ pc = "lost" => FillsBuffer(Content(name))

\* The walk of ps over lists from which the cutter takes threads at any moment:
\* it ends having printed every thread that was there all the time, and none twice.
PsListsAll ==
    /\ IsInjective(listed)
    /\ pc = "listed" => throughout \subseteq Range(listed)

\* At the prompt no file is open, no program runs, and the control blocks still in
\* use are the ones linked, so that none is out of the cutter's reach; the clock
\* stays away once hidden.
NothingLeftBehind ==
    /\ CommandsTypeOK
    /\ AwaitsCommand =>
        /\ opened[File] = Files!Closed
        /\ \A b \in allocated : status[b] = "TERMINATED"
        /\ allocated = Linked(<<Main>>) \ {Main}
        /\ clock => m_bShowTSWatchdogClock

\* The command line returns after every command, those that refused sectors cut
\* short included; only a program they have damaged may go on for ever, and only a
\* portion that overran the buffer it was printed through may lose the shell.
ShellComesBack == ~AwaitsCommand ~> (AwaitsCommand \/ (pc = "poll" /\ refused) \/ pc = "lost")
=============================================================================
