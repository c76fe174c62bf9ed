------------------------------- MODULE Shell -------------------------------
(***************************************************************************)
(* The command line of src/mylysos/hshell.c on the console: HshpMainThread *)
(* takes one character at a time from KbdGetKey, edits m_CmdLine and the   *)
(* screen, and at the return key HshpParser splits the line into a command *)
(* and its parameters and runs it.  What a command does is reduced to the  *)
(* text it leaves on the screen; letters have no case, so strupr is left   *)
(* out.                                                                    *)
(***************************************************************************)
EXTENDS Console, FiniteSetsExt

CONSTANTS
    BootText,           \* what mylysos_init prints
    Prompt,             \* SHELL_PROMPT, in the source "A:\>"
    MAX_CMD_LINE_CHAR,
    Keys,               \* the characters KbdGetKey can give
    Outputs,            \* what a command may print
    MaxKeys             \* bound: keys typed in all

Space == " "
SHELL_PROMPT_LENGTH == Len(Prompt)

Controls == {NUL, CR, LF, BS, TAB}

\* The whole line is seen: in the source it has 128 characters, the screen 2000.
\* No key gives a line feed: the translator never takes the table for ctrl, the only
\* one that has it.
ASSUME ShellAssumption ==
    /\ \A text \in Outputs \cup {BootText, Prompt} : text \in Seq(Range(text))
    /\ Range(Prompt) \cap (Controls \cup {Space}) = {}
    /\ LF \notin Keys
    /\ MAX_CMD_LINE_CHAR \in Nat /\ MAX_CMD_LINE_CHAR >= 2 /\ MaxKeys \in Nat
    /\ SHELL_PROMPT_LENGTH + MAX_CMD_LINE_CHAR + SCREEN_CX <= Size

VARIABLES
    screen,
    m_CmdLine,
    cmd_next_pos,
    stray,      \* m_CmdLine has been written or read outside its bounds
    quirks,     \* history: what is unusual about the line, until the first such access
    typed,      \* history: the characters of the line, less those taken back
    entered,    \* what they were at the last return key
    ran,        \* the command run for it
    keys

vars == <<screen, m_CmdLine, cmd_next_pos, stray, quirks, typed, entered, ran, keys>>

Index == 0 .. (MAX_CMD_LINE_CHAR - 1)

NoCommand == [cmd |-> << >>, params |-> << >>]

\* line[i] = char; outside the array something else is overwritten.
Stored(line, i, char) == IF i \in Index THEN [line EXCEPT ![i] = char] ELSE line

----------------------------------------------------------------------------
(* HshpParser.                                                             *)

\* A loop that runs from i to the first character of a set; one that finds none
\* leaves the array.
FirstOf(line, i, chars) ==
    Min({j \in Index : j >= i /\ line[j] \in chars} \cup {MAX_CMD_LINE_CHAR})

\* The string that begins at i.
StringAt(line, i) ==
    LET end == FirstOf(line, i, {NUL}) IN [k \in 1 .. (end - i) |-> line[i + k - 1]]

\* Mutated form: the spaces before the command are not skipped.
CommandAt_Start(line) == 0

CommandAt(line) == FirstOf(line, 0, Range(line) \ {Space})

\* The search for the end of the command begins after its first character,
\* which, when the line is nothing but spaces, is the NUL that ends the line.
Parsed(line) ==
    LET start == CommandAt(line)
        end == FirstOf(line, start + 1, {NUL, Space})
        cut == Stored(line, end, NUL)
        rest == IF end \in Index /\ line[end] = Space
                THEN FirstOf(cut, end + 1, Range(cut) \ {Space})
                ELSE end
    IN [line |-> cut,
        cmd |-> StringAt(cut, start),
        params |-> StringAt(cut, rest),
        inside |-> {start, end, rest} \subseteq Index]

----------------------------------------------------------------------------
(* HshpMainThread, a character at a time.                                  *)

Typing == keys < MaxKeys /\ keys' = keys + 1

\* A step that accesses m_CmdLine at i, and what it adds to the line's quirks.
Accesses(i, new) ==
    /\ stray' = (stray \/ i \notin Index)
    /\ quirks' = IF stray THEN quirks ELSE quirks \cup new

\* Mutated form: the cursor may go back into the prompt.
AtPrompt_Less(s) == CursorX(s) < SHELL_PROMPT_LENGTH

\* The cursor's column is compared with the length of the prompt.
AtPrompt(s) == CursorX(s) <= SHELL_PROMPT_LENGTH

Backspace ==
    /\ BS \in Keys
    /\ Typing
    /\ \/ /\ AtPrompt(screen)
          /\ UNCHANGED <<screen, m_CmdLine, cmd_next_pos, stray, quirks, typed>>
       \/ /\ ~AtPrompt(screen)
          /\ cmd_next_pos' = cmd_next_pos - 1
          /\ m_CmdLine' = Stored(m_CmdLine, cmd_next_pos', NUL)
          /\ Accesses(cmd_next_pos', {})
          /\ screen' = CrtPrintText(screen, <<BS>>)
          /\ typed' = IF typed = << >> THEN << >> ELSE Front(typed)
    /\ UNCHANGED <<entered, ran>>

\* What a character, or the place it takes, makes unusual about the line.
QuirkOf(c) ==
    (IF c = TAB THEN {"tab"} ELSE {}) \cup (IF c = NUL THEN {"nul"} ELSE {})
        \cup (IF cmd_next_pos + 1 >= MAX_CMD_LINE_CHAR - 1 THEN {"long"} ELSE {})

\* Any other character is printed and kept, a tab as a space.  A modifier key
\* gives a NUL: it prints nothing, and is kept.
Character(c) ==
    LET kept == IF c = TAB THEN Space ELSE c
    IN /\ c \notin {BS, CR}
       /\ Typing
       /\ screen' = CrtPrintText(screen, IF c = NUL THEN << >> ELSE <<c>>)
       /\ m_CmdLine' = Stored(m_CmdLine, cmd_next_pos, kept)
       /\ Accesses(cmd_next_pos, QuirkOf(c))
       /\ cmd_next_pos' = cmd_next_pos + 1
       /\ typed' = Append(typed, kept)
       /\ UNCHANGED <<entered, ran>>

\* Mutated form: the line is not terminated before it is parsed.
Terminated_Not(line, next) == line

Terminated(line, next) == Stored(line, next, NUL)

\* The screen after a command: cleared, or with what it printed.
Afterwards(s) == {CrtClearScreen} \cup {CrtPrintText(s, text) : text \in Outputs}

\* A line whose prompt is printed on this screen begins inside a row.
QuirkOfPrompt(s) == IF CursorX(s) # 0 THEN {"inside"} ELSE {}

\* The return key: the line is parsed and the command run, then a prompt is
\* printed and the line emptied.  An empty line runs nothing, and neither does
\* an empty command.
Return ==
    LET line == Terminated(m_CmdLine, cmd_next_pos)
        after == IF line[0] = NUL
                 THEN [line |-> line, cmd |-> << >>, params |-> << >>, inside |-> TRUE]
                 ELSE Parsed(line)
        outside == cmd_next_pos \notin Index \/ ~after.inside
        newline == CrtPrintText(screen, <<CR>>)
    IN /\ CR \in Keys
       /\ Typing
       /\ \E s \in IF after.cmd = << >> THEN {newline} ELSE Afterwards(newline) :
              /\ screen' = CrtPrintText(s, Prompt)
              /\ quirks' = IF stray \/ outside THEN quirks ELSE QuirkOfPrompt(s)
       /\ ran' = IF after.cmd = << >> THEN NoCommand
                 ELSE [cmd |-> after.cmd, params |-> after.params]
       /\ m_CmdLine' = [after.line EXCEPT ![0] = NUL]
       /\ cmd_next_pos' = 0
       /\ stray' = (stray \/ outside)
       /\ entered' = typed
       /\ typed' = << >>

\* The screen is cleared at the start, and what the drivers report and the
\* first prompt are printed.
Init ==
    /\ screen = CrtPrintText(CrtPrintText(CrtClearScreen, BootText), Prompt)
    /\ m_CmdLine = [i \in Index |-> NUL]
    /\ cmd_next_pos = 0
    /\ stray = FALSE
    /\ quirks = QuirkOfPrompt(CrtPrintText(CrtClearScreen, BootText))
    /\ typed = << >> /\ entered = << >> /\ ran = NoCommand
    /\ keys = 0

Next == Backspace \/ Return \/ \E c \in Keys : Character(c)

Spec == Init /\ [][Next]_vars

----------------------------------------------------------------------------
(* Properties.                                                             *)

\* The cursor is in the screen or just behind it, and the line in its array.
TypeOK ==
    /\ screen.pos \in 0 .. (Size + DEFAULT_TAB_SIZE - 1)
    /\ DOMAIN screen.cell = Cells
    /\ DOMAIN m_CmdLine = Index

\* Nothing in the source keeps cmd_next_pos in m_CmdLine but the comparison of
\* the cursor's column with the prompt.  It is enough for every line that begins
\* its row, has no tab in it and has not reached the last cell of the array:
\* neither a key nor the parser leaves m_CmdLine, which has room for the NUL.
WithinLine == TypeOK /\ (stray => quirks \cap {"tab", "inside", "long"} # {})

\* What is on the screen before the cursor is the prompt and the line the
\* shell will run, wherever the prompt stands, wherever the line wraps and
\* however often it was scrolled; a tab is wider there than in the line, and a
\* modifier's NUL is only in the line.
LineIsShown ==
    LET shown == Prompt \o [i \in 1 .. cmd_next_pos |-> m_CmdLine[i - 1]]
    IN ~stray /\ quirks \cap {"tab", "nul"} = {} =>
           \A i \in DOMAIN shown : screen.cell[screen.pos - Len(shown) + i - 1] = shown[i]

\* The words of a line: the first is the command, the parameters are what
\* follows it and the spaces behind it.
IsSplit(line, command) ==
    \/ Range(line) \subseteq {Space} /\ command = NoCommand
    \/ \E before, between \in 0 .. Len(line) :
           /\ command.cmd # << >> /\ Space \notin Range(command.cmd)
           /\ between = 0 => command.params = << >>
           /\ command.params # << >> => Head(command.params) # Space
           /\ line = [i \in 1 .. before |-> Space] \o command.cmd
                         \o [i \in 1 .. between |-> Space] \o command.params

\* The line as the shell takes it: up to the first NUL, which a modifier key gives.
Cut(line) ==
    LET before == {k \in 0 .. Len(line) : NUL \notin Range(SubSeq(line, 1, k))}
    IN  SubSeq(line, 1, Max(before))

\* The command that runs is the one that was typed, whatever was taken back of
\* the line, whatever earlier and longer lines left in m_CmdLine, with tabs and
\* beginning anywhere in its row; a modifier key pressed on the line loses what
\* is typed behind it, and no more.
RunsWhatWasTyped == ~stray => IsSplit(Cut(entered), ran)

\* Where the cursor of a screen without an end stands after a character.
Advanced(pos, char) ==
    CASE char = LF -> pos
      [] char = CR -> (pos \div SCREEN_CX + 1) * SCREEN_CX
      [] char = TAB -> pos + DEFAULT_TAB_SIZE
      [] OTHER -> pos + 1

\* And after a text.
Advance(pos, text) ==
    LET at[i \in 0 .. Len(text)] == IF i = 0 THEN pos ELSE Advanced(at[i - 1], text[i])
    IN  at[Len(text)]

\* Where it may stand after a key: a key moves it by some cells, the return key
\* to the next row and over what is printed then.
Ahead(s) ==
    {s.pos + n : n \in {-1, 0, 1, DEFAULT_TAB_SIZE}}
        \cup {Advance(Advance(Advanced(s.pos, CR), text), Prompt) : text \in Outputs \cup {<< >>}}

\* The text has moved up by so many rows as bring the cursor back into the
\* screen, and what stood before it is still there, but for the character a
\* backspace takes.
Kept(s, t, rows) ==
    \A c \in Cells : c < s.pos - 1 /\ c - rows * SCREEN_CX \in Cells =>
        t.cell[c - rows * SCREEN_CX] = s.cell[c]

MovedUp(s, t) ==
    \E pos \in Ahead(s) :
        LET rows == (pos - t.pos) \div SCREEN_CX
        IN rows >= 0 /\ pos = t.pos + rows * SCREEN_CX /\ Kept(s, t, rows)

\* Printing loses no text: what stood before the cursor moves up with it or
\* stays; only a command clears the screen.
TextStays ==
    [][screen' = CrtPrintText(CrtClearScreen, Prompt) \/ MovedUp(screen, screen')]_screen
=============================================================================
