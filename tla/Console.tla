------------------------------ MODULE Console ------------------------------
(***************************************************************************)
(* The text console of src/mylysos/6845crt.c.  A screen is the cells of    *)
(* the video memory, row by row, and the position the cursor registers     *)
(* hold.  Attributes are left out.  The position may lie behind the last   *)
(* cell: the text is scrolled when the next character is printed.          *)
(***************************************************************************)
EXTENDS Integers, SequencesExt

CONSTANTS SCREEN_CX, SCREEN_CY

DEFAULT_TAB_SIZE == 4

ASSUME ScreenAssumption ==
    SCREEN_CX \in Nat /\ SCREEN_CX >= DEFAULT_TAB_SIZE /\ SCREEN_CY \in Nat /\ SCREEN_CY > 0

Blank == " "
NUL == "NUL"
CR == "CR"
LF == "LF"
BS == "BS"
TAB == "TAB"

Size == SCREEN_CX * SCREEN_CY
Cells == 0 .. (Size - 1)

CursorX(s) == s.pos % SCREEN_CX
CursorY(s) == s.pos \div SCREEN_CX

CrtClearScreen == [cell |-> [c \in Cells |-> Blank], pos |-> 0]

\* Mutated form: the copy stops a row early.
CrtpScrollOneLine_Short(cell) ==
    [c \in Cells |-> IF c + 2 * SCREEN_CX < Size THEN cell[c + SCREEN_CX] ELSE Blank]

\* The rows move up by one, the last becomes blank.
CrtpScrollOneLine(cell) ==
    [c \in Cells |-> IF c + SCREEN_CX < Size THEN cell[c + SCREEN_CX] ELSE Blank]

\* A character is stored and passed; behind the screen it is not seen.
Put(s, char) ==
    [cell |-> IF s.pos < Size THEN [s.cell EXCEPT ![s.pos] = char] ELSE s.cell,
     pos |-> s.pos + 1]

CrtpKeyCR(s) == [s EXCEPT !.pos = s.pos - CursorX(s)]

CrtpKeyLF(s) ==
    IF CursorY(s) = SCREEN_CY - 1
    THEN [cell |-> CrtpScrollOneLine(s.cell), pos |-> Size - (SCREEN_CX - CursorX(s))]
    ELSE [s EXCEPT !.pos = s.pos + SCREEN_CX]

CrtpKeyBackspace(s) ==
    IF s.pos < 1 THEN s ELSE [cell |-> [s.cell EXCEPT ![s.pos - 1] = Blank], pos |-> s.pos - 1]

\* Blanks, those behind the screen not seen.
KeyTab(s) ==
    LET next == s.pos + DEFAULT_TAB_SIZE
    IN [cell |-> [c \in Cells |-> IF c \in s.pos .. (next - 1) THEN Blank ELSE s.cell[c]],
        pos |-> next]

\* Mutated form: the text is scrolled one character late.
InScreen_Late(s) ==
    IF s.pos > Size
    THEN [cell |-> CrtpScrollOneLine(s.cell), pos |-> s.pos - SCREEN_CX]
    ELSE s

\* Before a character is printed the position is brought back into the screen.
InScreen(s) ==
    IF s.pos >= Size
    THEN [cell |-> CrtpScrollOneLine(s.cell), pos |-> s.pos - SCREEN_CX]
    ELSE s

PrintChar(screen, char) ==
    LET s == InScreen(screen)
    IN CASE char = LF -> s
         [] char = CR -> CrtpKeyLF(CrtpKeyCR(s))
         [] char = BS -> CrtpKeyBackspace(s)
         [] char = TAB -> KeyTab(s)
         [] OTHER -> Put(s, char)

\* A text is the characters before its NUL, printed one by one.
CrtPrintText(screen, text) ==
    LET shown[i \in 0 .. Len(text)] ==
            IF i = 0 THEN screen ELSE PrintChar(shown[i - 1], text[i])
    IN  shown[Len(text)]
=============================================================================
