---------------------------- MODULE ShellProofs ----------------------------
(***************************************************************************)
(* The command line, for every screen it fits on, every prompt without     *)
(* spaces and control characters, any keys and any number of them; and the *)
(* commands, for any files, programs, threads and cutting list.            *)
(*                                                                         *)
(* The line: the inductive invariant says where the cursor is.  On a line  *)
(* that begins its row and has no tab in it it is behind the start of some *)
(* row by the prompt's length and no more cells than the line has          *)
(* characters: that is why a comparison of the cursor's column alone keeps *)
(* a backspace out of the prompt, on the prompt's own row as on those the  *)
(* line continues on.  Wherever the line begins, if it has neither tabs    *)
(* nor NULs the cells before the cursor hold the prompt and the line.  And *)
(* the array's last character is NUL unless it is being typed over, which  *)
(* is why the parser stays in the array.                                   *)
(*                                                                         *)
(* The commands: the threads of the lists have ranks that grow along the   *)
(* links, a thread freed under the walk of ps keeps its rank and what is   *)
(* behind it; a block in use belongs to a thread that has ended or to the  *)
(* one command there is; and the output is what the program's place, or    *)
(* the position in the file, says.                                         *)
(***************************************************************************)
EXTENDS Shell, Commands, FiniteSetTheorems, SequenceTheorems, WellFoundedInduction, TLAPS

----------------------------------------------------------------------------
(* Numbers.                                                                *)

\* A set of numbers that is not empty has a least element.
LEMMA LeastOf ==
    ASSUME NEW X, X \subseteq Nat, X # {}
    PROVE  \E m \in X : \A y \in X : m <= y
<1> DEFINE Upto == {0 .. x : x \in X}
<1>1. Upto \subseteq FiniteSubsetsOf(Nat)
  <2> SUFFICES ASSUME NEW x \in X PROVE 0 .. x \in FiniteSubsetsOf(Nat)
    OBVIOUS
  <2>1. IsFiniteSet(0 .. x)
    BY FS_Interval
  <2> QED
    BY <2>1 DEF FiniteSubsetsOf
<1>2. IsWellFoundedOn(StrictSubsetOrdering(Nat), FiniteSubsetsOf(Nat))
  BY FS_StrictSubsetOrderingWellFounded
<1>3. Upto # {}
  OBVIOUS
<1> HIDE DEF Upto
<1>4. PICK I \in Upto : \A J \in Upto : ~ (<<J, I>> \in StrictSubsetOrdering(Nat))
  BY <1>1, <1>2, <1>3, WFMin, Zenon
<1>5. PICK m \in X : I = 0 .. m
  BY DEF Upto
<1>6. ASSUME NEW y \in X, y < m PROVE FALSE
  <2>1. 0 .. y \in Upto /\ y \in Nat /\ m \in Nat
    BY DEF Upto
  <2>2. 0 .. y \subseteq 0 .. m /\ 0 .. y # 0 .. m /\ 0 .. m \subseteq Nat
    BY <1>6, <2>1
  <2> QED
    BY <1>4, <1>5, <2>1, <2>2 DEF StrictSubsetOrdering
<1> QED
  BY <1>6

\* Induction up to a number, on the set of those for which the claim holds.
LEMMA Upward ==
    ASSUME NEW n \in Nat, NEW S, 0 \in S, \A i \in 1 .. n : i - 1 \in S => i \in S
    PROVE  \A i \in 0 .. n : i \in S
<1> DEFINE X == {i \in 0 .. n : i \notin S}
<1> SUFFICES ASSUME X # {} PROVE FALSE
  OBVIOUS
<1>1. X \subseteq Nat
  OBVIOUS
<1> HIDE DEF X
<1>2. PICK m \in X : \A y \in X : m <= y
  BY <1>1, LeastOf
<1>3. m \in 1 .. n /\ m \notin S
  BY DEF X
<1>4. m - 1 \in 0 .. n /\ m - 1 \notin X
  BY <1>2, <1>3, <1>1
<1> QED
  BY <1>3, <1>4 DEF X

LEMMA Dividing ==
    ASSUME NEW a \in Nat, NEW b \in Nat \ {0}
    PROVE  a \div b \in Nat /\ a % b \in 0 .. (b - 1) /\ a = (a \div b) * b + (a % b)
OBVIOUS

\* Some rows and less than one more.
LEMMA DivisionIs ==
    ASSUME NEW b \in Nat \ {0}, NEW r \in Nat, NEW x \in 0 .. (b - 1)
    PROVE  (r * b + x) \div b = r /\ (r * b + x) % b = x
<1> DEFINE a == r * b + x
           q == a \div b
           y == a % b
<1>1. a \in Nat /\ q \in Nat /\ y \in 0 .. (b - 1) /\ a = q * b + y
  <2>1. r * b \in Nat
    OBVIOUS
  <2>2. a \in Nat
    BY <2>1
  <2> QED
    BY <2>2, Dividing
<1>2. (q - r) * b = x - y
  BY <1>1
<1>3. q = r
  <2> HIDE DEF q, y
  <2>1. CASE q > r
    <3>1. (q - r) * b >= b
      BY <2>1, <1>1
    <3> QED
      BY <3>1, <1>1, <1>2
  <2>2. CASE q < r
    <3>1. (r - q) * b >= b /\ (r - q) * b = y - x
      BY <2>2, <1>1, <1>2
    <3> QED
      BY <3>1, <1>1
  <2> QED
    BY <2>1, <2>2, <1>1
<1>4. y = x
  <2> HIDE DEF q, y, a
  <2> QED
    BY <1>1, <1>2, <1>3
<1> QED
  BY <1>3, <1>4

----------------------------------------------------------------------------
(* The console.                                                            *)

Writings == Outputs \cup {BootText, Prompt}
Chars == Keys \cup Controls \cup {Blank} \cup UNION {Range(text) : text \in Writings}

LEMMA WritingsAre == \A text \in Writings : text \in Seq(Chars)
<1> SUFFICES ASSUME NEW text \in Writings PROVE text \in Seq(Chars)
  OBVIOUS
<1>1. text \in Seq(Range(text)) /\ Range(text) \subseteq Chars
  BY ShellAssumption DEF Writings, Chars
<1> QED
  BY <1>1, SeqMonotonic

Screens == [cell : [Cells -> Chars], pos : 0 .. (Size + DEFAULT_TAB_SIZE - 1)]

\* The text is in the cells before the cursor.
Holds(s, text) ==
    /\ text = << >> \/ s.pos <= Size
    /\ \E start \in Nat : /\ s.pos = start + Len(text)
                         /\ \A i \in 1 .. Len(text) : s.cell[start + i - 1] = text[i]

\* The cursor is so many cells behind the start of some row.
AtColumn(s, n) == \E row \in Nat : s.pos = row * SCREEN_CX + n

LEMMA Sizes ==
    /\ SCREEN_CX \in Nat \ {0} /\ DEFAULT_TAB_SIZE = 4 /\ SCREEN_CX >= 4
    /\ SCREEN_CY \in Nat \ {0} /\ Size \in Nat /\ Size >= SCREEN_CX
    /\ Size = (SCREEN_CY - 1) * SCREEN_CX + SCREEN_CX
<1>1. SCREEN_CX \in Nat \ {0} /\ DEFAULT_TAB_SIZE = 4 /\ SCREEN_CX >= 4 /\ SCREEN_CY \in Nat \ {0}
  BY ScreenAssumption DEF DEFAULT_TAB_SIZE
<1>2. Size \in Nat /\ Size = (SCREEN_CY - 1) * SCREEN_CX + SCREEN_CX
  BY <1>1 DEF Size
<1>3. (SCREEN_CY - 1) * SCREEN_CX \in Nat
  BY <1>1
<1> QED
  BY <1>1, <1>2, <1>3

LEMMA ScrolledCells ==
    ASSUME NEW cell \in [Cells -> Chars]
    PROVE  CrtpScrollOneLine(cell) \in [Cells -> Chars]
<1>1. ASSUME NEW c \in Cells
      PROVE  (IF c + SCREEN_CX < Size THEN cell[c + SCREEN_CX] ELSE Blank) \in Chars
  <2>1. c + SCREEN_CX < Size => c + SCREEN_CX \in Cells
    BY Sizes DEF Cells
  <2>2. Blank \in Chars
    BY DEF Chars
  <2> QED
    BY <2>1, <2>2
<1> QED
  BY <1>1 DEF CrtpScrollOneLine

LEMMA Scrolled ==
    ASSUME NEW s \in Screens
    PROVE  /\ InScreen(s) \in Screens /\ InScreen(s).pos < Size
           /\ s.pos < Size => InScreen(s) = s
           /\ s.pos >= Size => /\ InScreen(s).pos = s.pos - SCREEN_CX
                               /\ \A c \in Cells : c + SCREEN_CX < Size =>
                                     InScreen(s).cell[c] = s.cell[c + SCREEN_CX]
<1>1. CASE s.pos < Size
  BY <1>1, Sizes DEF InScreen, Screens
<1>2. CASE s.pos >= Size
  <2>1. InScreen(s) = [cell |-> CrtpScrollOneLine(s.cell), pos |-> s.pos - SCREEN_CX]
    BY <1>2 DEF InScreen
  <2>2. s.pos - SCREEN_CX \in 0 .. (Size - 1)
    BY <1>2, Sizes DEF Screens
  <2>3. CrtpScrollOneLine(s.cell) \in [Cells -> Chars]
    BY ScrolledCells DEF Screens
  <2>4. \A c \in Cells : c + SCREEN_CX < Size => CrtpScrollOneLine(s.cell)[c] = s.cell[c + SCREEN_CX]
    BY DEF CrtpScrollOneLine
  <2> QED
    BY <1>2, <2>1, <2>2, <2>3, <2>4, Sizes DEF Screens
<1> QED
  BY <1>1, <1>2, Sizes DEF Screens

LEMMA ScrolledHolds ==
    ASSUME NEW s \in Screens, NEW text \in Seq(Chars), Len(text) + SCREEN_CX <= Size, Holds(s, text)
    PROVE  Holds(InScreen(s), text)
<1>1. CASE s.pos < Size
  BY <1>1, Scrolled
<1>2. CASE s.pos >= Size /\ text = << >>
  <2>1. InScreen(s).pos \in Nat /\ Len(text) = 0
    BY <1>2, Scrolled, Sizes DEF Screens
  <2>2. InScreen(s).pos = InScreen(s).pos + Len(text) /\ 1 .. Len(text) = {}
    BY <2>1
  <2> QED
    BY <1>2, <2>1, <2>2 DEF Holds
<1>3. CASE s.pos >= Size /\ text # << >>
  <2>1. s.pos = Size /\ Len(text) \in Nat
    <3>1. s.pos \in Int /\ Size \in Int
      BY Sizes DEF Screens
    <3>2. s.pos <= Size
      BY <1>3 DEF Holds
    <3> QED
      BY <1>3, <3>1, <3>2
  <2>2. PICK start \in Nat : /\ s.pos = start + Len(text)
                            /\ \A i \in 1 .. Len(text) : s.cell[start + i - 1] = text[i]
    BY DEF Holds
  <2>3. PICK a \in Nat : a + SCREEN_CX = start
    <3>1. start - SCREEN_CX \in Nat /\ (start - SCREEN_CX) + SCREEN_CX = start
      BY <2>1, <2>2, Sizes
    <3> QED
      BY <3>1
  <2>4. InScreen(s).pos = Size - SCREEN_CX /\ InScreen(s).pos = a + Len(text)
    <3>1. InScreen(s).pos = s.pos - SCREEN_CX
      BY <1>3, Scrolled
    <3> QED
      BY <2>1, <2>2, <2>3, <3>1, Sizes
  <2>5. ASSUME NEW i \in 1 .. Len(text)
        PROVE  InScreen(s).cell[a + i - 1] = text[i]
    <3>1. a + i - 1 \in Cells /\ (a + i - 1) + SCREEN_CX < Size /\ (a + i - 1) + SCREEN_CX = start + i - 1
      BY <2>1, <2>2, <2>3, Sizes DEF Cells
    <3>2. InScreen(s).cell[a + i - 1] = s.cell[(a + i - 1) + SCREEN_CX]
      BY <1>3, <3>1, Scrolled
    <3> QED
      BY <2>2, <3>1, <3>2
  <2>6. InScreen(s).pos <= Size
    BY <2>4, Sizes
  <2> QED
    BY <2>4, <2>5, <2>6 DEF Holds
<1> QED
  BY <1>1, <1>2, <1>3, Sizes DEF Screens

\* Scrolling changes the row and not the column.
LEMMA ScrolledBehind ==
    ASSUME NEW s \in Screens, NEW n \in Nat, n + SCREEN_CX <= Size, AtColumn(s, n)
    PROVE  AtColumn(InScreen(s), n)
<1>1. CASE s.pos < Size
  BY <1>1, Scrolled
<1>2. CASE s.pos >= Size
  <2>1. PICK row \in Nat : s.pos = row * SCREEN_CX + n
    BY DEF AtColumn
  <2>2. row >= 1
    <3>1. row = 0 => row * SCREEN_CX = 0
      BY Sizes
    <3> QED
      BY <1>2, <2>1, <3>1, Sizes
  <2>3. row - 1 \in Nat /\ (row - 1) * SCREEN_CX + SCREEN_CX = row * SCREEN_CX /\ (row - 1) * SCREEN_CX \in Nat
    BY <2>2, Sizes
  <2>4. InScreen(s).pos = (row - 1) * SCREEN_CX + n
    BY <1>2, <2>1, <2>3, Scrolled, Sizes
  <2> QED
    BY <2>3, <2>4 DEF AtColumn
<1> QED
  BY <1>1, <1>2, Sizes DEF Screens

\* An ordinary character moves the cursor on, and backspace back.
LEMMA MovedBehind ==
    ASSUME NEW s \in Screens, NEW n \in Nat, n + SCREEN_CX <= Size, AtColumn(s, n)
    PROVE  /\ \A c \in Chars \ Controls : AtColumn(PrintChar(s, c), n + 1)
           /\ n # 0 => AtColumn(PrintChar(s, BS), n - 1)
<1> DEFINE t == InScreen(s)
<1>1. t \in Screens /\ t.pos < Size /\ t.pos \in Nat /\ AtColumn(t, n)
  BY Scrolled, ScrolledBehind, Sizes DEF Screens
<1>2. ASSUME NEW c \in Chars \ Controls PROVE PrintChar(s, c).pos = t.pos + 1
  <2>1. c # LF /\ c # CR /\ c # BS /\ c # TAB
    BY DEF Controls
  <2> QED
    BY <1>1, <2>1 DEF PrintChar, Put
<1>3. t.pos >= 1 => PrintChar(s, BS).pos = t.pos - 1
  BY <1>1 DEF PrintChar, CrtpKeyBackspace, BS, LF, CR, TAB
<1> HIDE DEF t
<1>4. PICK row \in Nat : t.pos = row * SCREEN_CX + n
  BY <1>1 DEF AtColumn
<1>5. PICK a \in Nat : a = row * SCREEN_CX
  BY Sizes
<1>6. t.pos + 1 = row * SCREEN_CX + (n + 1)
  BY <1>4, <1>5
<1>7. ASSUME n # 0 PROVE t.pos >= 1 /\ t.pos - 1 = row * SCREEN_CX + (n - 1)
  BY <1>4, <1>5, <1>7
<1> QED
  BY <1>2, <1>3, <1>6, <1>7 DEF AtColumn

\* An ordinary character is added to the text.
LEMMA PlainPrinted ==
    ASSUME NEW s \in Screens, NEW text \in Seq(Chars), NEW c \in Chars \ Controls,
           Len(text) + SCREEN_CX < Size, Holds(s, text)
    PROVE  Holds(PrintChar(s, c), Append(text, c))
<1> DEFINE t == InScreen(s)
           u == PrintChar(s, c)
<1>1. t \in Screens /\ t.pos < Size /\ Holds(t, text) /\ Len(text) \in Nat
  BY Scrolled, ScrolledHolds, Sizes
<1>2. u = [cell |-> [t.cell EXCEPT ![t.pos] = c], pos |-> t.pos + 1]
  <2>1. c # LF /\ c # CR /\ c # BS /\ c # TAB
    BY DEF Controls
  <2> QED
    BY <1>1, <2>1 DEF PrintChar, Put
<1> HIDE DEF t, u
<1>3. PICK start \in Nat : /\ t.pos = start + Len(text)
                          /\ \A i \in 1 .. Len(text) : t.cell[start + i - 1] = text[i]
  BY <1>1 DEF Holds
<1>5. Len(Append(text, c)) = Len(text) + 1 /\ u.pos = start + Len(Append(text, c)) /\ u.pos <= Size
  BY <1>1, <1>2, <1>3, Sizes DEF Screens
<1>6. ASSUME NEW i \in 1 .. Len(Append(text, c))
      PROVE  u.cell[start + i - 1] = Append(text, c)[i]
  <2> DEFINE k == start + i - 1
  <2>0. t.pos = start + Len(text) /\ t.pos \in Nat /\ i \in 1 .. (Len(text) + 1)
    BY <1>1, <1>3, <1>5
  <2>1. k \in Cells /\ (i = Len(text) + 1 => k = t.pos) /\ (i # Len(text) + 1 => k # t.pos /\ i \in 1 .. Len(text))
    BY <1>1, <2>0, Sizes DEF Cells
  <2>2. u.cell[k] = IF k = t.pos THEN c ELSE t.cell[k]
    <3>1. DOMAIN t.cell = Cells /\ u.cell = [t.cell EXCEPT ![t.pos] = c]
      BY <1>1, <1>2 DEF Screens
    <3> QED
      BY <2>1, <3>1
  <2> HIDE DEF k
  <2>3. CASE i = Len(text) + 1
    <3>1. Append(text, c)[i] = c
      BY <2>3, AppendProperties
    <3> QED
      BY <2>1, <2>2, <2>3, <3>1 DEF k
  <2>4. CASE i # Len(text) + 1
    <3>1. Append(text, c)[i] = text[i]
      BY <2>1, <2>4
    <3>2. t.cell[start + i - 1] = text[i]
      BY <2>1, <2>4, <1>3
    <3> QED
      BY <2>1, <2>2, <2>4, <3>1, <3>2 DEF k
  <2> QED
    BY <2>3, <2>4 DEF k
<1> QED
  BY <1>5, <1>6 DEF Holds, u

LEMMA FrontIs ==
    ASSUME NEW text \in Seq(Chars), text # << >>
    PROVE  /\ Len(text) \in Nat \ {0}
           /\ Front(text) \in Seq(Chars) /\ Len(Front(text)) = Len(text) - 1
           /\ \A i \in 1 .. (Len(text) - 1) : Front(text)[i] = text[i]
<1>1. Len(text) \in Nat \ {0}
  BY EmptySeq
<1>2. ASSUME NEW i \in 1 .. (Len(text) - 1) PROVE text[i] \in Chars
  BY <1>1, ElementOfSeq
<1>3. PICK n \in Nat : n = Len(text) - 1
  BY <1>1
<1>4. /\ SubSeq(text, 1, n) \in Seq(Chars)
      /\ Len(SubSeq(text, 1, n)) = IF 1 <= n THEN n - 1 + 1 ELSE 0
      /\ \A i \in 1 .. (n - 1 + 1) : SubSeq(text, 1, n)[i] = text[1 + i - 1]
  BY <1>2, <1>3, SubSeqProperties
<1>5. Front(text) = SubSeq(text, 1, n)
  BY <1>3 DEF Front
<1> QED
  BY <1>1, <1>3, <1>4, <1>5

\* A backspace takes the last character of the text.
LEMMA BackspacePrinted ==
    ASSUME NEW s \in Screens, NEW text \in Seq(Chars), text # << >>,
           Len(text) + SCREEN_CX <= Size, Holds(s, text)
    PROVE  Holds(PrintChar(s, BS), Front(text))
<1> DEFINE t == InScreen(s)
           u == PrintChar(s, BS)
<1>1. t \in Screens /\ t.pos < Size /\ Holds(t, text) /\ Len(text) \in Nat \ {0}
  BY Scrolled, ScrolledHolds, EmptySeq, Sizes
<1>2. PICK start \in Nat : /\ t.pos = start + Len(text)
                          /\ \A i \in 1 .. Len(text) : t.cell[start + i - 1] = text[i]
  BY <1>1 DEF Holds
<1>4. u = [cell |-> [t.cell EXCEPT ![t.pos - 1] = Blank], pos |-> t.pos - 1]
  BY <1>1, <1>2 DEF PrintChar, CrtpKeyBackspace, BS, LF, CR, TAB
<1> HIDE DEF t, u
<1>5. /\ Front(text) \in Seq(Chars) /\ Len(Front(text)) = Len(text) - 1
      /\ \A i \in 1 .. (Len(text) - 1) : Front(text)[i] = text[i]
  BY FrontIs
<1>6. u.pos = start + Len(Front(text)) /\ u.pos <= Size
  BY <1>1, <1>2, <1>4, <1>5, Sizes
<1>7. ASSUME NEW i \in 1 .. Len(Front(text))
      PROVE  u.cell[start + i - 1] = Front(text)[i]
  <2>1. start + i - 1 \in Cells /\ start + i - 1 # t.pos - 1
    <3>1. t.pos = start + Len(text)
      BY <1>2
    <3> QED
      BY <1>1, <1>5, <3>1, Sizes DEF Cells
  <2>2. u.cell[start + i - 1] = t.cell[start + i - 1]
    BY <1>1, <1>4, <2>1 DEF Screens
  <2>3. i \in 1 .. Len(text) /\ Front(text)[i] = text[i]
    BY <1>1, <1>5
  <2>4. t.cell[start + i - 1] = text[i]
    BY <1>2, <2>3
  <2> QED
    BY <2>2, <2>3, <2>4
<1> QED
  BY <1>6, <1>7 DEF Holds, u

\* A carriage return leads to the start of the next row, in the screen.
LEMMA ReturnPrinted ==
    ASSUME NEW s \in Screens
    PROVE  PrintChar(s, CR) \in Screens
<1> DEFINE t == InScreen(s)
           u == CrtpKeyCR(t)
           v == CrtpKeyLF(u)
<1>1. t \in Screens /\ t.pos < Size /\ t.pos \in Nat /\ t.cell \in [Cells -> Chars]
  BY Scrolled, Sizes DEF Screens
<1>2. PrintChar(s, CR) = v
  BY DEF PrintChar, CR, LF, BS, TAB
<1> HIDE DEF t
<1>3. PICK y \in Nat : y = CursorY(t) /\ t.pos = y * SCREEN_CX + CursorX(t) /\ CursorX(t) \in 0 .. (SCREEN_CX - 1)
  BY <1>1, Dividing, Sizes DEF CursorX, CursorY
<1>4. y * SCREEN_CX \in Nat
  BY Sizes
<1>5. u = [cell |-> t.cell, pos |-> y * SCREEN_CX]
  <2>1. t.pos - CursorX(t) = y * SCREEN_CX
    BY <1>3, <1>4, Sizes
  <2>2. t = [cell |-> t.cell, pos |-> t.pos]
    BY <1>1 DEF Screens
  <2> QED
    BY <2>1, <2>2 DEF CrtpKeyCR
<1>6. CursorY(u) = y /\ CursorX(u) = 0
  <2>1. 0 \in 0 .. (SCREEN_CX - 1) /\ y * SCREEN_CX + 0 = y * SCREEN_CX
    BY <1>4, Sizes
  <2>2. (y * SCREEN_CX) \div SCREEN_CX = y /\ (y * SCREEN_CX) % SCREEN_CX = 0
    BY <2>1, DivisionIs, Sizes
  <2> QED
    BY <1>5, <2>2 DEF CursorX, CursorY
<1>7. y <= SCREEN_CY - 1
  <2>1. y >= SCREEN_CY => y * SCREEN_CX >= SCREEN_CY * SCREEN_CX
    BY Sizes
  <2> QED
    BY <1>1, <1>3, <1>4, <2>1, Sizes DEF Size
<1> HIDE DEF u
<1>8. CASE y = SCREEN_CY - 1
  <2>1. v = [cell |-> CrtpScrollOneLine(t.cell), pos |-> Size - (SCREEN_CX - 0)]
    BY <1>5, <1>6, <1>8 DEF CrtpKeyLF
  <2>2. v.pos = (SCREEN_CY - 1) * SCREEN_CX /\ v.pos \in 0 .. (Size - 1)
    BY <2>1, Sizes
  <2>3. CrtpScrollOneLine(t.cell) \in [Cells -> Chars]
    BY <1>1, ScrolledCells
  <2>4. v \in Screens
    BY <2>1, <2>2, <2>3, Sizes DEF Screens
  <2> QED
    BY <1>2, <2>4
<1>9. CASE y < SCREEN_CY - 1
  <2>1. v = [cell |-> t.cell, pos |-> y * SCREEN_CX + SCREEN_CX]
    BY <1>3, <1>5, <1>6, <1>9, Sizes DEF CrtpKeyLF
  <2>2. (y + 1) * SCREEN_CX = y * SCREEN_CX + SCREEN_CX /\ y + 1 \in Nat
    BY Sizes
  <2>3. (y + 1) * SCREEN_CX <= (SCREEN_CY - 1) * SCREEN_CX
    BY <1>9, <2>2, Sizes
  <2>4. v.pos \in 0 .. (Size - 1)
    BY <1>4, <2>1, <2>2, <2>3, Sizes
  <2>5. v \in Screens
    BY <1>1, <2>1, <2>4, Sizes DEF Screens
  <2> QED
    BY <1>2, <2>5
<1> QED
  BY <1>3, <1>7, <1>8, <1>9, Sizes

LEMMA CharPrinted ==
    ASSUME NEW s \in Screens, NEW c \in Chars
    PROVE  PrintChar(s, c) \in Screens
<1> DEFINE t == InScreen(s)
<1>1. t \in Screens /\ t.pos < Size /\ t.pos \in Nat /\ t.cell \in [Cells -> Chars] /\ Blank \in Chars
  BY Scrolled, Sizes DEF Screens, Chars
<1>2. CASE c = LF
  BY <1>1, <1>2 DEF PrintChar, CR, LF, BS, TAB
<1>3. CASE c = CR
  BY <1>3, ReturnPrinted
<1> HIDE DEF t
<1>4. CASE c = BS
  <2>1. PrintChar(s, c) = CrtpKeyBackspace(t)
    BY <1>4 DEF PrintChar, t, LF, CR, BS, TAB
  <2>2. CASE t.pos < 1
    BY <1>1, <2>1, <2>2 DEF CrtpKeyBackspace
  <2>3. CASE t.pos >= 1
    <3>1. CrtpKeyBackspace(t) = [cell |-> [t.cell EXCEPT ![t.pos - 1] = Blank], pos |-> t.pos - 1]
      BY <1>1, <2>3 DEF CrtpKeyBackspace
    <3>2. [t.cell EXCEPT ![t.pos - 1] = Blank] \in [Cells -> Chars]
      BY <1>1
    <3> QED
      BY <1>1, <2>1, <2>3, <3>1, <3>2, Sizes DEF Screens
  <2> QED
    BY <1>1, <2>2, <2>3
<1>5. CASE c = TAB
  <2>1. PrintChar(s, c) = KeyTab(t)
    BY <1>5 DEF PrintChar, t, LF, CR, BS, TAB
  <2> DEFINE cell == [d \in Cells |-> IF d \in t.pos .. ((t.pos + DEFAULT_TAB_SIZE) - 1) THEN Blank ELSE t.cell[d]]
  <2>2. cell \in [Cells -> Chars]
    BY <1>1
  <2>4. KeyTab(t) = [cell |-> cell, pos |-> t.pos + DEFAULT_TAB_SIZE]
    BY DEF KeyTab
  <2>3. t.pos + DEFAULT_TAB_SIZE \in 0 .. (Size + DEFAULT_TAB_SIZE - 1)
    BY <1>1, Sizes
  <2> HIDE DEF cell
  <2> QED
    BY <2>1, <2>2, <2>3, <2>4 DEF Screens
<1>6. CASE c \notin {LF, CR, BS, TAB}
  <2>1. PrintChar(s, c) = [cell |-> [t.cell EXCEPT ![t.pos] = c], pos |-> t.pos + 1]
    BY <1>1, <1>6 DEF PrintChar, Put, t
  <2>2. [t.cell EXCEPT ![t.pos] = c] \in [Cells -> Chars]
    BY <1>1
  <2> QED
    BY <1>1, <2>1, <2>2, Sizes DEF Screens
<1> QED
  BY <1>2, <1>3, <1>4, <1>5, <1>6

----------------------------------------------------------------------------
(* Writings.                                                                  *)

\* The screens on the way, after each character.
IsPrinting(shown, s, text) ==
    shown = [i \in 0 .. Len(text) |-> IF i = 0 THEN s ELSE PrintChar(shown[i - 1], text[i])]

LEMMA Printing ==
    ASSUME NEW s, NEW text \in Seq(Chars)
    PROVE  \E shown : IsPrinting(shown, s, text) /\ CrtPrintText(s, text) = shown[Len(text)]
<1> DEFINE Upto(n, f) == f = [i \in 0 .. n |-> IF i = 0 THEN s ELSE PrintChar(f[i - 1], text[i])]
           S == {n \in 0 .. Len(text) : \E f : Upto(n, f)}
<1>1. Len(text) \in Nat
  OBVIOUS
<1>2. 0 \in S
  <2> DEFINE g == [i \in 0 .. 0 |-> s]
  <2>1. g = [i \in 0 .. 0 |-> IF i = 0 THEN s ELSE PrintChar(g[i - 1], text[i])]
    OBVIOUS
  <2> HIDE DEF g
  <2> QED
    BY <1>1, <2>1
<1>3. ASSUME NEW n \in 1 .. Len(text), n - 1 \in S PROVE n \in S
  <2>1. PICK f : Upto(n - 1, f)
    BY <1>3
  <2> DEFINE g == [i \in 0 .. n |-> IF i = n THEN PrintChar(f[n - 1], text[n]) ELSE f[i]]
  <2>2. \A i \in 0 .. (n - 1) : g[i] = f[i]
    BY <1>1
  <2>3. ASSUME NEW i \in 0 .. n
        PROVE  g[i] = IF i = 0 THEN s ELSE PrintChar(g[i - 1], text[i])
    <3>1. CASE i = n
      BY <3>1, <2>2
    <3>2. CASE i # n
      <4>1. i \in 0 .. (n - 1) /\ (i # 0 => i - 1 \in 0 .. (n - 1))
        BY <3>2
      <4>2. f[i] = IF i = 0 THEN s ELSE PrintChar(f[i - 1], text[i])
        BY <2>1, <4>1
      <4> HIDE DEF g
      <4> QED
        BY <2>2, <4>1, <4>2
    <3> QED
      BY <3>1, <3>2
  <2>4. g = [i \in 0 .. n |-> g[i]]
    OBVIOUS
  <2> HIDE DEF g
  <2>5. Upto(n, g)
    BY <2>3, <2>4
  <2> QED
    BY <2>5
<1>4. Len(text) \in S
  <2> HIDE DEF S
  <2>1. \A n \in 0 .. Len(text) : n \in S
    BY <1>1, <1>2, <1>3, Upward
  <2> QED
    BY <1>1, <2>1
<1>5. \E f : Upto(Len(text), f)
  BY <1>4
<1> DEFINE shown == CHOOSE f : Upto(Len(text), f)
<1>6. Upto(Len(text), shown)
  BY <1>5
<1>7. CrtPrintText(s, text) = shown[Len(text)]
  BY DEF CrtPrintText
<1>8. IsPrinting(shown, s, text)
  BY <1>6 DEF IsPrinting
<1> QED
  BY <1>7, <1>8

LEMMA TextPrinted ==
    ASSUME NEW s \in Screens, NEW text \in Seq(Chars)
    PROVE  CrtPrintText(s, text) \in Screens
<1>1. PICK shown : IsPrinting(shown, s, text) /\ CrtPrintText(s, text) = shown[Len(text)]
  BY Printing
<1> DEFINE S == {i \in 0 .. Len(text) : shown[i] \in Screens}
<1>2. Len(text) \in Nat /\ 0 \in S
  BY <1>1 DEF IsPrinting
<1>3. ASSUME NEW i \in 1 .. Len(text), i - 1 \in S PROVE i \in S
  <2>1. shown[i] = PrintChar(shown[i - 1], text[i]) /\ text[i] \in Chars /\ shown[i - 1] \in Screens
    BY <1>1, <1>2, <1>3 DEF IsPrinting
  <2> QED
    BY <2>1, CharPrinted
<1> HIDE DEF S
<1>4. Len(text) \in S
  <2>1. \A i \in 0 .. Len(text) : i \in S
    BY <1>2, <1>3, Upward
  <2> QED
    BY <1>2, <2>1
<1> QED
  BY <1>1, <1>4 DEF S

LEMMA ShortTexts ==
    ASSUME NEW s \in Screens, NEW c \in Chars
    PROVE  CrtPrintText(s, <<c>>) = PrintChar(s, c) /\ CrtPrintText(s, << >>) = s
<1>1. PICK shown : IsPrinting(shown, s, <<c>>) /\ CrtPrintText(s, <<c>>) = shown[1]
  <2>1. <<c>> \in Seq(Chars) /\ Len(<<c>>) = 1
    OBVIOUS
  <2> QED
    BY <2>1, Printing
<1>2. PICK none : IsPrinting(none, s, << >>) /\ CrtPrintText(s, << >>) = none[0]
  <2>1. << >> \in Seq(Chars) /\ Len(<< >>) = 0
    OBVIOUS
  <2> QED
    BY <2>1, Printing
<1>3. shown[1] = PrintChar(shown[0], c) /\ shown[0] = s
  BY <1>1 DEF IsPrinting
<1>4. none[0] = s
  BY <1>2 DEF IsPrinting
<1> QED
  BY <1>1, <1>2, <1>3, <1>4

\* The prompt, from wherever the cursor stands.
LEMMA PromptPrinted ==
    ASSUME NEW s \in Screens
    PROVE  /\ Holds(CrtPrintText(s, Prompt), Prompt)
           /\ CursorX(s) = 0 => AtColumn(CrtPrintText(s, Prompt), SHELL_PROMPT_LENGTH)
<1>1. Prompt \in Seq(Chars) /\ Len(Prompt) \in Nat /\ Len(Prompt) + SCREEN_CX <= Size
  <2>1. Prompt \in Seq(Chars)
    BY WritingsAre DEF Writings
  <2> QED
    BY <2>1, ShellAssumption, Sizes DEF SHELL_PROMPT_LENGTH
<1>2. PICK shown : IsPrinting(shown, s, Prompt) /\ CrtPrintText(s, Prompt) = shown[Len(Prompt)]
  BY <1>1, Printing
<1> DEFINE S == {i \in 0 .. Len(Prompt) : /\ shown[i] \in Screens /\ Holds(shown[i], SubSeq(Prompt, 1, i))
                                          /\ CursorX(s) = 0 => AtColumn(shown[i], i)}
<1>3. 0 \in S
  <2>1. SubSeq(Prompt, 1, 0) = << >>
    BY SubSeqEmpty
  <2>2. shown[0] = s
    BY <1>1, <1>2 DEF IsPrinting
  <2>3. Holds(s, << >>)
    <3>1. s.pos \in Nat /\ s.pos = s.pos + Len(<< >>) /\ 1 .. Len(<< >>) = {}
      BY Sizes DEF Screens
    <3> QED
      BY <3>1 DEF Holds
  <2>4. CursorX(s) = 0 => AtColumn(s, 0)
    <3> SUFFICES ASSUME CursorX(s) = 0 PROVE AtColumn(s, 0)
      OBVIOUS
    <3>1. s.pos \in Nat
      BY Sizes DEF Screens
    <3>2. s.pos \div SCREEN_CX \in Nat /\ s.pos = (s.pos \div SCREEN_CX) * SCREEN_CX + CursorX(s)
      BY <3>1, Sizes, Dividing DEF CursorX
    <3> QED
      BY <3>2 DEF AtColumn
  <2>5. shown[0] \in Screens /\ Holds(shown[0], SubSeq(Prompt, 1, 0))
    BY <2>1, <2>2, <2>3
  <2>6. CursorX(s) = 0 => AtColumn(shown[0], 0)
    BY <2>2, <2>4
  <2> QED
    BY <1>1, <2>5, <2>6
<1>4. ASSUME NEW i \in 1 .. Len(Prompt), i - 1 \in S PROVE i \in S
  <2>1. /\ shown[i] = PrintChar(shown[i - 1], Prompt[i]) /\ Prompt[i] \in Chars
        /\ shown[i - 1] \in Screens /\ Holds(shown[i - 1], SubSeq(Prompt, 1, i - 1))
        /\ CursorX(s) = 0 => AtColumn(shown[i - 1], i - 1)
    BY <1>1, <1>2, <1>4 DEF IsPrinting
  <2>2. Prompt[i] \in Chars \ Controls
    <3>1. Prompt[i] \in Range(Prompt)
      BY <1>1 DEF Range
    <3> QED
      BY <2>1, <3>1, ShellAssumption
  <2> DEFINE part == SubSeq(Prompt, 1, i - 1)
  <2>3. /\ part \in Seq(Chars) /\ Len(part) = i - 1
        /\ Append(part, Prompt[i]) = SubSeq(Prompt, 1, i)
    <3>1. /\ 1 \in 1 .. Len(Prompt) /\ i \in 1 .. Len(Prompt) /\ i \in Int /\ i - 1 \in Int
          /\ \A k \in 1 .. (i - 1) : Prompt[k] \in Chars
      BY <1>1
    <3>2. part \in Seq(Chars) /\ Len(part) = IF 1 <= i - 1 THEN (i - 1) - 1 + 1 ELSE 0
      BY <3>1, SubSeqProperties
    <3>3. SubSeq(Prompt, 1, i) = part \o <<Prompt[i]>>
      BY <1>1, <3>1, SubSeqRecursiveSecond
    <3>4. Append(part, Prompt[i]) = part \o <<Prompt[i]>>
      BY <2>1, <3>2, AppendIsConcat
    <3> QED
      BY <3>1, <3>2, <3>3, <3>4
  <2>4. Len(part) + SCREEN_CX < Size
    BY <1>1, <2>3, Sizes
  <2>5. Holds(shown[i], SubSeq(Prompt, 1, i))
    <3> HIDE DEF part
    <3>1. Holds(shown[i - 1], part)
      BY <2>1 DEF part
    <3>2. Holds(PrintChar(shown[i - 1], Prompt[i]), Append(part, Prompt[i]))
      BY <2>1, <2>2, <2>3, <2>4, <3>1, PlainPrinted
    <3> QED
      BY <2>1, <2>3, <3>2
  <2>6. shown[i] \in Screens
    BY <2>1, CharPrinted
  <2>7. CursorX(s) = 0 => AtColumn(shown[i], i)
    <3> SUFFICES ASSUME CursorX(s) = 0 PROVE AtColumn(shown[i], i)
      OBVIOUS
    <3>1. i - 1 \in Nat /\ (i - 1) + SCREEN_CX <= Size /\ (i - 1) + 1 = i
      BY <1>1, Sizes
    <3>2. AtColumn(shown[i], (i - 1) + 1)
      BY <2>1, <2>2, <3>1, MovedBehind
    <3> QED
      BY <3>1, <3>2
  <2> QED
    BY <2>5, <2>6, <2>7
<1> HIDE DEF S
<1>5. Len(Prompt) \in S
  <2>1. \A i \in 0 .. Len(Prompt) : i \in S
    BY <1>1, <1>3, <1>4, Upward
  <2> QED
    BY <1>1, <2>1
<1> QED
  BY <1>1, <1>2, <1>5, SubSeqFull DEF S, SHELL_PROMPT_LENGTH

----------------------------------------------------------------------------
(* The parser.                                                             *)

LEMMA LineSizes ==
    /\ MAX_CMD_LINE_CHAR \in Nat /\ MAX_CMD_LINE_CHAR >= 2
    /\ Index = 0 .. (MAX_CMD_LINE_CHAR - 1)
    /\ NUL # Space /\ NUL \in Chars /\ Space \in Chars
BY ShellAssumption DEF Chars, Controls, NUL, Space, Blank, Index

LEMMA FirstIs ==
    ASSUME NEW line, NEW i \in Nat, NEW set, NEW k \in Index, i <= k, line[k] \in set
    PROVE  /\ FirstOf(line, i, set) \in i .. k /\ FirstOf(line, i, set) \in Index
           /\ line[FirstOf(line, i, set)] \in set
           /\ \A j \in Index : i <= j /\ j < FirstOf(line, i, set) => line[j] \notin set
<1> DEFINE X == {j \in Index : j >= i /\ line[j] \in set} \cup {MAX_CMD_LINE_CHAR}
<1>1. /\ X \subseteq Nat /\ k \in X /\ Index \subseteq Nat /\ k < MAX_CMD_LINE_CHAR
      /\ MAX_CMD_LINE_CHAR \in Nat
  BY ShellAssumption DEF Index
<1>2. \E m \in X : \A y \in X : m <= y
  <2> HIDE DEF X
  <2> QED
    BY <1>1, LeastOf
<1>3. FirstOf(line, i, set) = CHOOSE m \in X : \A y \in X : m <= y
  BY DEF FirstOf, Min
<1>4. FirstOf(line, i, set) \in X /\ \A y \in X : FirstOf(line, i, set) <= y
  <2> HIDE DEF X
  <2> QED
    BY <1>2, <1>3
<1>5. /\ FirstOf(line, i, set) \in Nat /\ k \in Nat /\ FirstOf(line, i, set) <= k
      /\ FirstOf(line, i, set) # MAX_CMD_LINE_CHAR
  BY <1>1, <1>4
<1>6. ASSUME NEW j \in Index, i <= j, j < FirstOf(line, i, set) PROVE line[j] \notin set
  <2>1. j \in Nat /\ j \notin X
    BY <1>1, <1>4, <1>5, <1>6
  <2> QED
    BY <1>6, <2>1
<1> QED
  BY <1>4, <1>5, <1>6

\* A beginning of a text and what follows it there.
LEMMA Follows ==
    ASSUME NEW text \in Seq(Chars), NEW p \in Seq(Chars), NEW q \in Seq(Chars),
           \A i \in 1 .. Len(p) : p[i] = text[i], \A i \in 1 .. Len(q) : q[i] = text[Len(p) + i]
    PROVE  /\ p \o q \in Seq(Chars) /\ Len(p \o q) = Len(p) + Len(q)
           /\ \A i \in 1 .. Len(p \o q) : (p \o q)[i] = text[i]
<1>1. /\ p \o q \in Seq(Chars) /\ Len(p \o q) = Len(p) + Len(q)
      /\ \A i \in 1 .. Len(p) + Len(q) : (p \o q)[i] = IF i <= Len(p) THEN p[i] ELSE q[i - Len(p)]
  BY ConcatProperties
<1>2. Len(p) \in Nat /\ Len(q) \in Nat
  OBVIOUS
<1>3. ASSUME NEW i \in 1 .. (Len(p) + Len(q)) PROVE (p \o q)[i] = text[i]
  <2>1. CASE i <= Len(p)
    BY <1>1, <1>2, <2>1
  <2>2. CASE i > Len(p)
    <3>1. i - Len(p) \in 1 .. Len(q) /\ Len(p) + (i - Len(p)) = i
      BY <1>2, <2>2
    <3>2. q[i - Len(p)] = text[i]
      BY <3>1
    <3> QED
      BY <1>1, <1>2, <2>2, <3>2
  <2> QED
    BY <1>2, <2>1, <2>2
<1> QED
  BY <1>1, <1>3

\* A text is its four parts, one after another.
LEMMA Joined ==
    ASSUME NEW text \in Seq(Chars), NEW a \in Nat, NEW b \in Nat, NEW c \in Nat,
           a <= b, b <= c, c <= Len(text)
    PROVE  text = [i \in 1 .. a |-> text[i]] \o [i \in 1 .. (b - a) |-> text[a + i]]
                      \o [i \in 1 .. (c - b) |-> text[b + i]]
                      \o [i \in 1 .. (Len(text) - c) |-> text[c + i]]
<1> DEFINE n == Len(text)
           A == [i \in 1 .. a |-> text[i]]
           B == [i \in 1 .. (b - a) |-> text[a + i]]
           C == [i \in 1 .. (c - b) |-> text[b + i]]
           D == [i \in 1 .. (n - c) |-> text[c + i]]
<1>1. n \in Nat /\ \A i \in 1 .. n : text[i] \in Chars
  BY ElementOfSeq
<1>2. A \in Seq(Chars) /\ Len(A) = a
  <2>1. A \in [1 .. a -> Chars]
    BY <1>1
  <2> QED
    BY <2>1, SeqDef
<1>3. B \in Seq(Chars) /\ Len(B) = b - a
  <2>1. B \in [1 .. (b - a) -> Chars] /\ b - a \in Nat
    BY <1>1
  <2> QED
    BY <2>1, SeqDef
<1>4. C \in Seq(Chars) /\ Len(C) = c - b
  <2>1. C \in [1 .. (c - b) -> Chars] /\ c - b \in Nat
    BY <1>1
  <2> QED
    BY <2>1, SeqDef
<1>5. D \in Seq(Chars) /\ Len(D) = n - c
  <2>1. D \in [1 .. (n - c) -> Chars] /\ n - c \in Nat
    BY <1>1
  <2> QED
    BY <2>1, SeqDef
<1>6. /\ \A i \in 1 .. a : A[i] = text[i]
      /\ \A i \in 1 .. (b - a) : B[i] = text[a + i]
      /\ \A i \in 1 .. (c - b) : C[i] = text[b + i]
      /\ \A i \in 1 .. (n - c) : D[i] = text[c + i]
  OBVIOUS
<1> HIDE DEF n, A, B, C, D
<1>7. /\ A \o B \in Seq(Chars) /\ Len(A \o B) = b
      /\ \A i \in 1 .. b : (A \o B)[i] = text[i]
  <2>1. a + (b - a) = b
    OBVIOUS
  <2>2. /\ \A i \in 1 .. Len(A) : A[i] = text[i]
        /\ \A i \in 1 .. Len(B) : B[i] = text[Len(A) + i]
    BY <1>2, <1>3, <1>6
  <2>3. /\ A \o B \in Seq(Chars) /\ Len(A \o B) = Len(A) + Len(B)
        /\ \A i \in 1 .. Len(A \o B) : (A \o B)[i] = text[i]
    BY <1>2, <1>3, <2>2, Follows
  <2> QED
    BY <1>2, <1>3, <2>1, <2>3
<1>8. /\ A \o B \o C \in Seq(Chars) /\ Len(A \o B \o C) = c
      /\ \A i \in 1 .. c : (A \o B \o C)[i] = text[i]
  <2>1. b + (c - b) = c
    OBVIOUS
  <2>2. /\ \A i \in 1 .. Len(A \o B) : (A \o B)[i] = text[i]
        /\ \A i \in 1 .. Len(C) : C[i] = text[Len(A \o B) + i]
    BY <1>7, <1>4, <1>6
  <2>3. /\ A \o B \o C \in Seq(Chars) /\ Len(A \o B \o C) = Len(A \o B) + Len(C)
        /\ \A i \in 1 .. Len(A \o B \o C) : (A \o B \o C)[i] = text[i]
    BY <1>7, <1>4, <2>2, Follows
  <2> QED
    BY <1>7, <1>4, <2>1, <2>3
<1>9. /\ A \o B \o C \o D \in Seq(Chars) /\ Len(A \o B \o C \o D) = n
      /\ \A i \in 1 .. n : (A \o B \o C \o D)[i] = text[i]
  <2>1. c + (n - c) = n
    BY <1>1
  <2>2. /\ \A i \in 1 .. Len(A \o B \o C) : (A \o B \o C)[i] = text[i]
        /\ \A i \in 1 .. Len(D) : D[i] = text[Len(A \o B \o C) + i]
    BY <1>8, <1>5, <1>6
  <2>3. /\ A \o B \o C \o D \in Seq(Chars) /\ Len(A \o B \o C \o D) = Len(A \o B \o C) + Len(D)
        /\ \A i \in 1 .. Len(A \o B \o C \o D) : (A \o B \o C \o D)[i] = text[i]
    BY <1>8, <1>5, <2>2, Follows
  <2> QED
    BY <1>8, <1>5, <2>1, <2>3
<1>10. A \o B \o C \o D = text
  BY <1>9, SeqEqual DEF n
<1> QED
  BY <1>10 DEF n, A, B, C, D

\* What is on the line when it is parsed.
LineOf(line, n) == [i \in 1 .. n |-> line[i - 1]]

CommandOf(parsed) ==
    IF parsed.cmd = << >> THEN NoCommand ELSE [cmd |-> parsed.cmd, params |-> parsed.params]

\* A character is stored in the array, or nothing of the array changes.
LEMMA StoredIs ==
    ASSUME NEW line \in [Index -> Chars], NEW i, NEW c \in Chars
    PROVE  /\ Stored(line, i, c) \in [Index -> Chars]
           /\ i \in Index => Stored(line, i, c)[i] = c
           /\ \A j \in Index : j # i => Stored(line, i, c)[j] = line[j]
<1>1. CASE i \in Index
  <2>1. Stored(line, i, c) = [line EXCEPT ![i] = c]
    BY <1>1 DEF Stored
  <2> QED
    BY <1>1, <2>1
<1>2. CASE i \notin Index
  BY <1>2 DEF Stored
<1> QED
  BY <1>1, <1>2

\* A line of spaces: the search for the end of the command begins behind the
\* NUL.  Unless that is the last character of the array another is found there
\* at the latest.
LEMMA SpacesParsed ==
    ASSUME NEW line \in [Index -> Chars], NEW n \in Index, line[n] = NUL,
           line[MAX_CMD_LINE_CHAR - 1] = NUL, CommandAt(line) = n,
           \A j \in 0 .. (n - 1) : line[j] = Space
    PROVE  /\ Parsed(line).line \in [Index -> Chars]
           /\ Parsed(line).line[MAX_CMD_LINE_CHAR - 1] = NUL
           /\ IsSplit(LineOf(line, n), CommandOf(Parsed(line)))
           /\ n < MAX_CMD_LINE_CHAR - 1 => Parsed(line).inside
<1> DEFINE end == FirstOf(line, n + 1, {NUL, Space})
           cut == Stored(line, end, NUL)
           last == MAX_CMD_LINE_CHAR - 1
           rest == IF end \in Index /\ line[end] = Space
                   THEN FirstOf(cut, end + 1, Range(cut) \ {Space}) ELSE end
<1>1. /\ n \in Nat /\ last \in Index /\ last \in Nat /\ n + 1 \in Nat /\ n <= last
      /\ Index = 0 .. last /\ NUL # Space /\ NUL \in Chars
  BY LineSizes DEF Index
<1>4. /\ Parsed(line).line = cut /\ Parsed(line).cmd = StringAt(cut, n)
      /\ Parsed(line).inside = ({n, end, rest} \subseteq Index)
  BY DEF Parsed
<1>2. ASSUME n < last PROVE end \in (n + 1) .. last /\ end \in Index
  <2>1. n + 1 <= last /\ line[last] \in {NUL, Space}
    BY <1>1, <1>2
  <2> QED
    BY <1>1, <2>1, FirstIs
<1> HIDE DEF end
<1>5. /\ cut \in [Index -> Chars] /\ cut[last] = NUL /\ cut[n] = NUL
  <2>1. cut = line \/ (end \in Index /\ cut = [line EXCEPT ![end] = NUL])
    BY DEF Stored
  <2> HIDE DEF cut
  <2>2. CASE cut = line
    BY <1>1, <2>2
  <2>3. CASE end \in Index /\ cut = [line EXCEPT ![end] = NUL]
    BY <1>1, <2>3
  <2> QED
    BY <2>1, <2>2, <2>3
<1> HIDE DEF cut
<1>6. FirstOf(cut, n, {NUL}) \in n .. n
  <2>1. n \in Nat /\ n <= n /\ cut[n] \in {NUL}
    BY <1>1, <1>5
  <2> QED
    BY <1>1, <2>1, FirstIs
<1>7. StringAt(cut, n) = << >>
  <2>1. FirstOf(cut, n, {NUL}) = n
    BY <1>1, <1>6
  <2>2. StringAt(cut, n) = [k \in 1 .. (n - n) |-> cut[n + k - 1]]
    BY <2>1 DEF StringAt
  <2>3. 1 .. (n - n) = {}
    BY <1>1
  <2> QED
    BY <2>2, <2>3
<1>8. Range(LineOf(line, n)) \subseteq {Space}
  <2>1. ASSUME NEW i \in 1 .. n PROVE line[i - 1] = Space
    BY <1>1
  <2> QED
    BY <2>1 DEF Range, LineOf
<1>9. ASSUME n < last PROVE {n, end, rest} \subseteq Index
  <2>1. end \in (n + 1) .. last /\ end \in Index
    BY <1>2, <1>9
  <2>2. CASE line[end] = Space
    <3>1. end + 1 \in Nat /\ end + 1 <= last
      BY <1>1, <2>1, <2>2
    <3>2. cut[last] \in Range(cut) \ {Space}
      BY <1>1, <1>5 DEF Range
    <3>3. FirstOf(cut, end + 1, Range(cut) \ {Space}) \in Index
      BY <1>1, <3>1, <3>2, FirstIs
    <3> QED
      BY <2>1, <2>2, <3>3
  <2>3. CASE line[end] # Space
    BY <2>1, <2>3
  <2> QED
    BY <2>2, <2>3
<1> HIDE DEF rest
<1> QED
  BY <1>4, <1>5, <1>7, <1>8, <1>9 DEF IsSplit, CommandOf

\* A line with a word on it: the string at the first is the command, the string at
\* the next, up to the end of the line, are the parameters.
LEMMA WordParsed ==
    ASSUME NEW line \in [Index -> Chars], NEW n \in Index, line[n] = NUL,
           \A j \in 0 .. (n - 1) : line[j] # NUL,
           line[MAX_CMD_LINE_CHAR - 1] = NUL,
           NEW start \in 0 .. (n - 1), CommandAt(line) = start, line[start] # Space,
           \A j \in 0 .. (start - 1) : line[j] = Space
    PROVE  /\ Parsed(line).line \in [Index -> Chars]
           /\ Parsed(line).line[MAX_CMD_LINE_CHAR - 1] = NUL
           /\ IsSplit(LineOf(line, n), CommandOf(Parsed(line)))
           /\ Parsed(line).inside
<1> DEFINE text == LineOf(line, n)
           end == FirstOf(line, start + 1, {NUL, Space})
           cut == Stored(line, end, NUL)
           last == MAX_CMD_LINE_CHAR - 1
           cmd == [k \in 1 .. (end - start) |-> line[start + k - 1]]
           second == FirstOf(cut, end + 1, Range(cut) \ {Space})
           rest == IF end \in Index /\ line[end] = Space THEN second ELSE end
           spaces(k) == [i \in 1 .. k |-> Space]
<1>1. /\ n \in Nat /\ n \in Index /\ last \in Index /\ start + 1 \in Nat /\ n <= last /\ Index = 0 .. last
      /\ start \in Nat /\ start < n /\ NUL \in Chars /\ NUL # Space /\ last \in Nat
  BY LineSizes DEF Index
<1>2. /\ end \in (start + 1) .. n /\ end \in Index /\ line[end] \in {NUL, Space}
      /\ \A j \in Index : start + 1 <= j /\ j < end => line[j] \notin {NUL, Space}
  <2>1. start + 1 <= n /\ line[n] \in {NUL, Space}
    BY <1>1
  <2> QED
    BY <1>1, <2>1, FirstIs
<1> HIDE DEF end
<1>3. /\ cut \in [Index -> Chars] /\ cut[last] = NUL /\ cut[end] = NUL
      /\ \A j \in Index : j # end => cut[j] = line[j]
  <2>1. cut \in [Index -> Chars]
    BY <1>1, StoredIs
  <2>2. cut[end] = NUL
    BY <1>1, <1>2, StoredIs
  <2>3. \A j \in Index : j # end => cut[j] = line[j]
    BY <1>1, StoredIs
  <2> HIDE DEF cut
  <2>4. cut[last] = NUL
    BY <1>1, <2>2, <2>3
  <2> QED
    BY <2>1, <2>2, <2>3, <2>4
<1>4. /\ text \in Seq(Chars) /\ Len(text) = n /\ \A i \in 1 .. n : text[i] = line[i - 1]
  <2>1. \A i \in 1 .. n : line[i - 1] \in Chars
    BY <1>1
  <2>2. text \in [1 .. n -> Chars]
    BY <2>1 DEF LineOf
  <2> QED
    BY <1>1, <2>2, SeqDef DEF LineOf
<1> HIDE DEF text
<1>5. StringAt(cut, start) = cmd
  <2>1. /\ FirstOf(cut, start, {NUL}) \in start .. end
        /\ cut[FirstOf(cut, start, {NUL})] \in {NUL}
    <3>1. start <= end /\ cut[end] \in {NUL}
      BY <1>1, <1>2, <1>3
    <3> HIDE DEF cut
    <3> QED
      BY <1>1, <1>2, <3>1, FirstIs
  <2>2. ASSUME NEW j \in start .. (end - 1) PROVE cut[j] # NUL
    <3>1. j \in Index /\ cut[j] = line[j]
      BY <1>1, <1>2, <1>3
    <3>2. CASE j = start
      BY <1>1, <3>1, <3>2
    <3>3. CASE j # start
      <4>1. start + 1 <= j /\ j < end
        BY <1>1, <1>2, <3>3
      <4> QED
        BY <1>2, <3>1, <4>1
    <3> QED
      BY <3>2, <3>3
  <2>3. FirstOf(cut, start, {NUL}) = end
    BY <1>1, <1>2, <2>1, <2>2
  <2>4. ASSUME NEW k \in 1 .. (end - start) PROVE cut[start + k - 1] = line[start + k - 1]
    <3>1. start + k - 1 \in Index /\ start + k - 1 # end
      BY <1>1, <1>2
    <3> QED
      BY <1>3, <3>1
  <2> HIDE DEF cut
  <2> QED
    BY <2>3, <2>4 DEF StringAt
<1>6. /\ Parsed(line).line = cut /\ Parsed(line).cmd = cmd
      /\ Parsed(line).params = StringAt(cut, rest)
      /\ Parsed(line).inside = ({start, end, rest} \subseteq Index)
  BY <1>5 DEF Parsed, end
<1> HIDE DEF cut
<1>7. cmd # << >> /\ Space \notin Range(cmd)
  <2>1. end - start >= 1 /\ 1 \in DOMAIN cmd
    BY <1>1, <1>2
  <2>2. cmd # << >>
    BY <2>1
  <2>3. ASSUME NEW k \in 1 .. (end - start) PROVE line[start + k - 1] # Space
    <3>1. CASE k = 1
      BY <1>1, <3>1
    <3>2. CASE k > 1
      <4>1. start + k - 1 \in Index /\ start + 1 <= start + k - 1 /\ start + k - 1 < end
        BY <1>1, <1>2, <3>2
      <4> QED
        BY <1>2, <4>1
    <3> QED
      BY <3>1, <3>2
  <2> QED
    BY <2>2, <2>3 DEF Range
<1>8. /\ [i \in 1 .. start |-> text[i]] = spaces(start)
      /\ [i \in 1 .. (end - start) |-> text[start + i]] = cmd
  <2>1. ASSUME NEW i \in 1 .. start PROVE text[i] = Space
    BY <1>1, <1>4
  <2>2. ASSUME NEW i \in 1 .. (end - start) PROVE text[start + i] = line[start + i - 1]
    BY <1>1, <1>2, <1>4
  <2> QED
    BY <2>1, <2>2
<1>9. CASE line[end] = NUL
  <2>1. end = n
    BY <1>1, <1>2, <1>9
  <2>2. text = [i \in 1 .. start |-> text[i]] \o [i \in 1 .. (end - start) |-> text[start + i]]
                   \o [i \in 1 .. (end - end) |-> text[end + i]]
                   \o [i \in 1 .. (Len(text) - end) |-> text[end + i]]
    BY <1>1, <1>2, <1>4, Joined
  <2>3. [i \in 1 .. (end - end) |-> text[end + i]] = spaces(0)
    BY <1>1, <1>2
  <2>4. [i \in 1 .. (Len(text) - end) |-> text[end + i]] = << >>
    BY <1>1, <1>4, <2>1
  <2> DEFINE command == [cmd |-> cmd, params |-> << >>]
  <2>10. rest = end
    BY <1>1, <1>9
  <2>11. StringAt(cut, end) = << >>
    <3>1. end \in Nat /\ end <= end /\ cut[end] \in {NUL}
      BY <1>1, <1>2, <1>3
    <3>2. FirstOf(cut, end, {NUL}) \in end .. end
      BY <1>2, <3>1, FirstIs
    <3>3. FirstOf(cut, end, {NUL}) = end
      BY <3>1, <3>2
    <3>4. StringAt(cut, end) = [k \in 1 .. (end - end) |-> cut[end + k - 1]]
      BY <3>3 DEF StringAt
    <3>5. 1 .. (end - end) = {}
      BY <3>1
    <3> QED
      BY <3>4, <3>5
  <2>12. Parsed(line).inside
    <3>1. {start, end, rest} \subseteq Index
      BY <1>1, <1>2, <2>10
    <3> HIDE DEF rest
    <3> QED
      BY <1>6, <3>1, Zenon
  <2>5. CommandOf(Parsed(line)) = command
    BY <1>6, <1>7, <2>10, <2>11 DEF CommandOf
  <2>6. text = spaces(start) \o command.cmd \o spaces(0) \o command.params
    BY <1>8, <2>2, <2>3, <2>4
  <2>7. start \in 0 .. Len(text) /\ 0 \in 0 .. Len(text)
    BY <1>1, <1>4
  <2>8. command.cmd # << >> /\ Space \notin Range(command.cmd) /\ command.params = << >>
    BY <1>7
  <2> HIDE DEF cmd, command
  <2>9. IsSplit(text, command)
    BY <2>6, <2>7, <2>8 DEF IsSplit
  <2> QED
    BY <1>3, <1>6, <2>5, <2>9, <2>12 DEF text
<1>10. CASE line[end] # NUL
  <2>1. end < n /\ line[end] = Space
    BY <1>1, <1>2, <1>10
  <2>2. cut[n] = NUL /\ n \in DOMAIN cut /\ DOMAIN cut = Index
    BY <1>1, <1>2, <1>3, <2>1
  <2>3. cut[n] \in Range(cut) \ {Space}
    BY <1>1, <2>2 DEF Range
  <2>4. /\ second \in (end + 1) .. n /\ second \in Index /\ cut[second] \in Range(cut) \ {Space}
        /\ \A j \in Index : end + 1 <= j /\ j < second => cut[j] \notin Range(cut) \ {Space}
    <3>1. end + 1 \in Nat /\ end + 1 <= n
      BY <1>1, <1>2, <2>1
    <3> QED
      BY <1>1, <2>3, <3>1, FirstIs
  <2> HIDE DEF second
  <2>5. FirstOf(cut, second, {NUL}) = n
    <3>1. FirstOf(cut, second, {NUL}) \in second .. n /\ cut[FirstOf(cut, second, {NUL})] \in {NUL}
      <4>1. second \in Nat /\ second <= n /\ cut[n] \in {NUL}
        BY <1>1, <1>2, <2>2, <2>4
      <4> QED
        BY <1>1, <4>1, FirstIs
    <3>2. ASSUME NEW j \in second .. (n - 1) PROVE cut[j] # NUL
      <4>1. j \in Index /\ j # end /\ j \in 0 .. (n - 1)
        BY <1>1, <1>2, <2>4
      <4> QED
        BY <1>3, <4>1
    <3> QED
      BY <1>1, <2>4, <3>1, <3>2
  <2> DEFINE params == [k \in 1 .. (n - second) |-> cut[second + k - 1]]
             command == [cmd |-> cmd, params |-> params]
             between == second - end
  <2>6. StringAt(cut, second) = params
    BY <2>5 DEF StringAt
  <2>16. rest = second
    BY <1>2, <2>1
  <2>17. Parsed(line).inside
    <3>1. {start, end, rest} \subseteq Index
      BY <1>1, <1>2, <2>4, <2>16
    <3> HIDE DEF rest
    <3> QED
      BY <1>6, <3>1, Zenon
  <2>7. CommandOf(Parsed(line)) = command
    BY <1>6, <1>7, <2>6, <2>16 DEF CommandOf
  <2>8. text = [i \in 1 .. start |-> text[i]] \o [i \in 1 .. (end - start) |-> text[start + i]]
                   \o [i \in 1 .. (second - end) |-> text[end + i]]
                   \o [i \in 1 .. (Len(text) - second) |-> text[second + i]]
    <3>1. end \in Nat /\ second \in Nat /\ start <= end /\ end <= second /\ second <= Len(text)
      BY <1>1, <1>2, <1>4, <2>4
    <3> QED
      BY <1>1, <1>4, <3>1, Joined
  <2>9. [i \in 1 .. (second - end) |-> text[end + i]] = spaces(between)
    <3>1. ASSUME NEW i \in 1 .. (second - end) PROVE text[end + i] = Space
      <4>1. end + i - 1 \in Index /\ end + i \in 1 .. n
        BY <1>1, <1>2, <2>4
      <4>2. text[end + i] = line[end + i - 1]
        <5>1. (end + i) - 1 = end + i - 1
          BY <1>1, <1>2
        <5> QED
          BY <1>4, <4>1, <5>1
      <4>3. CASE i = 1
        BY <1>2, <2>1, <4>2, <4>3
      <4>4. CASE i > 1
        <5>1. end + 1 <= end + i - 1 /\ end + i - 1 < second /\ end + i - 1 # end
          BY <1>1, <1>2, <2>4, <4>4
        <5>2. cut[end + i - 1] \notin Range(cut) \ {Space} /\ cut[end + i - 1] \in Range(cut)
          BY <2>2, <2>4, <4>1, <5>1 DEF Range
        <5>3. cut[end + i - 1] = line[end + i - 1]
          BY <1>3, <4>1, <5>1
        <5> QED
          BY <4>2, <5>2, <5>3
      <4> QED
        BY <4>3, <4>4
    <3> QED
      BY <3>1
  <2>10. [i \in 1 .. (Len(text) - second) |-> text[second + i]] = params
    <3>1. ASSUME NEW i \in 1 .. (n - second) PROVE text[second + i] = cut[second + i - 1]
      <4>1. second + i - 1 \in Index /\ second + i - 1 # end /\ second + i \in 1 .. n /\ (second + i) - 1 = second + i - 1
        BY <1>1, <1>2, <2>4
      <4> QED
        BY <1>3, <1>4, <4>1
    <3> QED
      BY <1>4, <3>1
  <2>11. params # << >> => Head(params) # Space
    <3>1. CASE second = n
      BY <3>1, <1>1
    <3>2. CASE second < n
      <4>1. 1 \in 1 .. (n - second) /\ second + 1 - 1 = second
        BY <1>1, <2>4, <3>2
      <4>2. Head(params) = cut[second]
        BY <4>1
      <4> QED
        BY <2>4, <4>2
    <3> QED
      BY <1>1, <2>4, <3>1, <3>2
  <2>12. start \in 0 .. Len(text) /\ between \in 0 .. Len(text) /\ between # 0
    BY <1>1, <1>2, <1>4, <2>4
  <2>13. text = spaces(start) \o command.cmd \o spaces(between) \o command.params
    <3> HIDE DEF cmd, params
    <3> QED
      BY <1>8, <2>8, <2>9, <2>10
  <2>14. /\ command.cmd # << >> /\ Space \notin Range(command.cmd)
         /\ command.params # << >> => Head(command.params) # Space
    <3> HIDE DEF cmd, params
    <3> QED
      BY <1>7, <2>11
  <2> HIDE DEF cmd, params, command, between
  <2>15. IsSplit(text, command)
    BY <2>12, <2>13, <2>14 DEF IsSplit
  <2> QED
    BY <1>3, <1>6, <2>7, <2>15, <2>17 DEF text
<1> QED
  BY <1>9, <1>10

LEMMA LineParsed ==
    ASSUME NEW line \in [Index -> Chars], NEW n \in Index, line[n] = NUL,
           \A j \in 0 .. (n - 1) : line[j] # NUL, line[MAX_CMD_LINE_CHAR - 1] = NUL
    PROVE  /\ Parsed(line).line \in [Index -> Chars]
           /\ Parsed(line).line[MAX_CMD_LINE_CHAR - 1] = NUL
           /\ IsSplit(LineOf(line, n), CommandOf(Parsed(line)))
           /\ n < MAX_CMD_LINE_CHAR - 1 => Parsed(line).inside
<1>1. n \in Nat /\ n \in Index /\ DOMAIN line = Index /\ 0 \in Nat /\ 0 <= n /\ NUL # Space
      /\ \A j \in 0 .. n : j \in Index
  BY LineSizes DEF Index
<1>2. line[n] \in Range(line) \ {Space}
  BY <1>1 DEF Range
<1>3. /\ CommandAt(line) \in 0 .. n /\ line[CommandAt(line)] \in Range(line) \ {Space}
      /\ \A j \in Index : 0 <= j /\ j < CommandAt(line) => line[j] \notin Range(line) \ {Space}
  BY <1>1, <1>2, FirstIs DEF CommandAt
<1>4. ASSUME NEW j \in 0 .. (CommandAt(line) - 1) PROVE line[j] = Space
  <2>1. j \in Index /\ 0 <= j /\ j < CommandAt(line)
    BY <1>1, <1>3
  <2>2. line[j] \in Range(line)
    BY <1>1, <2>1 DEF Range
  <2> QED
    BY <1>3, <2>1, <2>2
<1>5. CASE CommandAt(line) = n
  BY <1>4, <1>5, SpacesParsed
<1>6. CASE CommandAt(line) # n
  <2>1. CommandAt(line) \in 0 .. (n - 1)
    BY <1>1, <1>3, <1>6
  <2> QED
    BY <1>3, <1>4, <2>1, WordParsed
<1> QED
  BY <1>5, <1>6

----------------------------------------------------------------------------
(* The inductive invariant.                                                *)

\* A line that begins its row and has no tabs: the cursor is behind the prompt by
\* no more cells than the line has characters.  A line without tabs and NULs: it
\* is on the screen.
ScreenInv ==
    /\ screen \in Screens
    /\ ~stray /\ quirks \cap {"tab", "inside"} = {} =>
           \E v \in 0 .. cmd_next_pos : AtColumn(screen, SHELL_PROMPT_LENGTH + v)
    /\ ~stray /\ quirks \cap {"tab", "nul"} = {} => Holds(screen, Prompt \o typed)

\* The array has the line, and a NUL at its end until that is typed over.
LineKept ==
    /\ cmd_next_pos \in 0 .. MAX_CMD_LINE_CHAR /\ typed = LineOf(m_CmdLine, cmd_next_pos)
    /\ cmd_next_pos >= MAX_CMD_LINE_CHAR - 1 => "long" \in quirks
    /\ cmd_next_pos < MAX_CMD_LINE_CHAR => m_CmdLine[MAX_CMD_LINE_CHAR - 1] = NUL

LineInv ==
    /\ m_CmdLine \in [Index -> Chars]
    /\ stray => quirks \cap {"tab", "inside", "long"} # {}
    /\ ~stray => LineKept

ShellInv == ScreenInv /\ LineInv /\ RunsWhatWasTyped

LEMMA LineOfIs ==
    ASSUME NEW line \in [Index -> Chars], NEW n \in 0 .. MAX_CMD_LINE_CHAR
    PROVE  /\ LineOf(line, n) \in Seq(Chars) /\ Len(LineOf(line, n)) = n
           /\ \A i \in 1 .. n : LineOf(line, n)[i] = line[i - 1]
<1>1. n \in Nat /\ \A i \in 1 .. n : line[i - 1] \in Chars
  BY LineSizes DEF Index
<1> QED
  BY <1>1 DEF LineOf

\* The line is a text the screen has room for behind the prompt.
LEMMA LineIs ==
    ASSUME m_CmdLine \in [Index -> Chars], LineKept
    PROVE  /\ cmd_next_pos \in Nat /\ cmd_next_pos <= MAX_CMD_LINE_CHAR
           /\ typed \in Seq(Chars) /\ Len(typed) = cmd_next_pos
           /\ \A i \in 1 .. cmd_next_pos : typed[i] = m_CmdLine[i - 1]
           /\ Prompt \in Seq(Chars) /\ Prompt \o typed \in Seq(Chars)
           /\ SHELL_PROMPT_LENGTH \in Nat /\ SHELL_PROMPT_LENGTH = Len(Prompt)
           /\ Len(Prompt \o typed) = SHELL_PROMPT_LENGTH + cmd_next_pos
           /\ Len(Prompt \o typed) + SCREEN_CX <= Size
           /\ cmd_next_pos < MAX_CMD_LINE_CHAR => Len(Prompt \o typed) + SCREEN_CX < Size
<1>1. cmd_next_pos \in 0 .. MAX_CMD_LINE_CHAR /\ cmd_next_pos \in Nat /\ cmd_next_pos <= MAX_CMD_LINE_CHAR
  BY LineSizes DEF LineKept
<1>2. /\ typed \in Seq(Chars) /\ Len(typed) = cmd_next_pos
      /\ \A i \in 1 .. cmd_next_pos : typed[i] = m_CmdLine[i - 1]
  BY <1>1, LineOfIs DEF LineKept
<1>3. Prompt \in Seq(Chars)
  BY WritingsAre DEF Writings
<1>4. /\ Prompt \o typed \in Seq(Chars) /\ Len(Prompt \o typed) = SHELL_PROMPT_LENGTH + cmd_next_pos
      /\ SHELL_PROMPT_LENGTH \in Nat /\ SHELL_PROMPT_LENGTH = Len(Prompt)
  <2>1. Prompt \o typed \in Seq(Chars) /\ Len(Prompt \o typed) = Len(Prompt) + Len(typed)
    BY <1>2, <1>3, ConcatProperties
  <2>2. Len(Prompt) \in Nat
    BY <1>3
  <2> QED
    BY <1>2, <2>1, <2>2 DEF SHELL_PROMPT_LENGTH
<1>5. SHELL_PROMPT_LENGTH + MAX_CMD_LINE_CHAR + SCREEN_CX <= Size /\ SCREEN_CX \in Nat /\ Size \in Nat
  BY Sizes, ShellAssumption
<1> QED
  BY <1>1, <1>2, <1>3, <1>4, <1>5, LineSizes

\* So many cells behind the start of a row, the column is no larger.
LEMMA RowsLeft ==
    ASSUME NEW b \in Nat \ {0}, NEW r \in Nat, NEW x \in Nat, NEW a, a = r * b + x
    PROVE  a % b <= x
<1> DEFINE q == x \div b
           y == x % b
<1>1. q \in Nat /\ y \in 0 .. (b - 1) /\ x = q * b + y
  BY Dividing
<1>2. a = (r + q) * b + y /\ r + q \in Nat /\ q * b \in Nat
  <2> HIDE DEF q, y
  <2> QED
    BY <1>1
<1> HIDE DEF q, y
<1>3. a % b = y
  BY <1>1, <1>2, DivisionIs
<1> QED
  BY <1>1, <1>2, <1>3

\* After an access outside the array only its cause is remembered.
LEMMA Strayed ==
    ASSUME screen' \in Screens, m_CmdLine' \in [Index -> Chars], stray',
           quirks' \cap {"tab", "inside", "long"} # {}
    PROVE  ShellInv'
BY DEF ShellInv, ScreenInv, LineInv, RunsWhatWasTyped

LEMMA AccessOf ==
    ASSUME NEW i, NEW new, Accesses(i, new)
    PROVE  /\ stray => stray' /\ quirks' = quirks
           /\ i \notin Index => stray'
           /\ ~stray /\ i \in Index => ~stray'
           /\ ~stray => quirks' = quirks \cup new
<1>1. stray' = (stray \/ i \notin Index)
  BY DEF Accesses
<1>2. (stray => stray') /\ (i \notin Index => stray') /\ (~stray /\ i \in Index => ~stray')
  BY <1>1, Zenon
<1>3. (stray => quirks' = quirks) /\ (~stray => quirks' = quirks \cup new)
  BY DEF Accesses
<1> QED
  BY <1>2, <1>3

\* A character that is printed and kept.
LEMMA CharacterStep ==
    ASSUME ShellInv, NEW c \in Keys, Character(c)
    PROVE  ShellInv'
<1> DEFINE n == cmd_next_pos
           line == m_CmdLine'
           kept == IF c = TAB THEN Space ELSE c
<1>1. /\ c \in Chars /\ c \notin {BS, CR, LF} /\ kept \in Chars
      /\ c \notin {NUL, TAB} => c \notin Controls
  BY LineSizes, ShellAssumption DEF Controls, Character, Chars
<1>2. /\ screen' = CrtPrintText(screen, IF c = NUL THEN << >> ELSE <<c>>)
      /\ line = Stored(m_CmdLine, n, kept)
      /\ Accesses(n, QuirkOf(c))
      /\ cmd_next_pos' = n + 1 /\ typed' = Append(typed, kept)
      /\ entered' = entered /\ ran' = ran
  BY DEF Character
<1> HIDE DEF kept
<1>3. screen \in Screens /\ m_CmdLine \in [Index -> Chars]
  BY DEF ShellInv, ScreenInv, LineInv
<1>4. /\ screen' \in Screens
      /\ c = NUL => screen' = screen
      /\ c # NUL => screen' = PrintChar(screen, c)
  BY <1>1, <1>2, <1>3, ShortTexts, CharPrinted
<1>5. /\ n \in Index => line[n] = kept
      /\ \A j \in Index : j # n => line[j] = m_CmdLine[j]
  <2>2. n \in Index => Stored(m_CmdLine, n, kept)[n] = kept
    BY <1>1, <1>3, StoredIs
  <2>3. \A j \in Index : j # n => Stored(m_CmdLine, n, kept)[j] = m_CmdLine[j]
    BY <1>1, <1>3, StoredIs
  <2> QED
    BY <1>2, <2>2, <2>3
<1>6. line \in [Index -> Chars]
  <2>1. Stored(m_CmdLine, n, kept) \in [Index -> Chars]
    BY <1>1, <1>3, StoredIs
  <2> QED
    BY <1>2, <2>1
<1>7. /\ stray => stray' /\ quirks' = quirks
      /\ n \notin Index => stray'
      /\ ~stray /\ n \in Index => ~stray'
      /\ ~stray => quirks' = quirks \cup QuirkOf(c)
  BY <1>2, AccessOf
<1>8. CASE stray
  <2>1. quirks \cap {"tab", "inside", "long"} # {}
    BY <1>8 DEF ShellInv, LineInv
  <2> QED
    BY <1>4, <1>6, <1>7, <1>8, <2>1, Strayed
<1>9. CASE ~stray /\ n \notin Index
  <2>1. LineKept
    BY <1>9 DEF ShellInv, LineInv
  <2>2. n >= MAX_CMD_LINE_CHAR - 1
    BY <1>9, <2>1, LineSizes DEF LineKept
  <2>3. "long" \in quirks'
    BY <1>7, <1>9, <2>1, <2>2 DEF LineKept
  <2> HIDE DEF n, line
  <2> QED
    BY <1>4, <1>6, <1>7, <1>9, <2>3, Strayed DEF line
<1>10. CASE ~stray /\ n \in Index
  <2>1. LineKept /\ ~stray' /\ quirks' = quirks \cup QuirkOf(c)
    BY <1>7, <1>10 DEF ShellInv, LineInv
  <2>2. /\ n \in Nat /\ n < MAX_CMD_LINE_CHAR /\ n + 1 \in 0 .. MAX_CMD_LINE_CHAR
        /\ MAX_CMD_LINE_CHAR \in Nat
    BY <1>10, LineSizes
  <2>3. /\ typed \in Seq(Chars) /\ Len(typed) = n /\ \A i \in 1 .. n : typed[i] = m_CmdLine[i - 1]
        /\ Prompt \in Seq(Chars) /\ Prompt \o typed \in Seq(Chars)
        /\ SHELL_PROMPT_LENGTH \in Nat /\ SHELL_PROMPT_LENGTH = Len(Prompt)
        /\ Len(Prompt \o typed) = SHELL_PROMPT_LENGTH + n
        /\ Len(Prompt \o typed) + SCREEN_CX < Size
    BY <1>3, <2>1, <2>2, LineIs
  <2>4. Append(typed, kept) = LineOf(line, n + 1)
    <3> HIDE DEF line
    <3>2. /\ LineOf(line, n + 1) \in Seq(Chars) /\ Len(LineOf(line, n + 1)) = n + 1
          /\ \A i \in 1 .. (n + 1) : LineOf(line, n + 1)[i] = line[i - 1]
      BY <2>2, <1>6, LineOfIs
    <3>3. ASSUME NEW i \in 1 .. n PROVE line[i - 1] = typed[i]
      <4>1. i - 1 \in Index /\ i - 1 # n /\ typed[i] = m_CmdLine[i - 1]
        BY <2>2, <2>3 DEF Index
      <4> QED
        BY <4>1, <1>5
    <3>4. line[(n + 1) - 1] = kept
      BY <2>2, <1>5, <1>10
    <3>5. /\ Append(typed, kept) \in Seq(Chars) /\ Len(Append(typed, kept)) = n + 1
          /\ Append(typed, kept)[n + 1] = kept /\ \A i \in 1 .. n : Append(typed, kept)[i] = typed[i]
      BY <1>1, <2>2, <2>3
    <3>6. ASSUME NEW i \in 1 .. (n + 1) PROVE Append(typed, kept)[i] = LineOf(line, n + 1)[i]
      <4>1. i \in 1 .. n \/ i = n + 1
        BY <2>2
      <4> QED
        BY <4>1, <3>2, <3>3, <3>4, <3>5
    <3> HIDE DEF n
    <3> QED
      BY <3>2, <3>5, <3>6, SeqEqual
  <2>5. n + 1 >= MAX_CMD_LINE_CHAR - 1 => "long" \in quirks'
    BY <2>1 DEF QuirkOf
  <2>6. n + 1 < MAX_CMD_LINE_CHAR => line[MAX_CMD_LINE_CHAR - 1] = NUL
    <3> SUFFICES ASSUME n + 1 < MAX_CMD_LINE_CHAR PROVE line[MAX_CMD_LINE_CHAR - 1] = NUL
      OBVIOUS
    <3>1. MAX_CMD_LINE_CHAR - 1 \in Index /\ MAX_CMD_LINE_CHAR - 1 # n
      BY <2>2 DEF Index
    <3>2. m_CmdLine[MAX_CMD_LINE_CHAR - 1] = NUL
      BY <2>1, <2>2 DEF LineKept
    <3> QED
      BY <1>5, <3>1, <3>2
  <2>7. LineInv'
    <3>1. LineKept'
      BY <1>2, <2>2, <2>4, <2>5, <2>6 DEF LineKept
    <3> QED
      BY <1>6, <2>1, <3>1 DEF LineInv
  <2>8. ASSUME quirks' \cap {"tab", "inside"} = {}
        PROVE  \E v \in 0 .. cmd_next_pos' : AtColumn(screen', SHELL_PROMPT_LENGTH + v)
    <3>1. quirks \cap {"tab", "inside"} = {} /\ c # TAB
      BY <2>1, <2>8 DEF QuirkOf
    <3>2. PICK v \in 0 .. n : AtColumn(screen, SHELL_PROMPT_LENGTH + v)
      BY <1>10, <3>1 DEF ShellInv, ScreenInv
    <3>3. v \in Nat /\ v \in 0 .. (n + 1) /\ v + 1 \in 0 .. (n + 1)
      BY <2>2
    <3>4. CASE c = NUL
      BY <1>2, <1>4, <3>2, <3>3, <3>4
    <3>5. CASE c # NUL
      <4>1. c \in Chars \ Controls
        BY <1>1, <3>1, <3>5
      <4>2. PICK k \in Nat : k = SHELL_PROMPT_LENGTH + v /\ k + SCREEN_CX <= Size
                             /\ k + 1 = SHELL_PROMPT_LENGTH + (v + 1)
        BY <2>2, <2>3, <3>3, Sizes
      <4>3. AtColumn(PrintChar(screen, c), k + 1)
        BY <1>3, <3>2, <4>1, <4>2, MovedBehind
      <4> QED
        BY <1>2, <1>4, <3>3, <3>5, <4>2, <4>3
    <3> QED
      BY <3>4, <3>5
  <2>9. ASSUME quirks' \cap {"tab", "nul"} = {}
        PROVE  Holds(screen', Prompt \o typed')
    <3>1. quirks \cap {"tab", "nul"} = {} /\ c # TAB /\ c # NUL
      BY <2>1, <2>9 DEF QuirkOf
    <3>2. Holds(screen, Prompt \o typed) /\ c \in Chars \ Controls /\ kept = c
      BY <1>1, <1>10, <3>1 DEF ShellInv, ScreenInv, kept
    <3>3. Prompt \o Append(typed, c) = Append(Prompt \o typed, c)
      BY <1>1, <2>3
    <3>4. Holds(PrintChar(screen, c), Append(Prompt \o typed, c))
      BY <1>3, <2>3, <3>2, PlainPrinted
    <3> QED
      BY <1>2, <1>4, <3>1, <3>2, <3>3, <3>4
  <2>10. ScreenInv'
    BY <1>4, <2>8, <2>9 DEF ScreenInv
  <2>11. RunsWhatWasTyped'
    <3>1. IsSplit(Cut(entered), ran)
      BY <1>10 DEF ShellInv, RunsWhatWasTyped
    <3>2. IsSplit(Cut(entered'), ran')
      BY <1>2, <3>1
    <3> QED
      BY <3>2 DEF RunsWhatWasTyped, IsSplit, Cut, NoCommand
  <2> QED
    BY <2>7, <2>10, <2>11 DEF ShellInv
<1> QED
  BY <1>8, <1>9, <1>10

\* What is in front of the last character of a text behind the prompt.
LEMMA FrontBehind ==
    ASSUME NEW text \in Seq(Chars), text # << >>, Prompt \in Seq(Chars)
    PROVE  /\ Front(text) \in Seq(Chars) /\ Len(Front(text)) = Len(text) - 1
           /\ \A i \in 1 .. (Len(text) - 1) : Front(text)[i] = text[i]
           /\ Front(Prompt \o text) = Prompt \o Front(text)
<1> DEFINE all == Prompt \o text
           n == Len(text)
           p == Len(Prompt)
           front == Front(text)
<1>1. n \in Nat \ {0} /\ p \in Nat
  BY EmptySeq
<1>2. /\ front \in Seq(Chars) /\ Len(front) = n - 1
      /\ \A i \in 1 .. (n - 1) : front[i] = text[i]
  BY FrontIs
<1> HIDE DEF front
<1>3. /\ all \in Seq(Chars) /\ Len(all) = p + n
      /\ \A i \in 1 .. (p + n) : all[i] = IF i <= p THEN Prompt[i] ELSE text[i - p]
  BY ConcatProperties
<1>4. /\ Prompt \o front \in Seq(Chars) /\ Len(Prompt \o front) = p + (n - 1)
      /\ \A i \in 1 .. (p + (n - 1)) :
            (Prompt \o front)[i] = IF i <= p THEN Prompt[i] ELSE front[i - p]
  <2>1. front \in Seq(Chars)
    BY <1>2
  <2>2. /\ Prompt \o front \in Seq(Chars) /\ Len(Prompt \o front) = Len(Prompt) + Len(front)
        /\ \A i \in 1 .. Len(Prompt) + Len(front) :
              (Prompt \o front)[i] = IF i <= Len(Prompt) THEN Prompt[i] ELSE front[i - Len(Prompt)]
    BY <2>1, ConcatProperties
  <2> HIDE DEF n
  <2>3. Len(Prompt) + Len(front) = p + (n - 1)
    BY <1>2
  <2> QED
    BY <2>2, <2>3
<1> HIDE DEF all, p, n
<1>5. /\ Front(all) \in Seq(Chars) /\ Len(Front(all)) = (p + n) - 1
      /\ \A i \in 1 .. ((p + n) - 1) : Front(all)[i] = all[i]
  <2>1. all \in Seq(Chars) /\ all # << >>
    BY <1>1, <1>3
  <2> QED
    BY <1>3, <2>1, FrontIs
<1>6. (p + n) - 1 = p + (n - 1)
  BY <1>1
<1>7. ASSUME NEW i \in 1 .. (p + (n - 1)) PROVE Front(all)[i] = (Prompt \o front)[i]
  <2>1. i \in 1 .. (p + n) /\ i \in Int /\ p \in Int /\ (~ i <= p => i - p \in 1 .. (n - 1))
    BY <1>1
  <2>2. Front(all)[i] = all[i]
    BY <1>5, <1>6
  <2>3. CASE i <= p
    BY <1>3, <1>4, <2>1, <2>2, <2>3
  <2>4. CASE ~ i <= p
    <3>1. front[i - p] = text[i - p]
      BY <1>2, <2>1, <2>4
    <3> QED
      BY <1>3, <1>4, <2>1, <2>2, <2>4, <3>1
  <2> QED
    BY <2>3, <2>4
<1>8. Front(all) = Prompt \o front
  BY <1>4, <1>5, <1>6, <1>7, SeqEqual
<1> QED
  BY <1>2, <1>8 DEF all, n, front

\* Backspace is refused at the prompt, so it finds a character to take back.
LEMMA BackspaceStep ==
    ASSUME ShellInv, Backspace
    PROVE  ShellInv'
<1> DEFINE n == cmd_next_pos
           line == m_CmdLine'
<1>1. entered' = entered /\ ran' = ran /\ screen \in Screens /\ m_CmdLine \in [Index -> Chars]
  BY DEF ShellInv, Backspace, ScreenInv, LineInv
<1>2. CASE UNCHANGED <<screen, m_CmdLine, cmd_next_pos, stray, quirks, typed>>
  BY <1>1, <1>2
     DEF ShellInv, ScreenInv, LineInv, LineKept, RunsWhatWasTyped, IsSplit, Cut, NoCommand
<1>3. CASE /\ ~AtPrompt(screen)
           /\ cmd_next_pos' = cmd_next_pos - 1
           /\ m_CmdLine' = Stored(m_CmdLine, cmd_next_pos', NUL)
           /\ Accesses(cmd_next_pos', {})
           /\ screen' = CrtPrintText(screen, <<BS>>)
           /\ typed' = IF typed = << >> THEN << >> ELSE Front(typed)
  <2>1. /\ stray => stray' /\ quirks' = quirks
        /\ cmd_next_pos' \notin Index => stray'
        /\ ~stray /\ cmd_next_pos' \in Index => ~stray'
        /\ ~stray => quirks' = quirks
    <3>1. Accesses(cmd_next_pos', {})
      BY <1>3
    <3> QED
      BY <3>1, AccessOf
  <2>2. BS \in Chars /\ NUL \in Chars
    BY DEF Chars, Controls
  <2>3. screen' = PrintChar(screen, BS) /\ screen' \in Screens
    BY <1>1, <1>3, <2>2, ShortTexts, CharPrinted
  <2>4. line \in [Index -> Chars]
    BY <1>1, <1>3, <2>2, StoredIs
  <2>5. \A j \in Index : j # cmd_next_pos' => line[j] = m_CmdLine[j]
    BY <1>1, <1>3, <2>2, StoredIs
  <2>6. cmd_next_pos' \in Index => line[cmd_next_pos'] = NUL
    BY <1>1, <1>3, <2>2, StoredIs
  <2>7. CASE stray
    <3>1. quirks' \cap {"tab", "inside", "long"} # {}
      BY <2>1, <2>7 DEF ShellInv, LineInv
    <3> QED
      BY <2>1, <2>3, <2>4, <2>7, <3>1, Strayed
  <2>8. CASE ~stray
    <3>1. LineKept
      BY <2>8 DEF ShellInv, LineInv
    <3>2. /\ n \in Nat /\ n <= MAX_CMD_LINE_CHAR /\ MAX_CMD_LINE_CHAR \in Nat
          /\ typed \in Seq(Chars) /\ Len(typed) = n
          /\ \A i \in 1 .. n : typed[i] = m_CmdLine[i - 1]
          /\ Prompt \in Seq(Chars) /\ Prompt \o typed \in Seq(Chars)
          /\ SHELL_PROMPT_LENGTH \in Nat /\ SHELL_PROMPT_LENGTH = Len(Prompt)
          /\ Len(Prompt \o typed) = SHELL_PROMPT_LENGTH + n
          /\ Len(Prompt \o typed) + SCREEN_CX <= Size
      BY <1>1, <3>1, LineIs, LineSizes
    <3>3. ASSUME quirks \cap {"tab", "inside"} = {}
          PROVE  n # 0 /\ \E v \in 0 .. (n - 1) : AtColumn(screen', SHELL_PROMPT_LENGTH + v)
      <4>1. PICK v \in 0 .. n : AtColumn(screen, SHELL_PROMPT_LENGTH + v)
        BY <2>8, <3>3 DEF ShellInv, ScreenInv
      <4>2. v # 0
        <5> SUFFICES ASSUME v = 0 PROVE FALSE
          OBVIOUS
        <5>1. PICK row \in Nat : screen.pos = row * SCREEN_CX + (SHELL_PROMPT_LENGTH + v)
          BY <4>1 DEF AtColumn
        <5>2. screen.pos = row * SCREEN_CX + SHELL_PROMPT_LENGTH
          BY <3>2, <5>1
        <5>3. screen.pos % SCREEN_CX <= SHELL_PROMPT_LENGTH
          BY <3>2, <5>2, Sizes, RowsLeft
        <5> QED
          BY <1>3, <5>3 DEF AtPrompt, CursorX
      <4>3. v - 1 \in 0 .. (n - 1) /\ n # 0
        BY <3>2, <4>2
      <4>4. PICK k \in Nat : /\ k = SHELL_PROMPT_LENGTH + v /\ k + SCREEN_CX <= Size /\ k # 0
                             /\ k - 1 = SHELL_PROMPT_LENGTH + (v - 1)
        <5>1. PICK p \in Nat : p = SHELL_PROMPT_LENGTH
          BY <3>2
        <5>2. /\ p + v \in Nat /\ (p + v) + SCREEN_CX <= Size /\ p + v # 0
              /\ (p + v) - 1 = p + (v - 1)
          BY <3>2, <4>2, <5>1, Sizes
        <5> QED
          BY <5>1, <5>2
      <4>5. AtColumn(PrintChar(screen, BS), k - 1)
        BY <1>1, <4>1, <4>4, MovedBehind
      <4> QED
        BY <2>3, <4>3, <4>4, <4>5
    <3>4. CASE n = 0
      <4>1. cmd_next_pos' \notin Index
        BY <1>3, <3>4, LineSizes
      <4>2. quirks' \cap {"tab", "inside", "long"} # {}
        BY <2>1, <2>8, <3>3, <3>4
      <4> QED
        BY <2>1, <2>3, <2>4, <4>1, <4>2, Strayed
    <3>5. CASE n # 0
      <4>1. cmd_next_pos' = n - 1 /\ n - 1 \in Index /\ n - 1 \in 0 .. MAX_CMD_LINE_CHAR
        BY <1>3, <3>2, <3>5 DEF Index
      <4>2. ~stray' /\ quirks' = quirks
        BY <2>1, <2>8, <4>1
      <4>3. typed' = Front(typed) /\ typed # << >>
        BY <1>3, <3>2, <3>5
      <4>4. /\ Front(typed) \in Seq(Chars) /\ Len(Front(typed)) = n - 1
            /\ \A i \in 1 .. (n - 1) : Front(typed)[i] = typed[i]
            /\ Front(Prompt \o typed) = Prompt \o Front(typed)
        <5> HIDE DEF n
        <5> QED
          BY <3>2, <4>3, FrontBehind
      <4>5. Front(typed) = LineOf(line, n - 1)
        <5> HIDE DEF line
        <5>1. /\ LineOf(line, n - 1) \in Seq(Chars) /\ Len(LineOf(line, n - 1)) = n - 1
              /\ \A i \in 1 .. (n - 1) : LineOf(line, n - 1)[i] = line[i - 1]
          BY <2>4, <4>1, LineOfIs
        <5>2. ASSUME NEW i \in 1 .. (n - 1) PROVE Front(typed)[i] = LineOf(line, n - 1)[i]
          <6>1. i - 1 \in Index /\ i - 1 # n - 1 /\ i \in 1 .. n
            BY <3>2, <4>1 DEF Index
          <6> QED
            BY <6>1, <5>1, <3>2, <2>5, <4>1, <4>4
        <5> HIDE DEF n
        <5> QED
          BY <4>4, <5>1, <5>2, SeqEqual
      <4>6. line[MAX_CMD_LINE_CHAR - 1] = NUL
        <5>1. MAX_CMD_LINE_CHAR - 1 \in Index
          BY LineSizes
        <5>2. CASE n = MAX_CMD_LINE_CHAR
          BY <2>6, <4>1, <5>1, <5>2
        <5>3. CASE n < MAX_CMD_LINE_CHAR
          <6>1. m_CmdLine[MAX_CMD_LINE_CHAR - 1] = NUL /\ MAX_CMD_LINE_CHAR - 1 # n - 1
            BY <3>1, <3>2, <5>3 DEF LineKept
          <6> QED
            BY <2>5, <4>1, <5>1, <6>1
        <5> QED
          BY <3>2, <5>2, <5>3
      <4>7. LineInv'
        <5>1. n - 1 >= MAX_CMD_LINE_CHAR - 1 => "long" \in quirks'
          BY <3>1, <3>2, <4>2 DEF LineKept
        <5>2. LineKept'
          BY <4>1, <4>3, <4>5, <4>6, <5>1 DEF LineKept
        <5> QED
          BY <2>4, <4>2, <5>2 DEF LineInv
      <4>8. ASSUME quirks' \cap {"tab", "nul"} = {}
            PROVE  Holds(screen', Prompt \o typed')
        <5>1. Holds(screen, Prompt \o typed)
          BY <2>8, <4>2, <4>8 DEF ShellInv, ScreenInv
        <5>2. Prompt \o typed # << >>
          BY <3>2, <3>5
        <5>3. Holds(PrintChar(screen, BS), Front(Prompt \o typed))
          BY <1>1, <3>2, <5>1, <5>2, BackspacePrinted
        <5> QED
          BY <2>3, <4>3, <4>4, <5>3
      <4>9. ScreenInv'
        <5>1. ASSUME quirks' \cap {"tab", "inside"} = {}
              PROVE  \E v \in 0 .. cmd_next_pos' : AtColumn(screen', SHELL_PROMPT_LENGTH + v)
          BY <3>3, <4>1, <4>2, <5>1
        <5> QED
          BY <2>3, <4>8, <5>1 DEF ScreenInv
      <4>10. RunsWhatWasTyped'
        <5>1. IsSplit(Cut(entered), ran)
          BY <2>8 DEF ShellInv, RunsWhatWasTyped
        <5>2. IsSplit(Cut(entered'), ran')
          BY <1>1, <5>1
        <5> QED
          BY <5>2 DEF RunsWhatWasTyped, IsSplit, Cut, NoCommand
      <4> QED
        BY <4>7, <4>9, <4>10 DEF ShellInv
    <3> QED
      BY <3>4, <3>5
  <2> QED
    BY <2>7, <2>8
<1> QED
  BY <1>2, <1>3 DEF Backspace

\* A line as the shell takes it ends at the first NUL.
LEMMA CutIs ==
    ASSUME NEW text \in Seq(Chars), NEW m \in 0 .. Len(text), \A i \in 1 .. m : text[i] # NUL,
           m = Len(text) \/ text[m + 1] = NUL
    PROVE  Cut(text) = [i \in 1 .. m |-> text[i]]
<1> DEFINE before == {k \in 0 .. Len(text) : NUL \notin Range(SubSeq(text, 1, k))}
<1>1. Len(text) \in Nat /\ m \in Nat
  OBVIOUS
<1>2. ASSUME NEW k \in 0 .. Len(text)
      PROVE  SubSeq(text, 1, k) = [i \in 1 .. k |-> text[i]]
  BY <1>1
<1>3. m \in before
  BY <1>1, <1>2 DEF Range
<1>4. ASSUME NEW k \in before PROVE k <= m
  <2> SUFFICES ASSUME k > m PROVE FALSE
    BY <1>1
  <2>1. k \in 0 .. Len(text) /\ m + 1 \in 1 .. k /\ m # Len(text)
    BY <1>1
  <2>2. text[m + 1] = NUL
    BY <2>1
  <2>3. NUL \in Range(SubSeq(text, 1, k))
    BY <1>2, <2>1, <2>2 DEF Range
  <2> QED
    BY <2>3
<1>5. before \subseteq Nat
  BY <1>1
<1> HIDE DEF before
<1>6. Max(before) = m
  <2>1. \A k \in before : m >= k
    BY <1>1, <1>4, <1>5
  <2>2. ASSUME NEW x \in before, \A k \in before : x >= k PROVE x = m
    <3>1. x >= m /\ x <= m /\ x \in Nat
      BY <1>3, <1>4, <1>5, <2>2
    <3> QED
      BY <1>1, <3>1
  <2> QED
    BY <1>3, <2>1, <2>2 DEF Max
<1>7. Cut(text) = SubSeq(text, 1, m)
  BY <1>6 DEF Cut, before
<1> QED
  BY <1>2, <1>7

\* The line a prompt begins.
LEMMA Prompted ==
    ASSUME NEW s \in Screens
    PROVE  /\ CrtPrintText(s, Prompt) \in Screens
           /\ Holds(CrtPrintText(s, Prompt), Prompt \o << >>)
           /\ QuirkOfPrompt(s) \cap {"tab", "inside"} = {} =>
                 \E v \in 0 .. 0 : AtColumn(CrtPrintText(s, Prompt), SHELL_PROMPT_LENGTH + v)
<1>1. Prompt \in Seq(Chars)
  BY WritingsAre DEF Writings
<1>2. Prompt \o << >> = Prompt /\ SHELL_PROMPT_LENGTH \in Nat
  BY <1>1, ConcatEmptySeq DEF SHELL_PROMPT_LENGTH
<1>3. CrtPrintText(s, Prompt) \in Screens /\ Holds(CrtPrintText(s, Prompt), Prompt)
  BY <1>1, TextPrinted, PromptPrinted
<1>4. ASSUME QuirkOfPrompt(s) \cap {"tab", "inside"} = {}
      PROVE  \E v \in 0 .. 0 : AtColumn(CrtPrintText(s, Prompt), SHELL_PROMPT_LENGTH + v)
  <2>1. CursorX(s) = 0
    BY <1>4 DEF QuirkOfPrompt
  <2>2. AtColumn(CrtPrintText(s, Prompt), SHELL_PROMPT_LENGTH)
    BY <2>1, PromptPrinted
  <2>3. 0 \in 0 .. 0 /\ SHELL_PROMPT_LENGTH + 0 = SHELL_PROMPT_LENGTH
    BY <1>2
  <2> QED
    BY <2>2, <2>3
<1> QED
  BY <1>2, <1>3, <1>4

LEMMA Cleared == CrtClearScreen \in Screens
<1>1. [c \in Cells |-> Blank] \in [Cells -> Chars]
  BY DEF Chars
<1>2. 0 \in 0 .. (Size + DEFAULT_TAB_SIZE - 1)
  BY Sizes
<1> QED
  BY <1>1, <1>2 DEF Screens, CrtClearScreen

\* Where a line's string ends, and what the parser makes of it.
LEMMA ParsedIs ==
    ASSUME NEW line \in [Index -> Chars], NEW n \in Index, line[n] = NUL,
           line[MAX_CMD_LINE_CHAR - 1] = NUL,
           NEW after,
           after = IF line[0] = NUL
                   THEN [line |-> line, cmd |-> << >>, params |-> << >>, inside |-> TRUE]
                   ELSE Parsed(line)
    PROVE  /\ after.line \in [Index -> Chars] /\ after.line[MAX_CMD_LINE_CHAR - 1] = NUL
           /\ n < MAX_CMD_LINE_CHAR - 1 => after.inside
           /\ IsSplit(Cut(LineOf(line, n)), CommandOf(after))
<1> DEFINE X == {j \in 0 .. n : line[j] = NUL}
<1>1. n \in Nat /\ n \in 0 .. MAX_CMD_LINE_CHAR /\ MAX_CMD_LINE_CHAR \in Nat /\ X \subseteq Nat /\ X # {}
      /\ \A j \in 0 .. n : j \in Index
  BY LineSizes DEF Index
<1>2. PICK m \in X : \A j \in X : m <= j
  <2> HIDE DEF X
  <2> QED
    BY <1>1, LeastOf
<1>3. m \in 0 .. n /\ m \in Nat /\ m \in Index /\ line[m] = NUL
  BY <1>1, <1>2
<1>4. ASSUME NEW j \in 0 .. (m - 1) PROVE line[j] # NUL
  <2>1. j \in 0 .. n /\ ~ m <= j
    BY <1>1, <1>3
  <2> QED
    BY <1>2, <2>1
<1>5. Cut(LineOf(line, n)) = LineOf(line, m)
  <2> DEFINE text == LineOf(line, n)
  <2>1. text \in Seq(Chars) /\ Len(text) = n /\ \A i \in 1 .. n : text[i] = line[i - 1]
    BY <1>1, LineOfIs
  <2> HIDE DEF text
  <2>2. ASSUME NEW i \in 1 .. m PROVE text[i] = line[i - 1] /\ text[i] # NUL
    <3>1. i \in 1 .. n /\ i - 1 \in 0 .. (m - 1)
      BY <1>1, <1>3
    <3> QED
      BY <1>4, <2>1, <3>1
  <2>3. m = Len(text) \/ text[m + 1] = NUL
    <3> SUFFICES ASSUME m # n PROVE text[m + 1] = NUL
      BY <2>1
    <3>1. m + 1 \in 1 .. n /\ (m + 1) - 1 = m
      BY <1>1, <1>3
    <3> QED
      BY <1>3, <2>1, <3>1
  <2>4. Cut(text) = [i \in 1 .. m |-> text[i]]
    BY <1>3, <2>1, <2>2, <2>3, CutIs
  <2>5. [i \in 1 .. m |-> text[i]] = [i \in 1 .. m |-> line[i - 1]]
    BY <2>2
  <2> QED
    BY <2>4, <2>5 DEF text, LineOf
<1>6. CASE line[0] = NUL
  <2>1. m = 0
    BY <1>1, <1>2, <1>3, <1>6
  <2>2. after = [line |-> line, cmd |-> << >>, params |-> << >>, inside |-> TRUE]
    BY <1>6
  <2>3. Range(LineOf(line, m)) = {}
    BY <2>1 DEF LineOf, Range
  <2>4. CommandOf(after) = NoCommand
    BY <2>2 DEF CommandOf
  <2>5. IsSplit(LineOf(line, m), CommandOf(after))
    BY <2>3, <2>4 DEF IsSplit
  <2>6. after.inside /\ after.line = line
    BY <2>2
  <2> QED
    BY <1>5, <2>5, <2>6
<1>7. CASE line[0] # NUL
  <2>1. after = Parsed(line)
    BY <1>7
  <2>2. m < MAX_CMD_LINE_CHAR - 1 => Parsed(line).inside
    BY <1>3, <1>4, LineParsed
  <2>3. /\ Parsed(line).line \in [Index -> Chars]
        /\ Parsed(line).line[MAX_CMD_LINE_CHAR - 1] = NUL
        /\ IsSplit(LineOf(line, m), CommandOf(Parsed(line)))
    BY <1>3, <1>4, LineParsed
  <2>4. n < MAX_CMD_LINE_CHAR - 1 => m < MAX_CMD_LINE_CHAR - 1
    BY <1>1, <1>3
  <2> QED
    BY <1>5, <2>1, <2>2, <2>3, <2>4
<1> QED
  BY <1>6, <1>7

\* The array after the return key.
LEMMA ParsedLine ==
    ASSUME NEW line \in [Index -> Chars]
    PROVE  Parsed(line).line \in [Index -> Chars]
<1>1. NUL \in Chars
  BY LineSizes
<1> QED
  BY <1>1, StoredIs DEF Parsed

\* The return key.
LEMMA ReturnStep ==
    ASSUME ShellInv, Return
    PROVE  ShellInv'
<1> DEFINE n == cmd_next_pos
           line == Terminated(m_CmdLine, n)
           after == IF line[0] = NUL
                    THEN [line |-> line, cmd |-> << >>, params |-> << >>, inside |-> TRUE]
                    ELSE Parsed(line)
           outside == n \notin Index \/ ~after.inside
           newline == CrtPrintText(screen, <<CR>>)
<1>1. /\ \E s \in IF after.cmd = << >> THEN {newline} ELSE Afterwards(newline) :
             /\ screen' = CrtPrintText(s, Prompt)
             /\ quirks' = IF stray \/ outside THEN quirks ELSE QuirkOfPrompt(s)
      /\ ran' = IF after.cmd = << >> THEN NoCommand
                ELSE [cmd |-> after.cmd, params |-> after.params]
      /\ m_CmdLine' = [after.line EXCEPT ![0] = NUL]
      /\ cmd_next_pos' = 0
      /\ stray' = (stray \/ outside)
      /\ entered' = typed
      /\ typed' = << >>
  BY DEF Return
<1>2. screen \in Screens /\ m_CmdLine \in [Index -> Chars] /\ NUL \in Chars /\ CR \in Chars /\ 0 \in Index
  BY LineSizes DEF ShellInv, ScreenInv, LineInv, Chars, Controls, Index
<1>3. line \in [Index -> Chars]
  BY <1>2, StoredIs DEF Terminated
<1>4. n \in Index => line[n] = NUL
  BY <1>2, StoredIs DEF Terminated
<1>5. \A j \in Index : j # n => line[j] = m_CmdLine[j]
  BY <1>2, StoredIs DEF Terminated
<1>6. newline \in Screens
  BY <1>2, ShortTexts, ReturnPrinted
<1> HIDE DEF line, newline, n
<1>7. PICK s \in {newline} \cup Afterwards(newline) :
             /\ screen' = CrtPrintText(s, Prompt)
             /\ quirks' = IF stray \/ outside THEN quirks ELSE QuirkOfPrompt(s)
  <2>1. CASE after.cmd = << >>
    BY <1>1, <2>1
  <2>2. CASE after.cmd # << >>
    BY <1>1, <2>2
  <2> QED
    BY <2>1, <2>2
<1>8. s \in Screens
  <2>1. CASE \E text \in Outputs : s = CrtPrintText(newline, text)
    <3>1. PICK text \in Outputs : s = CrtPrintText(newline, text)
      BY <2>1
    <3>2. text \in Seq(Chars)
      BY WritingsAre DEF Writings
    <3> QED
      BY <1>6, <3>1, <3>2, TextPrinted
  <2> QED
    BY <1>6, <1>7, <2>1, Cleared DEF Afterwards
<1>9. screen' \in Screens
  BY <1>7, <1>8, Prompted
<1>10. after.line \in [Index -> Chars]
  BY <1>3, ParsedLine
<1>11. m_CmdLine' \in [Index -> Chars]
  <2> HIDE DEF after
  <2> QED
    BY <1>1, <1>2, <1>10
<1>12. /\ stray \/ outside => stray' /\ quirks' = quirks
       /\ ~stray /\ ~outside => ~stray' /\ quirks' = QuirkOfPrompt(s)
  <2> HIDE DEF outside
  <2>1. (stray \/ outside => stray') /\ (~stray /\ ~outside => ~stray')
    BY <1>1, Zenon
  <2>2. (stray \/ outside => quirks' = quirks) /\ (~stray /\ ~outside => quirks' = QuirkOfPrompt(s))
    BY <1>7, Zenon
  <2> QED
    BY <2>1, <2>2
<1> DEFINE isAfter == after
<1>13. CASE stray
  <2>1. quirks' \cap {"tab", "inside", "long"} # {}
    BY <1>12, <1>13 DEF ShellInv, LineInv
  <2> HIDE DEF outside
  <2> QED
    BY <1>9, <1>11, <1>12, <1>13, <2>1, Strayed
<1>14. CASE ~stray
  <2>1. LineKept /\ n \in 0 .. MAX_CMD_LINE_CHAR
    BY <1>14 DEF ShellInv, LineInv, LineKept, n
  <2>2. /\ typed = LineOf(m_CmdLine, n)
        /\ n >= MAX_CMD_LINE_CHAR - 1 => "long" \in quirks
        /\ n < MAX_CMD_LINE_CHAR => m_CmdLine[MAX_CMD_LINE_CHAR - 1] = NUL
    BY <2>1 DEF LineKept, n
  <2>3. MAX_CMD_LINE_CHAR \in Nat /\ MAX_CMD_LINE_CHAR >= 2 /\ Index = 0 .. (MAX_CMD_LINE_CHAR - 1) /\ n \in Nat
    BY <2>1, LineSizes
  <2>4. n \in Index => line[MAX_CMD_LINE_CHAR - 1] = NUL
    <3> SUFFICES ASSUME n \in Index PROVE line[MAX_CMD_LINE_CHAR - 1] = NUL
      OBVIOUS
    <3>1. CASE n = MAX_CMD_LINE_CHAR - 1
      BY <1>4, <3>1
    <3>2. CASE n # MAX_CMD_LINE_CHAR - 1
      BY <1>5, <2>2, <2>3, <3>2
    <3> QED
      BY <3>1, <3>2
  <2>5. n \in Index =>
            /\ after.line[MAX_CMD_LINE_CHAR - 1] = NUL
            /\ n < MAX_CMD_LINE_CHAR - 1 => after.inside
            /\ IsSplit(Cut(LineOf(line, n)), CommandOf(after))
    <3> SUFFICES ASSUME n \in Index
                 PROVE  /\ after.line[MAX_CMD_LINE_CHAR - 1] = NUL
                        /\ n < MAX_CMD_LINE_CHAR - 1 => after.inside
                        /\ IsSplit(Cut(LineOf(line, n)), CommandOf(after))
      OBVIOUS
    <3>1. PICK a : a = after
      OBVIOUS
    <3>2. a = IF line[0] = NUL
              THEN [line |-> line, cmd |-> << >>, params |-> << >>, inside |-> TRUE]
              ELSE Parsed(line)
      BY <3>1
    <3>3. /\ a.line[MAX_CMD_LINE_CHAR - 1] = NUL
          /\ n < MAX_CMD_LINE_CHAR - 1 => a.inside
          /\ IsSplit(Cut(LineOf(line, n)), CommandOf(a))
      BY <1>3, <1>4, <2>4, <3>2, ParsedIs
    <3> HIDE DEF after
    <3> QED
      BY <3>1, <3>3
  <2> HIDE DEF after
  <2>6. CASE outside
    <3>1. n >= MAX_CMD_LINE_CHAR - 1
      BY <2>1, <2>3, <2>5, <2>6
    <3>2. quirks' \cap {"tab", "inside", "long"} # {}
      BY <1>12, <2>2, <2>6, <3>1
    <3> HIDE DEF outside
    <3> QED
      BY <1>9, <1>11, <1>12, <2>6, <3>2, Strayed
  <2>7. CASE ~outside
    <3>1. n \in Index /\ ~stray' /\ quirks' = QuirkOfPrompt(s)
      <4>1. n \in Index
        BY <2>7
      <4> HIDE DEF outside
      <4> QED
        BY <1>12, <1>14, <2>7, <4>1
    <3> HIDE DEF outside
    <3>2. LineInv'
      <4>1. MAX_CMD_LINE_CHAR - 1 \in Index /\ MAX_CMD_LINE_CHAR - 1 # 0 /\ 0 \in 0 .. MAX_CMD_LINE_CHAR
            /\ ~ 0 >= MAX_CMD_LINE_CHAR - 1
        BY <2>3
      <4>2. m_CmdLine'[MAX_CMD_LINE_CHAR - 1] = NUL
        BY <1>1, <1>10, <2>5, <3>1, <4>1
      <4>3. LineOf(m_CmdLine', 0) = << >>
        <5>1. LineOf(m_CmdLine', 0) \in Seq(Chars) /\ Len(LineOf(m_CmdLine', 0)) = 0
          BY <1>11, <4>1, LineOfIs
        <5> QED
          BY <5>1, EmptySeq
      <4>4. cmd_next_pos' = 0 /\ typed' = << >>
        BY <1>1
      <4>5. LineKept'
        BY <4>1, <4>2, <4>3, <4>4 DEF LineKept
      <4> QED
        BY <1>11, <3>1, <4>5 DEF LineInv
    <3>3. ScreenInv'
      <4>1. cmd_next_pos' = 0 /\ typed' = << >>
        BY <1>1
      <4>2. Holds(screen', Prompt \o typed')
        BY <1>7, <1>8, <4>1, Prompted
      <4>3. quirks' \cap {"tab", "inside"} = {} =>
                \E v \in 0 .. cmd_next_pos' : AtColumn(screen', SHELL_PROMPT_LENGTH + v)
        BY <1>7, <1>8, <3>1, <4>1, Prompted
      <4> QED
        BY <1>9, <4>2, <4>3 DEF ScreenInv
    <3>4. RunsWhatWasTyped'
      <4>1. typed = LineOf(line, n)
        <5>1. \A i \in 1 .. n : m_CmdLine[i - 1] = line[i - 1]
          <6>1. \A i \in 1 .. n : i - 1 \in Index /\ i - 1 # n
            BY <2>3, <3>1
          <6> QED
            BY <1>5, <6>1
        <5> QED
          BY <2>2, <5>1 DEF LineOf
      <4>2. ran' = CommandOf(after) /\ entered' = typed
        BY <1>1 DEF CommandOf
      <4>3. IsSplit(Cut(entered'), ran')
        BY <2>5, <3>1, <4>1, <4>2
      <4> QED
        BY <4>3 DEF RunsWhatWasTyped, IsSplit, Cut, NoCommand
    <3> QED
      BY <3>2, <3>3, <3>4 DEF ShellInv
  <2> QED
    BY <2>6, <2>7
<1> QED
  BY <1>13, <1>14

LEMMA Starts ==
    ASSUME Init
    PROVE  ShellInv
<1> DEFINE booted == CrtPrintText(CrtClearScreen, BootText)
<1>1. BootText \in Seq(Chars)
  BY WritingsAre DEF Writings
<1>2. booted \in Screens
  BY <1>1, Cleared, TextPrinted
<1> HIDE DEF booted
<1>3. /\ screen = CrtPrintText(booted, Prompt) /\ quirks = QuirkOfPrompt(booted)
      /\ typed = << >> /\ cmd_next_pos = 0 /\ ~stray
  BY DEF Init, booted
<1>4. ScreenInv
  <2>1. screen \in Screens /\ Holds(screen, Prompt \o typed)
    BY <1>2, <1>3, Prompted
  <2>2. quirks \cap {"tab", "inside"} = {} =>
            \E v \in 0 .. cmd_next_pos : AtColumn(screen, SHELL_PROMPT_LENGTH + v)
    BY <1>2, <1>3, Prompted
  <2> QED
    BY <2>1, <2>2 DEF ScreenInv
<1>5. LineInv
  <2>1. MAX_CMD_LINE_CHAR - 1 \in Index /\ 0 \in 0 .. MAX_CMD_LINE_CHAR /\ NUL \in Chars
        /\ ~ 0 >= MAX_CMD_LINE_CHAR - 1
    BY LineSizes DEF Index
  <2>2. m_CmdLine \in [Index -> Chars] /\ m_CmdLine[MAX_CMD_LINE_CHAR - 1] = NUL
    BY <2>1 DEF Init
  <2>3. LineOf(m_CmdLine, 0) \in Seq(Chars) /\ Len(LineOf(m_CmdLine, 0)) = 0
    BY <2>1, <2>2, LineOfIs
  <2>4. typed = LineOf(m_CmdLine, cmd_next_pos)
    BY <1>3, <2>3, EmptySeq
  <2> QED
    BY <1>3, <2>1, <2>2, <2>4 DEF LineInv, LineKept
<1>6. RunsWhatWasTyped
  <2>1. entered = << >> /\ ran = NoCommand
    BY DEF Init
  <2>2. Cut(<< >>) = [i \in 1 .. 0 |-> << >>[i]]
    <3>1. << >> \in Seq(Chars) /\ 0 \in 0 .. Len(<< >>) /\ 0 = Len(<< >>) /\ 1 .. 0 = {}
      OBVIOUS
    <3> QED
      BY <3>1, CutIs
  <2>3. Range(Cut(entered)) = {}
    BY <2>1, <2>2 DEF Range
  <2> QED
    BY <2>1, <2>3 DEF RunsWhatWasTyped, IsSplit
<1> QED
  BY <1>4, <1>5, <1>6 DEF ShellInv

LEMMA StepKeeps ==
    ASSUME ShellInv, [Next]_vars
    PROVE  ShellInv'
<1>1. CASE Backspace
  BY <1>1, BackspaceStep
<1>2. CASE Return
  BY <1>2, ReturnStep
<1>3. ASSUME NEW c \in Keys, Character(c) PROVE ShellInv'
  BY <1>3, CharacterStep
<1>4. CASE UNCHANGED vars
  BY <1>4 DEF vars, ShellInv, ScreenInv, LineInv, LineKept, RunsWhatWasTyped, IsSplit, Cut, NoCommand
<1> QED
  BY <1>1, <1>2, <1>3, <1>4 DEF Next

----------------------------------------------------------------------------
(* Theorems.                                                               *)

\* On a line that begins its row and has no tab in it the cursor stays behind the
\* start of the prompt's row by the prompt and no more than the line, at all
\* times: what HshpMainThread's comparison of its column with the prompt's
\* length rests on.
THEOREM CursorFollows == Spec => []ShellInv
<1>1. Init => ShellInv
  BY Starts
<1>2. ShellInv /\ [Next]_vars => ShellInv'
  BY StepKeeps
<1> QED
  BY <1>1, <1>2, PTL DEF Spec

\* Whatever keys are pressed and whatever is printed, the shell does not leave
\* m_CmdLine but on a line with a tab, one whose prompt stood inside a row, or
\* one that came to the array's end; and the cursor stays with the screen.
THEOREM LineInBounds == Spec => []WithinLine
<1>1. ShellInv => WithinLine
  <2> SUFFICES ASSUME ShellInv PROVE WithinLine
    OBVIOUS
  <2>1. screen \in Screens
    BY DEF ShellInv, ScreenInv
  <2>2. screen.pos \in 0 .. (Size + DEFAULT_TAB_SIZE - 1) /\ DOMAIN screen.cell = Cells
    BY <2>1 DEF Screens
  <2>3. DOMAIN m_CmdLine = Index /\ (stray => quirks \cap {"tab", "inside", "long"} # {})
    BY DEF ShellInv, LineInv
  <2> QED
    BY <2>2, <2>3 DEF WithinLine, TypeOK
<1> QED
  BY <1>1, CursorFollows, PTL

\* What is on the screen before the cursor is the prompt, wherever it was
\* printed, and the line that will run, across the rows it wraps on and the
\* scrolling this brings.
THEOREM LineOnScreen == Spec => []LineIsShown
<1>1. ShellInv => LineIsShown
  <2> SUFFICES ASSUME ShellInv, ~stray, quirks \cap {"tab", "nul"} = {}
               PROVE  LET shown == Prompt \o [i \in 1 .. cmd_next_pos |-> m_CmdLine[i - 1]]
                      IN  \A i \in DOMAIN shown : screen.cell[screen.pos - Len(shown) + i - 1] = shown[i]
    BY DEF LineIsShown
  <2> DEFINE shown == Prompt \o typed
  <2>1. shown = Prompt \o [i \in 1 .. cmd_next_pos |-> m_CmdLine[i - 1]]
    BY DEF ShellInv, LineInv, LineKept, LineOf
  <2>2. PICK start \in Nat : /\ screen.pos = start + Len(shown)
                            /\ \A i \in 1 .. Len(shown) : screen.cell[start + i - 1] = shown[i]
    BY DEF ShellInv, ScreenInv, Holds
  <2>3. shown \in Seq(Chars)
    BY LineIs DEF ShellInv, LineInv
  <2> HIDE DEF shown
  <2>5. DOMAIN shown = 1 .. Len(shown) /\ Len(shown) \in Nat
    BY <2>3
  <2>6. ASSUME NEW i \in 1 .. Len(shown)
        PROVE  screen.cell[screen.pos - Len(shown) + i - 1] = shown[i]
    <3>1. screen.pos - Len(shown) + i - 1 = start + i - 1
      BY <2>2, <2>5
    <3> QED
      BY <2>2, <3>1
  <2> QED
    BY <2>1, <2>5, <2>6
<1> QED
  BY <1>1, CursorFollows, PTL

\* Whatever was typed and taken back, tabs among it, and whatever earlier lines
\* left in the array, HshpParser runs the words of the line up to the first NUL.
THEOREM RunsTheLine == Spec => []RunsWhatWasTyped
<1>1. ShellInv => RunsWhatWasTyped
  BY DEF ShellInv
<1> QED
  BY <1>1, CursorFollows, PTL

----------------------------------------------------------------------------
(* What stood on the screen.                                               *)

\* A file or a program that is printed has no backspace in it.
NoBackspace == \A text \in Outputs : BS \notin Range(text)

\* The cells before the cursor, some rows further up.
Stays(s, t, rows) ==
    \A c \in Cells : c < s.pos /\ c - rows * SCREEN_CX \in Cells =>
        t.cell[c - rows * SCREEN_CX] = s.cell[c]

\* From s, by characters other than backspace, a screen without an end having
\* its cursor at pos then.
Reached(s, t, pos) ==
    /\ s.pos <= pos
    /\ \E rows \in Nat : t.pos + rows * SCREEN_CX = pos /\ Stays(s, t, rows)

LEMMA Positions ==
    /\ \A s \in Screens : s.pos \in Nat
    /\ \A c \in Cells : c \in Nat /\ c < Size
    /\ \A rows \in Nat : rows * SCREEN_CX \in Nat
    /\ 0 * SCREEN_CX = 0 /\ 1 * SCREEN_CX = SCREEN_CX
BY Sizes DEF Screens, Cells

LEMMA NothingPrinted ==
    ASSUME NEW s \in Screens
    PROVE  Reached(s, s, s.pos)
<1>1. s.pos \in Nat /\ s.pos + 0 * SCREEN_CX = s.pos
  BY Positions
<1>2. Stays(s, s, 0)
  <2> SUFFICES ASSUME NEW c \in Cells PROVE s.cell[c - 0 * SCREEN_CX] = s.cell[c]
    BY DEF Stays
  <2>1. c - 0 * SCREEN_CX = c
    BY Positions
  <2> QED
    BY <2>1
<1> QED
  BY <1>1, <1>2 DEF Reached

\* One move after another.
LEMMA Composed ==
    ASSUME NEW s \in Screens, NEW t \in Screens, NEW u \in Screens,
           NEW pos \in Nat, NEW to \in Nat, NEW ahead \in Nat,
           Reached(s, t, pos), Reached(t, u, to), ahead + t.pos = pos + to
    PROVE  Reached(s, u, ahead)
<1>1. PICK before \in Nat : t.pos + before * SCREEN_CX = pos /\ Stays(s, t, before)
  BY DEF Reached
<1>2. PICK rows \in Nat : u.pos + rows * SCREEN_CX = to /\ Stays(t, u, rows)
  BY DEF Reached
<1>3. s.pos \in Nat /\ t.pos \in Nat /\ u.pos \in Nat /\ s.pos <= pos /\ t.pos <= to
  BY Positions DEF Reached
<1>4. PICK a \in Nat : a = rows * SCREEN_CX
  BY Positions
<1>5. PICK b \in Nat : b = before * SCREEN_CX
  BY Positions
<1>6. (rows + before) * SCREEN_CX = a + b
  BY <1>4, <1>5, Sizes
<1>7. Stays(s, u, rows + before)
  <2> SUFFICES ASSUME NEW c \in Cells, c < s.pos, c - (a + b) \in Cells
               PROVE  u.cell[c - (a + b)] = s.cell[c]
    BY <1>6 DEF Stays
  <2>1. c \in Nat /\ c < Size /\ c - (a + b) \in Nat /\ Size \in Nat
    BY Positions, Sizes
  <2>2. c - b \in Cells /\ c - b < t.pos /\ (c - b) - a = c - (a + b)
    BY <1>1, <1>3, <1>5, <2>1 DEF Cells
  <2>3. t.cell[c - b] = s.cell[c]
    BY <1>1, <1>5, <2>2 DEF Stays
  <2>4. u.cell[(c - b) - a] = t.cell[c - b]
    BY <1>2, <1>4, <2>2 DEF Stays
  <2> QED
    BY <2>2, <2>3, <2>4
<1>8. u.pos + (rows + before) * SCREEN_CX = ahead
  BY <1>1, <1>2, <1>3, <1>4, <1>5, <1>6
<1>9. s.pos <= ahead /\ rows + before \in Nat
  BY <1>3
<1> QED
  BY <1>7, <1>8, <1>9 DEF Reached

\* Before a character is printed the screen may be scrolled by a row.
LEMMA ScrolledReached ==
    ASSUME NEW s \in Screens
    PROVE  Reached(s, InScreen(s), s.pos)
<1>1. s.pos \in Nat /\ Size \in Nat /\ SCREEN_CX \in Nat
  BY Positions, Sizes
<1>2. CASE s.pos < Size
  BY <1>2, Scrolled, NothingPrinted
<1>3. CASE s.pos >= Size
  <2>1. /\ InScreen(s).pos + 1 * SCREEN_CX = s.pos
        /\ \A c \in Cells : c + SCREEN_CX < Size => InScreen(s).cell[c] = s.cell[c + SCREEN_CX]
    BY <1>1, <1>3, Scrolled, Positions
  <2>2. Stays(s, InScreen(s), 1)
    <3> SUFFICES ASSUME NEW c \in Cells, c - SCREEN_CX \in Cells
                 PROVE  InScreen(s).cell[c - SCREEN_CX] = s.cell[c]
      BY Positions DEF Stays
    <3>1. c \in Nat /\ c < Size /\ (c - SCREEN_CX) + SCREEN_CX = c
      BY <1>1, Positions
    <3> QED
      BY <2>1, <3>1
  <2> QED
    BY <1>1, <2>1, <2>2 DEF Reached
<1> QED
  BY <1>1, <1>2, <1>3

LEMMA AdvancedIs ==
    ASSUME NEW pos \in Nat, NEW b \in Nat, NEW char
    PROVE  /\ Advanced(pos, char) \in Nat /\ pos <= Advanced(pos, char)
           /\ Advanced(pos + b * SCREEN_CX, char) = Advanced(pos, char) + b * SCREEN_CX
<1> DEFINE q == pos \div SCREEN_CX
           x == pos % SCREEN_CX
<1>1. q \in Nat /\ x \in 0 .. (SCREEN_CX - 1) /\ pos = q * SCREEN_CX + x /\ SCREEN_CX \in Nat \ {0}
  BY Sizes, Dividing
<1>2. pos + b * SCREEN_CX = (q + b) * SCREEN_CX + x /\ q + b \in Nat
  <2> HIDE DEF q, x
  <2> QED
    BY <1>1
<1>3. (pos + b * SCREEN_CX) \div SCREEN_CX = q + b
  <2> HIDE DEF q, x
  <2> QED
    BY <1>1, <1>2, DivisionIs
<1>4. /\ (q + 1) * SCREEN_CX \in Nat /\ pos <= (q + 1) * SCREEN_CX /\ b * SCREEN_CX \in Nat
      /\ ((q + b) + 1) * SCREEN_CX = (q + 1) * SCREEN_CX + b * SCREEN_CX
  <2> HIDE DEF q, x
  <2> QED
    BY <1>1
<1>5. CASE char = CR
  <2>1. Advanced(pos, char) = (q + 1) * SCREEN_CX
    BY <1>5 DEF Advanced, CR, LF, TAB
  <2>2. Advanced(pos + b * SCREEN_CX, char) = ((q + b) + 1) * SCREEN_CX
    BY <1>3, <1>5 DEF Advanced, CR, LF, TAB
  <2> HIDE DEF q
  <2> QED
    BY <1>4, <2>1, <2>2
<1>6. CASE char # CR
  <2> HIDE DEF q, x
  <2>1. PICK a \in Nat : a = b * SCREEN_CX
    BY <1>4
  <2> QED
    BY <1>6, <2>1, Sizes DEF Advanced, CR, LF, TAB
<1> QED
  BY <1>5, <1>6

\* The return key's character moves to the next row, and the text up if there
\* is none.
LEMMA ReturnReached ==
    ASSUME NEW s \in Screens, s.pos < Size
    PROVE  /\ CrtpKeyLF(CrtpKeyCR(s)).pos \in Nat
           /\ Reached(s, CrtpKeyLF(CrtpKeyCR(s)), Advanced(s.pos, CR))
<1> DEFINE q == s.pos \div SCREEN_CX
           x == s.pos % SCREEN_CX
           home == CrtpKeyCR(s)
           t == CrtpKeyLF(home)
<1>1. /\ q \in Nat /\ x \in 0 .. (SCREEN_CX - 1) /\ s.pos = q * SCREEN_CX + x
      /\ SCREEN_CX \in Nat \ {0} /\ s.pos \in Nat
  BY Sizes, Positions, Dividing
<1>2. PICK start \in Nat : start = q * SCREEN_CX
  BY <1>1
<1>3. home.cell = s.cell /\ home.pos = start
  <2>1. home.cell = s.cell /\ home.pos = s.pos - x
    BY DEF CrtpKeyCR, CursorX, Screens
  <2> HIDE DEF x, q, home
  <2> QED
    BY <1>1, <1>2, <2>1
<1>4. CursorX(home) = 0 /\ CursorY(home) = q
  <2> HIDE DEF q, home
  <2>1. start = q * SCREEN_CX + 0 /\ 0 \in 0 .. (SCREEN_CX - 1)
    BY <1>1, <1>2
  <2>2. start \div SCREEN_CX = q /\ start % SCREEN_CX = 0
    BY <1>1, <2>1, DivisionIs, Zenon
  <2> QED
    BY <1>3, <2>2 DEF CursorX, CursorY
<1>5. Advanced(s.pos, CR) = start + SCREEN_CX
  <2>1. Advanced(s.pos, CR) = (q + 1) * SCREEN_CX
    BY DEF Advanced, CR, LF, TAB
  <2> HIDE DEF q
  <2> QED
    BY <1>1, <1>2, <2>1
<1>6. s.pos <= start + SCREEN_CX
  <2> HIDE DEF q, x
  <2> QED
    BY <1>1, <1>2
<1>7. CASE q = SCREEN_CY - 1
  <2>1. t = [cell |-> CrtpScrollOneLine(s.cell), pos |-> Size - (SCREEN_CX - 0)]
    <3> HIDE DEF q, home
    <3> QED
      BY <1>3, <1>4, <1>7 DEF CrtpKeyLF
  <2>2. Size = start + SCREEN_CX
    <3> HIDE DEF q
    <3> QED
      BY <1>1, <1>2, <1>7, Sizes
  <2>3. t.pos = start /\ t.cell = CrtpScrollOneLine(s.cell)
    BY <1>1, <2>1, <2>2
  <2> HIDE DEF t
  <2>4. Stays(s, t, 1)
    <3> SUFFICES ASSUME NEW c \in Cells, c - SCREEN_CX \in Cells
                 PROVE  t.cell[c - SCREEN_CX] = s.cell[c]
      BY Positions DEF Stays
    <3>1. c \in Nat /\ c < Size /\ (c - SCREEN_CX) + SCREEN_CX = c
      BY <1>1, Positions
    <3> QED
      BY <2>3, <3>1 DEF CrtpScrollOneLine
  <2>5. t.pos + 1 * SCREEN_CX = start + SCREEN_CX
    BY <2>3, Positions
  <2> QED
    BY <1>5, <1>6, <2>3, <2>4, <2>5 DEF Reached, t
<1>8. CASE q # SCREEN_CY - 1
  <2>1. t.cell = s.cell /\ t.pos = start + SCREEN_CX
    <3>1. t = [home EXCEPT !.pos = home.pos + SCREEN_CX]
      <4> HIDE DEF q, home
      <4> QED
        BY <1>4, <1>8 DEF CrtpKeyLF
    <3>2. home = [s EXCEPT !.pos = s.pos - CursorX(s)]
      BY DEF CrtpKeyCR
    <3> HIDE DEF t, home
    <3> QED
      BY <1>3, <3>1, <3>2 DEF Screens
  <2> HIDE DEF t
  <2>2. Stays(s, t, 0)
    BY <2>1, NothingPrinted, Positions DEF Stays
  <2>3. t.pos + 0 * SCREEN_CX = start + SCREEN_CX
    BY <2>1, <1>1, Positions
  <2> QED
    BY <1>1, <1>5, <1>6, <2>1, <2>2, <2>3 DEF Reached, t
<1> QED
  BY <1>7, <1>8

\* Any character but backspace.
LEMMA CharReached ==
    ASSUME NEW s \in Screens, NEW c \in Chars \ {BS}
    PROVE  Reached(s, PrintChar(s, c), Advanced(s.pos, c))
<1> DEFINE t == InScreen(s)
           u == PrintChar(s, c)
<1>1. /\ t \in Screens /\ t.pos < Size /\ u \in Screens /\ Reached(s, t, s.pos)
      /\ s.pos \in Nat /\ t.pos \in Nat /\ SCREEN_CX \in Nat /\ DEFAULT_TAB_SIZE = 4
  BY Scrolled, ScrolledReached, CharPrinted, Positions, Sizes
<1>2. /\ c = LF => u = t
      /\ c = CR => u = CrtpKeyLF(CrtpKeyCR(t))
      /\ c = TAB => u = KeyTab(t)
      /\ c \notin {LF, CR, TAB} => u = Put(t, c)
  BY DEF PrintChar, CR, LF, BS, TAB
<1> HIDE DEF t, u
<1>3. Reached(t, u, Advanced(t.pos, c))
  <2>1. CASE c = LF
    <3>1. Advanced(t.pos, c) = t.pos
      BY <2>1 DEF Advanced, CR, LF, TAB
    <3> QED
      BY <1>1, <1>2, <2>1, <3>1, NothingPrinted
  <2>2. CASE c = CR
    BY <1>1, <1>2, <2>2, ReturnReached
  <2>3. CASE c = TAB
    <3>1. u.pos = t.pos + 4 /\ \A i \in Cells : i < t.pos => u.cell[i] = t.cell[i]
      BY <1>1, <1>2, <2>3, Positions DEF KeyTab
    <3>2. Stays(t, u, 0)
      BY <3>1, Positions DEF Stays
    <3>3. Advanced(t.pos, c) = t.pos + 4
      BY <1>1, <2>3 DEF Advanced, CR, LF, TAB
    <3>4. u.pos + 0 * SCREEN_CX = t.pos + 4 /\ t.pos <= t.pos + 4
      BY <1>1, <3>1, Positions
    <3> QED
      BY <3>2, <3>3, <3>4 DEF Reached
  <2>4. CASE c \notin {LF, CR, TAB}
    <3>1. u.pos = t.pos + 1 /\ \A i \in Cells : i < t.pos => u.cell[i] = t.cell[i]
      BY <1>1, <1>2, <2>4, Positions DEF Put, Screens
    <3>2. Stays(t, u, 0)
      BY <3>1, Positions DEF Stays
    <3>3. Advanced(t.pos, c) = t.pos + 1
      BY <1>1, <2>4 DEF Advanced
    <3>4. u.pos + 0 * SCREEN_CX = t.pos + 1 /\ t.pos <= t.pos + 1
      BY <1>1, <3>1, Positions
    <3> QED
      BY <3>2, <3>3, <3>4 DEF Reached
  <2> QED
    BY <2>1, <2>2, <2>3, <2>4
<1>4. PICK b \in Nat : t.pos + b * SCREEN_CX = s.pos
  BY <1>1 DEF Reached
<1>5. /\ Advanced(s.pos, c) \in Nat /\ Advanced(t.pos, c) \in Nat
      /\ Advanced(s.pos, c) = Advanced(t.pos, c) + b * SCREEN_CX
  BY <1>1, <1>4, AdvancedIs
<1>6. Advanced(s.pos, c) + t.pos = s.pos + Advanced(t.pos, c)
  <2>1. PICK a \in Nat : a = b * SCREEN_CX
    BY Positions
  <2> QED
    BY <1>1, <1>4, <1>5, <2>1
<1>7. Reached(s, u, Advanced(s.pos, c))
  BY <1>1, <1>3, <1>5, <1>6, Composed
<1> QED
  BY <1>7 DEF u

LEMMA CharAfter ==
    ASSUME NEW s \in Screens, NEW t \in Screens, NEW pos \in Nat, Reached(s, t, pos), NEW c \in Chars \ {BS}
    PROVE  Advanced(pos, c) \in Nat /\ Reached(s, PrintChar(t, c), Advanced(pos, c))
<1>1. PICK b \in Nat : t.pos + b * SCREEN_CX = pos
  BY DEF Reached
<1>2. /\ t.pos \in Nat /\ PrintChar(t, c) \in Screens
      /\ Reached(t, PrintChar(t, c), Advanced(t.pos, c))
  BY CharReached, CharPrinted, Positions
<1>3. /\ Advanced(pos, c) \in Nat /\ Advanced(t.pos, c) \in Nat
      /\ Advanced(pos, c) = Advanced(t.pos, c) + b * SCREEN_CX
  BY <1>1, <1>2, AdvancedIs
<1>4. Advanced(pos, c) + t.pos = pos + Advanced(t.pos, c)
  <2>1. PICK a \in Nat : a = b * SCREEN_CX
    BY Positions
  <2> QED
    BY <1>1, <1>2, <1>3, <2>1
<1> QED
  BY <1>2, <1>3, <1>4, Composed

\* The positions on the way, after each character.
IsAdvance(at, pos, text) ==
    at = [i \in 0 .. Len(text) |-> IF i = 0 THEN pos ELSE Advanced(at[i - 1], text[i])]

LEMMA Advancing ==
    ASSUME NEW pos, NEW text \in Seq(Chars)
    PROVE  \E at : IsAdvance(at, pos, text) /\ Advance(pos, text) = at[Len(text)]
<1> DEFINE Upto(n, f) == f = [i \in 0 .. n |-> IF i = 0 THEN pos ELSE Advanced(f[i - 1], text[i])]
           S == {n \in 0 .. Len(text) : \E f : Upto(n, f)}
<1>1. Len(text) \in Nat
  OBVIOUS
<1>2. 0 \in S
  <2> DEFINE g == [i \in 0 .. 0 |-> pos]
  <2>1. g = [i \in 0 .. 0 |-> IF i = 0 THEN pos ELSE Advanced(g[i - 1], text[i])]
    OBVIOUS
  <2> HIDE DEF g
  <2> QED
    BY <1>1, <2>1
<1>3. ASSUME NEW n \in 1 .. Len(text), n - 1 \in S PROVE n \in S
  <2>1. PICK f : Upto(n - 1, f)
    BY <1>3
  <2> DEFINE g == [i \in 0 .. n |-> IF i = n THEN Advanced(f[n - 1], text[n]) ELSE f[i]]
  <2>2. \A i \in 0 .. (n - 1) : g[i] = f[i]
    BY <1>1
  <2>3. ASSUME NEW i \in 0 .. n
        PROVE  g[i] = IF i = 0 THEN pos ELSE Advanced(g[i - 1], text[i])
    <3>1. CASE i = n
      BY <3>1, <2>2
    <3>2. CASE i # n
      <4>1. i \in 0 .. (n - 1) /\ (i # 0 => i - 1 \in 0 .. (n - 1))
        BY <3>2
      <4>2. f[i] = IF i = 0 THEN pos ELSE Advanced(f[i - 1], text[i])
        BY <2>1, <4>1
      <4> HIDE DEF g
      <4> QED
        BY <2>2, <4>1, <4>2
    <3> QED
      BY <3>1, <3>2
  <2>4. g = [i \in 0 .. n |-> g[i]]
    OBVIOUS
  <2> HIDE DEF g
  <2>5. Upto(n, g)
    BY <2>3, <2>4
  <2> QED
    BY <2>5
<1>4. Len(text) \in S
  <2> HIDE DEF S
  <2>1. \A n \in 0 .. Len(text) : n \in S
    BY <1>1, <1>2, <1>3, Upward
  <2> QED
    BY <1>1, <2>1
<1>5. \E f : Upto(Len(text), f)
  BY <1>4
<1> DEFINE at == CHOOSE f : Upto(Len(text), f)
<1>6. Upto(Len(text), at)
  BY <1>5
<1>7. Advance(pos, text) = at[Len(text)]
  BY DEF Advance
<1>8. IsAdvance(at, pos, text)
  BY <1>6 DEF IsAdvance
<1> QED
  BY <1>7, <1>8

LEMMA TextAfter ==
    ASSUME NEW s \in Screens, NEW t \in Screens, NEW pos \in Nat, Reached(s, t, pos),
           NEW text \in Seq(Chars), BS \notin Range(text)
    PROVE  /\ CrtPrintText(t, text) \in Screens /\ Advance(pos, text) \in Nat
           /\ Reached(s, CrtPrintText(t, text), Advance(pos, text))
<1>1. PICK shown : IsPrinting(shown, t, text) /\ CrtPrintText(t, text) = shown[Len(text)]
  BY Printing
<1>2. PICK at : IsAdvance(at, pos, text) /\ Advance(pos, text) = at[Len(text)]
  BY Advancing
<1> DEFINE S == {i \in 0 .. Len(text) : /\ shown[i] \in Screens /\ at[i] \in Nat
                                       /\ Reached(s, shown[i], at[i])}
<1>3. Len(text) \in Nat /\ 0 \in S
  BY <1>1, <1>2 DEF IsPrinting, IsAdvance
<1>4. ASSUME NEW i \in 1 .. Len(text), i - 1 \in S PROVE i \in S
  <2>1. /\ shown[i] = PrintChar(shown[i - 1], text[i]) /\ text[i] \in Chars
        /\ shown[i - 1] \in Screens /\ at[i - 1] \in Nat /\ Reached(s, shown[i - 1], at[i - 1])
    <3>1. i \in 0 .. Len(text) /\ i # 0 /\ text[i] \in Chars
      BY <1>3
    <3>2. shown[i] = PrintChar(shown[i - 1], text[i])
      BY <1>1, <3>1 DEF IsPrinting
    <3> QED
      BY <1>4, <3>1, <3>2
  <2>2. at[i] = Advanced(at[i - 1], text[i])
    BY <1>2, <1>3 DEF IsAdvance
  <2>3. text[i] \in Chars \ {BS}
    BY <2>1 DEF Range
  <2>4. at[i] \in Nat /\ Reached(s, shown[i], at[i]) /\ shown[i] \in Screens
    BY <2>1, <2>2, <2>3, CharAfter, CharPrinted
  <2> QED
    BY <2>4
<1> HIDE DEF S
<1>5. Len(text) \in S
  <2>1. \A i \in 0 .. Len(text) : i \in S
    BY <1>3, <1>4, Upward
  <2> QED
    BY <1>3, <2>1
<1> QED
  BY <1>1, <1>2, <1>5 DEF S

\* What is reached from the screen before is that screen moved up.
LEMMA ReachedMoved ==
    ASSUME NEW s \in Screens, NEW t \in Screens, NEW pos \in Nat, pos \in Ahead(s), Reached(s, t, pos)
    PROVE  MovedUp(s, t)
<1>1. PICK rows \in Nat : t.pos + rows * SCREEN_CX = pos /\ Stays(s, t, rows)
  BY DEF Reached
<1>2. s.pos \in Nat /\ t.pos \in Nat /\ SCREEN_CX \in Nat \ {0} /\ rows * SCREEN_CX \in Nat
  BY <1>1, Positions, Sizes
<1>3. pos - t.pos = rows * SCREEN_CX + 0 /\ 0 \in 0 .. (SCREEN_CX - 1)
  BY <1>1, <1>2
<1>4. (pos - t.pos) \div SCREEN_CX = rows
  BY <1>2, <1>3, DivisionIs, Zenon
<1>5. Kept(s, t, rows)
  <2>1. \A c \in Cells : c < s.pos - 1 => c < s.pos
    BY <1>2, Positions
  <2> QED
    BY <1>1, <2>1 DEF Stays, Kept
<1> QED
  BY <1>1, <1>4, <1>5 DEF MovedUp

----------------------------------------------------------------------------
(* A key, whatever it is.                                                  *)

LEMMA KeyMoves ==
    ASSUME screen \in Screens, NEW c \in Keys, Character(c)
    PROVE  screen' \in Screens /\ MovedUp(screen, screen')
<1>1. c \in Chars /\ c \notin {BS, CR} /\ screen.pos \in Nat
  BY Positions DEF Character, Chars
<1>2. CASE c = NUL
  <2>1. screen' = screen
    BY <1>2, <1>1, ShortTexts DEF Character
  <2>2. screen.pos + 0 \in Ahead(screen) /\ screen.pos + 0 = screen.pos
    BY <1>1 DEF Ahead
  <2> QED
    BY <1>1, <2>1, <2>2, NothingPrinted, ReachedMoved
<1>3. CASE c # NUL
  <2>1. screen' = PrintChar(screen, c) /\ screen' \in Screens
    BY <1>1, <1>3, ShortTexts, CharPrinted DEF Character
  <2>2. Reached(screen, screen', Advanced(screen.pos, c))
    BY <1>1, <2>1, CharReached
  <2>3. Advanced(screen.pos, c) \in Nat
    BY <1>1, AdvancedIs
  <2>4. Advanced(screen.pos, c) \in {screen.pos + n : n \in {-1, 0, 1, DEFAULT_TAB_SIZE}}
    <3>1. Advanced(screen.pos, c) \in {screen.pos + 0, screen.pos + 1, screen.pos + DEFAULT_TAB_SIZE}
      BY <1>1 DEF Advanced
    <3> QED
      BY <3>1
  <2> QED
    BY <2>1, <2>2, <2>3, <2>4, ReachedMoved DEF Ahead
<1> QED
  BY <1>2, <1>3

LEMMA BackspaceMoves ==
    ASSUME screen \in Screens, Backspace, screen' # screen
    PROVE  screen' \in Screens /\ MovedUp(screen, screen')
<1> DEFINE t == InScreen(screen)
           u == CrtpKeyBackspace(t)
<1>1. BS \in Chars
  BY DEF Chars, Controls
<1>2. screen' = PrintChar(screen, BS) /\ screen' \in Screens
  <2>1. screen' = CrtPrintText(screen, <<BS>>)
    BY DEF Backspace
  <2> QED
    BY <1>1, <2>1, ShortTexts, CharPrinted
<1>3. screen' = u
  BY <1>2 DEF PrintChar, CR, LF, BS, TAB
<1>4. t \in Screens /\ t.pos \in Nat /\ screen.pos \in Nat /\ Reached(screen, t, screen.pos)
  BY Scrolled, ScrolledReached, Positions
<1> HIDE DEF t
<1>5. PICK rows \in Nat : t.pos + rows * SCREEN_CX = screen.pos /\ Stays(screen, t, rows)
  BY <1>4 DEF Reached
<1>6. PICK a \in Nat : a = rows * SCREEN_CX
  BY Positions
<1>7. CASE t.pos < 1
  <2>1. screen' = t /\ screen.pos + 0 \in Ahead(screen) /\ screen.pos + 0 = screen.pos
    BY <1>3, <1>4, <1>7 DEF CrtpKeyBackspace, Ahead
  <2> QED
    BY <1>2, <1>4, <2>1, ReachedMoved
<1>8. CASE t.pos >= 1
  <2>1. screen'.pos = t.pos - 1 /\ \A c \in Cells : c # t.pos - 1 => screen'.cell[c] = t.cell[c]
    BY <1>3, <1>4, <1>8 DEF CrtpKeyBackspace, Screens
  <2>2. Kept(screen, screen', rows)
    <3> SUFFICES ASSUME NEW c \in Cells, c < screen.pos - 1, c - a \in Cells
                 PROVE  screen'.cell[c - a] = screen.cell[c]
      BY <1>6 DEF Kept
    <3>1. c \in Nat /\ c < screen.pos /\ c - a # t.pos - 1
      BY <1>4, <1>5, <1>6, Positions
    <3>2. t.cell[c - a] = screen.cell[c]
      BY <1>5, <1>6, <3>1 DEF Stays
    <3> QED
      BY <2>1, <3>1, <3>2
  <2>3. screen.pos + (-1) \in Ahead(screen)
    BY DEF Ahead
  <2>4. /\ screen.pos + (-1) = screen'.pos + rows * SCREEN_CX
        /\ (screen.pos + (-1)) - screen'.pos = rows * SCREEN_CX + 0
    BY <1>4, <1>5, <1>6, <2>1
  <2>5. SCREEN_CX \in Nat \ {0} /\ 0 \in 0 .. (SCREEN_CX - 1)
    BY Sizes
  <2>6. ((screen.pos + (-1)) - screen'.pos) \div SCREEN_CX = rows
    BY <2>4, <2>5, DivisionIs, Zenon
  <2> QED
    BY <1>2, <2>2, <2>3, <2>4, <2>6 DEF MovedUp
<1> QED
  BY <1>4, <1>7, <1>8

LEMMA ReturnMoves ==
    ASSUME NoBackspace, screen \in Screens, Return
    PROVE  /\ screen' \in Screens
           /\ screen' = CrtPrintText(CrtClearScreen, Prompt) \/ MovedUp(screen, screen')
<1> DEFINE newline == CrtPrintText(screen, <<CR>>)
           row == Advanced(screen.pos, CR)
<1>1. CR \in Chars \ {BS} /\ screen.pos \in Nat
  BY Positions DEF Chars, Controls, CR, BS
<1>2. Prompt \in Seq(Chars) /\ BS \notin Range(Prompt)
  BY WritingsAre, ShellAssumption DEF Writings, Controls
<1>3. newline \in Screens /\ Reached(screen, newline, row) /\ row \in Nat
  BY <1>1, ShortTexts, CharReached, CharPrinted, AdvancedIs
<1> HIDE DEF newline, row
<1>4. PICK s \in {newline} \cup Afterwards(newline) : screen' = CrtPrintText(s, Prompt)
  BY DEF Return, newline
<1>5. CASE s = CrtClearScreen
  BY <1>2, <1>4, <1>5, Cleared, TextPrinted
<1>6. CASE s # CrtClearScreen
  <2>1. PICK text \in Outputs \cup {<< >>} : s = CrtPrintText(newline, text)
    <3>1. CrtPrintText(newline, << >>) = newline
      BY <1>1, <1>3, ShortTexts
    <3> QED
      BY <1>4, <1>6, <3>1 DEF Afterwards
  <2>2. text \in Seq(Chars) /\ BS \notin Range(text)
    <3>1. << >> \in Seq(Chars) /\ Range(<< >>) = {}
      BY DEF Range
    <3> QED
      BY <2>1, <3>1, WritingsAre DEF Writings, NoBackspace
  <2>3. s \in Screens /\ Advance(row, text) \in Nat /\ Reached(screen, s, Advance(row, text))
    BY <1>3, <2>1, <2>2, TextAfter
  <2>4. /\ screen' \in Screens /\ Advance(Advance(row, text), Prompt) \in Nat
        /\ Reached(screen, screen', Advance(Advance(row, text), Prompt))
    BY <1>2, <1>4, <2>3, TextAfter
  <2>5. Advance(Advance(row, text), Prompt) \in Ahead(screen)
    BY DEF Ahead, row
  <2> QED
    BY <2>4, <2>5, ReachedMoved
<1> QED
  BY <1>5, <1>6

\* Whatever keys are pressed, tabs and modifier keys too, and whatever rows the
\* commands print, no text is lost: it moves up with the cursor or stays where
\* it is, but for the character a backspace takes, until a command clears the
\* screen.
THEOREM NoTextIsLost ==
    ASSUME NoBackspace
    PROVE  Spec => TextStays
<1>1. Init => screen \in Screens
  BY WritingsAre, Cleared, TextPrinted DEF Init, Writings
<1>2. screen \in Screens /\ [Next]_vars =>
         /\ screen' \in Screens
         /\ screen' = screen \/ screen' = CrtPrintText(CrtClearScreen, Prompt)
                \/ MovedUp(screen, screen')
  <2> SUFFICES ASSUME screen \in Screens, [Next]_vars
               PROVE  /\ screen' \in Screens
                      /\ screen' = screen \/ screen' = CrtPrintText(CrtClearScreen, Prompt)
                             \/ MovedUp(screen, screen')
    OBVIOUS
  <2>1. CASE Backspace /\ screen' # screen
    BY <2>1, BackspaceMoves
  <2>2. CASE Return
    BY <2>2, ReturnMoves
  <2>3. ASSUME NEW c \in Keys, Character(c) PROVE screen' \in Screens /\ MovedUp(screen, screen')
    BY <2>3, KeyMoves
  <2>4. CASE screen' = screen
    BY <2>4
  <2> QED
    BY <2>1, <2>2, <2>3, <2>4 DEF Next, vars
<1> DEFINE inv == screen \in Screens
<1>3. Init => inv
  BY <1>1
<1>4. inv /\ [Next]_vars => inv'
  BY <1>2
<1>5. inv /\ [Next]_vars =>
         [screen' = CrtPrintText(CrtClearScreen, Prompt) \/ MovedUp(screen, screen')]_screen
  BY <1>2
<1> HIDE DEF inv
<1> QED
  BY <1>3, <1>4, <1>5, PTL DEF Spec, TextStays

----------------------------------------------------------------------------
(* The commands.                                                           *)

\* Every program has an end.
Programs ==
    \A n \in Names :
        Executable(n) /\ Exists(n) => \E i \in DOMAIN Content(n) : Content(n)[i] = Exit

Threads == Blocks \cup {Idle, Cutter, Main}

\* The shell's list, but for its own thread: a block is linked last.
InList == allocated \ (IF pc = "link" THEN {UserThread} ELSE {})

Listing == {"print_thread", "next_thread", "listed"}
Loading == {"load", "create", "give_up"}
Unstarted == {"link", "setup", "start"}
Started == {"poll", "delete"}
TypingFile == {"type", "close_text", "lost"}
Holding == Loading \cup Unstarted \cup Started \cup TypingFile \cup {"close"}

LEMMA Apart ==
    /\ Idle # Cutter /\ Idle # Main /\ Cutter # Main /\ Nil \notin {Idle, Cutter, Main}
    /\ \A b \in Blocks : b \notin {Idle, Cutter, Main, Nil}
    /\ None # Exit /\ None \notin Bytes /\ Exit \notin Texts /\ File # ""
BY CommandsAssumption DEF Idle, Cutter, Main, Nil, None, Nul, Exit, Bytes, File

\* Behind x stands the next thread of the list, or nothing.
Behind(x, rank, walked) ==
    /\ next[x] \in walked \cup {Nil}
    /\ next[x] # Nil => rank[next[x]] > rank[x]
    /\ \A y \in InList : rank[y] > rank[x] => next[x] # Nil /\ rank[next[x]] <= rank[y]

\* The order of the threads: that of their lists.  A thread that ps may still
\* stand at has its place among those walked when the cutter has freed it.
Ranked(rank, last, walked) ==
    /\ last \in Nat /\ rank \in [Threads -> 0 .. last]
    /\ rank[Idle] = 0 /\ rank[Cutter] = 1 /\ rank[Main] = 2
    /\ walked \subseteq Blocks /\ InList \subseteq walked
    /\ \A x \in walked : rank[x] > 2 /\ \A y \in walked : rank[x] = rank[y] => x = y
    /\ \A x \in walked \cup {Main} : Behind(x, rank, walked)
    /\ \A x \in InList \cup {Main} : next[x] \in InList \cup {Nil}

\* ps has come past a thread.
Passed(t, rank) ==
    \/ pc = "listed"
    \/ pc = "next_thread" /\ rank[t] <= rank[now_thread]
    \/ pc = "print_thread" /\ rank[t] < rank[now_thread]

\* What it has printed, in order, is all that it came past and was there throughout.
Walking(rank, walked) ==
    /\ process \in {1, 2} /\ now_thread \in walked \cup {Idle, Cutter, Main}
    /\ process = 1 <=> now_thread \in {Idle, Cutter}
    /\ throughout \subseteq InList \cup {Idle, Cutter, Main}
    /\ listed \in Seq(Threads)
    /\ \A i \in DOMAIN listed : Passed(listed[i], rank)
    /\ \A i, j \in DOMAIN listed : i < j => rank[listed[i]] < rank[listed[j]]
    /\ \A t \in throughout : Passed(t, rank) => t \in Range(listed)

Ordered(rank, last, walked) ==
    /\ Ranked(rank, last, walked)
    /\ IF pc \in Listing THEN Walking(rank, walked)
       ELSE walked = InList /\ listed = << >> /\ throughout = {}

WalkInv == \E last, rank, walked : Ordered(rank, last, walked)

\* The cutter's handles are of linked threads that have ended, each held once.
LinksInv ==
    /\ allocated \subseteq Blocks
    /\ next \in [Threads -> Blocks \cup {Cutter, Nil}] /\ next[Idle] = Cutter /\ next[Cutter] = Nil
    /\ cutting \in Seq(Blocks) /\ Len(cutting) <= MAX_CUTTING_ITEM
    /\ IsInjective(cutting) /\ Range(cutting) \subseteq InList
    /\ item \in InList \cup {Nil} /\ item \notin Range(cutting)
    /\ pc \in {"link", "setup", "start", "poll", "delete"} =>
          UserThread \in allocated /\ UserThread # item /\ UserThread \notin Range(cutting)
    /\ pc = "link" => next[UserThread] = Nil

----------------------------------------------------------------------------
(* The lists.                                                              *)

\* The threads reached from t are those in every set that holds t and, with a
\* thread, the next.
Closed(X) == \A v \in X : next[v] # Nil => next[v] \in X
From(t) == {u \in Threads : \A X \in SUBSET Threads : t \in X /\ Closed(X) => u \in X}

LEMMA FromIs ==
    ASSUME NEW t \in Threads, next[t] \in Threads \cup {Nil}
    PROVE  From(t) = {t} \cup (IF next[t] = Nil THEN {} ELSE From(next[t]))
<1>1. Nil \notin Threads
  BY Apart DEF Threads
<1>2. t \in From(t)
  BY DEF From
<1>3. ASSUME next[t] # Nil, NEW u \in From(next[t]) PROVE u \in From(t)
  <2> SUFFICES ASSUME NEW X \in SUBSET Threads, t \in X, Closed(X) PROVE u \in X
    BY <1>3 DEF From
  <2>1. next[t] \in X
    BY <1>3 DEF Closed
  <2> QED
    BY <1>3, <2>1 DEF From
<1>4. ASSUME NEW u \in From(t), u # t PROVE next[t] # Nil /\ u \in From(next[t])
  <2>1. u \in Threads
    BY DEF From
  <2>2. next[t] # Nil
    <3> SUFFICES ASSUME next[t] = Nil PROVE FALSE
      OBVIOUS
    <3>1. Closed({t}) /\ {t} \in SUBSET Threads
      BY DEF Closed
    <3> QED
      BY <1>4, <3>1 DEF From
  <2>3. ASSUME NEW X \in SUBSET Threads, next[t] \in X, Closed(X) PROVE u \in X
    <3>1. X \cup {t} \in SUBSET Threads /\ t \in X \cup {t}
      OBVIOUS
    <3>2. Closed(X \cup {t})
      BY <2>3 DEF Closed
    <3>3. u \in X \cup {t}
      BY <3>1, <3>2 DEF From
    <3> QED
      BY <1>4, <3>3
  <2> QED
    BY <2>1, <2>2, <2>3 DEF From
<1> QED
  BY <1>2, <1>3, <1>4

IsReached(reached) ==
    reached = [t \in Threads \cup {Nil} |-> IF t = Nil THEN {} ELSE {t} \cup reached[next[t]]]

LEMMA LinkedWith ==
    ASSUME LinksInv, NEW heads
    PROVE  \E reached : /\ IsReached(reached)
                       /\ Linked(heads) = UNION {reached[heads[i]] : i \in DOMAIN heads}
<1> DEFINE found == [t \in Threads \cup {Nil} |-> IF t = Nil THEN {} ELSE From(t)]
<1>1. Nil \notin Threads /\ \A t \in Threads : next[t] \in Threads \cup {Nil}
  BY Apart DEF Threads, LinksInv
<1>2. ASSUME NEW t \in Threads PROVE found[t] = {t} \cup found[next[t]]
  BY <1>1, FromIs
<1>3. found[Nil] = {}
  OBVIOUS
<1>4. found = [t \in Threads \cup {Nil} |-> found[t]]
  OBVIOUS
<1> HIDE DEF found
<1>5. IsReached(found)
  <2>1. \A t \in Threads \cup {Nil} : found[t] = IF t = Nil THEN {} ELSE {t} \cup found[next[t]]
    BY <1>1, <1>2, <1>3
  <2> QED
    BY <1>4, <2>1 DEF IsReached
<1> DEFINE reached == CHOOSE f : IsReached(f)
<1>6. IsReached(reached)
  BY <1>5
<1>7. Blocks \cup {Idle, Cutter, Main, Nil} = Threads \cup {Nil}
  BY DEF Threads
<1>8. Linked(heads) = UNION {reached[heads[i]] : i \in DOMAIN heads}
  BY <1>7 DEF Linked, IsReached
<1> HIDE DEF reached
<1> QED
  BY <1>6, <1>8

\* The threads from one of the list on: those behind it, and itself.
LEMMA ReachedIs ==
    ASSUME LinksInv, NEW last, NEW rank, NEW walked, Ranked(rank, last, walked),
           NEW reached, IsReached(reached)
    PROVE  /\ reached[Main] = InList \cup {Main}
           /\ reached[Idle] = {Idle, Cutter}
<1> DEFINE list == InList \cup {Main}
           Good(x) == reached[x] = {y \in list : rank[y] >= rank[x]}
           X == {last - rank[x] : x \in {x \in list : ~Good(x)}}
<1>1. /\ list \subseteq Threads /\ last \in Nat /\ \A x \in list : rank[x] \in 0 .. last
      /\ \A x \in InList : rank[x] > 2 /\ rank[Main] = 2
      /\ \A x, y \in list : rank[x] = rank[y] => x = y
  <2>1. list \subseteq Threads
    BY DEF InList, LinksInv, Threads
  <2>2. last \in Nat /\ \A x \in list : rank[x] \in 0 .. last
    BY <2>1 DEF Ranked
  <2>3. \A x \in InList : rank[x] > 2 /\ rank[Main] = 2
    BY DEF Ranked
  <2>4. \A x, y \in list : rank[x] = rank[y] => x = y
    BY <2>2, <2>3 DEF Ranked
  <2> QED
    BY <2>1, <2>2, <2>3, <2>4
<1>2. /\ \A t \in Threads : reached[t] = {t} \cup reached[next[t]]
      /\ reached[Nil] = {}
  <2>1. Nil \notin Threads
    BY Apart DEF Threads
  <2> QED
    BY <2>1 DEF IsReached
<1>3. ASSUME NEW x \in list, next[x] = Nil PROVE Good(x)
  <2>1. reached[x] = {x}
    BY <1>1, <1>2, <1>3
  <2>2. \A y \in InList : ~ rank[y] > rank[x]
    BY <1>3 DEF Ranked, Behind
  <2>3. ASSUME NEW y \in list, rank[y] >= rank[x] PROVE y = x
    <3>1. rank[y] \in Nat /\ rank[x] \in Nat
      BY <1>1
    <3>2. CASE y \in InList
      BY <1>1, <2>2, <2>3, <3>1, <3>2
    <3>3. CASE y = Main
      BY <1>1, <2>3, <3>1, <3>3
    <3> QED
      BY <3>2, <3>3
  <2>4. rank[x] >= rank[x]
    BY <1>1
  <2> QED
    BY <2>1, <2>3, <2>4
<1>4. ASSUME NEW x \in list, next[x] # Nil, Good(next[x]) PROVE Good(x)
  <2> DEFINE z == next[x]
  <2>1. z \in InList /\ rank[z] > rank[x] /\ \A y \in InList : rank[y] > rank[x] => rank[z] <= rank[y]
    BY <1>4 DEF Ranked, Behind
  <2>2. reached[x] = {x} \cup {y \in list : rank[y] >= rank[z]}
    BY <1>1, <1>2, <1>4
  <2> HIDE DEF z
  <2>3. ASSUME NEW y \in list PROVE rank[y] >= rank[x] <=> (y = x \/ rank[y] >= rank[z])
    <3>1. rank[y] \in Nat /\ rank[x] \in Nat /\ rank[z] \in Nat
      BY <1>1, <2>1
    <3>2. CASE y \in InList
      BY <1>1, <2>1, <3>1, <3>2
    <3>3. CASE y = Main
      BY <1>1, <2>1, <3>1, <3>3
    <3> QED
      BY <3>2, <3>3
  <2> QED
    BY <2>2, <2>3
<1>5. X = {}
  <2> SUFFICES ASSUME X # {} PROVE FALSE
    OBVIOUS
  <2>1. X \subseteq Nat
    BY <1>1
  <2> HIDE DEF X
  <2>2. PICK m \in X : \A k \in X : m <= k
    BY <2>1, LeastOf
  <2> USE DEF X
  <2>3. PICK x \in list : ~Good(x) /\ m = last - rank[x]
    OBVIOUS
  <2>4. next[x] # Nil /\ ~Good(next[x])
    BY <1>3, <1>4, <2>3
  <2>5. next[x] \in list /\ rank[next[x]] > rank[x]
    BY <2>3, <2>4 DEF Ranked, Behind
  <2>6. last - rank[next[x]] \in X
    BY <2>4, <2>5
  <2> HIDE DEF X, Good
  <2>7. m <= last - rank[next[x]]
    BY <2>2, <2>6
  <2>8. x \in list /\ next[x] \in list /\ m = last - rank[x] /\ rank[next[x]] > rank[x]
    BY <2>3, <2>5
  <2> HIDE DEF list
  <2> QED
    BY <1>1, <2>7, <2>8
<1>6. reached[Main] = list
  <2>1. Good(Main)
    BY <1>5
  <2>2. \A y \in list : rank[y] >= rank[Main]
    BY <1>1
  <2> QED
    BY <2>1, <2>2
<1>7. reached[Idle] = {Idle, Cutter}
  <2>1. Idle \in Threads /\ Cutter \in Threads
    BY DEF Threads
  <2> QED
    BY <1>2, <2>1 DEF LinksInv
<1> QED
  BY <1>6, <1>7

\* What the program's loops over pt_next_thread come past.
LEMMA LinkedIs ==
    ASSUME LinksInv, WalkInv
    PROVE  /\ Linked(<<Main>>) = InList \cup {Main}
           /\ Linked(Heads) = InList \cup {Idle, Cutter, Main}
<1>1. PICK last, rank, walked : Ranked(rank, last, walked)
  BY DEF WalkInv, Ordered
<1>2. Linked(<<Main>>) = InList \cup {Main}
  <2>1. PICK reached : /\ IsReached(reached)
                       /\ Linked(<<Main>>) = UNION {reached[<<Main>>[i]] : i \in DOMAIN <<Main>>}
    BY LinkedWith
  <2>2. UNION {reached[<<Main>>[i]] : i \in DOMAIN <<Main>>} = reached[Main]
    <3>1. DOMAIN <<Main>> = {1} /\ <<Main>>[1] = Main
      OBVIOUS
    <3> QED
      BY <3>1
  <2> QED
    BY <1>1, <2>1, <2>2, ReachedIs
<1>3. Linked(Heads) = InList \cup {Idle, Cutter, Main}
  <2>1. PICK reached : /\ IsReached(reached)
                       /\ Linked(Heads) = UNION {reached[Heads[i]] : i \in DOMAIN Heads}
    BY LinkedWith
  <2>2. UNION {reached[Heads[i]] : i \in DOMAIN Heads} = reached[Idle] \cup reached[Main]
    <3>1. DOMAIN Heads = {1, 2} /\ Heads[1] = Idle /\ Heads[2] = Main
      BY DEF Heads
    <3> QED
      BY <3>1
  <2> QED
    BY <1>1, <2>1, <2>2, ReachedIs
<1> QED
  BY <1>2, <1>3

----------------------------------------------------------------------------
(* What the steps do to the lists.                                         *)

ListsInv == LinksInv /\ WalkInv

Running == {"setup", "start", "poll", "delete"}

\* Of most steps, and of what they leave alone.
LEMMA LinksStay ==
    ASSUME LinksInv, allocated' = allocated, next' = next, UNCHANGED cutter, InList' = InList,
           pc' # "link" \/ UNCHANGED <<pc, UserThread>>,
           pc' \in Running => pc \in Running /\ UserThread' = UserThread
    PROVE  LinksInv'
BY DEF LinksInv, cutter, Running

LEMMA RankedStays ==
    ASSUME NEW last, NEW rank, NEW walked, Ranked(rank, last, walked), next' = next, InList' = InList
    PROVE  Ranked(rank, last, walked)'
BY DEF Ranked, Behind

LEMMA WalkStays ==
    ASSUME WalkInv, next' = next, InList' = InList, UNCHANGED walk,
           pc' = pc \/ (pc \notin Listing /\ pc' \notin Listing)
    PROVE  WalkInv'
<1>1. PICK last, rank, walked : Ordered(rank, last, walked)
  BY DEF WalkInv
<1>2. Ranked(rank, last, walked)'
  BY <1>1, RankedStays DEF Ordered
<1>3. CASE pc \in Listing
  <2>1. pc' = pc /\ pc' \in Listing /\ Walking(rank, walked)
    BY <1>1, <1>3 DEF Ordered
  <2>2. Walking(rank, walked)'
    BY <2>1 DEF Walking, Passed, walk
  <2> QED
    BY <1>2, <2>1, <2>2 DEF WalkInv, Ordered
<1>4. CASE pc \notin Listing
  <2>1. pc' \notin Listing /\ walked = InList /\ listed = << >> /\ throughout = {}
    BY <1>1, <1>4 DEF Ordered
  <2>2. (walked = InList /\ listed = << >> /\ throughout = {})'
    BY <2>1 DEF walk
  <2> QED
    BY <1>2, <2>1, <2>2 DEF WalkInv, Ordered
<1> QED
  BY <1>3, <1>4

\* A step that leaves the lists alone, and ps.
LEMMA AwayFromLists ==
    ASSUME ListsInv, UNCHANGED <<memory, cutter, walk>>,
           \/ UNCHANGED <<pc, UserThread>>
           \/ /\ pc \notin Listing \cup {"link"} /\ pc' \notin Listing \cup {"link"}
              /\ pc' \in Running => pc \in Running /\ UserThread' = UserThread
    PROVE  ListsInv' /\ InList' = InList
<1>1. InList' = InList
  BY DEF InList, memory
<1>2. LinksInv'
  BY <1>1, LinksStay DEF ListsInv, memory
<1>3. WalkInv'
  BY <1>1, WalkStays DEF ListsInv, memory
<1> QED
  BY <1>1, <1>2, <1>3 DEF ListsInv

LEMMA ListsSimple ==
    ASSUME ListsInv,
           \/ \E n \in Names : Hshp_CMD_excute(n) \/ Hshp_CMD_type(n)
           \/ Hshp_CMD_toggle \/ OpenFile \/ Load \/ HalSetupTSS \/ Start \/ Poll
           \/ CloseFile \/ TypePortion \/ EraseClock \/ PspSoftTaskSW
           \/ \E b \in Blocks : UserProgram(b)
    PROVE  ListsInv' /\ InList' = InList
<1> USE DEF Listing, Running, TypingFile
<1>1. ASSUME NEW n \in Names, Hshp_CMD_excute(n) PROVE ListsInv' /\ InList' = InList
  <2>1. UNCHANGED <<memory, cutter, walk>> /\ pc = "prompt" /\ pc' \in {"open_program", "prompt"}
    BY <1>1 DEF Hshp_CMD_excute, Command, AwaitsCommand, Finished
  <2> QED
    BY <2>1, AwayFromLists
<1>2. ASSUME NEW n \in Names, Hshp_CMD_type(n) PROVE ListsInv' /\ InList' = InList
  <2>1. UNCHANGED <<memory, cutter, walk>> /\ pc = "prompt" /\ pc' = "open_text"
    BY <1>2 DEF Hshp_CMD_type, Command, AwaitsCommand
  <2> QED
    BY <2>1, AwayFromLists
<1>3. CASE Hshp_CMD_toggle
  <2>1. UNCHANGED <<memory, cutter, walk>> /\ pc = "prompt" /\ pc' \in {"erase", "prompt"}
    BY <1>3 DEF Hshp_CMD_toggle, Command, AwaitsCommand, Finished
  <2> QED
    BY <2>1, AwayFromLists
<1>4. CASE OpenFile
  <2>1. /\ UNCHANGED <<memory, cutter, walk>> /\ pc \in {"open_program", "open_text"}
        /\ pc' \in {"load", "type", "prompt"}
    BY <1>4 DEF OpenFile, Finished
  <2> QED
    BY <2>1, AwayFromLists
<1>5. CASE Load
  <2>1. UNCHANGED <<memory, cutter, walk>> /\ pc = "load" /\ pc' \in {"load", "create"}
    BY <1>5 DEF Load
  <2> QED
    BY <2>1, AwayFromLists
<1>6. CASE HalSetupTSS
  <2>1. UNCHANGED <<memory, cutter, walk>> /\ pc = "setup" /\ pc' = "start" /\ UserThread' = UserThread
    BY <1>6 DEF HalSetupTSS, loading
  <2> QED
    BY <2>1, AwayFromLists
<1>7. CASE Start
  <2>1. UNCHANGED <<memory, cutter, walk>> /\ pc = "start" /\ pc' = "poll" /\ UserThread' = UserThread
    BY <1>7 DEF Start, AfterStart, loading
  <2> QED
    BY <2>1, AwayFromLists
<1>8. CASE Poll
  <2>1. UNCHANGED <<memory, cutter, walk>> /\ pc = "poll" /\ pc' = "delete" /\ UserThread' = UserThread
    BY <1>8 DEF Poll, loading
  <2> QED
    BY <2>1, AwayFromLists
<1>9. CASE CloseFile
  <2>1. /\ UNCHANGED <<memory, cutter, walk>> /\ pc \in {"close", "close_text", "give_up"}
        /\ pc' = "prompt"
    BY <1>9 DEF CloseFile, Finished
  <2> QED
    BY <2>1, AwayFromLists
<1>10. CASE TypePortion
  <2>1. UNCHANGED <<memory, cutter, walk>> /\ pc = "type" /\ pc' \in TypingFile
    BY <1>10 DEF TypePortion
  <2> QED
    BY <2>1, AwayFromLists
<1>11. CASE EraseClock
  <2>1. UNCHANGED <<memory, cutter, walk>> /\ pc = "erase" /\ pc' = "prompt"
    BY <1>11 DEF EraseClock, Finished
  <2> QED
    BY <2>1, AwayFromLists
<1>12. CASE PspSoftTaskSW
  <2>1. UNCHANGED <<memory, cutter, walk>> /\ pc' = pc /\ UserThread' = UserThread
    BY <1>12 DEF PspSoftTaskSW, loading
  <2> QED
    BY <2>1, AwayFromLists
<1>13. ASSUME NEW b \in Blocks, UserProgram(b) PROVE ListsInv' /\ InList' = InList
  <2>1. UNCHANGED <<memory, cutter, walk>> /\ pc' = pc /\ UserThread' = UserThread
    BY <1>13 DEF UserProgram, CallGate, Sysp_SERVICE_CALL_MANAGER, loading
  <2> QED
    BY <2>1, AwayFromLists
<1> QED
  BY <1>1, <1>2, <1>3, <1>4, <1>5, <1>6, <1>7, <1>8, <1>9, <1>10, <1>11, <1>12, <1>13

LEMMA AllocatesList ==
    ASSUME ListsInv, AllocateThread
    PROVE  ListsInv' /\ InList' = InList
<1>1. CASE pc' = "give_up"
  <2>1. UNCHANGED <<memory, cutter, walk>> /\ pc = "create"
    BY <1>1 DEF AllocateThread
  <2> QED
    BY <1>1, <2>1, AwayFromLists DEF Listing, Running
<1>2. CASE pc' # "give_up"
  <2>1. PICK b \in Blocks \ allocated :
            /\ allocated' = allocated \cup {b} /\ next' = [next EXCEPT ![b] = Nil]
            /\ UserThread' = b /\ pc' = "link" /\ pc = "create" /\ UNCHANGED <<cutter, walk>>
    BY <1>2 DEF AllocateThread
  <2>2. InList = allocated /\ InList' = InList
    BY <2>1 DEF InList
  <2>3. LinksInv
    BY DEF ListsInv
  <2>4. b # Idle /\ b # Cutter /\ b # Main /\ b # Nil /\ b \in Threads /\ b \notin InList
    BY <2>1, <2>2, Apart DEF Threads
  <2>5. /\ next' \in [Threads -> Blocks \cup {Cutter, Nil}] /\ next'[b] = Nil
        /\ \A t \in Threads : t # b => next'[t] = next[t]
    BY <2>1, <2>3, <2>4 DEF LinksInv
  <2>6. LinksInv'
    <3>1. next'[Idle] = Cutter /\ next'[Cutter] = Nil
      BY <2>3, <2>4, <2>5 DEF LinksInv, Threads
    <3>2. b \notin Range(cutting) /\ b # item
      BY <2>2, <2>3, <2>4 DEF LinksInv
    <3> QED
      BY <2>1, <2>2, <2>3, <2>5, <3>1, <3>2 DEF LinksInv, cutter
  <2>7. PICK last, rank, walked : Ordered(rank, last, walked)
    BY DEF ListsInv, WalkInv
  <2>8. Ranked(rank, last, walked) /\ walked = InList /\ listed = << >> /\ throughout = {}
    BY <2>1, <2>7 DEF Ordered, Listing
  <2>9. Ranked(rank, last, walked)'
    <3>1. \A x \in walked \cup {Main} : x \in Threads /\ x # b
      BY <2>2, <2>3, <2>4, <2>8 DEF LinksInv, Threads
    <3>2. \A x \in walked \cup {Main} : next'[x] = next[x]
      BY <2>5, <3>1
    <3> QED
      BY <2>2, <2>8, <3>2 DEF Ranked, Behind
  <2>10. WalkInv'
    BY <2>1, <2>2, <2>8, <2>9 DEF WalkInv, Ordered, Listing, walk
  <2> QED
    BY <2>2, <2>6, <2>10 DEF ListsInv
<1> QED
  BY <1>1, <1>2

\* The new thread is the last from now on.
LEMMA AddsToList ==
    ASSUME ListsInv, PspAddNewThread
    PROVE  ListsInv'
<1>1. /\ LinksInv /\ WalkInv /\ pc = "link" /\ pc' = "setup" /\ allocated' = allocated
      /\ UserThread' = UserThread /\ UNCHANGED <<cutter, walk>>
  BY DEF ListsInv, PspAddNewThread, loading
<1>0. PICK b : b = UserThread
  OBVIOUS
<1>2. PICK end \in InList \cup {Main} : next[end] = Nil /\ next' = [next EXCEPT ![end] = b]
  BY <1>0, <1>1, LinkedIs DEF PspAddNewThread
<1>3. /\ b \in Blocks /\ b \in allocated /\ InList = allocated \ {b} /\ InList' = InList \cup {b}
      /\ b \notin InList /\ next[b] = Nil /\ b \in Threads /\ b \notin {Idle, Cutter, Main, Nil}
  <2>1. b \in Blocks /\ b \in allocated /\ next[b] = Nil
    BY <1>0, <1>1 DEF LinksInv
  <2>2. InList = allocated \ {b} /\ InList' = allocated
    BY <1>0, <1>1 DEF InList
  <2> QED
    BY <2>1, <2>2, Apart DEF Threads
<1>4. /\ end \in Threads /\ end # b /\ end # Idle /\ end # Cutter
  BY <1>1, <1>3, Apart DEF LinksInv, InList, Threads
<1>5. /\ next' \in [Threads -> Blocks \cup {Cutter, Nil}] /\ next'[end] = b
      /\ \A t \in Threads : t # end => next'[t] = next[t]
  BY <1>1, <1>2, <1>3, <1>4 DEF LinksInv
<1>6. LinksInv'
  <2>1. next'[Idle] = Cutter /\ next'[Cutter] = Nil
    BY <1>1, <1>4, <1>5 DEF LinksInv, Threads
  <2> QED
    BY <1>1, <1>3, <1>5, <2>1 DEF LinksInv, cutter
<1>7. PICK last, rank, walked : Ordered(rank, last, walked)
  BY <1>1 DEF WalkInv
<1>8. Ranked(rank, last, walked) /\ walked = InList /\ listed = << >> /\ throughout = {}
  BY <1>1, <1>7 DEF Ordered, Listing
<1>8a. PICK list : list = InList \cup {b}
  OBVIOUS
<1>8b. PICK ranks : ranks = [rank EXCEPT ![b] = last + 1]
  OBVIOUS
<1>9. /\ last \in Nat /\ ranks \in [Threads -> 0 .. (last + 1)] /\ ranks[b] = last + 1
      /\ \A t \in Threads : t # b => ranks[t] = rank[t] /\ rank[t] \in 0 .. last
  <2>1. last \in Nat /\ rank \in [Threads -> 0 .. last] /\ 0 .. last \subseteq 0 .. (last + 1) /\ last + 1 \in 0 .. (last + 1)
    BY <1>8 DEF Ranked
  <2> QED
    BY <1>3, <1>8b, <2>1
<1>10. last \in Nat /\ last >= 2 /\ ranks[Idle] = 0 /\ ranks[Cutter] = 1 /\ ranks[Main] = 2
  <2>1. last \in Nat /\ rank[Idle] = 0 /\ rank[Cutter] = 1 /\ rank[Main] = 2 /\ rank[Main] \in 0 .. last
    BY <1>8 DEF Ranked, Threads
  <2>2. Idle \in Threads /\ Cutter \in Threads /\ Main \in Threads
    BY DEF Threads
  <2> QED
    BY <1>3, <1>9, <2>1, <2>2
<1>11. \A x \in InList : x \in Threads /\ x # b /\ ranks[x] = rank[x] /\ rank[x] \in 0 .. last /\ rank[x] > 2
  <2>1. \A x \in InList : x \in Threads /\ x # b
    BY <1>1, <1>3 DEF LinksInv, InList, Threads
  <2> QED
    BY <1>8, <1>9, <2>1 DEF Ranked
<1>12. \A x \in list : ranks[x] > 2 /\ \A y \in list : ranks[x] = ranks[y] => x = y
  <2>1. ASSUME NEW x \in InList, NEW y \in InList, ranks[x] = ranks[y] PROVE x = y
    BY <1>8, <1>11, <2>1 DEF Ranked
  <2>2. ASSUME NEW x \in InList PROVE ranks[x] # ranks[b] /\ ranks[x] > 2
    BY <1>9, <1>10, <1>11
  <2> QED
    BY <1>9, <1>10, <1>8a, <2>1, <2>2
<1>13. /\ next'[b] = Nil
       /\ \A x \in InList \cup {Main} : x # end => next'[x] = next[x]
       /\ Main \in Threads /\ Main # b /\ Nil \notin InList /\ ranks[Main] = rank[Main]
  <2>1. Main \in Threads /\ \A x \in InList \cup {Main} : x \in Threads
    BY <1>11 DEF Threads
  <2> QED
    BY <1>1, <1>3, <1>4, <1>5, <1>9, <1>11, <2>1, Apart DEF LinksInv, InList
<1>14. ASSUME NEW x \in InList \cup {Main}
       PROVE  /\ next'[x] \in list \cup {Nil}
              /\ next'[x] # Nil => ranks[next'[x]] > ranks[x]
              /\ \A y \in list : ranks[y] > ranks[x] => next'[x] # Nil /\ ranks[next'[x]] <= ranks[y]
  <2>1. /\ next[x] \in InList \cup {Nil} /\ (next[x] # Nil => rank[next[x]] > rank[x])
        /\ \A y \in InList : rank[y] > rank[x] => next[x] # Nil /\ rank[next[x]] <= rank[y]
    BY <1>8 DEF Ranked, Behind
  <2>2. ranks[x] = rank[x] /\ rank[x] \in 0 .. last
    BY <1>9, <1>11, <1>13
  <2>3. CASE x = end
    <3>1. next'[x] = b /\ ranks[b] > ranks[x] /\ next[x] = Nil
      BY <1>2, <1>5, <1>9, <2>2, <2>3
    <3>2. ASSUME NEW y \in list, ranks[y] > ranks[x] PROVE y = b
      BY <1>11, <1>8a, <2>2, <3>1, <3>2, <2>1
    <3> QED
      BY <1>3, <1>9, <1>8a, <3>1, <3>2
  <2>4. CASE x # end
    <3>1. next'[x] = next[x]
      BY <1>13, <2>4
    <3>2. next[x] # Nil
      <4>1. rank[end] > rank[x] \/ rank[x] > rank[end] \/ x = end
        <5>1. rank[end] \in Nat /\ rank[x] \in Nat /\ rank[Main] = 2
          BY <1>8, <1>9, <1>4, <1>3, <2>2 DEF Ranked
        <5>2. rank[end] = rank[x] => x = end
          BY <1>8, <1>11, <5>1 DEF Ranked
        <5> QED
          BY <5>1, <5>2
      <4>2. ~ rank[x] > rank[end]
        <5>1. x \in InList => ~ rank[x] > rank[end]
          BY <1>2, <1>8 DEF Ranked, Behind
        <5>2. x = Main => ~ rank[x] > rank[end]
          BY <1>8, <1>11 DEF Ranked
        <5> QED
          BY <5>1, <5>2
      <4>3. rank[end] > rank[x] /\ end \in InList
        BY <4>1, <4>2, <2>4, <1>8, <1>11, <2>2 DEF Ranked
      <4> QED
        BY <2>1, <4>3
    <3>3. next[x] \in InList /\ ranks[next[x]] = rank[next[x]] /\ rank[next[x]] \in 0 .. last
      BY <1>11, <2>1, <3>2
    <3>4. ASSUME NEW y \in list, ranks[y] > ranks[x] PROVE ranks[next[x]] <= ranks[y]
      <4>1. CASE y = b
        BY <1>9, <3>3, <4>1
      <4>2. CASE y \in InList
        BY <1>11, <2>1, <2>2, <3>3, <3>4, <4>2
      <4> QED
        BY <1>8a, <4>1, <4>2
    <3> QED
      BY <1>8a, <2>1, <2>2, <3>1, <3>2, <3>3, <3>4
  <2> QED
    BY <2>3, <2>4
<1>15. ASSUME NEW y \in list PROVE ~ ranks[y] > ranks[b]
  BY <1>9, <1>11, <1>8a
<1>16. Ranked(ranks, last + 1, list)'
  <2>1. \A x \in list \cup {Main} : Behind(x, ranks, list)'
    BY <1>3, <1>13, <1>14, <1>15, <1>8a DEF Behind
  <2>2. \A x \in InList' \cup {Main} : next'[x] \in InList' \cup {Nil}
    BY <1>3, <1>8, <1>13, <1>14, <1>8a
  <2>3. list \subseteq Blocks /\ InList' \subseteq list
    BY <1>1, <1>3, <1>8a DEF LinksInv, InList
  <2> QED
    BY <1>9, <1>10, <1>12, <2>1, <2>2, <2>3 DEF Ranked
<1>17. WalkInv'
  <2>1. last + 1 \in Nat /\ list = InList' /\ pc' \notin Listing
    BY <1>1, <1>3, <1>9, <1>8a DEF Listing
  <2>2. listed' = << >> /\ throughout' = {}
    BY <1>1, <1>8 DEF walk
  <2>3. \E n, r, w : Ordered(r, n, w)'
    <3>1. Ordered(ranks, last + 1, list)'
      BY <1>16, <2>1, <2>2 DEF Ordered
    <3> QED
      BY <2>1, <3>1
  <2> QED
    BY <2>3 DEF WalkInv
<1> QED
  BY <1>6, <1>17 DEF ListsInv

LEMMA DeletesList ==
    ASSUME ListsInv, PsDeleteThread
    PROVE  ListsInv' /\ InList' = InList
<1>1. /\ LinksInv /\ pc = "delete" /\ pc' = "close" /\ UNCHANGED <<memory, item, walk, UserThread>>
      /\ cutting' = IF Len(cutting) < MAX_CUTTING_ITEM THEN Append(cutting, UserThread) ELSE cutting
  BY DEF ListsInv, PsDeleteThread, loading
<1>2. InList' = InList /\ InList = allocated
  BY <1>1 DEF InList, memory
<1>3. WalkInv'
  BY <1>1, <1>2, WalkStays DEF ListsInv, Listing, memory
<1>4. /\ UserThread \in InList /\ UserThread \in Blocks /\ UserThread # item
      /\ cutting \in Seq(Blocks) /\ IsInjective(cutting) /\ UserThread \notin Range(cutting)
      /\ Len(cutting) <= MAX_CUTTING_ITEM /\ Range(cutting) \subseteq InList /\ item \notin Range(cutting)
  BY <1>1, <1>2 DEF LinksInv
<1>5. CASE ~ Len(cutting) < MAX_CUTTING_ITEM
  <2>1. UNCHANGED cutter
    BY <1>1, <1>5 DEF cutter
  <2> QED
    BY <1>1, <1>2, <1>3, <2>1, LinksStay DEF ListsInv, Running, memory
<1>6. CASE Len(cutting) < MAX_CUTTING_ITEM
  <2>1. /\ cutting' \in Seq(Blocks) /\ Len(cutting') <= MAX_CUTTING_ITEM
        /\ DOMAIN cutting' = 1 .. (Len(cutting) + 1)
        /\ cutting'[Len(cutting) + 1] = UserThread
        /\ \A i \in 1 .. Len(cutting) : cutting'[i] = cutting[i]
    BY <1>1, <1>4, <1>6, CommandsAssumption
  <2>2. DOMAIN cutting = 1 .. Len(cutting) /\ Len(cutting) \in Nat
    BY <1>4
  <2>3. \A i \in DOMAIN cutting' : i \in DOMAIN cutting \/ i = Len(cutting) + 1
    BY <2>1, <2>2
  <2>4. Range(cutting') \subseteq Range(cutting) \cup {UserThread}
    BY <2>1, <2>2, <2>3 DEF Range
  <2>5. IsInjective(cutting')
    <3>1. ASSUME NEW i \in DOMAIN cutting', NEW j \in DOMAIN cutting', cutting'[i] = cutting'[j]
          PROVE  i = j
      <4>1. CASE i \in DOMAIN cutting /\ j \in DOMAIN cutting
        BY <1>4, <2>1, <2>2, <3>1, <4>1 DEF IsInjective
      <4>2. ASSUME NEW k \in DOMAIN cutting PROVE cutting'[k] # UserThread
        BY <1>4, <2>1, <2>2 DEF Range
      <4> QED
        BY <2>1, <2>3, <3>1, <4>1, <4>2
    <3> QED
      BY <3>1 DEF IsInjective
  <2>6. item' = item /\ item' \notin Range(cutting') /\ Range(cutting') \subseteq InList'
    BY <1>1, <1>2, <1>4, <2>4
  <2>7. LinksInv'
    BY <1>1, <1>2, <2>1, <2>5, <2>6 DEF LinksInv, memory
  <2> QED
    BY <1>2, <1>3, <2>7 DEF ListsInv
<1> QED
  BY <1>5, <1>6

LEMMA PopsList ==
    ASSUME ListsInv, PspPopCuttingItem
    PROVE  ListsInv' /\ InList' = InList
<1>1. /\ LinksInv /\ UNCHANGED <<pc, memory, walk, UserThread>>
      /\ cutting # << >> /\ item' = Head(cutting) /\ cutting' = Tail(cutting)
  BY DEF ListsInv, PspPopCuttingItem, loading
<1>2. InList' = InList
  BY <1>1 DEF InList, memory
<1>3. WalkInv'
  BY <1>1, <1>2, WalkStays DEF ListsInv, memory
<1>4. /\ cutting \in Seq(Blocks) /\ IsInjective(cutting) /\ Len(cutting) <= MAX_CUTTING_ITEM
      /\ Range(cutting) \subseteq InList
  BY <1>1 DEF LinksInv
<1>5. /\ Len(cutting) \in Nat \ {0} /\ DOMAIN cutting = 1 .. Len(cutting) /\ item' = cutting[1]
      /\ cutting' \in Seq(Blocks) /\ Len(cutting') = Len(cutting) - 1
      /\ DOMAIN cutting' = 1 .. (Len(cutting) - 1)
      /\ \A i \in DOMAIN cutting' : cutting'[i] = cutting[i + 1]
  BY <1>1, <1>4
<1>6. \A i \in DOMAIN cutting' : i + 1 \in DOMAIN cutting /\ i + 1 # 1 /\ i \in Nat
  BY <1>5
<1>7. 1 \in DOMAIN cutting
  BY <1>5
<1>8. /\ Range(cutting') \subseteq Range(cutting) /\ item' \in Range(cutting)
      /\ item' \notin Range(cutting')
  BY <1>4, <1>5, <1>6, <1>7 DEF Range, IsInjective
<1>9. IsInjective(cutting')
  <2>1. ASSUME NEW i \in DOMAIN cutting', NEW j \in DOMAIN cutting', cutting'[i] = cutting'[j]
        PROVE  i = j
    <3>1. i + 1 = j + 1
      BY <1>4, <1>5, <1>6, <2>1 DEF IsInjective
    <3> QED
      BY <1>6, <3>1
  <2> QED
    BY <2>1 DEF IsInjective
<1>10. LinksInv'
  <2>2. Len(cutting') <= MAX_CUTTING_ITEM
    BY <1>4, <1>5, CommandsAssumption
  <2> QED
    BY <1>1, <1>2, <1>4, <1>5, <1>8, <1>9, <2>2 DEF LinksInv, memory
<1> QED
  BY <1>2, <1>3, <1>10 DEF ListsInv

\* The thread before one that is freed goes on to the one behind it; ps, when it
\* stands at the freed one, does so too.
LEMMA CutsList ==
    ASSUME ListsInv, PspThreadCutterThread
    PROVE  /\ ListsInv' /\ item \in InList
           /\ allocated' = allocated \ {item} /\ InList' = InList \ {item}
<1>1. /\ LinksInv /\ WalkInv /\ item \in InList /\ item' = Nil
      /\ UNCHANGED <<pc, UserThread, cutting, process, now_thread, listed>>
  BY DEF ListsInv, LinksInv, PspThreadCutterThread, loading
<1>2. PICK x : x = item
  OBVIOUS
<1>3. PICK prev \in InList \cup {Main} :
          /\ next[prev] = x /\ next' = [next EXCEPT ![prev] = next[x], ![x] = next[x]]
          /\ allocated' = allocated \ {x} /\ throughout' = throughout \ {x}
  BY <1>1, <1>2, LinkedIs DEF PspThreadCutterThread, NextOfFreed
<1>4. PICK last, rank, walked : Ordered(rank, last, walked)
  BY <1>1 DEF WalkInv
<1>5. Ranked(rank, last, walked) /\ (pc \notin Listing => walked = InList)
  BY <1>4 DEF Ordered
<1>6. InList' = InList \ {x}
  BY <1>1, <1>3 DEF InList
<1>7. /\ InList \subseteq walked /\ walked \subseteq Blocks /\ walked \subseteq Threads
      /\ Main \in Threads /\ x \in InList /\ x \in Blocks /\ prev \in Threads
      /\ prev # Idle /\ prev # Cutter /\ x # Nil /\ Nil \notin walked
  BY <1>1, <1>2, <1>3, <1>5, Apart DEF Ranked, Threads
<1>8. /\ \A t \in Threads : rank[t] \in Nat
      /\ \A y \in walked : rank[y] > rank[Main]
      /\ \A y, z \in walked : rank[y] = rank[z] => y = z
  <2>1. last \in Nat /\ rank \in [Threads -> 0 .. last] /\ rank[Main] = 2
    BY <1>5 DEF Ranked
  <2>2. \A t \in Threads : rank[t] \in Nat
    BY <2>1
  <2> QED
    BY <1>5, <2>1, <2>2 DEF Ranked
<1>9. \A y \in walked \cup {Main} :
          /\ next[y] \in walked \cup {Nil}
          /\ next[y] # Nil => rank[next[y]] > rank[y]
          /\ \A z \in InList : rank[z] > rank[y] => next[y] # Nil /\ rank[next[y]] <= rank[z]
  BY <1>5 DEF Ranked, Behind
<1>10. prev # x /\ next[x] # x /\ rank[x] > rank[prev] /\ next[x] \in InList \cup {Nil}
  <2>1. rank[x] > rank[prev] /\ rank[prev] \in Nat /\ rank[x] \in Nat
    BY <1>3, <1>7, <1>8, <1>9
  <2>2. next[x] # Nil => rank[next[x]] > rank[x]
    BY <1>7, <1>9
  <2>3. next[x] \in InList \cup {Nil}
    BY <1>5, <1>7 DEF Ranked
  <2> QED
    BY <1>7, <2>1, <2>2, <2>3
<1>11. /\ next' \in [Threads -> Blocks \cup {Cutter, Nil}] /\ next'[prev] = next[x]
       /\ \A t \in Threads : t # prev => next'[t] = next[t]
  <2>1. next \in [Threads -> Blocks \cup {Cutter, Nil}]
    BY <1>1 DEF LinksInv
  <2> QED
    BY <1>3, <1>7, <1>10, <2>1
<1>12. ASSUME NEW y \in InList \cup {Main}, next[y] = x PROVE y = prev
  <2>1. y \in Threads /\ rank[y] \in Nat /\ rank[prev] \in Nat /\ rank[x] \in Nat
    BY <1>7, <1>8
  <2>2. rank[x] > rank[y]
    BY <1>7, <1>9, <1>12
  <2>3. ~ rank[y] > rank[prev]
    <3>1. CASE y \in InList
      BY <1>3, <1>7, <1>9, <2>1, <2>2, <3>1
    <3>2. CASE y = Main
      <4>1. prev \in walked => rank[prev] > rank[Main]
        BY <1>8
      <4> QED
        BY <1>3, <1>7, <2>1, <3>2, <4>1
    <3> QED
      BY <3>1, <3>2
  <2>4. ~ rank[prev] > rank[y]
    <3>1. CASE prev \in InList
      BY <1>7, <1>9, <1>10, <1>12, <2>1, <3>1
    <3>2. CASE prev = Main
      <4>1. y \in walked => rank[y] > rank[Main]
        BY <1>8
      <4> QED
        BY <1>7, <2>1, <3>2, <4>1
    <3> QED
      BY <1>3, <3>1, <3>2
  <2>5. rank[y] = rank[prev]
    BY <2>1, <2>3, <2>4
  <2>6. CASE y \in InList /\ prev \in InList
    BY <1>7, <1>8, <2>5, <2>6
  <2>7. CASE y = Main /\ prev = Main
    BY <2>7
  <2>8. (y \in InList /\ prev = Main) \/ (y = Main /\ prev \in InList) => FALSE
    BY <1>7, <1>8, <2>1, <2>5
  <2> QED
    BY <1>3, <2>6, <2>7, <2>8
<1>13. LinksInv'
  <2>1. next'[Idle] = Cutter /\ next'[Cutter] = Nil
    BY <1>1, <1>7, <1>11 DEF LinksInv, Threads
  <2>2. /\ pc \in Running \cup {"link"} => UserThread \in allocated' /\ UserThread \notin Range(cutting)
        /\ pc \in Running \cup {"link"} => UserThread # Nil
        /\ pc = "link" => UserThread # prev /\ UserThread \in Threads /\ next[UserThread] = Nil
    <3>1. pc \in Running \cup {"link"} =>
              UserThread \in allocated /\ UserThread # x /\ UserThread \notin Range(cutting)
      BY <1>1, <1>2 DEF LinksInv, Running
    <3>2. allocated \subseteq Blocks /\ Nil \notin Blocks /\ Main \notin Blocks
      BY <1>1, Apart DEF LinksInv
    <3>3. pc = "link" => UserThread \notin InList /\ next[UserThread] = Nil
      BY <1>1 DEF LinksInv, InList
    <3> QED
      BY <1>3, <3>1, <3>2, <3>3 DEF Threads
  <2>3. pc' = "link" => next'[UserThread'] = Nil
    BY <1>1, <1>11, <2>2
  <2>4. /\ allocated' \subseteq Blocks /\ cutting \in Seq(Blocks) /\ Len(cutting) <= MAX_CUTTING_ITEM
        /\ IsInjective(cutting) /\ Range(cutting) \subseteq InList' /\ Nil \notin Range(cutting)
    <3>1. /\ allocated \subseteq Blocks /\ cutting \in Seq(Blocks) /\ Len(cutting) <= MAX_CUTTING_ITEM
          /\ IsInjective(cutting) /\ Range(cutting) \subseteq InList /\ x \notin Range(cutting)
      BY <1>1, <1>2 DEF LinksInv
    <3> QED
      BY <1>3, <1>6, <1>7, <3>1
  <2> QED
    BY <1>1, <1>11, <2>1, <2>2, <2>3, <2>4 DEF LinksInv, Running
<1>14. PICK kept : kept = IF pc \in Listing THEN walked ELSE InList \ {x}
  OBVIOUS
<1>15. InList' \subseteq kept /\ kept \subseteq walked
  BY <1>5, <1>6, <1>7, <1>14
<1>16. ASSUME NEW y \in kept \cup {Main} PROVE Behind(y, rank, kept)'
  <2>1. y \in walked \cup {Main} /\ y \in Threads
    BY <1>7, <1>15
  <2>2. CASE y = prev
    <3>1. next'[y] \in kept \cup {Nil}
      BY <1>6, <1>10, <1>11, <1>15, <2>2
    <3>2. next[x] # Nil => rank[next[x]] > rank[prev]
      <4>1. CASE next[x] # Nil
        <5>1. rank[next[x]] > rank[x] /\ next[x] \in Threads
          BY <1>7, <1>9, <1>10, <4>1
        <5> QED
          BY <1>7, <1>8, <1>10, <5>1
      <4> QED
        BY <4>1
    <3>3. ASSUME NEW z \in InList', rank[z] > rank[prev]
          PROVE  next[x] # Nil /\ rank[next[x]] <= rank[z]
      <4>1. z \in InList /\ z # x /\ rank[x] <= rank[z] /\ rank[x] \in Nat /\ rank[z] \in Nat
        BY <1>3, <1>6, <1>7, <1>8, <1>9, <3>3
      <4>2. rank[x] # rank[z]
        BY <1>7, <1>8, <4>1
      <4>3. rank[z] > rank[x]
        BY <4>1, <4>2
      <4> QED
        BY <1>7, <1>9, <4>1, <4>3
    <3> QED
      BY <1>11, <2>2, <3>1, <3>2, <3>3 DEF Behind
  <2>3. CASE y # prev
    <3>1. next'[y] = next[y]
      BY <1>11, <2>1, <2>3
    <3>2. next[y] \in kept \cup {Nil}
      <4>1. CASE pc \in Listing
        BY <1>9, <1>14, <2>1, <4>1
      <4>2. CASE pc \notin Listing
        BY <1>5, <1>9, <1>12, <1>14, <2>1, <2>3, <4>2
      <4> QED
        BY <4>1, <4>2
    <3> QED
      BY <1>6, <1>9, <2>1, <3>1, <3>2 DEF Behind
  <2> QED
    BY <2>2, <2>3
<1>17. ASSUME NEW y \in InList' \cup {Main} PROVE next'[y] \in InList' \cup {Nil}
  <2>1. y \in InList \cup {Main} /\ y \in Threads /\ next[y] \in InList \cup {Nil}
    BY <1>5, <1>6, <1>7 DEF Ranked
  <2>2. CASE y = prev
    BY <1>6, <1>10, <1>11, <2>2
  <2>3. CASE y # prev
    BY <1>6, <1>11, <1>12, <2>1, <2>3
  <2> QED
    BY <2>2, <2>3
<1>18. Ranked(rank, last, kept)'
  <2>1. last \in Nat /\ rank \in [Threads -> 0 .. last] /\ rank[Idle] = 0 /\ rank[Cutter] = 1 /\ rank[Main] = 2
    BY <1>5 DEF Ranked
  <2>2. kept \subseteq Blocks /\ \A y \in kept : rank[y] > 2 /\ \A z \in kept : rank[y] = rank[z] => y = z
    BY <1>5, <1>15 DEF Ranked
  <2> QED
    BY <1>15, <1>16, <1>17, <2>1, <2>2 DEF Ranked
<1>19. CASE pc \in Listing
  <2>1. Walking(rank, walked) /\ kept = walked /\ pc' \in Listing
    BY <1>1, <1>4, <1>14, <1>19 DEF Ordered
  <2>2. throughout' \subseteq InList' \cup {Idle, Cutter, Main} /\ throughout' \subseteq throughout
    BY <1>3, <1>6, <2>1 DEF Walking
  <2>3. \A t : Passed(t, rank)' <=> Passed(t, rank)
    BY <1>1 DEF Passed
  <2>4. Walking(rank, kept)'
    <3>1. /\ process' \in {1, 2} /\ now_thread' \in kept \cup {Idle, Cutter, Main}
          /\ process' = 1 <=> now_thread' \in {Idle, Cutter}
          /\ listed' \in Seq(Threads)
      BY <1>1, <2>1 DEF Walking
    <3>2. (\A i \in DOMAIN listed : Passed(listed[i], rank))'
      BY <1>1, <2>1 DEF Walking, Passed
    <3>3. (\A i, j \in DOMAIN listed : i < j => rank[listed[i]] < rank[listed[j]])'
      BY <1>1, <2>1 DEF Walking
    <3>4. (\A t \in throughout : Passed(t, rank) => t \in Range(listed))'
      BY <1>1, <2>1, <2>2, <2>3 DEF Walking
    <3> QED
      BY <2>2, <3>1, <3>2, <3>3, <3>4 DEF Walking
  <2>5. Ordered(rank, last, kept)'
    BY <1>18, <2>1, <2>4 DEF Ordered
  <2> QED
    BY <1>1, <1>2, <1>3, <1>6, <1>13, <2>5 DEF ListsInv, WalkInv
<1>20. CASE pc \notin Listing
  <2>1. kept = InList' /\ listed' = << >> /\ throughout' = {} /\ pc' \notin Listing
    BY <1>1, <1>3, <1>4, <1>6, <1>14, <1>20 DEF Ordered
  <2>2. Ordered(rank, last, kept)'
    BY <1>18, <2>1 DEF Ordered
  <2> QED
    BY <1>1, <1>2, <1>3, <1>6, <1>13, <2>2 DEF ListsInv, WalkInv
<1> QED
  BY <1>19, <1>20

LEMMA RanksDiffer ==
    ASSUME NEW last, NEW rank, NEW walked, Ranked(rank, last, walked)
    PROVE  /\ walked \cup {Idle, Cutter, Main} \subseteq Threads
           /\ \A t \in Threads : rank[t] \in Nat
           /\ \A x, y \in walked \cup {Idle, Cutter, Main} : rank[x] = rank[y] => x = y
<1>1. walked \cup {Idle, Cutter, Main} \subseteq Threads
  BY DEF Ranked, Threads
<1>2. \A t \in Threads : rank[t] \in Nat
  <2>1. last \in Nat /\ rank \in [Threads -> 0 .. last]
    BY DEF Ranked
  <2> QED
    BY <2>1
<1>3. ASSUME NEW x \in walked \cup {Idle, Cutter, Main}, NEW y \in walked \cup {Idle, Cutter, Main},
             rank[x] = rank[y]
      PROVE  x = y
  <2>1. /\ rank[Idle] = 0 /\ rank[Cutter] = 1 /\ rank[Main] = 2
        /\ \A z \in walked : rank[z] > 2
    BY DEF Ranked
  <2>2. CASE x \in walked /\ y \in walked
    BY <1>3, <2>2 DEF Ranked
  <2>3. CASE x \notin walked /\ y \notin walked
    BY <1>3, <2>1, <2>3
  <2>4. rank[x] \in Nat /\ rank[y] \in Nat
    BY <1>1, <1>2
  <2> QED
    BY <1>3, <2>1, <2>2, <2>3, <2>4
<1> QED
  BY <1>1, <1>2, <1>3

\* The steps of ps leave the lists as they are.
LEMMA WalksList ==
    ASSUME ListsInv, UNCHANGED <<memory, cutter, UserThread>>, pc # "link", pc' \notin Running \cup {"link"}
    PROVE  /\ LinksInv' /\ InList' = InList
           /\ \A last, rank, walked : Ranked(rank, last, walked) => Ranked(rank, last, walked)'
<1>1. InList' = InList
  BY DEF InList, memory
<1>2. LinksInv'
  BY <1>1, LinksStay DEF ListsInv, memory
<1>3. ASSUME NEW last, NEW rank, NEW walked, Ranked(rank, last, walked)
      PROVE  Ranked(rank, last, walked)'
  BY <1>1, <1>3, RankedStays DEF memory
<1> QED
  BY <1>1, <1>2, <1>3

LEMMA BeginsWalk ==
    ASSUME ListsInv, Hshp_CMD_ps
    PROVE  ListsInv' /\ InList' = InList
<1>1. /\ pc = "prompt" /\ pc' = "print_thread" /\ UNCHANGED <<memory, cutter, UserThread>>
      /\ process' = 1 /\ now_thread' = Heads[1] /\ listed' = << >> /\ throughout' = Linked(Heads)
  BY DEF Hshp_CMD_ps, Command, AwaitsCommand, loading
<1>2. /\ LinksInv' /\ InList' = InList
      /\ \A last, rank, walked : Ranked(rank, last, walked) => Ranked(rank, last, walked)'
  BY <1>1, WalksList DEF Running
<1>3. now_thread' = Idle /\ throughout' = InList' \cup {Idle, Cutter, Main}
  BY <1>1, <1>2, LinkedIs DEF ListsInv, Heads
<1>4. PICK last, rank, walked : Ranked(rank, last, walked)
  BY DEF ListsInv, WalkInv, Ordered
<1>5. InList \subseteq walked /\ rank[Idle] = 0
  BY <1>4 DEF Ranked
<1>6. \A t \in InList' \cup {Idle, Cutter, Main} : rank[t] \in Nat
  BY <1>2, <1>4, <1>5, RanksDiffer
<1>7. \A t \in throughout' : ~ rank[t] < rank[now_thread']
  BY <1>3, <1>5, <1>6
<1>8. Walking(rank, walked)'
  <2>1. (\A t \in throughout : Passed(t, rank) => t \in Range(listed))'
    BY <1>1, <1>7 DEF Passed
  <2>2. DOMAIN listed' = {} /\ listed' \in Seq(Threads)
    <3>1. << >> \in Seq(Threads) /\ DOMAIN << >> = {}
      OBVIOUS
    <3> QED
      BY <1>1, <3>1
  <2>3. (process \in {1, 2} /\ (process = 1 <=> now_thread \in {Idle, Cutter}))'
    BY <1>1, <1>3
  <2> QED
    BY <1>3, <2>1, <2>2, <2>3 DEF Walking
<1>9. Ordered(rank, last, walked)'
  BY <1>1, <1>2, <1>4, <1>8 DEF Ordered, Listing
<1> QED
  BY <1>2, <1>9 DEF ListsInv, WalkInv

LEMMA PrintsInWalk ==
    ASSUME ListsInv, PrintThread
    PROVE  ListsInv' /\ InList' = InList
<1>1. /\ pc = "print_thread" /\ pc' = "next_thread"
      /\ UNCHANGED <<memory, cutter, UserThread, process, now_thread, throughout>>
      /\ listed' = Append(listed, now_thread)
  BY DEF PrintThread, loading
<1>2. /\ LinksInv' /\ InList' = InList
      /\ \A last, rank, walked : Ranked(rank, last, walked) => Ranked(rank, last, walked)'
  BY <1>1, WalksList DEF Running
<1>3. PICK last, rank, walked : Ordered(rank, last, walked)
  BY DEF ListsInv, WalkInv
<1>4. Ranked(rank, last, walked) /\ Walking(rank, walked)
  BY <1>1, <1>3 DEF Ordered, Listing
<1>5. /\ walked \cup {Idle, Cutter, Main} \subseteq Threads
      /\ \A t \in Threads : rank[t] \in Nat
      /\ \A x, y \in walked \cup {Idle, Cutter, Main} : rank[x] = rank[y] => x = y
  BY <1>4, RanksDiffer
<1>6. /\ now_thread \in walked \cup {Idle, Cutter, Main} /\ now_thread \in Threads
      /\ throughout \subseteq walked \cup {Idle, Cutter, Main} /\ listed \in Seq(Threads)
  BY <1>4, <1>5 DEF Walking, Ranked
<1>7. /\ DOMAIN listed = 1 .. Len(listed) /\ Len(listed) \in Nat /\ listed' \in Seq(Threads)
      /\ DOMAIN listed' = 1 .. (Len(listed) + 1) /\ listed'[Len(listed) + 1] = now_thread
      /\ \A i \in DOMAIN listed : listed'[i] = listed[i] /\ listed[i] \in Threads
  <2>1. DOMAIN listed = 1 .. Len(listed) /\ Len(listed) \in Nat
    BY <1>6
  <2>2. \A i \in DOMAIN listed : listed[i] \in Threads
    BY <1>6
  <2>3. /\ Append(listed, now_thread) \in Seq(Threads)
        /\ Len(Append(listed, now_thread)) = Len(listed) + 1
        /\ \A i \in 1 .. Len(listed) : Append(listed, now_thread)[i] = listed[i]
        /\ Append(listed, now_thread)[Len(listed) + 1] = now_thread
    BY <1>6, AppendProperties
  <2>4. /\ listed' \in Seq(Threads) /\ Len(listed') = Len(listed) + 1
        /\ \A i \in 1 .. Len(listed) : listed'[i] = listed[i]
        /\ listed'[Len(listed) + 1] = now_thread
    BY <1>1, <2>3
  <2>5. DOMAIN listed' = 1 .. (Len(listed) + 1)
    BY <2>4
  <2> QED
    BY <2>1, <2>2, <2>4, <2>5
<1>8. \A i \in DOMAIN listed : rank[listed[i]] < rank[now_thread]
  BY <1>1, <1>4 DEF Walking, Passed
<1>9. \A i \in DOMAIN listed' : i \in DOMAIN listed \/ i = Len(listed) + 1
  BY <1>7
<1>10. \A t : Passed(t, rank)' <=> rank[t] <= rank[now_thread]
  BY <1>1 DEF Passed
<1>11. \A i \in DOMAIN listed' : listed'[i] \in Threads /\ rank[listed'[i]] <= rank[now_thread]
  <2>1. \A i \in DOMAIN listed : rank[listed[i]] \in Nat
    BY <1>5, <1>7
  <2>2. rank[now_thread] \in Nat
    BY <1>5, <1>6
  <2> QED
    BY <1>6, <1>7, <1>8, <1>9, <2>1, <2>2
<1>12. ASSUME NEW i \in DOMAIN listed', NEW j \in DOMAIN listed', i < j
       PROVE  rank[listed'[i]] < rank[listed'[j]]
  <2>1. CASE j \in DOMAIN listed
    <3>1. i \in DOMAIN listed
      BY <1>7, <1>12, <2>1
    <3> QED
      BY <1>4, <1>7, <1>12, <2>1, <3>1 DEF Walking
  <2>2. CASE j = Len(listed) + 1
    <3>1. i \in DOMAIN listed
      BY <1>7, <1>12, <2>2
    <3> QED
      BY <1>7, <1>8, <2>2, <3>1
  <2> QED
    BY <1>9, <2>1, <2>2
<1>13. ASSUME NEW t \in throughout, rank[t] <= rank[now_thread] PROVE t \in Range(listed')
  <2>1. CASE rank[t] < rank[now_thread]
    <3>1. t \in Range(listed)
      BY <1>1, <1>4, <2>1 DEF Walking, Passed
    <3> QED
      BY <1>7, <3>1 DEF Range
  <2>2. CASE ~ rank[t] < rank[now_thread]
    <3>1. rank[t] \in Nat /\ rank[now_thread] \in Nat
      BY <1>5, <1>6
    <3>2. t = now_thread
      BY <1>5, <1>6, <1>13, <2>2, <3>1
    <3>3. Len(listed) + 1 \in DOMAIN listed'
      BY <1>7
    <3> QED
      BY <1>7, <3>2, <3>3 DEF Range
  <2> QED
    BY <2>1, <2>2
<1>14. Walking(rank, walked)'
  <2>1. (\A i \in DOMAIN listed : Passed(listed[i], rank))'
    BY <1>1, <1>11 DEF Passed
  <2>2. (\A t \in throughout : Passed(t, rank) => t \in Range(listed))'
    BY <1>1, <1>10, <1>13
  <2>3. /\ process \in {1, 2} /\ now_thread \in walked \cup {Idle, Cutter, Main}
        /\ process = 1 <=> now_thread \in {Idle, Cutter}
        /\ throughout \subseteq InList \cup {Idle, Cutter, Main}
    BY <1>4 DEF Walking
  <2> QED
    BY <1>1, <1>2, <1>7, <1>12, <2>1, <2>2, <2>3 DEF Walking
<1>15. Ordered(rank, last, walked)'
  BY <1>1, <1>2, <1>4, <1>14 DEF Ordered, Listing
<1> QED
  BY <1>2, <1>15 DEF ListsInv, WalkInv

\* Nothing stands between a thread and the next, nor behind the last.
LEMMA GoesOnInWalk ==
    ASSUME ListsInv, NextThread
    PROVE  ListsInv' /\ InList' = InList
<1>1. /\ pc = "next_thread" /\ pc' \in {"print_thread", "listed"}
      /\ UNCHANGED <<memory, cutter, UserThread, listed, throughout>>
  BY DEF NextThread, loading
<1>2. /\ LinksInv' /\ InList' = InList
      /\ \A last, rank, walked : Ranked(rank, last, walked) => Ranked(rank, last, walked)'
  BY <1>1, WalksList DEF Running
<1>3. PICK last, rank, walked : Ordered(rank, last, walked)
  BY DEF ListsInv, WalkInv
<1>4. Ranked(rank, last, walked) /\ Walking(rank, walked)
  BY <1>1, <1>3 DEF Ordered, Listing
<1>5. /\ walked \cup {Idle, Cutter, Main} \subseteq Threads
      /\ \A t \in Threads : rank[t] \in Nat
  BY <1>4, RanksDiffer
<1>6. /\ rank[Idle] = 0 /\ rank[Cutter] = 1 /\ rank[Main] = 2
      /\ \A t \in walked : rank[t] > 2
      /\ InList \subseteq walked /\ walked \subseteq Blocks
  BY <1>4 DEF Ranked
<1>7. /\ now_thread \in walked \cup {Idle, Cutter, Main}
      /\ throughout \subseteq InList \cup {Idle, Cutter, Main} /\ listed \in Seq(Threads)
      /\ process \in {1, 2} /\ (process = 1 <=> now_thread \in {Idle, Cutter})
      /\ \A i, j \in DOMAIN listed : i < j => rank[listed[i]] < rank[listed[j]]
  BY <1>4 DEF Walking
<1>8. /\ \A i \in DOMAIN listed : rank[listed[i]] <= rank[now_thread]
      /\ \A t \in throughout : rank[t] <= rank[now_thread] => t \in Range(listed)
  BY <1>1, <1>4 DEF Walking, Passed
<1>9. /\ \A i \in DOMAIN listed : rank[listed[i]] \in Nat
      /\ rank[now_thread] \in Nat /\ \A t \in throughout : rank[t] \in Nat
  <2>1. \A i \in DOMAIN listed : listed[i] \in Threads
    BY <1>7
  <2> QED
    BY <1>5, <1>6, <1>7, <2>1
<1>10. next[Idle] = Cutter /\ next[Cutter] = Nil /\ Cutter # Nil /\ Idle # Nil /\ Nil \notin Blocks
  BY Apart DEF ListsInv, LinksInv
<1>11. ASSUME now_thread \in walked \cup {Main}
       PROVE  /\ next[now_thread] \in walked \cup {Nil}
              /\ next[now_thread] # Nil => rank[next[now_thread]] > rank[now_thread]
              /\ \A t \in throughout : rank[t] > rank[now_thread] =>
                    next[now_thread] # Nil /\ rank[next[now_thread]] <= rank[t]
  <2>1. rank[now_thread] >= 2
    BY <1>6, <1>9, <1>11
  <2>2. \A t \in throughout : rank[t] > rank[now_thread] => t \in InList
    BY <1>6, <1>7, <1>9, <2>1
  <2> QED
    BY <1>4, <1>11, <2>2 DEF Ranked, Behind
<1>12. ASSUME NEW t, t = now_thread', t \in walked \cup {Idle, Cutter, Main}, pc' = "print_thread",
              process' \in {1, 2}, process' = 1 <=> now_thread' \in {Idle, Cutter},
              rank[t] > rank[now_thread], \A u \in throughout : rank[u] > rank[now_thread] => rank[t] <= rank[u]
       PROVE  Walking(rank, walked)'
  <2> DEFINE onwards == /\ rank[t] > rank[now_thread]
                        /\ \A u \in throughout : rank[u] > rank[now_thread] => rank[t] <= rank[u]
  <2>1. rank[t] \in Nat /\ onwards
    BY <1>5, <1>12
  <2>2. (\A i \in DOMAIN listed : Passed(listed[i], rank))'
    <3>1. ASSUME NEW i \in DOMAIN listed PROVE rank[listed[i]] < rank[t]
      <4>1. rank[listed[i]] \in Nat /\ rank[now_thread] \in Nat /\ rank[listed[i]] <= rank[now_thread]
        BY <1>8, <1>9
      <4> QED
        BY <2>1, <4>1
    <3> QED
      BY <1>1, <1>12, <3>1 DEF Passed
  <2>3. ASSUME NEW u \in throughout, rank[u] < rank[t] PROVE u \in Range(listed)
    <3>1. rank[u] \in Nat /\ rank[now_thread] \in Nat
      BY <1>9
    <3>2. ~ rank[u] > rank[now_thread]
      BY <2>1, <2>3, <3>1
    <3>3. rank[u] <= rank[now_thread]
      BY <3>1, <3>2
    <3> QED
      BY <1>8, <3>3
  <2>4. (\A u \in throughout : Passed(u, rank) => u \in Range(listed))'
    BY <1>1, <1>12, <2>3 DEF Passed
  <2> QED
    BY <1>1, <1>2, <1>7, <1>12, <2>2, <2>4 DEF Walking
<1>13. CASE next[now_thread] # Nil
  <2>1. now_thread' = next[now_thread] /\ pc' = "print_thread" /\ process' = process
    BY <1>13 DEF NextThread
  <2>2. CASE now_thread \in walked \cup {Main}
    <3>1. next[now_thread] \in walked /\ next[now_thread] \notin {Idle, Cutter} /\ now_thread \notin {Idle, Cutter}
      BY <1>6, <1>11, <1>13, <2>2, Apart
    <3>2. Walking(rank, walked)'
      BY <1>7, <1>11, <1>12, <1>13, <2>1, <2>2, <3>1
    <3> QED
      BY <1>2, <1>4, <2>1, <3>2 DEF Ordered, Listing, ListsInv, WalkInv
  <2>3. CASE now_thread = Idle
    <3>1. now_thread' = Cutter /\ process' = 1
      BY <1>7, <1>10, <2>1, <2>3
    <3>2. \A u \in throughout : rank[u] > rank[now_thread] => rank[Cutter] <= rank[u]
      BY <1>6, <1>9, <2>3
    <3>3. rank[Cutter] > rank[now_thread]
      BY <1>6, <2>3
    <3>4. Walking(rank, walked)'
      BY <1>12, <2>1, <3>1, <3>2, <3>3
    <3> QED
      BY <1>2, <1>4, <2>1, <3>4 DEF Ordered, Listing, ListsInv, WalkInv
  <2> QED
    BY <1>7, <1>10, <1>13, <2>2, <2>3
<1>14. CASE next[now_thread] = Nil /\ process = 1
  <2>1. now_thread = Cutter
    BY <1>7, <1>10, <1>14
  <2>2. now_thread' = Main /\ pc' = "print_thread" /\ process' = 2
    <3>1. Len(Heads) = 2 /\ Heads[2] = Main /\ process + 1 = 2
      BY <1>14 DEF Heads
    <3>2. process # Len(Heads)
      BY <1>14, <3>1
    <3>3. process' = process + 1 /\ now_thread' = Heads[process + 1] /\ pc' = "print_thread"
      BY <1>14, <3>2 DEF NextThread
    <3> QED
      BY <3>1, <3>3
  <2>3. \A u \in throughout : rank[u] > rank[now_thread] => rank[Main] <= rank[u]
    BY <1>6, <1>9, <2>1
  <2>4. rank[Main] > rank[now_thread]
    BY <1>6, <2>1
  <2>5. process' \in {1, 2} /\ process' # 1 /\ now_thread' \notin {Idle, Cutter}
    <3>1. Main \notin {Idle, Cutter}
      BY Apart
    <3>2. process' = 2 /\ 2 \in {1, 2} /\ 2 # 1
      BY <2>2
    <3> QED
      BY <2>2, <3>1, <3>2
  <2>6. Walking(rank, walked)'
    BY <1>12, <2>2, <2>3, <2>4, <2>5
  <2> QED
    BY <1>2, <1>4, <2>2, <2>6 DEF Ordered, Listing, ListsInv, WalkInv
<1>15. CASE next[now_thread] = Nil /\ process = 2
  <2>1. now_thread' = now_thread /\ process' = process /\ pc' = "listed"
    <3>1. ~ process < Len(Heads)
      BY <1>15 DEF Heads
    <3> QED
      BY <1>15, <3>1 DEF NextThread
  <2>2. now_thread \in walked \cup {Main}
    BY <1>7, <1>15
  <2>3. \A t \in throughout : t \in Range(listed)
    BY <1>8, <1>9, <1>11, <1>15, <2>2
  <2>4. Walking(rank, walked)'
    BY <1>1, <1>2, <1>7, <2>1, <2>3 DEF Walking, Passed
  <2> QED
    BY <1>2, <1>4, <2>1, <2>4 DEF Ordered, Listing, ListsInv, WalkInv
<1> QED
  BY <1>7, <1>13, <1>14, <1>15

LEMMA EndsWalk ==
    ASSUME ListsInv, EndOfList
    PROVE  ListsInv' /\ InList' = InList
<1>1. /\ pc = "listed" /\ pc' = "prompt" /\ UNCHANGED <<memory, cutter, UserThread>>
      /\ listed' = << >> /\ throughout' = {}
  BY DEF EndOfList, Finished, loading
<1>2. /\ LinksInv' /\ InList' = InList
      /\ \A last, rank, walked : Ranked(rank, last, walked) => Ranked(rank, last, walked)'
  BY <1>1, WalksList DEF Running
<1>3. PICK last, rank, walked : Ranked(rank, last, walked)
  BY DEF ListsInv, WalkInv, Ordered
<1>4. PICK list : list = InList
  OBVIOUS
<1>5. Ranked(rank, last, list)
  <2>1. list \subseteq walked /\ walked \subseteq Blocks
    BY <1>3, <1>4 DEF Ranked
  <2>2. \A x \in list \cup {Main} : Behind(x, rank, list)
    BY <1>3, <1>4, <2>1 DEF Ranked, Behind
  <2> QED
    BY <1>3, <1>4, <2>1, <2>2 DEF Ranked
<1>6. Ordered(rank, last, list)'
  BY <1>1, <1>2, <1>4, <1>5 DEF Ordered, Listing
<1> QED
  BY <1>2, <1>6 DEF ListsInv, WalkInv

----------------------------------------------------------------------------
(* ps.                                                                     *)

LEMMA ListsInit ==
    ASSUME CommandsInit
    PROVE  ListsInv
<1>1. InList = {}
  BY DEF CommandsInit, InList
<1>2. LinksInv
  <2>1. /\ allocated = {} /\ cutting = << >> /\ item = Nil /\ pc = "prompt"
        /\ next = [t \in Threads |-> IF t = Idle THEN Cutter ELSE Nil]
    BY DEF CommandsInit, Threads
  <2>2. next \in [Threads -> Blocks \cup {Cutter, Nil}] /\ next[Idle] = Cutter /\ next[Cutter] = Nil
    BY <2>1, Apart DEF Threads
  <2>3. << >> \in Seq(Blocks) /\ Len(<< >>) = 0 /\ IsInjective(<< >>) /\ Range(<< >>) = {}
    BY DEF IsInjective, Range
  <2> QED
    BY <1>1, <2>1, <2>2, <2>3, CommandsAssumption DEF LinksInv
<1>3. PICK rank : rank = [t \in Threads |-> IF t = Idle THEN 0 ELSE IF t = Cutter THEN 1 ELSE 2]
  OBVIOUS
<1>4. /\ rank \in [Threads -> 0 .. 2] /\ rank[Idle] = 0 /\ rank[Cutter] = 1 /\ rank[Main] = 2
  <2>1. Idle \in Threads /\ Cutter \in Threads /\ Main \in Threads
    BY DEF Threads
  <2>2. Idle # Cutter /\ Idle # Main /\ Cutter # Main
    BY Apart
  <2> QED
    BY <1>3, <2>1, <2>2
<1>5. next[Main] = Nil
  BY Apart DEF CommandsInit
<1>6. Ranked(rank, 2, {})
  BY <1>1, <1>4, <1>5 DEF Ranked, Behind
<1>7. pc \notin Listing /\ listed = << >> /\ throughout = {}
  BY DEF CommandsInit, Listing
<1>8. Ordered(rank, 2, {})
  BY <1>1, <1>6, <1>7 DEF Ordered
<1> QED
  BY <1>2, <1>8 DEF ListsInv, WalkInv

LEMMA ListsStep ==
    ASSUME ListsInv, [CommandsNext]_commandsVars
    PROVE  ListsInv'
<1>1. CASE HshpParser
  BY <1>1, ListsSimple, BeginsWalk DEF HshpParser
<1>2. CASE Continue
  BY <1>2, ListsSimple, AllocatesList, AddsToList, DeletesList, PrintsInWalk, GoesOnInWalk, EndsWalk
     DEF Continue
<1>3. CASE CutterThread
  BY <1>3, PopsList, CutsList DEF CutterThread
<1>4. CASE PspSoftTaskSW \/ \E b \in Blocks : UserProgram(b)
  BY <1>4, ListsSimple
<1>5. CASE UNCHANGED commandsVars
  <2>1. UNCHANGED <<pc, memory, cutter, walk, UserThread>>
    BY <1>5 DEF commandsVars, loading
  <2> QED
    BY <2>1, AwayFromLists
<1> QED
  BY <1>1, <1>2, <1>3, <1>4, <1>5 DEF CommandsNext

LEMMA ListsAllOnce ==
    ASSUME ListsInv
    PROVE  PsListsAll
<1>1. PICK last, rank, walked : Ordered(rank, last, walked)
  BY DEF ListsInv, WalkInv
<1>2. CASE pc \in Listing
  <2>1. Ranked(rank, last, walked) /\ Walking(rank, walked)
    BY <1>1, <1>2 DEF Ordered
  <2>2. \A t \in Threads : rank[t] \in Nat
    BY <2>1, RanksDiffer
  <2>3. ASSUME NEW i \in DOMAIN listed, NEW j \in DOMAIN listed, listed[i] = listed[j]
        PROVE  i = j
    <3>1. i \in Nat /\ j \in Nat /\ rank[listed[i]] \in Nat /\ rank[listed[j]] \in Nat
      BY <2>1, <2>2 DEF Walking
    <3>2. (i < j => rank[listed[i]] < rank[listed[j]]) /\ (j < i => rank[listed[j]] < rank[listed[i]])
      BY <2>1 DEF Walking
    <3> QED
      BY <2>3, <3>1, <3>2
  <2>4. ASSUME pc = "listed" PROVE throughout \subseteq Range(listed)
    BY <2>1, <2>4 DEF Walking, Passed
  <2> QED
    BY <2>3, <2>4 DEF PsListsAll, IsInjective
<1>3. CASE pc \notin Listing
  BY <1>1, <1>3 DEF Ordered, Listing, PsListsAll, IsInjective
<1> QED
  BY <1>2, <1>3

\* ps ends its walk over lists that change under it, having printed no thread twice
\* and every one that was there throughout.
THEOREM PsListsEveryThread == CommandsSpec => []PsListsAll
<1>1. CommandsInit => ListsInv
  BY ListsInit
<1>2. ListsInv /\ [CommandsNext]_commandsVars => ListsInv'
  BY ListsStep
<1>3. ListsInv => PsListsAll
  BY ListsAllOnce
<1> QED
  BY <1>1, <1>2, <1>3, PTL DEF CommandsSpec

----------------------------------------------------------------------------
(* The threads and the file.                                               *)

\* A block in use is of a thread that has ended, or of the one the shell is about.
ThreadsInv ==
    /\ status \in [Blocks -> {"STOP", "READY", "TERMINATED"}] /\ eip \in [Blocks -> Nat]
    /\ syscall \in [Blocks -> Bytes \cup {None}] /\ call_msg \in Blocks
    /\ pc \in Unstarted => status[UserThread] = "STOP"
    /\ pc = "poll" => status[UserThread] # "STOP"
    /\ \A b \in allocated :
          status[b] # "TERMINATED" => b = UserThread /\ pc \in Unstarted \cup {"poll"}
    /\ clock => m_bShowTSWatchdogClock \/ pc = "erase"

NoName == ""

\* The file is open while the command is about it; a read that was refused is known.
FilesInv ==
    /\ name \in Names /\ image \in [Image -> Bytes \cup {None}] /\ pAddr \in Nat
    /\ opened \in [{File} -> [name : Names \cup {NoName}, pos : Nat, until : Nat]]
    /\ refused \in BOOLEAN
    /\ pc \notin Holding => opened[File] = Files!Closed /\ ~refused /\ output = << >> /\ pAddr = 0
    /\ pc \in Holding => /\ opened[File].name = name /\ opened[File].pos <= Len(Content(name))
                         /\ ~refused => opened[File].until = 0
    /\ pc = "open_program" => Executable(name)
    /\ pc \in Holding \ TypingFile => Executable(name) /\ Exists(name)

LEMMA FileIs ==
    ASSUME FilesInv
    PROVE  /\ name \in Names /\ pAddr \in Nat
           /\ Content(name) \in Seq(Bytes) /\ Len(Content(name)) \in Nat
           /\ Len(Content(name)) <= ImageSize /\ ImageSize \in Nat /\ ReadSize \in Nat \ {0}
           /\ image \in [Image -> Bytes \cup {None}]
           /\ opened \in [{File} -> [name : Names \cup {NoName}, pos : Nat, until : Nat]]
<1>1. /\ name \in Names /\ pAddr \in Nat /\ image \in [Image -> Bytes \cup {None}]
      /\ opened \in [{File} -> [name : Names \cup {NoName}, pos : Nat, until : Nat]]
  BY Zenon DEF FilesInv
<1>2. /\ Content(name) \in Seq(Bytes) /\ Len(Content(name)) <= ImageSize
      /\ ImageSize \in Nat /\ ReadSize \in Nat \ {0}
  BY <1>1, CommandsAssumption
<1> QED
  BY <1>1, <1>2

LEMMA ReplyIs ==
    ASSUME answer' \in Replies
    PROVE  answer'.data \in Seq(Bytes)
<1>1. ASSUME NEW data \in BoundedSeq(Bytes, ReadSize) PROVE data \in Seq(Bytes)
  <2>1. PICK m \in 0 .. ReadSize : data \in [1 .. m -> Bytes]
    BY <1>1 DEF BoundedSeq, SeqOf
  <2> QED
    BY <2>1, CommandsAssumption
<1>2. << >> \in Seq(Bytes)
  OBVIOUS
<1> QED
  BY <1>1, <1>2 DEF Replies

LEMMA NoHandle ==
    ASSUME \E missed : answer' = Files!Answer("open", "", << >>, missed)
    PROVE  answer'.handle = ""
<1>1. PICK missed : answer' = [op |-> "open", handle |-> NoName, data |-> << >>, refused |-> missed]
  BY Zenon DEF Files!Answer, NoName
<1>2. answer'.handle = NoName
  BY <1>1
<1> QED
  BY <1>2, Zenon DEF NoName

\* A portion of the file: what is left of it, but for a driver that refuses.
LEMMA ReadGives ==
    ASSUME FilesInv, pc \in Holding, FsReadFile
    PROVE  \E from, to \in Nat :
              /\ from = opened[File].pos /\ from <= to /\ to <= Len(Content(name))
              /\ opened' \in [{File} -> [name : Names \cup {NoName}, pos : Nat, until : Nat]]
              /\ opened'[File].name = name /\ opened'[File].pos = to
              /\ refused' \in BOOLEAN /\ (~refused' => opened'[File].until = 0)
              /\ answer'.data \in Seq(Bytes) /\ Len(answer'.data) = to - from
              /\ ~refused' => /\ ~refused /\ answer'.data = SubSeq(Content(name), from + 1, to)
                              /\ to = from + ReadSize \/ (to = Len(Content(name)) /\ to <= from + ReadSize)
<1>1. PICK from, bytes, full, end :
          /\ from = opened[File].pos /\ bytes = Content(name) /\ full = Len(bytes)
          /\ end = IF from + ReadSize < full THEN from + ReadSize ELSE full
  OBVIOUS
<1>2. opened[File] \in [name : Names \cup {NoName}, pos : Nat, until : Nat] /\ opened[File].name = name
  BY DEF FilesInv
<1>3. from \in Nat /\ from <= full /\ bytes \in Seq(Bytes) /\ full \in Nat /\ ReadSize \in Nat
  <2>1. from \in Nat /\ from <= full
    BY <1>1, <1>2 DEF FilesInv
  <2>2. bytes \in Seq(Bytes)
    BY <1>1, CommandsAssumption DEF FilesInv
  <2> QED
    BY <1>1, <2>1, <2>2, CommandsAssumption
<1>4. (~refused => opened[File].until = 0) /\ refused \in BOOLEAN
  BY DEF FilesInv
<1>5. PICK to \in from .. end, missed \in BOOLEAN :
          /\ to < end => missed
          /\ opened' = [opened EXCEPT ![File] =
                 Files!File(name, to, IF missed THEN to + BlockSize ELSE opened[File].until)]
          /\ answer' = Files!Answer("read", File, answer'.data, missed)
          /\ Len(answer'.data) = to - from
          /\ \A i \in from + 1 .. to : i > opened[File].until => answer'.data[i - from] = bytes[i]
  <2>1. Files!Read(File, ReadSize)
    BY DEF FsReadFile, CallFiles
  <2> QED
    BY <1>1, <1>2, <2>1, Zenon DEF Files!Read
<1>6. answer'.data \in Seq(Bytes) /\ (refused' = (refused \/ missed))
  <2>1. answer'.refused = missed
    <3>1. PICK data : answer' = [op |-> "read", handle |-> File, data |-> data, refused |-> missed]
      BY <1>5, Zenon DEF Files!Answer
    <3> QED
      BY <3>1
  <2> QED
    BY <2>1, ReplyIs, Zenon DEF FsReadFile, CallFiles
<1>6a. PICK until : until = IF missed THEN to + BlockSize ELSE opened[File].until
  OBVIOUS
<1>7. /\ end \in Nat /\ end <= full /\ end <= from + ReadSize
      /\ end = from + ReadSize \/ end = full
  BY <1>1, <1>3
<1>8. to \in Nat /\ from <= to /\ to <= end
  BY <1>3, <1>5, <1>7
<1>9. /\ opened'[File] = [name |-> name, pos |-> to, until |-> until]
      /\ opened' \in [{File} -> [name : Names \cup {NoName}, pos : Nat, until : Nat]]
  <2>0. until \in Nat
    <3>1. to + BlockSize \in Nat /\ opened[File].until \in Nat
      BY <1>2, <1>8, CommandsAssumption
    <3> QED
      BY <1>6a, <3>1
  <2>1. [name |-> name, pos |-> to, until |-> until] \in [name : Names \cup {NoName}, pos : Nat, until : Nat]
    BY <1>8, <2>0 DEF FilesInv
  <2>2. opened' = [opened EXCEPT ![File] = [name |-> name, pos |-> to, until |-> until]]
    BY <1>5, <1>6a, Zenon DEF Files!File
  <2>3. opened \in [{File} -> [name : Names \cup {NoName}, pos : Nat, until : Nat]]
    BY DEF FilesInv
  <2> QED
    BY <2>1, <2>2, <2>3
<1>10. opened'[File].until = until /\ opened'[File].name = name /\ opened'[File].pos = to
  <2>1. /\ [name |-> name, pos |-> to, until |-> until].until = until
        /\ [name |-> name, pos |-> to, until |-> until].name = name
        /\ [name |-> name, pos |-> to, until |-> until].pos = to
    OBVIOUS
  <2> QED
    BY <1>9, <2>1, Zenon
<1>11. refused' \in BOOLEAN /\ (~refused' => ~refused /\ ~missed)
  BY <1>4, <1>5, <1>6, Zenon
<1>12. ASSUME ~refused' PROVE answer'.data = SubSeq(bytes, from + 1, to) /\ to = end /\ until = 0
  <2>1. ~ to < end /\ opened[File].until = 0 /\ until = 0
    BY <1>4, <1>5, <1>6a, <1>11, <1>12, Zenon
  <2>2. PICK data : data = answer'.data
    OBVIOUS
  <2>3. /\ data \in Seq(Bytes) /\ Len(data) = to - from /\ to <= full /\ full = Len(bytes)
        /\ \A i \in from + 1 .. to : data[i - from] = bytes[i]
    <3>1. \A i \in from + 1 .. to : i > 0
      BY <1>3
    <3> QED
      BY <1>1, <1>5, <1>6, <1>7, <1>8, <2>1, <2>2, <3>1
  <2>4. /\ SubSeq(bytes, from + 1, to) \in Seq(Bytes) /\ Len(SubSeq(bytes, from + 1, to)) = to - from
        /\ \A i \in 1 .. (to - from) : SubSeq(bytes, from + 1, to)[i] = bytes[from + i]
    <3>1. from + 1 \in 1 .. (Len(bytes) + 1) /\ to \in ((from + 1) - 1) .. Len(bytes)
      <4>1. PICK n \in Nat : n = Len(bytes)
        BY <1>3
      <4>2. from + 1 \in 1 .. (n + 1) /\ to \in ((from + 1) - 1) .. n
        BY <1>3, <1>8, <2>3, <4>1
      <4> QED
        BY <4>1, <4>2
    <3>2. to - (from + 1) + 1 = to - from /\ \A i \in 1 .. (to - from) : (from + 1) + i - 1 = from + i
      BY <1>3, <1>8
    <3> QED
      BY <1>3, <3>1, <3>2, SubSeqProperties
  <2>5. ASSUME NEW i \in 1 .. (to - from) PROVE data[i] = SubSeq(bytes, from + 1, to)[i]
    <3>1. from + i \in from + 1 .. to /\ (from + i) - from = i
      BY <1>3, <1>8
    <3> QED
      BY <2>3, <2>4, <3>1
  <2>6. data = SubSeq(bytes, from + 1, to)
    BY <2>3, <2>4, <2>5, SeqEqual
  <2> QED
    BY <1>7, <1>8, <2>1, <2>2, <2>6
<1>13. to <= full
  BY <1>3, <1>7, <1>8
<1>14. ~refused' => /\ ~refused /\ answer'.data = SubSeq(bytes, from + 1, to)
                    /\ to = from + ReadSize \/ (to = full /\ to <= from + ReadSize)
  BY <1>7, <1>11, <1>12
<1>15. from = opened[File].pos /\ bytes = Content(name) /\ full = Len(Content(name))
  BY <1>1
<1>16. (~refused' => opened'[File].until = 0) /\ from \in Nat /\ to \in Nat /\ from <= to
  BY <1>3, <1>8, <1>10, <1>12
<1> QED
  BY <1>5, <1>6, <1>9, <1>10, <1>11, <1>13, <1>14, <1>15, <1>16, Zenon

Alive == Unstarted \cup {"poll"}

\* Of the steps that start and end no thread.
LEMMA ThreadsStay ==
    ASSUME ThreadsInv, UNCHANGED <<program, watchdog>>, allocated' \subseteq allocated,
           UserThread' = UserThread \/ (pc \notin Alive /\ pc' \notin Alive),
           pc' \in Unstarted <=> pc \in Unstarted, pc' = "poll" <=> pc = "poll", pc' = "erase" <=> pc = "erase"
    PROVE  ThreadsInv'
<1>1. /\ UNCHANGED <<status, eip, syscall, call_msg, m_bShowTSWatchdogClock, clock>>
      /\ pc' \in Alive <=> pc \in Alive
  BY DEF program, watchdog, Alive
<1>2. pc \in Alive \/ pc' \in Alive => UserThread' = UserThread
  BY <1>1
<1>3. (clock => m_bShowTSWatchdogClock \/ pc = "erase")'
  BY <1>1, Zenon DEF ThreadsInv
<1>4. (\A b \in allocated : status[b] # "TERMINATED" => b = UserThread /\ pc \in Alive)'
  BY <1>1, <1>2 DEF ThreadsInv, Alive
<1>5. (pc \in Unstarted => status[UserThread] = "STOP") /\ (pc = "poll" => status[UserThread] # "STOP")
  BY DEF ThreadsInv
<1>6. (pc' \in Unstarted => status'[UserThread'] = "STOP") /\ (pc' = "poll" => status'[UserThread'] # "STOP")
  BY <1>1, <1>2, <1>5 DEF Alive
<1> QED
  BY <1>1, <1>3, <1>4, <1>6 DEF ThreadsInv, Alive

LEMMA ThreadsSimple ==
    ASSUME ListsInv, ThreadsInv,
           \/ \E n \in Names : Hshp_CMD_excute(n) \/ Hshp_CMD_type(n)
           \/ Hshp_CMD_ps \/ OpenFile \/ Load \/ PspAddNewThread \/ PsDeleteThread \/ CloseFile
           \/ PrintThread \/ NextThread \/ EndOfList \/ TypePortion \/ CutterThread
    PROVE  ThreadsInv'
<1> USE DEF Unstarted, Alive, TypingFile
<1>1. ASSUME NEW n \in Names, Hshp_CMD_excute(n) \/ Hshp_CMD_type(n) PROVE ThreadsInv'
  <2>1. /\ UNCHANGED <<program, watchdog, allocated, UserThread>> /\ pc = "prompt"
        /\ pc' \in {"open_program", "open_text", "prompt"}
    BY <1>1 DEF Hshp_CMD_excute, Hshp_CMD_type, Command, AwaitsCommand, Finished, loading, memory
  <2> QED
    BY <2>1, ThreadsStay
<1>2. CASE Hshp_CMD_ps
  <2>1. UNCHANGED <<program, watchdog, allocated, UserThread>> /\ pc = "prompt" /\ pc' = "print_thread"
    BY <1>2 DEF Hshp_CMD_ps, Command, AwaitsCommand, loading, memory
  <2> QED
    BY <2>1, ThreadsStay
<1>3. CASE OpenFile
  <2>1. /\ UNCHANGED <<program, watchdog, allocated, UserThread>> /\ pc \in {"open_program", "open_text"}
        /\ pc' \in {"load", "type", "prompt"}
    BY <1>3 DEF OpenFile, Finished, loading, memory
  <2> QED
    BY <2>1, ThreadsStay
<1>4. CASE Load
  <2>1. /\ UNCHANGED <<program, watchdog, allocated, UserThread>> /\ pc = "load"
        /\ pc' \in {"load", "create"}
    BY <1>4 DEF Load, memory
  <2> QED
    BY <2>1, ThreadsStay
<1>5. CASE PspAddNewThread
  <2>1. UNCHANGED <<program, watchdog, allocated, UserThread>> /\ pc = "link" /\ pc' = "setup"
    BY <1>5 DEF PspAddNewThread, loading
  <2> QED
    BY <2>1, ThreadsStay
<1>6. CASE PsDeleteThread
  <2>1. UNCHANGED <<program, watchdog, allocated, UserThread>> /\ pc = "delete" /\ pc' = "close"
    BY <1>6 DEF PsDeleteThread, loading, memory
  <2> QED
    BY <2>1, ThreadsStay
<1>7. CASE CloseFile
  <2>1. /\ UNCHANGED <<program, watchdog, allocated>> /\ pc \in {"close", "close_text", "give_up"}
        /\ pc' = "prompt"
    BY <1>7 DEF CloseFile, Finished, memory
  <2> QED
    BY <2>1, ThreadsStay
<1>8. CASE PrintThread \/ NextThread \/ EndOfList
  <2>1. /\ UNCHANGED <<program, watchdog, allocated, UserThread>>
        /\ pc \in Listing /\ pc' \in {"print_thread", "next_thread", "listed", "prompt"}
    BY <1>8 DEF PrintThread, NextThread, EndOfList, Finished, loading, memory, Listing
  <2> QED
    BY <2>1, ThreadsStay DEF Listing
<1>9. CASE TypePortion
  <2>1. UNCHANGED <<program, watchdog, allocated, UserThread>> /\ pc = "type" /\ pc' \in TypingFile
    BY <1>9 DEF TypePortion, loading, memory
  <2> QED
    BY <2>1, ThreadsStay
<1>10. CASE CutterThread
  <2>1. UNCHANGED <<program, watchdog, pc, UserThread>>
    BY <1>10 DEF CutterThread, PspPopCuttingItem, PspThreadCutterThread, loading
  <2>2. allocated' \subseteq allocated
    BY <1>10, CutsList DEF CutterThread, PspPopCuttingItem, memory
  <2> QED
    BY <2>1, <2>2, ThreadsStay
<1> QED
  BY <1>1, <1>2, <1>3, <1>4, <1>5, <1>6, <1>7, <1>8, <1>9, <1>10

LEMMA ThreadsStep ==
    ASSUME ListsInv, ThreadsInv, FilesInv, [CommandsNext]_commandsVars
    PROVE  ThreadsInv'
<1> USE DEF Unstarted
<1>1. /\ status \in [Blocks -> {"STOP", "READY", "TERMINATED"}] /\ eip \in [Blocks -> Nat]
      /\ syscall \in [Blocks -> Bytes \cup {None}] /\ call_msg \in Blocks
      /\ \A b \in allocated :
            status[b] # "TERMINATED" => b = UserThread /\ pc \in Unstarted \cup {"poll"}
      /\ pc \in Unstarted => status[UserThread] = "STOP"
  BY DEF ThreadsInv
<1>2. /\ allocated \subseteq Blocks
      /\ pc \in Unstarted \cup {"poll", "delete"} => UserThread \in allocated /\ UserThread \in Blocks
  BY DEF ListsInv, LinksInv
<1>3. clock => m_bShowTSWatchdogClock \/ pc = "erase"
  BY DEF ThreadsInv
<1>4. ASSUME pc # "erase" \/ pc' = pc, UNCHANGED watchdog
      PROVE  clock' => m_bShowTSWatchdogClock' \/ pc' = "erase"
  BY <1>3, <1>4, Zenon DEF watchdog
<1>5. CASE AllocateThread
  <2>1. CASE pc' = "give_up"
    <3>1. UNCHANGED <<program, watchdog, allocated, UserThread>> /\ pc = "create"
      BY <1>5, <2>1 DEF AllocateThread, memory, program
    <3> QED
      BY <2>1, <3>1, ThreadsStay
  <2>2. CASE pc' # "give_up"
    <3>1. PICK b \in Blocks \ allocated :
              /\ allocated' = allocated \cup {b} /\ status' = [status EXCEPT ![b] = "STOP"]
              /\ UserThread' = b /\ pc' = "link" /\ pc = "create"
              /\ UNCHANGED <<eip, syscall, call_msg, watchdog>>
      BY <1>5, <2>2 DEF AllocateThread
    <3>2. status' \in [Blocks -> {"STOP", "READY", "TERMINATED"}] /\ status'[b] = "STOP"
      BY <1>1, <3>1
    <3>3. \A c \in allocated : status'[c] = status[c] /\ status[c] = "TERMINATED"
      BY <1>1, <1>2, <3>1
    <3>4. \A c \in allocated' : status'[c] # "TERMINATED" => c = b
      BY <3>1, <3>3
    <3>5. clock' => m_bShowTSWatchdogClock' \/ pc' = "erase"
      BY <1>4, <3>1
    <3> QED
      BY <1>1, <3>1, <3>2, <3>4, <3>5 DEF ThreadsInv
  <2> QED
    BY <2>1, <2>2
<1>6. CASE HalSetupTSS
  <2>1. /\ pc = "setup" /\ pc' = "start" /\ UNCHANGED <<allocated, status, call_msg, watchdog, UserThread>>
        /\ eip' = [eip EXCEPT ![UserThread] = 0] /\ syscall' = [syscall EXCEPT ![UserThread] = None]
    BY <1>6 DEF HalSetupTSS, memory, loading
  <2>2. eip' \in [Blocks -> Nat] /\ syscall' \in [Blocks -> Bytes \cup {None}]
    BY <1>1, <2>1
  <2>3. clock' => m_bShowTSWatchdogClock' \/ pc' = "erase"
    BY <1>4, <2>1
  <2> QED
    BY <1>1, <2>1, <2>2, <2>3 DEF ThreadsInv
<1>7. CASE Start
  <2>1. /\ pc = "start" /\ pc' = "poll" /\ UNCHANGED <<allocated, eip, syscall, call_msg, watchdog, UserThread>>
        /\ status' = [status EXCEPT ![UserThread] = "READY"]
    BY <1>7 DEF Start, AfterStart, memory, loading
  <2>2. /\ status' \in [Blocks -> {"STOP", "READY", "TERMINATED"}] /\ status'[UserThread] = "READY"
        /\ \A b \in Blocks : b # UserThread => status'[b] = status[b]
    BY <1>1, <1>2, <2>1
  <2>3. \A b \in allocated' : status'[b] # "TERMINATED" => b = UserThread'
    BY <1>1, <1>2, <2>1, <2>2
  <2>4. clock' => m_bShowTSWatchdogClock' \/ pc' = "erase"
    BY <1>4, <2>1
  <2> QED
    BY <1>1, <2>1, <2>2, <2>3, <2>4 DEF ThreadsInv
<1>8. CASE Poll
  <2>1. /\ pc = "poll" /\ pc' = "delete" /\ status[UserThread] = "TERMINATED"
        /\ UNCHANGED <<allocated, status, eip, syscall, call_msg, watchdog, UserThread>>
    BY <1>8 DEF Poll, memory, loading, program
  <2>2. \A b \in allocated' : status'[b] = "TERMINATED"
    BY <1>1, <2>1
  <2>3. clock' => m_bShowTSWatchdogClock' \/ pc' = "erase"
    BY <1>4, <2>1
  <2> QED
    BY <1>1, <2>1, <2>2, <2>3 DEF ThreadsInv
<1>9. ASSUME NEW b \in Blocks, UserProgram(b) PROVE ThreadsInv'
  <2>1. b \in allocated /\ status[b] = "READY" /\ eip[b] \in Image /\ UNCHANGED <<pc, UserThread, allocated, watchdog>>
    BY <1>9 DEF UserProgram, CallGate, Sysp_SERVICE_CALL_MANAGER, Executes, memory, loading
  <2>2. b = UserThread /\ pc = "poll" /\ pc' = "poll"
    BY <1>1, <2>1
  <2>3. clock' => m_bShowTSWatchdogClock' \/ pc' = "erase"
    BY <1>4, <2>1
  <2>4. CASE CallGate(b)
    <3>1. /\ syscall' = [syscall EXCEPT ![b] = image[eip[b]]] /\ call_msg' = b
          /\ UNCHANGED <<status, eip>>
      BY <2>4 DEF CallGate, PointerTo
    <3>2. image[eip[b]] \in Bytes \cup {None}
      BY <2>1 DEF FilesInv
    <3>3. syscall' \in [Blocks -> Bytes \cup {None}]
      BY <1>1, <3>1, <3>2
    <3> QED
      BY <1>1, <2>1, <2>2, <2>3, <3>1, <3>3 DEF ThreadsInv
  <2>5. CASE Sysp_SERVICE_CALL_MANAGER(b)
    <3>1. CASE status' = [status EXCEPT ![b] = "TERMINATED"] /\ UNCHANGED <<eip, syscall, call_msg>>
      <4>1. status' \in [Blocks -> {"STOP", "READY", "TERMINATED"}] /\ status'[b] = "TERMINATED"
        BY <1>1, <3>1
      <4>2. \A c \in allocated' : status'[c] # "TERMINATED" => c = UserThread'
        BY <1>1, <1>2, <2>1, <2>2, <3>1, <4>1
      <4> QED
        BY <1>1, <2>1, <2>2, <2>3, <3>1, <4>1, <4>2 DEF ThreadsInv
    <3>2. CASE /\ eip' = [eip EXCEPT ![b] = @ + 1] /\ syscall' = [syscall EXCEPT ![b] = None]
               /\ UNCHANGED <<status, call_msg>>
      <4>1. eip' \in [Blocks -> Nat] /\ syscall' \in [Blocks -> Bytes \cup {None}]
        BY <1>1, <3>2
      <4> QED
        BY <1>1, <2>1, <2>2, <2>3, <3>2, <4>1 DEF ThreadsInv
    <3> QED
      BY <2>5, <3>1, <3>2 DEF Sysp_SERVICE_CALL_MANAGER
  <2> QED
    BY <1>9, <2>4, <2>5 DEF UserProgram
<1>10. CASE Hshp_CMD_toggle \/ EraseClock \/ PspSoftTaskSW
  <2>1. /\ UNCHANGED <<allocated, status, eip, syscall, call_msg, UserThread>>
        /\ pc' = pc \/ (pc \in {"prompt", "erase"} /\ pc' \in {"prompt", "erase"})
    BY <1>10 DEF Hshp_CMD_toggle, EraseClock, PspSoftTaskSW, Command, AwaitsCommand, Finished, memory, loading,
                 program
  <2>2. clock' => m_bShowTSWatchdogClock' \/ pc' = "erase"
    <3>1. CASE Hshp_CMD_toggle
      <4>1. /\ pc = "prompt" /\ clock' = clock
            /\ m_bShowTSWatchdogClock => pc' = "erase"
        BY <3>1 DEF Hshp_CMD_toggle, Command, AwaitsCommand
      <4> QED
        BY <1>3, <4>1, Zenon
    <3>2. CASE EraseClock
      BY <3>2, Zenon DEF EraseClock
    <3>3. CASE PspSoftTaskSW
      BY <3>3, Zenon DEF PspSoftTaskSW
    <3> QED
      BY <1>10, <3>1, <3>2, <3>3
  <2> QED
    BY <1>1, <2>1, <2>2 DEF ThreadsInv
<1>11. CASE UNCHANGED commandsVars
  BY <1>11, ThreadsStay DEF commandsVars, memory, loading
<1> QED
  BY <1>5, <1>6, <1>7, <1>8, <1>9, <1>10, <1>11, ThreadsSimple DEF CommandsNext, HshpParser, Continue

\* Where the command is about a program's file.
AboutProgram == Holding \ TypingFile

LEMMA FilesStay ==
    ASSUME FilesInv, UNCHANGED <<name, image, pAddr, opened, refused>>,
           pc' \in Holding <=> pc \in Holding, pc' \in Holding \/ output' = output,
           pc' = "open_program" => pc = "open_program", pc' \in AboutProgram => pc \in AboutProgram
    PROVE  FilesInv'
<1>1. /\ pc' \notin Holding =>
             opened'[File] = Files!Closed /\ ~refused' /\ output' = << >> /\ pAddr' = 0
      /\ pc' \in Holding => opened'[File].name = name' /\ opened'[File].pos <= Len(Content(name'))
      /\ pc' \in Holding => (~refused' => opened'[File].until = 0)
  BY Zenon DEF FilesInv
<1> QED
  BY <1>1 DEF FilesInv, AboutProgram

LEMMA FilesSimple ==
    ASSUME ThreadsInv, FilesInv,
           \/ Hshp_CMD_ps \/ AllocateThread \/ PspAddNewThread \/ HalSetupTSS \/ Start \/ Poll
           \/ PsDeleteThread \/ PrintThread \/ NextThread \/ EndOfList \/ CutterThread
           \/ Hshp_CMD_toggle \/ EraseClock \/ PspSoftTaskSW
           \/ \E b \in Blocks : UserProgram(b)
    PROVE  FilesInv'
<1> USE DEF Holding, Loading, Unstarted, Started, TypingFile, AboutProgram
<1>1. CASE Hshp_CMD_ps
  <2>1. /\ UNCHANGED <<name, image, pAddr, opened, refused, output>>
        /\ pc = "prompt" /\ pc' = "print_thread"
    BY <1>1 DEF Hshp_CMD_ps, Command, AwaitsCommand, loading
  <2> QED
    BY <2>1, FilesStay
<1>2. CASE AllocateThread
  <2>1. /\ UNCHANGED <<name, image, pAddr, opened, refused, output>>
        /\ pc = "create" /\ pc' \in {"link", "give_up"}
    BY <1>2 DEF AllocateThread, files
  <2> QED
    BY <2>1, FilesStay
<1>3. CASE PspAddNewThread \/ HalSetupTSS \/ Start \/ Poll \/ PsDeleteThread
  <2>1. /\ UNCHANGED <<name, image, pAddr, opened, refused, output>>
        /\ pc \in {"link", "setup", "start", "poll", "delete"}
        /\ pc' \in {"setup", "start", "poll", "delete", "close"}
    BY <1>3 DEF PspAddNewThread, HalSetupTSS, Start, AfterStart, Poll, PsDeleteThread, files, loading
  <2> QED
    BY <2>1, FilesStay
<1>4. CASE PrintThread \/ NextThread \/ EndOfList
  <2>1. /\ UNCHANGED <<name, image, pAddr, opened, refused, output>>
        /\ pc \in {"print_thread", "next_thread", "listed"}
        /\ pc' \in {"print_thread", "next_thread", "listed", "prompt"}
    BY <1>4 DEF PrintThread, NextThread, EndOfList, Finished, files, loading
  <2> QED
    BY <2>1, FilesStay
<1>5. CASE CutterThread
  <2>1. UNCHANGED <<name, image, pAddr, opened, refused, output, pc>>
    BY <1>5 DEF CutterThread, PspPopCuttingItem, PspThreadCutterThread, files, loading
  <2> QED
    BY <2>1, FilesStay
<1>6. CASE Hshp_CMD_toggle
  <2>1. /\ UNCHANGED <<name, image, pAddr, opened, refused, output>>
        /\ pc = "prompt" /\ pc' \in {"erase", "prompt"}
    BY <1>6 DEF Hshp_CMD_toggle, Command, AwaitsCommand, Finished, loading
  <2> QED
    BY <2>1, FilesStay
<1>7. CASE EraseClock
  <2>1. UNCHANGED <<name, image, pAddr, opened, refused, output>> /\ pc = "erase" /\ pc' = "prompt"
    BY <1>7 DEF EraseClock, Finished, files, loading
  <2> QED
    BY <2>1, FilesStay
<1>8. CASE PspSoftTaskSW
  <2>1. UNCHANGED <<name, image, pAddr, opened, refused, output, pc>>
    BY <1>8 DEF PspSoftTaskSW, files, loading
  <2> QED
    BY <2>1, FilesStay
<1>9. ASSUME NEW b \in Blocks, UserProgram(b) PROVE FilesInv'
  <2>1. b \in allocated /\ status[b] = "READY" /\ UNCHANGED <<name, image, pAddr, opened, refused, pc>>
    BY <1>9 DEF UserProgram, CallGate, Sysp_SERVICE_CALL_MANAGER, Executes, files, loading
  <2>2. pc \in Unstarted \cup {"poll"}
    BY <2>1 DEF ThreadsInv
  <2> QED
    BY <2>1, <2>2, FilesStay
<1> QED
  BY <1>1, <1>2, <1>3, <1>4, <1>5, <1>6, <1>7, <1>8, <1>9

LEMMA FilesStep ==
    ASSUME ThreadsInv, FilesInv, [CommandsNext]_commandsVars
    PROVE  FilesInv'
<1> USE DEF Holding, Loading, Unstarted, Started, TypingFile
<1>1. ASSUME NEW n \in Names, Hshp_CMD_excute(n) \/ Hshp_CMD_type(n) PROVE FilesInv'
  <2>1. /\ name' = n /\ UNCHANGED <<image, pAddr, opened, refused, output>> /\ pc = "prompt"
        /\ pc' \in {"open_program", "open_text", "prompt"} /\ (pc' = "open_program" => Executable(n))
    BY <1>1 DEF Hshp_CMD_excute, Hshp_CMD_type, Command, AwaitsCommand, Finished, loading
  <2>2. opened'[File] = Files!Closed /\ ~refused' /\ output' = << >> /\ pAddr' = 0
    BY <2>1 DEF FilesInv
  <2> QED
    BY <2>1, <2>2 DEF FilesInv
<1>2. CASE OpenFile
  <2>1. /\ UNCHANGED <<name, image, pAddr, refused, output>> /\ pc \in {"open_program", "open_text"}
        /\ Files!Open(name)
        /\ IF answer'.handle = "" THEN pc' = "prompt"
           ELSE pc' = IF pc = "open_program" THEN "load" ELSE "type"
    BY <1>2 DEF OpenFile, CallFiles, Finished, loading
  <2>2. opened[File] = Files!Closed /\ ~refused /\ output = << >> /\ pAddr = 0
    BY <2>1 DEF FilesInv
  <2>3. CASE (\E missed : answer' = Files!Answer("open", "", << >>, missed)) /\ UNCHANGED opened
    <3>1. answer'.handle = ""
      BY <2>3, NoHandle
    <3>2. pc' = "prompt"
      BY <2>1, <3>1
    <3> QED
      BY <2>1, <2>2, <2>3, <3>2 DEF FilesInv
  <2>4. CASE /\ Exists(name) /\ answer' = Files!Answer("open", File, << >>, FALSE)
             /\ opened' = [opened EXCEPT ![File] = Files!File(name, 0, 0)]
    <3>1. answer'.handle = File /\ File # ""
      BY <2>4, Apart DEF Files!Answer
    <3>2. pc' = IF pc = "open_program" THEN "load" ELSE "type"
      BY <2>1, <3>1
    <3>3. [name |-> name, pos |-> 0, until |-> 0] \in [name : Names \cup {NoName}, pos : Nat, until : Nat]
      BY FileIs
    <3>4. /\ opened' \in [{File} -> [name : Names \cup {NoName}, pos : Nat, until : Nat]]
          /\ opened'[File] = [name |-> name, pos |-> 0, until |-> 0]
      BY <2>4, <3>3, FileIs DEF Files!File
    <3>5. opened'[File].name = name /\ opened'[File].pos <= Len(Content(name)) /\ opened'[File].until = 0
      <4>1. opened'[File].name = name /\ opened'[File].pos = 0 /\ opened'[File].until = 0
        BY <3>4
      <4>2. 0 <= Len(Content(name))
        BY FileIs
      <4> QED
        BY <4>1, <4>2, Zenon
    <3>6. pc = "open_program" => Executable(name)
      BY DEF FilesInv
    <3> QED
      BY <2>1, <2>4, <3>2, <3>4, <3>5, <3>6 DEF FilesInv
  <2> QED
    BY <2>1, <2>3, <2>4 DEF Files!Open
<1>3. CASE Load
  <2>1. /\ UNCHANGED <<name, output>> /\ pc = "load" /\ pc' \in {"load", "create"} /\ FsReadFile
        /\ \/ UNCHANGED <<image, pAddr>>
           \/ /\ image' = [i \in Image |->
                              IF InPortion(i) THEN answer'.data[PlaceOf(i) + 1] ELSE image[i]]
              /\ pAddr' = pAddr + ReadSize
    BY <1>3 DEF Load
  <2>2. PICK to \in Nat :
            /\ opened' \in [{File} -> [name : Names \cup {NoName}, pos : Nat, until : Nat]]
            /\ opened'[File].name = name /\ opened'[File].pos = to /\ to <= Len(Content(name))
            /\ refused' \in BOOLEAN /\ (~refused' => opened'[File].until = 0)
            /\ answer'.data \in Seq(Bytes)
    BY <2>1, ReadGives
  <2>3. pAddr' \in Nat
    <3>1. pAddr' = pAddr \/ pAddr' = pAddr + ReadSize
      BY <2>1, Zenon
    <3> QED
      BY <3>1, FileIs
  <2>4. image' \in [Image -> Bytes \cup {None}]
    <3>1. image \in [Image -> Bytes \cup {None}]
      BY FileIs
    <3>2. ASSUME NEW i \in Image, InPortion(i) PROVE answer'.data[PlaceOf(i) + 1] \in Bytes
      <4>1. PICK data, p : data = answer'.data /\ p = PlaceOf(i)
        OBVIOUS
      <4>2. data \in Seq(Bytes) /\ p \in 0 .. (Len(data) - 1)
        BY <2>2, <3>2, <4>1, Zenon DEF InPortion
      <4>3. data[p + 1] \in Bytes
        BY <4>2
      <4> QED
        BY <4>1, <4>3
    <3> QED
      BY <2>1, <3>1, <3>2
  <2> QED
    BY <2>1, <2>2, <2>3, <2>4 DEF FilesInv
<1>4. CASE TypePortion
  <2>1. /\ UNCHANGED <<name, image, pAddr>> /\ pc = "type" /\ pc' \in TypingFile /\ FsReadFile
    BY <1>4 DEF TypePortion, loading
  <2>2. PICK to \in Nat :
            /\ opened' \in [{File} -> [name : Names \cup {NoName}, pos : Nat, until : Nat]]
            /\ opened'[File].name = name /\ opened'[File].pos = to /\ to <= Len(Content(name))
            /\ refused' \in BOOLEAN /\ (~refused' => opened'[File].until = 0)
    BY <2>1, ReadGives
  <2> QED
    BY <2>1, <2>2 DEF FilesInv
<1>5. CASE CloseFile
  <2>1. /\ name' = name /\ pc' = "prompt" /\ output' = << >> /\ pAddr' = 0 /\ refused' = FALSE
        /\ image' = (IF refused THEN [i \in Image |-> None] ELSE image)
        /\ opened' = [opened EXCEPT ![File] = Files!Closed]
    BY <1>5 DEF CloseFile, Finished, CallFiles, Files!Close
  <2>2. image' \in [Image -> Bytes \cup {None}]
    <3>1. image' = [i \in Image |-> None] \/ image' = image
      BY <2>1
    <3>2. [i \in Image |-> None] \in [Image -> Bytes \cup {None}]
      OBVIOUS
    <3> QED
      BY <3>1, <3>2 DEF FilesInv
  <2>3. /\ opened' \in [{File} -> [name : Names \cup {NoName}, pos : Nat, until : Nat]]
        /\ opened'[File] = Files!Closed
    <3>1. Files!Closed \in [name : Names \cup {NoName}, pos : Nat, until : Nat]
      <4>1. [name |-> NoName, pos |-> 0, until |-> 0]
                \in [name : Names \cup {NoName}, pos : Nat, until : Nat]
        OBVIOUS
      <4> QED
        BY <4>1, Zenon DEF Files!Closed, Files!File, NoName
    <3>2. opened \in [{File} -> [name : Names \cup {NoName}, pos : Nat, until : Nat]]
      BY DEF FilesInv
    <3> QED
      BY <2>1, <3>1, <3>2
  <2>4. refused' \in BOOLEAN /\ ~refused'
    BY <2>1
  <2> QED
    BY <2>1, <2>2, <2>3, <2>4 DEF FilesInv
<1>6. CASE UNCHANGED commandsVars
  BY <1>6, FilesStay DEF commandsVars, files, loading
<1> QED
  BY <1>1, <1>2, <1>3, <1>4, <1>5, <1>6, FilesSimple DEF CommandsNext, HshpParser, Continue

LEMMA ThreadsInit ==
    ASSUME CommandsInit
    PROVE  ThreadsInv
<1>1. /\ status = [b \in Blocks |-> "STOP"] /\ eip = [b \in Blocks |-> 0]
      /\ syscall = [b \in Blocks |-> None] /\ call_msg \in Blocks
      /\ allocated = {} /\ pc = "prompt" /\ clock = FALSE
  BY DEF CommandsInit
<1> QED
  BY <1>1 DEF ThreadsInv, Unstarted

LEMMA FilesInit ==
    ASSUME CommandsInit
    PROVE  FilesInv
<1>1. /\ name \in Names /\ image = [i \in Image |-> None] /\ pAddr = 0 /\ output = << >>
      /\ opened = [h \in {File} |-> Files!Closed] /\ pc = "prompt"
  BY DEF CommandsInit, Files!Init
<1>2. refused = FALSE
  BY DEF CommandsInit
<1>3. Files!Closed \in [name : Names \cup {NoName}, pos : Nat, until : Nat]
  <2>1. [name |-> NoName, pos |-> 0, until |-> 0]
            \in [name : Names \cup {NoName}, pos : Nat, until : Nat]
    OBVIOUS
  <2> QED
    BY <2>1, Zenon DEF Files!Closed, Files!File, NoName
<1>4. image \in [Image -> Bytes \cup {None}]
  BY <1>1
<1>5. opened[File] = Files!Closed /\ opened \in [{File} -> [name : Names \cup {NoName}, pos : Nat, until : Nat]]
  BY <1>1, <1>3
<1>6. pc \notin Holding /\ pc # "open_program"
  BY <1>1 DEF Holding, Loading, Unstarted, Started, TypingFile
<1> QED
  BY <1>1, <1>2, <1>4, <1>5, <1>6 DEF FilesInv

LEMMA AllCleared ==
    ASSUME ListsInv, ThreadsInv, FilesInv
    PROVE  NothingLeftBehind
<1>1. CommandsTypeOK
  <2>1. cutting \in BoundedSeq(Blocks, MAX_CUTTING_ITEM)
    <3>1. cutting \in Seq(Blocks) /\ Len(cutting) <= MAX_CUTTING_ITEM
      BY DEF ListsInv, LinksInv
    <3>2. Len(cutting) \in 0 .. MAX_CUTTING_ITEM /\ cutting \in [1 .. Len(cutting) -> Blocks]
      BY <3>1, CommandsAssumption
    <3> QED
      BY <3>2 DEF BoundedSeq, SeqOf
  <2>2. /\ allocated \subseteq Blocks /\ item \in Blocks \cup {Nil}
        /\ next \in [Blocks \cup {Idle, Cutter, Main} -> Blocks \cup {Cutter, Nil}]
    BY DEF ListsInv, LinksInv, Threads, InList
  <2>3. status \in [Blocks -> {"STOP", "READY", "TERMINATED"}]
    BY DEF ThreadsInv
  <2> QED
    BY <2>1, <2>2, <2>3, FileIs DEF CommandsTypeOK
<1>2. ASSUME AwaitsCommand
      PROVE  /\ opened[File] = Files!Closed
             /\ \A b \in allocated : status[b] = "TERMINATED"
             /\ allocated = Linked(<<Main>>) \ {Main}
             /\ clock => m_bShowTSWatchdogClock
  <2>1. pc = "prompt"
    BY <1>2 DEF AwaitsCommand
  <2>2. opened[File] = Files!Closed
    <3>1. pc \notin Holding
      BY <2>1 DEF Holding, Loading, Unstarted, Started, TypingFile
    <3> QED
      BY <3>1, Zenon DEF FilesInv
  <2>3. \A b \in allocated : status[b] = "TERMINATED"
    BY <2>1 DEF ThreadsInv, Unstarted
  <2>4. allocated = Linked(<<Main>>) \ {Main}
    <3>1. Linked(<<Main>>) = allocated \cup {Main}
      BY <2>1, LinkedIs DEF ListsInv, InList
    <3>2. Main \notin allocated
      BY Apart DEF ListsInv, LinksInv
    <3> QED
      BY <3>1, <3>2
  <2>5. clock => m_bShowTSWatchdogClock
    BY <2>1, Zenon DEF ThreadsInv
  <2> QED
    BY <2>2, <2>3, <2>4, <2>5
<1> QED
  BY <1>1, <1>2 DEF NothingLeftBehind

\* At the prompt the file is closed, every program has ended, the blocks in use are
\* those linked, and a hidden clock is gone.
THEOREM NothingStaysBehind == CommandsSpec => []NothingLeftBehind
<1> DEFINE inv == ListsInv /\ ThreadsInv /\ FilesInv
<1>1. CommandsInit => inv
  BY ListsInit, ThreadsInit, FilesInit
<1>2. inv /\ [CommandsNext]_commandsVars => inv'
  BY ListsStep, ThreadsStep, FilesStep
<1>3. inv => NothingLeftBehind
  BY AllCleared
<1> HIDE DEF inv
<1> QED
  BY <1>1, <1>2, <1>3, PTL DEF CommandsSpec

----------------------------------------------------------------------------
(* What a command prints.                                                  *)

\* The file is in memory up to its nth byte.
InMemory(n) == \A i \in 0 .. (n - 1) : image[i] = Content(name)[i + 1]

\* The program has printed its first bytes, none of which is its end; the message
\* of its call is the next.
PrintedUpTo(done) ==
    /\ done \in Nat /\ done <= Len(Content(name)) /\ output = SubSeq(Content(name), 1, done)
    /\ \A i \in 1 .. done : Content(name)[i] # Exit
    /\ syscall[UserThread] # None =>
          /\ call_msg = UserThread /\ done < Len(Content(name))
          /\ syscall[UserThread] = Content(name)[done + 1]

Delivered(pos, full) ==
    /\ pc = "load" => InMemory(pos) /\ (pAddr = pos \/ (pos = full /\ pAddr >= pos))
    /\ pc \in Unstarted \cup {"create", "poll"} => InMemory(full)
    /\ pc \in Unstarted \cup Loading => output = << >>
    /\ pc = "start" => eip[UserThread] = 0 /\ syscall[UserThread] = None
    /\ pc = "poll" /\ status[UserThread] = "READY" => PrintedUpTo(eip[UserThread])
    /\ pc \in {"delete", "close"} \/ (pc = "poll" /\ status[UserThread] = "TERMINATED") =>
          output = TextsOf(Content(name))
    /\ pc \in TypingFile => /\ output \in Seq(Bytes) /\ Shows(output, Content(name), pos)
                       /\ (pos = full \/ \E q \in Nat : pos = q * ReadSize)
    /\ pc = "close_text" => pos = full
    /\ pc = "lost" => FillsBuffer(Content(name))

OutputInv == ~refused => Delivered(opened[File].pos, Len(Content(name)))

LEMMA PrefixAppended ==
    ASSUME NEW bytes \in Seq(Bytes), NEW n \in Nat, n < Len(bytes)
    PROVE  Append(SubSeq(bytes, 1, n), bytes[n + 1]) = SubSeq(bytes, 1, n + 1)
<1>1. bytes[n + 1] \in Bytes /\ Len(bytes) \in Nat
  OBVIOUS
<1>2. /\ SubSeq(bytes, 1, n) \in Seq(Bytes) /\ Len(SubSeq(bytes, 1, n)) = n
      /\ \A i \in 1 .. n : SubSeq(bytes, 1, n)[i] = bytes[i]
  BY SubSeqProperties
<1>3. /\ SubSeq(bytes, 1, n + 1) \in Seq(Bytes) /\ Len(SubSeq(bytes, 1, n + 1)) = n + 1
      /\ \A i \in 1 .. (n + 1) : SubSeq(bytes, 1, n + 1)[i] = bytes[i]
  BY <1>1, SubSeqProperties
<1> DEFINE longer == Append(SubSeq(bytes, 1, n), bytes[n + 1])
<1>4. /\ longer \in Seq(Bytes) /\ Len(longer) = n + 1 /\ longer[n + 1] = bytes[n + 1]
      /\ \A i \in 1 .. n : longer[i] = bytes[i]
  BY <1>1, <1>2, AppendProperties
<1>5. \A i \in 1 .. (n + 1) : i \in 1 .. n \/ i = n + 1
  OBVIOUS
<1> HIDE DEF longer
<1>6. \A i \in 1 .. (n + 1) : longer[i] = SubSeq(bytes, 1, n + 1)[i]
  BY <1>3, <1>4, <1>5
<1>7. longer = SubSeq(bytes, 1, n + 1)
  BY <1>3, <1>4, <1>6, SeqEqual
<1> QED
  BY <1>7 DEF longer

LEMMA PrefixIs ==
    ASSUME NEW bytes \in Seq(Bytes), NEW n \in Nat, n <= Len(bytes)
    PROVE  IsPrefix(SubSeq(bytes, 1, n), bytes)
<1>1. SubSeq(bytes, 1, n) \in Seq(Bytes) /\ Len(SubSeq(bytes, 1, n)) = n
  BY SubSeqProperties
<1> QED
  BY <1>1, SubSeqFull DEF IsPrefix

LEMMA TextsAreBefore ==
    ASSUME NEW bytes \in Seq(Bytes), NEW n \in Nat, n < Len(bytes), bytes[n + 1] = Exit,
           \A i \in 1 .. n : bytes[i] # Exit
    PROVE  TextsOf(bytes) = SubSeq(bytes, 1, n)
<1> DEFINE Ends == {i \in DOMAIN bytes : bytes[i] = Exit}
<1>1. n + 1 \in Ends /\ \A i \in Ends : n + 1 <= i
  OBVIOUS
<1>2. \A x \in Ends : (\A y \in Ends : x <= y) => x = n + 1
  <2>1. \A x \in Ends : x \in Nat
    OBVIOUS
  <2> QED
    BY <1>1, <2>1
<1> HIDE DEF Ends
<1>3. Min(Ends) = n + 1
  BY <1>1, <1>2 DEF Min
<1>4. Min(Ends) - 1 = n
  BY <1>3
<1> QED
  BY <1>4 DEF TextsOf, Ends

\* The program's thread and the shell's, from the memory for the thread to its end.
LEMMA ProgramDelivers ==
    ASSUME ListsInv, ThreadsInv, FilesInv, Programs, NEW pos, NEW full, full = Len(Content(name)),
           Delivered(pos, full),
           \/ AllocateThread \/ PspAddNewThread \/ HalSetupTSS \/ Start \/ Poll \/ PsDeleteThread
           \/ \E b \in Blocks : UserProgram(b)
    PROVE  Delivered(pos, full)'
<1> USE DEF Unstarted, Loading, TypingFile
<1>1. ASSUME UNCHANGED <<name, image>> PROVE InMemory(full)' <=> InMemory(full)
  BY <1>1 DEF InMemory
<1>2. CASE AllocateThread
  <2>1. UNCHANGED <<name, image, output>> /\ pc = "create" /\ pc' \in {"link", "give_up"}
    BY <1>2 DEF AllocateThread
  <2>2. InMemory(full) /\ output = << >>
    BY <2>1 DEF Delivered
  <2> QED
    BY <1>1, <2>1, <2>2 DEF Delivered
<1>3. CASE PspAddNewThread
  <2>1. UNCHANGED <<name, image, output>> /\ pc = "link" /\ pc' = "setup"
    BY <1>3 DEF PspAddNewThread, loading
  <2>2. InMemory(full) /\ output = << >>
    BY <2>1 DEF Delivered
  <2> QED
    BY <1>1, <2>1, <2>2 DEF Delivered
<1>4. /\ eip \in [Blocks -> Nat] /\ syscall \in [Blocks -> Bytes \cup {None}]
      /\ status \in [Blocks -> {"STOP", "READY", "TERMINATED"}]
      /\ pc \in {"setup", "start", "poll", "delete"} => UserThread \in Blocks
  BY DEF ThreadsInv, ListsInv, LinksInv
<1>5. CASE HalSetupTSS
  <2>1. /\ UNCHANGED <<name, image, output, UserThread>> /\ pc = "setup" /\ pc' = "start"
        /\ eip' = [eip EXCEPT ![UserThread] = 0] /\ syscall' = [syscall EXCEPT ![UserThread] = None]
    BY <1>5 DEF HalSetupTSS, loading
  <2>2. InMemory(full) /\ output = << >>
    BY <2>1 DEF Delivered
  <2>3. eip'[UserThread'] = 0 /\ syscall'[UserThread'] = None
    BY <1>4, <2>1
  <2> QED
    BY <1>1, <2>1, <2>2, <2>3 DEF Delivered
<1>6. CASE Start
  <2>1. /\ UNCHANGED <<name, image, output, UserThread, eip, syscall>> /\ pc = "start" /\ pc' = "poll"
        /\ status' = [status EXCEPT ![UserThread] = "READY"]
    BY <1>6 DEF Start, AfterStart, loading
  <2>2. InMemory(full) /\ output = << >> /\ eip[UserThread] = 0 /\ syscall[UserThread] = None
    BY <2>1 DEF Delivered
  <2>3. status'[UserThread'] = "READY"
    BY <1>4, <2>1
  <2>4. 0 <= Len(Content(name)) /\ SubSeq(Content(name), 1, 0) = << >>
    BY FileIs, SubSeqEmpty
  <2>5. PrintedUpTo(0)'
    BY <2>1, <2>2, <2>4 DEF PrintedUpTo
  <2>6. PrintedUpTo(eip[UserThread])'
    BY <2>1, <2>2, <2>5
  <2> QED
    BY <1>1, <2>1, <2>2, <2>3, <2>6 DEF Delivered
<1>7. CASE Poll
  <2>1. /\ UNCHANGED <<name, output>> /\ pc = "poll" /\ pc' = "delete"
        /\ status[UserThread] = "TERMINATED"
    BY <1>7 DEF Poll
  <2>2. output = TextsOf(Content(name))
    BY <2>1 DEF Delivered
  <2> QED
    BY <2>1, <2>2 DEF Delivered
<1>8. CASE PsDeleteThread
  <2>1. UNCHANGED <<name, output>> /\ pc = "delete" /\ pc' = "close"
    BY <1>8 DEF PsDeleteThread
  <2>2. output = TextsOf(Content(name))
    BY <2>1 DEF Delivered
  <2> QED
    BY <2>1, <2>2 DEF Delivered
<1>9. ASSUME NEW b \in Blocks, UserProgram(b) PROVE Delivered(pos, full)'
  <2>1. /\ b \in allocated /\ status[b] = "READY" /\ eip[b] \in Image /\ UNCHANGED <<pc, name, image, UserThread>>
    BY <1>9 DEF UserProgram, CallGate, Sysp_SERVICE_CALL_MANAGER, Executes, loading
  <2>2. b = UserThread /\ pc = "poll" /\ pc' = "poll" /\ UserThread' = b
    BY <2>1 DEF ThreadsInv
  <2>3. PICK done, bytes : done = eip[b] /\ bytes = Content(name)
    OBVIOUS
  <2>4. /\ bytes \in Seq(Bytes) /\ full = Len(bytes) /\ full \in Nat
        /\ InMemory(full) /\ PrintedUpTo(done)
    BY <2>1, <2>2, <2>3, FileIs DEF Delivered
  <2>5. /\ done \in Nat /\ done <= full /\ output = SubSeq(bytes, 1, done)
        /\ \A i \in 1 .. done : bytes[i] # Exit
        /\ syscall[b] # None => call_msg = b /\ done < full /\ syscall[b] = bytes[done + 1]
    BY <2>2, <2>3, <2>4 DEF PrintedUpTo
  <2>6. InMemory(full)'
    BY <1>1, <2>1, <2>4
  <2>7. CASE CallGate(b)
    <3>1. /\ syscall' = [syscall EXCEPT ![b] = image[eip[b]]] /\ call_msg' = b
          /\ UNCHANGED <<status, eip, output>>
      BY <2>7 DEF CallGate, PointerTo
    <3>2. done < full
      <4>1. Executable(name) /\ Exists(name)
        BY <2>2 DEF FilesInv, Holding, Started
      <4>2. PICK i \in DOMAIN bytes : bytes[i] = Exit
        BY <2>3, <4>1, FileIs DEF Programs
      <4>3. i \in 1 .. full /\ ~ i \in 1 .. done
        BY <2>4, <2>5, <4>2
      <4> QED
        BY <2>4, <2>5, <4>3
    <3>3. image[eip[b]] = bytes[done + 1]
      <4>1. done \in 0 .. (full - 1)
        BY <2>4, <2>5, <3>2
      <4> QED
        BY <2>3, <2>4, <4>1 DEF InMemory
    <3>4. syscall'[b] = bytes[done + 1]
      BY <1>4, <3>1, <3>3
    <3>5. PrintedUpTo(done)'
      BY <2>1, <2>2, <2>3, <2>4, <2>5, <3>1, <3>2, <3>4 DEF PrintedUpTo
    <3>6. PrintedUpTo(eip[UserThread])' /\ status'[UserThread'] = "READY"
      BY <2>1, <2>2, <2>3, <3>1, <3>5
    <3> QED
      BY <2>2, <2>6, <3>6 DEF Delivered
  <2>8. CASE Sysp_SERVICE_CALL_MANAGER(b)
    <3>1. Message = bytes[done + 1] /\ done < full /\ call_msg = b
      BY <2>5, <2>8 DEF Sysp_SERVICE_CALL_MANAGER, Message
    <3>2. CASE Message = Exit /\ status' = [status EXCEPT ![b] = "TERMINATED"] /\ output' = output
      <4>1. status'[UserThread'] = "TERMINATED"
        BY <1>4, <2>2, <3>2
      <4>2. TextsOf(bytes) = SubSeq(bytes, 1, done)
        BY <2>4, <2>5, <3>1, <3>2, TextsAreBefore
      <4>3. output' = TextsOf(Content(name'))
        BY <2>1, <2>3, <2>5, <3>2, <4>2
      <4> QED
        BY <2>2, <2>6, <4>1, <4>3 DEF Delivered
    <3>3. CASE /\ Message \in Texts /\ output' = Append(output, Message) /\ eip' = [eip EXCEPT ![b] = @ + 1]
               /\ syscall' = [syscall EXCEPT ![b] = None] /\ status' = status
      <4>1. output' = SubSeq(bytes, 1, done + 1)
        BY <2>4, <2>5, <3>1, <3>3, PrefixAppended
      <4>2. eip'[b] = done + 1 /\ syscall'[b] = None
        BY <1>4, <2>3, <3>3
      <4>3. \A i \in 1 .. (done + 1) : bytes[i] # Exit
        <5>1. bytes[done + 1] # Exit
          BY <3>1, <3>3, Apart
        <5>2. \A i \in 1 .. (done + 1) : i \in 1 .. done \/ i = done + 1
          BY <2>5
        <5> QED
          BY <2>5, <5>1, <5>2
      <4>4. done + 1 \in Nat /\ done + 1 <= full
        BY <2>4, <2>5, <3>1
      <4>5. PrintedUpTo(done + 1)'
        BY <2>1, <2>2, <2>3, <2>4, <4>1, <4>2, <4>3, <4>4 DEF PrintedUpTo
      <4>6. PrintedUpTo(eip[UserThread])' /\ status'[UserThread'] = "READY"
        BY <2>1, <2>2, <3>3, <4>2, <4>5
      <4> QED
        BY <2>2, <2>6, <4>6 DEF Delivered
    <3> QED
      BY <2>8, <3>2, <3>3 DEF Sysp_SERVICE_CALL_MANAGER
  <2> QED
    BY <1>9, <2>7, <2>8 DEF UserProgram
<1> QED
  BY <1>2, <1>3, <1>5, <1>6, <1>7, <1>8, <1>9

\* No output is promised of a command that holds no file.
LEMMA NothingDelivered ==
    ASSUME NEW pos, NEW full, pc' \notin Holding
    PROVE  Delivered(pos, full)'
BY DEF Delivered, Holding, Loading, Unstarted, Started, TypingFile

LEMMA StillDelivered ==
    ASSUME NEW pos, NEW full, Delivered(pos, full),
           UNCHANGED <<pc, name, image, pAddr, UserThread, eip, syscall, call_msg, status, output>>
    PROVE  Delivered(pos, full)'
<1>1. InMemory(full)' <=> InMemory(full)
  BY DEF InMemory
<1>2. InMemory(pos)' <=> InMemory(pos)
  BY DEF InMemory
<1>3. PrintedUpTo(eip[UserThread])' <=> PrintedUpTo(eip[UserThread])
  BY DEF PrintedUpTo
<1> QED
  BY <1>1, <1>2, <1>3 DEF Delivered

LEMMA OpenedDelivers ==
    ASSUME FilesInv, OpenFile, NEW pos, NEW full, pos = opened'[File].pos
    PROVE  Delivered(pos, full)'
<1>1. /\ UNCHANGED <<name, pAddr, output>> /\ pc \in {"open_program", "open_text"}
      /\ Files!Open(name)
      /\ IF answer'.handle = "" THEN pc' = "prompt"
         ELSE pc' = IF pc = "open_program" THEN "load" ELSE "type"
  BY DEF OpenFile, CallFiles, Finished, loading
<1>2. pAddr = 0 /\ output = << >>
  BY <1>1 DEF FilesInv, Holding, Loading, Unstarted, Started, TypingFile
<1>3. CASE \E missed : answer' = Files!Answer("open", "", << >>, missed)
  <2>1. answer'.handle = ""
    BY <1>3, NoHandle
  <2>2. pc' = "prompt"
    BY <1>1, <2>1
  <2> QED
    BY <2>2, NothingDelivered DEF Holding, Loading, Unstarted, Started, TypingFile
<1>4. CASE /\ answer' = Files!Answer("open", File, << >>, FALSE)
           /\ opened' = [opened EXCEPT ![File] = Files!File(name, 0, 0)]
  <2>1. answer'.handle = File /\ File # ""
    BY <1>4, Apart DEF Files!Answer
  <2>2. pc' \in {"load", "type"}
    BY <1>1, <2>1
  <2>3. opened'[File] = [name |-> name, pos |-> 0, until |-> 0]
    BY <1>4, FileIs DEF Files!File
  <2>4. pos = 0
    BY <2>3
  <2>5. InMemory(0)'
    BY DEF InMemory
  <2>6. Shows(<< >>, Content(name), 0) /\ << >> \in Seq(Bytes)
    <3>1. Visible(Content(name), 0) = {}
      BY DEF Visible
    <3> DEFINE place == [x \in {} |-> 0]
    <3>2. place \in [DOMAIN << >> -> {}] /\ Range(place) = {} /\ DOMAIN << >> = {}
      BY DEF Range
    <3> HIDE DEF place
    <3>3. \E at \in [DOMAIN << >> -> {}] : Range(at) = {}
      BY <3>2
    <3>4. PICK text : text = << >> /\ DOMAIN text = {}
      OBVIOUS
    <3>5. PICK at \in [DOMAIN text -> Visible(Content(name), 0)] : Range(at) = Visible(Content(name), 0)
      BY <3>1, <3>3, <3>4
    <3>6. Shows(text, Content(name), 0)
      BY <3>4, <3>5, Zenon DEF Shows
    <3>7. << >> \in Seq(Bytes)
      OBVIOUS
    <3> QED
      BY <3>4, <3>6, <3>7
  <2>7. \E q \in Nat : 0 = q * ReadSize
    <3>1. 0 \in Nat /\ 0 = 0 * ReadSize
      BY CommandsAssumption
    <3> QED
      BY <3>1
  <2> QED
    BY <1>1, <1>2, <2>2, <2>4, <2>5, <2>6, <2>7 DEF Delivered, Unstarted, Loading, TypingFile
<1> QED
  BY <1>1, <1>3, <1>4 DEF Files!Open

LEMMA LoadDelivers ==
    ASSUME FilesInv, OutputInv, Load, ~refused', NEW pos, NEW full,
           pos = opened'[File].pos, full = Len(Content(name))
    PROVE  Delivered(pos, full)'
<1>1. /\ UNCHANGED <<name, output>> /\ pc = "load" /\ FsReadFile
      /\ \/ answer'.data = << >> /\ pc' = "create" /\ UNCHANGED <<image, pAddr>>
         \/ /\ answer'.data # << >> /\ pc' = "load"
            /\ image' = [i \in Image |->
                            IF InPortion(i) THEN answer'.data[PlaceOf(i) + 1] ELSE image[i]]
            /\ pAddr' = pAddr + ReadSize
  BY DEF Load
<1>2. pc \in Holding
  BY <1>1 DEF Holding, Loading
<1>3. PICK from, to \in Nat :
          /\ from = opened[File].pos /\ from <= to /\ to <= full /\ to = pos
          /\ answer'.data \in Seq(Bytes) /\ Len(answer'.data) = to - from
          /\ ~refused /\ answer'.data = SubSeq(Content(name), from + 1, to)
          /\ to = from + ReadSize \/ (to = full /\ to <= from + ReadSize)
  BY <1>1, <1>2, ReadGives, Zenon
<1>4. PICK data, bytes : data = answer'.data /\ bytes = Content(name)
  OBVIOUS
<1>5. /\ bytes \in Seq(Bytes) /\ full = Len(bytes) /\ full \in Nat /\ full <= ImageSize
      /\ ImageSize \in Nat /\ ReadSize \in Nat \ {0} /\ pAddr \in Nat
  BY <1>4, FileIs
<1>6. /\ data \in Seq(Bytes) /\ Len(data) = to - from /\ data = SubSeq(bytes, from + 1, to)
      /\ from <= to /\ to <= full /\ to = pos
      /\ to = from + ReadSize \/ (to = full /\ to <= from + ReadSize)
  BY <1>3, <1>4
<1>7. /\ InMemory(from) /\ (pAddr = from \/ (from = full /\ pAddr >= from))
      /\ output = << >>
  <2>1. Delivered(from, full)
    BY <1>3, Zenon DEF OutputInv
  <2> QED
    BY <1>1, <2>1 DEF Delivered, Loading
<1>8. \A i \in 0 .. (from - 1) : image[i] = bytes[i + 1]
  BY <1>4, <1>7 DEF InMemory
<1>9. CASE data = << >> /\ pc' = "create" /\ UNCHANGED <<image, pAddr>>
  <2>1. from = full
    <3>1. Len(data) = 0
      BY <1>9
    <3>2. /\ from <= to /\ to <= full /\ Len(data) = to - from
          /\ to = from + ReadSize \/ (to = full /\ to <= from + ReadSize)
          /\ full \in Nat /\ ReadSize \in Nat \ {0}
      BY <1>5, <1>6
    <3> QED
      BY <3>1, <3>2
  <2>2. InMemory(full)'
    BY <1>1, <1>4, <1>8, <1>9, <2>1 DEF InMemory
  <2> QED
    BY <1>1, <1>7, <1>9, <2>2 DEF Delivered, Unstarted, Loading, TypingFile
<1>10. CASE /\ data # << >> /\ pc' = "load"
            /\ image' = [i \in Image |-> IF InPortion(i) THEN data[PlaceOf(i) + 1] ELSE image[i]]
            /\ pAddr' = pAddr + ReadSize
  <2>1. from < to
    BY <1>5, <1>6, <1>10
  <2>2. pAddr = from
    BY <1>5, <1>6, <1>7, <2>1
  <2>3. \A i \in Image : InPortion(i) <=> (i - from) \in 0 .. (to - from - 1)
    BY <1>4, <1>6, <2>2 DEF InPortion, PlaceOf
  <2>4. ASSUME NEW i \in 0 .. (to - 1) PROVE image'[i] = bytes[i + 1]
    <3>1. i \in Image
      <4>1. to \in Nat /\ to <= ImageSize /\ ImageSize \in Nat
        BY <1>5, <1>6
      <4> QED
        BY <2>4, <4>1 DEF Image
    <3>2. CASE i < from
      <4>1. ~ InPortion(i) /\ i \in 0 .. (from - 1)
        BY <2>3, <3>1, <3>2
      <4>2. image'[i] = image[i]
        BY <1>10, <3>1, <4>1
      <4> QED
        BY <1>8, <4>1, <4>2
    <3>3. CASE from <= i
      <4>1. InPortion(i) /\ PlaceOf(i) = i - from
        BY <1>5, <2>2, <2>3, <3>1, <3>3 DEF PlaceOf
      <4>2. image'[i] = data[(i - from) + 1]
        BY <1>10, <3>1, <4>1
      <4>3. data[(i - from) + 1] = bytes[i + 1]
        <5>1. (i - from) + 1 \in 1 .. (to - from) /\ from + 1 \in 1 .. (full + 1) /\ to \in from .. full
          <6>1. i \in Nat /\ i <= to - 1 /\ from <= i /\ from < to
            BY <2>1, <3>3
          <6>2. from + 1 \in 1 .. (full + 1) /\ to \in from .. full
            BY <1>5, <1>6
          <6> QED
            BY <6>1, <6>2
        <5>2. SubSeq(bytes, from + 1, to)[(i - from) + 1] = bytes[i + 1]
          <6>1. (from + 1) + ((i - from) + 1) - 1 = i + 1
            BY <2>1
          <6>2. (i - from) + 1 \in 1 .. (to - (from + 1) + 1) /\ from + 1 \in 1 .. (Len(bytes) + 1)
                /\ to \in ((from + 1) - 1) .. Len(bytes)
            BY <1>5, <5>1
          <6>3. SubSeq(bytes, from + 1, to)[(i - from) + 1] = bytes[(from + 1) + ((i - from) + 1) - 1]
            BY <1>5, <6>2, SubSeqProperties
          <6> QED
            BY <6>1, <6>3
        <5> QED
          BY <1>6, <5>2
      <4> QED
        BY <4>2, <4>3
    <3> QED
      BY <3>2, <3>3
  <2>5. InMemory(to)'
    BY <1>1, <1>4, <2>4 DEF InMemory
  <2>6. pAddr' = to \/ (to = full /\ pAddr' >= to)
    BY <1>5, <1>6, <1>10, <2>2
  <2> QED
    BY <1>1, <1>6, <1>7, <1>10, <2>5, <2>6 DEF Delivered, Unstarted, Loading, TypingFile
<1> QED
  BY <1>1, <1>4, <1>9, <1>10

\* The text up to the first NUL.
LEMMA UpToNulIs ==
    ASSUME NEW data \in Seq(Bytes)
    PROVE  \E k \in 0 .. Len(data) :
              /\ UpToNul(data) = SubSeq(data, 1, k) /\ \A i \in 1 .. k : data[i] # Nul
              /\ k < Len(data) => data[k + 1] = Nul
<1> DEFINE Ends == {i \in DOMAIN data : data[i] = Nul} \cup {Len(data) + 1}
<1>1. Len(data) \in Nat /\ Ends \subseteq 1 .. (Len(data) + 1) /\ Ends \subseteq Nat /\ Len(data) + 1 \in Ends
  OBVIOUS
<1>2. PICK m \in Ends : \A i \in Ends : m <= i
  <2> HIDE DEF Ends
  <2>1. Ends # {}
    BY <1>1
  <2> QED
    BY <1>1, <2>1, LeastOf
<1>3. Min(Ends) = m
  <2> HIDE DEF Ends
  <2>1. \A x \in Ends : (\A y \in Ends : x <= y) => x = m
    BY <1>1, <1>2
  <2> QED
    BY <1>2, <2>1 DEF Min
<1>4. PICK k \in Nat : k = m - 1
  BY <1>1, <1>2
<1>5. k \in 0 .. Len(data) /\ m = k + 1
  BY <1>1, <1>2, <1>4
<1>6. UpToNul(data) = SubSeq(data, 1, k)
  BY <1>3, <1>4 DEF UpToNul
<1>7. \A i \in 1 .. k : data[i] # Nul
  <2>1. \A i \in 1 .. k : i \in DOMAIN data /\ ~ m <= i
    BY <1>1, <1>5
  <2> QED
    BY <1>2, <2>1
<1>8. k < Len(data) => data[k + 1] = Nul
  BY <1>1, <1>2, <1>5
<1> QED
  BY <1>5, <1>6, <1>7, <1>8

\* The portion a place is in.
LEMMA PortionOf ==
    ASSUME NEW q \in Nat, NEW i \in Nat \ {0}
    PROVE  /\ i \in (q * ReadSize + 1) .. (q * ReadSize + ReadSize) => (i - 1) \div ReadSize = q
           /\ i <= q * ReadSize => (i - 1) \div ReadSize < q
<1>1. PICK b \in Nat \ {0} : b = ReadSize
  BY CommandsAssumption
<1>2. PICK start \in Nat : start = q * b
  BY <1>1
<1>3. ASSUME i \in (start + 1) .. (start + b) PROVE (i - 1) \div b = q
  <2>1. (i - 1) - start \in 0 .. (b - 1)
    BY <1>1, <1>3
  <2>2. PICK x \in 0 .. (b - 1) : x = (i - 1) - start
    BY <2>1
  <2>3. i - 1 = q * b + x
    BY <1>2, <2>2
  <2> QED
    BY <2>3, DivisionIs
<1>4. ASSUME i <= start PROVE (i - 1) \div b < q
  <2>1. PICK r, x : r = (i - 1) \div b /\ x = (i - 1) % b
    OBVIOUS
  <2>2. r \in Nat /\ x \in 0 .. (b - 1) /\ i - 1 = r * b + x
    <3>1. i - 1 \in Nat
      OBVIOUS
    <3> QED
      BY <2>1, <3>1, Dividing
  <2>3. ASSUME r >= q PROVE FALSE
    <3>1. PICK d \in Nat : r = q + d
      BY <2>2, <2>3
    <3>2. r * b = start + d * b /\ d * b \in Nat
      BY <1>2, <3>1
    <3> QED
      BY <1>4, <2>2, <3>2
  <2> QED
    BY <2>1, <2>2, <2>3
<1> QED
  BY <1>1, <1>2, <1>3, <1>4

\* The portion from a place on has so many bytes before its first NUL.
VisibleGoesOn(bytes, q, from, to, k) ==
    /\ from = q * ReadSize /\ from <= to /\ to <= Len(bytes) /\ to <= from + ReadSize
    /\ k \in 0 .. (to - from) /\ \A i \in 1 .. k : bytes[from + i] # Nul
    /\ k < to - from => bytes[from + k + 1] = Nul

\* What of a portion is visible is what stands before its first NUL.
LEMMA VisibleWith ==
    ASSUME NEW bytes \in Seq(Bytes), NEW q \in Nat, NEW from \in Nat, NEW to \in Nat,
           NEW k, VisibleGoesOn(bytes, q, from, to, k)
    PROVE  Visible(bytes, to) = Visible(bytes, from) \cup ((from + 1) .. (from + k))
<1> USE DEF VisibleGoesOn
<1>1. \A i \in 1 .. from : (i - 1) \div ReadSize < q
  BY PortionOf
<1>2. \A i \in (from + 1) .. to : (i - 1) \div ReadSize = q
  <2>1. ASSUME NEW i \in (from + 1) .. to PROVE i \in Nat \ {0} /\ i \in (from + 1) .. (from + ReadSize)
    BY CommandsAssumption
  <2> QED
    BY <2>1, PortionOf
<1>3. ASSUME NEW i \in 1 .. to PROVE i \in Visible(bytes, to) <=> i \in Visible(bytes, from) \cup ((from + 1) .. (from + k))
  <2> DEFINE Clear == \A m \in 1 .. i : bytes[m] = Nul => (m - 1) \div ReadSize < (i - 1) \div ReadSize
  <2>1. i \in Visible(bytes, to) <=> Clear
    BY DEF Visible
  <2>2. i \in Visible(bytes, from) <=> i <= from /\ Clear
    BY DEF Visible
  <2>3. CASE i <= from
    <3>1. i \notin (from + 1) .. (from + k)
      BY <2>3
    <3> HIDE DEF Clear
    <3> QED
      BY <2>1, <2>2, <2>3, <3>1
  <2>4. CASE ~ i <= from
    <3>1. i \in (from + 1) .. to /\ (i - 1) \div ReadSize = q
      BY <1>2, <2>4
    <3>2. CASE i <= from + k
      <4>1. ASSUME NEW m \in 1 .. i, bytes[m] = Nul PROVE (m - 1) \div ReadSize < q
        <5>1. CASE m <= from
          BY <1>1, <5>1
        <5>2. CASE ~ m <= from
          <6>1. m - from \in 1 .. k /\ from + (m - from) = m
            BY <3>2, <5>2
          <6> QED
            BY <4>1, <6>1
        <5> QED
          BY <5>1, <5>2
      <4>2. Clear
        BY <3>1, <4>1
      <4>3. i \in (from + 1) .. (from + k)
        BY <3>1, <3>2
      <4> HIDE DEF Clear
      <4> QED
        BY <2>1, <4>2, <4>3
    <3>3. CASE ~ i <= from + k
      <4>1. /\ k < to - from /\ from + k + 1 \in 1 .. i /\ from + k + 1 \in (from + 1) .. to
        BY <3>1, <3>3
      <4>2. PICK m \in 1 .. i : bytes[m] = Nul /\ (m - 1) \div ReadSize = q
        BY <1>2, <4>1
      <4>3. ~ (m - 1) \div ReadSize < (i - 1) \div ReadSize
        BY <3>1, <4>2
      <4>4. ~ Clear
        BY <4>2, <4>3
      <4>5. i \notin (from + 1) .. (from + k)
        BY <3>3
      <4> HIDE DEF Clear
      <4> QED
        BY <2>1, <2>2, <4>4, <4>5
    <3> QED
      BY <3>2, <3>3
  <2> QED
    BY <2>3, <2>4
<1>4. Visible(bytes, to) \subseteq 1 .. to
  BY DEF Visible
<1>5. Visible(bytes, from) \subseteq 1 .. to /\ (from + 1) .. (from + k) \subseteq 1 .. to
  BY DEF Visible
<1> QED
  BY <1>3, <1>4, <1>5

\* The next visible bytes follow the ones shown.
LEMMA ShowsMore ==
    ASSUME NEW bytes \in Seq(Bytes), NEW from \in Nat, NEW to \in Nat, NEW k \in Nat,
           from + k <= to, to <= Len(bytes), NEW text \in Seq(Bytes), Shows(text, bytes, from),
           Visible(bytes, to) = Visible(bytes, from) \cup ((from + 1) .. (from + k)),
           NEW more \in Seq(Bytes), Len(more) = k, \A i \in 1 .. k : more[i] = bytes[from + i]
    PROVE  Shows(text \o more, bytes, to)
<1>1. PICK n \in Nat : n = Len(text)
  OBVIOUS
<1>2. PICK place \in [1 .. n -> Visible(bytes, from)] :
          /\ Range(place) = Visible(bytes, from)
          /\ \A i, j \in 1 .. n : i < j => place[i] < place[j]
          /\ \A i \in 1 .. n : text[i] = bytes[place[i]]
  <2>1. DOMAIN text = 1 .. n
    BY <1>1
  <2> QED
    BY <2>1, Zenon DEF Shows
<1>3. Visible(bytes, from) \subseteq 1 .. from
  BY DEF Visible
<1>4. PICK joined : joined = text \o more
  OBVIOUS
<1>5. /\ joined \in Seq(Bytes) /\ Len(joined) = n + k /\ DOMAIN joined = 1 .. (n + k)
      /\ \A i \in 1 .. n : joined[i] = text[i]
      /\ \A i \in (n + 1) .. (n + k) : joined[i] = more[i - n]
  <2>1. joined \in Seq(Bytes) /\ Len(joined) = n + k
    BY <1>1, <1>4, ConcatProperties
  <2>2. \A i \in 1 .. (n + k) : joined[i] = IF i <= n THEN text[i] ELSE more[i - n]
    BY <1>1, <1>4, ConcatProperties
  <2> QED
    BY <2>1, <2>2
<1> DEFINE at == [i \in 1 .. (n + k) |-> IF i <= n THEN place[i] ELSE from + (i - n)]
<1>6. \A i \in 1 .. n : at[i] = place[i] /\ place[i] \in Visible(bytes, from) /\ place[i] \in 1 .. from
  BY <1>2, <1>3
<1>7. \A i \in (n + 1) .. (n + k) : at[i] = from + (i - n) /\ from + (i - n) \in (from + 1) .. (from + k)
  OBVIOUS
<1>8. \A i \in 1 .. (n + k) : i \in 1 .. n \/ i \in (n + 1) .. (n + k)
  OBVIOUS
<1>9. at \in [1 .. (n + k) -> Visible(bytes, to)] /\ DOMAIN at = 1 .. (n + k)
  <2>1. \A i \in 1 .. (n + k) : at[i] \in Visible(bytes, to)
    <3> HIDE DEF at
    <3> QED
      BY <1>6, <1>7, <1>8
  <2> QED
    BY <2>1
<1> HIDE DEF at
<1>10. Range(at) = Visible(bytes, to)
  <2>1. ASSUME NEW v \in Visible(bytes, from) PROVE \E i \in 1 .. (n + k) : at[i] = v
    <3>1. PICK i \in 1 .. n : place[i] = v
      BY <1>2, <2>1 DEF Range
    <3>2. i \in 1 .. (n + k) /\ at[i] = v
      BY <1>6, <3>1
    <3> QED
      BY <3>2
  <2>2. ASSUME NEW v \in (from + 1) .. (from + k) PROVE \E i \in 1 .. (n + k) : at[i] = v
    <3>1. PICK i \in (n + 1) .. (n + k) : i = n + (v - from)
      BY <2>2
    <3>2. i \in 1 .. (n + k) /\ at[i] = v
      BY <1>7, <2>2, <3>1
    <3> QED
      BY <3>2
  <2>3. \A v \in Visible(bytes, to) : \E i \in 1 .. (n + k) : at[i] = v
    BY <2>1, <2>2
  <2>4. \A i \in 1 .. (n + k) : at[i] \in Visible(bytes, to)
    BY <1>9
  <2> QED
    BY <1>9, <2>3, <2>4 DEF Range
<1>11. ASSUME NEW i \in 1 .. (n + k), NEW j \in 1 .. (n + k), i < j PROVE at[i] < at[j]
  <2>1. CASE i \in 1 .. n /\ j \in 1 .. n
    BY <1>2, <1>6, <1>11, <2>1
  <2>2. CASE i \in 1 .. n /\ j \in (n + 1) .. (n + k)
    <3>1. at[i] \in 1 .. from /\ at[j] \in (from + 1) .. (from + k)
      BY <1>6, <1>7, <2>2
    <3> QED
      BY <3>1
  <2>3. CASE i \in (n + 1) .. (n + k)
    <3>1. j \in (n + 1) .. (n + k)
      BY <1>11, <2>3
    <3>2. at[i] = from + (i - n) /\ at[j] = from + (j - n)
      BY <1>7, <2>3, <3>1
    <3> QED
      BY <1>11, <3>2
  <2> QED
    BY <1>8, <2>1, <2>2, <2>3
<1>12. ASSUME NEW i \in 1 .. (n + k) PROVE joined[i] = bytes[at[i]]
  <2>1. CASE i \in 1 .. n
    BY <1>2, <1>5, <1>6, <2>1
  <2>2. CASE i \in (n + 1) .. (n + k)
    <3>1. i - n \in 1 .. k
      BY <2>2
    <3> QED
      BY <1>5, <1>7, <2>2, <3>1
  <2> QED
    BY <1>8, <2>1, <2>2
<1>13. Shows(joined, bytes, to)
  BY <1>5, <1>9, <1>10, <1>11, <1>12 DEF Shows
<1> QED
  BY <1>4, <1>13

LEMMA TypeDelivers ==
    ASSUME FilesInv, OutputInv, TypePortion, ~refused', NEW pos, NEW full,
           pos = opened'[File].pos, full = Len(Content(name))
    PROVE  Delivered(pos, full)'
<1>1. /\ name' = name /\ pc = "type" /\ FsReadFile /\ output' = output \o UpToNul(answer'.data)
      /\ \/ answer'.data = << >> /\ pc' = "close_text"
         \/ answer'.data # << >> /\ pc' = "type"
         \/ Overruns(UpToNul(answer'.data)) /\ pc' = "lost"
  BY DEF TypePortion
<1>2. pc \in Holding
  BY <1>1 DEF Holding, TypingFile
<1>3. PICK from, to \in Nat :
          /\ from = opened[File].pos /\ from <= to /\ to <= full /\ to = pos
          /\ answer'.data \in Seq(Bytes) /\ Len(answer'.data) = to - from
          /\ ~refused /\ answer'.data = SubSeq(Content(name), from + 1, to)
          /\ to = from + ReadSize \/ (to = full /\ to <= from + ReadSize)
  BY <1>1, <1>2, ReadGives, Zenon
<1>4. PICK data, bytes : data = answer'.data /\ bytes = Content(name)
  OBVIOUS
<1>5. bytes \in Seq(Bytes) /\ full = Len(bytes) /\ full \in Nat /\ ReadSize \in Nat \ {0}
  BY <1>4, FileIs
<1>6. /\ data \in Seq(Bytes) /\ Len(data) = to - from /\ data = SubSeq(bytes, from + 1, to)
      /\ from <= to /\ to <= full /\ to = pos
      /\ to = from + ReadSize \/ (to = full /\ to <= from + ReadSize)
  BY <1>3, <1>4
<1>7. /\ output \in Seq(Bytes) /\ Shows(output, bytes, from)
      /\ from = full \/ \E q \in Nat : from = q * ReadSize
  <2>1. Delivered(from, full)
    BY <1>3, Zenon DEF OutputInv
  <2> QED
    BY <1>1, <1>4, <2>1 DEF Delivered, TypingFile
<1>8. PICK k \in 0 .. Len(data) :
          /\ UpToNul(data) = SubSeq(data, 1, k) /\ \A i \in 1 .. k : data[i] # Nul
          /\ k < Len(data) => data[k + 1] = Nul
  BY <1>6, UpToNulIs
<1>9. PICK more : more = UpToNul(data)
  OBVIOUS
<1>10. more \in Seq(Bytes) /\ Len(more) = k /\ \A i \in 1 .. k : more[i] = data[i]
  <2>1. PICK text : text = SubSeq(data, 1, k)
    OBVIOUS
  <2>2. text \in Seq(Bytes) /\ Len(text) = k /\ \A i \in 1 .. k : text[i] = data[i]
    <3>1. k \in Int /\ \A i \in 1 .. k : data[i] \in Bytes
      <4>0. data \in Seq(Bytes)
        BY <1>6
      <4>1. Len(data) \in Nat /\ \A i \in 1 .. Len(data) : data[i] \in Bytes
        BY <4>0
      <4>2. PICK n \in Nat : n = Len(data)
        BY <4>1
      <4>3. k \in Int /\ \A i \in 1 .. k : i \in 1 .. n
        BY <4>2
      <4> QED
        BY <4>1, <4>2, <4>3
    <3>2. /\ SubSeq(data, 1, k) \in Seq(Bytes)
          /\ Len(SubSeq(data, 1, k)) = (IF 1 <= k THEN k - 1 + 1 ELSE 0)
          /\ \A i \in 1 .. (k - 1 + 1) : SubSeq(data, 1, k)[i] = data[1 + i - 1]
      BY <3>1, SubSeqProperties
    <3>3. k - 1 + 1 = k /\ (IF 1 <= k THEN k - 1 + 1 ELSE 0) = k /\ \A i \in 1 .. k : 1 + i - 1 = i
      BY <1>6
    <3> QED
      BY <2>1, <3>2, <3>3
  <2> QED
    BY <1>8, <1>9, <2>1, <2>2
<1>11. CASE data = << >>
  <2>1. to = full /\ to = from
    <3>1. Len(data) = 0
      BY <1>11
    <3>2. /\ from <= to /\ to <= full /\ Len(data) = to - from
          /\ to = from + ReadSize \/ (to = full /\ to <= from + ReadSize)
          /\ full \in Nat /\ ReadSize \in Nat \ {0}
      BY <1>5, <1>6
    <3> QED
      BY <3>1, <3>2
  <2>2. more = << >> /\ output' = output
    <3>1. Len(more) = 0
      BY <1>10, <1>11
    <3>2. more = << >>
      BY <1>10, <3>1
    <3>3. output' = output \o more
      BY <1>1, <1>4, <1>9
    <3> QED
      BY <1>7, <3>2, <3>3, ConcatEmptySeq
  <2>3. ~ Overruns(UpToNul(data))
    BY <1>5, <1>9, <2>2 DEF Overruns
  <2>4. pc' = "close_text"
    BY <1>1, <1>4, <1>11, <2>3
  <2> QED
    BY <1>1, <1>4, <1>6, <1>7, <2>1, <2>2, <2>4 DEF Delivered, Unstarted, Loading, TypingFile
<1>12. CASE data # << >>
  <2>1. from < to
    BY <1>5, <1>6, <1>12
  <2>2. PICK q \in Nat : from = q * ReadSize
    BY <1>5, <1>6, <1>7, <2>1
  <2>3. \A i \in 1 .. (to - from) : data[i] = bytes[from + i]
    <3>1. from + 1 \in 1 .. (Len(bytes) + 1) /\ to \in ((from + 1) - 1) .. Len(bytes)
      BY <1>5, <1>6
    <3>2. to - (from + 1) + 1 = to - from /\ \A i \in 1 .. (to - from) : (from + 1) + i - 1 = from + i
      OBVIOUS
    <3> QED
      BY <1>5, <1>6, <3>1, <3>2, SubSeqProperties
  <2>4. /\ k \in 0 .. (to - from) /\ \A i \in 1 .. k : bytes[from + i] # Nul
        /\ k < to - from => bytes[from + k + 1] = Nul
    <3>1. k \in 0 .. (to - from) /\ \A i \in 1 .. k : i \in 1 .. (to - from)
      BY <1>6, <1>8
    <3>2. k < to - from => k + 1 \in 1 .. (to - from) /\ from + (k + 1) = from + k + 1
      BY <3>1
    <3>3. k < to - from => data[k + 1] = Nul
      BY <1>6, <1>8
    <3> QED
      BY <1>8, <2>3, <3>1, <3>2, <3>3
  <2>5. Visible(bytes, to) = Visible(bytes, from) \cup ((from + 1) .. (from + k))
    <3>1. from <= to /\ to <= Len(bytes) /\ to <= from + ReadSize
      BY <1>5, <1>6
    <3>2. VisibleGoesOn(bytes, q, from, to, k)
      BY <1>5, <2>2, <2>4, <3>1 DEF VisibleGoesOn
    <3> QED
      BY <1>5, <3>2, VisibleWith
  <2>6. Shows(output', bytes, to) /\ output' \in Seq(Bytes)
    <3>1. from + k <= to /\ to <= Len(bytes) /\ k \in Nat
      BY <1>5, <1>6, <2>4
    <3>2. \A i \in 1 .. k : more[i] = bytes[from + i]
      BY <1>10, <2>3, <2>4
    <3>3. Shows(output \o more, bytes, to)
      BY <1>5, <1>7, <1>10, <2>5, <3>1, <3>2, ShowsMore
    <3>4. output' = output \o more
      BY <1>1, <1>4, <1>9
    <3>5. output \o more \in Seq(Bytes)
      BY <1>7, <1>10, ConcatProperties
    <3> QED
      BY <3>3, <3>4, <3>5
  <2>7. to = full \/ \E r \in Nat : to = r * ReadSize
    <3>1. CASE to = from + ReadSize
      <4>1. q + 1 \in Nat /\ to = (q + 1) * ReadSize
        BY <1>5, <2>2, <3>1
      <4> QED
        BY <4>1
    <3> QED
      BY <1>6, <3>1
  <2>8. Overruns(UpToNul(data)) => FillsBuffer(bytes)
    <3> SUFFICES ASSUME Overruns(UpToNul(data)) PROVE FillsBuffer(bytes)
      OBVIOUS
    <3>1. k + 1 > ReadSize
      BY <1>9, <1>10 DEF Overruns
    <3>2. k = ReadSize /\ k \in Nat
      <4>1. PICK size \in Nat \ {0} : size = ReadSize
        BY <1>5
      <4>2. k \in Nat /\ k <= to - from /\ to <= from + size /\ k + 1 > size
        BY <1>6, <2>4, <3>1, <4>1
      <4> QED
        BY <4>1, <4>2
    <3>3. (q * ReadSize + 1) .. ((q + 1) * ReadSize) = (from + 1) .. (from + k)
      <4>1. (q + 1) * ReadSize = from + k
        BY <1>5, <2>2, <3>2
      <4> QED
        BY <2>2, <4>1
    <3>4. Visible(bytes, to) \subseteq Visible(bytes, Len(bytes))
      <4>1. 1 .. to \subseteq 1 .. Len(bytes)
        BY <1>5, <1>6
      <4> QED
        BY <4>1, Zenon DEF Visible
    <3>5. (q * ReadSize + 1) .. ((q + 1) * ReadSize) \subseteq Visible(bytes, Len(bytes))
      BY <2>5, <3>3, <3>4
    <3>6. q <= from
      BY <1>5, <2>2
    <3>7. q \in 0 .. Len(bytes)
      BY <1>5, <1>6, <3>6
    <3> QED
      BY <3>5, <3>7 DEF FillsBuffer
  <2>9. pc' \in {"type", "lost"} /\ (pc' = "lost" => FillsBuffer(bytes))
    BY <1>1, <1>4, <1>12, <2>8
  <2> QED
    BY <1>1, <1>4, <1>6, <2>6, <2>7, <2>9 DEF Delivered, Unstarted, Loading, TypingFile
<1> QED
  BY <1>11, <1>12

LEMMA OutputHolds ==
    ASSUME NEW pos, NEW full, pos = opened'[File].pos, full = Len(Content(name')),
           ~refused' => Delivered(pos, full)'
    PROVE  OutputInv'
<1>1. OutputInv' <=> (~refused' => Delivered(opened[File].pos, Len(Content(name)))')
  BY Zenon DEF OutputInv
<1>2. Delivered(opened[File].pos, Len(Content(name)))' <=> Delivered(pos, full)'
  BY DEF Delivered
<1> QED
  BY <1>1, <1>2, Zenon

LEMMA OutputStep ==
    ASSUME ListsInv, ThreadsInv, FilesInv, Programs, OutputInv, [CommandsNext]_commandsVars
    PROVE  OutputInv'
<1> USE DEF Holding, Loading, Unstarted, Started, TypingFile
<1>1. PICK pos, full : pos = opened'[File].pos /\ full = Len(Content(name'))
  OBVIOUS
<1>2. SUFFICES ASSUME ~refused' PROVE Delivered(pos, full)'
  BY <1>1, OutputHolds
<1>3. CASE HshpParser
  <2>1. pc' \in {"prompt", "open_program", "open_text", "print_thread", "erase"}
    BY <1>3 DEF HshpParser, Hshp_CMD_excute, Hshp_CMD_type, Hshp_CMD_ps, Hshp_CMD_toggle, Finished
  <2> QED
    BY <2>1, NothingDelivered
<1>4. CASE OpenFile
  BY <1>1, <1>4, OpenedDelivers
<1>5. CASE Load
  <2>1. name' = name
    BY <1>5 DEF Load
  <2> QED
    BY <1>1, <1>2, <1>5, <2>1, LoadDelivers
<1>6. CASE TypePortion
  <2>1. name' = name
    BY <1>6 DEF TypePortion
  <2> QED
    BY <1>1, <1>2, <1>6, <2>1, TypeDelivers
<1>7. CASE CloseFile \/ PrintThread \/ NextThread \/ EndOfList \/ EraseClock
  <2>1. pc' \in {"prompt", "print_thread", "next_thread", "listed"}
    BY <1>7 DEF CloseFile, PrintThread, NextThread, EndOfList, EraseClock, Finished
  <2> QED
    BY <2>1, NothingDelivered
<1>8. ASSUME UNCHANGED <<name, opened, refused>>
      PROVE  Delivered(pos, full) /\ full = Len(Content(name))
  <2>1. ~refused /\ pos = opened[File].pos /\ full = Len(Content(name))
    BY <1>1, <1>2, <1>8
  <2> QED
    BY <2>1, Zenon DEF OutputInv
<1>9. CASE \/ AllocateThread \/ PspAddNewThread \/ HalSetupTSS \/ Start \/ Poll \/ PsDeleteThread
           \/ \E b \in Blocks : UserProgram(b)
  <2>1. UNCHANGED <<name, opened, refused>>
    BY <1>9 DEF AllocateThread, PspAddNewThread, HalSetupTSS, Start, Poll, PsDeleteThread,
                UserProgram, CallGate, Sysp_SERVICE_CALL_MANAGER, files
  <2> QED
    BY <1>8, <1>9, <2>1, ProgramDelivers
<1>10. CASE CutterThread \/ PspSoftTaskSW \/ UNCHANGED commandsVars
  <2>1. UNCHANGED <<pc, name, image, pAddr, UserThread, eip, syscall, call_msg, status, output, opened, refused>>
    BY <1>10 DEF CutterThread, PspPopCuttingItem, PspThreadCutterThread, PspSoftTaskSW,
                 commandsVars, files, loading, program
  <2> QED
    BY <1>8, <2>1, StillDelivered
<1> QED
  BY <1>3, <1>4, <1>5, <1>6, <1>7, <1>9, <1>10 DEF CommandsNext, Continue

LEMMA OutputInit ==
    ASSUME CommandsInit
    PROVE  OutputInv
<1>1. pc = "prompt"
  BY DEF CommandsInit
<1> QED
  BY <1>1 DEF OutputInv, Delivered, Unstarted, Loading, TypingFile

LEMMA TextsAreFirst ==
    ASSUME NEW bytes \in Seq(Bytes), \E i \in DOMAIN bytes : bytes[i] = Exit
    PROVE  IsPrefix(TextsOf(bytes), bytes)
<1> DEFINE Ends == {i \in DOMAIN bytes : bytes[i] = Exit}
<1>1. Ends \subseteq Nat /\ Ends # {} /\ Ends \subseteq 1 .. Len(bytes) /\ Len(bytes) \in Nat
  OBVIOUS
<1>2. PICK m \in Ends : \A i \in Ends : m <= i
  <2> HIDE DEF Ends
  <2> QED
    BY <1>1, LeastOf
<1>3. m \in 1 .. Len(bytes) /\ bytes[m] = Exit /\ \A i \in 1 .. Len(bytes) : bytes[i] = Exit => m <= i
  BY <1>2
<1>4. PICK n \in Nat : n = m - 1
  BY <1>1, <1>3
<1>5. n < Len(bytes) /\ bytes[n + 1] = Exit /\ n <= Len(bytes)
  BY <1>1, <1>3, <1>4
<1>6. \A i \in 1 .. n : bytes[i] # Exit
  <2>1. \A i \in 1 .. n : i \in 1 .. Len(bytes) /\ ~ m <= i
    BY <1>1, <1>3, <1>4
  <2> QED
    BY <1>3, <2>1
<1>7. TextsOf(bytes) = SubSeq(bytes, 1, n)
  BY <1>5, <1>6, TextsAreBefore
<1> QED
  BY <1>5, <1>7, PrefixIs

LEMMA CommandAnswered ==
    ASSUME ListsInv, ThreadsInv, FilesInv, Programs, OutputInv
    PROVE  AnswersCommand
<1>1. SUFFICES ASSUME ~refused
      PROVE  /\ pc = "poll" => IsPrefix(output, Content(name))
             /\ pc = "close" => output = TextsOf(Content(name))
             /\ pc \in TypingFile => Shows(output, Content(name), opened[File].pos)
             /\ pc = "close_text" => opened[File].pos = Len(Content(name))
             /\ pc = "lost" => FillsBuffer(Content(name))
  BY Zenon DEF AnswersCommand, TypingFile
<1>2. PICK pos, full, bytes : pos = opened[File].pos /\ full = Len(Content(name)) /\ bytes = Content(name)
  OBVIOUS
<1>3. Delivered(pos, full)
  BY <1>1, <1>2, Zenon DEF OutputInv
<1>4. bytes \in Seq(Bytes) /\ full = Len(bytes) /\ full \in Nat
  BY <1>2, FileIs
<1>5. /\ pc = "close" => output = TextsOf(bytes)
      /\ pc \in TypingFile => Shows(output, bytes, pos)
      /\ pc = "close_text" => pos = full
      /\ pc = "lost" => FillsBuffer(bytes)
  BY <1>2, <1>3 DEF Delivered
<1>6. ASSUME pc = "poll" PROVE IsPrefix(output, bytes)
  <2>1. status[UserThread] \in {"READY", "TERMINATED"}
    BY <1>6 DEF ListsInv, LinksInv, ThreadsInv
  <2>2. CASE status[UserThread] = "READY"
    <3>1. PICK done : done = eip[UserThread]
      OBVIOUS
    <3>2. PrintedUpTo(done)
      BY <1>3, <1>6, <2>2, <3>1 DEF Delivered
    <3>3. done \in Nat /\ done <= Len(bytes) /\ output = SubSeq(bytes, 1, done)
      BY <1>2, <3>2 DEF PrintedUpTo
    <3> QED
      BY <1>4, <3>3, PrefixIs
  <2>3. CASE status[UserThread] = "TERMINATED"
    <3>1. output = TextsOf(bytes)
      BY <1>2, <1>3, <1>6, <2>3 DEF Delivered
    <3>2. Executable(name) /\ Exists(name) /\ name \in Names
      BY <1>6 DEF FilesInv, Holding, Started, TypingFile
    <3>3. \E i \in DOMAIN bytes : bytes[i] = Exit
      BY <1>2, <3>2 DEF Programs
    <3> QED
      BY <1>4, <3>1, <3>3, TextsAreFirst
  <2> QED
    BY <2>1, <2>2, <2>3
<1> QED
  BY <1>2, <1>5, <1>6

\* When no sector is refused, a program prints its own texts in order, all of them
\* before its file is closed; of a typed file just the bytes appear that no NUL hides
\* in their portion, each once; and the shell is lost only to a portion that fills the
\* buffer.
THEOREM CommandsAnswer ==
    ASSUME Programs
    PROVE  CommandsSpec => []AnswersCommand
<1> DEFINE inv == ListsInv /\ ThreadsInv /\ FilesInv /\ OutputInv
<1>1. CommandsInit => inv
  BY ListsInit, ThreadsInit, FilesInit, OutputInit
<1>2. inv /\ [CommandsNext]_commandsVars => inv'
  BY ListsStep, ThreadsStep, FilesStep, OutputStep
<1>3. inv => AnswersCommand
  BY CommandAnswered
<1> HIDE DEF inv
<1> QED
  BY <1>1, <1>2, <1>3, PTL DEF CommandsSpec
=============================================================================
