--------------------------- MODULE SequentialFiles ---------------------------
(***************************************************************************)
(* What the file system of fatfs.c promises its caller: a file opened by   *)
(* name is a sequence of bytes with a position of its own; a read returns  *)
(* the bytes from the position on, as many as were asked for or as are     *)
(* left, and moves the position past them.                                 *)
(*                                                                         *)
(* When the driver refuses a sector, an open fails, and a read stops where *)
(* the sector would begin, early or just done.  The bytes of that sector   *)
(* are then lost to this handle: reads pass over its places, but what they *)
(* give there is not promised.  From its end on the bytes are right again, *)
(* and no other handle is affected.                                        *)
(***************************************************************************)
EXTENDS Integers, Sequences

CONSTANTS Names, Handles, ReadSizes,
          BlockSize,    \* bytes of a sector
          MayRefuse,    \* whether the driver may refuse
          Exists(_),    \* whether the root directory has a file of the name
          Content(_)    \* its bytes

VARIABLES opened,       \* of each handle, its File; or Closed
          answer        \* the last call, what it gave, and whether the driver
                        \* refused a sector it asked for

\* "until" is the end of the sector last refused, 0 if none was: no byte up to
\* there is promised.
File(name, pos, until) == [name |-> name, pos |-> pos, until |-> until]
Closed == File("", 0, 0)

Answer(op, h, data, refused) == [op |-> op, handle |-> h, data |-> data, refused |-> refused]
NoAnswer == Answer("none", "", << >>, FALSE)

Open(name) ==
    \/ /\ Exists(name)
       /\ \E h \in Handles :
            /\ opened[h] = Closed
            /\ opened' = [opened EXCEPT ![h] = File(name, 0, 0)]
            /\ answer' = Answer("open", h, << >>, FALSE)
    \/ /\ ~Exists(name) \/ \A h \in Handles : opened[h] # Closed
       /\ answer' = Answer("open", "", << >>, FALSE)
       /\ UNCHANGED opened
    \/ /\ MayRefuse /\ Exists(name)
       /\ answer' = Answer("open", "", << >>, TRUE)
       /\ UNCHANGED opened

\* A read that is not refused goes on to "end"; one that is gives something all
\* the same.
Read(h, n) ==
    LET file == opened[h]
        bytes == Content(file.name)
        end == IF file.pos + n < Len(bytes) THEN file.pos + n ELSE Len(bytes)
    IN /\ file # Closed
       /\ \E to \in file.pos .. end, refused \in BOOLEAN :
            /\ refused => MayRefuse /\ to > file.pos /\ to % BlockSize = 0
            /\ to < end => refused
            /\ opened' = [opened EXCEPT ![h] =
                   File(file.name, to, IF refused THEN to + BlockSize ELSE file.until)]
            /\ answer' = Answer("read", h, answer'.data, refused)
            /\ Len(answer'.data) = to - file.pos
            /\ \A i \in file.pos + 1 .. to :
                   i > file.until => answer'.data[i - file.pos] = bytes[i]

Close(h) ==
    /\ opened[h] # Closed
    /\ opened' = [opened EXCEPT ![h] = Closed]
    /\ answer' = Answer("close", h, << >>, FALSE)

Init == opened = [h \in Handles |-> Closed] /\ answer = NoAnswer

Next ==
    \/ \E name \in Names : Open(name)
    \/ \E h \in Handles : Close(h) \/ \E n \in ReadSizes : Read(h, n)

Spec == Init /\ [][Next]_<<opened, answer>>
=============================================================================
