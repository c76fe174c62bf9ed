--------------------------- MODULE KeyboardDriver ---------------------------
(***************************************************************************)
(* The keyboard driver of src/mylysos/kbddrv.c: the interrupt queues scan  *)
(* codes, the translator thread turns them into characters with the help   *)
(* of the modifier keys it has seen, and KbdGetKey takes the characters.   *)
(* The interrupt may come between any two steps of the other two, and a    *)
(* full queue drops what is pushed.  RingQueue shows that the rings are    *)
(* the bounded queues used here.                                           *)
(*                                                                         *)
(* A scan code is a key and whether its top bit is set, which it is when   *)
(* the key is released.  There are modifiers, one of them with the prefix  *)
(* 0xe0, two locks, a letter and a digit.  The driver keeps one flag for   *)
(* both shift keys and one for both ctrl keys.  The keyboard itself, which *)
(* keys are down and the codes it sends, is outside the repository.        *)
(***************************************************************************)
EXTENDS Integers, SequencesExt

CONSTANTS
    Keys,                   \* the keys the user has
    RAW_KEY_DATA_Q_SIZE,
    USER_KEY_DATA_Q_SIZE,
    MaxEvents               \* bound: how often the user touches a key

KeyNames == {"lshift", "rshift", "ctrl", "rctrl", "alt", "capslock", "numlock", "a", "one"}
Modifiers == {"lshift", "rshift", "ctrl", "rctrl", "alt"}
Locks == {"capslock", "numlock"}
Prefixed == {"rctrl"}
Letters == {"a"}

ASSUME KeyboardAssumption ==
    /\ Keys \subseteq KeyNames
    /\ RAW_KEY_DATA_Q_SIZE \in 1 .. 255 /\ USER_KEY_DATA_Q_SIZE \in 1 .. 255
    /\ MaxEvents \in Nat

\* What the controller sends: the acknowledgement of a command, the prefix, or
\* a key, pressed or released.
Ack == [key |-> "ack", up |-> TRUE]
Prefix == [key |-> "prefix", up |-> TRUE]
Code(key, up) == [key |-> key, up |-> up]
CodesOf(key, up) == IF key \in Prefixed THEN <<Prefix, Code(key, up)>> ELSE <<Code(key, up)>>

VARIABLES
    down,               \* the keys that are down
    overruled,          \* history: those whose pair was let go of since they went down
    caps,               \* whether the user has capslock on
    wire,               \* what the keyboard has still to deliver
    raw_keydata_q,
    user_keydata_q,
    shift_key_pressed, ctrl_key_pressed, alt_key_pressed,
    indicator_status,   \* the locks that are on
    raw_key,            \* the code the translator has popped, or None
    read,               \* what KbdGetKey has given so far
    typed,              \* the characters of the keys pressed
    lost,               \* a full queue has dropped something
    events

queues == <<raw_keydata_q, user_keydata_q>>
flags == <<shift_key_pressed, ctrl_key_pressed, alt_key_pressed, indicator_status>>
user == <<down, overruled, caps, typed, events>>
vars == <<user, wire, queues, flags, raw_key, read, lost>>

None == [key |-> "none", up |-> FALSE]
NUL == <<"none", "NUL">>

\* The character of a key: a modifier's entry is zero, shift chooses the upper
\* character of a key, and capslock inverts that for the letters.
m_AsciiCode(shift, capslock, key) ==
    IF key \in Modifiers THEN NUL
    ELSE IF shift # (capslock /\ key \in Letters) THEN <<"upper", key>> ELSE <<"lower", key>>

----------------------------------------------------------------------------
(* The user and the keyboard.                                              *)

ShiftIsDown(keys) == keys \cap {"lshift", "rshift"} # {}

\* The keys that share a flag with a key.
PairOf(k) ==
    IF k \in {"lshift", "rshift"} THEN {"lshift", "rshift"}
    ELSE IF k \in {"ctrl", "rctrl"} THEN {"ctrl", "rctrl"} ELSE {k}

\* To a driver with one flag for a pair a key that is held counts no more once
\* the other has been let go, until either is pressed again.
Counting == down \ overruled

Press(k) ==
    /\ events < MaxEvents /\ events' = events + 1
    /\ k \in Keys \ down
    /\ down' = down \cup {k}
    /\ overruled' = overruled \ PairOf(k)
    /\ wire' = wire \o CodesOf(k, FALSE)
    /\ caps' = IF k = "capslock" THEN ~caps ELSE caps
    /\ typed' = IF k \in Locks THEN typed
                ELSE Append(typed, m_AsciiCode(ShiftIsDown(Counting), caps, k))
    /\ UNCHANGED <<queues, flags, raw_key, read, lost>>

Release(k) ==
    /\ events < MaxEvents /\ events' = events + 1
    /\ k \in down
    /\ down' = down \ {k}
    /\ overruled' = (overruled \cup PairOf(k)) \cap down'
    /\ wire' = wire \o CodesOf(k, TRUE)
    /\ UNCHANGED <<caps, typed, queues, flags, raw_key, read, lost>>

----------------------------------------------------------------------------
(* The interrupt.                                                          *)

HasRoom(q, size) == Len(q) < size

\* The acknowledgement of a command is ignored; a full queue drops the code.
Kbd_IRQ_Handler ==
    /\ wire # << >>
    /\ wire' = Tail(wire)
    /\ LET code == Head(wire)
           fits == HasRoom(raw_keydata_q, RAW_KEY_DATA_Q_SIZE)
       IN /\ raw_keydata_q' = IF code # Ack /\ fits THEN Append(raw_keydata_q, code)
                              ELSE raw_keydata_q
          /\ lost' = (lost \/ (code # Ack /\ ~fits))
    /\ UNCHANGED <<user, user_keydata_q, flags, raw_key, read>>

----------------------------------------------------------------------------
(* KbdpTranslatorThread.                                                   *)

\* With an empty queue the thread switches, which changes nothing here.
KbdpPopRawKeyData ==
    /\ raw_key = None
    /\ raw_keydata_q # << >>
    /\ raw_key' = Head(raw_keydata_q)
    /\ raw_keydata_q' = Tail(raw_keydata_q)
    /\ UNCHANGED <<user, wire, user_keydata_q, flags, read, lost>>

\* The top bit is set: only the release of a modifier counts, the prefix does
\* not, so that a prefixed key is taken for the plain one.  Either shift key
\* resets the one flag.
KeyReleased ==
    /\ raw_key # None /\ raw_key.up
    /\ shift_key_pressed' = (shift_key_pressed /\ raw_key.key \notin {"lshift", "rshift"})
    /\ alt_key_pressed' = (alt_key_pressed /\ raw_key.key # "alt")
    /\ ctrl_key_pressed' = (ctrl_key_pressed /\ raw_key.key \notin {"ctrl", "rctrl"})
    /\ raw_key' = None
    /\ UNCHANGED <<user, wire, queues, indicator_status, read, lost>>

\* Mutated form: an indicator that is on is not switched off.
Toggled_Set(status, lock) == status \cup {lock}

\* An indicator is inverted.
Toggled(status, lock) == SymDiff(status, {lock})

\* A lock: the new indicators are sent to the controller, which acknowledges
\* both bytes of the command.
LockPressed ==
    /\ ~raw_key.up
    /\ raw_key.key \in Locks
    /\ indicator_status' = Toggled(indicator_status, raw_key.key)
    /\ wire' = wire \o <<Ack, Ack>>
    /\ raw_key' = None
    /\ UNCHANGED <<user, queues, shift_key_pressed, ctrl_key_pressed, alt_key_pressed, read, lost>>

\* Mutated form: key_family is made of the shift key alone.
KeyOf_NoCaps(shift, capslock, key) == m_AsciiCode(shift, FALSE, key)

KeyOf(shift, capslock, key) == m_AsciiCode(shift, capslock, key)

\* Any other key: the modifiers are noted, and its character is queued, that
\* of a modifier being NUL.
KeyPressed ==
    /\ raw_key # None /\ ~raw_key.up /\ raw_key.key \notin Locks
    /\ shift_key_pressed' = (shift_key_pressed \/ raw_key.key \in {"lshift", "rshift"})
    /\ ctrl_key_pressed' = (ctrl_key_pressed \/ raw_key.key \in {"ctrl", "rctrl"})
    /\ alt_key_pressed' = (alt_key_pressed \/ raw_key.key = "alt")
    /\ LET char == KeyOf(shift_key_pressed', "capslock" \in indicator_status, raw_key.key)
           fits == HasRoom(user_keydata_q, USER_KEY_DATA_Q_SIZE)
       IN /\ user_keydata_q' = IF fits THEN Append(user_keydata_q, char) ELSE user_keydata_q
          /\ lost' = (lost \/ ~fits)
    /\ raw_key' = None
    /\ UNCHANGED <<user, wire, raw_keydata_q, indicator_status, read>>

----------------------------------------------------------------------------

\* Mutated form: the head index is not advanced, as in the older kernel.
WithoutFirst_HeadStays(q) == Front(q)

WithoutFirst(q) == Tail(q)

\* The shell's side: the first character of the queue, if there is one.
KbdGetKey ==
    /\ user_keydata_q # << >>
    /\ read' = Append(read, Head(user_keydata_q))
    /\ user_keydata_q' = WithoutFirst(user_keydata_q)
    /\ UNCHANGED <<user, wire, raw_keydata_q, flags, raw_key, lost>>

\* KbdInitializeDriver: num lock is on, and the controller has been told.
Init ==
    /\ down = {} /\ overruled = {} /\ caps = FALSE /\ events = 0
    /\ wire = <<Ack, Ack>>
    /\ raw_keydata_q = << >> /\ user_keydata_q = << >>
    /\ shift_key_pressed = FALSE /\ ctrl_key_pressed = FALSE /\ alt_key_pressed = FALSE
    /\ indicator_status = {"numlock"}
    /\ raw_key = None
    /\ read = << >> /\ typed = << >> /\ lost = FALSE

Next ==
    \/ \E k \in Keys : Press(k) \/ Release(k)
    \/ Kbd_IRQ_Handler
    \/ KbdpPopRawKeyData \/ KeyReleased \/ LockPressed \/ KeyPressed
    \/ KbdGetKey

Spec == Init /\ [][Next]_vars

----------------------------------------------------------------------------
(* Properties.                                                             *)

\* The queues never hold more than their arrays.
TypeOK ==
    /\ Len(raw_keydata_q) <= RAW_KEY_DATA_Q_SIZE
    /\ Len(user_keydata_q) <= USER_KEY_DATA_Q_SIZE
    /\ shift_key_pressed \in BOOLEAN /\ ctrl_key_pressed \in BOOLEAN /\ alt_key_pressed \in BOOLEAN
    /\ indicator_status \subseteq Locks

Translated == wire = << >> /\ raw_keydata_q = << >> /\ raw_key = None

\* The queues keep to their arrays, and KBD_DATA says what the keyboard's
\* modifiers are: when every code has been translated and none was lost, a flag
\* is set just if such a key is down, and the capslock indicator is the user's.
\* The one exception is the flag of a pair: a shift or ctrl key that stays down
\* when the other of its pair is let go is taken to be up.
ModifiersFollow ==
    /\ TypeOK
    /\ (Translated /\ ~lost) =>
        /\ shift_key_pressed = ShiftIsDown(Counting)
        /\ ctrl_key_pressed = (Counting \cap {"ctrl", "rctrl"} # {})
        /\ alt_key_pressed = ("alt" \in down)
        /\ ("capslock" \in indicator_status) = caps

\* What KbdGetKey gives is what was typed, in that order and in the case the
\* modifiers that count had when each key was pressed, however late the
\* translator gets to it; nothing is missing in the end unless a queue was full.
TypedInOrder ==
    ~lost =>
        /\ IsPrefix(read \o user_keydata_q, typed)
        /\ Translated => read \o user_keydata_q = typed

\* The key of a character: a lost code can give a letter the wrong case.
KeyIn(char) == char[2]

\* Even with full queues no key is invented, repeated or moved: what is given is
\* what was typed with some keys left out.
NothingInvented ==
    LET given == read \o user_keydata_q
    IN \E kept \in SUBSET DOMAIN typed :
           /\ Cardinality(kept) = Len(given)
           /\ \A i \in kept : KeyIn(typed[i]) = KeyIn(given[Cardinality({j \in kept : j <= i})])
=============================================================================
