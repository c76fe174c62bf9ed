\* Both keys of each pair, one of them with the prefix, the lock that counts, and a letter.
\* The raw queue overflows when the translator is late, the user queue when the
\* shell is.
CONSTANTS
    Keys = {"lshift", "rshift", "ctrl", "rctrl", "capslock", "a"}
    RAW_KEY_DATA_Q_SIZE = 3
    USER_KEY_DATA_Q_SIZE = 2
    MaxEvents = 5
SPECIFICATION Spec
INVARIANTS ModifiersFollow TypedInOrder NothingInvented
\* The user may stop touching keys.
CHECK_DEADLOCK FALSE
