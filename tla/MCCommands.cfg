\* Files of two and three bytes read two at a time, as long as a sector is; control
\* blocks for two programs, the earlier of which may still wait for the cutter.
CONSTANTS
    Names = {"HELLO", "BYE", "NOTE.TXT", "CUT.TXT", "LOST"}
    Texts = {"x", "y"}
    Content <- MCContent
    Exists <- MCExists
    Executable <- MCExecutable
    Blocks = {b1, b2}
    ReadSize = 2
    BlockSize = 2
    ImageSize = 3
    MAX_CUTTING_ITEM = 1
    MayRefuse = TRUE
SPECIFICATION FairSpec
INVARIANTS AnswersCommand PsListsAll NothingLeftBehind
PROPERTY ShellComesBack
\* What a refused sector leaves of a program may do nothing for ever.
CHECK_DEADLOCK FALSE
