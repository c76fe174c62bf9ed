\* The thread of the shell ends when the file system cannot be loaded, so this
\* system may stop.
CONSTANTS
    BYTES_PER_SECTOR = 2
    Fat <- MCFat
    Root <- MCRoot
    Names = {"A", "B", "E", "X", ""}
    Handles = {"h1", "h2"}
    ReadSizes = {0, 1, 3, 6}
    DriverRefuses = TRUE
SPECIFICATION Spec
CHECK_DEADLOCK FALSE
INVARIANT BlocksAreHeld
PROPERTY FilesSpec
