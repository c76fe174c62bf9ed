\* Two drivers with a main each, two blocks for other threads, memory for one
\* more stack than the mains need, and a cutting list of one entry.
CONSTANTS
    fdd_main = fdd_main
    shell_main = shell_main
    System = "system"
    Drivers <- MCDrivers
    Main <- MCMain
    Waker = fdd_main
    ReturningMains = {shell_main}
    HeadLeavesLast = TRUE
    Spare = {u, v}
    StackLimit = 9
    MAX_CUTTING_ITEM = 1
    NoThread = NoThread
SPECIFICATION MCSpec
SYMMETRY Symmetry
INVARIANTS TypeOK CountsMatch NoDangling DispatchSafe OneRunning CuttingSafe MemoryAccounted NoOvertaking
PROPERTY EndIsFinal
