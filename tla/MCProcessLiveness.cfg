CONSTANTS
    fdd_main = fdd_main
    shell_main = shell_main
    System = "system"
    Drivers <- MCDrivers
    Main <- MCMain
    Waker = fdd_main
    ReturningMains = {shell_main}
    HeadLeavesLast = TRUE
    Spare = {u}
    StackLimit = 9
    MAX_CUTTING_ITEM = 3
    NoThread = NoThread
SPECIFICATION FairSpec
PROPERTIES NoStarvation EndedIsFreed
