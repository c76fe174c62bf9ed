\* Two threads of high and two of normal priority, one of each yielding, and one of
\* low.  The entry of the init thread, which the first high tick skips for good, is
\* left out.
CONSTANTS
    timer = timer
    idle = idle
    driver = driver
    normal = normal
    high = high
    low = low
    Order <- MCOrder
    PriorityOf <- MCPriorityOf
    Queued = {idle, driver, normal, high, low}
    Idle = idle
    Started = {driver, normal, high, low}
    Yielding = {idle, driver}
    MaxNodes = 5
    MaxCount = 5
SPECIFICATION MCSpec
INVARIANTS QueuesAreLists TurnComes
PROPERTY NoStarvation
\* A count at its bound stops the model.
CHECK_DEADLOCK FALSE
