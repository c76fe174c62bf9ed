\* Idle and two threads created late, the timer, the keyboard and a line of the
\* slave; an exception whose handler returns, one that hangs, one with a code.
CONSTANTS
    Threads = {idle, t1, t2}
    Idle = idle
    Devices = {0, 1, 12}
    Exceptions = {0, 6, 12}
    Rounds = 2
    Burst = 1
SPECIFICATION FairSpec
INVARIANT GatesOpen
PROPERTIES SharingSpec RequestServed
