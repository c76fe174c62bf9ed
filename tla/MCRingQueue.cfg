\* Three entries wrap both indices many times in every combination with the
\* number of queued items; two items tell orders apart.
CONSTANTS
    Size = 3
    Items = {a, b, c}
SPECIFICATION RingSpec
INVARIANT RingOK
PROPERTY FifoSpec
