\* One consumer of two stalls.
SPECIFICATION FairSpec
CONSTANTS
    Streams = {s1, s2}
    Pollers = {c1}
    BufferSize = 1
    Free = Free
PROPERTY OnlyItsReaderStalls
CHECK_DEADLOCK FALSE
