\* One stream that two threads poll.
SPECIFICATION FairSpec
CONSTANTS
    Streams = {s1}
    Pollers = {c1, c2}
    BufferSize = 1
    Free = Free
INVARIANT PollNeverBlocks
CHECK_DEADLOCK FALSE
