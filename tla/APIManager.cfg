\* Two streams with two pollers each; two threads that fetch, one place in a ring and in a side.
SPECIFICATION FairMCSpec
CONSTANTS
    Streams = {s1, s2}
    Pollers = {c1, c2}
    BufferSize = 2
    Free = Free
    Clients = {"owner", "book"}
    MaxRequests = 2
    RING = 1
    SIDE = 1
    MaxItems = 2
INVARIANTS ParserUsedAlone CounterIsExact AnswersItsOwnRequest DroppedIdleIsHidden HandedOverWhole
PROPERTIES ParserComesBack FetchesReturn
CHECK_DEADLOCK FALSE
