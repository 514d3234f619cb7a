\* Two requests, nobody else.
SPECIFICATION Spec
CONSTANTS
    Users = {u1}
    QUEUE = 1
    POOL = 1
    MaxCalls = 2
    MaxAccesses = 0
INVARIANT AcceptedIsSuccess
CHECK_DEADLOCK FALSE
