\* Two requests, two accesses, one index or two and one place for active orders.
SPECIFICATION FairSpec
CONSTANTS
    Users = {u1, u2}
    QUEUE = 1
    POOL = 2
    MaxCalls = 2
    MaxAccesses = 2
INVARIANT ResultIsTrue
PROPERTIES StableWhileAccessed 
CHECK_DEADLOCK FALSE
