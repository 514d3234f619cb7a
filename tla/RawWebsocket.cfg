\* An owner and another user, two texts: a second one waits in the queue.
SPECIFICATION FairSpec
CONSTANTS
    Users = {owner, other}
    Owner = owner
    MaxTexts = 2
INVARIANTS NoCallbackAfterClose TransportIsSound
PROPERTIES DropIsReported CallsEnd
CHECK_DEADLOCK FALSE
