\* Two slots, three tickets each way: a lap and a half, with every thread a producer and a consumer.
SPECIFICATION FairSpec
CONSTANTS
    Producers = {a, b}
    Consumers = {a, b}
    Values = {v1, v2}
    SIZE = 2
    MaxTickets = 3
    NoValue = NoValue
INVARIANTS SlotExclusive TicketsHonoured
PROPERTIES TriesAreHonest ApproxSizeNotUnderstated ImplementsTicketQueue EveryMatchedTicketDelivered
CHECK_DEADLOCK FALSE
