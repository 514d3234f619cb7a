\* Two attempts of a backoff, one place in bufferOut; one thread that sends requests.
SPECIFICATION FairMCSpec
CONSTANTS
    MaxTryCount = 2
    BufferSize = 1
    Clients = {"owner"}
    MaxRequests = 2
INVARIANTS ConnectsAlone RetriesPause RunningIsTrue OutcomeIsTrue
PROPERTIES ShutdownStopsLoop GetStatusReturns OutcomeIsReported
CHECK_DEADLOCK FALSE
