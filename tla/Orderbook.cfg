\* Three updates of two levels after the initial book, two slots and a buffer as
\* large: enough for a gap, a late snapshot, a dropped and a lost diff in one run.
SPECIFICATION FairSpec
CONSTANTS
    Levels = {l1, l2}
    SLOTS = 2
    BufferSize = 2
    SnapshotAttempts = 2
    MaxFailedSyncs = 2
    MaxUpdates = 4
INVARIANTS FollowedBookIsExchangeBook FlagsTellTheTruth SlotsConserved
PROPERTIES DestructorJoins DeadStreamReported
CHECK_DEADLOCK FALSE
