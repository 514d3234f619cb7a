\* Three slots, so that the decoder and the orderbook each hold one with one more
\* in the ring or in flight; room in bufferOut for them and for dropped events.
SPECIFICATION FairSpec
CONSTANTS
    SLOTS = 3
    BufferSize = 5
INVARIANTS SlotHasOneOwner AcquireFindsSlot
PROPERTY HolderReturns
