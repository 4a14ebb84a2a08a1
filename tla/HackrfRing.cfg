\* Four buffers of three octets, blocks of seven octets converted in chunks of
\* four, transfers of five: the ring wraps twice and the device may be lost.
SPECIFICATION Spec
CONSTANTS
    Count = 4
    Length = 3
    BlockOctets = 7
    ChunkOctets = 4
    TransferOctets = 5
    MaxBlocks = 5
    DeviceMayVanish = TRUE
INVARIANTS
    NoSharedBuffer
    WholeBuffers
    NeverSpins
    BlockedMeansFull
    NoUseAfterFree
    RingInv
PROPERTIES
    StreamRefined
    BlockAccepted
    StreamAired
    AbortStops
\* The main thread stops for ever in pthread_mutex_lock when the device is lost
\* while the ring is full; AbortStops says that it stops nowhere else.
CHECK_DEADLOCK FALSE
