\* Blocks of three samples over buffers of four, six calls.
SPECIFICATION Spec
CONSTANTS
    Sources <- MCSources
    BlockSamples = 3
    BufferSamples = 4
    MaxCalls = 6
INVARIANTS
    TypeOK
    InOrder
    EndIsComplete
PROPERTIES
    ReadReturns
