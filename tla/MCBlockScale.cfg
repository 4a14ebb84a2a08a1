\* Blocks of three samples taken from the edges of the eight ranges.
SPECIFICATION ScaleSpec
CONSTANTS
    BlockSamples = 3
    Inputs <- MCInputs
INVARIANTS
    TypeOK
    NoOverflow
    TightestRange
    ScaleInv
