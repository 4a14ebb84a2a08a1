\* Blocks of four samples for four channels, an SA table of two rows, a frame
\* counter of 32 values that overflows after four blocks and again after twelve.
SPECIFICATION Spec
CONSTANTS
    Samples = 4
    Groups = 1
    SAFrames = 2
    SAOffset = 1
    Word = 32
    Scales <- MCScales
    MaxBlocks = 13
INVARIANTS
    DelayedByTwoBlocks
    ScaleAnnouncedBefore
    SAInOrder
