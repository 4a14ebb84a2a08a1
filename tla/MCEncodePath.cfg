\* Six blocks of two programmes, over the overflow of a frame counter of 512 values.
SPECIFICATION Spec
CONSTANTS
    Patterns = {"range", "single"}
    Audio <- MCAudio
    SATable <- MCSATable
    Word = 512
    MaxBlocks = 6
INVARIANTS
    Received
    CodesFarApart
    AudioReceived
