\* A pipe (exec) with repeat: the loop never comes back after the end.
SPECIFICATION Spec
CONSTANTS
    Sources <- MCPipeRepeated
    BlockSamples = 3
    BufferSamples = 4
    MaxCalls = 6
PROPERTIES
    RewindsOrEnds
