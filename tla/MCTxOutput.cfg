\* Three blocks of two kinds, all eight output types and a device, the standard
\* output or a file, any datagram or write of the device failing.
SPECIFICATION Spec
CONSTANTS
    Interpolation = 2
    Shape <- MCShape
    Room = 10
    Payload = 2
    Takes = {9, 24}
    Blocks <- MCBlocks
    MaxBlocks = 3
INVARIANTS
    WindowHoldsRest
    Headroom
    StreamFiled
    OctetsSent
