\* A thousand names, and every channel in every mode with a neighbour.
SPECIFICATION ServiceSpec
CONSTANTS
    Tables <- MCTables
    Memory = {0, 255}
INVARIANTS
    NamesReceived
    TypesReceived
