\* Sample rates of one to twelve times the symbol rate.
SPECIFICATION Spec
CONSTANTS
    Pairs = 2
    SymbolRate = 10240000
    CommandLines <- MCStart
    Configs <- MCMultiples
    MaxSignals = 0
INVARIANTS
    BlockFits
