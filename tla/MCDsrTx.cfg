\* Every table of up to three [channel] sections, every way to start and to end,
\* up to two signals at any time.
SPECIFICATION Spec
CONSTANTS
    Pairs = 2
    SymbolRate = 10240000
    CommandLines <- MCCommandLines
    Configs <- MCConfigs
    MaxSignals = 2
INVARIANTS
    FirstComeFirstServed
    SourcesInTheirSlots
    AnnouncedIsSent
    ClosedAtEnd
    NoBlockLost
PROPERTIES
    SignalEnds
