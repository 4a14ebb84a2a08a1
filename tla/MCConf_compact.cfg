\* The first line is a key without spaces.
SPECIFICATION Spec
CONSTANTS
    Files <- MCCompact
    Lookups <- MCLookups
INVARIANTS
    FoundAsDocumented
