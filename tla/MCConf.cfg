\* Three lines of thirteen kinds after an empty one.
SPECIFICATION Spec
CONSTANTS
    Files <- MCFiles
    Lookups <- MCLookups
INVARIANTS
    TypeOK
    FoundAsDocumented
    ValueAsDocumented
PROPERTIES
    ParseEnds
