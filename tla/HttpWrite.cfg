SPECIFICATION Spec
CONSTANTS
    HeadLen = 2
    FileSizes <- MCFileSizes
    SendBuffer = 3
    MaxSent = 7
INVARIANTS
    PlainInOrder
    IovecsHoldRest
    MappedOnlyIfCut
PROPERTIES
    DoneWhenAllSent
    EveryResponseEnds
