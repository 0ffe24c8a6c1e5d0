SPECIFICATION Spec
CONSTANTS
    HeadLen = 2
    FileSizes <- MCFileSizes
    SendBuffer = 3
    MaxSent = 7
INVARIANT
    LaterInOrder
