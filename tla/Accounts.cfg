\* A connection per worker, as main.c has it; unsigned int has 16 values here.
CONSTANTS
    Workers = {w1, w2}
    Main = main
    Conns = {c1, c2}
    NULL = NULL
    UINT_RANGE = 16
    MaxSignals = 1
    Names = {n1, n2}
    Passwords = {p1, p2}
    NoPassword = NoPassword
    EmptyPassword = EmptyPassword
    NoThread = NoThread
    NoForm = NoForm
    MaxRows = 2
    MaxTorn = 1
SPECIFICATION AccountsSpec
SYMMETRY AccountsSymmetry
INVARIANTS
    EachConnectionInOnePlace
    ReserveCountsList
    NeverPopsEmpty
    AlwaysConnected
    ConfirmedSurvivesRestart
    MapMatchesTable
    OneRowUnlessRaced
    RacesLoseNoRow
PROPERTIES
    ConfirmedLogsIn
\* A worker that pops the list DestroyPool() has cleared stops the process.
CHECK_DEADLOCK FALSE
