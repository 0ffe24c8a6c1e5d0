\* Every outcome of process(), workers slower than the timers, one descriptor
\* for two clients.  No symmetry: temporal properties.
CONSTANTS
    Fds = {1}
    Workers = {w1, w2}
    MaxConns = 2
    MaxSends = 2
    MAX_FD = 1
    QueueLimit = 0
    Slots = 1
    Outcomes = {"more", "file", "error", "missing"}
CHECK_DEADLOCK FALSE
SPECIFICATION FairSpec
INVARIANTS
    TimerPointerSafe
    RegisteredHasTimer
PROPERTY EveryConnectionEnds
