\* The statement of the source does not hold: TLC shows the counterexample.
CONSTANTS
    Fds = {1}
    Workers = {w1}
    MaxConns = 2
    MaxSends = 1
    MAX_FD = 2
    QueueLimit = 0
    Slots = 1
    Outcomes = {"file", "missing"}
CHECK_DEADLOCK FALSE
SPECIFICATION Spec
INVARIANT TimerClosesNoOther
