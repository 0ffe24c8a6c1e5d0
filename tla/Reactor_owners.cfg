\* Two clients and two descriptors, so that one descriptor serves both in turn or
\* each has its own; a queue that refuses its second entry; workers that may be
\* slower than the timers, and files that may be missing.  With the alarm lost
\* and the clients done main() really waits for ever: no deadlock check.
CONSTANTS
    Fds = {1, 2}
    Workers = {w1, w2}
    MaxConns = 2
    MaxSends = 3
    MAX_FD = 2
    QueueLimit = 0
    Slots = 1
    Outcomes = {"more", "file", "missing"}
CHECK_DEADLOCK FALSE
SPECIFICATION Spec
SYMMETRY ReactorSymmetry
INVARIANTS
    OneOwner
    TimerClosesItsConnection
    CountIsOpen
    ReplyIsOwn
    BacklogAnnounced
