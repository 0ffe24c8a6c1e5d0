\* The statement of the source does not hold: TLC shows the counterexample.
CONSTANTS
    Timers = {t1, t2}
    NULL = NULL
    Capacity = 2
    TIMESLOT = 1
    UIntRange = 64
    MaxTime = 6
SPECIFICATION Spec
INVARIANT AlarmKeepsComing
CHECK_DEADLOCK FALSE
