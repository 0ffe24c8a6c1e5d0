\* Four timers are the fewest with a node that has two children and a grandchild;
\* an array that is doubled twice.  No deadlock check: the clock stops.
\* Symmetry is sound: ImplementsTimerSet is a property of single steps.
CONSTANTS
    Timers = {t1, t2, t3, t4}
    NULL = NULL
    Capacity = 1
    TIMESLOT = 1
    UIntRange = 64
    MaxTime = 5
SPECIFICATION Spec
SYMMETRY TimerSymmetry
INVARIANTS
    HeapOrder
    EachTimerOnce
    NoneLeftBehind
    AlarmInTime
PROPERTY ImplementsTimerSet
CHECK_DEADLOCK FALSE
