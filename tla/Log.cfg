\* A queue of two lines, a new file every third line, two midnights,
\* months of two days.
CONSTANTS
    Consumers = {writer}
    Items <- MCItems
    NoItem = NoItem
    m_max_size = 2
    m_split_lines = 3
    DaysInMonth = 2
    MaxLines = 6
    MaxDay = 2
SPECIFICATION Spec
INVARIANTS
    EachLineOnce
    OvertakesOnlyTheQueue
    FileOfItsDay
PROPERTIES
    ImplementsLineQueue
    EveryLineWritten
\* main() may return, and then nothing happens any more.
CHECK_DEADLOCK FALSE
