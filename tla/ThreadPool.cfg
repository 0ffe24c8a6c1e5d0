\* Three workers, two different requests, a list that refuses at its fourth request.
\* No symmetry: temporal properties.
CONSTANTS
    Workers = {w1, w2, w3}
    Main = main
    Requests = {r1, r2}
    NoRequest = NoRequest
    NoThread = NoThread
    m_max_requests = 2
    MaxSignals = 1
SPECIFICATION FairSpec
INVARIANTS
    TokenAccounting
PROPERTIES
    ImplementsRequestQueue
    EveryRequestTaken
\* The process ends when main() returns.
CHECK_DEADLOCK FALSE
