\* A client may wait for ever: after an error page, or for want of a body.
CHECK_DEADLOCK FALSE
SPECIFICATION Spec
CONSTANTS
    Requests <- MCRequests
    GetLines = {"GET /", "GET /2"}
    PostLines = {"POST /0", "POST /2"}
    NullLines = {"GET http://host"}
    FormUrls = {"GET /2", "POST /2"}
    Lengths <- MCLengths
    READ_BUFFER_SIZE = 14
    MaxUnread = 1
INVARIANTS
    UnderstoodAsSent
    CompleteUnlessSplit
PROPERTY
    EveryRequestUnderstood
