\* Two handlers and the poll thread, rollbacks and crashes, in any order.
CONSTANTS
    Poll = Poll
    Handlers = {h1, h2}
    Contents = {a, bad}
    Valid <- Runnable
    Initial = a
    MaxVersion = 2
    None = None
    Torn = Torn
    Concurrent = TRUE
    Rollbacks = TRUE
    Editing = FALSE
    a = a
    b = b
    bad = bad
SPECIFICATION Spec
INVARIANTS KnownGoodOrTorn
\* With a torn file the process stays down.
CHECK_DEADLOCK FALSE
