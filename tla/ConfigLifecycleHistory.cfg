\* One handler or cycle at a time: saves and rollbacks.
CONSTANTS
    Poll = Poll
    Handlers = {h1}
    Contents = {a, b, bad}
    Valid <- Runnable
    Initial = a
    MaxVersion = 3
    None = None
    Torn = Torn
    Concurrent = FALSE
    Rollbacks = TRUE
    Editing = FALSE
    a = a
    b = b
    bad = bad
SPECIFICATION Spec
INVARIANT HistoryKept
