\* One handler or cycle at a time: saves and crashes, no rollback.
CONSTANTS
    Poll = Poll
    Handlers = {h1}
    Contents = {a, b, bad}
    Valid <- Runnable
    Initial = a
    MaxVersion = 4
    None = None
    Torn = Torn
    Concurrent = FALSE
    Rollbacks = FALSE
    Editing = FALSE
    a = a
    b = b
    bad = bad
SPECIFICATION Spec
INVARIANTS HistoryKept
