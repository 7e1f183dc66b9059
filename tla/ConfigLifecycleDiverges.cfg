\* One handler that saves while the poll thread watches the file.
CONSTANTS
    Poll = Poll
    Handlers = {h1}
    Contents = {a, b, bad}
    Valid <- Runnable
    Initial = a
    MaxVersion = 3
    None = None
    Torn = Torn
    Concurrent = TRUE
    Rollbacks = FALSE
    Editing = FALSE
    a = a
    b = b
    bad = bad
SPECIFICATION LiveSpec
PROPERTY Converges
