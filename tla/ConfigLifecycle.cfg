\* One handler or cycle at a time, an editor, crashes, rollbacks and bad documents.
CONSTANTS
    Poll = Poll
    Handlers = {h1}
    Contents = {a, b, bad}
    Valid <- Runnable
    Initial = a
    MaxVersion = 3
    None = None
    Torn = Torn
    Concurrent = FALSE
    Rollbacks = TRUE
    Editing = TRUE
    a = a
    b = b
    bad = bad
SPECIFICATION LiveSpec
INVARIANTS TypeOK KnownGood
PROPERTIES ImplementsStore AckedIsRunning Converges
\* With a bad file at the last version the process stays down: nobody edits any more.
CHECK_DEADLOCK FALSE
