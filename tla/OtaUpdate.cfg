\* One update or cycle at a time, an editor, and a process that may die.
CONSTANTS
    Contents = {good, other, dead, bad}
    Answering <- Responding
    Invalid = {bad}
    Initial = good
    MaxVersion = 3
    None = None
    Editing = TRUE
    Polling = FALSE
    Crashing = TRUE
    good = good
    other = other
    dead = dead
    bad = bad
SPECIFICATION Spec
INVARIANT TypeOK
PROPERTIES RestoresExactly FailedIsGone
\* With a bad file at the last version the process stays down: nobody edits any more.
CHECK_DEADLOCK FALSE
