\* The poll thread runs beside the update; nobody edits the file.
CONSTANTS
    Contents = {good, other, dead, bad}
    Answering <- Responding
    Invalid = {bad}
    Initial = good
    MaxVersion = 3
    None = None
    Editing = FALSE
    Polling = TRUE
    Crashing = FALSE
    good = good
    other = other
    dead = dead
    bad = bad
SPECIFICATION Spec
PROPERTY ExactRollback
