\* Two admin requests at once, crashes anywhere.
CONSTANTS
    Handlers = {h1, h2}
    Concurrent = TRUE
    Fields = {line}
    Values = {x, y, z}
    BootIds = {b1, b2}
    None = None
    Absent = Absent
    Partial = Partial
    Mixed = Mixed
    Systems = {s1, s2, broken}
    Valid = {s1, s2}
    Factory = s1
    NoSystem = NoSystem
SYMMETRY Symmetry
SPECIFICATION Spec
INVARIANTS TypeOK BootIdFixed Traceable RecordedWasApplied
\* A unit whose first boot was cut off in the middle of write_text never starts.
CHECK_DEADLOCK FALSE
