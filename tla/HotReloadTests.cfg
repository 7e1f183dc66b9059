\* One output that no rule acts on, and documents that keep it; all threads at once, two of
\* them cycling, and a bus and an event log that fail.
CONSTANTS
    Poll = Poll
    Handlers = {h1, h2}
    Cyclers = {Poll, h1}
    Points = {valve}
    Coils = {k2}
    None = None
    Configs = {base1, edited}
    Faults = {"refused", "unfiled"}
    Concurrent = TRUE
    First = base1
    RulePoints = {}
    CoilOf <- Places
    SafeState <- SafeStates
    Buildable <- CanBuild
    lamp = lamp
    valve = valve
    k1 = k1
    k2 = k2
    k3 = k3
    base1 = base1
    edited = edited
    moved = moved
    swapped = swapped
    dropped = dropped
    rewired = rewired
    version1 = version1
SPECIFICATION Spec
INVARIANTS TestsCovered
