\* Every kind of document, one handler or cycle at a time, and a bus that fails.
CONSTANTS
    Poll = Poll
    Handlers = {h1}
    Cyclers = {Poll, h1}
    Points = {lamp, valve}
    Coils = {k1, k2}
    None = None
    Configs = {base1, dropped, rewired, version1}
    Faults = {"refused", "lost", "unfiled"}
    Concurrent = FALSE
    First = base1
    RulePoints = {lamp}
    CoilOf <- Places
    SafeState <- SafeStates
    Buildable <- CanBuild
    lamp = lamp
    valve = valve
    k1 = k1
    k2 = k2
    k3 = k3
    base1 = base1
    edited = edited
    moved = moved
    swapped = swapped
    dropped = dropped
    rewired = rewired
    version1 = version1
SPECIFICATION Spec
INVARIANTS TypeOK DroppedOutputsSafe OutputsCovered
PROPERTIES SwapFromSafe
