\* Documents that move outputs but keep each and its safe state, one handler or cycle at a time.
CONSTANTS
    Poll = Poll
    Handlers = {h1}
    Cyclers = {Poll}
    Points = {lamp, valve}
    Coils = {k1, k2, k3}
    None = None
    Configs = {base1, moved, swapped, version1}
    Faults = {"refused"}
    Concurrent = FALSE
    First = base1
    RulePoints = {lamp, valve}
    CoilOf <- Places
    SafeState <- SafeStates
    Buildable <- CanBuild
    lamp = lamp
    valve = valve
    k1 = k1
    k2 = k2
    k3 = k3
    base1 = base1
    edited = edited
    moved = moved
    swapped = swapped
    dropped = dropped
    rewired = rewired
    version1 = version1
SPECIFICATION Spec
INVARIANTS OutputsCovered
