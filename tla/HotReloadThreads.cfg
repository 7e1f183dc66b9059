\* A working bus; the poll thread runs while a handler reloads.
CONSTANTS
    Poll = Poll
    Handlers = {h1}
    Cyclers = {Poll}
    Points = {lamp, valve}
    Coils = {k1, k2}
    None = None
    Configs = {base1, dropped}
    Faults = {}
    Concurrent = TRUE
    First = base1
    RulePoints = {lamp, valve}
    CoilOf <- Places
    SafeState <- SafeStates
    Buildable <- CanBuild
    lamp = lamp
    valve = valve
    k1 = k1
    k2 = k2
    k3 = k3
    base1 = base1
    edited = edited
    moved = moved
    swapped = swapped
    dropped = dropped
    rewired = rewired
    version1 = version1
SPECIFICATION Spec
INVARIANT DroppedOutputsSafe
