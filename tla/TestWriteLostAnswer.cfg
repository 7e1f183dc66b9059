\* The module switches the coil, but its answer never arrives.
CONSTANTS
    Requests = {x1, x2}
    Outputs = {led, valve}
    SafeState <- LedOffValveOn
    led = led
    Timeouts = {1, 2}
    MaxNow = 3
    Faults = {"lost"}
SPECIFICATION Spec
INVARIANT NeverLeftEnergized
