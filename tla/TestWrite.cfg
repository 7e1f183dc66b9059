\* Two requests that may hit the same output or two different ones, with short
\* and long timeouts, a bus that may refuse a write or lose its answer, and a database
\* that may refuse an event.
CONSTANTS
    Requests = {x1, x2}
    Outputs = {led, valve}
    SafeState <- LedOffValveOn
    led = led
    Timeouts = {1, 2}
    MaxNow = 3
    Faults = {"refused", "lost", "unlogged"}
SPECIFICATION LiveSpec
INVARIANTS TypeOK TestCovered
PROPERTIES RevertAttempted BackToSafe
