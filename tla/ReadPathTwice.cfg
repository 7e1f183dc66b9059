\* An OTA health check polls next to the poll loop.
CONSTANTS
    Values = {v1, v2}
    NoValue = NoValue
    Nothing = Nothing
    DebounceMs = 200
    PollIntervalMs = 100
    Cyclers = {poll, ota}
SPECIFICATION ReadSpec
INVARIANT LogMatches
