\* One thread polls; debounce_ms / poll_interval_ms = 5 readings, three values so that
\* a change of candidate is possible.
CONSTANTS
    Values = {v1, v2, v3}
    NoValue = NoValue
    Nothing = Nothing
    DebounceMs = 500
    PollIntervalMs = 100
    Cyclers = {poll}
SPECIFICATION ReadLiveSpec
INVARIANTS ReadTypeOK LogMatches
PROPERTIES ImplementsWindow SettledInputIsShown OutageIsLogged
