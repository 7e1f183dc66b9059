\* Two reloads at once leave attributes of different documents.
CONSTANTS
    Threads = {Poll, Web}
    Poll = Poll
    Points <- MCPoints
    Units <- MCUnits
    Hosts <- MCHosts
    None = None
    Docs <- MCDocs
    Start <- MCStart
    MaxReloads = 2
    ReloadsAtOnce = TRUE
    lamp = lamp
    valve = valve
    h1 = h1
    h2 = h2
SPECIFICATION Spec
INVARIANT Settled
