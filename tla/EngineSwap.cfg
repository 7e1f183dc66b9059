\* Two threads, each doing anything the poll thread or a handler may do.
CONSTANTS
    Threads = {Poll, Web}
    Poll = Poll
    Points <- MCPoints
    Units <- MCUnits
    Hosts <- MCHosts
    None = None
    Docs <- MCDocs
    Start <- MCStart
    MaxReloads = 2
    ReloadsAtOnce = FALSE
    lamp = lamp
    valve = valve
    h1 = h1
    h2 = h2
SPECIFICATION Spec
INVARIANTS TypeOK LookupsForward Settled
PROPERTY ClosedIsRetired
