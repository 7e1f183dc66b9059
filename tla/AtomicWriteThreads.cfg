\* Two threads of one process, as the Flask handlers and the poll thread are.
CONSTANTS
    w1 = w1
    w2 = w2
    p1 = p1
    p2 = p2
    Writers = {w1, w2}
    Pids = {p1}
    Docs = {old, new}
    Initial = old
    Files = {f1, f2, f3}
    Home = f1
    NoFile = NoFile
    Empty = Empty
    Torn = Torn
    Pid <- TwoThreads
SPECIFICATION WriteSpec
INVARIANT NeverPartial
