\* Two processes, one thread each; three files are enough for the path and the
\* two temporary names, with one left over after a rename.
CONSTANTS
    w1 = w1
    w2 = w2
    p1 = p1
    p2 = p2
    Writers = {w1, w2}
    Pids = {p1, p2}
    Docs = {old, new}
    Initial = old
    Files = {f1, f2, f3}
    Home = f1
    NoFile = NoFile
    Empty = Empty
    Torn = Torn
    Pid <- TwoProcesses
SPECIFICATION WriteSpec
INVARIANTS WriteTypeOK NeverPartial
PROPERTY PublishesOwnDocument
