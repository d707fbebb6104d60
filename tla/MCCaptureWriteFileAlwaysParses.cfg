CONSTANTS
    p1 = p1
    p2 = p2
    f1 = f1
    v1 = v1
    Writers = {p1}
    Forced = {}
    Loader = v1
    Mixes <- Alone
    MaxSwaps = 1

SPECIFICATION SharedSpec

INVARIANTS
    FileAlwaysParses
