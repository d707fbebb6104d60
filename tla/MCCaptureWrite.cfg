CONSTANTS
    p1 = p1
    p2 = p2
    f1 = f1
    v1 = v1
    Writers = {p1, p2, f1}
    Forced = {f1}
    Loader = v1
    Mixes <- MCMixes
    MaxSwaps = 2

SPECIFICATION SharedSpec

INVARIANTS
    TypeOK
    OthersKeepTheirContents
    ForceIsAtomic
    SuccessMeansStored
    TemporariesRemoved
    ReplacedFileIsReadWhole
    OnlyThePathIsRead

PROPERTIES
    NeverOverwritesUnasked
    Terminates
    LoadTerminates
