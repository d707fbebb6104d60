CONSTANTS
    l = l
    d1 = d1
    d2 = d2
    Leader = l
    Descendants = {d1, d2}
    Elevating = {d2}
    Subreaper = TRUE
    PidOne = FALSE

SPECIFICATION Spec

INVARIANTS
    SweepIsExhaustive
