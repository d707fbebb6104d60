CONSTANTS
    Versions <- MCVersions
    Entries <- MCEntries
    MaxEdits = 2

SPECIFICATION Spec

INVARIANTS
    TypeOK
    CaptureIsTheConjunction
    EvidenceWasDeclared
    PresentIsNeverAbsent
