CONSTANTS
    NoVersion = NoVersion
    NotStrict = NotStrict
    MaxNumeric = 63
    MaxComponent = 3
    MaxLen = 14
    OutputLimit = 5
    Exact <- MCExact
    Printed <- MCPrinted
    NameOrder <- MCNameOrder
    Breaking = {"new line"}
    Hiding = {"hid den"}
    Projects <- MCProjects
    Documents <- MCDocuments
    Outputs <- MCOutputs
    Paths = {"path", "accepts "}

SPECIFICATION Spec

INVARIANTS
    TypeOK
    CaptureIsUnderstood
    AcceptedFilesAreUnambiguous
    IgnoredKeysAreReported
    VerdictsMeanTheDeclarations
    VersionIsTheWholeOutput
    ReportReadsBack
    ExitTwoIsUsage
