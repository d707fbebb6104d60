CONSTANTS
    NoVersion = NoVersion
    NotStrict = NotStrict
    MaxNumeric = 2
    Names = {1, 2, 3}
    Supported = {1, 2}
    Constraints <- OneConstraint
    Printable <- FewPrintable
    PathLength = 1
    MaxServices = 1
    Environments = {FALSE, TRUE}
    MaxMachineChanges = 0

SPECIFICATION Spec

INVARIANTS
    TypeOK
    ReportIsComplete
    ExitCodeIsHonest

PROPERTIES
    KeepsContract
    Terminates
    InterruptedRunsShowNothing
