CONSTANTS
    NoVersion = NoVersion
    NotStrict = NotStrict
    MaxNumeric = 2
    Names = {1}
    Supported = {1}
    Constraints <- OneConstraint
    Printable <- TwoPrintable
    PathLength = 1
    MaxServices = 0
    Environments = {FALSE, TRUE}
    MaxMachineChanges = 0

SPECIFICATION Spec

INVARIANTS
    AbsentMeansNotInstalled
