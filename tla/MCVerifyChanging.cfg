CONSTANTS
    NoVersion = NoVersion
    NotStrict = NotStrict
    MaxNumeric = 2
    Names = {1}
    Supported = {1}
    Constraints <- OneConstraint
    Printable <- TwoPrintable
    PathLength = 2
    MaxServices = 0
    Environments = {FALSE}
    MaxMachineChanges = 2

SPECIFICATION UntimedSpec

INVARIANTS
    VerdictsAreGrounded

PROPERTIES
    CancelStopsTheRun
