CONSTANTS
    NoVersion = NoVersion
    NotStrict = NotStrict
    MaxNumeric = 63
    MaxComponent = 3
    MaxLen = 14
    Texts <- NelTexts
    Observations <- MCObservations

SPECIFICATION Spec

INVARIANT PassMeansReadable
