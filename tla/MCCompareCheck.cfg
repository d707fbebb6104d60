CONSTANTS
    NoVersion = NoVersion
    NotStrict = NotStrict
    MaxNumeric = 63
    MaxComponent = 3
    MaxLen = 14
    Texts <- MCTexts
    Observations <- MCObservations

SPECIFICATION Spec

INVARIANTS
    ConsumersAgree
    ReleasesAreDecided
    NoVerdictWithoutEvidence
    SpellingIsIrrelevant
