SPECIFICATION Spec
CONSTANTS
    Width = 4
    Gap = 3
    MaxStep = 2
    Back = 2
    MaxTime = 40
INVARIANTS
    TypeOK
    SourcePace
    NoStepBack
