SPECIFICATION Spec
CONSTANTS
    Temps = {t1, t2, t3}
    MaxKeyframes = 5
    MaxExits = 2
    SlowDisk = FALSE
    None = None
SYMMETRY Symmetry
INVARIANTS
    TypeOK
    WholeFiles
PROPERTIES
    NeverOlder
    KeyframeKept
