SPECIFICATION Spec
CONSTANTS
    Codecs = {"h264", "h265"}
    UnitsOf <- CameraUnits
    MaxUnits = 4
    MaxEncoded = 3
    MaxBytes = 8
INVARIANTS
    TypeOK
    OwnSetsWin
    PictureKept
    RestoredExactly
    ParsedExactly
