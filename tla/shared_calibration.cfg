CONSTANTS
    Files <- DocumentedFile
    Readable <- TwoAndAHalf
    List <- TwoTypes
    Fitting <- OneFitting
    MaxCams = 2
SPECIFICATION Spec
INVARIANT OwnCalibration
