CONSTANTS
    Files <- MixedFiles
    Readable <- TwoAndAHalf
    List <- TwoTypes
    Fitting <- OneFitting
    MaxCams = 2
SPECIFICATION Spec
INVARIANTS TypeOK FailureKeepsCameras ClientHasServer OneCameraPerEntry ListCalibrationFits
