\* Every mask up to 4 x 2, blocks in 4 x 5: the filter, the histogram, the threshold.
SPECIFICATION Spec
CONSTANTS
    SCAN_Y = 1
    SCAN_HEIGHT = 4
    COLOR_THRESHOLD_LOW <- MCLow
    COLOR_THRESHOLD_HIGH <- MCHigh
    MIN_DETECTION_THRESHOLD = 4
    Widths = {1, 2}
    Frames <- MCFrames
    MaxRuns = 1
INVARIANTS
    NoSpecks
    SolidBlocksSurvive
    NothingInvented
    FilterIsStable
    DrawnLineIsWhole
CHECK_DEADLOCK FALSE
