SPECIFICATION Spec
CONSTANTS
    NumJoints = 3
    NumBauds = 2
    VerifyTries = 2
    MaxLost = 2
    MaxSlips = 2
CHECK_DEADLOCK FALSE
INVARIANTS TypeOK AllGoodIsComplete AllGoodIsRight
PROPERTIES SetupConverges
