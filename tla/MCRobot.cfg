CONSTANTS
    MinPosition = 0
    MaxPosition = 1
    MaxVelocity = 1
    MaxTorque = 1
    ErrorLimit = 1
    CommandTimeout = 0
    FeedbackTimeout = 0
    Wheels <- LeftWheel
    Joints <- JointOnly
    MotorId <- RobotIds
    Bus <- TwoBuses
    BusOf <- RobotBus
    Position <- Still
    Command <- RobotCommand
    MaxInbox = 1
    MaxBlock = 1
    CanRestart = TRUE
SPECIFICATION Spec
CONSTRAINT ArrivesLate
INVARIANTS
    EStopHoldsStill
    ArmedIsStill
PROPERTIES
    StartsOnlyOnAcceptedTarget
    ImplementsSafeMotion
