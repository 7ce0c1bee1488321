CONSTANTS
    MinPosition = 0
    MaxPosition = 1
    MaxVelocity = 1
    MaxTorque = 1
    ErrorLimit = 2
    CommandTimeout = 1
    FeedbackTimeout = 2
    Wheels <- NoWheels
    Joints <- JointOnly
    MotorId <- JointIds
    Bus <- OneBus
    BusOf <- JointBus
    Position <- JointPosition
    Command <- JointCommand
    MaxInbox = 1
    MaxBlock = 2
    CanRestart = TRUE
SPECIFICATION Spec
CONSTRAINT ArrivesLate
INVARIANTS
    TypeOK
    TargetsWithinRatings
PROPERTIES
    StartsOnlyOnAcceptedTarget
    NoLurch
    FaultIsSticky
