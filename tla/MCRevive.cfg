CONSTANTS
    MinPosition = 0
    MaxPosition = 1
    MaxVelocity = 1
    MaxTorque = 1
    ErrorLimit = 1
    CommandTimeout = 1
    FeedbackTimeout = 1
    Wheels <- NoWheels
    Joints <- JointOnly
    MotorId <- JointIds
    Bus <- OneBus
    BusOf <- JointBus
    Position <- JointPosition
    Command <- JointCommand
    MaxInbox = 1
    MaxBlock = 2
    CanRestart = FALSE
SPECIFICATION Spec
PROPERTY OnlyEnableRevives
