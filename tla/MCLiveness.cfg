CONSTANTS
    MinPosition = 0
    MaxPosition = 1
    MaxVelocity = 1
    MaxTorque = 1
    ErrorLimit = 1
    CommandTimeout = 1
    FeedbackTimeout = 1
    Wheels <- NoWheels
    Joints <- JointOnly
    MotorId <- JointIds
    Bus <- OneBus
    BusOf <- JointBus
    Position <- Still
    Command <- LiveCommand
    MaxInbox = 2
    MaxBlock = 1
    CanRestart = FALSE
SPECIFICATION FairSpec
PROPERTIES
    EStopTakesEffect
    SilenceBringsRest
    SilentMotorTrips
