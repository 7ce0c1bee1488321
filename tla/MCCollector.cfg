SPECIFICATION Spec
CONSTANTS
    QueueMax = 2
    MaxWait = 1
    EstopPort = TRUE
    MaxEvents = 1
CHECK_DEADLOCK FALSE
INVARIANTS TypeOK ParkedIsQuiet QuitDisarms
PROPERTIES SoftEngage ShutdownEnds
