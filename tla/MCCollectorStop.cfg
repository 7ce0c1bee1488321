SPECIFICATION Spec
CONSTANTS
    QueueMax = 2
    MaxWait = 0
    EstopPort = FALSE
    MaxEvents = 1
CHECK_DEADLOCK FALSE
PROPERTIES UserMustReenable
