CONSTANTS
    MaxLines = 2
    MaxOutbox = 1
SPECIFICATION FairSpec
PROPERTY PressStopsRobot
