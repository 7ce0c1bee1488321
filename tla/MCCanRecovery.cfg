CONSTANTS
    Bus <- TwoBuses
    Polled <- PollTwo
    Threshold = 2
    SocketCooldown = 1
    LinkCooldown = 2
    MaxSocketAttempts = 2
    MaxLinkAttempts = 2
SPECIFICATION FairSpec
INVARIANTS
    TypeOK
    LostSocketStaysDue
PROPERTIES
    ClimbsLadder
    RemediesAreSpaced
    StuckBusForcesExit
