CONSTANTS
    MaxLines = 2
    MaxOutbox = 1
SPECIFICATION FairSpec
INVARIANT TypeOK
PROPERTIES
    RelayFollowsButton
    LastMessageArrives
    NoPhantomStop
