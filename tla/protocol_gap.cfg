SPECIFICATION ProtocolSpec
CONSTANTS
    RingSize = 2
    MaxMade = 3
    MaxSent = 2
    MaxQueue = 2
    MaxLost = 2
    MaxRepeats = 1
INVARIANT GapIsSurvived
CHECK_DEADLOCK FALSE
