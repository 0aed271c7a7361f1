CONSTANTS
    Lists <- Full
    MaxFrames = 2
    MaxBad = 0
    Garbage = 0
SPECIFICATION FairStreamSpec
INVARIANT ReceivedAsSent
