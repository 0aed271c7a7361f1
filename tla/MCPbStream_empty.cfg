CONSTANTS
    Lists <- WithEmpty
    MaxFrames = 2
    MaxBad = 1
    Garbage = 0
SPECIFICATION FairStreamSpec
PROPERTY ThreadComesBack
