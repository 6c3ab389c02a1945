SPECIFICATION FairSpec
CONSTANTS
    Filename <- Bare
    QueueSize = 8
    MaxVersion = 3
    MaxOther = 1
PROPERTIES Converges
\* Everything rests when the file stays as it is and no event is queued.
CHECK_DEADLOCK FALSE
