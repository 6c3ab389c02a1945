SPECIFICATION FairSpec
CONSTANTS
    Filename <- InDirectory
    QueueSize = 2
    MaxVersion = 4
    MaxOther = 2
INVARIANTS NothingMissed
PROPERTIES KeepsLastGood Converges
\* Everything rests when the file stays as it is and no event is queued.
CHECK_DEADLOCK FALSE
