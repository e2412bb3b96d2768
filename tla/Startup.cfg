\* Files of three lines, two chains, every failure and stop at every point.
SPECIFICATION FairSpec
CONSTANTS
    Word <- Words
    in_lower_case <- LowerCase
    without_dot <- DotTakenAway
    Address <- Addresses
    Bucket = {1, 2}
    hash <- Hash
    LINE_CAP = 4
    Argvs <- CommandLines
    Upstream = {"8.8.8.8"}
    Path <- Paths
    Disks <- FileSystems
    MaxPending = 2
    MaxDropped = 2
INVARIANTS
    NothingLeaks
    TableAsWritten
PROPERTIES
    StopEnds
\* The process ends.
CHECK_DEADLOCK FALSE
