\* Small limits for the messages, so that they reach them; every bit of any two
\* bytes of the line.
SPECIFICATION BytesSpec
CONSTANTS
    DNS_NAME_JUMP_MAX = 2
    NAME_CAP = 6
    UDP_BUF_SIZE = 38
    Garbage <- Rests
    Job <- Jobs
    Dropped = Dropped
    Bad = Bad
    Traffic <- MCTraffic
    FrameBuffer = 13
    HitBits = {0, 1, 2, 3, 4, 5, 6, 7}
    MaxHits = 2
    None = None
INVARIANTS
    InBounds
    NamesAsDefined
    ResultAsDefined
    RemainderOfPolynomial
    TakesWhatWasPut
PROPERTIES
    Terminates
\* The work on a datagram ends, and so does that on the frames.
CHECK_DEADLOCK FALSE
