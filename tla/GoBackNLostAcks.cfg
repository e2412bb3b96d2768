\* More packets than the window holds: the ACKs of a full window get lost.
SPECIFICATION FairSpec
CONSTANTS
    A = a
    B = b
    Traffic <- WindowPlusOne
    MaxInFlight = 3
    MAX_SEQ = 3
    NR_BUFS = 2
PROPERTIES
    EventuallyAllDelivered
\* The system stops when both network layers have nothing left to send.
CHECK_DEADLOCK FALSE
