\* More packets than the window holds; noise ends, whenever it likes.
SPECIFICATION FairSpec
CONSTANTS
    A = a
    B = b
    Traffic <- WindowPlusOne
    MaxInFlight = 2
    MAX_SEQ = 3
    NR_BUFS = 2
PROPERTIES
    EventuallyAllDelivered
    EventuallyAllFreed
\* The system stops when both network layers have nothing left to send.
CHECK_DEADLOCK FALSE
