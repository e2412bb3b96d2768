\* Both stations send, one past the wrap of the numbers.
SPECIFICATION FairSpec
CONSTANTS
    A = a
    B = b
    Traffic <- PastWrap
    MaxInFlight = 3
    MAX_SEQ = 3
    NR_BUFS = 2
INVARIANTS
    WindowOK
    IInv
PROPERTIES
    ImplementsReliableLink
    EventuallyDelivered
\* The system stops when both network layers have nothing left to send.
CHECK_DEADLOCK FALSE
