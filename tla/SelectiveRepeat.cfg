\* Both stations send, one past the wrap of the numbers.
SPECIFICATION Spec
CONSTANTS
    A = a
    B = b
    Traffic <- PastWrap
    MaxInFlight = 2
    MAX_SEQ = 3
    NR_BUFS = 2
INVARIANTS
    WindowAgrees
    ReceiveWindowOK
    IInv
PROPERTIES
    ImplementsReliableLink
\* The system stops when both network layers have nothing left to send.
CHECK_DEADLOCK FALSE
