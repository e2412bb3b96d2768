\* Both stations send; at most three frames in flight before a timeout.
SPECIFICATION FairSpec
CONSTANTS
    A = a
    B = b
    Traffic <- BothWays
    MaxInFlight = 3
INVARIANTS
    IInv
    NeverStuck
PROPERTIES
    ImplementsReliableLink
    EventuallyAllDelivered
\* The system stops when both network layers have nothing left to send.
CHECK_DEADLOCK FALSE
