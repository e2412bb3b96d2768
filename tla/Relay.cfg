\* Three identifiers that come round again; any send may fail.
SPECIFICATION FairSpec
CONSTANTS
    alice = alice
    bob = bob
    plain = plain
    other = other
    home = home
    bad = bad
    Query <- Mixed
    table <- BlockOther
    Name = {plain, other}
    Ipv4 = {i1, i2}
    MaxTtl = 1
    capacity = 1
    None = None
    MaxId = 3
    MAX_PENDING = 2
    TIMEOUT = 2
    SendMayFail = TRUE
    Lifetime = 2
    MaxForwards = 4
INVARIANTS
    IInv
    AnswersFindTheirQuery
    ReplyMatchesQuery
    PendingAwaitsAnswer
    CacheIsVouchedFor
PROPERTIES
    LateAnswersDropped
    RoomReturns
\* The loop of relay_run may end.
CHECK_DEADLOCK FALSE
