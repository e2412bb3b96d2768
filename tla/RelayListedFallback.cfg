\* A name list; a send may fail.
SPECIFICATION Spec
CONSTANTS
    alice = alice
    bob = bob
    plain = plain
    other = other
    home = home
    bad = bad
    Query <- Listed
    table <- NameList
    Name = {plain, home, bad}
    Ipv4 = {i1}
    MaxTtl = 1
    capacity = 2
    None = None
    MaxId = 3
    MAX_PENDING = 2
    TIMEOUT = 2
    SendMayFail = TRUE
    Lifetime = 2
    MaxForwards = 4
INVARIANTS
    ListedNamesStayLocal
\* The loop of relay_run may end.
CHECK_DEADLOCK FALSE
