\* Two entries, three names of which two collide, three addresses of memory.
SPECIFICATION CacheSpec
CONSTANTS
    x = x
    y = y
    z = z
    X = X
    b1 = b1
    b2 = b2
    Name = {x, y, z}
    Spelling = {x, y, z, X}
    Ipv4 = {i1, i2}
    MaxTtl = 2
    capacity = 2
    Node = {n1, n2, n3}
    lru_sentinel = lru_sentinel
    NULL = NULL
    Bucket = {b1, b2}
    hash <- Hash
    lower <- Lower
INVARIANTS
    ListWellFormed
    ChainsHoldTheSame
PROPERTY
    ImplementsLruCache
SYMMETRY Symmetry
