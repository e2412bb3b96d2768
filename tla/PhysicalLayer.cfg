\* Two frames of one byte, which the queue can not hold both, and two hits of noise;
\* a block can hold the end of one frame and all of the next.  A timer runs for
\* no longer than start_timer adds for the queue; a connection that takes nothing
\* for MaxLag outlasts it.
SPECIFICATION Spec
CONSTANTS
    Attempts = 2
    FrameLen = 1
    MaxFrames = 2
    SQ_SIZE = 8
    RATE = 2
    LINE_TIME = 1
    TIMER = 0
    CHAN_DELAY = 1
    BLKSIZE = 6
    PHL_SQ_LEVEL = 4
    MaxLag = 2
    MaxHits = 2
    None = None
INVARIANTS
    FramesInOrder
    Resynchronises
PROPERTIES
    TimersOutlastQueue
\* What A sends is bounded.
CHECK_DEADLOCK FALSE
