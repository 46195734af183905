\* Two requests in flight of three in all, two executions of the processor.
CONSTANTS
    MaxTime = 2
    MaxDelay = 1
    Attempts = 2
    Runs = {w1, w2}
    NoRun = noRun
    MaxEdits = 3
    Requests = {r1, r2}
SYMMETRY Symmetry
SPECIFICATION SchedSpec
INVARIANTS PostsOnce PendingKeepsJob
CHECK_DEADLOCK FALSE
