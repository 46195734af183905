\* Two requests, two executions of the processor.
CONSTANTS
    MaxTime = 2
    MaxDelay = 1
    Attempts = 2
    Runs = {w1, w2}
    NoRun = noRun
    MaxEdits = 2
    Requests = {r1, r2}
    Never = never
SPECIFICATION FairLater
INVARIANTS FiresOnce ClaimedOnce
 
CHECK_DEADLOCK FALSE
