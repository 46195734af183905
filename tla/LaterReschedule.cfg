\* One request at a time: a reminder is set, then moved.
CONSTANTS
    MaxTime = 2
    MaxDelay = 2
    Attempts = 2
    Runs = {w1}
    NoRun = noRun
    MaxEdits = 2
    Requests = {r1}
    Never = never
SPECIFICATION LaterSpec
INVARIANTS JobFollowsReminder
CHECK_DEADLOCK FALSE
