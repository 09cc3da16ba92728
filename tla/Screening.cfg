\* A request delivered twice, with one daemon restart between any two steps; the
\* cache may forget the id in between, analysis threads may never end; no observation
\* is pruned.  Or observations are pruned at any time while no analysis fails, and one
\* request goes all the way to its feedback with a restart, or two go to their answers
\* without one.  Or one request, while the configuration is saved and reloaded and the
\* emergency switch is used.
\* All calls end, so the system may stop.
SPECIFICATION MCFairSpec
CONSTANTS
    c1 = c1
    d1 = d1
    d2 = d2
    Scenes = {"resent", "pruned", "changes"}
    Calls = {c1}
    Deliveries = {d1, d2}
    CallOf <- SameCall
    Detections <- MCDetections
    Configs <- MCConfigs
    Reloaders = {"sighup"}
    MaxChanges = 2
    MaxRestarts = 1
    NoResponse = NoResponse
CHECK_DEADLOCK FALSE
INVARIANTS
    ScreenedOnce
    ConfirmationsAreTrue
    BlocksAreObserved
    ScreeningCountersBalance
    ForbiddenNeverBlocks
PROPERTY RequestsAnswered
