\* One request whose row cannot be stored, in ACTIVE mode.
\* All calls end, so the system may stop.
SPECIFICATION MCSpec
CONSTANTS
    c1 = c1
    d1 = d1
    d2 = d2
    Scenes = {"resent"}
    Calls = {c1}
    Deliveries = {d1}
    CallOf <- OneDelivery
    Detections <- MCDetections
    Configs <- ActiveOnly
    Reloaders = {}
    MaxChanges = 0
    MaxRestarts = 0
    NoResponse = NoResponse
CHECK_DEADLOCK FALSE
INVARIANT UnpersistedAllows
