\* Scores on both sides of every threshold; counts up to the value where no signal looks
\* at them any more.  Three requests for two places of the replay cache, some of them
\* carrying a time to come.  A response ends its behavior, and so do the last observation
\* and the last moment.
SPECIFICATION MCSpec
CONSTANTS
    Detections <- MCDetections
    Configs <- MCConfigs
    NoResponse = NoResponse
    TotalCap = 10
    SuspiciousCap = 7
    BlockedCap = 4
    RecentCap = 5
    ReportsCap = 4
    AnomaliesCap = 1
    RiskScores = {0, 30, 40, 50, 55}
    TimelineBound = 5
    Ids = {q1, q2, q3}
    Times = {0, 1, 3}
    Lifetime = 2
    MaxEntries = 2
    LastMoment = 5
    MaxAccepted = 4
CHECK_DEADLOCK FALSE
INVARIANTS
    PartiesAgree
    ListsDecide
    NoAccusation
    EvidenceAddsUp
    TrendMirrored
    AcceptedIsKnown
PROPERTY OnlyWarrantedBlocks
