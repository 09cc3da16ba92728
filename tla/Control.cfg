\* Commands one at a time, commands and an interface at once, and the screens of the
\* interface.  Tasks are bounded, so the system may stop.
CONSTANTS
    c1 = c1  i1 = i1
    Commands = {c1}
    Interfaces = {i1}
    RELAXED = RELAXED  BALANCED = BALANCED
    Policies = {RELAXED, BALANCED}
    DefaultPolicy = BALANCED
    Absent = Absent
    Corrupt = Corrupt
    Down = Down
    Free = Free
    Asked = Asked
    Scenes = {"careful", "free", "screens"}
    MaxEdits = 1
    MaxDone = 2
    MaxChanges = 2
    Rows = {0, 2, 3}
    PageSize = 2
    MaxDepth = 12
SPECIFICATION MCSpec
CHECK_DEADLOCK FALSE
INVARIANTS
    ActiveWasConfirmed
    SettingsArrive
    EmergencyLasts
    NavigationSound
    OwnSettingsShown
PROPERTY RefreshKeepsAim
