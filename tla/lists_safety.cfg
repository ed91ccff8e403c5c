CONSTANTS
    Categories = {c1, c2}
    MaxRefreshes = 2
    None = None
    Blank = Blank
    Users = 2
    MaxBest = 1
    MaxLoads = 2
    MaxQueued = 3
    Absent = Absent
    Unplayed = Unplayed
    NoPlayer = NoPlayer
    Topics = {general, sport, science}
    Headlines = general
    Undrawn = science
    NoTopic = NoTopic
    MaxFetches = 2
SPECIFICATION Spec
INVARIANTS TypeOK LeagueCurrent TitleOfNews
PROPERTIES OverrunNeedsRefresh DetailOfTapped OpensTapped
CHECK_DEADLOCK FALSE
