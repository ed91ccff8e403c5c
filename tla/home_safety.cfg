SPECIFICATION Spec
CONSTANTS
    NCategories = 5
    Draws <- MCDraws
    Touched <- MCTouched
    Named <- MCNamed
    Texts <- MCTexts
    MaxHomes = 2
    MaxPending = 3
    None = None
INVARIANTS
    TypeOK
    SilentWhenOff
    ListensWhileOn
    TabStored
    DailyQuizKept
    ScoreTimerStops
PROPERTIES
    CrashNeedsOverlap
    OneQuizAtATime
