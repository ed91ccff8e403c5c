CONSTANTS
    yes = yes
    no = no
    NoText = NoText
    NoSave = NoSave
    LastQuestion = 1
    Choices <- MCChoices
    Answer <- MCAnswer
    Limit = 3
    MaxScore = 10
    InitAttempts = 1
    InitHints = 1
    TimerOn = TRUE
    AttemptsOn = TRUE
    Inputs = {"touch", "voice"}
    MaxGames = 1
    MaxScheduled = 2
    MaxOverdraft = 1
    MaxShownScore = 10
SPECIFICATION FairSpec
INVARIANT HintKeepsAnswer
PROPERTIES
    FirstGameEnds
CHECK_DEADLOCK FALSE
