CONSTANTS
    yes = yes
    no = no
    NoText = NoText
    NoSave = NoSave
    LastQuestion = 1
    Choices <- MCChoices
    Answer <- MCAnswer
    Limit = 3
    MaxScore = 10
    InitAttempts = 1
    InitHints = 1
    TimerOn = TRUE
    AttemptsOn = TRUE
    Inputs = {"touch"}
    MaxGames = 2
    MaxScheduled = 1
    MaxOverdraft = 1
    MaxShownScore = 10
SPECIFICATION Spec
PROPERTY RestartIsFresh
CHECK_DEADLOCK FALSE
