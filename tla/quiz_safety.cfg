CONSTANTS
    yes = yes
    no = no
    NoText = NoText
    NoSave = NoSave
    LastQuestion = 2
    Choices <- MCChoices
    Answer <- MCAnswer
    Limit = 3
    MaxScore = 15
    InitAttempts = 1
    InitHints = 0
    TimerOn = TRUE
    AttemptsOn = TRUE
    Inputs = {"touch", "voice", "camera"}
    MaxGames = 2
    MaxScheduled = 2
    MaxOverdraft = 1
    MaxShownScore = 10
SPECIFICATION Spec
INVARIANTS
    TypeOK
    ScoreConsistent
    WrongAnswersPaid
    SavedMatchesGame
    DisplayFresh
PROPERTIES
    KeepsLedger
    AttemptsRespected
    LastQuestionEnds
    CreditMovesOn
    TimeoutOnlyOnShown
CHECK_DEADLOCK FALSE
