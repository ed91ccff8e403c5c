SPECIFICATION Spec
CONSTANTS
    Keys <- MCKeys
    Listed = TRUE
    MaxPending = 3
INVARIANTS
    TypeOK
    SwitchesTruthful
    SilentOutside
    VoiceStaysOn
    MicNeedsSetting
    OffHonoured
    MusicOff
    ThemeEnds
PROPERTIES
    CrashNeedsOverlap
