SPECIFICATION Spec
CONSTANTS
    Letters = {}
    Texts <- Lines
    KbdMax = 2
    InputMax = 3
    MaxPresses = 2
CHECK_DEADLOCK FALSE
INVARIANTS
    LinesWhole
    RekeyIsNew
    OneLineLost
