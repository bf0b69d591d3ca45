CONSTANTS
    Calls = {c1}
    Kinds <- MCKinds
    Settings <- MCSettings
    Answers <- MCAnswers
    MinLen = 2
    MaxLen = 2
    Window = 3
    MaxHold = 4
    MaxText = 6
    MaxPiece = 3
    MaxFaults = 2
SPECIFICATION Spec
INVARIANTS StreamIsWhole ActionIsTrue
CHECK_DEADLOCK FALSE
