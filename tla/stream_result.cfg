CONSTANTS
    Calls = {c1, c2}
    Kinds = {"stream"}
    Settings <- StreamSettings
    Answers <- MCAnswers
    MinLen = 2
    MaxLen = 2
    Window = 3
    MaxHold = 5
    MaxText = 1
    MaxPiece = 1
    MaxFaults = 0
SPECIFICATION Spec
PROPERTIES LastIsOwn
CHECK_DEADLOCK FALSE
