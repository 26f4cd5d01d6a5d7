\* Two pages, one with every button of both launchers, other consoles writing
\* the rule, starting the CPU incident and ending it.
SPECIFICATION Spec
CONSTANTS
    p1 = p1
    p2 = p2
    Operators = {p1, p2}
    Nobody = Nobody
    Menu <- Buttons
    OtherCommands = {"cpu", "reset"}
INVARIANTS TypeOK InjectHolds ResetHolds
PROPERTIES UnlockMeansClear
