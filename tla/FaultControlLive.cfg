\* Two consoles that inject and reset the PostgreSQL incident, liveness.
SPECIFICATION FairSpec
CONSTANTS
    c1 = c1
    c2 = c2
    Operators = {c1, c2}
    Nobody = Nobody
    Menu <- RuleMenu
PROPERTIES EveryOperationEnds VmIsFreed
