\* Two consoles, every action, safety.
SPECIFICATION Spec
CONSTANTS
    c1 = c1
    c2 = c2
    Operators = {c1, c2}
    Nobody = Nobody
    Menu <- AllMenu
SYMMETRY Symmetry
INVARIANTS TypeOK InjectHolds ResetHolds VerdictMatches
