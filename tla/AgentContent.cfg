\* One console; two rounds per command (the code makes eight) and one write
\* that may be carried out after it was given up.
SPECIFICATION FairSpec
CONSTANTS
    Attempts = 2
    MaxLate = 1
INVARIANTS
    TypeOK
    NoDanglingSchedule
PROPERTIES
    SuccessIsReal
    CommandEnds
