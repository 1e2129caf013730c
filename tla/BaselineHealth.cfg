\* HealthBench: three handlers or scripts at once, two answers, two paid runs.
SPECIFICATION Spec
CONSTANTS
    Workers = {w1, w2, w3}
    Answers = {a1, a2}
    Runs = {r1, r2}
    SealedApart = TRUE
    None = None
SYMMETRY Symmetric
INVARIANTS
    TypeOK
    SealedBlind
    GradedIsCommitted
PROPERTIES
    ImplementsBlindTrial
