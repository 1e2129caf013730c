\* YieldBench and RebalanceBench: the hash that seals the answer is in the
\* document a slow submit overwrites.
SPECIFICATION Spec
CONSTANTS
    Workers = {w1, w2}
    Answers = {a1, a2}
    Runs = {r1}
    SealedApart = FALSE
    None = None
INVARIANTS
    GradedIsCommitted
