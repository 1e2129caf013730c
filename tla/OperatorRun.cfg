\* One run of every kind with its agent, killed, restarted and reconciled at
\* any point.
\* A script that ended does not start again.
CHECK_DEADLOCK FALSE
SPECIFICATION FairSpec
CONSTANTS
    Runs = {r1}
    Attempts = 2
    None = None
INVARIANTS
    TypeOK
    EscrowKnown
    QualifiedIsEarned
PROPERTIES
    QualificationKept
    Finishes
