\* Three requests with one proof; processes may die at any step.  Every update
\* may have ended: the system stops.
SPECIFICATION FairSpec
CONSTANTS
    Updates = {u1, u2, u3}
    None = None
INVARIANTS
    WinnerOwnsSlot
PROPERTIES
    Answered
CHECK_DEADLOCK FALSE
