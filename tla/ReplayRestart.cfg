\* One update dies with the lock, two more wait for it.
SPECIFICATION Spec
CONSTANTS
    Updates = {u1, u2, u3}
    None = None
SYMMETRY Symmetric
INVARIANTS
    AdmittedOnce
CHECK_DEADLOCK FALSE
