CONSTANTS
    Users = {u1, u2, u3}
    NoUser = NoUser
    Requests = {r1, r2, r3}
    RegistrationEnabled = FALSE
SPECIFICATION Spec
SYMMETRY Symmetry
INVARIANTS TypeOK LockoutTakesOverlap
\* Requests are served once.
CHECK_DEADLOCK FALSE
