CONSTANTS
    Users = {u1, u2}
    NoUser = NoUser
    Requests = {r1, r2}
    RegistrationEnabled = FALSE
SPECIFICATION Spec
INVARIANT AdminRemains
\* Requests are served once.
CHECK_DEADLOCK FALSE
