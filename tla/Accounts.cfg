\* Three requests of any kind, two e-mails with or without an account, one key.
SPECIFICATION Spec
CONSTANTS
    Requests = {r1, r2, r3}
    Emails = {e1, e2}
    Keys = {k1}
    Comments = {None, text}
    Earlier = Earlier
    None = None
SYMMETRY Symmetry
INVARIANT SignupDecides
INVARIANT RevocationHolds
INVARIANT RatingStands
INVARIANT ErrorsNeedARace
\* Every request is sent once.
CHECK_DEADLOCK FALSE
