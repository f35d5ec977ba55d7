SPECIFICATION Spec
CONSTANTS
    Users = {u1, u2}
    Admins = {u1}
PROPERTIES ClosedIsReadOnly
CHECK_DEADLOCK FALSE
