SPECIFICATION Spec
CONSTANTS
    Caller = {user}
    Request = {r1, r2}
    Blank = {r2}
    Socket = {k1, k2}
    None = None
CHECK_DEADLOCK FALSE
INVARIANT QuickCommandsWork
