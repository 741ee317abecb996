SPECIFICATION FairSpec
CONSTANTS
    Caller = {c1, c2}
    Request = {r1, r2}
    Blank = {r2}
    Socket = {k1, k2}
    None = None
CHECK_DEADLOCK FALSE
INVARIANTS TypeOK NoSendOnClosed MapExact AnswerIsMine
PROPERTIES CallsReturn ListenersEnd
