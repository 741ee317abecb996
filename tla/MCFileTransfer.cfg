SPECIFICATION Spec
CONSTANTS
    c1 = c1
    Client = {c1, c2}
    File = {a}
    Stored = {a}
    Blocks = 2
    Long = 2
    Short = 1
    MaxCommands <- Commands
    Window = 2
    None = None
CHECK_DEADLOCK FALSE
INVARIANTS TypeOK UploadInOrder  RepliesInOrder OnlyFrontMissing
