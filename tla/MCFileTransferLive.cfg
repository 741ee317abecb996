SPECIFICATION FairSpec
CONSTANTS
    c1 = c1
    Client = {c1}
    File = {a, b}
    Stored = {a}
    Blocks = 2
    Long = 3
    Short = 0
    MaxCommands <- Commands
    Window = 2
    None = None
CHECK_DEADLOCK FALSE
PROPERTIES CommandsReturn
