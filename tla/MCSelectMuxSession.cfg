SPECIFICATION FairSpec
CONSTANTS
    c1 = c1
    c2 = c2
    Client = {c1, c2}
    MaxClients = 2
    Long = 2
    Short = 1
    MaxCommands <- Commands
    None = None
CHECK_DEADLOCK FALSE
PROPERTIES LinesRead
