SPECIFICATION FairSpec
CONSTANTS
    echo = echo
    time = time
    file = file
    r1 = r1
    r2 = r2
    r3 = r3
    Service = {echo, time, file}
    Offered = {echo, time}
    Request = {r1, r2}
    To <- ToService
    Garbled = Garbled
    NoRequest = NoRequest
    QueueSize = 1
CHECK_DEADLOCK FALSE
INVARIANTS TypeOK RegistryConsistent WaitGroupExact StopIsFinal SeenNotOlder StatsExact
PROPERTIES ReadIsAnswered StopReturns
