SPECIFICATION FairSpec
CONSTANTS
    MAX_EPOLL_EVENTS = 2
    TurnLimit = 2
    Listener = {"l1", "l2"}
    Listens <- MCListens
    Datagrams = {"full", "empty"}
    Waits = {"wait", "timed", "poll"}
    MaxArrive = 2
    MaxFeed = 1
INVARIANTS SleepsOnlyIdle LeftOnlyIfMissed
PROPERTIES SignalsAreTold
CHECK_DEADLOCK FALSE
