\* The page started in every way, with a choice of servers, adapters
\* and accounts; two events by user and system.
CONSTANTS
    None = None
    Servers = {s1, s2}
    Adapters = {a1, a2}
    First = a1
    CanStat = {a1}
    CanLogout = {a1, a2}
    CanManage = {a1}
    Creds = {c1}
    Launches <- AllLaunches
    Accounts <- EmptyStore
    MaxEvents = 2
SPECIFICATION Spec
PROPERTIES SavedForItsServer CallbackDelivered BusyResolves
CHECK_DEADLOCK FALSE
