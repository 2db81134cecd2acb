CONSTANTS
    None = None
    Servers = {s1}
    Adapters = {a1}
    First = a1
    CanStat = {a1}
    CanLogout = {a1}
    CanManage = {a1}
    Creds = {c1}
    Launches <- PlainLaunch
    Accounts <- StoredAccounts
    MaxEvents = 2
SPECIFICATION Spec
PROPERTY LoginEnds
CHECK_DEADLOCK FALSE
