\* The page started from the launcher; four events by user and system.
CONSTANTS
    None = None
    Servers = {s1}
    Adapters = {a1}
    First = a1
    CanStat = {a1}
    CanLogout = {a1}
    CanManage = {a1}
    Creds = {c1}
    Launches <- PlainLaunch
    Accounts <- StoredAccounts
    MaxEvents = 4
SPECIFICATION Spec
INVARIANTS OneCurrentFlow AbortedIsStale QuietWhenOnline ActionsHaveTarget
CHECK_DEADLOCK FALSE
