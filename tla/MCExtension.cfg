INIT ExtensionInit
NEXT ExtensionNext
CONSTANTS
    t1 = t1
    t2 = t2
    t3 = t3
    f1 = f1
    f2 = f2
    o1 = o1
    o2 = o2
    k0 = k0
    k1 = k1
    k2 = k2
    k3 = k3
    ScriptValues <- MCValues
    MaxDepth = 2
    MaxFaults = 1
    Urls <- MCUrls
    Shapes <- MCShapes
    MaxAddresses = 2
    MaxRaw = 11
    ObjectTpls = {t1, t2, t3}
    Functions = {f1, f2}
    Objects = {o1, o2}
    Props = {"p"}
    Kinds = {"async", "method", "value"}
    Async = {"async"}
    Called = {"async", "method"}
    None = None
    Values = {v1, v2}
    Names = {"m", "n"}
    Default = "default"
    Self = Self
    MaxRefs = 3
    Wifis = {"A", "B"}
    Users = {"u1", "u2"}
    Wireless <- MCWireless
    FirstTexts <- MCTexts
    MaxCalls = 2
    MaxStarts = 2
    MaxJoins = 1
    MaxLines = 2
    MaxLogged = 5
    Keys = {k0, k1, k2, k3}
    CacheThreads = {c1, c2}
    SizeOf <- MCSizes
    Limits <- MCLimits
    Percents = {0, 50, 150}
    MaxResizes = 2
SYMMETRY Symmetric
INVARIANTS TextKeepsValue BodyHonest CallsAnswered ExportsBalanced StoreHonest LogIsRecent CacheHonest
CHECK_DEADLOCK FALSE
