SPECIFICATION StoreSpec
CONSTANTS
    Wifis = {"A", "B"}
    Users = {"u1", "u2"}
    Wireless <- MCWireless
    FirstTexts <- MCTexts
    MaxCalls = 3
    MaxStarts = 2
    MaxJoins = 1
INVARIANTS SlotsApart
CHECK_DEADLOCK FALSE
