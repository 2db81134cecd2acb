\* Ticks of 250 ms: TIMEOUT 3.5 s, race 4 s, guard 4.7 s rounded up to 4.75 s,
\* native timeout 3 s, abort poll 250 ms.
CONSTANTS
    mi = mi
    vivo = vivo
    huawei = huawei
    Probes <- MCProbes
    Order <- MCOrder
    RaceDue = 16
    GuardDue = 19
    PollEvery = 1
    Horizon = 25
    SilentFor = 12
SPECIFICATION NativeSpec
INVARIANTS SettledByRace OfflineMeansAllFailed OneSilentProbeIsTolerated
PROPERTIES Spec
CHECK_DEADLOCK FALSE
