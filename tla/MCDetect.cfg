\* Ticks of 250 ms: guard 4.7 s rounded up to 4.75 s, abort poll 250 ms.  The
\* request timeout is after the guard: detect.js by itself, whatever its
\* requests do.  The timers in the order of the program are those of
\* MCDetectNative.cfg.
CONSTANTS
    Probes = {p1, p2, p3}
    RaceDue = 21
    GuardDue = 19
    PollEvery = 1
    Horizon = 22
SPECIFICATION Spec
INVARIANTS VerdictHasCause AbortPrompt
PROPERTIES ImplementsPromise
CHECK_DEADLOCK FALSE
