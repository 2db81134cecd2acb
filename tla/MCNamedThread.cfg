\* Four closures under two names, one of them without a keep-alive time, and
\* four threads, so that a name loses its thread and gets another.
CONSTANTS
    None = None
    Names = {n1, n2}
    Lingering = {n1}
    Closures = {c1, c2, c3, c4}
    Threads = {t1, t2, t3, t4}
    CreateFails = TRUE
SPECIFICATION Spec
INVARIANTS OneAtATime NothingStranded NoMissedSignal
PROPERTY ImplementsSerial
CHECK_DEADLOCK FALSE
