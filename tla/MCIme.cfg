\* Two calls, each with its retry: four sessions, so that one has ended, one is
\* open and one waits for its timer.  Callbacks with and without a UUID.
CONSTANTS
    None = None
    Opens = {o1, o2}
SPECIFICATION Spec
INVARIANT SessionTended
PROPERTY TextIsOwn
PROPERTY Answered
CHECK_DEADLOCK FALSE
