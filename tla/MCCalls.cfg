\* Two objects with threads of their own or the module's, three calls: calls
\* of one thread and of two meet in the queue of the script thread.
CONSTANTS
    None = None
    Module = module
    Objects = {o1, o2}
    PerObject = {o2}
    WithCallback = {o2}
    MaxCalls = 3
SPECIFICATION Spec
INVARIANTS FunctionsHeld AnsweredInOrder
PROPERTY Answered
CHECK_DEADLOCK FALSE
