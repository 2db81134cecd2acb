\* Three threads, all of which promote; three strong pointers, so that one can be
\* dropped while two are promoted from the two weak ones.
CONSTANTS
    Strong = {s1, s2, s3}
    Weak = {w1, w2}
    Threads = {script, worker, slot}
    MaxStrays = 1
SPECIFICATION Spec
INVARIANTS OwnersFindIt DeletedOnce
PROPERTIES TricksTakeThree ImplementsShared
CHECK_DEADLOCK FALSE
