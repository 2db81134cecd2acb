------------------------------ MODULE RefCount ------------------------------
(***************************************************************************)
(* REF_BASE, weakref_impl, sp and wp (native/sdk .. utils/REF.h,           *)
(* StrongPtr.h): one object, the counters it shares with its weak          *)
(* pointers, and the pointers of several threads.  Every access to a       *)
(* counter is one atomic operation (jquick_atomic_inc and _dec return the  *)
(* previous value) and every such operation is a step of its own.          *)
(*                                                                         *)
(* Every thread may promote: in the SDK the methods of an object do on     *)
(* their named thread (JQFunctionTemplate.h:106), the script thread does   *)
(* for the same object (JQFuncDef.cpp:179, 233), and a slot on the thread  *)
(* of its handler (JQSignal.h:159).  An attempt raises the strong count    *)
(* before it knows, so a second one may take a failing attempt's count for *)
(* an owner's: it is "misled".  It mostly gets NULL all the same, and the  *)
(* counts it has raised stay.  Only while a third thread is between its    *)
(* last release and the clearing of m_ref does it get the object.          *)
(***************************************************************************)
EXTENDS Integers, FiniteSets

CONSTANTS
    Strong,     \* sp objects
    Weak,       \* wp objects
    Threads,
    MaxStrays   \* bound: promotions begin while fewer counts were left behind

ASSUME PointerAssumption ==
    /\ IsFiniteSet(Strong) /\ IsFiniteSet(Weak)
    /\ Strong \cap Weak = {}
    /\ MaxStrays \in Nat

VARIABLES
    strong,     \* m_strongrefCount
    weak,       \* m_weakrefCount
    ref,        \* m_ref is not NULL
    object,     \* the object is not deleted
    counters,   \* the weakref_impl is not deleted
    state,      \* per pointer: null, held, or how far an operation on it is
    at,         \* per pointer: the thread it belongs to
    deletions,  \* how often delete has been called on the object
    strays,     \* promotions that were told yes and got NULL: their counts stay
    tricked     \* one was told yes without an owner, and got the object

vars == <<strong, weak, ref, object, counters, state, at, deletions, strays, tricked>>
told == <<strays, tricked>>

Pointers == Strong \cup Weak

Busy == {"copying", "promoting", "won", "misled", "lost", "losing", "last", "dropping",
         "droppingLast", "deleting", "raising", "raised", "lowering", "reading", "finding"}

\* Who has been counted as an owner.
Owners == {p \in Strong : state[p] \in {"copying", "held", "won", "raising", "raised", "lowering"}}

\* A thread is in the middle of at most one operation.
Free(t) == \A p \in Pointers : at[p] = t => state[p] \notin Busy

Holds(t, S) == \E p \in S : at[p] = t /\ state[p] = "held"

Init ==
    /\ strong = 1 /\ weak = 1
    /\ ref = TRUE /\ object = TRUE /\ counters = TRUE
    /\ at \in [Pointers -> Threads]
    /\ \E p \in Strong : state = [q \in Pointers |-> IF q = p THEN "held" ELSE "null"]
    /\ deletions = 0
    /\ strays = 0 /\ tricked = FALSE

Step(p, s) == state' = [state EXCEPT ![p] = s]

\* weakref_impl::deref_weak: the last one deletes the counters.
DerefWeak ==
    /\ weak' = weak - 1
    /\ counters' = IF weak = 1 THEN FALSE ELSE counters

-----------------------------------------------------------------------------
\* REF, behind the copies and assignments of sp.
CopyStrong(p) ==
    /\ p \in Strong /\ state[p] = "null"
    /\ Free(at[p]) /\ Holds(at[p], Strong)
    /\ strong' = strong + 1
    /\ Step(p, "copying")
    /\ UNCHANGED <<weak, ref, object, counters, at, deletions, told>>

Copied(p) ==
    /\ state[p] = "copying"
    /\ weak' = weak + 1
    /\ Step(p, "held")
    /\ UNCHANGED <<strong, ref, object, counters, at, deletions, told>>

\* UNREF, behind ~sp, clear and assignments: the one who takes the count to
\* zero clears m_ref and deletes.  The fault: a count of two is the last, too.
IsLastOfTwo(c) == c \in {1, 2}

IsLast(c) == c = 1

DropStrong(p) ==
    /\ p \in Strong /\ state[p] = "held" /\ Free(at[p])
    /\ strong' = strong - 1
    /\ Step(p, IF IsLast(strong) THEN "last" ELSE "dropping")
    /\ UNCHANGED <<weak, ref, object, counters, at, deletions, told>>

ClearRef(p) ==
    /\ state[p] = "last"
    /\ ref' = FALSE
    /\ Step(p, "droppingLast")
    /\ UNCHANGED <<strong, weak, object, counters, at, deletions, told>>

Dropped(p) ==
    /\ state[p] \in {"dropping", "droppingLast"}
    /\ DerefWeak
    /\ Step(p, IF state[p] = "dropping" THEN "null" ELSE "deleting")
    /\ UNCHANGED <<strong, ref, object, at, deletions, told>>

Delete(p) ==
    /\ state[p] = "deleting"
    /\ object' = FALSE
    /\ deletions' = deletions + 1
    /\ Step(p, "null")
    /\ UNCHANGED <<strong, weak, ref, counters, at, told>>

\* Assignments of sp, also of a pointer to itself: the new object is counted
\* before the old one is released.
Assign(p) ==
    /\ p \in Strong /\ state[p] = "held" /\ Free(at[p])
    /\ strong' = strong + 1
    /\ Step(p, "raising")
    /\ UNCHANGED <<weak, ref, object, counters, at, deletions, told>>

Raised(p) ==
    /\ state[p] = "raising"
    /\ weak' = weak + 1
    /\ Step(p, "raised")
    /\ UNCHANGED <<strong, ref, object, counters, at, deletions, told>>

Lower(p) ==
    /\ state[p] = "raised"
    /\ strong' = strong - 1
    /\ Step(p, IF IsLast(strong) THEN "last" ELSE "lowering")
    /\ UNCHANGED <<weak, ref, object, counters, at, deletions, told>>

Lowered(p) ==
    /\ state[p] = "lowering"
    /\ DerefWeak
    /\ Step(p, "held")
    /\ UNCHANGED <<strong, ref, object, at, deletions, told>>

\* The copies of wp, from a pointer of either kind.
CopyWeak(p) ==
    /\ p \in Weak /\ state[p] = "null"
    /\ Free(at[p]) /\ Holds(at[p], Pointers)
    /\ weak' = weak + 1
    /\ Step(p, "held")
    /\ UNCHANGED <<strong, ref, object, counters, at, deletions, told>>

DropWeak(p) ==
    /\ p \in Weak /\ state[p] = "held" /\ Free(at[p])
    /\ DerefWeak
    /\ Step(p, "null")
    /\ UNCHANGED <<strong, ref, object, at, deletions, told>>

\* Assignments of wp from an sp or a T*, in the same order.
AssignWeak(p) ==
    /\ p \in Weak /\ state[p] = "held" /\ Free(at[p]) /\ Holds(at[p], Strong)
    /\ weak' = weak + 1
    /\ Step(p, "lowering")
    /\ UNCHANGED <<strong, ref, object, counters, at, deletions, told>>

\* Assignments of wp from a wp, to one that refers to something or to nothing:
\* other.get() looks whether the object is there, and nothing owns it meanwhile.
AssignFromWeak(p) ==
    /\ p \in Weak /\ state[p] \in {"null", "held"} /\ Free(at[p]) /\ Holds(at[p], Weak)
    /\ \/ ref /\ Step(p, IF state[p] = "held" THEN "reading" ELSE "finding")
       \/ ~ref /\ state[p] = "held" /\ Step(p, "dropping")
    /\ UNCHANGED <<strong, weak, ref, object, counters, at, deletions, told>>

\* get_weak_impl() reads the object.  What it reads when the object has gone in
\* between is not followed: the thread stays there.
Reach(p) ==
    /\ p \in Weak /\ state[p] \in {"reading", "finding"} /\ object
    /\ weak' = weak + 1
    /\ Step(p, IF state[p] = "reading" THEN "lowering" ELSE "held")
    /\ UNCHANGED <<strong, ref, object, counters, at, deletions, told>>

\* promote: attempt_refStrong, and a new sp if it succeeds.  The faults: the
\* comparison is off by one; the weak count of a failure is not given back.
Promote(p) ==
    /\ p \in Strong /\ state[p] = "null" /\ strays < MaxStrays
    /\ Free(at[p]) /\ Holds(at[p], Weak)
    /\ weak' = weak + 1
    /\ Step(p, "promoting")
    /\ UNCHANGED <<strong, ref, object, counters, at, deletions, told>>

SucceedsAlways(c) == c >= 0

Succeeds(c) == c >= 1

Attempt(p) ==
    /\ state[p] = "promoting"
    /\ strong' = strong + 1
    /\ Step(p, IF ~Succeeds(strong) THEN "lost" ELSE IF Owners # {} THEN "won" ELSE "misled")
    /\ UNCHANGED <<weak, ref, object, counters, at, deletions, told>>

\* get(): an sp of NULL, if m_ref is cleared already, has nothing to release.
Won(p) ==
    /\ state[p] \in {"won", "misled"}
    /\ Step(p, IF ref THEN "held" ELSE "null")
    /\ strays' = IF ref THEN strays ELSE strays + 1
    /\ tricked' = (tricked \/ (ref /\ state[p] = "misled"))
    /\ UNCHANGED <<strong, weak, ref, object, counters, at, deletions>>

LostWithoutWeak(p) ==
    /\ state[p] = "lost"
    /\ Step(p, "losing")
    /\ UNCHANGED <<strong, weak, ref, object, counters, at, deletions, told>>

Lost(p) ==
    /\ state[p] = "lost"
    /\ DerefWeak
    /\ Step(p, "losing")
    /\ UNCHANGED <<strong, ref, object, at, deletions, told>>

Undone(p) ==
    /\ state[p] = "losing"
    /\ strong' = strong - 1
    /\ Step(p, "null")
    /\ UNCHANGED <<weak, ref, object, counters, at, deletions, told>>

\* A closure carries a pointer to another thread.
Carry(p, t) ==
    /\ state[p] = "held" /\ Free(at[p])
    /\ at' = [at EXCEPT ![p] = t]
    /\ UNCHANGED <<strong, weak, ref, object, counters, state, deletions, told>>

Operate(p) ==
    \/ CopyStrong(p) \/ Copied(p)
    \/ DropStrong(p) \/ ClearRef(p) \/ Dropped(p) \/ Delete(p)
    \/ Assign(p) \/ Raised(p) \/ Lower(p) \/ Lowered(p)
    \/ CopyWeak(p) \/ DropWeak(p) \/ AssignWeak(p) \/ AssignFromWeak(p) \/ Reach(p)
    \/ Promote(p) \/ Attempt(p) \/ Won(p) \/ Lost(p) \/ Undone(p)

Next == \E p \in Pointers : Operate(p) \/ \E t \in Threads : Carry(p, t)

Spec == Init /\ [][Next]_vars

-----------------------------------------------------------------------------
\* Types of the variables.  No count goes below zero.
TypeOK ==
    /\ strong \in Nat /\ weak \in Nat /\ strays \in Nat /\ deletions \in Nat
    /\ {ref, object, counters, tricked} \subseteq BOOLEAN
    /\ state \in [Pointers -> Busy \cup {"null", "held"}]
    /\ at \in [Pointers -> Threads]

\* Who owns the object can use it, also the one whose promote() has just
\* succeeded: m_ref is not cleared and the object not deleted behind a thread
\* that has been told it is there, unless a promotion was tricked before.  And
\* nobody, with a pointer of either kind or in the middle of an operation,
\* touches the counters after they are deleted, tricked or not.
OwnersFindIt ==
    /\ Owners # {} => tricked \/ (object /\ ref)
    /\ (\E p \in Pointers : state[p] \notin {"null", "deleting"}) => counters

\* The object is deleted by one thread only, and once, unless a promotion was
\* tricked; and when no pointer is left nothing is left: neither the object nor,
\* unless a promotion was told yes and got NULL, the counters.
DeletedOnce ==
    /\ deletions <= 1 \/ tricked
    /\ (\A p \in Pointers : state[p] \notin Busy) =>
         /\ (\A p \in Strong : state[p] = "null") => ~object
         /\ (\A p \in Pointers : state[p] = "null") /\ strays = 0 => ~counters

\* A promotion that meets no owner gets the object only if one thread is between
\* its last release and the clearing of m_ref (UNREF) and another in a promotion of
\* its own (attempt_refStrong): the script thread and one other trick each other
\* never, whatever each promotes and drops.
TricksTakeThree ==
    [][\A p \in Strong : state[p] # "misled" /\ state'[p] = "misled" /\ ref /\ ~tricked =>
         \E q, r \in Strong :
            /\ state[q] = "last" /\ state[r] \in {"lost", "losing", "misled"}
            /\ at[p] # at[q] /\ at[q] # at[r] /\ at[p] # at[r]]_vars

-----------------------------------------------------------------------------
\* Once a promotion is tricked nobody owns anything that is there.
Shared == INSTANCE SharedObject WITH
    Pointers <- Strong,
    owners <- IF tricked THEN {} ELSE Owners,
    alive <- object /\ ~tricked

\* A promotion succeeds or fails in one step, whatever the two counters do in
\* between, and the object goes when its last owner has; until a promotion is
\* tricked, which is a deletion here.
ImplementsShared == Shared!Spec
=============================================================================
