---------------------------- MODULE SharedObject ----------------------------
(***************************************************************************)
(* What the reference counted pointers promise (native/sdk .. utils/REF.h, *)
(* StrongPtr.h): an object is not deleted while somebody owns it.  An      *)
(* owner may make others; who has only a weak pointer becomes an owner, or *)
(* learns that the object is gone, in one step.  Module RefCount does so   *)
(* with two counters, on two threads always and on more until a promotion  *)
(* is tricked; the sets of references in module Calls are its owners.      *)
(***************************************************************************)
CONSTANTS Pointers

VARIABLES
    owners,     \* the strong pointers to the object
    alive       \* it is not deleted

vars == <<owners, alive>>

Init ==
    /\ \E p \in Pointers : owners = {p}
    /\ alive = TRUE

\* A copy of a strong pointer, or a promotion that comes in time.
Join(p) ==
    /\ owners # {} /\ p \notin owners
    /\ owners' = owners \cup {p}
    /\ UNCHANGED alive

Leave(p) ==
    /\ p \in owners
    /\ owners' = owners \ {p}
    /\ UNCHANGED alive

Delete ==
    /\ owners = {} /\ alive
    /\ alive' = FALSE
    /\ UNCHANGED owners

Next == Delete \/ \E p \in Pointers : Join(p) \/ Leave(p)

Spec == Init /\ [][Next]_vars
=============================================================================
