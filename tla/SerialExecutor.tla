--------------------------- MODULE SerialExecutor ---------------------------
(***************************************************************************)
(* What PostOnNamedThread (native/sdk .. JQNamedThread.h) promises: the    *)
(* closures posted under one name run one at a time, in the order they     *)
(* were posted, and each of them does, unless no thread could be made for  *)
(* the name.  Module NamedThread implements it with threads that come and  *)
(* go.                                                                     *)
(***************************************************************************)
EXTENDS Sequences

CONSTANTS Names, Closures, None

VARIABLES
    backlog,    \* per name: closures posted and not begun
    active,     \* per name: the closure that runs, or None
    stalled     \* names that nothing serves

vars == <<backlog, active, stalled>>

Init ==
    /\ backlog = [n \in Names |-> <<>>]
    /\ active = [n \in Names |-> None]
    /\ stalled = {}

\* Only a name that has nothing to do can turn out to have no thread.
Post(n, c) ==
    /\ backlog' = [backlog EXCEPT ![n] = Append(@, c)]
    /\ \/ UNCHANGED stalled
       \/ /\ backlog[n] = <<>> /\ active[n] = None
          /\ stalled' = stalled \cup {n}
    /\ UNCHANGED active

Begin(n) ==
    /\ n \notin stalled
    /\ active[n] = None /\ backlog[n] # <<>>
    /\ active' = [active EXCEPT ![n] = Head(backlog[n])]
    /\ backlog' = [backlog EXCEPT ![n] = Tail(@)]
    /\ UNCHANGED stalled

Finish(n) ==
    /\ active[n] # None
    /\ active' = [active EXCEPT ![n] = None]
    /\ UNCHANGED <<backlog, stalled>>

Next ==
    \E n \in Names :
        \/ \E c \in Closures : Post(n, c)
        \/ Begin(n)
        \/ Finish(n)

Spec ==
    /\ Init /\ [][Next]_vars
    /\ \A n \in Names : WF_vars(Begin(n)) /\ WF_vars(Finish(n))
=============================================================================
