---------------------------- MODULE CheckPromise ----------------------------
(***************************************************************************)
(* What checkPortal (ui/src/services/detect.js) promises its caller: one   *)
(* portal check is a promise that is settled exactly once, with "aborted"  *)
(* when the caller has set the abort flag of its signal before, and with   *)
(* one of the three verdicts otherwise.  Module Detect implements it.      *)
(***************************************************************************)

VARIABLES
    result,     \* "none" until the promise is settled
    aborted     \* signal.aborted, set by the caller at any time

vars == <<result, aborted>>

Verdicts == {"free", "portal", "offline"}

Init == result = "none" /\ aborted = FALSE

\* The caller leaves the page or starts another check.
Abort ==
    /\ ~aborted
    /\ aborted' = TRUE
    /\ UNCHANGED result

Settle ==
    /\ result = "none"
    /\ result' \in IF aborted THEN {"aborted"} ELSE Verdicts
    /\ UNCHANGED aborted

Next == Abort \/ Settle

\* The promise is settled, whatever the network and the caller do.
Spec == Init /\ [][Next]_vars /\ WF_vars(Settle)
=============================================================================
