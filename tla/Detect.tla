------------------------------- MODULE Detect -------------------------------
(***************************************************************************)
(* One call of checkPortal (ui/src/services/detect.js): three probe        *)
(* requests raced against each other, against the request layer's own      *)
(* timeout (raceTimeout of net.js, one timer per request), against the     *)
(* guard timer of the whole check and against the poll of the abort flag.  *)
(*                                                                         *)
(* Time is a count of ticks since the call.  A timer runs at the tick it   *)
(* is due: the clock waits for it (TimersQuiet), while everything due at   *)
(* the same tick runs in any order.                                        *)
(***************************************************************************)
EXTENDS Integers, FiniteSets

CONSTANTS
    Probes,     \* the probe sources, detect.js:30-34
    RaceDue,    \* tick at which raceTimeout rejects a silent request
    GuardDue,   \* tick of the guard timer of the whole check
    PollEvery,  \* period of the abort poll
    Horizon     \* bound of the clock

ASSUME ProbesAssumption == IsFiniteSet(Probes) /\ Probes # {}
ASSUME TimesAssumption ==
    /\ {RaceDue, GuardDue, PollEvery, Horizon} \subseteq Nat \ {0}
    /\ GuardDue < Horizon

VARIABLES
    now,        \* ticks since the call
    answer,     \* per probe: "waiting", or the class of its reply
    pending,    \* the code's counter of probes that have not failed
    ran,        \* timers of the check that have run at this tick
    aborted,    \* signal.aborted
    abortedAt,  \* tick at which the flag was set
    result      \* the settled value, "none" while the promise is pending

vars == <<now, answer, pending, ran, aborted, abortedAt, result>>

Kinds == {"redirect", "empty", "content", "error"}

-----------------------------------------------------------------------------
\* A reply of the request layer: ok is FALSE for a rejected request, moved
\* for a 3xx status with a Location header, bare for an empty body.
Replies == [ok : BOOLEAN, moved : BOOLEAN, bare : BOOLEAN]

Rejected == [ok |-> FALSE, moved |-> FALSE, bare |-> TRUE]

Classify(r) ==
    CASE ~r.ok  -> "error"
      [] r.ok /\ r.moved -> "redirect"
      [] r.ok /\ ~r.moved /\ r.bare -> "empty"
      [] OTHER -> "content"

\* What a reply that is not an error decides; and one that takes a captive
\* page without a redirect for a free connection.
VerdictLoose(kind) == IF kind = "redirect" THEN "portal" ELSE "free"
Verdict(kind) == IF kind = "empty" THEN "free" ELSE "portal"

-----------------------------------------------------------------------------
\* A check that starts its countdown one too low, and one too high.
InitShort ==
    /\ now = 0
    /\ answer = [p \in Probes |-> "waiting"]
    /\ pending = Cardinality(Probes) - 1
    /\ ran = {} /\ aborted = FALSE /\ abortedAt = 0 /\ result = "none"

InitLong ==
    /\ now = 0
    /\ answer = [p \in Probes |-> "waiting"]
    /\ pending = Cardinality(Probes) + 1
    /\ ran = {} /\ aborted = FALSE /\ abortedAt = 0 /\ result = "none"

Init ==
    /\ now = 0
    /\ answer = [p \in Probes |-> "waiting"]
    /\ pending = Cardinality(Probes)
    /\ ran = {} /\ aborted = FALSE /\ abortedAt = 0 /\ result = "none"

\* finish(): only the first verdict settles the promise; and any does.
FinishAgain(r) == result' = r
Finish(r) == result' = IF result = "none" THEN r ELSE result

\* The callback of a probe's request with reply r.
OnReply(p, r) ==
    LET kind == Classify(r) IN
    /\ answer[p] = "waiting"
    /\ answer' = [answer EXCEPT ![p] = kind]
    /\ IF aborted
         THEN Finish("aborted") /\ UNCHANGED pending
         ELSE IF kind # "error"
           THEN Finish(Verdict(kind)) /\ UNCHANGED pending
           ELSE /\ pending' = pending - 1
                /\ IF pending = 1 THEN Finish("offline") ELSE UNCHANGED result
    /\ UNCHANGED <<now, ran, aborted, abortedAt>>

\* The native request answers, or fails, before its race timer.
Respond(p) == \E r \in Replies : OnReply(p, r)

\* raceTimeout: the request has been silent for timeout * 1000 + 500 ms.
RaceTimeout(p) == now = RaceDue /\ OnReply(p, Rejected)

\* The guard timer: decide even if requests never return.
Guard ==
    /\ now = GuardDue /\ result = "none" /\ "guard" \notin ran
    /\ ran' = ran \cup {"guard"}
    /\ Finish(IF aborted THEN "aborted" ELSE "offline")
    /\ UNCHANGED <<now, answer, pending, aborted, abortedAt>>

\* A tick of the abort poll; and a poll that is a timeout, not an interval.
PollDueOnce == now = PollEvery
PollDue == now > 0 /\ now % PollEvery = 0

AbortPoll ==
    /\ PollDue /\ result = "none" /\ "poll" \notin ran
    /\ ran' = ran \cup {"poll"}
    /\ IF aborted THEN Finish("aborted") ELSE UNCHANGED result
    /\ UNCHANGED <<now, answer, pending, aborted, abortedAt>>

\* The page is left, or starts a newer check.
Abort ==
    /\ ~aborted
    /\ aborted' = TRUE
    /\ abortedAt' = now
    /\ UNCHANGED <<now, answer, pending, ran, result>>

\* Every timer that is due at this tick has run.
TimersQuiet ==
    /\ now = RaceDue => \A p \in Probes : answer[p] # "waiting"
    /\ result = "none" /\ now = GuardDue => "guard" \in ran
    /\ result = "none" /\ PollDue => "poll" \in ran

Tick ==
    /\ now < Horizon
    /\ TimersQuiet
    /\ now' = now + 1
    /\ ran' = {}
    /\ UNCHANGED <<answer, pending, aborted, abortedAt, result>>

Next ==
    \/ \E p \in Probes : Respond(p) \/ RaceTimeout(p)
    \/ Guard
    \/ AbortPoll
    \/ Abort
    \/ Tick

\* Timers run and the clock advances.  Nothing is asked of the network
\* (Respond) nor of the user (Abort).
Spec ==
    /\ Init /\ [][Next]_vars
    /\ WF_vars(Tick) /\ WF_vars(Guard) /\ WF_vars(AbortPoll)
    /\ \A p \in Probes : WF_vars(RaceTimeout(p))

-----------------------------------------------------------------------------
\* Types of the variables.
TypeOK ==
    /\ now \in 0..Horizon
    /\ answer \in [Probes -> Kinds \cup {"waiting"}]
    /\ pending \in 0..Cardinality(Probes)
    /\ ran \subseteq {"guard", "poll"}
    /\ aborted \in BOOLEAN
    /\ abortedAt \in 0..Horizon
    /\ result \in {"none", "aborted", "free", "portal", "offline"}

Failed == {p \in Probes : answer[p] = "error"}

\* A verdict about the network has a cause in what the probes said:
\* "free" and "portal" an answer of that class, "offline" the failure of
\* every probe or a guard that has expired (detect.js:81-102).
VerdictHasCause ==
    /\ result = "free" => \E p \in Probes : answer[p] = "empty"
    /\ result = "portal" => \E p \in Probes : answer[p] \in {"redirect", "content"}
    /\ result = "offline" => Failed = Probes \/ now >= GuardDue

\* The caller is never left waiting: a check is settled by the time its
\* own timers say, hung requests or not (detect.js:22-25).
SettledInTime == result = "none" => now <= GuardDue

\* With the timers of the code, raceTimeout before the guard, the worst time to
\* a verdict is raceTimeout's, 500 ms more than the timeout that a request is
\* given (net.js:139): one failure that is not counted, and it is the
\* guard's.
SettledByRace == result = "none" => now <= RaceDue

\* A set abort flag ends the check within one poll period, without
\* waiting for requests that hang (detect.js:85-88).
AbortPrompt ==
    aborted /\ result = "none" => now <= abortedAt + PollEvery

\* With these timers every probe has failed when the check says "offline",
\* so the guard decides nothing (detect.js:90, 99-102).
OfflineMeansAllFailed == result = "offline" => Failed = Probes

-----------------------------------------------------------------------------
Promise == INSTANCE CheckPromise WITH result <- result, aborted <- aborted

\* checkPortal implements the promise its callers rely on: settled once,
\* always, and with "aborted" once the flag is set.
ImplementsPromise == Promise!Spec
=============================================================================
