---------------------------- MODULE PanetProofs -----------------------------
(***************************************************************************)
(* Theorems about the native HTTP client and the portal check it serves.   *)
(*                                                                         *)
(* About one portal check, for any set of probes and any timers: its       *)
(* verdict has a cause, it comes in time, and the steps of the check are   *)
(* those of its abstract promise.  The same goes for a check whose         *)
(* requests share the native thread, and there one silent host delays the  *)
(* other requests, but not beyond their timeout.                           *)
(*                                                                         *)
(* About one exchange, for any URL and any shape of a reply, wherever the  *)
(* reply is cut: the script is told a beginning of what the server meant.  *)
(***************************************************************************)
EXTENDS DetectNative, Exchange, FiniteSetTheorems, SequenceTheorems,
        WellFoundedInduction, TLAPS

Waiting == {p \in Probes : answer[p] = "waiting"}

\* While the check is not settled every answer so far is a failure, and one
\* is missing.
Undecided ==
    result = "none" =>
        /\ \A p \in Probes : answer[p] \in {"waiting", "error"}
        /\ Waiting # {}

\* The countdown: the probes that have not failed.  Failures after an abort
\* are not counted.
Countdown ==
    /\ ~aborted => pending = Cardinality(Probes \ Failed)
    /\ pending >= Cardinality(Probes \ Failed)

GuardSettles == "guard" \in ran => result # "none"

Inv ==
    /\ TypeOK /\ Undecided /\ Countdown /\ GuardSettles
    /\ VerdictHasCause /\ SettledInTime /\ SettledByRace

\* Constants are numbers.
LEMMA Times ==
  /\ RaceDue \in Nat /\ GuardDue \in Nat /\ PollEvery \in Nat /\ Horizon \in Nat
  /\ RaceDue > 0 /\ GuardDue > 0 /\ PollEvery > 0 /\ Horizon > 0
  BY TimesAssumption

\* Cardinalities of sets of probes.
LEMMA CountProbes ==
  /\ Cardinality(Probes) \in Nat /\ Cardinality(Probes) > 0
  /\ \A S \in SUBSET Probes : /\ IsFiniteSet(S) /\ Cardinality(S) \in Nat
                              /\ Cardinality(S) <= Cardinality(Probes)
                              /\ (Cardinality(S) = 0) = (S = {})
  BY ProbesAssumption, FS_Subset, FS_CardinalityType, FS_EmptySet

\* Init.
THEOREM InitInv == Init => Inv
<1> SUFFICES ASSUME Init PROVE Inv
  OBVIOUS
<1>1. Failed = {} /\ Waiting = Probes /\ Probes \ Failed = Probes
  BY DEF Init, Failed, Waiting
<1>2. TypeOK
  <2>1. now \in 0..Horizon /\ abortedAt \in 0..Horizon
    BY Times DEF Init
  <2>2. pending \in 0..Cardinality(Probes)
    BY CountProbes DEF Init
  <2>3. answer \in [Probes -> Kinds \cup {"waiting"}]
    BY DEF Init
  <2> QED
    BY <2>1, <2>2, <2>3 DEF Init, TypeOK
<1>3. Undecided /\ Countdown /\ GuardSettles
  BY <1>1, CountProbes, ProbesAssumption DEF Init, Undecided, Countdown, GuardSettles
<1>4. VerdictHasCause /\ SettledInTime /\ SettledByRace
  BY Times DEF Init, VerdictHasCause, SettledInTime, SettledByRace
<1> QED
  BY <1>2, <1>3, <1>4 DEF Inv

\* The classes of replies.
LEMMA ClassifyKinds ==
  ASSUME NEW r
  PROVE  Classify(r) \in Kinds
  BY DEF Classify, Kinds

\* The callback of a probe.
LEMMA OnReplyInv ==
  ASSUME Inv, NEW p \in Probes, NEW r, OnReply(p, r)
  PROVE  Inv'
<1> DEFINE kind == Classify(r)
<1>1. kind \in Kinds
  BY ClassifyKinds
<1>2. /\ answer[p] = "waiting" /\ answer \in [Probes -> Kinds \cup {"waiting"}]
      /\ answer' = [answer EXCEPT ![p] = kind]
      /\ UNCHANGED <<now, ran, aborted, abortedAt>>
  BY DEF OnReply, Inv, TypeOK
<1>3. answer' \in [Probes -> Kinds \cup {"waiting"}]
  BY <1>1, <1>2
<1>4. \A q \in Probes : answer'[q] = IF q = p THEN kind ELSE answer[q]
  BY <1>2
<1>5. Failed' = IF kind = "error" THEN Failed \cup {p} ELSE Failed
  BY <1>2, <1>4 DEF Failed
<1>6. p \notin Failed
  BY <1>2 DEF Failed
<1>7. /\ now' \in 0..Horizon /\ abortedAt' \in 0..Horizon
      /\ ran' \subseteq {"guard", "poll"} /\ aborted' \in BOOLEAN
  BY <1>2 DEF Inv, TypeOK
<1>8. CASE aborted
  <2>1. /\ result' = IF result = "none" THEN "aborted" ELSE result
        /\ pending' = pending
    BY <1>8 DEF OnReply, Finish
  <2>2. TypeOK'
    BY <1>3, <1>7, <2>1 DEF Inv, TypeOK
  <2>3. Countdown'
    <3>1. pending' >= Cardinality(Probes \ Failed)
      BY <2>1 DEF Inv, Countdown
    <3>2. Cardinality((Probes \ Failed)') <= Cardinality(Probes \ Failed)
      BY <1>5, CountProbes, FS_Subset
    <3> QED
      BY <1>2, <1>8, <2>1, <3>1, <3>2, CountProbes DEF Countdown, Inv, TypeOK, Failed
  <2>4. VerdictHasCause'
    BY <1>2, <1>4, <2>1 DEF Inv, VerdictHasCause, Failed
  <2>5. Undecided' /\ GuardSettles' /\ SettledInTime' /\ SettledByRace'
    BY <1>2, <2>1 DEF Inv, Undecided, GuardSettles, SettledInTime, SettledByRace
  <2> QED
    BY <2>2, <2>3, <2>4, <2>5 DEF Inv
<1>9. CASE ~aborted /\ kind # "error"
  <2>1. /\ result' = IF result = "none" THEN Verdict(kind) ELSE result
        /\ pending' = pending
    BY <1>9 DEF OnReply, Finish
  <2>2. Verdict(kind) \in {"free", "portal"}
    BY DEF Verdict
  <2>3. TypeOK'
    BY <1>3, <1>7, <2>1, <2>2 DEF Inv, TypeOK
  <2>4. Countdown'
    BY <1>2, <1>5, <1>9, <2>1 DEF Inv, Countdown, Failed
  <2>5. VerdictHasCause'
    BY <1>1, <1>2, <1>4, <1>9, <2>1 DEF Inv, VerdictHasCause, Failed, Verdict, Kinds
  <2>6. Undecided' /\ GuardSettles' /\ SettledInTime' /\ SettledByRace'
    BY <1>2, <2>1, <2>2 DEF Inv, Undecided, GuardSettles, SettledInTime, SettledByRace
  <2> QED
    BY <2>3, <2>4, <2>5, <2>6 DEF Inv
<1>10. CASE ~aborted /\ kind = "error"
  <2>1. /\ result' = IF pending = 1 /\ result = "none" THEN "offline" ELSE result
        /\ pending' = pending - 1
    BY <1>10 DEF OnReply, Finish
  <2>2. /\ (Probes \ Failed)' = (Probes \ Failed) \ {p} /\ p \in Probes \ Failed
        /\ IsFiniteSet(Probes \ Failed)
    BY <1>5, <1>6, <1>10, CountProbes
  <2>3. /\ Cardinality((Probes \ Failed)') = Cardinality(Probes \ Failed) - 1
        /\ Cardinality(Probes \ Failed) = pending
    BY <1>10, <2>2, FS_RemoveElement DEF Inv, Countdown
  <2>4. pending \in 1..Cardinality(Probes)
    BY <2>2, <2>3, CountProbes DEF Inv, TypeOK
  <2>5. TypeOK'
    <3>1. pending' \in 0..Cardinality(Probes)
      BY <2>1, <2>4, CountProbes
    <3>2. result' \in {"none", "aborted", "free", "portal", "offline"}
      BY <2>1 DEF Inv, TypeOK
    <3> QED
      BY <1>3, <1>7, <3>1, <3>2 DEF TypeOK
  <2>6. Countdown'
    BY <1>2, <2>1, <2>3, <2>4 DEF Countdown
  <2>7. pending = 1 => Failed' = Probes
    <3>1. (Cardinality((Probes \ Failed)') = 0) = ((Probes \ Failed)' = {})
      BY <2>2, CountProbes
    <3> QED
      BY <2>3, <3>1 DEF Failed
  <2>8. VerdictHasCause'
    BY <1>2, <1>4, <2>1, <2>7 DEF Inv, VerdictHasCause, Failed
  <2>9. Undecided'
    <3> SUFFICES ASSUME result' = "none" PROVE Undecided'
      BY DEF Undecided
    <3>1. result = "none" /\ pending # 1
      BY <2>1
    <3>2. \A q \in Probes : answer'[q] \in {"waiting", "error"}
      BY <1>4, <1>10, <3>1 DEF Inv, Undecided
    <3>3. (Probes \ Failed)' # {}
      BY <2>2, <2>3, <2>4, <3>1, CountProbes
    <3> QED
      BY <3>2, <3>3 DEF Undecided, Waiting, Failed
  <2>10. GuardSettles' /\ SettledInTime' /\ SettledByRace'
    BY <1>2, <2>1 DEF Inv, GuardSettles, SettledInTime, SettledByRace
  <2> QED
    BY <2>5, <2>6, <2>8, <2>9, <2>10 DEF Inv
<1> QED
  BY <1>8, <1>9, <1>10

\* The steps that leave answers and countdown alone: guard, poll and abort.
LEMMA TimerInv == ASSUME Inv, Guard \/ AbortPoll \/ Abort PROVE Inv'
<1>1. UNCHANGED <<now, answer, pending>>
  BY DEF Guard, AbortPoll, Abort
<1>2. Failed' = Failed /\ Waiting' = Waiting
  BY <1>1 DEF Failed, Waiting
<1>3. TypeOK'
  <2>1. CASE Guard
    BY <2>1 DEF Guard, Finish, Inv, TypeOK
  <2>2. CASE AbortPoll
    BY <2>2 DEF AbortPoll, Finish, Inv, TypeOK
  <2>3. CASE Abort
    BY <2>3 DEF Abort, Inv, TypeOK
  <2> QED
    BY <2>1, <2>2, <2>3
<1>4. Undecided' /\ SettledInTime' /\ SettledByRace'
  BY <1>1, <1>2 DEF Guard, AbortPoll, Abort, Finish, Inv, Undecided, SettledInTime, SettledByRace
<1>5. Countdown'
  BY <1>1, <1>2 DEF Guard, AbortPoll, Abort, Inv, Countdown
<1>6. GuardSettles'
  BY DEF Guard, AbortPoll, Abort, Finish, Inv, GuardSettles
<1>7. VerdictHasCause'
  BY <1>1, <1>2, Times DEF Guard, AbortPoll, Abort, Finish, Inv, TypeOK, VerdictHasCause
<1> QED
  BY <1>3, <1>4, <1>5, <1>6, <1>7 DEF Inv

\* The clock waits for the timers that are due.
LEMMA TickInv == ASSUME Inv, Tick PROVE Inv'
<1>1. /\ now < Horizon /\ now' = now + 1 /\ ran' = {} /\ TimersQuiet
      /\ UNCHANGED <<answer, pending, aborted, abortedAt, result>>
  BY DEF Tick
<1>2. Failed' = Failed /\ Waiting' = Waiting /\ now \in 0..Horizon
  BY <1>1 DEF Failed, Waiting, Inv, TypeOK
<1>3. TypeOK'
  BY <1>1, <1>2, Times DEF Inv, TypeOK
<1>4. Undecided' /\ Countdown' /\ GuardSettles'
  BY <1>1, <1>2 DEF Inv, Undecided, Countdown, GuardSettles
<1>5. VerdictHasCause'
  BY <1>1, <1>2, Times DEF Inv, VerdictHasCause
<1>6. SettledInTime'
  BY <1>1, <1>2, Times DEF TimersQuiet, Inv, GuardSettles, SettledInTime
<1>7. SettledByRace'
  BY <1>1, <1>2, Times DEF TimersQuiet, Inv, Undecided, Waiting, SettledByRace
<1> QED
  BY <1>3, <1>4, <1>5, <1>6, <1>7 DEF Inv

\* Every step of a check keeps its inductive invariant.
THEOREM InvStep == Inv /\ [Next]_vars => Inv'
<1> SUFFICES ASSUME Inv, [Next]_vars PROVE Inv'
  OBVIOUS
<1>1. ASSUME NEW p \in Probes, Respond(p) PROVE Inv'
  BY <1>1, OnReplyInv DEF Respond
<1>2. ASSUME NEW p \in Probes, RaceTimeout(p) PROVE Inv'
  BY <1>2, OnReplyInv DEF RaceTimeout
<1>3. CASE UNCHANGED vars
  BY <1>3 DEF vars, Inv, TypeOK, Undecided, Waiting, Countdown, Failed,
     GuardSettles, VerdictHasCause, SettledInTime, SettledByRace
<1> QED
  BY <1>1, <1>2, <1>3, TimerInv, TickInv DEF Next

\* A check always satisfies its inductive invariant.
THEOREM Invariance == Spec => []Inv
  BY InitInv, InvStep, PTL DEF Spec

-----------------------------------------------------------------------------
\* The variables keep their types.
THEOREM TypeCorrect == Spec => []TypeOK
<1>1. Inv => TypeOK
  BY DEF Inv
<1> QED
  BY <1>1, Invariance, PTL

\* "Free" and "portal" come from an answer, "offline" from the failure of
\* every probe or from the guard.
THEOREM HasCause == Spec => []VerdictHasCause
<1>1. Inv => VerdictHasCause
  BY DEF Inv
<1> QED
  BY <1>1, Invariance, PTL

\* No check outlives its guard, whatever the request layer does.
THEOREM InTime == Spec => []SettledInTime
<1>1. Inv => SettledInTime
  BY DEF Inv
<1> QED
  BY <1>1, Invariance, PTL

\* No check outlives the timeout of its requests.
THEOREM ByRace == Spec => []SettledByRace
<1>1. Inv => SettledByRace
  BY DEF Inv
<1> QED
  BY <1>1, Invariance, PTL

\* With the request timeout before the guard a step says "offline" only when
\* the last probe fails.
LEMMA AllFailedStep ==
  ASSUME RaceDue < GuardDue, Inv, OfflineMeansAllFailed, [Next]_vars
  PROVE  OfflineMeansAllFailed'
<1>1. Inv'
  BY InvStep
<1> SUFFICES ASSUME result' = "offline" PROVE Failed' = Probes
  BY DEF OfflineMeansAllFailed
<1>2. \A p \in Probes : answer[p] = "error" => answer'[p] = "error"
  <2> SUFFICES ASSUME NEW p \in Probes, answer[p] = "error" PROVE answer'[p] = "error"
    OBVIOUS
  <2>1. ASSUME NEW q \in Probes, NEW r, OnReply(q, r) PROVE answer'[p] = "error"
    BY <2>1 DEF OnReply, Inv, TypeOK
  <2>2. CASE UNCHANGED answer
    BY <2>2
  <2> QED
    BY <2>1, <2>2 DEF Next, Respond, RaceTimeout, Guard, AbortPoll, Abort, Tick, vars
<1>3. CASE result = "offline"
  BY <1>2, <1>3 DEF OfflineMeansAllFailed, Failed
<1>4. CASE result # "offline"
  <2>1. result = "none"
    BY <1>4 DEF Next, Respond, RaceTimeout, OnReply, Finish, Guard, AbortPoll, Abort, Tick, vars
  <2>2. now' = now
    BY <1>4 DEF Next, Respond, RaceTimeout, OnReply, Guard, AbortPoll, Abort, Tick, vars
  <2>3. now' < GuardDue
    BY <2>1, <2>2, Times DEF Inv, TypeOK, SettledByRace
  <2> QED
    BY <1>1, <2>3, Times DEF Inv, TypeOK, VerdictHasCause
<1> QED
  BY <1>3, <1>4

\* "Offline" then means that every probe has failed.
THEOREM AllFailed ==
  ASSUME RaceDue < GuardDue
  PROVE  Spec => []OfflineMeansAllFailed
<1>1. Init => OfflineMeansAllFailed
  BY DEF Init, OfflineMeansAllFailed
<1>2. Inv /\ OfflineMeansAllFailed /\ [Next]_vars => OfflineMeansAllFailed'
  BY AllFailedStep
<1> QED
  BY <1>1, <1>2, Invariance, PTL DEF Spec

-----------------------------------------------------------------------------
(* The abort poll.                                                         *)

\* Division with remainder.
LEMMA DivMod ==
  ASSUME NEW t \in Int, NEW P \in Int, P > 0
  PROVE  t = P * (t \div P) + (t % P) /\ t \div P \in Int /\ t % P \in 0..(P - 1)
<1>1. t = P * (t \div P) + (t % P)
  BY SMTT(30)
<1>2. t \div P \in Int /\ t % P \in 0..(P - 1)
  BY SMTT(30)
<1> QED
  BY <1>1, <1>2

\* The remainder is unique.
LEMMA ModUnique ==
  ASSUME NEW t \in Int, NEW P \in Int, NEW q \in Int, NEW r \in Int,
         P > 0, 0 <= r, r < P, t = P * q + r
  PROVE  t % P = r
  BY SMTT(30)

\* Multiples have no remainder.
LEMMA ModMultiple ==
  ASSUME NEW k \in Int, NEW P \in Int, NEW q \in Int, P > 0, k = P * (q + 1)
  PROVE  k % P = 0
<1>1. q + 1 \in Int /\ k = P * (q + 1) + 0
  OBVIOUS
<1> QED
  BY <1>1, ModUnique

\* Among as many ticks as the period there is one at which the poll is due.
LEMMA PollWithin ==
  ASSUME NEW t \in Nat, NEW P \in Nat, P > 0
  PROVE  \E k \in (t + 1)..(t + P) : k % P = 0
<1> DEFINE q == t \div P
           r == t % P
           k == t + P - r
<1>1. t = P * q + r /\ q \in Int /\ r \in 0..(P - 1)
  BY DivMod
<1>2. k \in (t + 1)..(t + P)
  BY <1>1
<1> HIDE DEF q, r
<1>3. k = P * (q + 1)
  BY <1>1
<1>4. k \in Int /\ P \in Int /\ q \in Int
  BY <1>1
<1>5. k % P = 0
  BY <1>3, <1>4, ModMultiple, Zenon
<1> QED
  BY <1>2, <1>5

\* While an aborted check is pending no tick of the poll has passed since.
Polled ==
    /\ abortedAt <= now
    /\ aborted /\ result = "none" =>
          /\ \A k \in (abortedAt + 1)..(now - 1) : k % PollEvery # 0
          /\ now > abortedAt => "poll" \notin ran

\* The flag and the poll, step by step.
LEMMA PolledStep == Inv /\ Polled /\ [Next]_vars => Polled'
<1> SUFFICES ASSUME Inv, Polled, [Next]_vars PROVE Polled'
  OBVIOUS
<1>1. now \in Nat /\ abortedAt \in Nat /\ aborted \in BOOLEAN
  BY DEF Inv, TypeOK
<1>2. ASSUME NEW p \in Probes, NEW r, OnReply(p, r) PROVE Polled'
  BY <1>2 DEF OnReply, Finish, Polled
<1>3. CASE Guard
  BY <1>3 DEF Guard, Finish, Polled
<1>4. CASE AbortPoll
  BY <1>4 DEF AbortPoll, Finish, Polled
<1>5. CASE Abort
  BY <1>1, <1>5 DEF Abort, Polled
<1>6. CASE Tick
  <2>1. /\ now' = now + 1 /\ ran' = {} /\ UNCHANGED <<aborted, abortedAt, result>>
    BY <1>6 DEF Tick
  <2>2. ASSUME aborted, result = "none", NEW k \in (abortedAt + 1)..now PROVE k % PollEvery # 0
    <3>1. CASE k <= now - 1
      BY <1>1, <2>2, <3>1 DEF Polled
    <3>2. CASE k = now
      <4>1. now > abortedAt /\ now > 0
        BY <1>1, <2>2, <3>2
      <4> QED
        BY <1>6, <2>2, <3>2, <4>1 DEF Tick, TimersQuiet, PollDue, Polled
    <3> QED
      BY <1>1, <3>1, <3>2
  <2> QED
    BY <1>1, <2>1, <2>2 DEF Polled
<1>7. CASE UNCHANGED vars
  BY <1>7 DEF vars, Polled
<1> QED
  BY <1>2, <1>3, <1>4, <1>5, <1>6, <1>7 DEF Next, Respond, RaceTimeout

\* A set flag ends the check within one period of the poll.
THEOREM Prompt == Spec => []AbortPrompt
<1>1. Init => Polled
  BY DEF Init, Polled
<1>2. Inv /\ Polled => AbortPrompt
  <2> SUFFICES ASSUME Inv, Polled, aborted, result = "none", now > abortedAt + PollEvery
               PROVE  FALSE
    BY Times DEF AbortPrompt, Inv, TypeOK
  <2>1. now \in Nat /\ abortedAt \in Nat
    BY DEF Inv, TypeOK
  <2>2. PICK k \in (abortedAt + 1)..(abortedAt + PollEvery) : k % PollEvery = 0
    BY <2>1, Times, PollWithin
  <2>3. k \in (abortedAt + 1)..(now - 1)
    BY <2>1, Times
  <2> QED
    BY <2>2, <2>3 DEF Polled
<1> QED
  BY <1>1, <1>2, PolledStep, Invariance, PTL DEF Spec

-----------------------------------------------------------------------------
(* The steps of the check are those of the promise.                        *)

\* A check starts as a pending promise.
LEMMA PromiseInit == Init => Promise!Init
  BY DEF Init, Promise!Init

\* Every step settles the pending promise, sets the flag or is not seen.
LEMMA PromiseStep == TypeOK /\ [Next]_vars => [Promise!Next]_(Promise!vars)
<1> SUFFICES ASSUME TypeOK, [Next]_vars PROVE [Promise!Next]_(Promise!vars)
  OBVIOUS
<1> USE DEF Promise!Next, Promise!vars, Promise!Settle, Promise!Abort, Promise!Verdicts
<1>1. ASSUME NEW p \in Probes, NEW r, OnReply(p, r) PROVE [Promise!Next]_(Promise!vars)
  BY <1>1 DEF OnReply, Finish, Verdict
<1>2. CASE Guard
  BY <1>2 DEF Guard, Finish
<1>3. CASE AbortPoll
  BY <1>3 DEF AbortPoll, Finish
<1>4. CASE Abort
  BY <1>4 DEF Abort
<1>5. CASE Tick \/ UNCHANGED vars
  BY <1>5 DEF Tick, vars
<1> QED
  BY <1>1, <1>2, <1>3, <1>4, <1>5 DEF Next, Respond, RaceTimeout

\* The safety part of ImplementsPromise: the check settles its promise once,
\* and with "aborted" if the flag was set before.
THEOREM KeepsPromise == Spec => Promise!Init /\ [][Promise!Next]_(Promise!vars)
  BY PromiseInit, PromiseStep, TypeCorrect, PTL DEF Spec

-----------------------------------------------------------------------------
(* The check on the native thread.                                         *)

\* A call of the thread that answers or gives up is a reply; one that comes
\* too late is not seen.
LEMMA NativeStep == [NativeNext]_<<vars, nativeVars>> => [Next]_vars
<1>1. ASSUME NEW p \in Probes, Answer(p) PROVE Next
  BY <1>1 DEF Answer, Next
<1>2. ASSUME NEW p \in Probes, GiveUp(p) PROVE Next
  <2>1. Rejected \in Replies
    BY DEF Rejected, Replies
  <2> QED
    BY <1>2, <2>1 DEF GiveUp, Next, Respond
<1>3. ASSUME NEW p \in Probes, Late(p) PROVE UNCHANGED vars
  BY <1>3 DEF Late
<1>4. CASE NativeTick
  BY <1>4 DEF NativeTick, Next
<1> QED
  BY <1>1, <1>2, <1>3, <1>4 DEF NativeNext, Next

\* Safety part of the refinement: what the script sees of a check on the native
\* thread are steps of a check whose requests are independent.
THEOREM NativeImplements == NativeSpec => Init /\ [][Next]_vars
<1>1. NativeInit => Init
  BY DEF NativeInit
<1> QED
  BY <1>1, NativeStep, PTL DEF NativeSpec

LEMMA NativeInv == NativeSpec => []Inv
  BY NativeImplements, InitInv, InvStep, PTL

\* The thread's queue does not delay the verdict beyond the timeout of the requests.
THEOREM NativeByRace == NativeSpec => []SettledByRace
<1>1. Inv => SettledByRace
  BY DEF Inv
<1> QED
  BY <1>1, NativeInv, PTL

\* .. nor does it make "offline" say less.
THEOREM NativeAllFailed ==
  ASSUME RaceDue < GuardDue
  PROVE  NativeSpec => []OfflineMeansAllFailed
<1>1. Init => OfflineMeansAllFailed
  BY DEF Init, OfflineMeansAllFailed
<1>2. Inv /\ OfflineMeansAllFailed /\ [Next]_vars => OfflineMeansAllFailed'
  BY AllFailedStep
<1> QED
  BY <1>1, <1>2, NativeImplements, NativeInv, PTL

-----------------------------------------------------------------------------
(* One silent host.                                                        *)

\* Every probe is asked once, and waits for its answer only as long as its call
\* is in the queue.
Asked ==
    /\ host \in [Probes -> {"answers", "refuses", "silent"}]
    /\ queue \in Seq(Probes)
    /\ \A i, j \in DOMAIN queue : queue[i] = queue[j] => i = j
    /\ \A p \in Probes : answer[p] = "waiting" => \E i \in DOMAIN queue : queue[i] = p

\* Only the call to the silent host takes time: the calls before it are over at
\* once, and those behind it as soon as it gives up.
Served ==
    Cardinality(Silent) <= 1 /\ queue # <<>> =>
        /\ now <= SilentFor /\ since <= now /\ since \in Nat
        /\ (\E i \in DOMAIN queue : host[queue[i]] = "silent") => since = 0
        /\ host[queue[1]] # "silent" => now = since

\* So no host that answers is given up.
Heard == Cardinality(Silent) <= 1 => \A p \in Good : answer[p] # "error"

OneSilentInv == Asked /\ Served /\ Heard

LEMMA OneSilent ==
  ASSUME Cardinality(Silent) <= 1, NEW p \in Silent, NEW q \in Silent
  PROVE  p = q
<1>1. IsFiniteSet(Silent) /\ Cardinality(Silent) \in Nat
  BY CountProbes DEF Silent
<1>2. CASE Silent = {}
  BY <1>2
<1>3. Cardinality(Silent \ {p}) = Cardinality(Silent) - 1
  BY <1>1, FS_RemoveElement
<1>4. IsFiniteSet(Silent \ {p}) /\ Cardinality(Silent \ {p}) \in Nat
  BY <1>1, FS_Subset, FS_CardinalityType
<1>5. Silent \ {p} = {}
  BY <1>1, <1>3, <1>4, FS_EmptySet
<1> QED
  BY <1>5

LEMMA OneSilentInit == NativeInit => OneSilentInv
<1> SUFFICES ASSUME NativeInit PROVE OneSilentInv
  OBVIOUS
<1>1. Asked
  <2>1. queue = Order /\ Order \in Seq(Probes) /\ DOMAIN Order = 1..Len(Order)
    BY NativeAssumption DEF NativeInit
  <2>2. \A i, j \in DOMAIN queue : queue[i] = queue[j] => i = j
    BY <2>1, NativeAssumption
  <2>3. \A p \in Probes : \E i \in DOMAIN queue : queue[i] = p
    BY <2>1, NativeAssumption
  <2> QED
    BY <2>1, <2>2, <2>3 DEF NativeInit, Asked
<1>2. Served
  BY NativeAssumption DEF NativeInit, Init, Served
<1>3. Heard
  BY DEF NativeInit, Init, Heard, Good
<1> QED
  BY <1>1, <1>2, <1>3 DEF OneSilentInv

\* The first call of the queue.
LEMMA FirstOfQueue ==
  ASSUME Asked, queue # <<>>
  PROVE  /\ 1 \in DOMAIN queue /\ Head(queue) = queue[1] /\ queue[1] \in Probes
         /\ Tail(queue) \in Seq(Probes)
         /\ DOMAIN Tail(queue) = 1..(Len(queue) - 1)
         /\ \A i \in DOMAIN Tail(queue) :
              i + 1 \in DOMAIN queue /\ Tail(queue)[i] = queue[i + 1] /\ i + 1 # 1
  BY DEF Asked

LEMMA AskedFinished ==
  ASSUME Asked, queue # <<>>, Finished, NEW p \in Probes, Running(p), answer'[p] # "waiting",
         \A q \in Probes : q # p => answer'[q] = answer[q]
  PROVE  Asked'
<1>1. p = queue[1] /\ queue' = Tail(queue) /\ host' = host
  BY FirstOfQueue DEF Running, Finished
<1>2. \A i, j \in DOMAIN queue' : queue'[i] = queue'[j] => i = j
  <2> SUFFICES ASSUME NEW i \in DOMAIN queue', NEW j \in DOMAIN queue', queue'[i] = queue'[j]
               PROVE  i = j
    OBVIOUS
  <2>1. i \in Nat /\ j \in Nat /\ i + 1 = j + 1
    BY <1>1, FirstOfQueue DEF Asked
  <2> QED
    BY <2>1
<1>3. ASSUME NEW q \in Probes, answer'[q] = "waiting" PROVE \E i \in DOMAIN queue' : queue'[i] = q
  <2>1. q # p /\ answer[q] = "waiting"
    BY <1>3
  <2>2. PICK k \in DOMAIN queue : queue[k] = q
    BY <2>1 DEF Asked
  <2>3. k # 1 /\ k \in 1..Len(queue)
    BY <1>1, <2>1, <2>2 DEF Asked
  <2>4. k - 1 \in DOMAIN Tail(queue) /\ Tail(queue)[k - 1] = queue[k]
    BY <2>3, FirstOfQueue
  <2> QED
    BY <1>1, <2>2, <2>4
<1> QED
  BY <1>1, <1>2, <1>3, FirstOfQueue DEF Asked

\* When a call is over and the silent host has been asked, nothing silent is left.
LEMMA ServedFinished ==
  ASSUME Asked, Served, queue # <<>>, Finished, now' = now, now \in Nat,
         host[queue[1]] = "silent" => now = End
  PROVE  Served'
<1>1. queue' = Tail(queue) /\ host' = host /\ since' = now /\ Silent' = Silent
  BY DEF Finished, Silent
<1> SUFFICES ASSUME Cardinality(Silent) <= 1, queue' # <<>>
             PROVE  /\ now <= SilentFor
                    /\ (\E i \in DOMAIN queue' : host[queue'[i]] = "silent") => now = 0
  BY <1>1 DEF Served
<1>2. now <= SilentFor
  BY DEF Served
<1>3. ASSUME NEW i \in DOMAIN queue', host[queue'[i]] = "silent" PROVE now = 0
  <2>1. i + 1 \in DOMAIN queue /\ queue'[i] = queue[i + 1] /\ i + 1 # 1 /\ queue[i + 1] \in Probes
    BY <1>1, FirstOfQueue DEF Asked
  <2>2. queue[1] # queue[i + 1]
    BY <2>1, FirstOfQueue DEF Asked
  <2>3. host[queue[1]] # "silent"
    BY <1>3, <2>1, <2>2, OneSilent, FirstOfQueue DEF Silent
  <2> QED
    BY <1>3, <2>1, <2>3 DEF Served
<1> QED
  BY <1>2, <1>3

LEMMA OneSilentStep ==
  ASSUME SilentFor < RaceDue, Inv, OneSilentInv, [NativeNext]_<<vars, nativeVars>>
  PROVE  OneSilentInv'
<1> USE DEF OneSilentInv
<1>1. /\ answer \in [Probes -> Kinds \cup {"waiting"}] /\ now \in Nat
      /\ RaceDue \in Nat /\ SilentFor \in Nat
  BY Times, NativeAssumption DEF Inv, TypeOK
<1>2. ASSUME NEW p \in Probes, Answer(p) PROVE OneSilentInv'
  <2>1. /\ queue # <<>> /\ queue[1] = p /\ host[p] # "silent" /\ Finished
        /\ (answer'[p] = "error") = (host[p] = "refuses")
    BY <1>2, FirstOfQueue DEF Answer, Running
  <2>2. PICK r \in Replies : OnReply(p, r)
    BY <1>2 DEF Answer, Respond
  <2>3. /\ now' = now /\ answer'[p] # "waiting"
        /\ \A q \in Probes : q # p => answer'[q] = answer[q]
    BY <1>1, <2>2, ClassifyKinds DEF OnReply, Kinds
  <2>4. Asked'
    BY <1>2, <2>1, <2>3, AskedFinished DEF Answer
  <2>5. Served'
    BY <1>1, <2>1, <2>3, ServedFinished
  <2>6. Heard'
    BY <2>1, <2>3 DEF Heard, Good, Silent, Finished
  <2> QED
    BY <2>4, <2>5, <2>6
<1>3. ASSUME NEW p \in Probes, GiveUp(p) PROVE OneSilentInv'
  <2>1. queue # <<>> /\ queue[1] = p /\ host[p] = "silent" /\ Finished /\ now = End
    BY <1>3, FirstOfQueue DEF GiveUp, Running
  <2>2. /\ now' = now /\ answer'[p] # "waiting"
        /\ \A q \in Probes : q # p => answer'[q] = answer[q]
    BY <1>1, <1>3, ClassifyKinds DEF GiveUp, OnReply, Kinds
  <2>3. Asked'
    BY <1>3, <2>1, <2>2, AskedFinished DEF GiveUp
  <2>4. Served'
    BY <1>1, <2>1, <2>2, ServedFinished
  <2>5. Heard'
    BY <2>1, <2>2 DEF Heard, Good, Silent, Finished
  <2> QED
    BY <2>3, <2>4, <2>5
<1>4. ASSUME NEW p \in Probes, Late(p) PROVE OneSilentInv'
  <2>1. /\ queue # <<>> /\ queue[1] = p /\ Finished /\ (host[p] = "silent" => now = End)
        /\ UNCHANGED <<now, answer>> /\ answer[p] # "waiting"
    BY <1>4, FirstOfQueue DEF Late, Running, vars
  <2>2. Asked'
    BY <1>4, <2>1, AskedFinished DEF Late
  <2>3. Served'
    BY <1>1, <2>1, ServedFinished
  <2>4. Heard'
    BY <2>1 DEF Heard, Good, Silent, Finished
  <2> QED
    BY <2>2, <2>3, <2>4
<1>5. ASSUME NEW p \in Probes, RaceTimeout(p), UNCHANGED nativeVars PROVE OneSilentInv'
  <2>1. /\ now = RaceDue /\ now' = now /\ answer[p] = "waiting" /\ answer'[p] # "waiting"
        /\ \A q \in Probes : q # p => answer'[q] = answer[q]
    BY <1>1, <1>5, ClassifyKinds DEF RaceTimeout, OnReply, Kinds
  <2>2. Asked'
    BY <1>5, <2>1 DEF nativeVars, Asked
  <2>3. queue # <<>>
    BY <2>1 DEF Asked
  <2>4. ~(Cardinality(Silent) <= 1)
    BY <1>1, <2>1, <2>3 DEF Served
  <2> QED
    BY <1>5, <2>2, <2>4 DEF nativeVars, Served, Heard, Silent
<1>6. CASE (Guard \/ AbortPoll \/ Abort) /\ UNCHANGED nativeVars
  BY <1>6 DEF Guard, AbortPoll, Abort, nativeVars, Asked, Served, Heard, Silent, Good
<1>7. CASE NativeTick
  <2>1. /\ queue # <<>> => host[queue[1]] = "silent" /\ now # End
        /\ now' = now + 1 /\ UNCHANGED <<answer, queue, host, since>>
    BY <1>7, FirstOfQueue DEF NativeTick, Tick, nativeVars
  <2>2. Served'
    <3> SUFFICES ASSUME Cardinality(Silent) <= 1, queue # <<>>
                 PROVE  now + 1 <= SilentFor /\ since <= now + 1
      BY <2>1 DEF Served, Silent
    <3>1. since = 0 /\ now <= SilentFor /\ now # SilentFor
      BY <1>1, <2>1, FirstOfQueue DEF Served, End
    <3> QED
      BY <1>1, <3>1
  <2> QED
    BY <2>1, <2>2 DEF Asked, Heard, Silent, Good
<1>8. CASE UNCHANGED <<vars, nativeVars>>
  BY <1>8 DEF vars, nativeVars, Asked, Served, Heard, Silent, Good
<1> QED
  BY <1>2, <1>3, <1>4, <1>5, <1>6, <1>7, <1>8 DEF NativeNext

\* With the timeout of the native call below that of the request, one host that
\* swallows packets costs its own probe only: if the others could say otherwise,
\* the check is not "offline".
THEOREM OneSilentIsTolerated ==
  ASSUME SilentFor < RaceDue, RaceDue < GuardDue
  PROVE  NativeSpec => []OneSilentProbeIsTolerated
<1>1. Inv /\ OneSilentInv /\ [NativeNext]_<<vars, nativeVars>> => OneSilentInv'
  BY OneSilentStep
<1>2. OneSilentInv /\ OfflineMeansAllFailed => OneSilentProbeIsTolerated
  BY DEF OneSilentInv, Heard, OfflineMeansAllFailed, OneSilentProbeIsTolerated, Failed, Good
<1> QED
  BY <1>1, <1>2, OneSilentInit, NativeInv, NativeAllFailed, PTL DEF NativeSpec

-----------------------------------------------------------------------------
(* Induction and recursion over the numbers up to a bound.                 *)

\* A nonempty set of naturals has a least element.
LEMMA LeastOf ==
  ASSUME NEW T, T \subseteq Nat, T # {}
  PROVE  \E n \in T : \A m \in T : n <= m
<1> DEFINE R == {p \in Nat \X Nat : p[1] < p[2]}
<1>1. IsWellFoundedOn(R, Nat)
  BY NatLessThanWellFounded DEF OpToRel
<1> HIDE DEF R
<1>2. PICK x \in T : \A y \in T : ~(<<y, x>> \in R)
  BY <1>1, WFMin
<1>3. \A y \in T : ~(y < x)
  BY <1>2 DEF R
<1> QED
  BY <1>3

\* A set that has 0 and goes on up to n has all numbers up to n.
LEMMA UpTo ==
  ASSUME NEW n \in Nat, NEW P, 0 \in P, \A i \in 1..n : i - 1 \in P => i \in P
  PROVE  \A i \in 0..n : i \in P
<1> DEFINE T == (0..n) \ P
<1> SUFFICES ASSUME T # {} PROVE FALSE
  OBVIOUS
<1>1. T \subseteq Nat
  OBVIOUS
<1> HIDE DEF T
<1>2. PICK x \in T : \A y \in T : x <= y
  BY <1>1, LeastOf
<1>3. x \in 1..n /\ x - 1 \in 0..n /\ x \notin P
  BY DEF T
<1>4. x - 1 \notin T
  BY <1>2, <1>3
<1> QED
  BY <1>3, <1>4 DEF T

\* f[i] is what n rounds of G make of x.
AreRounds(f, n, T, x, G) ==
    f \in [0..n -> T] /\ f[0] = x /\ \A i \in 1..n : f[i] = G[i][f[i - 1]]

\* Any rounds can be done.
LEMMA Rounds ==
  ASSUME NEW n \in Nat, NEW T, NEW x \in T, NEW G \in [1..n -> [T -> T]]
  PROVE  \E f : AreRounds(f, n, T, x, G)
<1> DEFINE P == {m \in 0..n : \E f : AreRounds(f, m, T, x, G)}
<1>1. 0 \in P
  <2> DEFINE z == [i \in 0..0 |-> x]
  <2>1. z \in [0..0 -> T] /\ z[0] = x
    OBVIOUS
  <2> HIDE DEF z
  <2>2. AreRounds(z, 0, T, x, G)
    BY <2>1 DEF AreRounds
  <2> QED
    BY <2>2
<1>2. ASSUME NEW m \in 1..n, m - 1 \in P PROVE m \in P
  <2>1. PICK f : AreRounds(f, m - 1, T, x, G)
    BY <1>2
  <2>2. /\ f \in [0..(m - 1) -> T] /\ f[0] = x
        /\ \A i \in 1..(m - 1) : f[i] = G[i][f[i - 1]]
    BY <2>1 DEF AreRounds
  <2> DEFINE g == [i \in 0..m |-> IF i = m THEN G[m][f[m - 1]] ELSE f[i]]
  <2>3. G[m][f[m - 1]] \in T
    BY <2>2
  <2>4. g \in [0..m -> T]
    BY <2>2, <2>3
  <2>5. g[m] = G[m][f[m - 1]] /\ \A i \in 0..(m - 1) : g[i] = f[i]
    OBVIOUS
  <2> HIDE DEF g
  <2>6. g[0] = x /\ \A i \in 1..m : g[i] = G[i][g[i - 1]]
    BY <2>2, <2>5
  <2>7. AreRounds(g, m, T, x, G)
    BY <2>4, <2>6 DEF AreRounds
  <2> QED
    BY <2>7
<1> HIDE DEF P
<1>3. \A i \in 0..n : i \in P
  BY <1>1, <1>2, UpTo
<1>4. n \in P
  BY <1>3
<1> QED
  BY <1>4 DEF P

\* What two sequences make, one behind the other.
LEMMA Joined ==
  ASSUME NEW C, NEW a \in Seq(C), NEW b \in Seq(C)
  PROVE  /\ a \o b \in Seq(C) /\ Len(a) \in Nat /\ Len(b) \in Nat
         /\ Len(a \o b) = Len(a) + Len(b)
         /\ \A j \in 1..Len(a) : (a \o b)[j] = a[j]
         /\ \A j \in 1..Len(b) : (a \o b)[Len(a) + j] = b[j]
  OBVIOUS

-----------------------------------------------------------------------------
(* The address of a redirect as JSON.                                      *)

\* A round of the parser yields its state again.
LEMMA NextCharIs ==
  ASSUME NEW text, NEW c
  PROVE  /\ c # "u" => NextChar([escaped |-> TRUE, text |-> text], c)
                         = [escaped |-> FALSE, text |-> Append(text, c)]
         /\ NextChar([escaped |-> TRUE, text |-> text], "u") = [escaped |-> TRUE, text |-> text]
         /\ NextChar([escaped |-> FALSE, text |-> text], "backslash") = [escaped |-> TRUE, text |-> text]
         /\ c \notin {"backslash", "quote", "control"} =>
                NextChar([escaped |-> FALSE, text |-> text], c)
                    = [escaped |-> FALSE, text |-> Append(text, c)]
  BY DEF NextChar

\* The engine's parser, character by character.
LEMMA JsonRounds ==
  ASSUME NEW S, NEW s \in Seq(S)
  PROVE  \E f : /\ f[0] = [escaped |-> FALSE, text |-> <<>>]
                /\ \A i \in 1..Len(s) : f[i] = NextChar(f[i - 1], s[i])
                /\ JsonParsed(s) = f[Len(s)].text
<1> DEFINE n == Len(s)
           C == S \cup {"error"}
           T == [escaped : BOOLEAN, text : Seq(C)]
           x == [escaped |-> FALSE, text |-> <<>>]
           G == [i \in 1..n |-> [r \in T |-> NextChar(r, s[i])]]
           Body(f) == [i \in 0..n |-> IF i = 0 THEN x ELSE NextChar(f[i - 1], s[i])]
           F == CHOOSE f : f = Body(f)
<1>1. x \in T /\ n \in Nat
  OBVIOUS
<1>2. ASSUME NEW r \in T, NEW c \in C PROVE NextChar(r, c) \in T
  <2>1. /\ r.escaped \in BOOLEAN /\ r.text \in Seq(C) /\ Append(r.text, c) \in Seq(C)
        /\ <<"error">> \in Seq(C)
    OBVIOUS
  <2>2. \A b \in BOOLEAN, text \in Seq(C) : [escaped |-> b, text |-> text] \in T
    OBVIOUS
  <2> HIDE DEF T
  <2> QED
    BY <2>1, <2>2 DEF NextChar
<1>3. \A i \in 1..n : s[i] \in C
  OBVIOUS
<1> HIDE DEF T, C, x, n
<1>4. G \in [1..n -> [T -> T]]
  BY <1>2, <1>3
<1> HIDE DEF G
<1>5. PICK f : AreRounds(f, n, T, x, G)
  BY <1>1, <1>4, Rounds
<1>6. ASSUME NEW i \in 1..n PROVE f[i] = NextChar(f[i - 1], s[i])
  <2>1. f[i - 1] \in T
    BY <1>1, <1>5 DEF AreRounds
  <2> QED
    BY <1>5, <2>1 DEF AreRounds, G
<1>7. f = Body(f)
  <2>1. \A i \in 0..n : f[i] = IF i = 0 THEN x ELSE NextChar(f[i - 1], s[i])
    BY <1>1, <1>5, <1>6 DEF AreRounds
  <2> QED
    BY <1>5, <2>1 DEF AreRounds
<1>8. F = Body(F)
  BY <1>7
<1>9. JsonParsed(s) = F[n].text
  BY DEF JsonParsed, n, x
<1> HIDE DEF F
<1>10. F[0] = x /\ \A i \in 1..n : F[i] = NextChar(F[i - 1], s[i])
  BY <1>1, <1>8
<1> QED
  BY <1>9, <1>10 DEF x, n

\* jsonEscape, character by character.
LEMMA EscapeRounds ==
  ASSUME NEW S, NEW s \in Seq(S)
  PROVE  \E f : /\ f[0] = <<>>
                /\ \A i \in 0..Len(s) : f[i] \in Seq(S \cup {"backslash", "u"})
                /\ \A i \in 1..Len(s) : f[i] = f[i - 1] \o Escaped(s[i])
                /\ JsonEscape(s) = f[Len(s)]
<1> DEFINE n == Len(s)
           C == S \cup {"backslash", "u"}
           T == Seq(C)
           x == <<>>
           G == [i \in 1..n |-> [r \in T |-> r \o Escaped(s[i])]]
           Body(f) == [i \in 0..n |-> IF i = 0 THEN x ELSE f[i - 1] \o Escaped(s[i])]
           F == CHOOSE f : f = Body(f)
<1>1. x \in T /\ n \in Nat
  OBVIOUS
<1>2. ASSUME NEW r \in T, NEW i \in 1..n PROVE r \o Escaped(s[i]) \in T
  <2>1. s[i] \in C /\ "backslash" \in C /\ "u" \in C
    OBVIOUS
  <2> HIDE DEF C
  <2>2. Escaped(s[i]) \in Seq(C)
    BY <2>1 DEF Escaped
  <2> QED
    BY <2>2
<1> HIDE DEF T, x, n
<1>3. G \in [1..n -> [T -> T]]
  BY <1>2
<1> HIDE DEF G
<1>4. PICK f : AreRounds(f, n, T, x, G)
  BY <1>1, <1>3, Rounds
<1>5. ASSUME NEW i \in 1..n PROVE f[i] = f[i - 1] \o Escaped(s[i])
  <2>1. f[i - 1] \in T
    BY <1>1, <1>4 DEF AreRounds
  <2> QED
    BY <1>4, <2>1 DEF AreRounds, G
<1>6. f = Body(f)
  <2>1. \A i \in 0..n : f[i] = IF i = 0 THEN x ELSE f[i - 1] \o Escaped(s[i])
    <3> SUFFICES ASSUME NEW i \in 0..n PROVE f[i] = IF i = 0 THEN x ELSE f[i - 1] \o Escaped(s[i])
      OBVIOUS
    <3>1. CASE i = 0
      BY <1>4, <3>1 DEF AreRounds
    <3>2. CASE i # 0
      <4>1. i \in 1..n
        BY <1>1, <3>2
      <4> QED
        BY <1>5, <3>2, <4>1
    <3> QED
      BY <3>1, <3>2
  <2> QED
    BY <1>4, <2>1 DEF AreRounds
<1>7. F = Body(F)
  BY <1>6
<1>8. JsonEscape(s) = F[n]
  BY DEF JsonEscape, n, x
<1> HIDE DEF F
<1>9. F[0] = x /\ \A i \in 1..n : F[i] = F[i - 1] \o Escaped(s[i])
  BY <1>1, <1>7
<1>10. \A i \in 0..n : F[i] \in T
  <2> DEFINE P == {i \in 0..n : F[i] \in T}
  <2>1. 0 \in P
    BY <1>1, <1>9
  <2>2. ASSUME NEW i \in 1..n, i - 1 \in P PROVE i \in P
    <3>1. F[i] \in T
      BY <1>2, <1>9, <2>2
    <3> QED
      BY <1>1, <3>1
  <2> HIDE DEF P
  <2>3. \A i \in 0..n : i \in P
    BY <1>1, <2>1, <2>2, UpTo
  <2> QED
    BY <2>3 DEF P
<1> QED
  BY <1>8, <1>9, <1>10 DEF T, x, n

\* A text that is escaped is parsed as itself, whatever its characters.
THEOREM JsonKeepsText ==
  ASSUME NEW S, NEW s \in Seq(S)
  PROVE  JsonParsed(JsonEscape(s)) = s
<1> DEFINE n == Len(s)
           C == S \cup {"backslash", "u"}
           t == JsonEscape(s)
           e == [i \in 1..n |-> Escaped(s[i])]
<1>1. PICK u : /\ u[0] = <<>>
               /\ \A i \in 0..n : u[i] \in Seq(C)
               /\ \A i \in 1..n : u[i] = u[i - 1] \o e[i]
               /\ t = u[n]
  BY EscapeRounds, ZenonT(30)
<1>2. n \in Nat /\ t \in Seq(C) /\ \A i \in 1..n : e[i] \in Seq(C)
  <2>1. n \in Nat /\ t \in Seq(C)
    BY <1>1
  <2>2. ASSUME NEW i \in 1..n PROVE Escaped(s[i]) \in Seq(C)
    <3>1. s[i] \in C /\ "backslash" \in C /\ "u" \in C
      OBVIOUS
    <3> HIDE DEF C
    <3> QED
      BY <3>1 DEF Escaped
  <2> QED
    BY <2>1, <2>2
<1> HIDE DEF t, C, n, e
<1>3. PICK f : /\ f[0] = [escaped |-> FALSE, text |-> <<>>]
               /\ \A i \in 1..Len(t) : f[i] = NextChar(f[i - 1], t[i])
               /\ JsonParsed(t) = f[Len(t)].text
  BY <1>2, JsonRounds
<1>4. ASSUME NEW i \in 0..n
      PROVE  Len(u[i]) <= Len(t) /\ \A j \in 1..Len(u[i]) : t[j] = u[i][j]
  <2> DEFINE Extends(k) == Len(u[i]) <= Len(u[k]) /\ \A j \in 1..Len(u[i]) : u[k][j] = u[i][j]
             P == {k \in 0..n : k >= i => Extends(k)}
  <2>1. u[i] \in Seq(C) /\ Len(u[i]) \in Nat
    BY <1>1, <1>2
  <2>2. Extends(i)
    BY <2>1
  <2>3. ASSUME NEW k \in 1..n, k > i, Extends(k - 1) PROVE Extends(k)
    <3>1. /\ u[k] = u[k - 1] \o e[k]
          /\ e[k] \in Seq(C) /\ u[k - 1] \in Seq(C)
      <4>1. k - 1 \in 0..n
        BY <1>2
      <4> QED
        BY <1>1, <1>2, <4>1
    <3>2. /\ Len(u[k]) = Len(u[k - 1]) + Len(e[k]) /\ Len(e[k]) \in Nat
          /\ Len(u[k - 1]) \in Nat /\ \A j \in 1..Len(u[k - 1]) : u[k][j] = u[k - 1][j]
      <4> DEFINE a == u[k - 1]
                 b == e[k]
      <4>1. a \in Seq(C) /\ b \in Seq(C) /\ u[k] = a \o b
        BY <3>1
      <4> HIDE DEF a, b
      <4>2. /\ Len(u[k]) = Len(a) + Len(b) /\ Len(b) \in Nat
            /\ Len(a) \in Nat /\ \A j \in 1..Len(a) : u[k][j] = a[j]
        BY <4>1, Joined
      <4> QED
        BY <4>2 DEF a, b
    <3>3. Len(u[i]) <= Len(u[k - 1]) /\ \A j \in 1..Len(u[i]) : u[k - 1][j] = u[i][j]
      BY <2>3
    <3>4. Len(u[i]) <= Len(u[k])
      <4> DEFINE a == Len(u[i])
                 b == Len(u[k - 1])
                 c == Len(e[k])
      <4>1. a \in Nat /\ b \in Nat /\ c \in Nat /\ a <= b
        BY <2>1, <3>2, <3>3
      <4> HIDE DEF a, b, c
      <4>2. a <= b + c
        BY <4>1
      <4> QED
        BY <3>2, <4>2 DEF a, b, c
    <3>5. ASSUME NEW j \in 1..Len(u[i]) PROVE u[k][j] = u[i][j]
      <4>1. j \in 1..Len(u[k - 1])
        BY <2>1, <3>2, <3>3
      <4> QED
        BY <3>2, <3>3, <4>1
    <3> QED
      BY <3>4, <3>5
  <2> HIDE DEF Extends
  <2>4. 0 \in P
    <3>1. 0 >= i => i = 0
      OBVIOUS
    <3> QED
      BY <1>2, <2>2, <3>1
  <2>5. ASSUME NEW k \in 1..n, k - 1 \in P PROVE k \in P
    <3>1. k > i => k - 1 >= i
      BY <1>2
    <3>2. k >= i => k = i \/ k > i
      BY <1>2
    <3> QED
      BY <1>2, <2>2, <2>3, <2>5, <3>1, <3>2
  <2> HIDE DEF P
  <2>6. \A k \in 0..n : k \in P
    BY <1>2, <2>4, <2>5, UpTo
  <2>7. n \in P
    BY <1>2, <2>6
  <2> QED
    BY <1>1, <1>2, <2>7 DEF P, Extends
<1> DEFINE P == {i \in 0..n : f[Len(u[i])] = [escaped |-> FALSE, text |-> SubSeq(s, 1, i)]}
<1>5. 0 \in P
  <2>1. SubSeq(s, 1, 0) = <<>> /\ Len(u[0]) = 0
    BY <1>1
  <2>2. f[Len(u[0])] = [escaped |-> FALSE, text |-> SubSeq(s, 1, 0)]
    BY <1>3, <2>1
  <2> QED
    BY <1>2, <2>2
<1>6. ASSUME NEW i \in 1..n, i - 1 \in P PROVE i \in P
  <2> DEFINE c == s[i]
             before == SubSeq(s, 1, i - 1)
             m == Len(u[i - 1])
             k == Len(e[i])
             Blank(b, text) == [escaped |-> b, text |-> text]
  <2>1. f[m] = Blank(FALSE, before)
    BY <1>6
  <2>2. Append(before, c) = SubSeq(s, 1, i)
    BY <1>2 DEF n
  <2>3. u[i] = u[i - 1] \o e[i] /\ u[i - 1] \in Seq(C) /\ e[i] \in Seq(C)
        /\ u[i] \in Seq(C) /\ i \in 0..n
    <3>1. i \in 0..n /\ i - 1 \in 0..n
      BY <1>2
    <3> QED
      BY <1>1, <1>2, <3>1
  <2>4. Len(u[i]) <= Len(t) /\ \A j \in 1..Len(u[i]) : t[j] = u[i][j]
    BY <1>4, <2>3
  <2>5. m \in Nat /\ k \in Nat /\ Len(u[i]) = m + k /\ \A j \in 1..k : u[i][m + j] = e[i][j]
    <3> DEFINE a == u[i - 1]
               b == e[i]
    <3>1. a \in Seq(C) /\ b \in Seq(C) /\ u[i] = a \o b
      BY <2>3
    <3> HIDE DEF a, b
    <3>2. /\ Len(a) \in Nat /\ Len(b) \in Nat /\ Len(u[i]) = Len(a) + Len(b)
          /\ \A j \in 1..Len(b) : u[i][Len(a) + j] = b[j]
      BY <3>1, Joined
    <3> QED
      BY <3>2 DEF a, b
  <2>6. Len(t) \in Nat
    BY <1>2
  <2>7. SUFFICES f[m + k] = Blank(FALSE, Append(before, c))
    <3>1. f[Len(u[i])] = Blank(FALSE, SubSeq(s, 1, i)) => i \in P
      BY <2>3
    <3> HIDE DEF P, Blank
    <3> QED
      BY <2>2, <2>5, <3>1
  <2> HIDE DEF c, before, m, P, k
  <2>8. ASSUME NEW j \in 1..k
        PROVE  f[m + j] = NextChar(f[m + j - 1], e[i][j])
    <3>1. /\ m + j \in 1..Len(t) /\ m + j \in 1..Len(u[i]) /\ m + j - 1 = (m + j) - 1
      BY <2>4, <2>5, <2>6
    <3>2. t[m + j] = e[i][j]
      BY <2>4, <2>5, <3>1
    <3> QED
      BY <1>3, <3>1, <3>2
  <2>9. CASE c \in {"quote", "backslash"}
    <3>1. e[i] = <<"backslash", c>> /\ k = 2
      BY <2>9 DEF Escaped, k, e, c
    <3>2. f[m + 1] = NextChar(f[m], "backslash") /\ f[m + 2] = NextChar(f[m + 1], c)
      <4>1. f[m + 1] = NextChar(f[m + 1 - 1], e[i][1]) /\ f[m + 2] = NextChar(f[m + 2 - 1], e[i][2])
        BY <2>8, <3>1, 1 \in 1..k, 2 \in 1..k
      <4> QED
        BY <2>5, <3>1, <4>1
    <3>3. c # "u"
      BY <2>9
    <3>4. f[m + 1] = Blank(TRUE, before)
      BY <2>1, <3>2, NextCharIs
    <3> HIDE DEF Blank
    <3>5. f[m + 2] = Blank(FALSE, Append(before, c))
      BY <3>2, <3>3, <3>4, NextCharIs DEF Blank
    <3> QED
      BY <3>1, <3>5
  <2>10. CASE c = "control"
    <3>1. e[i] = <<"backslash", "u", c>> /\ k = 3
      BY <2>10 DEF Escaped, k, e, c
    <3>2. /\ f[m + 1] = NextChar(f[m], "backslash") /\ f[m + 2] = NextChar(f[m + 1], "u")
          /\ f[m + 3] = NextChar(f[m + 2], c)
      <4>1. /\ f[m + 1] = NextChar(f[m + 1 - 1], e[i][1])
            /\ f[m + 2] = NextChar(f[m + 2 - 1], e[i][2])
            /\ f[m + 3] = NextChar(f[m + 3 - 1], e[i][3])
        BY <2>8, <3>1, 1 \in 1..k, 2 \in 1..k, 3 \in 1..k
      <4> QED
        BY <2>5, <3>1, <4>1
    <3>3. c # "u"
      BY <2>10
    <3>4. f[m + 1] = Blank(TRUE, before)
      BY <2>1, <3>2, NextCharIs
    <3>5. f[m + 2] = Blank(TRUE, before)
      BY <3>2, <3>4, NextCharIs
    <3>6. f[m + 3] = Blank(FALSE, Append(before, c))
      BY <3>2, <3>3, <3>5, NextCharIs
    <3> QED
      BY <3>1, <3>6
  <2>11. CASE c \notin {"quote", "backslash", "control"}
    <3>1. e[i] = <<c>> /\ k = 1
      BY <2>11 DEF Escaped, k, e, c
    <3>2. f[m + 1] = NextChar(f[m], c)
      <4>1. f[m + 1] = NextChar(f[m + 1 - 1], e[i][1])
        BY <2>8, <3>1, 1 \in 1..k
      <4> QED
        BY <2>5, <3>1, <4>1
    <3>3. f[m + 1] = Blank(FALSE, Append(before, c))
      BY <2>1, <2>11, <3>2, NextCharIs
    <3> QED
      BY <3>1, <3>3
  <2> QED
    BY <2>9, <2>10, <2>11
<1> HIDE DEF P
<1>7. \A i \in 0..n : i \in P
  BY <1>2, <1>5, <1>6, UpTo
<1>8. f[Len(t)].text = SubSeq(s, 1, n)
  <2>1. n \in P
    BY <1>2, <1>7
  <2> QED
    BY <1>1, <2>1 DEF P
<1> QED
  BY <1>3, <1>8 DEF t, n

-----------------------------------------------------------------------------
(* The body in base 64.                                                    *)

\* m bits of a body behind the first p ones.
Piece(b, p, m) == [k \in 1..m |-> Bit(b, p + k)]

\* The bits of the bytes of a set.
BitsOf(S) == [byte : S \cup {NoByte}, bit : Nat]

\* So many bits are a sequence of bits.
LEMMA PieceIsSeq ==
  ASSUME NEW S, NEW b \in Seq(S), NEW p \in Nat, NEW m \in Nat
  PROVE  Piece(b, p, m) \in Seq(BitsOf(S)) /\ Len(Piece(b, p, m)) = m
<1>1. ASSUME NEW k \in Nat, k >= 1 PROVE Bit(b, k) \in BitsOf(S)
  <2>1. CASE k <= 8 * Len(b)
    <3>1. (k - 1) \div 8 + 1 \in 1..Len(b) /\ ((k - 1) % 8) + 1 \in Nat
      BY <1>1, <2>1
    <3>2. b[(k - 1) \div 8 + 1] \in S
      BY <3>1
    <3> QED
      BY <2>1, <3>1, <3>2 DEF Bit, BitsOf
  <2>2. CASE ~(k <= 8 * Len(b))
    BY <2>2 DEF Bit, BitsOf
  <2> QED
    BY <2>1, <2>2
<1>2. \A k \in 1..m : Bit(b, p + k) \in BitsOf(S)
  <2> TAKE k \in 1..m
  <2>1. p + k \in Nat /\ p + k >= 1
    OBVIOUS
  <2> QED
    BY <1>1, <2>1
<1> DEFINE s == [k \in 1..m |-> Bit(b, p + k)]
<1>3. s \in [1..m -> BitsOf(S)]
  BY <1>2
<1> HIDE DEF s
<1>4. s \in Seq(BitsOf(S)) /\ Len(s) = m
  BY <1>3
<1> QED
  BY <1>4 DEF Piece, s

\* Bits behind one another.
LEMMA PieceJoin ==
  ASSUME NEW S, NEW b \in Seq(S), NEW p \in Nat, NEW m \in Nat, NEW n \in Nat
  PROVE  Piece(b, p, m) \o Piece(b, p + m, n) = Piece(b, p, m + n)
<1> DEFINE x == Piece(b, p, m)
           y == Piece(b, p + m, n)
           z == Piece(b, p, m + n)
           B == BitsOf(S)
<1>1. /\ x \in Seq(B) /\ Len(x) = m /\ y \in Seq(B) /\ Len(y) = n
      /\ z \in Seq(B) /\ Len(z) = m + n
  <2>1. p + m \in Nat /\ m + n \in Nat
    OBVIOUS
  <2> QED
    BY <2>1, PieceIsSeq, ZenonT(30)
<1>2. /\ \A k \in 1..m : x[k] = Bit(b, p + k)
      /\ \A k \in 1..n : y[k] = Bit(b, p + m + k)
      /\ \A k \in 1..(m + n) : z[k] = Bit(b, p + k)
  BY DEF Piece
<1> HIDE DEF x, y, z, B
<1>3. x \o y \in Seq(B) /\ Len(x \o y) = Len(z)
  BY <1>1, Joined
<1>4. ASSUME NEW k \in 1..(m + n) PROVE (x \o y)[k] = z[k]
  <2>1. CASE k <= m
    BY <1>1, <1>2, <2>1
  <2>2. CASE ~(k <= m)
    <3>1. k - m \in 1..n /\ p + m + (k - m) = p + k
      BY <2>2
    <3>2. (x \o y)[k] = y[k - m]
      <4>1. m + (k - m) = k
        OBVIOUS
      <4>2. (x \o y)[m + (k - m)] = y[k - m]
        <5> DEFINE j == k - m
        <5>1. j \in 1..Len(y) /\ x \in Seq(B) /\ y \in Seq(B) /\ Len(x) = m
          BY <1>1, <3>1
        <5> HIDE DEF j
        <5>2. (x \o y)[m + j] = y[j]
          BY <5>1, Joined
        <5> QED
          BY <5>2 DEF j
      <4> QED
        BY <4>1, <4>2
    <3> QED
      BY <1>2, <3>1, <3>2
  <2> QED
    BY <2>1, <2>2
<1>5. x \o y = z
  BY <1>1, <1>3, <1>4, SeqEqual
<1> QED
  BY <1>5 DEF x, y, z

\* A byte is taken off the bits that are held.
LEMMA PieceFrom ==
  ASSUME NEW S, NEW b \in Seq(S), NEW p \in Nat, NEW m \in Nat, m >= 8
  PROVE  From(Piece(b, p, m), 9) = Piece(b, p + 8, m - 8)
<1> DEFINE x == Piece(b, p, m)
           z == Piece(b, p + 8, m - 8)
           B == BitsOf(S)
<1>1. x \in Seq(B) /\ Len(x) = m /\ z \in Seq(B) /\ Len(z) = m - 8
  <2>1. p + 8 \in Nat /\ m - 8 \in Nat
    OBVIOUS
  <2> QED
    BY <2>1, PieceIsSeq, ZenonT(30)
<1>2. /\ \A k \in 1..m : x[k] = Bit(b, p + k)
      /\ \A k \in 1..(m - 8) : z[k] = Bit(b, p + 8 + k)
  BY DEF Piece
<1> HIDE DEF x, z, B
<1> DEFINE y == SubSeq(x, 9, m)
<1>3. y \in Seq(B) /\ Len(y) = m - 8 /\ \A k \in 1..(m - 8) : y[k] = x[8 + k]
  BY <1>1
<1> HIDE DEF y
<1>4. ASSUME NEW k \in 1..(m - 8) PROVE y[k] = z[k]
  <2>1. 8 + k \in 1..m /\ p + (8 + k) = p + 8 + k
    OBVIOUS
  <2> QED
    BY <1>2, <1>3, <2>1
<1>5. y = z
  BY <1>1, <1>3, <1>4, SeqEqual
<1> QED
  BY <1>1, <1>5 DEF x, y, z, From

\* Eight bits from the beginning of a byte are that byte.
LEMMA PieceIsByte ==
  ASSUME NEW S, NEW b \in Seq(S), NEW p \in Nat, p < Len(b), NEW m \in Nat, m >= 8
  PROVE  ByteOf(Piece(b, 8 * p, m)) = b[p + 1]
<1>1. ASSUME NEW k \in 1..8
      PROVE  Piece(b, 8 * p, m)[k] = [byte |-> b[p + 1], bit |-> k]
  <2>1. 8 * p + k <= 8 * Len(b) /\ (8 * p + k - 1) \div 8 = p /\ ((8 * p + k - 1) % 8) + 1 = k
    OBVIOUS
  <2>2. k \in 1..m
    OBVIOUS
  <2> QED
    BY <2>1, <2>2 DEF Piece, Bit
<1> HIDE DEF Piece
<1>2. Piece(b, 8 * p, m)[1].byte = b[p + 1]
  BY <1>1
<1> QED
  BY <1>1, <1>2 DEF ByteOf

\* The loop of b64ToBytes, digit by digit.
AreDigits(f, t, n) ==
    /\ f[0] = [buf |-> <<>>, out |-> <<>>]
    /\ \A i \in 1..n : f[i] = NextDigit(f[i - 1], t[i])
    /\ B64ToBytes(t) = f[n].out

\* The loop goes through any digits.
LEMMA DigitRounds ==
  ASSUME NEW S, NEW t, NEW n \in Nat, DOMAIN t = 1..n, Len(t) = n,
         \A i \in 1..n : t[i] \in Seq(BitsOf(S))
  PROVE  \E f : AreDigits(f, t, n)
<1> DEFINE B == BitsOf(S)
           C == S \cup {NoByte}
           T == [buf : Seq(B), out : Seq(C)]
           x == [buf |-> <<>>, out |-> <<>>]
           G == [i \in 1..n |-> [r \in T |-> NextDigit(r, t[i])]]
           Body(f) == [i \in 0..n |-> IF i = 0 THEN x ELSE NextDigit(f[i - 1], t[i])]
           F == CHOOSE f : f = Body(f)
<1>1. x \in T
  OBVIOUS
<1>2. ASSUME NEW r \in T, NEW d \in Seq(B) PROVE NextDigit(r, d) \in T
  <2> DEFINE buf == r.buf \o d
  <2>1. r.buf \in Seq(B) /\ r.out \in Seq(C)
    OBVIOUS
  <2> HIDE DEF B
  <2>2. buf \in Seq(B)
    BY <2>1
  <2>3. \A s \in Seq(B), o \in Seq(C) : [buf |-> s, out |-> o] \in T
    OBVIOUS
  <2> HIDE DEF T, buf
  <2>4. CASE Len(buf) < 8
    BY <2>1, <2>2, <2>3, <2>4 DEF NextDigit, buf
  <2>5. CASE ~(Len(buf) < 8)
    <3>1. From(buf, 9) \in Seq(B)
      BY <2>2, <2>5 DEF From
    <3>2. buf[1] \in B
      BY <2>2, <2>5
    <3>3. ByteOf(buf) \in C
      BY <3>2 DEF B, BitsOf, ByteOf
    <3> HIDE DEF C
    <3>4. Append(r.out, ByteOf(buf)) \in Seq(C)
      BY <2>1, <3>3, AppendProperties
    <3> QED
      BY <2>3, <2>5, <3>1, <3>4 DEF NextDigit, buf
  <2> QED
    BY <2>4, <2>5
<1> HIDE DEF T, C, x
<1>3. G \in [1..n -> [T -> T]]
  BY <1>2
<1> HIDE DEF G, B
<1>4. PICK f : AreRounds(f, n, T, x, G)
  BY <1>1, <1>3, Rounds
<1>5. ASSUME NEW i \in 1..n PROVE f[i] = NextDigit(f[i - 1], t[i])
  <2>1. f[i - 1] \in T
    BY <1>4 DEF AreRounds
  <2> QED
    BY <1>4, <2>1 DEF AreRounds, G
<1>6. f = Body(f)
  <2>1. \A i \in 0..n : f[i] = IF i = 0 THEN x ELSE NextDigit(f[i - 1], t[i])
    BY <1>4, <1>5 DEF AreRounds
  <2> QED
    BY <1>4, <2>1 DEF AreRounds
<1>7. F = Body(F)
  BY <1>6
<1>8. B64ToBytes(t) = F[n].out
  BY DEF B64ToBytes, x
<1> HIDE DEF F
<1>9. F[0] = x /\ \A i \in 1..n : F[i] = NextDigit(F[i - 1], t[i])
  BY <1>7
<1> QED
  BY <1>8, <1>9 DEF x, AreDigits

\* What base 64 makes of a sequence of bytes is read as these bytes, whatever
\* their number.
THEOREM Base64KeepsBytes ==
  ASSUME NEW S, NEW b \in Seq(S)
  PROVE  B64ToBytes(Base64Encode(b)) = b
<1> DEFINE l == Len(b)
           n == 4 * ((l + 2) \div 3)
           q == (8 * l + 5) \div 6
           t == Base64Encode(b)
           B == BitsOf(S)
           Done(i) == IF i <= q THEN 6 * i ELSE 6 * q
           After(i, p) ==
               [buf |-> Piece(b, 8 * p, Done(i) - 8 * p), out |-> SubSeq(b, 1, p)]
<1>1. /\ l \in Nat /\ n \in Nat /\ q \in Nat
      /\ 8 * l <= 6 * q /\ 6 * q < 8 * l + 6 /\ q <= n
  OBVIOUS
<1>2. /\ t = [d \in 1..n |-> IF 6 * (d - 1) < 8 * l
                               THEN [k \in 1..6 |-> Bit(b, 6 * (d - 1) + k)] ELSE Pad]
      /\ DOMAIN t = 1..n /\ Len(t) = n
  BY <1>1 DEF Base64Encode
<1> HIDE DEF t, l, n, q
<1>3. ASSUME NEW i \in 1..n
      PROVE  /\ i <= q => t[i] = Piece(b, 6 * (i - 1), 6)
             /\ i > q => t[i] = <<>>
             /\ t[i] \in Seq(B)
  <2>1. i - 1 \in Nat /\ 6 * (i - 1) \in Nat
    OBVIOUS
  <2>2. Piece(b, 6 * (i - 1), 6) \in Seq(B)
    BY <2>1, PieceIsSeq
  <2>3. i <= q <=> 6 * (i - 1) < 8 * l
    BY <1>1
  <2>4. CASE i <= q
    BY <1>1, <1>2, <2>2, <2>3, <2>4 DEF Piece
  <2>5. CASE ~(i <= q)
    BY <1>1, <1>2, <2>3, <2>5 DEF Pad
  <2> QED
    BY <1>1, <2>2, <2>4, <2>5
<1>4. PICK f : AreDigits(f, t, n)
  <2>1. \A i \in 1..n : t[i] \in Seq(BitsOf(S))
    BY <1>3
  <2> QED
    BY <1>1, <1>2, <2>1, DigitRounds
<1> DEFINE Fits(i, p) == 8 * p <= Done(i) /\ Done(i) < 8 * p + 8
           Fine(i) == \E p \in 0..l : Fits(i, p) /\ f[i] = After(i, p)
           P == {i \in 0..n : Fine(i)}
<1>5. 0 \in P
  <2>1. Fits(0, 0) /\ Done(0) - 8 * 0 = 0 /\ 8 * 0 = 0
    BY <1>1
  <2>2. Piece(b, 0, 0) = <<>> /\ SubSeq(b, 1, 0) = <<>>
    BY DEF Piece
  <2>3. f[0] = After(0, 0)
    BY <1>4, <2>1, <2>2 DEF AreDigits
  <2> HIDE DEF After, Fits
  <2> QED
    BY <1>1, <2>1, <2>3
<1>6. ASSUME NEW i \in 1..n, i - 1 \in P PROVE i \in P
  <2> HIDE DEF Fine
  <2>10. i \in 0..n
    BY <1>1
  <2>0. SUFFICES Fine(i)
    BY <2>10
  <2>1. PICK p \in 0..l : Fits(i - 1, p) /\ f[i - 1] = After(i - 1, p)
    BY <1>6 DEF Fine
  <2> HIDE DEF P
  <2>2. f[i] = NextDigit(After(i - 1, p), t[i])
    BY <1>4, <2>1 DEF AreDigits
  <2>3. i - 1 \in Nat /\ p \in Nat /\ Done(i - 1) \in Nat
    BY <1>1
  <2> DEFINE r == Done(i - 1) - 8 * p
             old == Piece(b, 8 * p, r)
             out == SubSeq(b, 1, p)
  <2>4. r \in Nat /\ r < 8 /\ 8 * p \in Nat
    BY <2>1, <2>3
  <2>5. old \in Seq(B) /\ Len(old) = r
    BY <2>4, PieceIsSeq
  <2>9. f[i] = NextDigit([buf |-> old, out |-> out], t[i])
    BY <2>2
  <2> HIDE DEF r
  <2>6. CASE i > q
    <3>1. t[i] = <<>> /\ Done(i) = Done(i - 1)
      BY <1>1, <1>3, <2>6
    <3>2. old \o t[i] = old
      BY <2>5, <3>1
    <3>3. NextDigit([buf |-> old, out |-> out], t[i]) = [buf |-> old, out |-> out]
      BY <2>4, <2>5, <3>2 DEF NextDigit
    <3>4. Fits(i, p) /\ f[i] = After(i, p)
      BY <2>1, <2>9, <3>1, <3>3 DEF r
    <3> HIDE DEF Fits, After
    <3> QED
      BY <3>4 DEF Fine
  <2>7. CASE i <= q
    <3>1. /\ t[i] = Piece(b, 6 * (i - 1), 6) /\ Done(i - 1) = 6 * (i - 1) /\ Done(i) = 6 * i
      BY <1>1, <1>3, <2>7
    <3>2. /\ r + 6 = 6 * i - 8 * p /\ 8 * p + r = 6 * (i - 1)
          /\ r + 6 \in Nat
      BY <2>3, <2>4, <3>1 DEF r
    <3> DEFINE new == Piece(b, 8 * p, r + 6)
    <3>3. old \o t[i] = new
      <4> DEFINE o == 8 * p
      <4>0. o \in Nat /\ 6 \in Nat /\ r \in Nat
        BY <2>4
      <4> HIDE DEF o
      <4>2. Piece(b, o, r) \o Piece(b, o + r, 6) = Piece(b, o, r + 6)
        BY <4>0, PieceJoin
      <4>1. old \o Piece(b, 8 * p + r, 6) = new
        BY <4>2 DEF o
      <4> QED
        BY <3>1, <3>2, <4>1
    <3>4. new \in Seq(B) /\ Len(new) = r + 6
      BY <2>4, <3>2, PieceIsSeq, ZenonT(30)
    <3>5. NextDigit([buf |-> old, out |-> out], t[i])
            = IF r + 6 < 8 THEN [buf |-> new, out |-> out]
              ELSE [buf |-> From(new, 9), out |-> Append(out, ByteOf(new))]
      BY <3>3, <3>4 DEF NextDigit
    <3>6. CASE r + 6 < 8
      <4>1. Fits(i, p)
        <5>1. 8 * p <= 6 * i /\ 6 * i < 8 * p + 8
          BY <2>3, <2>4, <3>2, <3>6
        <5> QED
          BY <3>1, <5>1
      <4>2. f[i] = After(i, p)
        <5>1. Done(i) - 8 * p = r + 6
          BY <3>1, <3>2
        <5> QED
          BY <2>9, <3>5, <3>6, <5>1
      <4> HIDE DEF Fits, After
      <4> QED
        BY <4>1, <4>2 DEF Fine
    <3>7. CASE ~(r + 6 < 8)
      <4>1. p + 1 \in 0..l /\ p < l /\ 8 * (p + 1) = 8 * p + 8
        BY <1>1, <2>3, <2>4, <2>7, <3>1, <3>2, <3>7
      <4>2. From(new, 9) = Piece(b, 8 * (p + 1), Done(i) - 8 * (p + 1))
        <5>1. r + 6 \in Nat /\ r + 6 >= 8 /\ (r + 6) - 8 = Done(i) - 8 * (p + 1)
          BY <2>4, <3>1, <3>2, <3>7
        <5> QED
          BY <2>4, <4>1, <5>1, PieceFrom
      <4>3. ByteOf(new) = b[p + 1]
        BY <2>3, <2>4, <3>7, <4>1, PieceIsByte DEF l
      <4>4. Append(out, b[p + 1]) = SubSeq(b, 1, p + 1)
        BY <2>3, <4>1 DEF l
      <4>5. f[i] = After(i, p + 1)
        BY <2>9, <3>5, <3>7, <4>2, <4>3, <4>4
      <4>6. Fits(i, p + 1)
        BY <2>3, <2>4, <3>1, <3>2, <3>7
      <4> HIDE DEF Fits, After
      <4> QED
        BY <4>1, <4>5, <4>6 DEF Fine
    <3> QED
      BY <3>6, <3>7
  <2>8. i \in Int /\ q \in Int
    BY <1>1
  <2> QED
    BY <2>6, <2>7, <2>8
<1> HIDE DEF P
<1>7. \A i \in 0..n : i \in P
  BY <1>1, <1>5, <1>6, UpTo
<1>8. n \in P
  BY <1>1, <1>7
<1>9. PICK p \in 0..l : Fits(n, p) /\ f[n] = After(n, p)
  BY <1>8 DEF P
<1>10. p = l
  BY <1>1, <1>9
<1> QED
  BY <1>4, <1>9, <1>10 DEF t, l, AreDigits

-----------------------------------------------------------------------------
(* Where something is in a sequence.                                       *)

\* The least of a set.
LEMMA MinIs ==
  ASSUME NEW I, NEW m \in I, I \subseteq Int, \A j \in I : m <= j
  PROVE  Min(I) = m
<1>1. \A x \in I : (\A j \in I : x <= j) => x = m
  OBVIOUS
<1> QED
  BY <1>1 DEF Min

\* The greatest of a set.
LEMMA MaxIs ==
  ASSUME NEW I, NEW m \in I, I \subseteq Int, \A j \in I : m >= j
  PROVE  Max(I) = m
<1>1. \A x \in I : (\A j \in I : x >= j) => x = m
  OBVIOUS
<1> QED
  BY <1>1 DEF Max

\* What FirstOf, LastOf and LineOf find.
LEMMA FirstIs ==
  ASSUME NEW s, NEW x, NEW k, Len(s) \in Nat,
         \/ k \in 1..Len(s) /\ s[k] = x /\ \A i \in 1..(k - 1) : s[i] # x
         \/ k = 0 /\ \A i \in 1..Len(s) : s[i] # x
  PROVE  FirstOf(s, x) = k
<1> DEFINE I == {i \in 1..Len(s) : s[i] = x}
<1>1. FirstOf(s, x) = IF I # {} THEN Min(I) ELSE 0
  BY DEF FirstOf, SelectInSeq
<1>2. CASE k \in 1..Len(s) /\ s[k] = x /\ \A i \in 1..(k - 1) : s[i] # x
  <2>1. k \in I /\ I \subseteq Int /\ \A j \in I : k <= j
    BY <1>2
  <2> HIDE DEF I
  <2>2. Min(I) = k
    BY <2>1, MinIs
  <2> QED
    BY <1>1, <2>1, <2>2
<1>3. CASE k = 0 /\ \A i \in 1..Len(s) : s[i] # x
  <2>1. I = {}
    BY <1>3
  <2> QED
    BY <1>1, <1>3, <2>1
<1> QED
  BY <1>2, <1>3

LEMMA LastIs ==
  ASSUME NEW s, NEW x, NEW k, Len(s) \in Nat,
         \/ k \in 1..Len(s) /\ s[k] = x /\ \A i \in (k + 1)..Len(s) : s[i] # x
         \/ k = 0 /\ \A i \in 1..Len(s) : s[i] # x
  PROVE  LastOf(s, x) = k
<1> DEFINE I == {i \in 1..Len(s) : s[i] = x}
<1>1. LastOf(s, x) = IF I # {} THEN Max(I) ELSE 0
  BY DEF LastOf, SelectLastInSeq
<1>2. CASE k \in 1..Len(s) /\ s[k] = x /\ \A i \in (k + 1)..Len(s) : s[i] # x
  <2>1. k \in I /\ I \subseteq Int /\ \A j \in I : k >= j
    BY <1>2
  <2> HIDE DEF I
  <2>2. Max(I) = k
    BY <2>1, MaxIs
  <2> QED
    BY <1>1, <2>1, <2>2
<1>3. CASE k = 0 /\ \A i \in 1..Len(s) : s[i] # x
  <2>1. I = {}
    BY <1>3
  <2> QED
    BY <1>1, <1>3, <2>1
<1> QED
  BY <1>2, <1>3

LEMMA LineIs ==
  ASSUME NEW s, NEW x, NEW k, Len(s) \in Nat,
         \/ k \in 1..Len(s) /\ s[k].kind = x /\ \A i \in 1..(k - 1) : s[i].kind # x
         \/ k = 0 /\ \A i \in 1..Len(s) : s[i].kind # x
  PROVE  LineOf(s, x) = k
<1> DEFINE I == {i \in 1..Len(s) : s[i].kind = x}
<1>1. LineOf(s, x) = IF I # {} THEN Min(I) ELSE 0
  BY DEF LineOf, SelectInSeq
<1>2. CASE k \in 1..Len(s) /\ s[k].kind = x /\ \A i \in 1..(k - 1) : s[i].kind # x
  <2>1. k \in I /\ I \subseteq Int /\ \A j \in I : k <= j
    BY <1>2
  <2> HIDE DEF I
  <2>2. Min(I) = k
    BY <2>1, MinIs
  <2> QED
    BY <1>1, <2>1, <2>2
<1>3. CASE k = 0 /\ \A i \in 1..Len(s) : s[i].kind # x
  <2>1. I = {}
    BY <1>3
  <2> QED
    BY <1>1, <1>3, <2>1
<1> QED
  BY <1>2, <1>3

-----------------------------------------------------------------------------
(* URLs.                                                                   *)

\* What stands before and behind a place in two sequences joined there.
LEMMA Parted ==
  ASSUME NEW C, NEW a \in Seq(C), NEW b \in Seq(C)
  PROVE  /\ Upto(a \o b, Len(a) + 1) = a /\ From(a \o b, Len(a) + 1) = b
         /\ SubSeq(a \o b, 1, Len(a)) = a
<1> DEFINE s == a \o b
<1>1. /\ s \in Seq(C) /\ Len(a) \in Nat /\ Len(b) \in Nat /\ Len(s) = Len(a) + Len(b)
      /\ \A j \in 1..Len(a) : s[j] = a[j]
      /\ \A j \in 1..Len(b) : s[Len(a) + j] = b[j]
  BY Joined
<1> HIDE DEF s
<1>2. SubSeq(s, 1, Len(a)) = a
  <2> DEFINE x == SubSeq(s, 1, Len(a))
  <2>1. x \in Seq(C) /\ Len(x) = Len(a) /\ \A j \in 1..Len(a) : x[j] = s[j]
    BY <1>1
  <2> HIDE DEF x
  <2>2. x = a
    BY <1>1, <2>1, SeqEqual
  <2> QED
    BY <2>2 DEF x
<1>3. SubSeq(s, Len(a) + 1, Len(s)) = b
  <2> DEFINE x == SubSeq(s, Len(a) + 1, Len(s))
  <2>1. x \in Seq(C) /\ Len(x) = Len(b) /\ \A j \in 1..Len(b) : x[j] = s[Len(a) + j]
    BY <1>1
  <2> HIDE DEF x
  <2>2. x = b
    BY <1>1, <2>1, SeqEqual
  <2> QED
    BY <2>2 DEF x
<1>4. (Len(a) + 1) - 1 = Len(a)
  BY <1>1
<1> QED
  BY <1>2, <1>3, <1>4 DEF s, Upto, From

\* A part of a sequence is what stands there.
LEMMA CutIs ==
  ASSUME NEW C, NEW s \in Seq(C), NEW t \in Seq(C), NEW i \in Nat, i >= 1,
         i + Len(t) - 1 <= Len(s), \A k \in 1..Len(t) : s[i + k - 1] = t[k]
  PROVE  SubSeq(s, i, i + Len(t) - 1) = t
<1> DEFINE j == i + Len(t) - 1
           x == SubSeq(s, i, j)
<1>1. Len(t) \in Nat /\ Len(s) \in Nat /\ j \in Int /\ j - i + 1 = Len(t)
  OBVIOUS
<1>2. x \in Seq(C) /\ Len(x) = Len(t) /\ \A k \in 1..Len(t) : x[k] = s[i + k - 1]
  BY <1>1
<1> HIDE DEF x
<1>3. x = t
  BY <1>2, SeqEqual
<1> QED
  BY <1>3 DEF x

\* The text of a host and a port is taken apart into these.
LEMMA HostPortIs ==
  ASSUME NEW u, IsUrl(u), NEW path
  PROVE  HostPort(HostText(u) \o PortText(u), path)
           = {[host |-> u.host, port |-> IF u.port = <<>> THEN <<"80">> ELSE u.port, path |-> path]}
<1> DEFINE A == STRING \cup {"[", "]", ":"}
           h == u.host
           q == u.port
           H == HostText(u)
           P == PortText(u)
           s == H \o P
           m == Len(H)
<1>1. /\ h \in Seq(A) /\ q \in Seq(A) /\ {"[", "]", ":"} \subseteq A
      /\ u.brackets \in BOOLEAN
      /\ \A i \in 1..Len(h) : h[i] # "]" /\ h[i] # "[" /\ (~u.brackets => h[i] # ":")
      /\ \A i \in 1..Len(q) : q[i] # "]" /\ q[i] # ":"
  <2>1. u.host \in Seq(STRING) /\ u.port \in Seq(STRING) /\ u.brackets \in BOOLEAN
    BY DEF IsUrl
  <2>2. /\ \A i \in DOMAIN u.host : u.host[i] \notin {"/", "[", "]", "http://", "https://"}
                                        \cup (IF u.brackets THEN {} ELSE {":"})
        /\ \A i \in DOMAIN u.port : u.port[i] \notin {"/", "]", ":"}
    BY DEF IsUrl
  <2>3. DOMAIN u.host = 1..Len(u.host) /\ DOMAIN u.port = 1..Len(u.port)
    BY <2>1
  <2>4. \A i \in 1..Len(u.host) :
           u.host[i] # "]" /\ u.host[i] # "[" /\ (~u.brackets => u.host[i] # ":")
    BY <2>2, <2>3
  <2>5. \A i \in 1..Len(u.port) : u.port[i] # "]" /\ u.port[i] # ":"
    BY <2>2, <2>3
  <2>6. /\ {"[", "]", ":"} \subseteq A
        /\ u.host \in Seq(A) /\ u.port \in Seq(A)
    BY <2>1
  <2> QED
    BY <2>1, <2>4, <2>5, <2>6
<1> HIDE DEF A
<1>2. /\ P \in Seq(A) /\ (q = <<>> => P = <<>> /\ Len(P) = 0)
      /\ q # <<>> => Len(P) = Len(q) + 1 /\ P[1] = ":" /\ \A i \in 1..Len(q) : P[1 + i] = q[i]
  BY <1>1 DEF PortText
<1>3. /\ H \in Seq(A)
      /\ ~u.brackets => H = h
      /\ u.brackets => /\ Len(H) = Len(h) + 2 /\ H[1] = "[" /\ H[Len(h) + 2] = "]"
                       /\ \A i \in 1..Len(h) : H[1 + i] = h[i]
  <2>1. CASE ~u.brackets
    BY <1>1, <2>1 DEF HostText
  <2>2. CASE u.brackets
    <3> DEFINE g == <<"[">> \o h
    <3>1. <<"[">> \in Seq(A) /\ <<"]">> \in Seq(A) /\ Len(<<"[">>) = 1 /\ Len(<<"]">>) = 1
          /\ <<"[">>[1] = "[" /\ <<"]">>[1] = "]"
      BY <1>1
    <3>2. /\ g \in Seq(A) /\ Len(g) = 1 + Len(h) /\ g[1] = "[" /\ Len(h) \in Nat
          /\ \A i \in 1..Len(h) : g[1 + i] = h[i]
      BY <1>1, <3>1, Joined
    <3>3. H = g \o <<"]">>
      BY <2>2 DEF HostText
    <3> HIDE DEF g, H, h
    <3>4. /\ H \in Seq(A) /\ Len(H) = Len(g) + 1 /\ H[Len(g) + 1] = "]"
          /\ \A i \in 1..Len(g) : H[i] = g[i]
      BY <3>1, <3>2, <3>3, Joined
    <3>5. Len(g) + 1 = Len(h) + 2 /\ Len(g) = 1 + Len(h)
      BY <3>2
    <3>6. ASSUME NEW i \in 1..Len(h) PROVE H[1 + i] = h[i]
      <4>1. 1 + i \in 1..Len(g)
        BY <3>2, <3>5
      <4> QED
        BY <3>2, <3>4, <4>1
    <3>7. H[1] = "["
      BY <3>2, <3>4
    <3> QED
      BY <2>2, <3>4, <3>5, <3>6, <3>7
  <2> QED
    BY <1>1, <2>1, <2>2
<1> HIDE DEF h, q, H, P
<1>4. /\ s \in Seq(A) /\ Len(s) = m + Len(P) /\ m \in Nat /\ Len(P) \in Nat
      /\ \A i \in 1..m : s[i] = H[i]
      /\ \A i \in 1..Len(P) : s[m + i] = P[i]
  BY <1>2, <1>3, Joined
<1>5. Len(h) \in Nat /\ Len(q) \in Nat
  BY <1>1
<1> HIDE DEF s, m
<1>6. q # <<>> => From(s, m + 2) = q /\ s[m + 1] = ":" /\ m + 1 <= Len(s)
  <2> SUFFICES ASSUME q # <<>> PROVE From(s, m + 2) = q /\ s[m + 1] = ":" /\ m + 1 <= Len(s)
    OBVIOUS
  <2>1. Len(s) = m + 1 + Len(q) /\ s[m + 1] = ":"
    <3>1. 1 \in 1..Len(P) /\ Len(P) = Len(q) + 1 /\ P[1] = ":"
      BY <1>2, <1>5
    <3>2. s[m + 1] = P[1] /\ Len(s) = m + Len(P)
      BY <1>4, <3>1
    <3>3. \A l, x, y \in Nat : x = y + 1 => l + x = l + 1 + y
      OBVIOUS
    <3> QED
      BY <1>4, <1>5, <3>1, <3>2, <3>3
  <2>2. \A k \in 1..Len(q) : s[(m + 2) + k - 1] = q[k]
    <3> TAKE k \in 1..Len(q)
    <3>1. k \in Int /\ k >= 1 /\ k <= Len(q)
      BY <1>5
    <3>2. 1 + k \in 1..Len(P)
      BY <1>2, <1>4, <1>5, <3>1
    <3>3. m + (1 + k) = (m + 2) + k - 1
      BY <1>4, <3>1
    <3>4. s[m + (1 + k)] = P[1 + k] /\ P[1 + k] = q[k]
      BY <1>2, <1>4, <3>2
    <3> QED
      BY <3>3, <3>4
  <2>3. (m + 2) + Len(q) - 1 = Len(s) /\ m + 2 \in Nat /\ m + 2 >= 1
    BY <1>4, <1>5, <2>1, SMTT(30)
  <2>4. SubSeq(s, m + 2, (m + 2) + Len(q) - 1) = q
    <3> DEFINE i == m + 2
    <3> HIDE DEF i
    <3>1. i \in Nat /\ i >= 1 /\ i + Len(q) - 1 <= Len(s) /\ \A k \in 1..Len(q) : s[i + k - 1] = q[k]
      BY <1>4, <1>5, <2>2, <2>3 DEF i
    <3>2. SubSeq(s, i, i + Len(q) - 1) = q
      BY <1>1, <1>4, <3>1, CutIs
    <3> QED
      BY <3>2 DEF i
  <2> QED
    BY <1>4, <1>5, <2>1, <2>3, <2>4 DEF From
<1>7. q = <<>> => m = Len(s)
  BY <1>2, <1>4
<1>8. CASE u.brackets
  <2>1. m = Len(h) + 2 /\ s[1] = "[" /\ s[m] = "]" /\ \A i \in 1..Len(h) : s[1 + i] = h[i]
    BY <1>3, <1>4, <1>5, <1>8 DEF m
  <2>2. FirstOf(s, "]") = m
    <3>1. ASSUME NEW i \in 1..(m - 1) PROVE s[i] # "]"
      <4>1. CASE i = 1
        BY <2>1, <4>1
      <4>2. CASE i # 1
        <5>1. i - 1 \in 1..Len(h) /\ 1 + (i - 1) = i
          BY <1>5, <2>1, <4>2
        <5> QED
          BY <1>1, <2>1, <5>1
      <4> QED
        BY <4>1, <4>2
    <3>2. m \in 1..Len(s) /\ Len(s) \in Nat
      BY <1>4, <1>5, <2>1
    <3> QED
      BY <2>1, <3>1, <3>2, FirstIs
  <2>3. SubSeq(s, 2, m - 1) = h
    <3>1. 2 + Len(h) - 1 = m - 1 /\ 2 + Len(h) - 1 <= Len(s)
      BY <1>4, <1>5, <2>1
    <3>2. \A k \in 1..Len(h) : s[2 + k - 1] = h[k]
      <4> TAKE k \in 1..Len(h)
      <4>1. 2 + k - 1 = 1 + k
        OBVIOUS
      <4> QED
        BY <2>1, <4>1
    <3>3. SubSeq(s, 2, 2 + Len(h) - 1) = h
      BY <1>1, <1>4, <3>1, <3>2, CutIs
    <3> QED
      BY <3>1, <3>3
  <2>4. s # <<>> /\ m # 0
    BY <1>4, <1>5, <2>1
  <2>5. CASE q = <<>>
    <3>1. ~(m < Len(s))
      BY <1>4, <1>7, <2>5
    <3> QED
      BY <2>1, <2>2, <2>3, <2>4, <2>5, <3>1 DEF HostPort, h, q, H, P, s
  <2>6. CASE q # <<>>
    <3>1. m < Len(s) /\ s[m + 1] = ":" /\ From(s, m + 2) = q
      BY <1>4, <1>6, <2>6
    <3> QED
      BY <2>1, <2>2, <2>3, <2>4, <2>6, <3>1 DEF HostPort, h, q, H, P, s
  <2> QED
    BY <2>5, <2>6
<1>9. CASE ~u.brackets
  <2>1. H = h /\ m = Len(h)
    BY <1>3, <1>9 DEF m
  <2>2. \A i \in 1..m : s[i] # ":" /\ s[i] # "["
    BY <1>1, <1>4, <1>9, <2>1
  <2>3. CASE q = <<>>
    <3>1. P = <<>> /\ m = Len(s)
      BY <1>2, <1>7, <2>3
    <3>2. s = h
      BY <1>1, <2>1, <3>1 DEF s
    <3>3. LastOf(s, ":") = 0
      BY <1>4, <2>2, <3>1, LastIs
    <3>4. ~(s # <<>> /\ s[1] = "[")
      BY <1>4, <2>2, <3>1
    <3> QED
      BY <2>3, <3>2, <3>3, <3>4 DEF HostPort, h, q, H, P, s
  <2>4. CASE q # <<>>
    <3>1. /\ s[m + 1] = ":" /\ Len(s) = m + 1 + Len(q) /\ m + 1 \in 1..Len(s)
          /\ \A i \in (m + 2)..Len(s) : s[i] # ":"
      <4>1. s[m + 1] = ":" /\ Len(s) = m + 1 + Len(q) /\ m + 1 \in 1..Len(s)
        <5>1. Len(P) = Len(q) + 1 /\ Len(s) = m + Len(P) /\ s[m + 1] = ":" /\ m + 1 <= Len(s)
          BY <1>2, <1>4, <1>6, <2>4
        <5>2. \A l, x, y \in Nat : x = y + 1 => l + x = l + 1 + y
          OBVIOUS
        <5> QED
          BY <1>4, <1>5, <5>1, <5>2
      <4>2. ASSUME NEW i \in (m + 2)..Len(s) PROVE s[i] # ":"
        <5>1. i - m - 1 \in 1..Len(q) /\ i - m \in 1..Len(P) /\ m + (i - m) = i /\ 1 + (i - m - 1) = i - m
          BY <1>2, <1>4, <1>5, <2>4, <4>1
        <5>2. s[m + (i - m)] = P[i - m] /\ P[1 + (i - m - 1)] = q[i - m - 1]
          BY <1>2, <1>4, <2>4, <5>1
        <5> QED
          BY <1>1, <5>1, <5>2
      <4> QED
        BY <4>1, <4>2
    <3>2. LastOf(s, ":") = m + 1
      <4> DEFINE k == m + 1
      <4>1. /\ Len(s) \in Nat /\ k \in 1..Len(s) /\ s[k] = ":"
            /\ \A i \in (k + 1)..Len(s) : s[i] # ":"
        BY <1>4, <3>1
      <4> HIDE DEF k
      <4>2. LastOf(s, ":") = k
        BY <4>1, LastIs
      <4> QED
        BY <4>2 DEF k
    <3>3. s[1] # "["
      <4>1. CASE m = 0
        BY <3>1, <4>1
      <4>2. CASE m # 0
        BY <1>4, <2>2, <4>2
      <4> QED
        BY <4>1, <4>2
    <3>4. Upto(s, m + 1) = h
      BY <1>2, <1>3, <2>1, Parted DEF s, m
    <3>5. From(s, (m + 1) + 1) = q /\ m + 1 # 0
      BY <1>4, <1>6, <2>4
    <3> QED
      BY <2>4, <3>2, <3>3, <3>4, <3>5 DEF HostPort, h, q, H, P, s
  <2> QED
    BY <2>3, <2>4
<1> QED
  BY <1>1, <1>8, <1>9

\* A sequence of things that are all in a set is one over the set.
LEMMA SeqOver ==
  ASSUME NEW C, NEW s \in Seq(C), NEW B, \A i \in 1..Len(s) : s[i] \in B
  PROVE  s \in Seq(B)
<1>1. Len(s) \in Nat /\ s = [i \in 1..Len(s) |-> s[i]]
  OBVIOUS
<1> DEFINE n == Len(s)
<1>2. n \in Nat /\ s \in [1..n -> B]
  BY <1>1
<1> HIDE DEF n
<1> QED
  BY <1>2

\* The text of a host and a port has no slash, and does not begin with a scheme.
LEMMA HostPortText ==
  ASSUME NEW u, IsUrl(u), NEW B,
         B = (STRING \cup {"[", "]", ":", "http://", "https://"}) \ {"/"}
  PROVE  /\ HostText(u) \o PortText(u) \in Seq(B)
         /\ HostText(u) \o PortText(u) # <<>> =>
              (HostText(u) \o PortText(u))[1] \notin {"http://", "https://"}
<1> DEFINE h == u.host
           q == u.port
           H == HostText(u)
           P == PortText(u)
           s == H \o P
<1>1. /\ h \in Seq(STRING) /\ q \in Seq(STRING) /\ u.brackets \in BOOLEAN
      /\ \A i \in DOMAIN h : h[i] \notin {"/", "[", "]", "http://", "https://"}
                                  \cup (IF u.brackets THEN {} ELSE {":"})
      /\ \A i \in DOMAIN q : q[i] \notin {"/", "]", ":"}
  BY DEF IsUrl
<1> HIDE DEF h, q
<1>2. \A i \in 1..Len(h) : h[i] \in B /\ h[i] \notin {"http://", "https://"}
  <2> TAKE i \in 1..Len(h)
  <2>1. h[i] \in STRING /\ i \in DOMAIN h
    BY <1>1
  <2>2. h[i] # "/" /\ h[i] # "http://" /\ h[i] # "https://"
    BY <1>1, <2>1
  <2> QED
    BY <2>1, <2>2
<1>3. \A i \in 1..Len(q) : q[i] \in B
  <2> TAKE i \in 1..Len(q)
  <2>1. q[i] \in STRING /\ i \in DOMAIN q
    BY <1>1
  <2>2. q[i] # "/"
    BY <1>1, <2>1
  <2> QED
    BY <2>1, <2>2
<1>4. h \in Seq(B) /\ q \in Seq(B)
  BY <1>1, <1>2, <1>3, SeqOver
<1>5. {"[", "]", ":"} \subseteq B
  OBVIOUS
<1> HIDE DEF H, P
<1>6. P \in Seq(B) /\ (P # <<>> => P[1] = ":")
  <2>1. CASE q = <<>>
    BY <2>1 DEF P, PortText, q
  <2>2. CASE q # <<>>
    <3>1. <<":">> \in Seq(B) /\ Len(<<":">>) = 1 /\ <<":">>[1] = ":"
      BY <1>5
    <3>2. P = <<":">> \o q
      BY <2>2 DEF P, PortText, q
    <3> QED
      BY <1>4, <3>1, <3>2, Joined
  <2> QED
    BY <2>1, <2>2
<1>7. H \in Seq(B) /\ (H # <<>> => H[1] \notin {"http://", "https://"})
  <2>1. CASE ~u.brackets
    BY <1>2, <1>4, <2>1 DEF H, HostText, h
  <2>2. CASE u.brackets
    <3> DEFINE g == <<"[">> \o h
    <3>1. <<"[">> \in Seq(B) /\ <<"]">> \in Seq(B) /\ Len(<<"[">>) = 1 /\ <<"[">>[1] = "["
      BY <1>5
    <3>2. g \in Seq(B) /\ Len(g) = 1 + Len(h) /\ g[1] = "[" /\ Len(h) \in Nat
      BY <1>4, <3>1, Joined
    <3>3. H = g \o <<"]">>
      BY <2>2 DEF H, HostText, h
    <3> HIDE DEF g
    <3>4. H \in Seq(B) /\ (1 \in 1..Len(g) => H[1] = g[1])
      BY <3>1, <3>2, <3>3, Joined
    <3> QED
      BY <3>2, <3>4
  <2> QED
    BY <1>1, <2>1, <2>2
<1>8. /\ s \in Seq(B) /\ Len(H) \in Nat /\ Len(P) \in Nat /\ Len(s) = Len(H) + Len(P)
      /\ \A j \in 1..Len(H) : s[j] = H[j]
      /\ \A j \in 1..Len(P) : s[Len(H) + j] = P[j]
  BY <1>6, <1>7, Joined
<1> HIDE DEF s
<1>9. s # <<>> => s[1] \notin {"http://", "https://"}
  <2> SUFFICES ASSUME s # <<>> PROVE s[1] \notin {"http://", "https://"}
    OBVIOUS
  <2>1. CASE Len(H) = 0
    <3>1. 1 \in 1..Len(P) /\ Len(H) + 1 = 1
      BY <1>8, <2>1
    <3>2. s[Len(H) + 1] = P[1] /\ P # <<>>
      BY <1>6, <1>8, <3>1
    <3> QED
      BY <1>6, <3>1, <3>2
  <2>2. CASE Len(H) # 0
    <3>1. 1 \in 1..Len(H) /\ H # <<>>
      BY <1>7, <1>8, <2>2
    <3> QED
      BY <1>7, <1>8, <3>1
  <2> QED
    BY <2>1, <2>2
<1> QED
  BY <1>8, <1>9 DEF s, H, P

\* What is asked for is the URL as it was named: its scheme, host, port and
\* path are found again in its text, unless there is nothing to ask (parseUrl).
THEOREM UrlIsParsed ==
  ASSUME NEW u, IsUrl(u)
  PROVE  ParseUrl(UrlText(u)) = IF u.scheme = <<"https://">> \/ u.host = <<>> THEN {} ELSE {Named(u)}
<1> DEFINE A == STRING \cup {"[", "]", ":", "/", "http://", "https://"}
           B == (STRING \cup {"[", "]", ":", "http://", "https://"}) \ {"/"}
           D == HostText(u) \o PortText(u)
           p == u.path
           X == D \o p
           s == UrlText(u)
           Parts(path) == {[host |-> u.host, port |-> IF u.port = <<>> THEN <<"80">> ELSE u.port,
                            path |-> path]}
<1>1. /\ p \in Seq(STRING) /\ u.scheme \in {<<>>, <<"http://">>, <<"https://">>}
      /\ p # <<>> => p[1] = "/"
  BY DEF IsUrl
<1>2. \A path : HostPort(D, path) = Parts(path)
  BY HostPortIs
<1>3. D \in Seq(B) /\ (D # <<>> => D[1] \notin {"http://", "https://"})
  BY HostPortText
<1>4. /\ D \in Seq(A) /\ p \in Seq(A) /\ {"http://", "https://"} \subseteq A
      /\ \A i \in 1..Len(D) : D[i] # "/"
  BY <1>1, <1>3
<1>5. s = u.scheme \o X
  BY DEF UrlText
<1> HIDE DEF A, B, D, p, s
<1>6. /\ X \in Seq(A) /\ Len(D) \in Nat /\ Len(p) \in Nat /\ Len(X) = Len(D) + Len(p)
      /\ \A j \in 1..Len(D) : X[j] = D[j]
      /\ \A j \in 1..Len(p) : X[Len(D) + j] = p[j]
      /\ Upto(X, Len(D) + 1) = D /\ From(X, Len(D) + 1) = p
  BY <1>4, Joined, Parted
<1> HIDE DEF X
<1>7. X # <<>> => X[1] \notin {"http://", "https://"}
  <2> SUFFICES ASSUME X # <<>> PROVE X[1] \notin {"http://", "https://"}
    OBVIOUS
  <2>1. CASE Len(D) = 0
    <3>1. 1 \in 1..Len(p) /\ Len(D) + 1 = 1
      BY <1>6, <2>1
    <3>2. X[Len(D) + 1] = p[1] /\ p # <<>>
      BY <1>4, <1>6, <3>1
    <3> QED
      BY <1>1, <3>1, <3>2
  <2>2. CASE Len(D) # 0
    <3>1. 1 \in 1..Len(D) /\ D # <<>>
      BY <1>4, <1>6, <2>2
    <3> QED
      BY <1>3, <1>6, <3>1
  <2> QED
    BY <2>1, <2>2
<1>8. /\ FirstOf(X, "/") = IF p = <<>> THEN 0 ELSE Len(D) + 1
      /\ p = <<>> => X = D
  <2>1. CASE p = <<>>
    <3>1. X = D
      BY <1>4, <2>1 DEF X
    <3>2. FirstOf(X, "/") = 0
      BY <1>4, <1>6, <3>1, FirstIs
    <3> QED
      BY <2>1, <3>1, <3>2
  <2>2. CASE p # <<>>
    <3> DEFINE k == Len(D) + 1
    <3>1. 1 \in 1..Len(p)
      BY <1>4, <1>6, <2>2
    <3>2. k \in 1..Len(X) /\ Len(X) \in Nat /\ X[k] = "/" /\ k - 1 = Len(D)
      BY <1>1, <1>6, <2>2, <3>1
    <3>3. \A i \in 1..(k - 1) : X[i] # "/"
      BY <1>4, <1>6, <3>2
    <3> HIDE DEF k
    <3>4. FirstOf(X, "/") = k
      BY <3>2, <3>3, FirstIs
    <3> QED
      BY <2>2, <3>4 DEF k
  <2> QED
    BY <2>1, <2>2
<1> DEFINE slash == FirstOf(X, "/")
           parts == IF slash = 0 THEN HostPort(X, <<"/">>) ELSE HostPort(Upto(X, slash), From(X, slash))
<1>9. parts = {Named(u)}
  <2> DEFINE w == IF p = <<>> THEN <<"/">> ELSE p
  <2>1. parts = HostPort(D, w)
    <3>1. CASE p = <<>>
      BY <1>8, <3>1
    <3>2. CASE p # <<>>
      BY <1>6, <1>8, <3>2
    <3> QED
      BY <3>1, <3>2
  <2>2. Parts(w) = {Named(u)}
    BY DEF Named, p
  <2> QED
    BY <1>2, <2>1, <2>2
<1>10. CASE u.scheme = <<"https://">>
  <2>1. s # <<>> /\ s[1] = "https://"
    <3>1. <<"https://">> \in Seq(A) /\ Len(<<"https://">>) = 1 /\ <<"https://">>[1] = "https://"
      BY <1>4
    <3>2. s = <<"https://">> \o X
      BY <1>5, <1>10
    <3>3. s \in Seq(A) /\ Len(s) = 1 + Len(X) /\ s[1] = "https://"
      BY <1>6, <3>1, <3>2, Joined
    <3> QED
      BY <1>6, <3>3
  <2> QED
    BY <1>10, <2>1 DEF ParseUrl, s
<1>11. CASE u.scheme # <<"https://">>
  <2> DEFINE rest == IF s # <<>> /\ s[1] = "http://" THEN Tail(s) ELSE s
  <2>1. rest = X
    <3>1. CASE u.scheme = <<>>
      <4>1. s = X
        BY <1>5, <1>6, <3>1
      <4> QED
        BY <1>7, <4>1
    <3>2. CASE u.scheme = <<"http://">>
      <4>1. <<"http://">> \in Seq(A) /\ Len(<<"http://">>) = 1 /\ <<"http://">>[1] = "http://"
        BY <1>4
      <4>2. s = <<"http://">> \o X
        BY <1>5, <3>2
      <4>3. /\ s \in Seq(A) /\ Len(s) = 1 + Len(X) /\ s[1] = "http://" /\ Len(X) \in Nat
            /\ From(s, 2) = X
        <5> DEFINE a == <<"http://">>
        <5>1. a \in Seq(A) /\ Len(a) = 1 /\ a[1] = "http://" /\ s = a \o X
          BY <4>1, <4>2
        <5> HIDE DEF a
        <5>2. From(s, Len(a) + 1) = X
          BY <1>6, <5>1, Parted
        <5>5. s = a \o X /\ a \in Seq(A) /\ X \in Seq(A)
          BY <1>6, <5>1
        <5> HIDE DEF A, X
        <5>4. s \in Seq(A) /\ Len(s) = Len(a) + Len(X) /\ \A j \in 1..Len(a) : s[j] = a[j]
          BY <5>5, Joined
        <5>3. Len(a) + 1 = 2
          BY <5>1
        <5> QED
          BY <1>6, <5>1, <5>2, <5>3, <5>4
      <4>4. Tail(s) = From(s, 2)
        BY <4>3 DEF From
      <4> QED
        BY <4>3, <4>4
    <3> QED
      BY <1>1, <1>11, <3>1, <3>2
  <2> HIDE DEF rest
  <2>2. ParseUrl(s) = IF rest # <<>> /\ rest[1] = "https://" THEN {}
                      ELSE {x \in IF FirstOf(rest, "/") = 0 THEN HostPort(rest, <<"/">>)
                                  ELSE HostPort(Upto(rest, FirstOf(rest, "/")), From(rest, FirstOf(rest, "/"))) : x.host # <<>>}
    BY DEF ParseUrl, rest
  <2>3. ParseUrl(s) = {x \in parts : x.host # <<>>}
    BY <1>7, <2>1, <2>2
  <2> HIDE DEF parts
  <2>4. Named(u).host = u.host
    BY DEF Named
  <2>5. ParseUrl(s) = IF u.host = <<>> THEN {} ELSE {Named(u)}
    BY <1>9, <2>3, <2>4
  <2> QED
    BY <1>11, <2>5 DEF s
<1> QED
  BY <1>10, <1>11

-----------------------------------------------------------------------------
(* The head of a reply.                                                    *)

\* h has length j and begins as H does.
Begins(h, H, j) == Len(h) = j /\ \A i \in 1..j : h[i] = H[i]

\* s is a beginning of t, and all of it if the whole has been read.
IsStart(s, t, read, whole) ==
    \E m \in 0..Len(t) : s = SubSeq(t, 1, m) /\ (read = whole => m = Len(t))

\* LineOf finds the first line of a kind, if there is one.
IsLineOf(s, x, v) ==
    \/ /\ v \in 1..Len(s) /\ s[v].kind = x
       /\ \A i \in 1..(v - 1) : s[i].kind # x
    \/ v = 0 /\ \A i \in 1..Len(s) : s[i].kind # x

LEMMA LineFound ==
  ASSUME NEW s, NEW x, Len(s) \in Nat
  PROVE  IsLineOf(s, x, LineOf(s, x))
<1> DEFINE I == {i \in 1..Len(s) : s[i].kind = x}
<1>1. LineOf(s, x) = IF I # {} THEN Min(I) ELSE 0
  BY DEF LineOf, SelectInSeq
<1>2. CASE I # {}
  <2>1. I \subseteq Nat /\ I \subseteq Int
    OBVIOUS
  <2>2. \A i \in 1..Len(s) : i \in I <=> s[i].kind = x
    OBVIOUS
  <2>5. \A i \in I : i \in 1..Len(s)
    OBVIOUS
  <2> HIDE DEF I
  <2>3. PICK k \in I : \A j \in I : k <= j
    BY <1>2, <2>1, LeastOf
  <2>4. Min(I) = k
    BY <2>1, <2>3, MinIs
  <2>6. k \in 1..Len(s) /\ s[k].kind = x /\ \A i \in 1..(k - 1) : s[i].kind # x
    BY <2>2, <2>3, <2>5
  <2> QED
    BY <1>1, <1>2, <2>4, <2>6 DEF IsLineOf
<1>3. CASE I = {}
  BY <1>1, <1>3 DEF IsLineOf
<1> QED
  BY <1>2, <1>3

\* Where a head ends.
LEMMA HeadEndIs ==
  ASSUME NEW s, NEW k, Len(s) \in Nat,
         \/ k \in 1..Len(s) /\ HoldsCrLfCrLf(s[k]) /\ \A i \in 1..(k - 1) : ~HoldsCrLfCrLf(s[i])
         \/ k = LineOf(s, "end") /\ \A i \in 1..Len(s) : ~HoldsCrLfCrLf(s[i])
  PROVE  HeadEnd(s) = k
<1> DEFINE I == {i \in 1..Len(s) : HoldsCrLfCrLf(s[i])}
           m == IF I # {} THEN Min(I) ELSE 0
<1>1. HeadEnd(s) = IF m # 0 THEN m ELSE LineOf(s, "end")
  BY DEF HeadEnd, SelectInSeq
<1>2. CASE k \in 1..Len(s) /\ HoldsCrLfCrLf(s[k]) /\ \A i \in 1..(k - 1) : ~HoldsCrLfCrLf(s[i])
  <2>1. k \in I /\ I \subseteq Int /\ \A j \in I : k <= j
    BY <1>2
  <2> HIDE DEF I
  <2>2. Min(I) = k
    BY <2>1, MinIs
  <2> QED
    BY <1>1, <1>2, <2>1, <2>2
<1>3. CASE k = LineOf(s, "end") /\ \A i \in 1..Len(s) : ~HoldsCrLfCrLf(s[i])
  <2>1. I = {}
    BY <1>3
  <2> QED
    BY <1>1, <1>3, <2>1
<1> QED
  BY <1>2, <1>3

\* What stands in a sequence that is joined of two.
LEMMA JoinedIs ==
  ASSUME NEW C, NEW a \in Seq(C), NEW o \in Seq(C), NEW b, b = a \o o
  PROVE  /\ b \in Seq(C) /\ Len(a) \in Nat /\ Len(b) = Len(a) + Len(o)
         /\ \A i \in 1..Len(a) : b[i] = a[i]
         /\ \A i \in 1..Len(o) : b[Len(a) + i] = o[i]
  BY Joined

\* A sequence of one.
LEMMA OneIs ==
  ASSUME NEW D, NEW u \in D, NEW o, o = <<u>>
  PROVE  o \in Seq(D) /\ Len(o) = 1 /\ o[1] = u
  OBVIOUS

\* The lines of a head: the set of them tells which there are, and the address
\* of a redirect is in the last one.
HeadLines(sh) ==
    {Unit("code", 200, "")}
      \cup (IF sh.reason THEN {Unit("reason", 0, "")} ELSE {})
      \cup (IF sh.frame = "length" THEN {Unit("content-length", EndOf(sh, Len(sh.ends)), "")} ELSE {})
      \cup (IF sh.frame = "chunked" THEN {Unit("chunked", 0, "")} ELSE {})

AllLines(sh) == HeadLines(sh) \cup (IF sh.to # <<>> THEN {Unit("location", 0, "")} ELSE {})

\* The lines of a head are such.
LEMMA LinesAre ==
  ASSUME NEW sh, IsShape(sh)
  PROVE  LET l == Len(Lines(sh))
         IN  /\ Lines(sh) \in Seq(AllLines(sh)) /\ l \in Nat /\ l >= 1
             /\ Lines(sh)[1] = Unit("code", 200, "")
             /\ sh.reason => \E i \in 1..l : Lines(sh)[i] = Unit("reason", 0, "")
             /\ sh.frame = "chunked" => \E i \in 1..l : Lines(sh)[i] = Unit("chunked", 0, "")
             /\ sh.to # <<>> => Lines(sh)[l] = Unit("location", 0, "")
             /\ \A i \in 1..l : Lines(sh)[i] \in HeadLines(sh) \/ (i = l /\ sh.to # <<>>)
<1> DEFINE u1 == Unit("code", 200, "")
           u2 == Unit("reason", 0, "")
           u3 == Unit("content-length", EndOf(sh, Len(sh.ends)), "")
           u4 == Unit("chunked", 0, "")
           u5 == Unit("location", 0, "")
           P2 == sh.reason
           P3 == sh.frame = "length"
           P4 == sh.frame = "chunked"
           P5 == sh.to # <<>>
           D1 == {u1}
           D2 == D1 \cup (IF P2 THEN {u2} ELSE {})
           D3 == D2 \cup (IF P3 THEN {u3} ELSE {})
           D4 == D3 \cup (IF P4 THEN {u4} ELSE {})
           D5 == D4 \cup (IF P5 THEN {u5} ELSE {})
           o2 == Optional(P2, u2)
           o3 == Optional(P3, u3)
           o4 == Optional(P4, u4)
           o5 == Optional(P5, u5)
           a1 == <<u1>>
           a2 == a1 \o o2
           a3 == a2 \o o3
           a4 == a3 \o o4
           a5 == a4 \o o5
<1>1. Lines(sh) = a5 /\ HeadLines(sh) = D4 /\ AllLines(sh) = D5
  BY DEF Lines, HeadLines, AllLines
<1> HIDE DEF u1, u2, u3, u4, u5
<1>2. /\ a1 \in Seq(D1) /\ Len(a1) = 1 /\ a1[1] = u1
      /\ o2 \in Seq(D2) /\ Len(o2) = (IF P2 THEN 1 ELSE 0) /\ (P2 => o2[1] = u2)
      /\ o3 \in Seq(D3) /\ Len(o3) = (IF P3 THEN 1 ELSE 0)
      /\ o4 \in Seq(D4) /\ Len(o4) = (IF P4 THEN 1 ELSE 0) /\ (P4 => o4[1] = u4)
      /\ o5 \in Seq(D5) /\ Len(o5) = (IF P5 THEN 1 ELSE 0) /\ (P5 => o5[1] = u5)
  <2>1. a1 \in Seq(D1) /\ Len(a1) = 1 /\ a1[1] = u1
    OBVIOUS
  <2>2. (P2 => u2 \in D2) /\ (P3 => u3 \in D3) /\ (P4 => u4 \in D4) /\ (P5 => u5 \in D5)
    OBVIOUS
  <2>3. (P2 => o2 = <<u2>>) /\ (~P2 => o2 = <<>>)
    BY DEF Optional
  <2>4. (P3 => o3 = <<u3>>) /\ (~P3 => o3 = <<>>)
    BY DEF Optional
  <2>5. (P4 => o4 = <<u4>>) /\ (~P4 => o4 = <<>>)
    BY DEF Optional
  <2>6. (P5 => o5 = <<u5>>) /\ (~P5 => o5 = <<>>)
    BY DEF Optional
  <2> HIDE DEF D2, D3, D4, D5, o2, o3, o4, o5, P2, P3, P4, P5
  <2>7. o2 \in Seq(D2) /\ Len(o2) = (IF P2 THEN 1 ELSE 0) /\ (P2 => o2[1] = u2)
    <3>1. CASE P2
      BY <2>2, <2>3, <3>1, OneIs
    <3>2. CASE ~P2
      BY <2>3, <3>2
    <3> QED
      BY <3>1, <3>2
  <2>8. o3 \in Seq(D3) /\ Len(o3) = (IF P3 THEN 1 ELSE 0) /\ (P3 => o3[1] = u3)
    <3>1. CASE P3
      BY <2>2, <2>4, <3>1, OneIs
    <3>2. CASE ~P3
      BY <2>4, <3>2
    <3> QED
      BY <3>1, <3>2
  <2>9. o4 \in Seq(D4) /\ Len(o4) = (IF P4 THEN 1 ELSE 0) /\ (P4 => o4[1] = u4)
    <3>1. CASE P4
      BY <2>2, <2>5, <3>1, OneIs
    <3>2. CASE ~P4
      BY <2>5, <3>2
    <3> QED
      BY <3>1, <3>2
  <2>10. o5 \in Seq(D5) /\ Len(o5) = (IF P5 THEN 1 ELSE 0) /\ (P5 => o5[1] = u5)
    <3>1. CASE P5
      BY <2>2, <2>6, <3>1, OneIs
    <3>2. CASE ~P5
      BY <2>6, <3>2
    <3> QED
      BY <3>1, <3>2
  <2> QED
    BY <2>1, <2>7, <2>8, <2>9, <2>10
<1>3. D1 \subseteq D2 /\ D2 \subseteq D3 /\ D3 \subseteq D4 /\ D4 \subseteq D5
  OBVIOUS
<1> HIDE DEF a1, a2, a3, a4, a5, o2, o3, o4, o5, D1, D2, D3, D4, D5, P2, P3, P4, P5
<1>4. o2 \in Seq(D2) /\ o3 \in Seq(D3) /\ o4 \in Seq(D4) /\ o5 \in Seq(D5)
  BY <1>2
<1>5. /\ a2 \in Seq(D2) /\ Len(a1) \in Nat /\ Len(a2) = Len(a1) + Len(o2)
      /\ \A i \in 1..Len(a1) : a2[i] = a1[i]
      /\ \A i \in 1..Len(o2) : a2[Len(a1) + i] = o2[i]
  <2>1. a1 \in Seq(D2)
    BY <1>2, <1>3
  <2> QED
    BY <1>4, <2>1, JoinedIs DEF a2
<1>6. /\ a3 \in Seq(D3) /\ Len(a2) \in Nat /\ Len(a3) = Len(a2) + Len(o3)
      /\ \A i \in 1..Len(a2) : a3[i] = a2[i]
      /\ \A i \in 1..Len(o3) : a3[Len(a2) + i] = o3[i]
  <2>1. a2 \in Seq(D3)
    BY <1>5, <1>3
  <2> QED
    BY <1>4, <2>1, JoinedIs DEF a3
<1>7. /\ a4 \in Seq(D4) /\ Len(a3) \in Nat /\ Len(a4) = Len(a3) + Len(o4)
      /\ \A i \in 1..Len(a3) : a4[i] = a3[i]
      /\ \A i \in 1..Len(o4) : a4[Len(a3) + i] = o4[i]
  <2>1. a3 \in Seq(D4)
    BY <1>6, <1>3
  <2> QED
    BY <1>4, <2>1, JoinedIs DEF a4
<1>8. /\ a5 \in Seq(D5) /\ Len(a4) \in Nat /\ Len(a5) = Len(a4) + Len(o5)
      /\ \A i \in 1..Len(a4) : a5[i] = a4[i]
      /\ \A i \in 1..Len(o5) : a5[Len(a4) + i] = o5[i]
  <2>1. a4 \in Seq(D5)
    BY <1>7, <1>3
  <2> QED
    BY <1>4, <2>1, JoinedIs DEF a5
<1>9. /\ 1 <= Len(a1) /\ Len(a1) <= Len(a2) /\ Len(a2) <= Len(a3) /\ Len(a3) <= Len(a4)
      /\ Len(a4) <= Len(a5) /\ Len(a5) \in Nat
      /\ P2 => 1 \in 1..Len(o2) /\ Len(a2) = Len(a1) + 1 /\ a2[Len(a1) + 1] = u2
      /\ P4 => 1 \in 1..Len(o4) /\ Len(a4) = Len(a3) + 1 /\ a4[Len(a3) + 1] = u4
      /\ P5 => 1 \in 1..Len(o5) /\ Len(a5) = Len(a4) + 1 /\ a5[Len(a5)] = u5
      /\ ~P5 => Len(a5) = Len(a4)
  BY <1>2, <1>5, <1>6, <1>7, <1>8, SMTT(30)
<1>10. a5[1] = u1
  <2>1. 1 \in 1..Len(a1) /\ 1 \in 1..Len(a2) /\ 1 \in 1..Len(a3) /\ 1 \in 1..Len(a4)
    BY <1>5, <1>6, <1>7, <1>8, <1>9
  <2> QED
    BY <1>2, <1>5, <1>6, <1>7, <1>8, <2>1, SMTT(30)
<1>11. P2 => \E i \in 1..Len(a5) : a5[i] = u2
  <2> SUFFICES ASSUME P2 PROVE \E i \in 1..Len(a5) : a5[i] = u2
    OBVIOUS
  <2> DEFINE i == Len(a1) + 1
  <2>1. i \in 1..Len(a2) /\ i \in 1..Len(a3) /\ i \in 1..Len(a4) /\ i \in 1..Len(a5) /\ a2[i] = u2
    BY <1>5, <1>9
  <2> HIDE DEF i
  <2> QED
    BY <1>6, <1>7, <1>8, <2>1
<1>12. P4 => \E i \in 1..Len(a5) : a5[i] = u4
  <2> SUFFICES ASSUME P4 PROVE \E i \in 1..Len(a5) : a5[i] = u4
    OBVIOUS
  <2> DEFINE i == Len(a3) + 1
  <2>1. i \in 1..Len(a4) /\ i \in 1..Len(a5) /\ a4[i] = u4
    BY <1>7, <1>9
  <2> HIDE DEF i
  <2> QED
    BY <1>8, <2>1
<1>13. P5 => a5[Len(a5)] = u5
  BY <1>9
<1>14. ASSUME NEW i \in 1..Len(a5) PROVE a5[i] \in D4 \/ (i = Len(a5) /\ P5)
  <2>1. CASE i <= Len(a4)
    <3>1. i \in 1..Len(a4)
      BY <1>8, <2>1
    <3>2. a5[i] = a4[i] /\ a4[i] \in D4
      BY <1>7, <1>8, <3>1
    <3> QED
      BY <3>2
  <2>2. CASE ~(i <= Len(a4))
    BY <1>9, <2>2
  <2> QED
    BY <2>1, <2>2
<1>15. /\ a5 \in Seq(D5) /\ Len(a5) \in Nat /\ Len(a5) >= 1
  BY <1>8, <1>9
<1> QED
  BY <1>1, <1>10, <1>11, <1>12, <1>13, <1>14, <1>15 DEF P2, P4, P5, u1, u2, u4, u5

\* The parts of a unit.
LEMMA UnitIs ==
  ASSUME NEW k, NEW n, NEW x
  PROVE  Unit(k, n, x).kind = k /\ Unit(k, n, x).n = n /\ Unit(k, n, x).says = x
  BY DEF Unit

\* The units of a head.
Chars(sh) == {Unit("char", i, sh.to[i]) : i \in 1..Len(sh.to)}

HeadUnits(sh) == AllLines(sh) \cup Chars(sh)

\* No unit of a head ends it, and each says what the shape has.
LEMMA HeadUnitIs ==
  ASSUME NEW sh, NEW t
  PROVE  /\ t \in HeadUnits(sh) =>
              /\ ~HoldsCrLfCrLf(t) /\ t.kind # "end"
              /\ t.kind = "reason" => sh.reason
              /\ t.kind = "content-length" => t.n = EndOf(sh, Len(sh.ends))
              /\ t.kind = "chunked" => sh.frame = "chunked"
              /\ t.kind = "location" => sh.to # <<>>
         /\ t \in HeadLines(sh) \cup Chars(sh) => t.kind # "location"
<1>1. ASSUME t \in Chars(sh) PROVE t.kind = "char"
  BY <1>1 DEF Chars, Unit
<1>2. ASSUME t \in AllLines(sh)
      PROVE  /\ t.kind \in {"code", "reason", "content-length", "chunked", "location"}
             /\ t.kind = "reason" => sh.reason
             /\ t.kind = "content-length" => t.n = EndOf(sh, Len(sh.ends))
             /\ t.kind = "chunked" => sh.frame = "chunked"
             /\ t.kind = "location" => sh.to # <<>>
             /\ t \in HeadLines(sh) => t.kind # "location"
  <2> DEFINE E == EndOf(sh, Len(sh.ends))
             u1 == Unit("code", 200, "")
             u2 == Unit("reason", 0, "")
             u3 == Unit("content-length", E, "")
             u4 == Unit("chunked", 0, "")
             u5 == Unit("location", 0, "")
  <2>6. u1.kind = "code" /\ u2.kind = "reason" /\ u4.kind = "chunked" /\ u5.kind = "location"
    BY DEF Unit
  <2>7. u3.kind = "content-length" /\ u3.n = E
    <3> HIDE DEF E
    <3> QED
      BY DEF Unit
  <2>1. /\ u1.kind = "code" /\ u2.kind = "reason" /\ u3.kind = "content-length" /\ u3.n = E
        /\ u4.kind = "chunked" /\ u5.kind = "location"
    BY <2>6, <2>7
  <2>2. /\ HeadLines(sh) = {u1} \cup (IF sh.reason THEN {u2} ELSE {})
                           \cup (IF sh.frame = "length" THEN {u3} ELSE {})
                           \cup (IF sh.frame = "chunked" THEN {u4} ELSE {})
        /\ AllLines(sh) = HeadLines(sh) \cup (IF sh.to # <<>> THEN {u5} ELSE {})
    BY DEF AllLines, HeadLines
  <2> HIDE DEF u1, u2, u3, u4, u5, E
  <2>3. \/ t = u1
        \/ sh.reason /\ t = u2
        \/ sh.frame = "length" /\ t = u3
        \/ sh.frame = "chunked" /\ t = u4
        \/ sh.to # <<>> /\ t = u5
    BY <1>2, <2>2
  <2>4. t \in HeadLines(sh) => t \in {u1, u2, u3, u4}
    BY <2>2
  <2>5. t \in HeadLines(sh) => t.kind # "location"
    BY <2>1, <2>4
  <2> QED
    BY <2>1, <2>3, <2>5 DEF E
<1>3. t \in HeadLines(sh) => t \in AllLines(sh)
  BY DEF AllLines
<1> QED
  BY <1>1, <1>2, <1>3 DEF HeadUnits, HoldsCrLfCrLf

\* A head: its l lines, and the address of a redirect behind them.
IsHead(H, sh, l) ==
    /\ H \in Seq(HeadUnits(sh)) /\ l \in Nat /\ l >= 1 /\ Len(sh.to) \in Nat
    /\ Len(H) = l + Len(sh.to)
    /\ \A i \in 1..l : H[i] = Lines(sh)[i]
    /\ \A i \in 1..Len(sh.to) : H[l + i] = Unit("char", i, sh.to[i])

\* HeadOf makes such a head.
LEMMA HeadIs ==
  ASSUME NEW sh, IsShape(sh)
  PROVE  IsHead(HeadOf(sh), sh, Len(Lines(sh)))
<1> DEFINE H == HeadOf(sh)
           l == Len(Lines(sh))
           L == Lines(sh)
           n == Len(sh.to)
           w == [i \in DOMAIN sh.to |-> Unit("char", i, sh.to[i])]
           U == HeadUnits(sh)
<1>1. L \in Seq(AllLines(sh)) /\ l \in Nat /\ l >= 1
  BY LinesAre
<1>2. n \in Nat /\ DOMAIN sh.to = 1..n
  BY DEF IsShape
<1>3. L \in Seq(U)
  BY <1>1 DEF HeadUnits
<1>4. w \in Seq(U) /\ Len(w) = n /\ \A i \in 1..n : w[i] = Unit("char", i, sh.to[i])
  <2>1. \A i \in 1..n : Unit("char", i, sh.to[i]) \in U
    BY DEF HeadUnits, Chars
  <2> HIDE DEF n, U
  <2>2. w \in [1..n -> U]
    BY <1>2, <2>1
  <2> QED
    BY <1>2, <2>2
<1>5. H = L \o w
  BY DEF HeadOf
<1> HIDE DEF H
<1> HIDE DEF l, L, n, w, U
<1>6. /\ H \in Seq(U) /\ Len(L) \in Nat /\ Len(H) = Len(L) + Len(w)
      /\ \A i \in 1..Len(L) : H[i] = L[i]
      /\ \A i \in 1..Len(w) : H[Len(L) + i] = w[i]
  <2>1. L \in Seq(U) /\ w \in Seq(U)
    BY <1>3, <1>4
  <2>2. H = L \o w
    BY <1>5
  <2> QED
    BY <2>1, <2>2, JoinedIs
<1>7. Len(L) = l
  BY DEF L, l
<1> QED
  BY <1>1, <1>2, <1>4, <1>6, <1>7 DEF L, n, U, H, l, IsHead

\* What a beginning of a head tells: nothing wrong, and everything if it is whole.
LEMMA HeadTold ==
  ASSUME NEW sh, IsShape(sh), NEW H, H = HeadOf(sh), NEW j \in 0..Len(H), NEW h, Begins(h, H, j)
  PROVE  /\ LineOf(h, "reason") # 0 => h[LineOf(h, "code")].n = 200
         /\ LineOf(h, "content-length") # 0 =>
                h[LineOf(h, "content-length")].n = EndOf(sh, Len(sh.ends))
         /\ LineOf(h, "chunked") # 0 => sh.frame = "chunked"
         /\ j = Len(H) => /\ LineOf(h, "reason") # 0 <=> sh.reason
                          /\ LineOf(h, "chunked") # 0 <=> sh.frame = "chunked"
<1> DEFINE l == Len(Lines(sh))
           n == Len(sh.to)
           U == HeadUnits(sh)
<1>1. /\ H \in Seq(U) /\ l \in Nat /\ l >= 1 /\ n \in Nat /\ Len(H) = l + n
      /\ \A i \in 1..l : H[i] = Lines(sh)[i]
  <2>1. IsHead(H, sh, l)
    BY HeadIs
  <2> QED
    BY <2>1 DEF IsHead
<1>2. Len(h) = j /\ j \in Nat /\ \A i \in 1..j : h[i] = H[i] /\ h[i] \in U
  BY <1>1 DEF Begins
<1>3. \A x : \/ /\ LineOf(h, x) \in 1..j /\ h[LineOf(h, x)].kind = x /\ h[LineOf(h, x)] \in U
                /\ \A i \in 1..(LineOf(h, x) - 1) : h[i].kind # x
             \/ LineOf(h, x) = 0 /\ \A i \in 1..j : h[i].kind # x
  <2> TAKE x
  <2>1. Len(h) \in Nat
    BY <1>2
  <2>3. IsLineOf(h, x, LineOf(h, x))
    BY <2>1, LineFound
  <2> DEFINE v == LineOf(h, x)
  <2> HIDE DEF v
  <2>4. IsLineOf(h, x, v)
    BY <2>3 DEF v
  <2>2. \/ v \in 1..j /\ h[v].kind = x /\ h[v] \in U /\ \A i \in 1..(v - 1) : h[i].kind # x
        \/ v = 0 /\ \A i \in 1..j : h[i].kind # x
    BY <1>2, <2>4 DEF IsLineOf
  <2> QED
    BY <2>2 DEF v
<1>4. \A t \in U : /\ t.kind = "reason" => sh.reason
                   /\ t.kind = "content-length" => t.n = EndOf(sh, Len(sh.ends))
                   /\ t.kind = "chunked" => sh.frame = "chunked"
  BY HeadUnitIs
<1>5. LineOf(h, "reason") # 0 => h[LineOf(h, "code")].n = 200
  <2> SUFFICES ASSUME LineOf(h, "reason") # 0 PROVE h[LineOf(h, "code")].n = 200
    OBVIOUS
  <2>1. 1 \in 1..j
    BY <1>2, <1>3
  <2>2. h[1] = Unit("code", 200, "")
    <3>1. 1 \in 1..l /\ h[1] = H[1]
      BY <1>1, <1>2, <2>1
    <3>2. H[1] = Lines(sh)[1] /\ Lines(sh)[1] = Unit("code", 200, "")
      BY <1>1, <3>1, LinesAre
    <3> QED
      BY <3>1, <3>2
  <2>3. h[1].kind = "code" /\ h[1].n = 200
    <3>1. Unit("code", 200, "").kind = "code" /\ Unit("code", 200, "").n = 200
      BY DEF Unit
    <3> QED
      BY <2>2, <3>1
  <2>4. LineOf(h, "code") = 1
    <3>1. 1 \in 1..Len(h) /\ Len(h) \in Nat /\ \A i \in 1..(1 - 1) : h[i].kind # "code"
      BY <1>2, <2>1
    <3> QED
      <4> DEFINE v == LineOf(h, "code")
      <4>1. \/ v \in 1..j /\ \A i \in 1..(v - 1) : h[i].kind # "code"
            \/ \A i \in 1..j : h[i].kind # "code"
        BY <1>3
      <4> HIDE DEF v
      <4>2. v = 1
        BY <2>1, <2>3, <4>1
      <4> QED
        BY <4>2 DEF v
  <2> QED
    BY <2>3, <2>4
<1>6. \A x : (x = "reason" /\ sh.reason) \/ (x = "chunked" /\ sh.frame = "chunked") =>
         \E i \in 1..l : H[i].kind = x
  <2>1. /\ sh.reason => \E i \in 1..l : Lines(sh)[i] = Unit("reason", 0, "")
        /\ sh.frame = "chunked" => \E i \in 1..l : Lines(sh)[i] = Unit("chunked", 0, "")
    BY LinesAre
  <2>2. \A x : Unit(x, 0, "").kind = x
    BY DEF Unit
  <2>3. ASSUME sh.reason PROVE \E i \in 1..l : H[i].kind = "reason"
    BY <1>1, <2>1, <2>2, <2>3
  <2>4. ASSUME sh.frame = "chunked" PROVE \E i \in 1..l : H[i].kind = "chunked"
    BY <1>1, <2>1, <2>2, <2>4
  <2> QED
    BY <2>3, <2>4
<1>7. ASSUME j = Len(H)
      PROVE  /\ LineOf(h, "reason") # 0 <=> sh.reason
             /\ LineOf(h, "chunked") # 0 <=> sh.frame = "chunked"
  <2>1. \A i \in 1..l : i \in 1..j /\ h[i] = H[i]
    BY <1>1, <1>2, <1>7
  <2>4. 0 \notin 1..j
    OBVIOUS
  <2>2. sh.reason => LineOf(h, "reason") # 0
    <3> SUFFICES ASSUME sh.reason PROVE LineOf(h, "reason") # 0
      OBVIOUS
    <3>1. PICK i \in 1..l : H[i].kind = "reason"
      BY <1>6
    <3>2. i \in 1..j /\ h[i].kind = "reason"
      BY <2>1, <3>1
    <3> QED
      BY <1>3, <2>4, <3>2
  <2>3. sh.frame = "chunked" => LineOf(h, "chunked") # 0
    <3> SUFFICES ASSUME sh.frame = "chunked" PROVE LineOf(h, "chunked") # 0
      OBVIOUS
    <3>1. PICK i \in 1..l : H[i].kind = "chunked"
      BY <1>6
    <3>2. i \in 1..j /\ h[i].kind = "chunked"
      BY <2>1, <3>1
    <3> QED
      BY <1>3, <2>4, <3>2
  <2>5. LineOf(h, "reason") # 0 => sh.reason
    BY <1>3, <1>4
  <2>6. LineOf(h, "chunked") # 0 => sh.frame = "chunked"
    BY <1>3, <1>4
  <2>7. sh.reason \in BOOLEAN
    BY DEF IsShape
  <2> QED
    BY <2>2, <2>3, <2>5, <2>6, <2>7
<1>8. LineOf(h, "content-length") # 0 =>
        h[LineOf(h, "content-length")].n = EndOf(sh, Len(sh.ends))
  BY <1>3, <1>4
<1>9. LineOf(h, "chunked") # 0 => sh.frame = "chunked"
  BY <1>3, <1>4
<1> QED
  BY <1>2, <1>5, <1>7, <1>8, <1>9

\* The address of a redirect that a head tells.
ToOf(h) ==
    IF LineOf(h, "location") = 0 THEN <<>>
    ELSE [i \in 1..(Len(h) - LineOf(h, "location")) |-> h[LineOf(h, "location") + i].says]

\* It is a beginning of the one that was sent.
LEMMA HeadToIs ==
  ASSUME NEW sh, IsShape(sh), NEW H, H = HeadOf(sh), NEW j \in 0..Len(H), NEW h, Begins(h, H, j)
  PROVE  IsStart(ToOf(h), sh.to, j, Len(H))
<1> DEFINE l == Len(Lines(sh))
           n == Len(sh.to)
           U == HeadUnits(sh)
           to == sh.to
           m == IF j >= l THEN j - l ELSE 0
           L == Lines(sh)
<1>1. /\ H \in Seq(U) /\ l \in Nat /\ l >= 1 /\ n \in Nat /\ Len(H) = l + n
      /\ \A i \in 1..l : H[i] = L[i]
      /\ \A i \in 1..n : H[l + i] = Unit("char", i, to[i])
  <2>1. IsHead(H, sh, l)
    BY HeadIs
  <2> QED
    BY <2>1 DEF IsHead
<1>2. Len(h) = j /\ j \in Nat /\ \A i \in 1..j : h[i] = H[i]
  BY <1>1 DEF Begins
<1>3. to \in Seq(STRING)
  BY DEF IsShape
<1>4. /\ to # <<>> => L[l] = Unit("location", 0, "")
      /\ \A i \in 1..l : L[i] \in HeadLines(sh) \/ (i = l /\ to # <<>>)
  BY LinesAre
<1>5. /\ Unit("location", 0, "").kind = "location"
      /\ \A i \in 1..n : Unit("char", i, to[i]).kind = "char" /\ Unit("char", i, to[i]).says = to[i]
      /\ \A t \in HeadLines(sh) : t.kind # "location"
  BY HeadUnitIs DEF Unit
<1> HIDE DEF l, n, U, to, L, m
<1>6. m \in 0..n /\ (j = Len(H) => m = n)
  BY <1>1, <1>2 DEF m
<1>7. \A i \in 1..(l - 1) : H[i].kind # "location"
  <2> TAKE i \in 1..(l - 1)
  <2>1. i \in 1..l /\ i # l
    BY <1>1
  <2>2. L[i] \in HeadLines(sh) /\ H[i] = L[i]
    BY <1>1, <1>4, <2>1
  <2> QED
    BY <1>5, <2>2
<1>8. CASE to = <<>>
  <2>1. n = 0
    BY <1>8 DEF n, to
  <2>2. \A i \in 1..j : h[i].kind # "location"
    <3> TAKE i \in 1..j
    <3>1. i \in 1..l /\ h[i] = H[i]
      BY <1>1, <1>2, <2>1
    <3> QED
      BY <1>1, <1>4, <1>5, <1>8, <3>1
  <2>3. LineOf(h, "location") = 0
    BY <1>2, <2>2, LineIs
  <2>4. ToOf(h) = <<>>
    BY <2>3 DEF ToOf
  <2>5. SubSeq(to, 1, m) = <<>>
    BY <1>6, <1>8, <2>1
  <2> QED
    BY <1>6, <2>4, <2>5 DEF to, n, IsStart
<1>9. CASE to # <<>> /\ j < l
  <2>1. \A i \in 1..j : h[i].kind # "location"
    <3> TAKE i \in 1..j
    <3>1. i \in 1..(l - 1) /\ h[i] = H[i]
      BY <1>1, <1>2, <1>9
    <3> QED
      BY <1>7, <3>1
  <2>2. LineOf(h, "location") = 0
    BY <1>2, <2>1, LineIs
  <2>3. ToOf(h) = <<>>
    BY <2>2 DEF ToOf
  <2>4. m = 0
    BY <1>1, <1>2, <1>9 DEF m
  <2>5. SubSeq(to, 1, m) = <<>>
    BY <1>3, <2>4
  <2> QED
    BY <1>6, <2>3, <2>5 DEF to, n, IsStart
<1>10. CASE to # <<>> /\ j >= l
  <2>1. LineOf(h, "location") = l
    <3>1. l \in 1..j /\ l \in 1..l /\ h[l] = H[l] /\ H[l] = L[l]
      BY <1>1, <1>2, <1>10
    <3>2. h[l].kind = "location"
      BY <1>4, <1>5, <1>10, <3>1
    <3>3. \A i \in 1..(l - 1) : h[i].kind # "location"
      <4> TAKE i \in 1..(l - 1)
      <4>1. h[i] = H[i]
        BY <1>1, <1>2, <1>10
      <4> QED
        BY <1>7, <4>1
    <3> DEFINE v == LineOf(h, "location")
    <3>4. \/ v \in 1..j /\ h[v].kind = "location" /\ \A i \in 1..(v - 1) : h[i].kind # "location"
          \/ \A i \in 1..j : h[i].kind # "location"
      <4>1. Len(h) \in Nat
        BY <1>2
      <4>2. IsLineOf(h, "location", v)
        BY <4>1, LineFound
      <4> HIDE DEF v
      <4> QED
        BY <1>2, <4>2 DEF IsLineOf
    <3> HIDE DEF v
    <3>5. v \in 1..j /\ h[v].kind = "location" /\ \A i \in 1..(v - 1) : h[i].kind # "location"
      BY <3>1, <3>2, <3>4
    <3>6. ~(v < l)
      <4>1. v < l => v \in 1..(l - 1)
        BY <1>1, <3>5
      <4> QED
        BY <3>3, <3>5, <4>1
    <3>7. ~(l < v)
      BY <3>1, <3>2, <3>5
    <3>8. v = l
      BY <1>1, <3>5, <3>6, <3>7
    <3> QED
      BY <3>8 DEF v
  <2>2. m = j - l
    BY <1>10 DEF m
  <2>3. ToOf(h) = [i \in 1..m |-> h[l + i].says]
    <3>1. l # 0
      BY <1>1
    <3> QED
      BY <1>2, <2>1, <2>2, <3>1 DEF ToOf
  <2>4. \A i \in 1..m : h[l + i].says = to[i]
    <3> TAKE i \in 1..m
    <3>1. i \in 1..n /\ l + i \in 1..j
      BY <1>1, <1>2, <1>6, <2>2
    <3> QED
      BY <1>1, <1>2, <1>5, <3>1
  <2>5. SubSeq(to, 1, m) = [i \in 1..m |-> to[i]]
    <3> DEFINE s == SubSeq(to, 1, m)
    <3>4. m \in Nat /\ m <= Len(to) /\ Len(to) \in Nat
      BY <1>1, <1>6 DEF n, to
    <3>1. s \in Seq(STRING) /\ Len(s) = m /\ \A i \in 1..m : s[i] = to[i]
      BY <1>3, <3>4
    <3>2. s = [i \in 1..Len(s) |-> s[i]]
      BY <3>1
    <3> HIDE DEF s
    <3>3. s = [i \in 1..m |-> to[i]]
      BY <3>1, <3>2
    <3> QED
      BY <3>3 DEF s
  <2>6. ToOf(h) = SubSeq(to, 1, m)
    BY <2>3, <2>4, <2>5
  <2> QED
    BY <1>6, <2>6 DEF to, n, IsStart
<1> QED
  BY <1>1, <1>2, <1>8, <1>9, <1>10

-----------------------------------------------------------------------------
(* The chunks of a reply.                                                  *)

\* The ends of the chunks grow.
LEMMA EndsGrow ==
  ASSUME NEW sh, IsShape(sh), NEW n, n = Len(sh.ends)
  PROVE  /\ n \in Nat /\ EndOf(sh, 0) = 0
         /\ \A c \in 0..n : EndOf(sh, c) \in Nat
         /\ \A c \in 1..n : EndOf(sh, c - 1) < EndOf(sh, c)
         /\ \A b \in 0..n : \A a \in 0..b : EndOf(sh, a) <= EndOf(sh, b)
<1>1. /\ n \in Nat /\ DOMAIN sh.ends = 1..n /\ \A c \in 1..n : sh.ends[c] \in Nat
      /\ \A c \in 1..n : (IF c = 1 THEN 0 ELSE sh.ends[c - 1]) < sh.ends[c]
  <2>1. /\ sh.ends \in Seq(Nat)
        /\ \A c \in DOMAIN sh.ends : (IF c = 1 THEN 0 ELSE sh.ends[c - 1]) < sh.ends[c]
    BY DEF IsShape
  <2>2. n \in Nat /\ DOMAIN sh.ends = 1..n /\ \A c \in 1..n : sh.ends[c] \in Nat
    BY <2>1
  <2> QED
    BY <2>1, <2>2
<1>2. \A c \in 0..n : EndOf(sh, c) \in Nat
  BY <1>1 DEF EndOf
<1>3. \A c \in 1..n : EndOf(sh, c - 1) < EndOf(sh, c)
  <2> TAKE c \in 1..n
  <2>1. EndOf(sh, c) = sh.ends[c]
    BY DEF EndOf
  <2>2. CASE c = 1
    BY <1>1, <2>1, <2>2 DEF EndOf
  <2>3. CASE c # 1
    <3>1. c - 1 # 0 /\ c - 1 \in 1..n
      BY <1>1, <2>3
    <3> QED
      BY <1>1, <2>1, <2>3, <3>1 DEF EndOf
  <2> QED
    BY <2>2, <2>3
<1> DEFINE P == {b \in 0..n : \A a \in 0..b : EndOf(sh, a) <= EndOf(sh, b)}
<1>4. 0 \in P
  BY <1>1, <1>2
<1>5. ASSUME NEW i \in 1..n, i - 1 \in P PROVE i \in P
  <2>1. i - 1 \in 0..n /\ i \in 0..n
    BY <1>1
  <2>2. ASSUME NEW a \in 0..i PROVE EndOf(sh, a) <= EndOf(sh, i)
    <3>1. CASE a = i
      BY <1>2, <2>1, <3>1
    <3>2. CASE a # i
      <4>1. a \in 0..(i - 1) /\ a \in 0..n
        BY <2>1, <3>2
      <4>2. EndOf(sh, a) <= EndOf(sh, i - 1)
        BY <1>5, <4>1
      <4> QED
        BY <1>2, <1>3, <2>1, <4>1, <4>2
    <3> QED
      BY <3>1, <3>2
  <2> QED
    BY <2>1, <2>2
<1> HIDE DEF P
<1>6. \A b \in 0..n : b \in P
  BY <1>1, <1>4, <1>5, UpTo
<1>7. \A b \in 0..n : \A a \in 0..b : EndOf(sh, a) <= EndOf(sh, b)
  BY <1>6 DEF P
<1> QED
  BY <1>1, <1>2, <1>3, <1>7 DEF EndOf

\* And so do the places where they begin.
LEMMA BeginsGrow ==
  ASSUME NEW sh, IsShape(sh), NEW n, n = Len(sh.ends)
  PROVE  /\ BeginOf(sh, 1) = 1
         /\ \A c \in 1..(n + 1) : BeginOf(sh, c) \in Nat /\ BeginOf(sh, c) >= c
         /\ \A c \in 1..n : BeginOf(sh, c + 1) = BeginOf(sh, c) + (EndOf(sh, c) - EndOf(sh, c - 1)) + 2
         /\ \A a, b \in 1..(n + 1) : a < b => BeginOf(sh, a) < BeginOf(sh, b)
<1>1. /\ n \in Nat /\ EndOf(sh, 0) = 0
      /\ \A c \in 0..n : EndOf(sh, c) \in Nat
      /\ \A b \in 0..n : \A a \in 0..b : EndOf(sh, a) <= EndOf(sh, b)
  BY EndsGrow
<1>2. BeginOf(sh, 1) = 1
  <2>1. 1 - 1 = 0
    OBVIOUS
  <2> QED
    BY <1>1, <2>1 DEF BeginOf
<1>3. \A c \in 1..(n + 1) : BeginOf(sh, c) \in Nat /\ BeginOf(sh, c) >= c
  <2> TAKE c \in 1..(n + 1)
  <2>1. c - 1 \in 0..n
    BY <1>1
  <2>2. EndOf(sh, c - 1) \in Nat
    BY <1>1, <2>1
  <2> QED
    BY <1>1, <2>2 DEF BeginOf
<1>4. \A c \in 1..n : BeginOf(sh, c + 1) = BeginOf(sh, c) + (EndOf(sh, c) - EndOf(sh, c - 1)) + 2
  <2> TAKE c \in 1..n
  <2>1. c - 1 \in 0..n /\ c \in 0..n /\ (c + 1) - 1 = c
    BY <1>1
  <2>2. EndOf(sh, c - 1) \in Nat /\ EndOf(sh, c) \in Nat
    BY <1>1, <2>1
  <2> QED
    BY <1>1, <2>1, <2>2 DEF BeginOf
<1>5. \A a, b \in 1..(n + 1) : a < b => BeginOf(sh, a) < BeginOf(sh, b)
  <2> SUFFICES ASSUME NEW a \in 1..(n + 1), NEW b \in 1..(n + 1), a < b
               PROVE  BeginOf(sh, a) < BeginOf(sh, b)
    OBVIOUS
  <2> DEFINE x == a - 1
             y == b - 1
  <2>1. x \in 0..y /\ y \in 0..n /\ x \in 0..n /\ x < y
    BY <1>1
  <2>2. BeginOf(sh, a) = EndOf(sh, x) + 2 * x + 1 /\ BeginOf(sh, b) = EndOf(sh, y) + 2 * y + 1
    BY DEF BeginOf
  <2> HIDE DEF x, y
  <2>3. EndOf(sh, x) <= EndOf(sh, y) /\ EndOf(sh, x) \in Nat /\ EndOf(sh, y) \in Nat
    BY <1>1, <2>1
  <2> QED
    BY <1>1, <2>1, <2>2, <2>3
<1> QED
  BY <1>2, <1>3, <1>4, <1>5

\* The chunk at a place is the one that begins before and does not end there.
LEMMA ChunkAtIs ==
  ASSUME NEW sh, IsShape(sh), NEW c \in 1..Len(sh.ends), NEW i \in Nat,
         BeginOf(sh, c) <= i, i < BeginOf(sh, c + 1)
  PROVE  ChunkAt(sh, i) = c
<1> DEFINE n == Len(sh.ends)
           Has(d) == BeginOf(sh, d) <= i /\ (d \in DOMAIN sh.ends => i < BeginOf(sh, d + 1))
<1>1. /\ n \in Nat /\ DOMAIN sh.ends = 1..n /\ c \in 1..n /\ c \in 1..(n + 1) /\ c + 1 \in 1..(n + 1)
  BY DEF IsShape
<1>2. /\ \A d \in 1..(n + 1) : BeginOf(sh, d) \in Nat
      /\ \A a, b \in 1..(n + 1) : a < b => BeginOf(sh, a) < BeginOf(sh, b)
  BY BeginsGrow
<1>3. ChunkAt(sh, i) = CHOOSE d \in 1..(n + 1) : Has(d)
  BY DEF ChunkAt
<1>4. Has(c)
  OBVIOUS
<1> HIDE DEF n
<1>5. ASSUME NEW d \in 1..(n + 1), Has(d) PROVE d = c
  <2>1. ~(d < c)
    <3> SUFFICES ASSUME d < c PROVE FALSE
      OBVIOUS
    <3>1. d \in 1..n /\ d + 1 \in 1..(n + 1) /\ d + 1 <= c
      BY <1>1
    <3>2. i < BeginOf(sh, d + 1)
      BY <1>1, <1>5, <3>1
    <3>3. d + 1 = c \/ BeginOf(sh, d + 1) < BeginOf(sh, c)
      BY <1>1, <1>2, <3>1
    <3>4. BeginOf(sh, d + 1) <= BeginOf(sh, c)
      BY <1>1, <1>2, <3>1, <3>3
    <3> QED
      BY <1>1, <1>2, <3>1, <3>2, <3>4
  <2>2. ~(c < d)
    <3> SUFFICES ASSUME c < d PROVE FALSE
      OBVIOUS
    <3>1. c + 1 = d \/ BeginOf(sh, c + 1) < BeginOf(sh, d)
      BY <1>1, <1>2
    <3>2. BeginOf(sh, c + 1) <= BeginOf(sh, d)
      BY <1>1, <1>2, <3>1
    <3> QED
      BY <1>1, <1>2, <1>5, <3>2
  <2> QED
    BY <1>1, <2>1, <2>2
<1> HIDE DEF Has
<1> QED
  BY <1>1, <1>3, <1>4, <1>5

\* Every place before the last size is in a chunk.
LEMMA ChunkFound ==
  ASSUME NEW sh, IsShape(sh), NEW i \in 1..(BeginOf(sh, Len(sh.ends) + 1) - 1)
  PROVE  \E c \in 1..Len(sh.ends) : BeginOf(sh, c) <= i /\ i < BeginOf(sh, c + 1)
<1> DEFINE n == Len(sh.ends)
           T == {c \in 1..n : i < BeginOf(sh, c + 1)}
<1>1. n \in Nat
  BY EndsGrow
<1>2. BeginOf(sh, 1) = 1 /\ \A d \in 1..(n + 1) : BeginOf(sh, d) \in Nat
  BY BeginsGrow
<1>3. i < BeginOf(sh, n + 1) /\ i \in Nat /\ i >= 1
  BY <1>1, <1>2
<1> HIDE DEF n
<1>4. n \in 1..n
  <2>1. n # 0
    <3> SUFFICES ASSUME n = 0 PROVE FALSE
      OBVIOUS
    <3>1. n + 1 = 1
      OBVIOUS
    <3> QED
      BY <1>2, <1>3, <3>1
  <2> QED
    BY <1>1, <2>1
<1>5. T \subseteq Nat /\ T # {}
  BY <1>3, <1>4
<1> HIDE DEF T
<1>6. PICK c \in T : \A d \in T : c <= d
  BY <1>5, LeastOf
<1>7. c \in 1..n /\ i < BeginOf(sh, c + 1)
  BY DEF T
<1>8. BeginOf(sh, c) <= i
  <2>1. CASE c = 1
    BY <1>2, <1>3, <2>1
  <2>2. CASE c # 1
    <3>1. c - 1 \in 1..n /\ (c - 1) + 1 = c /\ ~(c <= c - 1) /\ c \in 1..(n + 1)
      BY <1>1, <1>7, <2>2
    <3>2. c - 1 \notin T
      BY <1>6, <3>1
    <3>3. ~(i < BeginOf(sh, c))
      BY <3>1, <3>2 DEF T
    <3> QED
      BY <1>2, <1>3, <3>1, <3>3
  <2> QED
    BY <2>1, <2>2
<1> QED
  BY <1>7, <1>8 DEF n

\* The content as it is sent in chunks: what stands where a chunk begins, and behind it.
AreChunks(w, K, sh, n) ==
    /\ \A i \in DOMAIN w : w[i].kind = "size" => w[i].n \in Nat
    /\ w[BeginOf(sh, n + 1)].n = 0
    /\ \A c \in 1..n :
         /\ w[BeginOf(sh, c)].kind = "size"
         /\ w[BeginOf(sh, c)].n = EndOf(sh, c) - EndOf(sh, c - 1)
         /\ \A x \in 1..(EndOf(sh, c) - EndOf(sh, c - 1)) :
              w[BeginOf(sh, c) + x] = K[EndOf(sh, c - 1) + x]

\* InChunks sends content in this way.
LEMMA InChunksIs ==
  ASSUME NEW sh, IsShape(sh), NEW n, n = Len(sh.ends), NEW C, NEW K \in Seq(C),
         Len(K) = EndOf(sh, n), \A t \in C : t.kind # "size"
  PROVE  /\ DOMAIN InChunks(K, sh) = 1..BeginOf(sh, n + 1)
         /\ \E D : InChunks(K, sh) \in Seq(D)
         /\ Len(InChunks(K, sh)) = BeginOf(sh, n + 1)
         /\ AreChunks(InChunks(K, sh), K, sh, n)
<1> DEFINE w == InChunks(K, sh)
           m == BeginOf(sh, n + 1)
           At(i, c) == IF i = BeginOf(sh, c) THEN Unit("size", EndOf(sh, c) - EndOf(sh, c - 1), "")
                       ELSE IF i = BeginOf(sh, c + 1) - 1 THEN Unit("tail", 0, "")
                       ELSE K[i - 2 * (c - 1) - 1]
           V(i) == IF i = m THEN Unit("size", 0, "") ELSE At(i, ChunkAt(sh, i))
<1>1. /\ n \in Nat /\ \A c \in 0..n : EndOf(sh, c) \in Nat
      /\ \A c \in 1..n : EndOf(sh, c - 1) < EndOf(sh, c)
      /\ \A b \in 0..n : \A a \in 0..b : EndOf(sh, a) <= EndOf(sh, b)
  BY EndsGrow
<1>2. /\ \A c \in 1..(n + 1) : BeginOf(sh, c) \in Nat /\ BeginOf(sh, c) >= c
      /\ \A c \in 1..n : BeginOf(sh, c + 1) = BeginOf(sh, c) + (EndOf(sh, c) - EndOf(sh, c - 1)) + 2
      /\ \A a, b \in 1..(n + 1) : a < b => BeginOf(sh, a) < BeginOf(sh, b)
  BY BeginsGrow
<1>3. m \in Nat /\ m >= 1
  BY <1>1, <1>2
<1>4. w = [i \in 1..m |-> V(i)]
  BY DEF InChunks
<1> HIDE DEF V
<1> HIDE DEF m, At, w
<1>5. DOMAIN w = 1..m /\ Len(w) = m
  BY <1>3, <1>4
<1>15. \A i \in 1..m : w[i] = V(i)
  BY <1>4
<1>6. w[m] = Unit("size", 0, "")
  <2>1. w[m] = V(m)
    BY <1>3, <1>15
  <2> QED
    BY <2>1 DEF V
<1>7. ASSUME NEW c \in 1..n
      PROVE  /\ c \in 1..(n + 1) /\ c + 1 \in 1..(n + 1) /\ c - 1 \in 0..n /\ c \in 0..n
             /\ BeginOf(sh, c) \in Nat /\ BeginOf(sh, c) >= 1
             /\ BeginOf(sh, c + 1) \in Nat /\ BeginOf(sh, c + 1) <= m
             /\ EndOf(sh, c) \in Nat /\ EndOf(sh, c - 1) \in Nat /\ EndOf(sh, c) <= EndOf(sh, n)
             /\ EndOf(sh, c - 1) < EndOf(sh, c)
             /\ BeginOf(sh, c) = EndOf(sh, c - 1) + 2 * (c - 1) + 1
             /\ BeginOf(sh, c + 1) = BeginOf(sh, c) + (EndOf(sh, c) - EndOf(sh, c - 1)) + 2
  <2>1. c \in 1..(n + 1) /\ c + 1 \in 1..(n + 1) /\ c - 1 \in 0..n /\ c \in 0..n /\ n \in 0..n /\ c \in 0..n
    BY <1>1
  <2>2. /\ BeginOf(sh, c) \in Nat /\ BeginOf(sh, c) >= 1 /\ BeginOf(sh, c + 1) \in Nat
        /\ EndOf(sh, c) \in Nat /\ EndOf(sh, c - 1) \in Nat /\ EndOf(sh, c) <= EndOf(sh, n)
    <3>1. BeginOf(sh, c) >= c /\ BeginOf(sh, c) \in Nat
      BY <1>2, <2>1
    <3>2. EndOf(sh, c) \in Nat /\ EndOf(sh, c - 1) \in Nat /\ BeginOf(sh, c + 1) \in Nat
      BY <1>1, <1>2, <2>1
    <3>3. EndOf(sh, c) <= EndOf(sh, n)
      BY <1>1, <2>1
    <3> QED
      BY <3>1, <3>2, <3>3
  <2>3. BeginOf(sh, c + 1) <= m
    <3>1. CASE c = n
      BY <2>2, <3>1 DEF m
    <3>2. CASE c # n
      <4>1. c + 1 < n + 1 /\ n + 1 \in 1..(n + 1)
        BY <1>1, <3>2
      <4>2. BeginOf(sh, c + 1) < BeginOf(sh, n + 1)
        BY <1>2, <2>1, <4>1
      <4> QED
        BY <1>3, <2>2, <4>2 DEF m
    <3> QED
      BY <3>1, <3>2
  <2> QED
    BY <1>1, <1>2, <2>1, <2>2, <2>3 DEF BeginOf
<1>8. ASSUME NEW c \in 1..n, NEW i \in Nat, BeginOf(sh, c) <= i, i < BeginOf(sh, c + 1)
      PROVE  i \in 1..m /\ w[i] = At(i, c)
  <2>1. ChunkAt(sh, i) = c
    BY <1>8, ChunkAtIs
  <2>2. i \in 1..m /\ i # m
    <3> DEFINE B == BeginOf(sh, c)
               B1 == BeginOf(sh, c + 1)
    <3>1. B \in Nat /\ B >= 1 /\ B1 \in Nat /\ B1 <= m /\ B <= i /\ i < B1
      BY <1>7, <1>8
    <3> HIDE DEF B, B1
    <3> QED
      BY <1>3, <3>1
  <2> QED
    BY <1>15, <2>1, <2>2 DEF V
<1>9. ASSUME NEW c \in 1..n
      PROVE  w[BeginOf(sh, c)] = Unit("size", EndOf(sh, c) - EndOf(sh, c - 1), "")
  <2> DEFINE i == BeginOf(sh, c)
  <2>1. i \in Nat /\ i <= i /\ i < BeginOf(sh, c + 1)
    <3> DEFINE E0 == EndOf(sh, c - 1)
               E1 == EndOf(sh, c)
               B1 == BeginOf(sh, c + 1)
    <3>1. i \in Nat /\ E0 \in Nat /\ E1 \in Nat /\ E0 < E1 /\ B1 = i + (E1 - E0) + 2 /\ B1 \in Nat
      BY <1>7
    <3> HIDE DEF E0, E1, B1, i
    <3>2. i <= i /\ i < B1
      BY <3>1
    <3> QED
      BY <3>1, <3>2 DEF B1
  <2>2. w[i] = At(i, c)
    BY <1>8, <2>1
  <2> QED
    BY <2>2 DEF At
<1>10. ASSUME NEW c \in 1..n, NEW x \in 1..(EndOf(sh, c) - EndOf(sh, c - 1))
       PROVE  w[BeginOf(sh, c) + x] = K[EndOf(sh, c - 1) + x]
  <2> DEFINE i == BeginOf(sh, c) + x
             B == BeginOf(sh, c)
             E0 == EndOf(sh, c - 1)
             E1 == EndOf(sh, c)
             B1 == BeginOf(sh, c + 1)
  <2>1. B \in Nat /\ E0 \in Nat /\ E1 \in Nat /\ B = E0 + 2 * (c - 1) + 1 /\ B1 = B + (E1 - E0) + 2
        /\ x \in Nat /\ x >= 1 /\ x <= E1 - E0 /\ i = B + x /\ c \in Nat
    BY <1>1, <1>7
  <2> HIDE DEF B, B1, E0, E1, i
  <2>2. i \in Nat /\ B <= i /\ i < B1 /\ i # B /\ i # B1 - 1 /\ i - 2 * (c - 1) - 1 = E0 + x
    BY <2>1
  <2>3. w[i] = At(i, c)
    BY <1>8, <2>2 DEF B, B1
  <2>4. At(i, c) = K[i - 2 * (c - 1) - 1]
    BY <2>2 DEF At, B, B1
  <2> QED
    BY <2>2, <2>3, <2>4 DEF i, B, E0
<1>13. w[m].n = 0
  <2>1. Unit("size", 0, "").n = 0
    BY DEF Unit
  <2> QED
    BY <1>6, <2>1
<1>11. ASSUME NEW i \in 1..m, w[i].kind = "size" PROVE w[i].n \in Nat
  <2>1. CASE i = m
    BY <1>13, <2>1
  <2>2. CASE i # m
    <3>1. i \in 1..(m - 1) /\ i \in Nat
      BY <1>3, <2>2
    <3>2. PICK c \in 1..n : BeginOf(sh, c) <= i /\ i < BeginOf(sh, c + 1)
      BY <3>1, ChunkFound DEF m
    <3>3. w[i] = At(i, c)
      BY <1>8, <3>1, <3>2
    <3> DEFINE E0 == EndOf(sh, c - 1)
               E1 == EndOf(sh, c)
               B == BeginOf(sh, c)
               B1 == BeginOf(sh, c + 1)
               N == EndOf(sh, n)
    <3>4. /\ E0 \in Nat /\ E1 \in Nat /\ E0 < E1 /\ E1 <= N /\ B \in Nat /\ B1 \in Nat
          /\ B = E0 + 2 * (c - 1) + 1 /\ B1 = B + (E1 - E0) + 2 /\ B <= i /\ i < B1 /\ c \in Nat
      BY <1>1, <1>7, <3>2
    <3>5. At(i, c) = IF i = B THEN Unit("size", E1 - E0, "")
                     ELSE IF i = B1 - 1 THEN Unit("tail", 0, "") ELSE K[i - 2 * (c - 1) - 1]
      BY DEF At
    <3> HIDE DEF E0, E1, B, B1, N
    <3>6. CASE i = B
      <4>1. E1 - E0 \in Nat
        BY <3>4
      <4>2. w[i].n = E1 - E0
        <5> DEFINE y == E1 - E0
        <5>1. w[i] = Unit("size", y, "")
          BY <3>3, <3>5, <3>6
        <5> HIDE DEF y
        <5>2. w[i].n = y
          <6>1. Unit("size", y, "").n = y
            BY DEF Unit
          <6> QED
            BY <5>1, <6>1
        <5> QED
          BY <5>2 DEF y
      <4> QED
        BY <4>1, <4>2
    <3>7. CASE i # B /\ i = B1 - 1
      <4>1. w[i].kind = "tail"
        <5>1. w[i] = Unit("tail", 0, "")
          BY <3>3, <3>5, <3>7
        <5>2. Unit("tail", 0, "").kind = "tail"
          BY DEF Unit
        <5> QED
          BY <5>1, <5>2
      <4> QED
        BY <1>11, <4>1
    <3>8. CASE i # B /\ i # B1 - 1
      <4> DEFINE j == i - 2 * (c - 1) - 1
      <4>1. j \in 1..N
        <5> DEFINE z == 2 * (c - 1)
        <5>1. z \in Nat /\ B = E0 + z + 1 /\ j = i - z - 1 /\ N \in Nat
          <6>1. N \in Nat
            BY <1>1 DEF N
          <6> QED
            BY <3>4, <6>1
        <5> HIDE DEF z, j
        <5>2. j \in Int /\ E0 + z + 1 < i /\ i < E1 + z + 2
          BY <3>1, <3>4, <3>8, <5>1
        <5> QED
          BY <3>1, <3>4, <5>1, <5>2
      <4>2. w[i] = K[j]
        BY <3>3, <3>5, <3>8
      <4> HIDE DEF j
      <4>3. K[j] \in C
        BY <4>1 DEF N
      <4> QED
        BY <1>11, <4>2, <4>3
    <3> QED
      BY <3>6, <3>7, <3>8
  <2> QED
    BY <2>1, <2>2
<1>12. \E D : w \in Seq(D)
  <2> DEFINE D == {w[i] : i \in 1..m}
  <2>1. w = [i \in 1..m |-> w[i]]
    BY <1>4
  <2>2. \A i \in 1..m : w[i] \in D
    OBVIOUS
  <2> HIDE DEF D
  <2>3. w \in [1..m -> D]
    BY <2>1, <2>2
  <2>4. w \in Seq(D)
    BY <1>3, <2>3
  <2> QED
    BY <2>4
<1>14. \A c \in 1..n : /\ w[BeginOf(sh, c)].kind = "size"
                       /\ w[BeginOf(sh, c)].n = EndOf(sh, c) - EndOf(sh, c - 1)
  <2> TAKE c \in 1..n
  <2> DEFINE y == EndOf(sh, c) - EndOf(sh, c - 1)
             x == w[BeginOf(sh, c)]
  <2>1. x = Unit("size", y, "")
    BY <1>9
  <2> HIDE DEF x, y
  <2>2. x.kind = "size" /\ x.n = y
    BY <2>1 DEF Unit
  <2> QED
    BY <2>2 DEF x, y
<1> QED
  BY <1>5, <1>10, <1>11, <1>12, <1>13, <1>14 DEF AreChunks, m, w

\* y things of b behind p are those of K behind x.
Copied(b, p, K, x, y) == \A i \in 1..y : b[p + i] = K[x + i]

\* They go on from the first x things of K.
LEMMA SubSeqJoin ==
  ASSUME NEW A, NEW K \in Seq(A), NEW b \in Seq(A), NEW x \in Nat, NEW y \in Nat, NEW p \in Nat,
         x + y <= Len(K), p + y <= Len(b), Copied(b, p, K, x, y)
  PROVE  SubSeq(K, 1, x) \o SubSeq(b, p + 1, p + y) = SubSeq(K, 1, x + y)
<1> DEFINE u == SubSeq(K, 1, x)
           v == SubSeq(b, p + 1, p + y)
           w == SubSeq(K, 1, x + y)
           z == u \o v
<1>1. u \in Seq(A) /\ Len(u) = x /\ \A i \in 1..x : u[i] = K[i]
  OBVIOUS
<1>2. v \in Seq(A) /\ Len(v) = y /\ \A i \in 1..y : v[i] = b[p + i]
  <2>1. Len(b) \in Nat /\ p + 1 \in Nat /\ p + y \in Nat /\ (p + y) - (p + 1) + 1 = y
    OBVIOUS
  <2>2. \A i \in 1..y : (p + 1) + i - 1 = p + i
    OBVIOUS
  <2> QED
    BY <2>1, <2>2
<1>3. w \in Seq(A) /\ Len(w) = x + y /\ \A i \in 1..(x + y) : w[i] = K[i]
  OBVIOUS
<1> HIDE DEF u, v, w, z
<1>4. /\ z \in Seq(A) /\ Len(z) = Len(u) + Len(v)
      /\ \A i \in 1..Len(u) : z[i] = u[i]
      /\ \A i \in 1..Len(v) : z[Len(u) + i] = v[i]
  <2>1. z = u \o v
    BY DEF z
  <2>2. u \in Seq(A) /\ v \in Seq(A)
    BY <1>1, <1>2
  <2> QED
    BY <2>1, <2>2, JoinedIs
<1>5. Len(z) = Len(w)
  BY <1>1, <1>2, <1>3, <1>4
<1>6. ASSUME NEW i \in 1..Len(z) PROVE z[i] = w[i]
  <2>1. i \in 1..(x + y) /\ w[i] = K[i]
    BY <1>3, <1>5
  <2>2. CASE i <= x
    <3>1. i \in 1..x
      BY <2>2
    <3> QED
      BY <1>1, <1>4, <2>1, <3>1
  <2>3. CASE i > x
    <3> DEFINE k == i - x
    <3>1. k \in 1..y /\ x + k = i
      BY <2>1, <2>3
    <3> HIDE DEF k
    <3>2. z[x + k] = v[k] /\ v[k] = b[p + k] /\ b[p + k] = K[x + k]
      BY <1>1, <1>2, <1>4, <3>1 DEF Copied
    <3> QED
      BY <2>1, <3>1, <3>2
  <2> QED
    BY <2>1, <2>2, <2>3
<1>7. z = w
  BY <1>3, <1>4, <1>5, <1>6, SeqEqual
<1> QED
  BY <1>7 DEF z, u, v, w

\* The first x things of K, and y things of b behind them.
Glued(K, x, b, p, y) ==
    SubSeq(K, 1, x) \o SubSeq(b, p + 1, p + y) = SubSeq(K, 1, x + y)

\* The same, with a name.
LEMMA SubSeqGlued ==
  ASSUME NEW A, NEW K \in Seq(A), NEW b \in Seq(A), NEW x \in Nat, NEW y \in Nat, NEW p \in Nat,
         x + y <= Len(K), p + y <= Len(b), Copied(b, p, K, x, y)
  PROVE  Glued(K, x, b, p, y)
  BY SubSeqJoin DEF Glued

\* The states of the loop over the chunks.
AreCuts(f, b) ==
    /\ f[0] = [pos |-> 1, out |-> <<>>]
    /\ \A i \in 1..Len(b) : f[i] = NextChunk(b, f[i - 1])
    /\ Dechunk(b) = f[Len(b)].out

\* The loop goes through any units.
LEMMA CutRounds ==
  ASSUME NEW A, NEW b \in Seq(A), \A i \in 1..Len(b) : b[i].kind = "size" => b[i].n \in Nat
  PROVE  \E f : AreCuts(f, b)
<1> DEFINE n == Len(b)
           T == [pos : Nat \ {0}, out : Seq(A)]
           x == [pos |-> 1, out |-> <<>>]
           G == [i \in 1..n |-> [r \in T |-> NextChunk(b, r)]]
           Body(f) == [i \in 0..n |-> IF i = 0 THEN x ELSE NextChunk(b, f[i - 1])]
           F == CHOOSE f : f = Body(f)
<1>1. x \in T /\ n \in Nat
  OBVIOUS
<1>2. ASSUME NEW r \in T PROVE NextChunk(b, r) \in T
  <2> DEFINE p == r.pos
             m == b[p].n
  <2>1. p \in Nat /\ p >= 1 /\ r.out \in Seq(A)
    OBVIOUS
  <2>2. \A q \in Nat, o \in Seq(A) : q # 0 => [pos |-> q, out |-> o] \in T
    OBVIOUS
  <2>3. \A o, q \in Seq(A) : o \o q \in Seq(A)
    OBVIOUS
  <2> HIDE DEF T, n
  <2>4. CASE p > Len(b) \/ b[p].kind # "size" \/ m = 0
    BY <2>4 DEF NextChunk
  <2>5. CASE ~(p > Len(b) \/ b[p].kind # "size" \/ m = 0)
    <3>1. p \in 1..Len(b) /\ m \in Nat /\ Len(b) \in Nat
      BY <2>1, <2>5
    <3> HIDE DEF p, m
    <3>2. CASE p + m > Len(b)
      <4>1. From(b, p + 1) \in Seq(A)
        <5>1. \A k \in (p + 1)..Len(b) : b[k] \in A
          BY <3>1
        <5>2. p + 1 \in Nat /\ p + 1 >= 1
          BY <3>1
        <5> QED
          BY <3>1, <5>2 DEF From
      <4>2. r.out \o From(b, p + 1) \in Seq(A) /\ Len(b) + 1 \in Nat /\ Len(b) + 1 # 0
        BY <2>1, <2>3, <3>1, <4>1
      <4>3. NextChunk(b, r) = [pos |-> Len(b) + 1, out |-> r.out \o From(b, p + 1)]
        BY <2>5, <3>2 DEF NextChunk, p, m
      <4> QED
        BY <2>2, <4>2, <4>3
    <3>3. CASE ~(p + m > Len(b))
      <4>1. SubSeq(b, p + 1, p + m) \in Seq(A)
        BY <3>1, <3>3
      <4>2. r.out \o SubSeq(b, p + 1, p + m) \in Seq(A) /\ p + m + 2 \in Nat /\ p + m + 2 # 0
        BY <2>1, <2>3, <3>1, <4>1
      <4>3. NextChunk(b, r) = [pos |-> p + m + 2, out |-> r.out \o SubSeq(b, p + 1, p + m)]
        BY <2>5, <3>3 DEF NextChunk, p, m
      <4> QED
        BY <2>2, <4>2, <4>3
    <3> QED
      BY <3>2, <3>3
  <2> QED
    BY <2>4, <2>5
<1> HIDE DEF T, x
<1>3. G \in [1..n -> [T -> T]]
  BY <1>2
<1> HIDE DEF G
<1>4. PICK f : AreRounds(f, n, T, x, G)
  BY <1>1, <1>3, Rounds
<1>5. ASSUME NEW i \in 1..n PROVE f[i] = NextChunk(b, f[i - 1])
  <2>1. f[i - 1] \in T
    BY <1>1, <1>4 DEF AreRounds
  <2> QED
    BY <1>4, <2>1 DEF AreRounds, G
<1>6. f = Body(f)
  <2>1. \A i \in 0..n : f[i] = IF i = 0 THEN x ELSE NextChunk(b, f[i - 1])
    BY <1>1, <1>4, <1>5 DEF AreRounds
  <2>2. f \in [0..n -> T]
    BY <1>4 DEF AreRounds
  <2> QED
    BY <2>1, <2>2
<1>7. F = Body(F)
  BY <1>6
<1>8. Dechunk(b) = F[n].out
  BY DEF Dechunk, x
<1> HIDE DEF F, n
<1>9. F[0] = x /\ \A i \in 1..n : F[i] = NextChunk(b, F[i - 1])
  BY <1>1, <1>7, SMTT(30)
<1> QED
  BY <1>8, <1>9 DEF x, n, AreCuts

\* The loop over the chunks stands before one, with the content before it, or
\* behind the end of what has come.
CutAt(r, i, K, sh, n, j) ==
    \E p \in Nat, x \in 0..Len(K) :
        /\ r = [pos |-> p, out |-> SubSeq(K, 1, x)]
        /\ \/ p > j /\ j < BeginOf(sh, n + 1)
           \/ \E c \in 1..(n + 1) : /\ p = BeginOf(sh, c) /\ x = EndOf(sh, c - 1)
                                    /\ c = i + 1 \/ c = n + 1

\* A round goes on to the next chunk.
LEMMA NextCut ==
  ASSUME NEW sh, IsShape(sh), NEW n, n = Len(sh.ends), NEW A, NEW K \in Seq(A), Len(K) = EndOf(sh, n),
         NEW w, AreChunks(w, K, sh, n), NEW j \in 0..BeginOf(sh, n + 1),
         NEW b \in Seq(A), Len(b) = j, \A k \in 1..j : b[k] = w[k],
         NEW i \in Nat, i >= 1, NEW r, CutAt(r, i - 1, K, sh, n, j)
  PROVE  CutAt(NextChunk(b, r), i, K, sh, n, j)
<1> DEFINE m == BeginOf(sh, n + 1)
           N == Len(K)
<1>1. /\ n \in Nat /\ \A c \in 0..n : EndOf(sh, c) \in Nat
      /\ \A c \in 1..n : EndOf(sh, c - 1) < EndOf(sh, c)
      /\ \A d \in 0..n : \A a \in 0..d : EndOf(sh, a) <= EndOf(sh, d)
  BY EndsGrow
<1>2. /\ \A c \in 1..(n + 1) : BeginOf(sh, c) \in Nat /\ BeginOf(sh, c) >= c
      /\ \A c \in 1..n : BeginOf(sh, c + 1) = BeginOf(sh, c) + (EndOf(sh, c) - EndOf(sh, c - 1)) + 2
      /\ \A a, d \in 1..(n + 1) : a < d => BeginOf(sh, a) < BeginOf(sh, d)
  BY BeginsGrow
<1>3. m \in Nat /\ N \in Nat /\ j \in Nat /\ j <= m
  BY <1>1, <1>2
<1>4. PICK p \in Nat, x \in 0..N :
        /\ r = [pos |-> p, out |-> SubSeq(K, 1, x)]
        /\ \/ p > j /\ j < m
           \/ \E c \in 1..(n + 1) : /\ p = BeginOf(sh, c) /\ x = EndOf(sh, c - 1)
                                    /\ c = (i - 1) + 1 \/ c = n + 1
  BY DEF CutAt
<1>5. r.pos = p /\ r.out = SubSeq(K, 1, x)
  BY <1>4
<1>6. CASE p > j /\ j < m
  <2>1. NextChunk(b, r) = r
    BY <1>5, <1>6 DEF NextChunk
  <2> QED
    BY <1>4, <1>6, <2>1 DEF CutAt
<1>7. ASSUME NEW c \in 1..(n + 1), p = BeginOf(sh, c), x = EndOf(sh, c - 1), ~(p > j /\ j < m),
             c = (i - 1) + 1 \/ c = n + 1
      PROVE  CutAt(NextChunk(b, r), i, K, sh, n, j)
  <2>1. CASE c = n + 1
    <3>1. p = m /\ j = m
      BY <1>3, <1>7, <2>1
    <3>2. b[p].n = 0
      <4>2. m >= n + 1 /\ n \in Nat
        <5>1. n + 1 \in 1..(n + 1)
          BY <1>1
        <5> QED
          BY <1>1, <1>2, <5>1
      <4>1. p \in 1..j
        <5> HIDE DEF m, N
        <5> QED
          BY <1>3, <3>1, <4>2
      <4> QED
        BY <3>1, <4>1 DEF AreChunks
    <3>3. NextChunk(b, r) = r
      BY <1>5, <3>2 DEF NextChunk
    <3>4. \E d \in 1..(n + 1) : /\ p = BeginOf(sh, d) /\ x = EndOf(sh, d - 1)
                                /\ d = i + 1 \/ d = n + 1
      BY <1>7, <2>1
    <3>6. r = [pos |-> p, out |-> SubSeq(K, 1, x)] /\ x \in 0..Len(K) /\ p \in Nat
      BY <1>4
    <3>5. CutAt(r, i, K, sh, n, j)
      BY <3>4, <3>6 DEF CutAt
    <3> QED
      BY <3>3, <3>5
  <2>2. CASE c # n + 1
    <3> DEFINE z == EndOf(sh, c) - EndOf(sh, c - 1)
               E1 == EndOf(sh, c)
               B1 == BeginOf(sh, c + 1)
    <3>1. c \in 1..n /\ c + 1 \in 1..(n + 1) /\ c \in 0..n /\ c - 1 \in 0..n /\ n \in 0..n /\ c = i
          /\ (c + 1) - 1 = c
      <4>1. c = (i - 1) + 1 /\ c \in 1..(n + 1) /\ c # n + 1
        BY <1>7, <2>2
      <4>2. n \in Nat /\ i \in Nat
        BY <1>1
      <4>3. c = i /\ c \in Nat /\ c >= 1 /\ c <= n
        BY <4>1, <4>2
      <4> QED
        BY <4>2, <4>3
    <3>2. /\ z \in Nat /\ z > 0 /\ x + z = E1 /\ E1 <= N /\ B1 = p + z + 2 /\ B1 \in Nat
          /\ p \in Nat /\ p >= 1 /\ x \in Nat
      <4>1. EndOf(sh, c) \in Nat /\ EndOf(sh, c - 1) \in Nat /\ EndOf(sh, c - 1) < EndOf(sh, c)
        BY <1>1, <3>1
      <4>2. EndOf(sh, c) <= EndOf(sh, n)
        BY <1>1, <3>1
      <4>3. B1 = p + z + 2 /\ B1 \in Nat
        BY <1>2, <1>7, <3>1
      <4>4. p >= 1
        <5>1. p >= c
          BY <1>2, <1>7
        <5> QED
          BY <3>1, <5>1
      <4>5. x = EndOf(sh, c - 1) /\ p \in Nat /\ N = EndOf(sh, n)
        BY <1>7
      <4>6. z \in Nat /\ z > 0 /\ x + z = E1 /\ x \in Nat
        <5> DEFINE e == EndOf(sh, c)
        <5>1. z = e - x /\ E1 = e /\ x < e /\ x \in Nat /\ e \in Nat
          BY <4>1, <4>5
        <5> HIDE DEF e, z, E1
        <5> QED
          BY <5>1
      <4> HIDE DEF z, E1, B1, N
      <4> QED
        BY <4>2, <4>3, <4>4, <4>5, <4>6 DEF E1
    <3>3. B1 <= m
      <4>1. CASE c = n
        BY <1>3, <3>2, <4>1
      <4>2. CASE c # n
        <5>1. c + 1 < n + 1 /\ n + 1 \in 1..(n + 1)
          BY <1>1, <3>1, <4>2
        <5>2. B1 < m
          BY <1>2, <3>1, <5>1
        <5> QED
          BY <1>3, <3>2, <5>2
      <4> QED
        BY <4>1, <4>2
    <3>4. /\ w[p].kind = "size" /\ w[p].n = z
          /\ \A y \in 1..z : w[p + y] = K[x + y]
      BY <1>7, <3>1 DEF AreChunks
    <3> HIDE DEF z, E1, B1, m, N
    <3>5. CASE p > j
      <4>1. j < m
        BY <1>3, <3>2, <3>3, <3>5
      <4> QED
        BY <1>7, <3>5, <4>1
    <3>6. CASE ~(p > j)
      <4>1. p \in 1..j /\ b[p].kind = "size" /\ b[p].n = z /\ z # 0
        BY <1>3, <3>2, <3>4, <3>6
      <4>2. CASE p + z > j
        <5> DEFINE y == j - p
        <5>1. y \in Nat /\ p + y = j /\ y <= z /\ x + y <= N /\ x + y \in 0..N /\ j < m
          <6>1. j \in Nat /\ p \in Nat /\ p <= j /\ z \in Nat /\ x \in Nat /\ j < p + z
            BY <1>3, <3>2, <4>1, <4>2
          <6>2. x + z <= N /\ p + z + 2 <= m /\ m \in Nat /\ N \in Nat
            BY <1>3, <3>2, <3>3
          <6>3. y = j - p
            OBVIOUS
          <6> HIDE DEF y
          <6>4. y \in Nat /\ p + y = j /\ y <= z
            BY <6>1, <6>3
          <6>5. j < m
            BY <6>1, <6>2
          <6>6. x + y <= N /\ x + y \in Nat
            BY <6>1, <6>2, <6>4
          <6>7. x + y \in 0..N
            BY <6>2, <6>6
          <6> QED
            BY <6>4, <6>5, <6>6, <6>7
        <5>2. Copied(b, p, K, x, y)
          <6>1. ASSUME NEW k \in 1..y PROVE b[p + k] = K[x + k]
            <7>1. k \in 1..z /\ p + k \in 1..j
              BY <1>3, <3>2, <5>1
            <7> QED
              BY <3>4, <7>1
          <6> QED
            BY <6>1 DEF Copied
        <5>3. NextChunk(b, r) = [pos |-> j + 1, out |-> SubSeq(K, 1, x) \o SubSeq(b, p + 1, j)]
          BY <1>5, <3>6, <4>1, <4>2 DEF NextChunk, From
        <5> HIDE DEF y
        <5>4. SubSeq(K, 1, x) \o SubSeq(b, p + 1, p + y) = SubSeq(K, 1, x + y)
          <6>1. x + y <= Len(K) /\ p + y <= Len(b)
            BY <1>3, <5>1 DEF N
          <6>2. Glued(K, x, b, p, y)
            BY <3>2, <5>1, <5>2, <6>1, SubSeqGlued
          <6> QED
            BY <6>2 DEF Glued
        <5>5. NextChunk(b, r) = [pos |-> j + 1, out |-> SubSeq(K, 1, x + y)]
          BY <5>1, <5>3, <5>4
        <5>6. j + 1 \in Nat /\ j + 1 > j
          BY <1>3
        <5> QED
          BY <5>1, <5>5, <5>6 DEF CutAt, m, N
      <4>3. CASE ~(p + z > j)
        <5>1. Copied(b, p, K, x, z)
          <6>1. ASSUME NEW k \in 1..z PROVE b[p + k] = K[x + k]
            <7>1. p + k \in 1..j
              BY <1>3, <3>2, <4>3
            <7> QED
              BY <3>4, <7>1
          <6> QED
            BY <6>1 DEF Copied
        <5>2. NextChunk(b, r) = [pos |-> p + z + 2, out |-> SubSeq(K, 1, x) \o SubSeq(b, p + 1, p + z)]
          BY <1>5, <3>6, <4>1, <4>3 DEF NextChunk
        <5>3. SubSeq(K, 1, x) \o SubSeq(b, p + 1, p + z) = SubSeq(K, 1, x + z)
          <6>1. x + z <= Len(K) /\ p + z <= Len(b)
            BY <1>3, <3>2, <4>1, <4>3 DEF N
          <6>2. Glued(K, x, b, p, z)
            BY <3>2, <5>1, <6>1, SubSeqGlued
          <6> QED
            BY <6>2 DEF Glued
        <5>4. NextChunk(b, r) = [pos |-> B1, out |-> SubSeq(K, 1, E1)]
          BY <3>2, <5>2, <5>3
        <5>5. E1 \in 0..N
          BY <1>3, <3>2
        <5>6. \E d \in 1..(n + 1) : /\ B1 = BeginOf(sh, d) /\ E1 = EndOf(sh, d - 1)
                                    /\ d = i + 1 \/ d = n + 1
          <6>1. B1 = BeginOf(sh, c + 1) /\ E1 = EndOf(sh, (c + 1) - 1) /\ c + 1 = i + 1
            BY <3>1 DEF B1, E1
          <6> QED
            BY <3>1, <6>1
        <5> QED
          BY <3>2, <5>4, <5>5, <5>6, ZenonT(30) DEF CutAt, N
      <4> QED
        BY <4>2, <4>3
    <3> QED
      BY <3>5, <3>6
  <2> QED
    BY <2>1, <2>2
<1> QED
  BY <1>4, <1>6, <1>7

\* What is read of chunks is a beginning of the content, and all of it if they
\* have all come.
LEMMA Dechunked ==
  ASSUME NEW sh, IsShape(sh), NEW n, n = Len(sh.ends), NEW A, NEW K \in Seq(A), Len(K) = EndOf(sh, n),
         NEW w, DOMAIN w = 1..BeginOf(sh, n + 1), AreChunks(w, K, sh, n), NEW j \in 0..BeginOf(sh, n + 1),
         NEW b \in Seq(A), Begins(b, w, j)
  PROVE  IsStart(Dechunk(b), K, j, BeginOf(sh, n + 1))
<1> DEFINE m == BeginOf(sh, n + 1)
           N == Len(K)
<1>1. /\ n \in Nat /\ \A c \in 0..n : EndOf(sh, c) \in Nat
      /\ EndOf(sh, 0) = 0
  BY EndsGrow
<1>2. /\ BeginOf(sh, 1) = 1 /\ \A c \in 1..(n + 1) : BeginOf(sh, c) \in Nat /\ BeginOf(sh, c) >= c
  BY BeginsGrow
<1>0. Len(b) = j /\ \A k \in 1..j : b[k] = w[k]
  BY DEF Begins
<1>3. m \in Nat /\ m >= n + 1 /\ N \in Nat /\ j \in Nat /\ j <= m
  BY <1>1, <1>2
<1>4. PICK f : AreCuts(f, b)
  <2>1. \A k \in 1..Len(b) : b[k].kind = "size" => b[k].n \in Nat
    BY <1>0, <1>3 DEF AreChunks
  <2> QED
    BY <2>1, CutRounds
<1>5. /\ f[0] = [pos |-> 1, out |-> <<>>]
      /\ \A i \in 1..j : f[i] = NextChunk(b, f[i - 1])
      /\ Dechunk(b) = f[j].out
  BY <1>0, <1>4 DEF AreCuts
<1> DEFINE Fine(i) == CutAt(f[i], i, K, sh, n, j)
           P == {i \in 0..j : Fine(i)}
<1>6. 0 \in P
  <2>1. f[0] = [pos |-> 1, out |-> SubSeq(K, 1, 0)]
    <3>1. SubSeq(K, 1, 0) = <<>>
      OBVIOUS
    <3> QED
      BY <1>5, <3>1
  <2>2. 1 = BeginOf(sh, 1) /\ 0 = EndOf(sh, 1 - 1) /\ 1 = 0 + 1 /\ 1 \in 1..(n + 1)
    <3>1. 1 - 1 = 0
      OBVIOUS
    <3> QED
      BY <1>1, <1>2, <3>1
  <2>3. \E c \in 1..(n + 1) : /\ 1 = BeginOf(sh, c) /\ 0 = EndOf(sh, c - 1)
                              /\ c = 0 + 1 \/ c = n + 1
    BY <2>2
  <2>4. 0 \in 0..Len(K) /\ 1 \in Nat /\ 0 \in 0..j
    BY <1>3
  <2> QED
    BY <2>1, <2>3, <2>4 DEF CutAt
<1>7. ASSUME NEW i \in 1..j, i - 1 \in P PROVE i \in P
  <2>1. i \in Nat /\ i >= 1 /\ i \in 0..j
    BY <1>3
  <2>2. CutAt(f[i - 1], i - 1, K, sh, n, j)
    BY <1>7
  <2>3. CutAt(NextChunk(b, f[i - 1]), i, K, sh, n, j)
    BY <1>0, <2>1, <2>2, NextCut
  <2> QED
    BY <1>5, <2>1, <2>3
<1> HIDE DEF P
<1>8. \A i \in 0..j : i \in P
  BY <1>3, <1>6, <1>7, UpTo
<1>9. CutAt(f[j], j, K, sh, n, j)
  <2>1. j \in P
    BY <1>3, <1>8
  <2> QED
    BY <2>1 DEF P
<1>10. PICK p \in Nat, x \in 0..N :
        /\ f[j] = [pos |-> p, out |-> SubSeq(K, 1, x)]
        /\ \/ p > j /\ j < m
           \/ \E c \in 1..(n + 1) : /\ p = BeginOf(sh, c) /\ x = EndOf(sh, c - 1)
                                    /\ c = j + 1 \/ c = n + 1
  BY <1>9 DEF CutAt
<1>11. j = m => x = N
  <2> SUFFICES ASSUME j = m PROVE x = N
    OBVIOUS
  <2>1. PICK c \in 1..(n + 1) : x = EndOf(sh, c - 1) /\ (c = j + 1 \/ c = n + 1)
    BY <1>3, <1>10
  <2>2. c = n + 1
    BY <1>1, <1>3, <2>1
  <2>3. c - 1 = n
    BY <1>1, <2>2
  <2> QED
    BY <2>1, <2>3
<1> QED
  BY <1>5, <1>10, <1>11 DEF IsStart

-----------------------------------------------------------------------------
(* A reply, and what is parsed of it.                                      *)

\* Content of the length that the shape has, of bytes only.
IsContent(K, sh) ==
    /\ Len(K) = EndOf(sh, Len(sh.ends)) /\ Len(K) \in Nat
    /\ \E C : /\ K \in Seq(C)
              /\ \A t \in C : t.kind = "byte" /\ (sh.inBody = 0 => ~HoldsCrLfCrLf(t))

\* ContentOf is such content.
LEMMA ContentIs ==
  ASSUME NEW sh, IsShape(sh), NEW asked
  PROVE  IsContent(ContentOf(asked, sh), sh)
<1> DEFINE N == EndOf(sh, Len(sh.ends))
           byte(i) == Unit("byte", i, [of |-> asked, blank |-> i = sh.inBody])
           C == {byte(i) : i \in Nat \ {0}}
           K == ContentOf(asked, sh)
<1>1. N \in Nat
  <2>1. Len(sh.ends) \in 0..Len(sh.ends)
    BY DEF IsShape
  <2> QED
    BY <2>1, EndsGrow
<1>2. \A t \in C : t.kind = "byte" /\ (sh.inBody = 0 => ~HoldsCrLfCrLf(t))
  <2> TAKE t \in C
  <2>1. PICK i \in Nat \ {0} : t = byte(i)
    OBVIOUS
  <2>2. t.kind = "byte" /\ t.says.blank = (i = sh.inBody)
    BY <2>1 DEF Unit
  <2>3. sh.inBody = 0 => ~t.says.blank
    BY <2>2
  <2> QED
    BY <2>2, <2>3 DEF HoldsCrLfCrLf
<1>3. K = [i \in 1..N |-> byte(i)]
  BY DEF ContentOf
<1>4. \A i \in 1..N : byte(i) \in C
  BY <1>1
<1> HIDE DEF byte, C, N, K
<1>5. K \in [1..N -> C]
  BY <1>3, <1>4
<1>6. K \in Seq(C) /\ Len(K) = N
  BY <1>1, <1>5
<1> QED
  BY <1>1, <1>2, <1>6 DEF IsContent, K, N

\* A body is a sequence, of the bytes as they are or of chunks.
LEMMA BodyIs ==
  ASSUME NEW sh, IsShape(sh), NEW asked
  PROVE  (\E D : BodyOf(asked, sh) \in Seq(D)) /\ Len(BodyOf(asked, sh)) \in Nat
<1> DEFINE K == ContentOf(asked, sh)
           n == Len(sh.ends)
<1>1. PICK C : /\ K \in Seq(C) /\ Len(K) = EndOf(sh, n) /\ Len(K) \in Nat
               /\ \A t \in C : t.kind = "byte"
  BY ContentIs DEF IsContent
<1>2. CASE sh.frame = "chunked"
  <2> HIDE DEF K
  <2>1. \A t \in C : t.kind # "size"
    BY <1>1
  <2>2. \E D : InChunks(K, sh) \in Seq(D)
    BY <1>1, <2>1, InChunksIs
  <2>3. PICK D : InChunks(K, sh) \in Seq(D)
    BY <2>2
  <2>4. BodyOf(asked, sh) = InChunks(K, sh)
    BY <1>2 DEF BodyOf, K
  <2> QED
    BY <2>3, <2>4
<1>3. CASE sh.frame # "chunked"
  <2>1. BodyOf(asked, sh) = K
    BY <1>3 DEF BodyOf
  <2> QED
    BY <1>1, <2>1
<1> QED
  BY <1>2, <1>3

\* A reply: the head, the blank line, the body.
IsReply(R, H, B, sh) ==
    /\ \E D : R \in Seq(D)
    /\ Len(H) \in Nat /\ Len(B) \in Nat /\ Len(R) = Len(H) + 1 + Len(B)
    /\ \A i \in 1..Len(H) : R[i] = H[i]
    /\ R[Len(H) + 1] = Unit("end", 0, sh.blank)
    /\ \A i \in 1..Len(B) : R[Len(H) + 1 + i] = B[i]

\* Reply makes such a reply.
LEMMA ReplyIs ==
  ASSUME NEW sh, IsShape(sh), NEW asked
  PROVE  IsReply(Reply(asked, sh), HeadOf(sh), BodyOf(asked, sh), sh)
<1> DEFINE R == Reply(asked, sh)
           H == HeadOf(sh)
           B == BodyOf(asked, sh)
           end == Unit("end", 0, sh.blank)
           v == <<end>>
           Hv == H \o v
<1>1. PICK D : B \in Seq(D)
  BY BodyIs
<1>2. H \in Seq(HeadUnits(sh))
  BY HeadIs DEF IsHead
<1> DEFINE A == D \cup HeadUnits(sh) \cup {end}
<1>3. R = Hv \o B
  BY DEF Reply
<1> HIDE DEF R, H, B, end
<1>4. H \in Seq(A) /\ B \in Seq(A) /\ Len(H) \in Nat /\ Len(B) \in Nat
  BY <1>1, <1>2
<1>5. v \in Seq(A)
  OBVIOUS
<1>6. Len(v) = 1 /\ v[1] = end
  OBVIOUS
<1> HIDE DEF v, A, Hv
<1>7. /\ Hv \in Seq(A) /\ Len(Hv) = Len(H) + Len(v)
      /\ \A i \in 1..Len(H) : Hv[i] = H[i]
      /\ \A i \in 1..Len(v) : Hv[Len(H) + i] = v[i]
  <2>1. Hv = H \o v
    BY DEF Hv
  <2> QED
    BY <1>4, <1>5, <2>1, JoinedIs
<1>8. /\ R \in Seq(A) /\ Len(R) = Len(Hv) + Len(B)
      /\ \A i \in 1..Len(Hv) : R[i] = Hv[i]
      /\ \A i \in 1..Len(B) : R[Len(Hv) + i] = B[i]
  <2>1. R = Hv \o B /\ Hv \in Seq(A) /\ B \in Seq(A)
    BY <1>3, <1>4, <1>7
  <2> QED
    BY <2>1, JoinedIs
<1>9. Len(Hv) = Len(H) + 1 /\ Hv[Len(H) + 1] = end
  <2>1. 1 \in 1..Len(v)
    BY <1>6
  <2> QED
    BY <1>6, <1>7, <2>1
<1>10. \A i \in 1..Len(H) : R[i] = H[i]
  <2> TAKE i \in 1..Len(H)
  <2>1. i \in 1..Len(Hv)
    BY <1>4, <1>9
  <2> QED
    BY <1>7, <1>8, <2>1
<1>11. R[Len(H) + 1] = end
  <2>1. Len(H) + 1 \in 1..Len(Hv)
    BY <1>4, <1>9
  <2> QED
    BY <1>8, <1>9, <2>1
<1>12. \A i \in 1..Len(B) : R[Len(H) + 1 + i] = B[i]
  BY <1>8, <1>9
<1>13. Len(R) = Len(H) + 1 + Len(B)
  BY <1>8, <1>9
<1> QED
  BY <1>4, <1>8, <1>10, <1>11, <1>12, <1>13 DEF IsReply, R, H, B, end

-----------------------------------------------------------------------------
(* What is parsed of a reply that may have been cut.                       *)

\* The parts of what is parsed: the status, the body, and where the head ends.
StatusOf(h) == IF LineOf(h, "reason") # 0 THEN h[LineOf(h, "code")].n ELSE 0

BodyIn(h, b) ==
    IF LineOf(h, "chunked") # 0 THEN Dechunk(b)
    ELSE IF LineOf(h, "content-length") # 0 /\ h[LineOf(h, "content-length")].n < Len(b)
      THEN SubSeq(b, 1, h[LineOf(h, "content-length")].n)
    ELSE b

HeadIn(r) == IF HeadEnd(r) = 0 THEN r ELSE Upto(r, HeadEnd(r))
BehindHead(r) == IF HeadEnd(r) = 0 THEN <<>> ELSE From(r, HeadEnd(r) + 1)

\* parseResponse in these parts.
LEMMA ParseResponseIs ==
  ASSUME NEW r
  PROVE  /\ ParseResponse(r).status = StatusOf(HeadIn(r))
         /\ ParseResponse(r).body = BodyIn(HeadIn(r), BehindHead(r))
         /\ ParseResponse(r).to = ToOf(HeadIn(r))
<1> DEFINE h == HeadIn(r)
           b == BehindHead(r)
<1>1. ParseResponse(r) = [status |-> StatusOf(h), body |-> BodyIn(h, b), to |-> ToOf(h)]
  BY DEF ParseResponse, HeadIn, BehindHead, StatusOf, BodyIn, ToOf
<1> HIDE DEF h, b
<1> QED
  BY <1>1 DEF h, b

\* The head ends where its end has come.
LEMMA HeadEndOf ==
  ASSUME NEW sh, IsShape(sh), ~Ambiguous(sh), NEW asked, NEW H, H = HeadOf(sh),
         NEW R, IsReply(R, H, BodyOf(asked, sh), sh),
         NEW k \in 0..Len(R), NEW r, Begins(r, R, k)
  PROVE  HeadEnd(r) = IF k > Len(H) THEN Len(H) + 1 ELSE 0
<1> DEFINE e == Len(H) + 1
           B == BodyOf(asked, sh)
           end == Unit("end", 0, sh.blank)
<1>1. /\ Len(H) \in Nat /\ Len(B) \in Nat /\ Len(R) = Len(H) + 1 + Len(B)
      /\ \A i \in 1..Len(H) : R[i] = H[i]
      /\ R[e] = end
      /\ \A i \in 1..Len(B) : R[e + i] = B[i]
  BY DEF IsReply
<1>2. Len(r) = k /\ k \in Nat /\ \A i \in 1..k : r[i] = R[i]
  BY <1>1 DEF Begins
<1>3. \A i \in 1..Len(H) : ~HoldsCrLfCrLf(H[i]) /\ H[i].kind # "end"
  <2>1. H \in Seq(HeadUnits(sh))
    BY HeadIs DEF IsHead
  <2> TAKE i \in 1..Len(H)
  <2>2. H[i] \in HeadUnits(sh)
    BY <2>1
  <2> QED
    BY <2>2, HeadUnitIs
<1>4. end.kind = "end" /\ end.says = sh.blank
  BY DEF Unit
<1>5. sh.blank \in {"crlf", "lf"}
  BY DEF IsShape
<1> HIDE DEF B, end
<1>6. CASE k <= Len(H)
  <2>1. \A i \in 1..k : ~HoldsCrLfCrLf(r[i]) /\ r[i].kind # "end"
    <3> TAKE i \in 1..k
    <3>1. i \in 1..Len(H)
      BY <1>1, <1>2, <1>6
    <3> QED
      BY <1>1, <1>2, <1>3, <3>1
  <2>2. LineOf(r, "end") = 0
    BY <1>2, <2>1, LineIs
  <2>3. HeadEnd(r) = 0
    BY <1>2, <2>1, <2>2, HeadEndIs
  <2> QED
    BY <1>1, <1>2, <1>6, <2>3
<1>7. CASE k > Len(H)
  <2>1. e \in 1..k /\ r[e] = end /\ e - 1 = Len(H)
    BY <1>1, <1>2, <1>7
  <2>2. \A i \in 1..(e - 1) : ~HoldsCrLfCrLf(r[i]) /\ r[i].kind # "end"
    <3> TAKE i \in 1..(e - 1)
    <3>1. i \in 1..Len(H) /\ i \in 1..k
      BY <1>1, <1>2, <2>1
    <3> QED
      BY <1>1, <1>2, <1>3, <3>1
  <2> HIDE DEF e
  <2>3. CASE sh.blank = "crlf"
    <3>1. HoldsCrLfCrLf(r[e])
      BY <1>4, <2>1, <2>3 DEF HoldsCrLfCrLf
    <3>2. HeadEnd(r) = e
      BY <1>2, <2>1, <2>2, <3>1, HeadEndIs
    <3> QED
      BY <1>1, <1>2, <1>7, <3>2 DEF e
  <2>4. CASE sh.blank = "lf"
    <3>1. sh.inBody = 0 /\ sh.frame # "chunked"
      BY <2>4 DEF Ambiguous
    <3>2. \A i \in 1..Len(B) : ~HoldsCrLfCrLf(B[i])
      <4>1. B = ContentOf(asked, sh)
        BY <3>1 DEF B, BodyOf
      <4>2. PICK C : B \in Seq(C) /\ \A t \in C : ~HoldsCrLfCrLf(t)
        BY <3>1, <4>1, ContentIs DEF IsContent
      <4> QED
        BY <4>2
    <3>3. ~HoldsCrLfCrLf(end)
      BY <1>4, <2>4 DEF HoldsCrLfCrLf
    <3>4. \A i \in 1..k : ~HoldsCrLfCrLf(r[i])
      <4> TAKE i \in 1..k
      <4>1. CASE i <= Len(H)
        <5>1. i \in 1..(e - 1)
          BY <1>1, <1>2, <2>1, <4>1
        <5> QED
          BY <2>2, <5>1
      <4>2. CASE i = e
        BY <2>1, <3>3, <4>2
      <4>3. CASE i > Len(H) /\ i # e
        <5>1. i - e \in 1..Len(B) /\ e + (i - e) = i
          BY <1>1, <1>2, <4>3, SMTT(30) DEF e
        <5>2. R[e + (i - e)] = B[i - e]
          BY <1>1, <5>1 DEF e
        <5> QED
          BY <1>2, <3>2, <5>1, <5>2
      <4> QED
        BY <1>1, <1>2, <4>1, <4>2, <4>3
    <3>5. LineOf(r, "end") = e
      <4> DEFINE v == LineOf(r, "end")
      <4>1. IsLineOf(r, "end", v)
        BY <1>2, LineFound
      <4> HIDE DEF v
      <4>2. r[e].kind = "end"
        BY <1>4, <2>1
      <4>3. v \in 1..k /\ r[v].kind = "end" /\ \A i \in 1..(v - 1) : r[i].kind # "end"
        BY <1>2, <2>1, <4>1, <4>2 DEF IsLineOf
      <4>4. ~(v < e)
        <5>1. v < e => v \in 1..(e - 1)
          BY <2>1, <4>3
        <5> QED
          BY <2>2, <4>3, <5>1
      <4>5. ~(e < v)
        BY <2>1, <4>2, <4>3
      <4>6. v = e
        BY <2>1, <4>3, <4>4, <4>5
      <4> QED
        BY <4>6 DEF v
    <3>6. HeadEnd(r) = e
      BY <1>2, <3>4, <3>5, HeadEndIs
    <3> QED
      BY <1>1, <1>2, <1>7, <3>6 DEF e
  <2> QED
    BY <1>5, <2>3, <2>4
<1> QED
  BY <1>1, <1>2, <1>6, <1>7

\* The head and the body of what has come are a beginning of those of the reply.
LEMMA PartsOf ==
  ASSUME NEW sh, IsShape(sh), ~Ambiguous(sh), NEW asked, NEW H, H = HeadOf(sh),
         NEW B, B = BodyOf(asked, sh), NEW R, IsReply(R, H, B, sh),
         NEW k \in 0..Len(R), NEW D, NEW r \in Seq(D), Begins(r, R, k)
  PROVE  /\ k <= Len(H) => Begins(HeadIn(r), H, k) /\ BehindHead(r) = <<>>
         /\ k > Len(H) => /\ Begins(HeadIn(r), H, Len(H)) /\ Begins(BehindHead(r), B, k - Len(H) - 1)
                          /\ BehindHead(r) \in Seq(D)
<1> DEFINE e == Len(H) + 1
<1>1. /\ Len(H) \in Nat /\ Len(B) \in Nat /\ Len(R) = Len(H) + 1 + Len(B)
      /\ \A i \in 1..Len(H) : R[i] = H[i]
      /\ \A i \in 1..Len(B) : R[Len(H) + 1 + i] = B[i]
  BY DEF IsReply
<1>2. Len(r) = k /\ k \in Nat /\ k <= Len(R) /\ \A i \in 1..k : r[i] = R[i]
  BY <1>1 DEF Begins
<1>3. HeadEnd(r) = IF k > Len(H) THEN e ELSE 0
  BY HeadEndOf
<1>4. CASE k <= Len(H)
  <2>1. HeadEnd(r) = 0
    BY <1>1, <1>2, <1>3, <1>4
  <2>2. HeadIn(r) = r /\ BehindHead(r) = <<>>
    BY <2>1 DEF HeadIn, BehindHead
  <2>3. \A i \in 1..k : r[i] = H[i]
    BY <1>1, <1>2, <1>4
  <2>4. Begins(r, H, k)
    BY <1>2, <2>3 DEF Begins
  <2> QED
    BY <1>1, <1>2, <1>4, <2>2, <2>4
<1>5. CASE k > Len(H)
  <2> DEFINE h == SubSeq(r, 1, e - 1)
             b == SubSeq(r, e + 1, k)
             m == k - Len(H) - 1
  <2>1. HeadEnd(r) = e /\ e # 0 /\ e \in Nat /\ e - 1 = Len(H) /\ m \in Nat /\ e <= k
    BY <1>1, <1>2, <1>3, <1>5
  <2>2. HeadIn(r) = h /\ BehindHead(r) = b
    BY <1>2, <2>1 DEF HeadIn, BehindHead, Upto, From
  <2>3. Len(h) = Len(H) /\ \A i \in 1..Len(H) : h[i] = r[i]
    BY <1>1, <1>2, <2>1
  <2>4. b \in Seq(D) /\ Len(b) = m /\ \A i \in 1..m : b[i] = r[e + i]
    <3>1. e + 1 \in Nat /\ e + 1 >= 1 /\ k <= Len(r) /\ k - (e + 1) + 1 = m
      BY <1>1, <1>2, <2>1
    <3>2. \A i \in 1..m : (e + 1) + i - 1 = e + i
      BY <2>1
    <3>3. e + 1 <= k + 1
      BY <1>2, <2>1
    <3> QED
      BY <1>2, <2>1, <3>1, <3>2, <3>3
  <2> HIDE DEF h, b
  <2>5. Begins(h, H, Len(H))
    <3>1. \A i \in 1..Len(H) : h[i] = H[i]
      BY <1>1, <1>2, <2>1, <2>3
    <3> QED
      BY <2>3, <3>1 DEF Begins
  <2>6. Begins(b, B, m)
    <3>1. ASSUME NEW i \in 1..m PROVE b[i] = B[i]
      <4>1. e + i \in 1..k /\ i \in 1..Len(B)
        BY <1>1, <1>2, <2>1
      <4>2. R[e + i] = B[i]
        BY <1>1, <4>1
      <4> QED
        BY <1>2, <2>4, <4>1, <4>2
    <3> QED
      BY <2>4, <3>1 DEF Begins
  <2> QED
    BY <1>1, <1>2, <1>5, <2>2, <2>4, <2>5, <2>6
<1> QED
  BY <1>1, <1>2, <1>4, <1>5

\* What the script may be told of k units of a reply of l.
IsHonest(p, K, sh, k, l) ==
    /\ IsStart(p.body, K, k, l) /\ IsStart(p.to, sh.to, k, l)
    /\ p.status \in {0, 200}
    /\ k = l => p.status = IF sh.reason THEN 200 ELSE 0

\* And what parseResponse makes of a beginning of a reply is that.
LEMMA ParseIsHonest ==
  ASSUME NEW sh, IsShape(sh), ~Ambiguous(sh), NEW asked, NEW R, R = Reply(asked, sh),
         NEW k \in 0..Len(R), NEW D, NEW r \in Seq(D), Begins(r, R, k)
  PROVE  IsHonest(ParseResponse(r), ContentOf(asked, sh), sh, k, Len(R))
<1> DEFINE H == HeadOf(sh)
           B == BodyOf(asked, sh)
           K == ContentOf(asked, sh)
           n == Len(sh.ends)
           h == HeadIn(r)
           b == BehindHead(r)
           p == ParseResponse(r)
           l == Len(H)
           j == IF k <= l THEN k ELSE l
           m == IF k <= l THEN 0 ELSE k - l - 1
<1>1. IsReply(R, H, B, sh)
  BY ReplyIs
<1>2. p.status = StatusOf(h) /\ p.body = BodyIn(h, b) /\ p.to = ToOf(h)
  BY ParseResponseIs
<1>3. IsContent(K, sh)
  BY ContentIs
<1>4. H = HeadOf(sh) /\ B = BodyOf(asked, sh)
  OBVIOUS
<1>5. (sh.frame = "chunked" => B = InChunks(K, sh)) /\ (sh.frame # "chunked" => B = K)
  BY DEF BodyOf
<1> HIDE DEF H, B, K, h, b, p
<1>6. l \in Nat /\ Len(B) \in Nat /\ Len(R) = l + 1 + Len(B) /\ k \in Nat /\ k <= Len(R)
  BY <1>1 DEF IsReply
<1>7. /\ k <= l => Begins(h, H, k) /\ b = <<>>
      /\ k > l => Begins(h, H, l) /\ Begins(b, B, k - l - 1) /\ b \in Seq(D)
  BY <1>1, <1>4, PartsOf DEF h, b
<1> HIDE DEF l
<1>8. /\ j \in 0..l /\ Begins(h, H, j) /\ m \in 0..Len(B)
      /\ k > l => Begins(b, B, m) /\ b \in Seq(D)
      /\ k = Len(R) => j = l /\ m = Len(B) /\ k > l
      /\ j # l => k <= l
      /\ (k > l => j = l)
  BY <1>6, <1>7
<1> HIDE DEF j, m
<1>9. j \in 0..Len(H)
  BY <1>8 DEF l
<1>10. /\ LineOf(h, "reason") # 0 => h[LineOf(h, "code")].n = 200
       /\ LineOf(h, "content-length") # 0 => h[LineOf(h, "content-length")].n = EndOf(sh, n)
       /\ LineOf(h, "chunked") # 0 => sh.frame = "chunked"
       /\ j = l => /\ LineOf(h, "reason") # 0 <=> sh.reason
                   /\ LineOf(h, "chunked") # 0 <=> sh.frame = "chunked"
  BY <1>4, <1>8, <1>9, HeadTold DEF l
<1>11. IsStart(ToOf(h), sh.to, j, l)
  BY <1>4, <1>8, <1>9, HeadToIs DEF l
<1>12. IsStart(p.to, sh.to, k, Len(R))
  BY <1>2, <1>8, <1>11 DEF IsStart
<1>13. /\ p.status \in {0, 200}
       /\ k = Len(R) => p.status = IF sh.reason THEN 200 ELSE 0
  <2>1. p.status \in {0, 200}
    BY <1>2, <1>10 DEF StatusOf
  <2>2. ASSUME k = Len(R) PROVE p.status = IF sh.reason THEN 200 ELSE 0
    BY <1>2, <1>8, <1>10, <2>2 DEF StatusOf
  <2> QED
    BY <2>1, <2>2
<1>14. PICK C : /\ K \in Seq(C) /\ Len(K) = EndOf(sh, n) /\ Len(K) \in Nat
                /\ \A t \in C : t.kind = "byte"
  BY <1>3 DEF IsContent
<1>15. IsStart(p.body, K, k, Len(R))
  <2>1. CASE k <= l
    <3>1. b = <<>> /\ k # Len(R)
      BY <1>6, <1>7, <2>1
    <3>2. BodyIn(h, b) = <<>>
      <4>1. Dechunk(<<>>) = <<>>
        <5>1. PICK f : AreCuts(f, <<>>)
          <6>1. <<>> \in Seq(C) /\ \A i \in 1..Len(<<>>) : <<>>[i].kind = "size" => <<>>[i].n \in Nat
            OBVIOUS
          <6> QED
            BY <6>1, CutRounds
        <5>2. Len(<<>>) = 0
          OBVIOUS
        <5> QED
          BY <5>1, <5>2 DEF AreCuts
      <4>2. LineOf(h, "content-length") # 0 => ~(h[LineOf(h, "content-length")].n < Len(b))
        <5>1. Len(b) = 0
          BY <3>1
        <5>2. EndOf(sh, n) \in Nat
          BY <1>14
        <5> QED
          BY <1>10, <5>1, <5>2
      <4> QED
        BY <3>1, <4>1, <4>2 DEF BodyIn
    <3>3. <<>> = SubSeq(K, 1, 0) /\ 0 \in 0..Len(K)
      BY <1>14
    <3> QED
      BY <1>2, <3>1, <3>2, <3>3 DEF IsStart
  <2>2. CASE k > l
    <3>1. Begins(b, B, m) /\ b \in Seq(D) /\ j = l /\ m \in 0..Len(B)
      BY <1>8, <2>2
    <3>2. CASE sh.frame = "chunked"
      <4>1. BodyIn(h, b) = Dechunk(b)
        BY <1>10, <3>1, <3>2 DEF BodyIn
      <4>2. B = InChunks(K, sh)
        BY <1>5, <3>2
      <4>3. \A t \in C : t.kind # "size"
        BY <1>14
      <4>4. /\ DOMAIN B = 1..BeginOf(sh, n + 1) /\ Len(B) = BeginOf(sh, n + 1)
            /\ AreChunks(B, K, sh, n)
        BY <1>14, <4>2, <4>3, InChunksIs, ZenonT(30)
      <4>5. b \in Seq(D \cup C) /\ K \in Seq(D \cup C)
        BY <1>14, <3>1
      <4>6. m \in 0..BeginOf(sh, n + 1)
        BY <3>1, <4>4
      <4>7. IsStart(Dechunk(b), K, m, BeginOf(sh, n + 1))
        BY <1>14, <3>1, <4>4, <4>5, <4>6, Dechunked
      <4> QED
        BY <1>2, <1>8, <4>1, <4>4, <4>7 DEF IsStart
    <3>3. CASE sh.frame # "chunked"
      <4>1. B = K
        BY <1>5, <3>3
      <4>2. Len(b) = m /\ m \in Nat /\ m <= Len(K) /\ \A i \in 1..m : b[i] = K[i]
        BY <3>1, <4>1 DEF Begins
      <4>3. BodyIn(h, b) = b
        <5>1. LineOf(h, "chunked") = 0
          BY <1>10, <3>3
        <5>2. LineOf(h, "content-length") # 0 => ~(h[LineOf(h, "content-length")].n < Len(b))
          BY <1>10, <1>14, <4>2
        <5> QED
          BY <5>1, <5>2 DEF BodyIn
      <4>4. b = SubSeq(K, 1, m)
        <5> DEFINE s == SubSeq(K, 1, m)
        <5>1. s \in Seq(C) /\ Len(s) = m /\ \A i \in 1..m : s[i] = K[i]
          BY <1>14, <4>2
        <5> HIDE DEF s
        <5>2. b \in Seq(D \cup C) /\ s \in Seq(D \cup C) /\ Len(b) = Len(s)
          BY <3>1, <4>2, <5>1
        <5>3. \A i \in 1..Len(b) : b[i] = s[i]
          BY <4>2, <5>1
        <5>4. b = s
          BY <5>2, <5>3, SeqEqual
        <5> QED
          BY <5>4 DEF s
      <4>5. m \in 0..Len(K) /\ (k = Len(R) => m = Len(K))
        BY <1>8, <3>1, <4>1
      <4> QED
        BY <1>2, <4>3, <4>4, <4>5 DEF IsStart
    <3> QED
      BY <3>2, <3>3
  <2> QED
    BY <1>6, <2>1, <2>2
<1> QED
  BY <1>12, <1>13, <1>15 DEF IsHonest, p, K

\* What has come of a reply R, and what is still to come.
IsSplit(R, come, left) ==
    \E k \in 0..Len(R) : come = SubSeq(R, 1, k) /\ left = SubSeq(R, k + 1, Len(R))

\* x holds what stands in s behind place a, up to place b.
IsPiece(x, s, a, b, D) ==
    x \in Seq(D) /\ Len(x) = b - a /\ \A i \in 1..(b - a) : x[i] = s[a + i]

\* A part of a sequence holds just that.
LEMMA SubSeqIs ==
  ASSUME NEW D, NEW s \in Seq(D), NEW a \in Nat, NEW b \in Nat, a <= b, b <= Len(s)
  PROVE  IsPiece(SubSeq(s, a + 1, b), s, a, b, D)
<1>1. a + 1 \in Nat /\ a + 1 >= 1 /\ a + 1 <= b + 1 /\ b - (a + 1) + 1 = b - a /\ Len(s) \in Nat
  OBVIOUS
<1>2. \A i \in 1..(b - a) : (a + 1) + i - 1 = a + i
  OBVIOUS
<1>3. /\ SubSeq(s, a + 1, b) \in Seq(D) /\ Len(SubSeq(s, a + 1, b)) = b - a
      /\ \A i \in 1..(b - a) : SubSeq(s, a + 1, b)[i] = s[(a + 1) + i - 1]
  BY <1>1
<1> QED
  BY <1>2, <1>3 DEF IsPiece

\* At first, nothing has come.
LEMMA ReplySplit ==
  ASSUME NEW R, NEW D, R \in Seq(D)
  PROVE  IsSplit(R, <<>>, R)
<1>1. Len(R) \in Nat /\ SubSeq(R, 1, 0) = <<>>
  OBVIOUS
<1>2. SubSeq(R, 0 + 1, Len(R)) = R
  <2>1. 0 + 1 = 1
    OBVIOUS
  <2> DEFINE s == SubSeq(R, 1, Len(R))
  <2>2. s \in Seq(D) /\ Len(s) = Len(R) /\ \A i \in 1..Len(s) : s[i] = R[i]
    OBVIOUS
  <2> HIDE DEF s
  <2>3. s = R
    BY <2>2, SeqEqual
  <2> QED
    BY <2>1, <2>3 DEF s
<1>3. 0 \in 0..Len(R)
  BY <1>1
<1> QED
  BY <1>1, <1>2, <1>3 DEF IsSplit

\* Receiving moves the place where the reply is split.
LEMMA SplitMoves ==
  ASSUME NEW R, NEW D, R \in Seq(D), NEW come, NEW left, IsSplit(R, come, left),
         NEW n \in 1..Len(left)
  PROVE  IsSplit(R, come \o SubSeq(left, 1, n), From(left, n + 1))
<1> DEFINE l == Len(R)
<1>1. PICK k \in 0..l : come = SubSeq(R, 1, k) /\ left = SubSeq(R, k + 1, l)
  BY DEF IsSplit
<1>2. l \in Nat /\ k \in Nat /\ k <= l
  OBVIOUS
<1> DEFINE s == SubSeq(R, k + 1, l)
           t == k + n
<1>3. s \in Seq(D) /\ Len(s) = l - k /\ \A i \in 1..(l - k) : s[i] = R[k + i]
  <2>1. IsPiece(s, R, k, l, D)
    BY <1>2, SubSeqIs
  <2> HIDE DEF s
  <2> QED
    BY <2>1 DEF IsPiece
<1>4. left = s
  BY <1>1
<1> HIDE DEF s
<1>5. n \in Nat /\ n >= 1 /\ n <= l - k /\ t \in 0..l /\ Len(left) = l - k
  BY <1>2, <1>3, <1>4
<1>6. Glued(R, k, s, 0, n)
  <2>1. Copied(s, 0, R, k, n)
    <3>1. ASSUME NEW i \in 1..n PROVE s[0 + i] = R[k + i]
      <4>1. 0 + i = i /\ i \in 1..(l - k)
        BY <1>2, <1>5
      <4> QED
        BY <1>3, <4>1
    <3> QED
      BY <3>1 DEF Copied
  <2>2. k + n <= Len(R) /\ 0 + n <= Len(s)
    BY <1>2, <1>3, <1>5
  <2> QED
    BY <1>2, <1>3, <1>5, <2>1, <2>2, SubSeqGlued
<1>7. come \o SubSeq(left, 1, n) = SubSeq(R, 1, t)
  <2>1. 0 + 1 = 1 /\ 0 + n = n
    BY <1>5
  <2> QED
    BY <1>1, <1>4, <1>6, <2>1 DEF Glued
<1>8. From(left, n + 1) = SubSeq(R, t + 1, l)
  <2> DEFINE x == SubSeq(s, n + 1, l - k)
             y == SubSeq(R, t + 1, l)
             z == l - t
  <2>1. z \in Nat /\ z = (l - k) - (n + 1) + 1 /\ z = l - (t + 1) + 1
    BY <1>2, <1>5
  <2>2. IsPiece(x, s, n, l - k, D)
    BY <1>2, <1>3, <1>5, SubSeqIs
  <2>3. IsPiece(y, R, t, l, D)
    BY <1>2, <1>5, SubSeqIs
  <2> HIDE DEF x, y, z
  <2>6. z = (l - k) - n /\ z = l - t
    BY <1>2, <1>5 DEF z
  <2>4. \A i \in 1..z : x[i] = y[i]
    <3> TAKE i \in 1..z
    <3>1. n + i \in 1..(l - k) /\ k + (n + i) = t + i
      BY <1>2, <1>5, <2>1
    <3> QED
      BY <1>3, <2>2, <2>3, <2>6, <3>1 DEF IsPiece
  <2>7. x \in Seq(D) /\ y \in Seq(D) /\ Len(x) = z /\ Len(y) = z
    BY <2>2, <2>3, <2>6 DEF IsPiece
  <2>5. x = y
    BY <2>4, <2>7, SeqEqual
  <2> QED
    BY <1>4, <1>5, <2>5 DEF From, x, y
<1> HIDE DEF t
<1> QED
  BY <1>5, <1>7, <1>8 DEF IsSplit

\* A beginning, as IsPrefix has it.
LEMMA StartIsPrefix ==
  ASSUME NEW S, NEW s \in Seq(S), NEW z \in 0..Len(s)
  PROVE  /\ SubSeq(s, 1, z) \in Seq(S) /\ IsPrefix(SubSeq(s, 1, z), s)
         /\ z = Len(s) => SubSeq(s, 1, z) = s
<1> DEFINE u == SubSeq(s, 1, z)
<1>1. u \in Seq(S) /\ Len(u) = z /\ \A i \in 1..z : u[i] = s[i]
  OBVIOUS
<1>2. z \in Nat /\ z <= Len(s)
  OBVIOUS
<1> HIDE DEF u
<1>3. SubSeq(u, 1, Len(u)) = u
  <2> DEFINE v == SubSeq(u, 1, z)
  <2>1. v \in Seq(S) /\ Len(v) = z /\ \A i \in 1..z : v[i] = u[i]
    BY <1>1, <1>2
  <2> HIDE DEF v
  <2>2. v = u
    BY <1>1, <2>1, SeqEqual
  <2> QED
    BY <1>1, <2>2 DEF v
<1>4. SubSeq(s, 1, Len(u)) = u
  BY <1>1 DEF u
<1>5. IsPrefix(u, s)
  BY <1>1, <1>2, <1>3, <1>4 DEF IsPrefix
<1>6. z = Len(s) => u = s
  BY <1>1, SeqEqual
<1> QED
  BY <1>1, <1>5, <1>6 DEF u

\* What has come of a reply: the parser and the two ways of telling keep it honest.
LEMMA ToldIsHonest ==
  ASSUME NEW sh, IsShape(sh), ~Ambiguous(sh), NEW asked, NEW come, NEW left,
         IsSplit(Reply(asked, sh), come, left)
  PROVE  LET told == Told(ParseResponse(come))
             meant == ContentOf(asked, sh)
         IN /\ IsPrefix(told.body, meant)
            /\ IsPrefix(told.to, sh.to)
            /\ told.status \in {0, 200}
            /\ left = <<>> => /\ told.body = meant /\ told.to = sh.to
                              /\ told.status = IF sh.reason THEN 200 ELSE 0
<1> DEFINE R == Reply(asked, sh)
           K == ContentOf(asked, sh)
           p == ParseResponse(come)
           l == Len(R)
<1>1. PICK D : R \in Seq(D)
  BY ReplyIs DEF IsReply
<1>2. PICK k \in 0..l : come = SubSeq(R, 1, k) /\ left = SubSeq(R, k + 1, l)
  BY DEF IsSplit
<1>3. R = Reply(asked, sh)
  OBVIOUS
<1> HIDE DEF R
<1>4. l \in Nat /\ k \in Nat /\ k <= l
  BY <1>1
<1>5. come \in Seq(D) /\ Begins(come, R, k)
  <2> DEFINE s == SubSeq(R, 1, k)
  <2>1. s \in Seq(D) /\ Len(s) = k /\ \A i \in 1..k : s[i] = R[i]
    BY <1>1, <1>4
  <2> HIDE DEF s
  <2>2. come = s
    BY <1>2 DEF s
  <2> QED
    BY <2>1, <2>2 DEF Begins
<1>6. IsHonest(p, K, sh, k, l)
  BY <1>3, <1>5, ParseIsHonest
<1>7. PICK C : K \in Seq(C)
  BY ContentIs DEF IsContent
<1>8. sh.to \in Seq(STRING)
  BY DEF IsShape
<1> HIDE DEF K, p
<1>9. PICK x \in 0..Len(K) : p.body = SubSeq(K, 1, x) /\ (k = l => x = Len(K))
  BY <1>6 DEF IsHonest, IsStart
<1>10. PICK y \in 0..Len(sh.to) : p.to = SubSeq(sh.to, 1, y) /\ (k = l => y = Len(sh.to))
  BY <1>6 DEF IsHonest, IsStart
<1>11. \A S, s : s \in Seq(S) => \A z \in 0..Len(s) :
         /\ SubSeq(s, 1, z) \in Seq(S) /\ IsPrefix(SubSeq(s, 1, z), s)
         /\ z = Len(s) => SubSeq(s, 1, z) = s
  BY StartIsPrefix
<1>12. p.body \in Seq(C) /\ IsPrefix(p.body, K) /\ (k = l => p.body = K)
  BY <1>7, <1>9, <1>11
<1>13. p.to \in Seq(STRING) /\ IsPrefix(p.to, sh.to) /\ (k = l => p.to = sh.to)
  BY <1>8, <1>10, <1>11
<1>14. B64ToBytes(Base64Encode(p.body)) = p.body
  BY <1>12, Base64KeepsBytes
<1>15. JsonParsed(JsonEscape(p.to)) = p.to
  BY <1>13, JsonKeepsText
<1>16. Told(p) = [status |-> p.status, body |-> p.body, to |-> p.to]
  BY <1>14, <1>15 DEF Told
<1>17. p.status \in {0, 200} /\ (k = l => p.status = IF sh.reason THEN 200 ELSE 0)
  BY <1>6 DEF IsHonest
<1>18. left = <<>> => k = l
  <2> SUFFICES ASSUME left = <<>>, k # l PROVE FALSE
    OBVIOUS
  <2>1. Len(SubSeq(R, k + 1, l)) = l - k
    BY <1>1, <1>4, SubSeqIs DEF IsPiece
  <2>2. Len(left) = l - k /\ Len(<<>>) = 0
    BY <1>2, <2>1
  <2> QED
    BY <1>4, <2>2
<1> QED
  BY <1>12, <1>13, <1>16, <1>17, <1>18 DEF p, K

-----------------------------------------------------------------------------
(* The exchange.                                                           *)

\* A request that goes out is for what the URL names; what has come and what is
\* still to come make up the reply; the response is what is parsed of what has come.
ExInv ==
    /\ url \in Urls /\ shape \in Shapes
    /\ phase \in {"connect", "send", "recv", "answered"} =>
         ParseUrl(UrlText(url)) = {Named(url)}
    /\ phase \in {"parse", "connect", "send"} => raw = <<>>
    /\ phase \in {"recv", "answered"} => IsSplit(Reply(Named(url), shape), raw, sending)
    /\ phase = "answered" => response = Told(ParseResponse(raw))

\* It holds at first.
LEMMA ExInvInit == ExInit => ExInv
  BY DEF ExInit, ExInv

\* Every step keeps it.
THEOREM ExchangeStep == ExInv /\ [ExNext]_exchange => ExInv'
<1> SUFFICES ASSUME ExInv, [ExNext]_exchange PROVE ExInv'
  OBVIOUS
<1> DEFINE R == Reply(Named(url), shape)
<1>1. /\ url \in Urls /\ shape \in Shapes
      /\ phase \in {"connect", "send", "recv", "answered"} => ParseUrl(UrlText(url)) = {Named(url)}
      /\ phase \in {"parse", "connect", "send"} => raw = <<>>
      /\ phase \in {"recv", "answered"} => IsSplit(R, raw, sending)
      /\ phase = "answered" => response = Told(ParseResponse(raw))
  BY DEF ExInv
<1>2. IsShape(shape) /\ IsUrl(url)
  BY <1>1, ShapesAssumption, UrlsAssumption
<1>3. PICK D : R \in Seq(D)
  BY <1>2, ReplyIs DEF IsReply
<1> HIDE DEF R
<1>4. CASE Resolve
  <2>1. ParseUrl(UrlText(url)) # {} => ParseUrl(UrlText(url)) = {Named(url)}
    BY <1>2, UrlIsParsed
  <2>2. /\ phase = "parse" /\ phase' \in {"failed", "connect"}
        /\ ParseUrl(UrlText(url)) = {} => phase' = "failed"
        /\ UNCHANGED <<url, shape, sending, raw, response>>
    BY <1>4 DEF Resolve
  <2> QED
    BY <1>1, <2>1, <2>2 DEF ExInv
<1>5. CASE Unreachable
  BY <1>1, <1>5 DEF ExInv, Unreachable
<1>6. CASE Connect
  BY <1>1, <1>6 DEF ExInv, Connect
<1>7. CASE SendAll
  <2>1. phase = "send" /\ raw' = raw /\ url' = url /\ shape' = shape /\ response' = response
    BY <1>7 DEF SendAll
  <2>2. raw = <<>> /\ ParseUrl(UrlText(url)) = {Named(url)}
    BY <1>1, <2>1
  <2>3. CASE phase' = "recv" /\ sending' = Reply(Target, shape)
    <3>1. Target = Named(url)
      BY <2>2 DEF Target
    <3>2. sending' = R
      BY <2>3, <3>1 DEF R
    <3>3. IsSplit(R, <<>>, R)
      BY <1>3, ReplySplit
    <3>4. IsSplit(R, raw', sending')
      BY <2>1, <2>2, <3>2, <3>3
    <3>5. IsSplit(Reply(Named(url'), shape'), raw', sending')
      BY <2>1, <3>4 DEF R
    <3> QED
      BY <1>1, <2>1, <2>2, <2>3, <3>5 DEF ExInv
  <2>4. CASE phase' = "failed"
    BY <1>1, <2>1, <2>4 DEF ExInv
  <2> QED
    BY <1>7, <2>3, <2>4 DEF SendAll
<1>8. CASE Recv
  <2>1. /\ phase = "recv" /\ phase' \in {"failed", "recv"}
        /\ UNCHANGED <<url, shape, addresses, response>>
    BY <1>8 DEF Recv
  <2>2. PICK n \in 1..Len(sending) : /\ raw' = raw \o SubSeq(sending, 1, n)
                                     /\ sending' = From(sending, n + 1)
    BY <1>8 DEF Recv
  <2>3. IsSplit(R, raw, sending)
    BY <1>1, <2>1
  <2>4. IsSplit(R, raw \o SubSeq(sending, 1, n), From(sending, n + 1))
    BY <1>3, <2>3, SplitMoves
  <2>5. IsSplit(R, raw', sending')
    BY <2>2, <2>4
  <2>6. IsSplit(Reply(Named(url'), shape'), raw', sending')
    BY <2>1, <2>5 DEF R
  <2>7. ParseUrl(UrlText(url')) = {Named(url')}
    BY <1>1, <2>1
  <2> QED
    BY <1>1, <2>1, <2>6, <2>7 DEF ExInv
<1>9. CASE RecvEnd
  <2>1. CASE Accept
    <3>1. /\ phase = "recv" /\ phase' = "answered" /\ response' = Told(ParseResponse(raw))
          /\ UNCHANGED <<url, shape, addresses, sending, raw>>
      BY <1>9, <2>1 DEF Accept, RecvEnd
    <3>2. IsSplit(Reply(Named(url'), shape'), raw', sending')
      BY <1>1, <3>1 DEF R
    <3>3. response' = Told(ParseResponse(raw'))
      BY <3>1
    <3>4. ParseUrl(UrlText(url')) = {Named(url')}
      BY <1>1, <3>1
    <3> QED
      BY <1>1, <3>1, <3>2, <3>3, <3>4 DEF ExInv
  <2>2. CASE Fail
    BY <1>1, <2>2 DEF ExInv, Fail
  <2> QED
    BY <1>9, <2>1, <2>2 DEF RecvEnd
<1>10. CASE UNCHANGED exchange
  BY <1>1, <1>10 DEF ExInv, exchange, R
<1> QED
  BY <1>4, <1>5, <1>6, <1>7, <1>8, <1>9, <1>10 DEF ExNext

\* And it is why the script is told the truth.
LEMMA ExInvHonest == ExInv => BodyHonest
<1> SUFFICES ASSUME ExInv, phase = "answered", ~Ambiguous(shape)
             PROVE  LET meant == ContentOf(Named(url), shape)
                    IN /\ IsPrefix(response.body, meant)
                       /\ IsPrefix(response.to, shape.to)
                       /\ response.status \in {0, 200}
                       /\ sending = <<>> =>
                            /\ response.body = meant /\ response.to = shape.to
                            /\ response.status = IF shape.reason THEN 200 ELSE 0
  BY DEF BodyHonest
<1>1. /\ IsShape(shape) /\ IsSplit(Reply(Named(url), shape), raw, sending)
      /\ response = Told(ParseResponse(raw))
  BY ShapesAssumption DEF ExInv
<1> QED
  BY <1>1, ToldIsHonest

\* The body, the address of a redirect and the status that the script is given are
\* those the server meant, as far as they have come, for every URL and reply.
THEOREM BodyIsHonest == ExInit /\ [][ExNext]_exchange => []BodyHonest
<1>1. ExInit => ExInv
  BY ExInvInit
<1>2. ExInv /\ [ExNext]_exchange => ExInv'
  BY ExchangeStep
<1>3. ExInv => BodyHonest
  BY ExInvHonest
<1> QED
  BY <1>1, <1>2, <1>3, PTL
=============================================================================
