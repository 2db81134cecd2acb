---------------------------- MODULE DetectNative ----------------------------
(***************************************************************************)
(* A portal check on the pen (RK) platform, where the probe requests are   *)
(* calls of one native object: the SDK runs all calls of the panet module  *)
(* on one named thread, first in first out, so the probes that detect.js   *)
(* starts together are answered one after the other                        *)
(* (native/panet/panet.cpp, native/sdk .. JQAsyncSchedule.cpp).            *)
(***************************************************************************)
EXTENDS Detect, Sequences

CONSTANTS
    Order,      \* the probes in the order of PROBES
    SilentFor   \* ticks a request to a silent host holds the thread

ASSUME NativeAssumption ==
    /\ Order \in Seq(Probes)
    /\ \A p \in Probes : \E i \in 1..Len(Order) : Order[i] = p
    /\ \A i, j \in 1..Len(Order) : Order[i] = Order[j] => i = j
    /\ SilentFor \in Nat \ {0}

VARIABLES
    host,       \* what each probe's host does: "answers" or "refuses" at
                \* once, or swallows the packets ("silent")
    queue,      \* calls the thread has not finished, the running one first
    since       \* tick at which the running call started

nativeVars == <<host, queue, since>>

NativeInit ==
    /\ Init
    /\ host \in [Probes -> {"answers", "refuses", "silent"}]
    /\ queue = Order
    /\ since = 0

Running(p) == queue # <<>> /\ Head(queue) = p

Finished == queue' = Tail(queue) /\ since' = now /\ UNCHANGED host

\* The host of the running call answers or refuses.
Answer(p) ==
    /\ Running(p) /\ host[p] # "silent"
    /\ Respond(p)
    /\ (answer'[p] = "error") = (host[p] = "refuses")
    /\ Finished

\* connect or recv gives up after the native timeout, 3.5 s cut to 3 s; and
\* a thread that waits for the one after the other.
EndTwice == since + 2 * SilentFor
End == since + SilentFor

GiveUp(p) ==
    /\ Running(p) /\ host[p] = "silent"
    /\ now = End
    /\ OnReply(p, Rejected)
    /\ Finished

\* The running call ends after raceTimeout has rejected its promise; and a
\* request layer without the `done` flag, that still delivers the answer.
LateDelivered(p) ==
    /\ Running(p) /\ host[p] = "answers"
    /\ answer[p] = "error"
    /\ answer' = [answer EXCEPT ![p] = "empty"]
    /\ Finished
    /\ UNCHANGED <<now, pending, ran, aborted, abortedAt, result>>

Late(p) ==
    /\ Running(p)
    /\ answer[p] # "waiting"
    /\ host[p] = "silent" => now = End
    /\ Finished
    /\ UNCHANGED vars

\* The clock waits for a call that is over.
NativeTick ==
    /\ queue # <<>> => host[Head(queue)] = "silent" /\ now # End
    /\ Tick
    /\ UNCHANGED nativeVars

NativeNext ==
    \/ \E p \in Probes : Answer(p) \/ GiveUp(p) \/ Late(p)
    \/ \E p \in Probes : RaceTimeout(p) /\ UNCHANGED nativeVars
    \/ (Guard \/ AbortPoll \/ Abort) /\ UNCHANGED nativeVars
    \/ NativeTick

NativeSpec ==
    /\ NativeInit /\ [][NativeNext]_<<vars, nativeVars>>
    /\ WF_<<vars, nativeVars>>(NativeNext)

-----------------------------------------------------------------------------
Silent == {p \in Probes : host[p] = "silent"}
Good == {p \in Probes : host[p] = "answers"}

\* One host that swallows packets does not turn the verdict when another
\* one answers: the thread gets to it before its request times out.
OneSilentProbeIsTolerated ==
    Cardinality(Silent) <= 1 /\ result = "offline" => Good = {}
=============================================================================
