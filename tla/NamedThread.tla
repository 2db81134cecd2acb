----------------------------- MODULE NamedThread -----------------------------
(***************************************************************************)
(* The worker threads of the native modules (native/sdk ..                 *)
(* JQNamedThread.cpp over looper/Thread.h): a map from names to threads,   *)
(* each with a queue of closures.  A thread is made by the first closure   *)
(* posted under its name, waits a while for more once its queue is empty,  *)
(* and then takes itself out of the map and deletes itself.                *)
(*                                                                         *)
(* The map and every queue are guarded by the one NamedThread_mutex, so    *)
(* each of its critical sections is one action.  waitRelative gives the    *)
(* mutex up: between the end of a wait and the moment the thread has the   *)
(* mutex again ("woken") anybody may post.                                 *)
(***************************************************************************)
EXTENDS Sequences

CONSTANTS
    Names,      \* names of threads
    Lingering,  \* the names whose threads have a keep-alive time
    Closures,   \* closures, each posted once
    Threads,    \* NamedThread objects, each used once: bounds the threads made
    CreateFails,\* whether jquick_thread_create may fail
    None

ASSUME ThreadAssumption ==
    /\ Lingering \subseteq Names
    /\ CreateFails \in BOOLEAN
    /\ None \notin Threads \cup Closures \cup Names

VARIABLES
    thread,     \* _nameThreadMap
    name,       \* per thread: its name
    queue,      \* per thread: _funcQueue
    state,      \* per thread: where it is
    current,    \* per thread: the closure it runs
    posted      \* the closures posted so far

vars == <<thread, name, queue, state, current, posted>>

Live == {"ready", "waiting", "woken", "running"}
States == Live \cup {"unborn", "stillborn", "leaving", "released"}

Init ==
    /\ thread = [n \in Names |-> None]
    /\ name = [t \in Threads |-> None]
    /\ queue = [t \in Threads |-> <<>>]
    /\ state = [t \in Threads |-> "unborn"]
    /\ current = [t \in Threads |-> None]
    /\ posted = {}

-----------------------------------------------------------------------------
\* postClosureLocked: push and signal.  The faults: no signal; a stack.
EnqueueSilently(t, c) ==
    /\ queue' = [queue EXCEPT ![t] = Append(@, c)]
    /\ UNCHANGED state

EnqueueFirst(t, c) ==
    /\ queue' = [queue EXCEPT ![t] = <<c>> \o @]
    /\ state' = [state EXCEPT ![t] = IF @ = "waiting" THEN "woken" ELSE @]

Enqueue(t, c) ==
    /\ queue' = [queue EXCEPT ![t] = Append(@, c)]
    /\ state' = [state EXCEPT ![t] = IF @ = "waiting" THEN "woken" ELSE @]

\* PostOnNamedThread under a name that has a thread.
PostToThread(n, c) ==
    /\ thread[n] # None
    /\ Enqueue(thread[n], c)
    /\ UNCHANGED <<thread, name>>

\* Thread::start: a thread that cannot be created stays in the map.
Started == IF CreateFails THEN {"ready", "stillborn"} ELSE {"ready"}

\* PostOnNamedThread under a name that has none.
PostToNewThread(n, c) ==
    /\ thread[n] = None
    /\ \E t \in Threads :
        /\ state[t] = "unborn"
        /\ thread' = [thread EXCEPT ![n] = t]
        /\ name' = [name EXCEPT ![t] = n]
        /\ \E s \in Started : state' = [state EXCEPT ![t] = s]
        /\ queue' = [queue EXCEPT ![t] = Append(@, c)]

Post(n, c) ==
    /\ c \notin posted
    /\ posted' = posted \cup {c}
    /\ PostToThread(n, c) \/ PostToNewThread(n, c)
    /\ UNCHANGED current

\* The tail of one round of NamedThread::run, under the mutex: leave, or take
\* the first closure.  The faults: every wait that ends is taken for a
\* timeout; the thread leaves the map with its last closure in hand.
Leave(t) ==
    /\ thread' = [thread EXCEPT ![name[t]] = None]
    /\ state' = [state EXCEPT ![t] = "leaving"]
    /\ UNCHANGED <<queue, current>>

Take(t) ==
    /\ current' = [current EXCEPT ![t] = Head(queue[t])]
    /\ queue' = [queue EXCEPT ![t] = Tail(@)]
    /\ state' = [state EXCEPT ![t] = "running"]
    /\ UNCHANGED thread

LeaveOnWaking(t) ==
    IF queue[t] = <<>> \/ state[t] = "woken" THEN Leave(t) ELSE Take(t)

LeaveWithLast(t) ==
    /\ queue[t] # <<>>
    /\ current' = [current EXCEPT ![t] = Head(queue[t])]
    /\ queue' = [queue EXCEPT ![t] = Tail(@)]
    /\ state' = [state EXCEPT ![t] = "running"]
    /\ thread' = IF Len(queue[t]) = 1
                   THEN [thread EXCEPT ![name[t]] = None] ELSE thread

TakeOrLeave(t) == IF queue[t] = <<>> THEN Leave(t) ELSE Take(t)

\* The head of the round: wait once, if there is nothing to do yet.
Look(t) ==
    /\ state[t] = "ready"
    /\ IF queue[t] = <<>> /\ name[t] \in Lingering
         THEN state' = [state EXCEPT ![t] = "waiting"]
              /\ UNCHANGED <<thread, queue, current>>
         ELSE TakeOrLeave(t)
    /\ UNCHANGED <<name, posted>>

\* The wait ends by itself: timed out, or for no reason.
WaitEnds(t) ==
    /\ state[t] = "waiting"
    /\ state' = [state EXCEPT ![t] = "woken"]
    /\ UNCHANGED <<thread, name, queue, current, posted>>

\* The thread has the mutex again.
Resume(t) ==
    /\ state[t] = "woken"
    /\ TakeOrLeave(t)
    /\ UNCHANGED <<name, posted>>

\* c() returns, without the mutex.
Finish(t) ==
    /\ state[t] = "running"
    /\ state' = [state EXCEPT ![t] = "ready"]
    /\ current' = [current EXCEPT ![t] = None]
    /\ UNCHANGED <<thread, name, queue, posted>>

\* The rest of threadRun, and tryRelease: the object is deleted.
Release(t) ==
    /\ state[t] = "leaving"
    /\ state' = [state EXCEPT ![t] = "released"]
    /\ UNCHANGED <<thread, name, queue, current, posted>>

Step(t) == Look(t) \/ WaitEnds(t) \/ Resume(t) \/ Finish(t) \/ Release(t)

Next ==
    \/ \E n \in Names, c \in Closures : Post(n, c)
    \/ \E t \in Threads : Step(t)

\* The system runs its threads and their timers, and a closure returns;
\* nobody has to post.
Spec ==
    /\ Init /\ [][Next]_vars
    /\ \A t \in Threads : WF_vars(Step(t))

-----------------------------------------------------------------------------
\* Types of the variables.
TypeOK ==
    /\ thread \in [Names -> Threads \cup {None}]
    /\ name \in [Threads -> Names \cup {None}]
    /\ queue \in [Threads -> Seq(Closures)]
    /\ state \in [Threads -> States]
    /\ current \in [Threads -> Closures \cup {None}]
    /\ posted \subseteq Closures

\* A closure is never left in the queue of a thread that is going away or
\* gone, however a post falls between the end of its wait and its leaving
\* (JQNamedThread.cpp:53-70).
NothingStranded ==
    \A t \in Threads : queue[t] # <<>> =>
        state[t] \in Live \cup {"stillborn"} /\ thread[name[t]] = t

\* Two closures of one name never run at the same time, not even on a
\* thread that leaves and the one that takes its name (the modules keep
\* state without locks on this ground).
OneAtATime ==
    \A t, u \in Threads :
        t # u /\ name[t] = name[u] => current[t] = None \/ current[u] = None

\* A thread that sleeps has nothing to do: a signal is never missed.
NoMissedSignal == \A t \in Threads : state[t] = "waiting" => queue[t] = <<>>

-----------------------------------------------------------------------------
Serial == INSTANCE SerialExecutor WITH
    backlog <- [n \in Names |-> IF thread[n] = None THEN <<>> ELSE queue[thread[n]]],
    active  <- [n \in Names |-> IF thread[n] = None THEN None ELSE current[thread[n]]],
    stalled <- {n \in Names : thread[n] # None /\ state[thread[n]] = "stillborn"}

\* Posting to a name is posting to one serial executor: nothing is lost, run
\* twice or overtaken, and everything runs that has a thread.
ImplementsSerial == Serial!Spec
=============================================================================
