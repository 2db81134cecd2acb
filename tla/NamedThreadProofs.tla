-------------------------- MODULE NamedThreadProofs --------------------------
(***************************************************************************)
(* What NamedThread guarantees for any number of names, closures and       *)
(* threads.  The inductive invariant ties the map to the threads: a name   *)
(* points to a thread of that name that is alive (or was never created),   *)
(* every such thread is the one its name points to, and a thread outside   *)
(* the map has nothing queued.                                             *)
(***************************************************************************)
EXTENDS NamedThread, TLAPS

\* In the map: alive, or never created.
Kept == Live \cup {"stillborn"}

MapOK ==
    /\ \A n \in Names : thread[n] # None =>
          name[thread[n]] = n /\ state[thread[n]] \in Kept
    /\ \A t \in Threads : state[t] \in Kept =>
          name[t] \in Names /\ thread[name[t]] = t

QueueOK ==
    /\ \A t \in Threads : state[t] \notin Kept => queue[t] = <<>>
    /\ \A t \in Threads : state[t] = "waiting" => queue[t] = <<>>

CurrentOK ==
    \A t \in Threads : (state[t] = "running") <=> (current[t] # None)

IInv == TypeOK /\ MapOK /\ QueueOK /\ CurrentOK

-----------------------------------------------------------------------------
\* Where a round of a thread that has nothing to take ends: out of the map.
LEMMA LeaveKeeps ==
    ASSUME IInv, NEW t \in Threads, state[t] \in {"ready", "woken"},
           queue[t] = <<>>, Leave(t), UNCHANGED <<name, posted>>
    PROVE  IInv'
<1> USE ThreadAssumption DEF IInv, TypeOK, MapOK, QueueOK, CurrentOK, Kept, Live, States
<1>1. name[t] \in Names /\ thread[name[t]] = t
  OBVIOUS
<1>2. TypeOK'
  BY <1>1 DEF Leave
<1>3. MapOK'
  BY <1>1 DEF Leave
<1>4. QueueOK'
  BY DEF Leave
<1>5. CurrentOK'
  BY DEF Leave
<1> QED BY <1>2, <1>3, <1>4, <1>5

\* Taking the first closure keeps the invariant.
LEMMA TakeKeeps ==
    ASSUME IInv, NEW t \in Threads, state[t] \in {"ready", "woken"},
           queue[t] # <<>>, Take(t), UNCHANGED <<name, posted>>
    PROVE  IInv'
<1> USE ThreadAssumption DEF IInv, TypeOK, MapOK, QueueOK, CurrentOK, Kept, Live, States
<1>1. queue[t] \in Seq(Closures) /\ Head(queue[t]) \in Closures /\ Tail(queue[t]) \in Seq(Closures)
  OBVIOUS
<1>2. TypeOK'
  BY <1>1 DEF Take
<1>3. MapOK'
  BY DEF Take
<1>4. QueueOK'
  BY DEF Take
<1>5. CurrentOK'
  BY <1>1 DEF Take
<1> QED BY <1>2, <1>3, <1>4, <1>5

LEMMA TakeOrLeaveKeeps ==
    ASSUME IInv, NEW t \in Threads, state[t] \in {"ready", "woken"},
           TakeOrLeave(t), UNCHANGED <<name, posted>>
    PROVE  IInv'
BY LeaveKeeps, TakeKeeps DEF TakeOrLeave

\* A closure for a thread that its name has: a sleeper is woken by it.
LEMMA PostToThreadKeeps ==
    ASSUME IInv, NEW n \in Names, NEW c \in Closures, PostToThread(n, c),
           posted' = posted \cup {c}, UNCHANGED current
    PROVE  IInv'
<1> USE ThreadAssumption DEF IInv, TypeOK, MapOK, QueueOK, CurrentOK, Kept, Live, States
<1>1. thread[n] \in Threads /\ state[thread[n]] \in Kept
  BY DEF PostToThread
<1>2. Append(queue[thread[n]], c) \in Seq(Closures)
  BY <1>1
<1>3. TypeOK'
  BY <1>1, <1>2 DEF PostToThread, Enqueue
<1>4. MapOK'
  BY <1>1 DEF PostToThread, Enqueue
<1>5. QueueOK'
  BY <1>1 DEF PostToThread, Enqueue
<1>6. CurrentOK'
  BY <1>1 DEF PostToThread, Enqueue
<1> QED BY <1>3, <1>4, <1>5, <1>6

\* The first closure of a name that has no thread.
LEMMA PostToNewThreadKeeps ==
    ASSUME IInv, NEW n \in Names, NEW c \in Closures, PostToNewThread(n, c),
           posted' = posted \cup {c}, UNCHANGED current
    PROVE  IInv'
<1> USE ThreadAssumption DEF IInv, TypeOK, MapOK, QueueOK, CurrentOK, Kept, Live, States
<1>1. PICK t \in Threads :
        /\ state[t] = "unborn"
        /\ thread' = [thread EXCEPT ![n] = t]
        /\ name' = [name EXCEPT ![t] = n]
        /\ \E s \in Started : state' = [state EXCEPT ![t] = s]
        /\ queue' = [queue EXCEPT ![t] = Append(@, c)]
  BY DEF PostToNewThread
<1>2. PICK s \in {"ready", "stillborn"} : state' = [state EXCEPT ![t] = s]
  BY <1>1 DEF Started
<1>3. thread[n] = None
  BY DEF PostToNewThread
<1>4. Append(queue[t], c) \in Seq(Closures)
  OBVIOUS
<1>5. TypeOK'
  BY <1>1, <1>2, <1>4
<1>6. MapOK'
  BY <1>1, <1>2, <1>3
<1>7. QueueOK'
  BY <1>1, <1>2
<1>8. CurrentOK'
  BY <1>1, <1>2
<1> QED BY <1>5, <1>6, <1>7, <1>8

\* The steps that only move a thread along.
LEMMA MoveKeeps ==
    ASSUME IInv, NEW t \in Threads,
           \/ WaitEnds(t) \/ Finish(t) \/ Release(t)
           \/ /\ state[t] = "ready" /\ queue[t] = <<>>
              /\ state' = [state EXCEPT ![t] = "waiting"]
              /\ UNCHANGED <<thread, name, queue, current, posted>>
    PROVE  IInv'
<1> USE ThreadAssumption DEF IInv, TypeOK, MapOK, QueueOK, CurrentOK, Kept, Live, States
<1>1. CASE WaitEnds(t)
  BY <1>1 DEF WaitEnds
<1>2. CASE Finish(t)
  BY <1>2 DEF Finish
<1>3. CASE Release(t)
  BY <1>3 DEF Release
<1>4. CASE /\ state[t] = "ready" /\ queue[t] = <<>>
           /\ state' = [state EXCEPT ![t] = "waiting"]
           /\ UNCHANGED <<thread, name, queue, current, posted>>
  BY <1>4
<1> QED BY <1>1, <1>2, <1>3, <1>4

\* A round either sleeps or takes or leaves.
LEMMA LookCases ==
    ASSUME NEW t \in Threads, Look(t)
    PROVE  \/ /\ state[t] = "ready" /\ queue[t] = <<>>
              /\ state' = [state EXCEPT ![t] = "waiting"]
              /\ UNCHANGED <<thread, name, queue, current, posted>>
           \/ state[t] = "ready" /\ TakeOrLeave(t) /\ UNCHANGED <<name, posted>>
BY DEF Look

LEMMA InitIInv == Init => IInv
BY ThreadAssumption DEF Init, IInv, TypeOK, MapOK, QueueOK, CurrentOK, Kept, Live, States

LEMMA NextIInv == IInv /\ [Next]_vars => IInv'
<1> SUFFICES ASSUME IInv, [Next]_vars PROVE IInv'
  OBVIOUS
<1>1. CASE \E n \in Names, c \in Closures : Post(n, c)
  BY <1>1, PostToThreadKeeps, PostToNewThreadKeeps DEF Post
<1>2. ASSUME NEW t \in Threads, Step(t) PROVE IInv'
  <2>1. CASE Look(t)
    BY <2>1, LookCases, MoveKeeps, TakeOrLeaveKeeps
  <2>2. CASE Resume(t)
    BY <2>2, TakeOrLeaveKeeps DEF Resume
  <2>3. CASE WaitEnds(t) \/ Finish(t) \/ Release(t)
    BY <2>3, MoveKeeps
  <2> QED BY <1>2, <2>1, <2>2, <2>3 DEF Step
<1>3. CASE UNCHANGED vars
  BY <1>3 DEF vars, IInv, TypeOK, MapOK, QueueOK, CurrentOK
<1> QED BY <1>1, <1>2, <1>3 DEF Next

\* The inductive invariant holds of every behaviour.
THEOREM Invariance == Spec => []IInv
BY InitIInv, NextIInv, PTL DEF Spec

-----------------------------------------------------------------------------
\* The variables keep their types.
THEOREM TypeCorrect == Spec => []TypeOK
<1>1. IInv => TypeOK
  BY DEF IInv
<1> QED BY <1>1, Invariance, PTL

\* No closure is left behind by a thread that goes (the keep-alive race of
\* JQNamedThread.cpp:53-70).
THEOREM NeverStranded == Spec => []NothingStranded
<1>1. IInv => NothingStranded
  BY DEF IInv, MapOK, QueueOK, Kept, NothingStranded
<1> QED BY <1>1, Invariance, PTL

\* One closure of a name at a time, across the threads that bear it.
THEOREM Exclusive == Spec => []OneAtATime
<1>1. IInv => OneAtATime
  BY DEF IInv, TypeOK, MapOK, CurrentOK, Kept, Live, OneAtATime
<1> QED BY <1>1, Invariance, PTL

\* No signal is missed.
THEOREM SignalsArrive == Spec => []NoMissedSignal
<1>1. IInv => NoMissedSignal
  BY DEF IInv, QueueOK, NoMissedSignal
<1> QED BY <1>1, Invariance, PTL
-----------------------------------------------------------------------------
\* The refinement: what each step is for the serial executor.

\* A function that differs from another at one point is an update of it.
LEMMA PointUpdate ==
    ASSUME NEW S, NEW f, NEW g, NEW n \in S, NEW v,
           f = [m \in S |-> f[m]], g = [m \in S |-> g[m]],
           g[n] = v, \A m \in S \ {n} : g[m] = f[m]
    PROVE  g = [f EXCEPT ![n] = v]
<1> DEFINE h == [f EXCEPT ![n] = v]
<1>1. h = [m \in S |-> h[m]] /\ \A m \in S : h[m] = g[m]
  OBVIOUS
<1> QED BY <1>1

\* A thread taking a closure is the executor beginning it.
LEMMA TakeBegins ==
    ASSUME IInv, NEW t \in Threads, state[t] \in {"ready", "woken"},
           queue[t] # <<>>, Take(t)
    PROVE  \E n \in Names : Serial!Begin(n)
<1> PICK n \in Names : n = name[t]
  BY DEF IInv, MapOK, Kept, Live
<1> USE ThreadAssumption DEF IInv, TypeOK, MapOK, QueueOK, CurrentOK, Kept, Live, States
<1>1. n \in Names /\ thread[n] = t /\ thread' = thread
  BY DEF Take
<1>2. \A m \in Names \ {n} : thread[m] # t
  OBVIOUS
<1>3. current[t] = None /\ current' = [current EXCEPT ![t] = Head(queue[t])]
      /\ queue' = [queue EXCEPT ![t] = Tail(@)]
      /\ state' = [state EXCEPT ![t] = "running"]
  BY DEF Take
<1>4. n \notin {m \in Names : thread[m] # None /\ state[thread[m]] = "stillborn"}
  BY <1>1
<1>5. {m \in Names : thread'[m] # None /\ state'[thread'[m]] = "stillborn"}
      = {m \in Names : thread[m] # None /\ state[thread[m]] = "stillborn"}
  BY <1>1, <1>2, <1>3
<1>6. [m \in Names |-> IF thread'[m] = None THEN None ELSE current'[thread'[m]]]
      = [[m \in Names |-> IF thread[m] = None THEN None ELSE current[thread[m]]]
         EXCEPT ![n] = Head(queue[t])]
  <2> DEFINE f == [m \in Names |-> IF thread[m] = None THEN None ELSE current[thread[m]]]
  <2> DEFINE g == [m \in Names |-> IF thread'[m] = None THEN None ELSE current'[thread'[m]]]
  <2>1. g[n] = Head(queue[t])
    BY <1>1, <1>2, <1>3
  <2>2. \A m \in Names \ {n} : g[m] = f[m]
    BY <1>1, <1>2, <1>3
  <2>3. f = [m \in Names |-> f[m]] /\ g = [m \in Names |-> g[m]]
    OBVIOUS
  <2> HIDE DEF f, g
  <2>4. g = [f EXCEPT ![n] = Head(queue[t])]
    BY ONLY <2>1, <2>2, <2>3, PointUpdate, n \in Names
  <2> QED BY <2>4 DEF f, g
<1>7. [m \in Names |-> IF thread'[m] = None THEN <<>> ELSE queue'[thread'[m]]]
      = [[m \in Names |-> IF thread[m] = None THEN <<>> ELSE queue[thread[m]]]
         EXCEPT ![n] = Tail(queue[t])]
  <2> DEFINE f == [m \in Names |-> IF thread[m] = None THEN <<>> ELSE queue[thread[m]]]
  <2> DEFINE g == [m \in Names |-> IF thread'[m] = None THEN <<>> ELSE queue'[thread'[m]]]
  <2>1. g[n] = Tail(queue[t])
    BY <1>1, <1>2, <1>3
  <2>2. \A m \in Names \ {n} : g[m] = f[m]
    BY <1>1, <1>2, <1>3
  <2>3. f = [m \in Names |-> f[m]] /\ g = [m \in Names |-> g[m]]
    OBVIOUS
  <2> HIDE DEF f, g
  <2>4. g = [f EXCEPT ![n] = Tail(queue[t])]
    BY ONLY <2>1, <2>2, <2>3, PointUpdate, n \in Names
  <2> QED BY <2>4 DEF f, g
<1>8. /\ [m \in Names |-> IF thread[m] = None THEN <<>> ELSE queue[thread[m]]][n] = queue[t]
      /\ [m \in Names |-> IF thread[m] = None THEN None ELSE current[thread[m]]][n] = None
  BY <1>1, <1>3
<1>9. Serial!Begin(n)
  BY ONLY <1>4, <1>5, <1>6, <1>7, <1>8, queue[t] # <<>>, n \in Names DEF Serial!Begin
<1> QED BY <1>9

\* A thread leaving is nothing to it: the name had nothing to do.
LEMMA LeaveStutters ==
    ASSUME IInv, NEW t \in Threads, state[t] \in {"ready", "woken"},
           queue[t] = <<>>, Leave(t)
    PROVE  UNCHANGED Serial!vars
<1> DEFINE n == name[t]
<1> USE ThreadAssumption DEF IInv, TypeOK, MapOK, QueueOK, CurrentOK, Kept, Live, States
<1>1. /\ n \in Names /\ thread[n] = t /\ current[t] = None
      /\ thread' = [thread EXCEPT ![n] = None]
      /\ state' = [state EXCEPT ![t] = "leaving"]
      /\ UNCHANGED <<queue, current>>
  BY DEF Leave
<1>2. \A m \in Names \ {n} : thread[m] # t
  OBVIOUS
<1>3. {m \in Names : thread'[m] # None /\ state'[thread'[m]] = "stillborn"}
      = {m \in Names : thread[m] # None /\ state[thread[m]] = "stillborn"}
  BY <1>1, <1>2
<1>4. [m \in Names |-> IF thread'[m] = None THEN None ELSE current'[thread'[m]]]
      = [m \in Names |-> IF thread[m] = None THEN None ELSE current[thread[m]]]
  BY <1>1, <1>2
<1>5. [m \in Names |-> IF thread'[m] = None THEN <<>> ELSE queue'[thread'[m]]]
      = [m \in Names |-> IF thread[m] = None THEN <<>> ELSE queue[thread[m]]]
  BY <1>1, <1>2
<1> QED
  BY <1>3, <1>4, <1>5 DEF Serial!vars

LEMMA TakeOrLeaveRefines ==
    ASSUME IInv, NEW t \in Threads, state[t] \in {"ready", "woken"},
           TakeOrLeave(t)
    PROVE  [Serial!Next]_Serial!vars
<1>1. CASE queue[t] = <<>>
  BY <1>1, LeaveStutters DEF TakeOrLeave
<1>2. CASE queue[t] # <<>>
  <2>1. \E n \in Names : Serial!Begin(n)
    BY <1>2, TakeBegins DEF TakeOrLeave
  <2> QED BY <2>1 DEF Serial!Next
<1> QED BY <1>1, <1>2

\* The end of a closure is its end.
LEMMA FinishFinishes ==
    ASSUME IInv, NEW t \in Threads, Finish(t)
    PROVE  \E n \in Names : Serial!Finish(n)
<1> PICK n \in Names : n = name[t]
  BY DEF IInv, MapOK, Kept, Live, Finish
<1> USE ThreadAssumption DEF IInv, TypeOK, MapOK, QueueOK, CurrentOK, Kept, Live, States
<1>1. /\ n \in Names /\ thread[n] = t /\ current[t] # None
      /\ state' = [state EXCEPT ![t] = "ready"]
      /\ current' = [current EXCEPT ![t] = None]
      /\ UNCHANGED <<thread, queue>>
  BY DEF Finish
<1>2. \A m \in Names \ {n} : thread[m] # t
  OBVIOUS
<1>3. {m \in Names : thread'[m] # None /\ state'[thread'[m]] = "stillborn"}
      = {m \in Names : thread[m] # None /\ state[thread[m]] = "stillborn"}
  BY <1>1, <1>2
<1>4. [m \in Names |-> IF thread'[m] = None THEN None ELSE current'[thread'[m]]]
      = [[m \in Names |-> IF thread[m] = None THEN None ELSE current[thread[m]]]
         EXCEPT ![n] = None]
  <2> DEFINE f == [m \in Names |-> IF thread[m] = None THEN None ELSE current[thread[m]]]
  <2> DEFINE g == [m \in Names |-> IF thread'[m] = None THEN None ELSE current'[thread'[m]]]
  <2>1. g[n] = None
    BY <1>1, <1>2
  <2>2. \A m \in Names \ {n} : g[m] = f[m]
    BY <1>1, <1>2
  <2>3. f = [m \in Names |-> f[m]] /\ g = [m \in Names |-> g[m]]
    OBVIOUS
  <2> HIDE DEF f, g
  <2>4. g = [f EXCEPT ![n] = None]
    BY ONLY <2>1, <2>2, <2>3, PointUpdate, n \in Names
  <2> QED BY <2>4 DEF f, g
<1>5. [m \in Names |-> IF thread'[m] = None THEN <<>> ELSE queue'[thread'[m]]]
      = [m \in Names |-> IF thread[m] = None THEN <<>> ELSE queue[thread[m]]]
  BY <1>1
<1>6. Serial!Finish(n)
  BY <1>1, <1>3, <1>4, <1>5 DEF Serial!Finish
<1> QED BY <1>6

\* The steps that move nothing but the thread.
LEMMA MoveStutters ==
    ASSUME IInv, NEW t \in Threads,
           \/ WaitEnds(t) \/ Release(t)
           \/ /\ state[t] = "ready"
              /\ state' = [state EXCEPT ![t] = "waiting"]
              /\ UNCHANGED <<thread, name, queue, current, posted>>
    PROVE  UNCHANGED Serial!vars
<1> USE ThreadAssumption DEF IInv, TypeOK, MapOK, Kept, Live, States
<1>1. PICK s \in States \ {"stillborn"} :
        /\ state[t] # "stillborn" /\ state' = [state EXCEPT ![t] = s]
        /\ UNCHANGED <<thread, queue, current>>
  BY DEF WaitEnds, Release
<1>2. {m \in Names : thread'[m] # None /\ state'[thread'[m]] = "stillborn"}
      = {m \in Names : thread[m] # None /\ state[thread[m]] = "stillborn"}
  BY <1>1
<1> QED BY <1>1, <1>2 DEF Serial!vars

\* Posting is posting; a thread that cannot be made stalls an idle name.
LEMMA PostPosts ==
    ASSUME IInv, NEW n \in Names, NEW c \in Closures, Post(n, c)
    PROVE  Serial!Post(n, c)
<1> USE ThreadAssumption DEF IInv, TypeOK, MapOK, QueueOK, CurrentOK, Kept, Live, States
<1>1. CASE PostToThread(n, c)
  <2> DEFINE t == thread[n]
  <2>1. /\ t \in Threads /\ name[t] = n
        /\ queue' = [queue EXCEPT ![t] = Append(@, c)]
        /\ state' = [state EXCEPT ![t] = IF @ = "waiting" THEN "woken" ELSE @]
        /\ UNCHANGED <<thread, name, current>>
    BY <1>1 DEF PostToThread, Enqueue, Post
  <2>2. \A m \in Names \ {n} : thread[m] # t
    BY <2>1
  <2>3. {m \in Names : thread'[m] # None /\ state'[thread'[m]] = "stillborn"}
        = {m \in Names : thread[m] # None /\ state[thread[m]] = "stillborn"}
    BY <2>1, <2>2
  <2>4. [m \in Names |-> IF thread'[m] = None THEN <<>> ELSE queue'[thread'[m]]]
        = [[m \in Names |-> IF thread[m] = None THEN <<>> ELSE queue[thread[m]]]
           EXCEPT ![n] = Append(@, c)]
    <3> DEFINE f == [m \in Names |-> IF thread[m] = None THEN <<>> ELSE queue[thread[m]]]
    <3> DEFINE g == [m \in Names |-> IF thread'[m] = None THEN <<>> ELSE queue'[thread'[m]]]
    <3>1. g[n] = Append(f[n], c)
      BY <2>1, <2>2
    <3>2. \A m \in Names \ {n} : g[m] = f[m]
      BY <2>1, <2>2
    <3>3. f = [m \in Names |-> f[m]] /\ g = [m \in Names |-> g[m]]
      OBVIOUS
    <3> HIDE DEF f, g
    <3>4. g = [f EXCEPT ![n] = Append(f[n], c)]
      BY ONLY <3>1, <3>2, <3>3, PointUpdate, n \in Names
    <3> QED BY <3>4 DEF f, g
  <2>5. [m \in Names |-> IF thread'[m] = None THEN None ELSE current'[thread'[m]]]
        = [m \in Names |-> IF thread[m] = None THEN None ELSE current[thread[m]]]
    BY <2>1
  <2> QED BY <2>3, <2>4, <2>5 DEF Serial!Post
<1>2. CASE PostToNewThread(n, c)
  <2>1. PICK t \in Threads :
          /\ state[t] = "unborn"
          /\ thread' = [thread EXCEPT ![n] = t]
          /\ name' = [name EXCEPT ![t] = n]
          /\ \E s \in Started : state' = [state EXCEPT ![t] = s]
          /\ queue' = [queue EXCEPT ![t] = Append(@, c)]
    BY <1>2 DEF PostToNewThread
  <2>2. PICK s \in {"ready", "stillborn"} : state' = [state EXCEPT ![t] = s]
    BY <2>1 DEF Started
  <2>3. thread[n] = None /\ current' = current /\ current[t] = None /\ queue[t] = <<>>
    BY <1>2, <2>1 DEF PostToNewThread, Post
  <2>4. \A m \in Names : thread[m] # t
    <3>1. state[t] = "unborn"
      BY <2>1
    <3> QED BY ONLY <3>1, ThreadAssumption, MapOK, t \in Threads DEF MapOK, Kept, Live
  <2>5. {m \in Names : thread'[m] # None /\ state'[thread'[m]] = "stillborn"}
        = {m \in Names : thread[m] # None /\ state[thread[m]] = "stillborn"}
          \cup (IF s = "stillborn" THEN {n} ELSE {})
    BY <2>1, <2>2, <2>3, <2>4
  <2>6. [m \in Names |-> IF thread'[m] = None THEN <<>> ELSE queue'[thread'[m]]]
        = [[m \in Names |-> IF thread[m] = None THEN <<>> ELSE queue[thread[m]]]
           EXCEPT ![n] = Append(@, c)]
    <3> DEFINE f == [m \in Names |-> IF thread[m] = None THEN <<>> ELSE queue[thread[m]]]
    <3> DEFINE g == [m \in Names |-> IF thread'[m] = None THEN <<>> ELSE queue'[thread'[m]]]
    <3>1. g[n] = Append(f[n], c)
      BY <2>1, <2>3, <2>4
    <3>2. \A m \in Names \ {n} : g[m] = f[m]
      BY <2>1, <2>3, <2>4
    <3>3. f = [m \in Names |-> f[m]] /\ g = [m \in Names |-> g[m]]
      OBVIOUS
    <3> HIDE DEF f, g
    <3>4. g = [f EXCEPT ![n] = Append(f[n], c)]
      BY ONLY <3>1, <3>2, <3>3, PointUpdate, n \in Names
    <3> QED BY <3>4 DEF f, g
  <2>7. [m \in Names |-> IF thread'[m] = None THEN None ELSE current'[thread'[m]]]
        = [m \in Names |-> IF thread[m] = None THEN None ELSE current[thread[m]]]
    BY <2>1, <2>3, <2>4
  <2> QED BY <2>3, <2>5, <2>6, <2>7 DEF Serial!Post
<1> QED BY <1>1, <1>2 DEF Post

\* Every step is a step of the serial executor, or none.
LEMMA StepRefines == IInv /\ [Next]_vars => [Serial!Next]_Serial!vars
<1> SUFFICES ASSUME IInv, [Next]_vars PROVE [Serial!Next]_Serial!vars
  OBVIOUS
<1>1. CASE \E n \in Names, c \in Closures : Post(n, c)
  BY <1>1, PostPosts DEF Serial!Next
<1>2. ASSUME NEW t \in Threads, Step(t) PROVE [Serial!Next]_Serial!vars
  <2>1. CASE Look(t)
    BY <2>1, LookCases, MoveStutters, TakeOrLeaveRefines
  <2>2. CASE Resume(t)
    BY <2>2, TakeOrLeaveRefines DEF Resume
  <2>3. CASE WaitEnds(t) \/ Release(t)
    BY <2>3, MoveStutters
  <2>4. CASE Finish(t)
    BY <2>4, FinishFinishes DEF Serial!Next
  <2> QED BY <1>2, <2>1, <2>2, <2>3, <2>4 DEF Step
<1>3. CASE UNCHANGED vars
  BY <1>3 DEF vars, Serial!vars
<1> QED BY <1>1, <1>2, <1>3 DEF Next

\* The threads implement the serial executor: its initial state, and every
\* step one of its steps or a stutter (its fairness is model-checked, by
\* ImplementsSerial).
THEOREM SerialSafety == Spec => Serial!Init /\ [][Serial!Next]_Serial!vars
<1>1. Init => Serial!Init
  BY DEF Init, Serial!Init
<1> QED BY <1>1, StepRefines, Invariance, PTL DEF Spec
=============================================================================
