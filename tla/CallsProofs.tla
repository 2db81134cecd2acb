---------------------------- MODULE CallsProofs ----------------------------
(***************************************************************************)
(* What Calls guarantees for any objects, threads and number of calls: the *)
(* functions of a call that waits are there and no others, and the answers *)
(* come once and in order.                                                 *)
(*                                                                         *)
(* The first needs that ids are never used twice (Ids) and that the map of *)
(* the context and the maps of all executors tell the same (Kept).  The    *)
(* second follows a call on its way, from the backlog of its thread over   *)
(* the method that runs and the queue of the script thread to the answer:  *)
(* at any time the calls of one thread stand in it in the order in which   *)
(* they were made (InLine).                                                *)
(***************************************************************************)
EXTENDS Calls, SequenceTheorems, TLAPS

KeyOf(c) == Key(owner[c])

ThreadTypes ==
    /\ backlog \in [Names -> Seq(Calls)]
    /\ active \in [Names -> Calls \cup {None}]
    /\ \A n \in Names : active[n] = None <=> stage[n] = "idle"

Numbered ==
    /\ token <= made
    /\ sent \subseteq 1..made
    /\ \A c \in 1..made : owner[c] \in Objects
    /\ \A i \in DOMAIN answered : answered[i] \in 1..made

Ids ==
    /\ \A c \in Calls : id[c] <= token /\ (c > made => id[c] = 0)
    /\ \A c, d \in Calls : id[c] = id[d] /\ id[c] # 0 => c = d

Kept ==
    /\ \A o \in Objects : \A c \in callbacks[o] : c <= made /\ owner[c] = o /\ id[c] # 0
    /\ context => \A o \in Objects : \A c \in callbacks[o] : Entries(c) \subseteq functions
    /\ \A f \in functions :
         /\ f[1] = id[f[3]] /\ f[2] \in Types(kind[f[3]])
         /\ f[3] <= made /\ f[3] \in callbacks[owner[f[3]]]

\* In the backlog of a thread,
Waiting ==
    \A n \in Names : \A i \in DOMAIN backlog[n] :
        /\ backlog[n][i] \in sent /\ KeyOf(backlog[n][i]) = n
        /\ \A j \in DOMAIN backlog[n] : i < j => backlog[n][i] < backlog[n][j]

\* with the thread,
Working ==
    \A n \in Names : active[n] # None =>
        /\ active[n] \in sent /\ KeyOf(active[n]) = n
        /\ \A i \in DOMAIN backlog[n] : active[n] < backlog[n][i]

\* and handed to the script thread: behind what its thread still has to do.
Ahead(c) ==
    /\ \A i \in DOMAIN backlog[KeyOf(c)] : c < backlog[KeyOf(c)][i]
    /\ active[KeyOf(c)] # None =>
         \/ c < active[KeyOf(c)]
         \/ c = active[KeyOf(c)] /\ stage[KeyOf(c)] = "posted"

Queued ==
    \A i \in DOMAIN tasks :
        /\ tasks[i].call \in sent /\ Ahead(tasks[i].call)
        /\ \A j \in DOMAIN tasks :
             i < j /\ KeyOf(tasks[i].call) = KeyOf(tasks[j].call) => tasks[i].call < tasks[j].call

Done ==
    \A i \in DOMAIN answered : answered[i] \in sent =>
        /\ Ahead(answered[i])
        /\ \A j \in DOMAIN tasks :
             KeyOf(answered[i]) = KeyOf(tasks[j].call) => answered[i] < tasks[j].call

InLine == Waiting /\ Working /\ Queued /\ Done /\ AnsweredInOrder

IInv == TypeOK /\ ThreadTypes /\ Numbered /\ Ids /\ Kept /\ InLine

-----------------------------------------------------------------------------
\* Helpers.
LEMMA KeyNames == \A o \in Objects : Key(o) \in Names
BY CallsAssumption DEF Key, Names

LEMMA KeyOfNames ==
    ASSUME IInv, NEW c \in 1..made
    PROVE  KeyOf(c) \in Names /\ c \in Calls
BY KeyNames, CallsAssumption DEF IInv, TypeOK, Numbered, KeyOf, Calls

-----------------------------------------------------------------------------
\* Types.
LEMMA TypesOfMakeCall ==
    ASSUME IInv, NEW o \in Objects, NEW c \in Calls, NEW k \in {"quiet", "std", "promise"},
           MakeCall(o, c, k)
    PROVE  /\ made' \in 0..MaxCalls /\ made' = c /\ made < c
           /\ owner' \in [Calls -> Objects \cup {None}]
           /\ kind' \in [Calls -> {"quiet", "std", "promise"}]
BY CallsAssumption DEF IInv, TypeOK, MakeCall, Calls

LEMMA TypesOfPost ==
    ASSUME IInv, NEW o \in Objects, NEW c \in Calls, Thread!Post(Key(o), c), UNCHANGED stage
    PROVE  ThreadTypes'
BY KeyNames DEF IInv, ThreadTypes, Thread!Post

LEMMA TypesOfRegister ==
    ASSUME IInv, NEW o \in Objects, NEW c \in Calls, c = made + 1, Register(o, c)
    PROVE  /\ token' \in 0..MaxCalls /\ token' <= c
           /\ id' \in [Calls -> 0..MaxCalls]
           /\ callbacks' \in [Objects -> SUBSET Calls]
           /\ functions' \subseteq (1..MaxCalls) \X {"callback", "resolve", "reject"} \X Calls
<1>1. Enter(o, c, KindOf(o))
  BY DEF Register, AddCallback, CreatePromise, KindOf
<1>2. /\ token \in 0..MaxCalls /\ made \in 0..MaxCalls /\ token <= made
      /\ c \in 1..MaxCalls /\ MaxCalls \in Nat
  BY CallsAssumption DEF IInv, TypeOK, Numbered, Calls
<1>3. token' = token + 1 /\ token' \in 1..MaxCalls /\ token' <= c
  BY <1>1, <1>2 DEF Enter
<1>4. id' \in [Calls -> 0..MaxCalls]
  BY <1>1, <1>2, <1>3 DEF Enter, FreshId, IInv, TypeOK
<1>5. callbacks' \in [Objects -> SUBSET Calls]
  BY <1>1 DEF Enter, IInv, TypeOK
<1>6. functions' \subseteq (1..MaxCalls) \X {"callback", "resolve", "reject"} \X Calls
  BY <1>1, <1>3 DEF Enter, FreshId, Keep, Types, IInv, TypeOK
<1> QED
  BY <1>3, <1>4, <1>5, <1>6

LEMMA TypesOfCall ==
    ASSUME IInv, NEW o \in Objects, Call(o)
    PROVE  TypeOK' /\ ThreadTypes' /\ Numbered'
<1> PICK c \in Calls : CallSent(o, c) \/ CallSettled(o, c) \/ CallQuiet(o, c) \/ CallLost(o, c)
  BY DEF Call
<1>1. PICK k \in {"quiet", "std", "promise"} : MakeCall(o, c, k)
  BY DEF CallSent, CallSettled, CallQuiet, CallLost, KindOf
<1>2. /\ made' \in 0..MaxCalls /\ made' = c /\ made < c /\ c = made + 1
      /\ owner' \in [Calls -> Objects \cup {None}]
      /\ kind' \in [Calls -> {"quiet", "std", "promise"}]
  BY <1>1, TypesOfMakeCall DEF MakeCall
<1>3. \A d \in 1..made' : owner'[d] \in Objects
  BY <1>1, <1>2 DEF MakeCall, IInv, TypeOK, Numbered
<1>4. attached' \in [Objects -> BOOLEAN] /\ executor' \in [Objects -> {"none", "made", "gone"}]
  BY DEF CallSent, CallSettled, CallQuiet, CallLost, Created, objectVars, IInv, TypeOK
<1>5. /\ token' \in 0..MaxCalls /\ token' <= made'
      /\ id' \in [Calls -> 0..MaxCalls]
      /\ callbacks' \in [Objects -> SUBSET Calls]
      /\ functions' \subseteq (1..MaxCalls) \X {"callback", "resolve", "reject"} \X Calls
  <2>1. CASE CallSent(o, c)
    BY <1>2, <2>1, TypesOfRegister DEF CallSent
  <2>2. CASE CallSettled(o, c)
    <3>1. token' = token + 1 /\ token' \in 0..MaxCalls /\ token' <= made'
      BY <1>2, <2>2, CallsAssumption DEF CallSettled, IInv, TypeOK, Numbered
    <3> QED
      BY <2>2, <3>1 DEF CallSettled, FreshId, IInv, TypeOK
  <2>3. CASE CallQuiet(o, c) \/ CallLost(o, c)
    BY <1>2, <2>3, CallsAssumption DEF CallQuiet, CallLost, IInv, TypeOK, Numbered
  <2> QED
    BY <2>1, <2>2, <2>3
<1>6. sent' \subseteq 1..made' /\ sent' \subseteq Calls
  <2>1. sent' \in {sent, sent \cup {c}}
    BY DEF CallSent, CallSettled, CallQuiet, CallLost
  <2>2. \A d \in 1..made : d \in 1..made'
    BY <1>2, CallsAssumption DEF IInv, TypeOK
  <2>3. c \in 1..made'
    BY <1>2, CallsAssumption DEF Calls
  <2> QED
    BY <2>1, <2>2, <2>3 DEF IInv, TypeOK, Numbered
<1>7. answered' \in Seq(Calls) /\ \A i \in DOMAIN answered' : answered'[i] \in 1..made'
  <2>1. CASE answered' = Append(answered, c)
    BY <1>2, <2>1, CallsAssumption DEF IInv, TypeOK, Numbered, Calls
  <2>2. CASE UNCHANGED answered
    BY <1>2, <2>2, CallsAssumption DEF IInv, TypeOK, Numbered
  <2> QED
    BY <2>1, <2>2 DEF CallSent, CallSettled, CallQuiet, CallLost, CallDescVec
<1>8. UNCHANGED <<refs, context, stage, tasks>>
  BY DEF CallSent, CallSettled, CallQuiet, CallLost, objectVars
<1>9. ThreadTypes'
  <2>1. CASE UNCHANGED threadVars
    BY <1>8, <2>1 DEF threadVars, IInv, ThreadTypes
  <2>2. CASE Thread!Post(Key(o), c)
    BY <1>8, <2>2, TypesOfPost
  <2> QED
    BY <2>1, <2>2 DEF CallSent, CallSettled, CallQuiet, CallLost
<1> QED
  BY <1>2, <1>3, <1>4, <1>5, <1>6, <1>7, <1>8, <1>9 DEF IInv, TypeOK, Numbered

\* What the worker threads and the script thread do to the types.
LEMMA TypesOfUnref ==
    ASSUME IInv, NEW o \in Objects, NEW h, Unref(o, h)
    PROVE  /\ refs' \in [Objects -> SUBSET ({"value", "methods"} \cup Names)]
           /\ executor' \in [Objects -> {"none", "made", "gone"}]
BY DEF IInv, TypeOK, Unref

LEMMA ActiveCall ==
    ASSUME IInv, NEW n \in Names, stage[n] # "idle"
    PROVE  /\ active[n] \in sent /\ active[n] \in Calls /\ active[n] \in 1..made
           /\ owner[active[n]] \in Objects /\ active[n] # None
BY DEF IInv, TypeOK, ThreadTypes, Numbered, InLine, Working

LEMMA TypesOfWork ==
    ASSUME IInv, NEW n \in Names, Work(n)
    PROVE  TypeOK' /\ ThreadTypes' /\ Numbered'
<1> USE DEF IInv
<1>1. Numbered'
  BY DEF Work, Run, Promote, PostAnswer, Release, callVars, Numbered
<1>2. CASE Run(n)
  <2>1. Head(backlog[n]) \in Calls /\ Tail(backlog[n]) \in Seq(Calls)
    BY <1>2 DEF Run, Thread!Begin, ThreadTypes
  <2>2. ThreadTypes'
    BY <1>2, <2>1, CallsAssumption DEF Run, Thread!Begin, ThreadTypes, TypeOK, Calls
  <2>3. TypeOK'
    BY <1>2 DEF Run, callVars, objectVars, TypeOK
  <2> QED
    BY <1>1, <2>2, <2>3
<1>3. CASE Promote(n)
  <2>1. \/ /\ stage' = [stage EXCEPT ![n] = "idle"] /\ Thread!Finish(n) /\ UNCHANGED refs
        \/ /\ stage' = [stage EXCEPT ![n] = "posting"] /\ UNCHANGED threadVars
           /\ refs' = [refs EXCEPT ![owner[active[n]]] = @ \cup {n}]
    BY <1>3 DEF Promote
  <2>2. stage' \in [Names -> {"idle", "running", "posting", "posted"}]
    BY <2>1 DEF TypeOK
  <2>3. refs' \in [Objects -> SUBSET ({"value", "methods"} \cup Names)]
    <3>1. refs \in [Objects -> SUBSET ({"value", "methods"} \cup Names)]
      BY DEF TypeOK
    <3>2. {n} \subseteq {"value", "methods"} \cup Names
      OBVIOUS
    <3> QED
      BY <2>1, <3>1, <3>2
  <2>4. ThreadTypes'
    <3>1. CASE stage' = [stage EXCEPT ![n] = "idle"] /\ Thread!Finish(n)
      BY <3>1 DEF Thread!Finish, ThreadTypes, TypeOK
    <3>2. CASE stage' = [stage EXCEPT ![n] = "posting"] /\ UNCHANGED threadVars
      BY <1>3, <3>2 DEF Promote, threadVars, ThreadTypes, TypeOK
    <3> QED
      BY <2>1, <3>1, <3>2
  <2> QED
    BY <1>1, <1>3, <2>2, <2>3, <2>4 DEF Promote, callVars, TypeOK
<1>4. CASE PostAnswer(n)
  <2>1. active[n] \in Calls
    BY <1>4, ActiveCall DEF PostAnswer
  <2>2. \A via \in {"value", "function"} :
          Posted(active[n], via) \in Seq([call : Calls, via : {"value", "function"}])
    BY <2>1 DEF Posted, TypeOK
  <2>3. tasks' \in Seq([call : Calls, via : {"value", "function"}])
    BY <1>4, <2>2 DEF PostAnswer, TypeOK
  <2>4. stage' \in [Names -> {"idle", "running", "posting", "posted"}]
    BY <1>4 DEF PostAnswer, TypeOK
  <2>5. ThreadTypes'
    BY <1>4 DEF PostAnswer, threadVars, ThreadTypes, TypeOK
  <2> QED
    BY <1>1, <1>4, <2>3, <2>4, <2>5 DEF PostAnswer, callVars, objectVars, TypeOK
<1>5. CASE Release(n)
  <2>1. /\ refs' \in [Objects -> SUBSET ({"value", "methods"} \cup Names)]
        /\ executor' \in [Objects -> {"none", "made", "gone"}]
    BY <1>5, ActiveCall, TypesOfUnref DEF Release
  <2>2. stage' \in [Names -> {"idle", "running", "posting", "posted"}]
    BY <1>5 DEF Release, TypeOK
  <2>3. ThreadTypes'
    BY <1>5 DEF Release, Thread!Finish, ThreadTypes, TypeOK
  <2> QED
    BY <1>1, <1>5, <2>1, <2>2, <2>3 DEF Release, callVars, TypeOK
<1> QED
  BY <1>2, <1>3, <1>4, <1>5 DEF Work

LEMMA HeadOfTasks ==
    ASSUME IInv, tasks # <<>>
    PROVE  /\ Head(tasks) = tasks[1] /\ 1 \in DOMAIN tasks
           /\ Head(tasks).call \in Calls /\ Head(tasks).call \in sent
           /\ owner[Head(tasks).call] \in Objects
           /\ Tail(tasks) \in Seq([call : Calls, via : {"value", "function"}])
           /\ \A i \in DOMAIN Tail(tasks) : i + 1 \in DOMAIN tasks /\ Tail(tasks)[i] = tasks[i + 1]
<1> DEFINE T == [call : Calls, via : {"value", "function"}]
<1>1. tasks \in Seq(T)
  BY DEF IInv, TypeOK
<1> HIDE DEF T
<1>2. Head(tasks) = tasks[1] /\ 1 \in DOMAIN tasks /\ Head(tasks) \in T
  BY <1>1
<1>3. /\ Tail(tasks) \in Seq(T)
      /\ \A i \in DOMAIN Tail(tasks) : i + 1 \in DOMAIN tasks /\ Tail(tasks)[i] = tasks[i + 1]
  BY <1>1
<1>4. Head(tasks).call \in sent
  BY <1>2 DEF IInv, InLine, Queued
<1>5. Head(tasks).call \in Calls
  BY <1>2 DEF T
<1> QED
  BY <1>2, <1>3, <1>4, <1>5 DEF T, IInv, Numbered

LEMMA TypesOfScript ==
    ASSUME IInv, Deliver \/ (\E o \in Objects : Collect(o) \/ FreeMethods(o)) \/ FreeContext
    PROVE  TypeOK' /\ ThreadTypes' /\ Numbered'
<1> USE DEF IInv
<1>1. UNCHANGED <<callVars, threadVars, stage>>
  BY DEF Deliver, Collect, FreeMethods, FreeContext
<1>2. ThreadTypes'
  BY <1>1 DEF threadVars, ThreadTypes
<1>3. CASE Deliver
  <2>1. /\ Head(tasks).call \in Calls /\ Head(tasks).call \in 1..made
        /\ Tail(tasks) \in Seq([call : Calls, via : {"value", "function"}])
    BY <1>3, HeadOfTasks DEF Deliver, Numbered
  <2>2. /\ answered' \in Seq(Calls) /\ \A i \in DOMAIN answered' : answered'[i] \in 1..made
    <3>1. CASE UNCHANGED answered
      BY <3>1 DEF TypeOK, Numbered
    <3>2. CASE answered' = Append(answered, Head(tasks).call)
      BY <2>1, <3>2 DEF TypeOK, Numbered
    <3> QED
      BY <1>3, <3>1, <3>2 DEF Deliver, CallDescVec
  <2>3. /\ callbacks' \in [Objects -> SUBSET Calls]
        /\ functions' \subseteq functions
    <3>1. CASE UNCHANGED <<callbacks, functions>>
      BY <3>1 DEF TypeOK
    <3>2. CASE /\ callbacks' = [callbacks EXCEPT ![owner[Head(tasks).call]] = @ \ {Head(tasks).call}]
               /\ functions' = Freed(Head(tasks).call)
      BY <3>2 DEF Freed, TypeOK
    <3> QED
      BY <1>3, <3>1, <3>2 DEF Deliver
  <2>4. TypeOK'
    BY <1>1, <1>3, <2>1, <2>2, <2>3 DEF Deliver, callVars, objectVars, TypeOK
  <2> QED
    BY <1>1, <1>2, <2>2, <2>4 DEF callVars, Numbered
<1>4. ASSUME NEW o \in Objects, Collect(o) \/ FreeMethods(o) PROVE TypeOK' /\ Numbered'
  <2>1. /\ refs' \in [Objects -> SUBSET ({"value", "methods"} \cup Names)]
        /\ executor' \in [Objects -> {"none", "made", "gone"}]
    BY <1>4, TypesOfUnref DEF Collect, FreeMethods
  <2>2. attached' \in [Objects -> BOOLEAN]
    BY <1>4 DEF Collect, FreeMethods, TypeOK
  <2> QED
    BY <1>1, <1>4, <2>1, <2>2 DEF Collect, FreeMethods, callVars, TypeOK, Numbered
<1>5. CASE FreeContext
  <2>1. /\ refs' \in [Objects -> SUBSET ({"value", "methods"} \cup Names)]
        /\ executor' \in [Objects -> {"none", "made", "gone"}]
        /\ attached' \in [Objects -> BOOLEAN]
    BY <1>5 DEF FreeContext, TypeOK
  <2>2. /\ context' \in BOOLEAN
        /\ functions' \subseteq (1..MaxCalls) \X {"callback", "resolve", "reject"} \X Calls
    BY <1>5 DEF FreeContext
  <2>3. UNCHANGED <<callVars, callbacks, stage, tasks, answered>>
    BY <1>5 DEF FreeContext
  <2> QED
    BY <1>2, <2>1, <2>2, <2>3 DEF callVars, TypeOK, Numbered
<1> QED
  BY <1>2, <1>3, <1>4, <1>5

-----------------------------------------------------------------------------
\* Ids and functions.
LEMMA IdsKept ==
    ASSUME IInv, NEW c \in Calls, c = made + 1, made' = c,
           \/ UNCHANGED <<id, token>>
           \/ token' = token + 1 /\ id' = [id EXCEPT ![c] = FreshId(owner[c])]
    PROVE  Ids'
<1>1. /\ id \in [Calls -> 0..MaxCalls] /\ token \in 0..MaxCalls /\ made \in 0..MaxCalls
      /\ MaxCalls \in Nat /\ Calls = 1..MaxCalls
  BY CallsAssumption DEF IInv, TypeOK, Calls
<1>2. Ids
  BY DEF IInv
<1>3. CASE UNCHANGED <<id, token>>
  BY <1>1, <1>2, <1>3 DEF Ids
<1>4. CASE token' = token + 1 /\ id' = [id EXCEPT ![c] = FreshId(owner[c])]
  BY <1>1, <1>2, <1>4 DEF Ids, FreshId
<1> QED
  BY <1>3, <1>4

\* A new call finds no entry with its id and displaces none.
LEMMA KeptByRegister ==
    ASSUME IInv, NEW o \in Objects, NEW c \in Calls, MakeCall(o, c, KindOf(o)), Register(o, c),
           UNCHANGED context
    PROVE  Kept'
<1>1. /\ id \in [Calls -> 0..MaxCalls] /\ token \in 0..MaxCalls /\ made \in 0..MaxCalls
      /\ MaxCalls \in Nat /\ Calls = 1..MaxCalls
      /\ callbacks \in [Objects -> SUBSET Calls]
      /\ owner \in [Calls -> Objects \cup {None}]
      /\ kind \in [Calls -> {"quiet", "std", "promise"}]
      /\ functions \subseteq (1..MaxCalls) \X {"callback", "resolve", "reject"} \X Calls
      /\ Ids /\ Kept /\ c = made + 1 /\ made' = c
      /\ \A d \in 1..made : owner[d] \in Objects
  BY CallsAssumption DEF IInv, TypeOK, Calls, MakeCall, Numbered
<1>2. /\ token' = token + 1 /\ id' = [id EXCEPT ![c] = token + 1]
      /\ callbacks' = [callbacks EXCEPT ![o] = @ \cup {c}]
      /\ functions' = {f \in functions : f[1] # token + 1 \/ f[2] \notin Types(KindOf(o))}
                        \cup {<<token + 1, t, c>> : t \in Types(KindOf(o))}
      /\ owner' = [owner EXCEPT ![c] = o] /\ kind' = [kind EXCEPT ![c] = KindOf(o)]
  BY DEF Register, AddCallback, CreatePromise, KindOf, Enter, FreshId, Keep, MakeCall
<1>3. \A f \in functions : f[1] # token + 1
  <2> SUFFICES ASSUME NEW f \in functions PROVE f[1] # token + 1
    OBVIOUS
  <2>1. f[3] \in Calls /\ f[1] = id[f[3]] /\ id[f[3]] <= token
    BY <1>1 DEF Kept, Ids
  <2> QED
    BY <1>1, <2>1
<1>4. functions' = functions \cup {<<token + 1, t, c>> : t \in Types(KindOf(o))}
  BY <1>2, <1>3
<1>5. c \in Calls /\ ~(c <= made)
  BY <1>1
<1>6. \A d \in Calls : d <= made => id'[d] = id[d] /\ owner'[d] = owner[d] /\ kind'[d] = kind[d]
  BY <1>1, <1>2, <1>5
<1>7. id'[c] = token + 1 /\ owner'[c] = o /\ kind'[c] = KindOf(o)
  BY <1>1, <1>2
<1>8. \A p \in Objects : \A d \in callbacks'[p] : d <= made' /\ owner'[d] = p /\ id'[d] # 0
  BY <1>1, <1>2, <1>5, <1>6, <1>7 DEF Kept
<1>9. context' => \A p \in Objects : \A d \in callbacks'[p] : Entries(d)' \subseteq functions'
  <2> SUFFICES ASSUME context', NEW p \in Objects, NEW d \in callbacks'[p]
               PROVE  Entries(d)' \subseteq functions'
    OBVIOUS
  <2>1. CASE d = c
    BY <1>4, <1>7, <2>1 DEF Entries
  <2>2. CASE d # c
    <3>1. d \in callbacks[p] /\ d \in Calls /\ d <= made
      BY <1>1, <1>2, <2>2 DEF Kept
    <3>2. Entries(d) \subseteq functions
      BY <1>1, <3>1 DEF Kept
    <3>3. Entries(d)' = Entries(d)
      BY <1>6, <3>1 DEF Entries
    <3> QED
      BY <1>4, <3>2, <3>3
  <2> QED
    BY <2>1, <2>2
<1>10. ASSUME NEW f \in functions'
       PROVE  /\ f[1] = id'[f[3]] /\ f[2] \in Types(kind'[f[3]])
              /\ f[3] <= made' /\ f[3] \in callbacks'[owner'[f[3]]]
  <2>1. CASE f \in functions
    <3>1. /\ f[3] \in Calls /\ f[1] = id[f[3]] /\ f[2] \in Types(kind[f[3]])
          /\ f[3] <= made /\ f[3] \in callbacks[owner[f[3]]]
      BY <1>1, <2>1 DEF Kept
    <3>2. owner[f[3]] \in Objects
      BY <1>1, <3>1
    <3> QED
      BY <1>1, <1>2, <1>6, <3>1, <3>2
  <2>2. CASE f \notin functions
    <3>1. PICK t \in Types(KindOf(o)) : f = <<token + 1, t, c>>
      BY <1>4, <2>2
    <3>2. f[1] = token + 1 /\ f[2] = t /\ f[3] = c
      BY <3>1
    <3> QED
      BY <1>1, <1>2, <1>7, <3>2
  <2> QED
    BY <2>1, <2>2
<1> QED
  BY <1>8, <1>9, <1>10 DEF Kept

LEMMA KeptByCall ==
    ASSUME IInv, NEW o \in Objects, Call(o)
    PROVE  Ids' /\ Kept'
<1> PICK c \in Calls : CallSent(o, c) \/ CallSettled(o, c) \/ CallQuiet(o, c) \/ CallLost(o, c)
  BY DEF Call
<1>1. c = made + 1 /\ made' = c
  BY DEF CallSent, CallSettled, CallQuiet, CallLost, MakeCall
<1>2. \/ UNCHANGED <<id, token>>
      \/ token' = token + 1 /\ id' = [id EXCEPT ![c] = FreshId(owner[c])]
  BY DEF CallSent, CallSettled, CallQuiet, CallLost, Register, AddCallback, CreatePromise, Enter, FreshId
<1>3. Ids'
  BY <1>1, <1>2, IdsKept
<1>4. CASE CallSent(o, c)
  BY <1>3, <1>4, KeptByRegister DEF CallSent
<1>5. CASE CallSettled(o, c) \/ CallQuiet(o, c) \/ CallLost(o, c)
  <2>1. UNCHANGED <<callbacks, functions, context>> /\ owner' = [owner EXCEPT ![c] = o]
    BY <1>5 DEF CallSettled, CallQuiet, CallLost, MakeCall
  <2>2. PICK k \in {"quiet", "std", "promise"} : kind' = [kind EXCEPT ![c] = k]
    BY <1>5 DEF CallSettled, CallQuiet, CallLost, MakeCall, KindOf
  <2>3. /\ id \in [Calls -> 0..MaxCalls] /\ made \in 0..MaxCalls
        /\ callbacks \in [Objects -> SUBSET Calls]
        /\ owner \in [Calls -> Objects \cup {None}]
        /\ kind \in [Calls -> {"quiet", "std", "promise"}]
        /\ functions \subseteq (1..MaxCalls) \X {"callback", "resolve", "reject"} \X Calls
        /\ Kept /\ \A d \in 1..made : owner[d] \in Objects
    BY DEF IInv, TypeOK, Numbered
  <2>4. \A d \in Calls : d <= made => d # c /\ d <= made' /\ d \in 1..made
    BY <1>1, <2>3, CallsAssumption DEF Calls
  <2>5. \A d \in Calls : d <= made => id'[d] = id[d] /\ owner'[d] = owner[d] /\ kind'[d] = kind[d]
    BY <1>2, <2>1, <2>2, <2>3, <2>4
  <2>6. \A p \in Objects : \A d \in callbacks[p] : d \in Calls /\ d <= made
    BY <2>3 DEF Kept
  <2>7. \A d \in Calls : d <= made => Entries(d)' = Entries(d)
    BY <2>5 DEF Entries
  <2>8. \A p \in Objects : \A d \in callbacks'[p] : d <= made' /\ owner'[d] = p /\ id'[d] # 0
    BY <2>1, <2>3, <2>4, <2>5, <2>6 DEF Kept
  <2>9. context' => \A p \in Objects : \A d \in callbacks'[p] : Entries(d)' \subseteq functions'
    <3> SUFFICES ASSUME context', NEW p \in Objects, NEW d \in callbacks'[p]
                 PROVE  Entries(d)' \subseteq functions'
      OBVIOUS
    <3>1. d \in callbacks[p] /\ d \in Calls /\ d <= made /\ context
      BY <2>1, <2>6
    <3> QED
      BY <2>1, <2>3, <2>7, <3>1 DEF Kept
  <2>10. ASSUME NEW f \in functions'
         PROVE  /\ f[1] = id'[f[3]] /\ f[2] \in Types(kind'[f[3]])
                /\ f[3] <= made' /\ f[3] \in callbacks'[owner'[f[3]]]
    <3>1. f \in functions /\ f[3] \in Calls /\ f[3] <= made
      BY <2>1, <2>3 DEF Kept
    <3> QED
      BY <2>1, <2>3, <2>4, <2>5, <3>1 DEF Kept
  <2> QED
    BY <1>3, <2>8, <2>9, <2>10 DEF Kept
<1> QED
  BY <1>3, <1>4, <1>5

\* An answered call leaves the map of its executor and that of the context together.
LEMMA KeptByDeliver ==
    ASSUME IInv, Deliver
    PROVE  Kept'
<1> DEFINE c == Head(tasks).call
           o == owner[c]
<1>1. c \in Calls /\ o \in Objects
  BY HeadOfTasks DEF Deliver
<1>2. UNCHANGED <<made, owner, kind, id, context>>
  BY DEF Deliver, callVars
<1>3. CASE UNCHANGED <<callbacks, functions>>
  BY <1>2, <1>3 DEF IInv, Kept, Entries
<1>4. CASE /\ callbacks' = [callbacks EXCEPT ![o] = @ \ {c}]
           /\ functions' = Freed(c) /\ c \in callbacks[o]
  <2>1. /\ Kept /\ Ids /\ callbacks \in [Objects -> SUBSET Calls]
        /\ functions \subseteq (1..MaxCalls) \X {"callback", "resolve", "reject"} \X Calls
        /\ id \in [Calls -> 0..MaxCalls]
    BY DEF IInv, TypeOK
  <2> HIDE DEF c, o
  <2>2. \A p \in Objects : callbacks'[p] \subseteq callbacks[p]
    BY <1>4, <2>1
  <2>3. ASSUME context, NEW p \in Objects, NEW d \in callbacks'[p] PROVE Entries(d) \subseteq Freed(c)
    <3>1. d \in callbacks[p] /\ d \in Calls /\ id[d] # 0 /\ owner[d] = p /\ Entries(d) \subseteq functions
      BY <2>1, <2>2, <2>3 DEF Kept
    <3>2. o = owner[c]
      BY DEF o
    <3>3. d # c
      BY <1>1, <1>4, <2>1, <2>3, <3>1, <3>2
    <3>4. id[d] # id[c]
      BY <1>1, <2>1, <3>1, <3>3 DEF Ids
    <3> QED
      BY <3>1, <3>4 DEF Freed, Entries
  <2>4. ASSUME NEW f \in Freed(c)
        PROVE  f \in functions /\ f[3] \in callbacks'[owner[f[3]]]
    <3>1. f \in functions /\ f[3] # c
      BY <2>1, <2>4 DEF Freed, Kept
    <3>2. f[3] \in callbacks[owner[f[3]]]
      BY <2>1, <3>1 DEF Kept
    <3> QED
      BY <1>1, <1>4, <2>1, <3>1, <3>2
  <2> QED
    BY <1>2, <1>4, <2>1, <2>2, <2>3, <2>4 DEF Kept, Entries
<1> QED
  BY <1>3, <1>4 DEF Deliver

LEMMA KeptElsewhere ==
    ASSUME IInv,
           \/ \E n \in Names : Work(n)
           \/ \E o \in Objects : Collect(o) \/ FreeMethods(o)
           \/ FreeContext
    PROVE  Kept'
<1>1. CASE UNCHANGED <<callVars, callbacks, functions, context>>
  BY <1>1 DEF callVars, IInv, Kept, Entries
<1>2. CASE FreeContext
  BY <1>2 DEF FreeContext, callVars, IInv, Kept, Entries
<1> QED
  BY <1>1, <1>2 DEF Work, Run, Promote, PostAnswer, Release, Collect, FreeMethods

LEMMA IdsElsewhere ==
    ASSUME IInv, UNCHANGED callVars
    PROVE  Ids'
BY DEF IInv, Ids, callVars

-----------------------------------------------------------------------------
\* The line of a thread.  Most steps change one of its parts only.

\* Steps that change no part of it but how far the running method is.
LEMMA LineStays ==
    ASSUME IInv, UNCHANGED <<callVars, threadVars, tasks, answered>>,
           \A n \in Names : active[n] # None /\ stage[n] = "posted" => stage'[n] = "posted"
    PROVE  InLine'
<1> USE DEF IInv
<1>1. UNCHANGED <<made, owner, sent, backlog, active, tasks, answered>>
  BY DEF callVars, threadVars
<1>2. Waiting' /\ Working' /\ AnsweredInOrder'
  BY <1>1 DEF InLine, Waiting, Working, AnsweredInOrder, KeyOf
<1>3. ASSUME NEW c \in Calls, c \in 1..made, Ahead(c) PROVE Ahead(c)'
  <2>1. KeyOf(c) \in Names /\ KeyOf(c)' = KeyOf(c)
    BY <1>1, <1>3, KeyOfNames DEF KeyOf
  <2> QED
    BY <1>1, <1>3, <2>1 DEF Ahead
<1>4. Queued'
  <2>1. \A i \in DOMAIN tasks : tasks[i].call \in Calls /\ tasks[i].call \in 1..made
    BY DEF TypeOK, InLine, Queued, Numbered
  <2> QED
    BY <1>1, <1>3, <2>1 DEF InLine, Queued, KeyOf
<1>5. Done'
  <2>1. \A i \in DOMAIN answered : answered[i] \in Calls /\ answered[i] \in 1..made
    BY DEF TypeOK, Numbered
  <2> QED
    BY <1>1, <1>3, <2>1 DEF InLine, Done, KeyOf
<1> QED
  BY <1>2, <1>4, <1>5 DEF InLine

\* Whatever stands in the line is a call that has been made: the next one is
\* behind all of them.
LEMMA AllMade ==
    ASSUME IInv
    PROVE  /\ \A n \in Names : \A i \in DOMAIN backlog[n] : backlog[n][i] \in 1..made
           /\ \A n \in Names : active[n] # None => active[n] \in 1..made
           /\ \A i \in DOMAIN tasks : tasks[i].call \in 1..made /\ tasks[i].call \in Calls
           /\ \A i \in DOMAIN answered : answered[i] \in 1..made /\ answered[i] \in Calls
<1> USE DEF IInv, InLine
<1>1. sent \subseteq 1..made
  BY DEF Numbered
<1>2. \A n \in Names : \A i \in DOMAIN backlog[n] : backlog[n][i] \in sent
  BY DEF Waiting
<1>3. \A n \in Names : active[n] # None => active[n] \in sent
  BY DEF Working
<1>4. \A i \in DOMAIN tasks : tasks[i].call \in sent
  BY DEF Queued
<1>5. \A i \in DOMAIN answered : answered[i] \in 1..made /\ answered[i] \in Calls
  BY DEF TypeOK, Numbered
<1> QED
  BY <1>1, <1>2, <1>3, <1>4, <1>5 DEF TypeOK

LEMMA NextCall ==
    ASSUME IInv, NEW o \in Objects, NEW c \in Calls, c = made + 1, owner' = [owner EXCEPT ![c] = o]
    PROVE  /\ Key(owner'[c]) = Key(o)
           /\ \A d \in 1..made : Key(owner'[d]) = KeyOf(d) /\ d < c /\ d # c /\ d \in Calls
<1>1. made \in Nat /\ owner \in [Calls -> Objects \cup {None}] /\ MaxCalls \in Nat
  BY CallsAssumption DEF IInv, TypeOK
<1>2. \A d \in 1..made : d < c /\ d # c /\ d \in Calls
  BY <1>1 DEF Calls
<1> QED
  BY <1>1, <1>2 DEF KeyOf, Key

\* The new call goes to the end of the backlog.
LEMMA LineOfPost ==
    ASSUME IInv, NEW o \in Objects, NEW c \in Calls, c = made + 1, owner' = [owner EXCEPT ![c] = o],
           sent' = sent \cup {c}, Thread!Post(Key(o), c), UNCHANGED <<stage, tasks, answered>>
    PROVE  InLine'
<1> DEFINE m == Key(o)
<1> USE DEF IInv
<1>1. m \in Names /\ backlog \in [Names -> Seq(Calls)] /\ made \in Nat
  BY KeyNames DEF ThreadTypes, TypeOK
<1>2. /\ backlog' = [backlog EXCEPT ![m] = Append(@, c)] /\ active' = active
      /\ c \notin 1..made
  BY <1>1 DEF Thread!Post
<1>3. \A n \in Names : n # m => backlog'[n] = backlog[n]
  BY <1>1, <1>2
<1>4. /\ backlog'[m] = Append(backlog[m], c)
      /\ backlog[m] \in Seq(Calls)
  BY <1>1, <1>2
<1>5. \A n \in Names : \A i \in DOMAIN backlog'[n] :
        \/ i \in DOMAIN backlog[n] /\ backlog'[n][i] = backlog[n][i]
        \/ n = m /\ i = Len(backlog[n]) + 1 /\ backlog'[n][i] = c
  <2>1. \A i \in DOMAIN backlog'[m] :
          \/ i \in DOMAIN backlog[m] /\ backlog'[m][i] = backlog[m][i]
          \/ i = Len(backlog[m]) + 1 /\ backlog'[m][i] = c
    BY <1>4
  <2> QED
    BY <1>3, <2>1
<1>6. \A n \in Names : \A i \in DOMAIN backlog[n] :
         backlog[n][i] \in 1..made /\ i \in 1..Len(backlog[n])
  BY <1>1, AllMade
<1> HIDE DEF m
<1>7. \A d \in 1..made : Key(owner'[d]) = KeyOf(d) /\ d < c /\ d # c /\ d \in Calls
  BY NextCall
<1>8. Key(owner'[c]) = m
  BY NextCall DEF m
<1>9. Waiting'
  <2> SUFFICES ASSUME NEW n \in Names, NEW i \in DOMAIN backlog'[n]
               PROVE  /\ backlog'[n][i] \in sent' /\ Key(owner'[backlog'[n][i]]) = n
                      /\ \A j \in DOMAIN backlog'[n] : i < j => backlog'[n][i] < backlog'[n][j]
    BY DEF Waiting, KeyOf
  <2>1. CASE i \in DOMAIN backlog[n] /\ backlog'[n][i] = backlog[n][i]
    <3>1. backlog[n][i] \in sent /\ KeyOf(backlog[n][i]) = n /\ backlog[n][i] \in 1..made
      BY <1>6, <2>1 DEF InLine, Waiting
    <3>2. ASSUME NEW j \in DOMAIN backlog'[n], i < j PROVE backlog'[n][i] < backlog'[n][j]
      BY <1>5, <1>7, <2>1, <3>1, <3>2 DEF InLine, Waiting
    <3> QED
      BY <1>7, <2>1, <3>1, <3>2
  <2>2. CASE n = m /\ i = Len(backlog[n]) + 1 /\ backlog'[n][i] = c
    <3>1. \A j \in DOMAIN backlog'[n] : ~(i < j)
      BY <1>1, <1>4, <2>2
    <3> QED
      BY <1>8, <2>2, <3>1
  <2> QED
    BY <1>5, <2>1, <2>2
<1>10. Working'
  <2> SUFFICES ASSUME NEW n \in Names, active[n] # None
               PROVE  /\ active[n] \in sent' /\ Key(owner'[active[n]]) = n
                      /\ \A i \in DOMAIN backlog'[n] : active[n] < backlog'[n][i]
    BY <1>2 DEF Working, KeyOf
  <2>1. /\ active[n] \in sent /\ KeyOf(active[n]) = n /\ active[n] \in 1..made
        /\ \A i \in DOMAIN backlog[n] : active[n] < backlog[n][i]
    BY AllMade DEF InLine, Working
  <2> QED
    BY <1>5, <1>7, <2>1
<1>11. ASSUME NEW d \in 1..made, Ahead(d) PROVE Ahead(d)'
  <2>1. KeyOf(d) \in Names /\ Key(owner'[d]) = KeyOf(d) /\ d < c
    BY <1>7, KeyOfNames
  <2> QED
    BY <1>2, <1>5, <1>11, <2>1 DEF Ahead, KeyOf
<1>12. Queued'
  BY <1>7, <1>11, AllMade DEF InLine, Queued, KeyOf
<1>13. Done'
  BY <1>7, <1>11, AllMade DEF InLine, Done, KeyOf
<1>14. AnsweredInOrder'
  <2>1. \A i \in DOMAIN answered : answered[i] \in sent' => answered[i] \in sent
    BY <1>2, AllMade
  <2> QED
    BY <1>7, <2>1, AllMade DEF InLine, AnsweredInOrder, KeyOf
<1> QED
  BY <1>9, <1>10, <1>12, <1>13, <1>14 DEF InLine

\* A call that is settled at once, or lost, is not in the line.
LEMMA LineOfUnsent ==
    ASSUME IInv, NEW o \in Objects, NEW c \in Calls, c = made + 1, owner' = [owner EXCEPT ![c] = o],
           UNCHANGED <<sent, threadVars, stage, tasks>>,
           answered' = answered \/ answered' = Append(answered, c)
    PROVE  InLine'
<1> USE DEF IInv
<1>1. made \in Nat /\ answered \in Seq(Calls) /\ sent \subseteq 1..made /\ c \notin 1..made
  BY DEF TypeOK, Numbered
<1>2. UNCHANGED <<backlog, active>>
  BY DEF threadVars
<1>3. \A d \in 1..made : Key(owner'[d]) = KeyOf(d) /\ d < c /\ d # c /\ d \in Calls
  BY NextCall
<1>4. ASSUME NEW i \in DOMAIN answered'
      PROVE  \/ i \in DOMAIN answered /\ answered'[i] = answered[i] /\ answered[i] \in 1..made
             \/ i = Len(answered) + 1 /\ answered'[i] = c
  <2>1. CASE answered' = answered
    BY <1>4, <2>1, AllMade
  <2>2. CASE answered' = Append(answered, c)
    <3>1. CASE i = Len(answered) + 1
      BY <1>1, <2>2, <3>1
    <3>2. CASE i # Len(answered) + 1
      <4>1. i \in DOMAIN answered /\ answered'[i] = answered[i]
        BY <1>1, <1>4, <2>2, <3>2
      <4> QED
        BY <4>1, AllMade
    <3> QED
      BY <3>1, <3>2
  <2> QED
    BY <2>1, <2>2
<1>5. Waiting' /\ Working'
  BY <1>2, <1>3, AllMade DEF InLine, Waiting, Working, KeyOf
<1>6. ASSUME NEW d \in 1..made, Ahead(d) PROVE Ahead(d)'
  BY <1>2, <1>3, <1>6, KeyOfNames DEF Ahead, KeyOf
<1>7. Queued'
  BY <1>3, <1>6, AllMade DEF InLine, Queued, KeyOf
<1>8. c \notin sent
  BY <1>1
<1>9. Done'
  BY <1>3, <1>4, <1>6, <1>8, AllMade DEF InLine, Done, KeyOf
<1>10. AnsweredInOrder'
  <2> SUFFICES ASSUME NEW i \in DOMAIN answered', NEW j \in DOMAIN answered', i < j
               PROVE  /\ answered'[i] # answered'[j]
                      /\ {answered'[i], answered'[j]} \subseteq sent
                            /\ Key(owner'[answered'[i]]) = Key(owner'[answered'[j]])
                          => answered'[i] < answered'[j]
    BY DEF AnsweredInOrder, KeyOf
  <2>1. \A k \in DOMAIN answered : k \in 1..Len(answered)
    BY <1>1
  <2>2. i \in DOMAIN answered /\ answered'[i] = answered[i] /\ answered[i] \in 1..made
    <3>1. DOMAIN answered' \subseteq 1..(Len(answered) + 1)
      BY <1>1
    <3> QED
      BY <1>1, <1>4, <2>1, <3>1
  <2>3. CASE j \in DOMAIN answered /\ answered'[j] = answered[j] /\ answered[j] \in 1..made
    BY <1>3, <2>2, <2>3 DEF InLine, AnsweredInOrder, KeyOf
  <2>4. CASE answered'[j] = c
    BY <1>3, <1>8, <2>2, <2>4
  <2> QED
    BY <1>4, <2>3, <2>4
<1> QED
  BY <1>5, <1>7, <1>9, <1>10 DEF InLine

LEMMA LineOfCall ==
    ASSUME IInv, NEW o \in Objects, Call(o)
    PROVE  InLine'
<1> PICK c \in Calls : CallSent(o, c) \/ CallSettled(o, c) \/ CallQuiet(o, c) \/ CallLost(o, c)
  BY DEF Call
<1>1. c = made + 1 /\ owner' = [owner EXCEPT ![c] = o]
  BY DEF CallSent, CallSettled, CallQuiet, CallLost, MakeCall
<1>2. CASE CallSent(o, c) \/ CallQuiet(o, c)
  BY <1>1, <1>2, LineOfPost DEF CallSent, CallQuiet
<1>3. CASE CallSettled(o, c) \/ CallLost(o, c)
  BY <1>1, <1>3, LineOfUnsent DEF CallSettled, CallLost, CallDescVec
<1> QED
  BY <1>2, <1>3

\* A thread begins the first call of its backlog: the earliest that waits.
LEMMA LineOfRun ==
    ASSUME IInv, NEW n \in Names, Run(n)
    PROVE  InLine'
<1> USE DEF IInv
<1>1. /\ backlog \in [Names -> Seq(Calls)] /\ active \in [Names -> Calls \cup {None}]
      /\ backlog[n] \in Seq(Calls) /\ backlog[n] # <<>>
  BY DEF ThreadTypes, Run, Thread!Begin
<1>2. /\ backlog' = [backlog EXCEPT ![n] = Tail(@)]
      /\ active' = [active EXCEPT ![n] = Head(backlog[n])] /\ active[n] = None
      /\ UNCHANGED <<made, owner, sent, tasks, answered>>
  BY DEF Run, Thread!Begin, callVars
<1>3. /\ 1 \in DOMAIN backlog[n] /\ Head(backlog[n]) = backlog[n][1]
      /\ \A i \in DOMAIN Tail(backlog[n]) :
           i + 1 \in DOMAIN backlog[n] /\ Tail(backlog[n])[i] = backlog[n][i + 1] /\ 1 < i + 1
      /\ \A i, j \in DOMAIN Tail(backlog[n]) : i < j => i + 1 < j + 1
  BY <1>1
<1>4. /\ backlog'[n] = Tail(backlog[n]) /\ active'[n] = backlog[n][1]
      /\ \A m \in Names : m # n => backlog'[m] = backlog[m] /\ active'[m] = active[m]
  BY <1>1, <1>2, <1>3
<1>5. Waiting'
  <2> SUFFICES ASSUME NEW m \in Names, NEW i \in DOMAIN backlog'[m]
               PROVE  /\ backlog'[m][i] \in sent /\ Key(owner[backlog'[m][i]]) = m
                      /\ \A j \in DOMAIN backlog'[m] : i < j => backlog'[m][i] < backlog'[m][j]
    BY <1>2 DEF Waiting, KeyOf
  <2>1. CASE m = n
    <3>1. /\ backlog'[m] = Tail(backlog[n]) /\ i \in DOMAIN Tail(backlog[n])
          /\ i + 1 \in DOMAIN backlog[n] /\ backlog'[m][i] = backlog[n][i + 1]
      BY <1>3, <1>4, <2>1
    <3>2. backlog[n][i + 1] \in sent /\ KeyOf(backlog[n][i + 1]) = n
      BY <3>1 DEF InLine, Waiting
    <3>3. ASSUME NEW j \in DOMAIN backlog'[m], i < j PROVE backlog'[m][i] < backlog'[m][j]
      <4>1. /\ j + 1 \in DOMAIN backlog[n] /\ backlog'[m][j] = backlog[n][j + 1]
            /\ i + 1 < j + 1
        BY <1>3, <3>1, <3>3
      <4> QED
        BY <3>1, <4>1 DEF InLine, Waiting
    <3> QED
      BY <2>1, <3>1, <3>2, <3>3 DEF KeyOf
  <2>2. CASE m # n
    BY <1>4, <2>2 DEF InLine, Waiting, KeyOf
  <2> QED
    BY <2>1, <2>2
<1>6. Working'
  <2> SUFFICES ASSUME NEW m \in Names, active'[m] # None
               PROVE  /\ active'[m] \in sent /\ Key(owner[active'[m]]) = m
                      /\ \A i \in DOMAIN backlog'[m] : active'[m] < backlog'[m][i]
    BY <1>2 DEF Working, KeyOf
  <2>1. CASE m = n
    <3>1. backlog[n][1] \in sent /\ KeyOf(backlog[n][1]) = n
      BY <1>3 DEF InLine, Waiting
    <3>2. ASSUME NEW i \in DOMAIN Tail(backlog[n]) PROVE backlog[n][1] < Tail(backlog[n])[i]
      BY <1>3, <3>2 DEF InLine, Waiting
    <3> QED
      BY <1>4, <2>1, <3>1, <3>2 DEF KeyOf
  <2>2. CASE m # n
    BY <1>4, <2>2 DEF InLine, Working, KeyOf
  <2> QED
    BY <2>1, <2>2
<1>7. ASSUME NEW d \in 1..made, Ahead(d) PROVE Ahead(d)'
  <2>1. KeyOf(d) \in Names /\ Key(owner'[d]) = Key(owner[d])
    BY <1>2, KeyOfNames
  <2>2. stage' = [stage EXCEPT ![n] = "running"] /\ stage \in [Names -> {"idle", "running", "posting", "posted"}]
    BY DEF Run, TypeOK
  <2>3. CASE KeyOf(d) = n
    <3>1. \A i \in DOMAIN backlog[n] : d < backlog[n][i]
      BY <1>7, <2>3 DEF Ahead
    <3> QED
      BY <1>2, <1>3, <1>4, <2>3, <3>1 DEF Ahead, KeyOf
  <2>4. CASE KeyOf(d) # n
    BY <1>2, <1>4, <1>7, <2>1, <2>2, <2>4 DEF Ahead, KeyOf
  <2> QED
    BY <2>3, <2>4
<1>8. Queued' /\ Done' /\ AnsweredInOrder'
  BY <1>2, <1>7, AllMade DEF InLine, Queued, Done, AnsweredInOrder, KeyOf
<1> QED
  BY <1>5, <1>6, <1>8 DEF InLine

\* A method returns: nothing is behind it but the backlog.
LEMMA LineOfFinish ==
    ASSUME IInv, NEW n \in Names, Thread!Finish(n), UNCHANGED <<callVars, tasks, answered>>,
           stage' = [stage EXCEPT ![n] = "idle"]
    PROVE  InLine'
<1> USE DEF IInv
<1>1. /\ active' = [active EXCEPT ![n] = None] /\ UNCHANGED <<made, owner, sent, backlog, tasks, answered>>
      /\ active \in [Names -> Calls \cup {None}]
      /\ stage \in [Names -> {"idle", "running", "posting", "posted"}]
  BY DEF Thread!Finish, callVars, ThreadTypes, TypeOK
<1>2. \A m \in Names : active'[m] # None => m # n /\ active'[m] = active[m] /\ stage'[m] = stage[m]
  BY <1>1
<1>3. Waiting' /\ Working'
  BY <1>1, <1>2 DEF InLine, Waiting, Working, KeyOf
<1>4. ASSUME NEW d \in 1..made, Ahead(d) PROVE Ahead(d)'
  BY <1>1, <1>2, <1>4, KeyOfNames DEF Ahead, KeyOf
<1>5. Queued' /\ Done' /\ AnsweredInOrder'
  BY <1>1, <1>4, AllMade DEF InLine, Queued, Done, AnsweredInOrder, KeyOf
<1> QED
  BY <1>3, <1>5 DEF InLine

\* The answer of the running method goes behind those of the methods before it.
LEMMA LineOfPostAnswer ==
    ASSUME IInv, NEW n \in Names, PostAnswer(n)
    PROVE  InLine'
<1> DEFINE c == active[n]
           StillAhead(d) ==
             /\ \A i \in DOMAIN backlog[KeyOf(d)] : d < backlog[KeyOf(d)][i]
             /\ active[KeyOf(d)] # None =>
                  \/ d < active[KeyOf(d)]
                  \/ d = active[KeyOf(d)] /\ stage'[KeyOf(d)] = "posted"
<1> USE DEF IInv
<1>1. /\ stage[n] = "posting" /\ stage' = [stage EXCEPT ![n] = "posted"]
      /\ stage \in [Names -> {"idle", "running", "posting", "posted"}]
      /\ UNCHANGED <<made, owner, sent, backlog, active, answered>>
      /\ tasks \in Seq([call : Calls, via : {"value", "function"}])
  BY DEF PostAnswer, callVars, threadVars, TypeOK
<1>2. /\ c \in sent /\ c \in 1..made /\ c \in Calls /\ c # None /\ KeyOf(c) = n
      /\ \A i \in DOMAIN backlog[n] : c < backlog[n][i]
  BY <1>1, ActiveCall DEF InLine, Working
<1>3. \A d \in 1..made : Ahead(d) => StillAhead(d)
  BY <1>1, KeyOfNames DEF Ahead
<1>4. \A d \in 1..made : Ahead(d) /\ KeyOf(d) = n => d < c
  BY <1>1, <1>2 DEF Ahead
<1>5. StillAhead(c)
  BY <1>1, <1>2
<1>6. tasks' = tasks \/ \E via \in {"value", "function"} : tasks' = Append(tasks, [call |-> c, via |-> via])
  BY DEF PostAnswer, Posted
<1> HIDE DEF c, StillAhead
<1>7. ASSUME NEW i \in DOMAIN tasks'
      PROVE  \/ i \in DOMAIN tasks /\ i \in 1..Len(tasks) /\ tasks'[i] = tasks[i]
             \/ i = Len(tasks) + 1 /\ tasks'[i].call = c
  BY <1>1, <1>6, <1>7
<1>8. Waiting' /\ Working' /\ AnsweredInOrder'
  BY <1>1 DEF InLine, Waiting, Working, AnsweredInOrder, KeyOf
<1>9. Queued'
  <2> SUFFICES ASSUME NEW i \in DOMAIN tasks'
               PROVE  /\ tasks'[i].call \in sent /\ StillAhead(tasks'[i].call)
                      /\ \A j \in DOMAIN tasks' :
                           i < j /\ KeyOf(tasks'[i].call) = KeyOf(tasks'[j].call)
                             => tasks'[i].call < tasks'[j].call
    BY <1>1 DEF Queued, Ahead, StillAhead, KeyOf
  <2>1. CASE i \in DOMAIN tasks /\ i \in 1..Len(tasks) /\ tasks'[i] = tasks[i]
    <3>1. tasks[i].call \in sent /\ Ahead(tasks[i].call) /\ tasks[i].call \in 1..made
      BY <2>1, AllMade DEF InLine, Queued
    <3>2. ASSUME NEW j \in DOMAIN tasks', i < j, KeyOf(tasks'[i].call) = KeyOf(tasks'[j].call)
          PROVE  tasks'[i].call < tasks'[j].call
      <4>1. CASE j \in DOMAIN tasks /\ tasks'[j] = tasks[j]
        BY <2>1, <3>2, <4>1 DEF InLine, Queued
      <4>2. CASE tasks'[j].call = c
        BY <1>2, <1>4, <2>1, <3>1, <3>2, <4>2
      <4> QED
        BY <1>7, <4>1, <4>2
    <3> QED
      BY <1>3, <2>1, <3>1, <3>2
  <2>2. CASE i = Len(tasks) + 1 /\ tasks'[i].call = c
    <3>1. \A j \in DOMAIN tasks' : ~(i < j)
      BY <1>1, <1>7, <2>2
    <3> QED
      BY <1>2, <1>5, <2>2, <3>1
  <2> QED
    BY <1>7, <2>1, <2>2
<1>10. Done'
  <2> SUFFICES ASSUME NEW i \in DOMAIN answered, answered[i] \in sent
               PROVE  /\ StillAhead(answered[i])
                      /\ \A j \in DOMAIN tasks' :
                           KeyOf(answered[i]) = KeyOf(tasks'[j].call) => answered[i] < tasks'[j].call
    BY <1>1 DEF Done, Ahead, StillAhead, KeyOf
  <2>1. Ahead(answered[i]) /\ answered[i] \in 1..made
    BY AllMade DEF InLine, Done
  <2>2. ASSUME NEW j \in DOMAIN tasks', KeyOf(answered[i]) = KeyOf(tasks'[j].call)
        PROVE  answered[i] < tasks'[j].call
    <3>1. CASE j \in DOMAIN tasks /\ tasks'[j] = tasks[j]
      BY <2>2, <3>1 DEF InLine, Done
    <3>2. CASE tasks'[j].call = c
      BY <1>2, <1>4, <2>1, <2>2, <3>2
    <3> QED
      BY <1>7, <3>1, <3>2
  <2> QED
    BY <1>3, <2>1, <2>2
<1> QED
  BY <1>8, <1>9, <1>10 DEF InLine

\* The first task of the script thread is the earliest of its thread; it is
\* not answered yet.
LEMMA LineOfDeliver ==
    ASSUME IInv, Deliver
    PROVE  InLine'
<1> DEFINE c == Head(tasks).call
<1> USE DEF IInv
<1>1. /\ UNCHANGED <<made, owner, sent, backlog, active, stage>>
      /\ tasks # <<>> /\ tasks' = Tail(tasks)
      /\ answered \in Seq(Calls)
  BY DEF Deliver, callVars, threadVars, TypeOK
<1>2. /\ c = tasks[1].call /\ 1 \in DOMAIN tasks /\ c \in Calls
      /\ \A i \in DOMAIN tasks' : i + 1 \in DOMAIN tasks /\ tasks'[i] = tasks[i + 1]
  BY <1>1, HeadOfTasks
<1>3. /\ \A i \in DOMAIN tasks' : 1 < i + 1
      /\ \A i, j \in DOMAIN tasks' : i < j => i + 1 < j + 1
  <2>1. tasks \in Seq([call : Calls, via : {"value", "function"}])
    BY DEF TypeOK
  <2>2. DOMAIN tasks' \subseteq Nat \ {0}
    BY <1>1, <2>1
  <2> QED
    BY <2>2
<1>4. /\ c \in sent /\ Ahead(c)
      /\ \A i \in DOMAIN tasks' : KeyOf(c) = KeyOf(tasks'[i].call) => c < tasks'[i].call
  BY <1>2, <1>3 DEF InLine, Queued
<1> HIDE DEF c
<1>5. answered' = answered \/ answered' = Append(answered, c)
  BY DEF Deliver, CallDescVec, c
<1>6. ASSUME NEW i \in DOMAIN answered'
      PROVE  \/ i \in DOMAIN answered /\ answered'[i] = answered[i]
             \/ i = Len(answered) + 1 /\ answered'[i] = c
  BY <1>1, <1>2, <1>5, <1>6
<1>7. DOMAIN answered' \subseteq 1..(Len(answered) + 1) /\ DOMAIN answered = 1..Len(answered)
  BY <1>1, <1>2, <1>5
<1>8. Waiting' /\ Working'
  BY <1>1 DEF InLine, Waiting, Working, KeyOf
<1>9. Queued'
  <2> SUFFICES ASSUME NEW i \in DOMAIN tasks'
               PROVE  /\ tasks'[i].call \in sent /\ Ahead(tasks'[i].call)
                      /\ \A j \in DOMAIN tasks' :
                           i < j /\ KeyOf(tasks'[i].call) = KeyOf(tasks'[j].call)
                             => tasks'[i].call < tasks'[j].call
    BY <1>1 DEF Queued, Ahead, KeyOf
  <2>1. i + 1 \in DOMAIN tasks /\ tasks'[i] = tasks[i + 1]
    BY <1>2
  <2>2. ASSUME NEW j \in DOMAIN tasks', i < j, KeyOf(tasks'[i].call) = KeyOf(tasks'[j].call)
        PROVE  tasks'[i].call < tasks'[j].call
    <3>1. j + 1 \in DOMAIN tasks /\ tasks'[j] = tasks[j + 1] /\ i + 1 < j + 1
      BY <1>2, <1>3, <2>2
    <3> QED
      BY <2>1, <2>2, <3>1 DEF InLine, Queued
  <2> QED
    BY <2>1, <2>2 DEF InLine, Queued
<1>10. Done'
  <2> SUFFICES ASSUME NEW i \in DOMAIN answered', answered'[i] \in sent
               PROVE  /\ Ahead(answered'[i])
                      /\ \A j \in DOMAIN tasks' :
                           KeyOf(answered'[i]) = KeyOf(tasks'[j].call) => answered'[i] < tasks'[j].call
    BY <1>1 DEF Done, Ahead, KeyOf
  <2>1. CASE i \in DOMAIN answered /\ answered'[i] = answered[i]
    BY <1>2, <2>1 DEF InLine, Done
  <2>2. CASE answered'[i] = c
    BY <1>4, <2>2
  <2> QED
    BY <1>6, <2>1, <2>2
<1>11. AnsweredInOrder'
  <2> SUFFICES ASSUME NEW i \in DOMAIN answered', NEW j \in DOMAIN answered', i < j
               PROVE  /\ answered'[i] # answered'[j]
                      /\ {answered'[i], answered'[j]} \subseteq sent
                            /\ KeyOf(answered'[i]) = KeyOf(answered'[j])
                          => answered'[i] < answered'[j]
    BY <1>1 DEF AnsweredInOrder, KeyOf
  <2>1. i \in DOMAIN answered /\ answered'[i] = answered[i] /\ answered[i] \in Nat
    <3>1. i # Len(answered) + 1
      BY <1>1, <1>7
    <3> QED
      BY <1>6, <3>1, AllMade
  <2>2. CASE j \in DOMAIN answered /\ answered'[j] = answered[j]
    BY <2>1, <2>2 DEF InLine, AnsweredInOrder, KeyOf
  <2>3. CASE answered'[j] = c
    <3>1. ASSUME answered[i] \in sent, KeyOf(answered[i]) = KeyOf(c) PROVE answered[i] < c
      BY <1>2, <2>1, <3>1 DEF InLine, Done
    <3>2. answered[i] # c
      BY <1>4, <2>1, <3>1
    <3> QED
      BY <2>1, <2>3, <3>1, <3>2
  <2> QED
    BY <1>6, <2>2, <2>3
<1> QED
  BY <1>8, <1>9, <1>10, <1>11 DEF InLine

LEMMA LineOfWork ==
    ASSUME IInv, NEW n \in Names, Work(n)
    PROVE  InLine'
<1>1. CASE Run(n)
  BY <1>1, LineOfRun
<1>2. CASE Promote(n)
  <2>1. CASE stage' = [stage EXCEPT ![n] = "idle"] /\ Thread!Finish(n)
    BY <1>2, <2>1, LineOfFinish DEF Promote
  <2>2. CASE stage' = [stage EXCEPT ![n] = "posting"] /\ UNCHANGED threadVars
    <3>1. \A m \in Names : stage[m] = "posted" => stage'[m] = "posted"
      BY <1>2, <2>2 DEF Promote, IInv, TypeOK
    <3> QED
      BY <1>2, <2>2, <3>1, LineStays DEF Promote
  <2> QED
    BY <1>2, <2>1, <2>2 DEF Promote
<1>3. CASE PostAnswer(n)
  BY <1>3, LineOfPostAnswer
<1>4. CASE Release(n)
  BY <1>4, LineOfFinish DEF Release
<1> QED
  BY <1>1, <1>2, <1>3, <1>4 DEF Work

-----------------------------------------------------------------------------
\* The invariant.
LEMMA InitInv == Init => IInv
<1> SUFFICES ASSUME Init PROVE IInv
  OBVIOUS
<1>1. TypeOK
  <2>1. MaxCalls \in Nat
    BY CallsAssumption
  <2> QED
    BY <2>1 DEF Init, Thread!Init, TypeOK, Names
<1>2. ThreadTypes /\ Numbered
  BY DEF Init, Thread!Init, ThreadTypes, Numbered
<1>3. Ids /\ Kept
  BY DEF Init, Ids, Kept
<1>4. InLine
  BY DEF Init, Thread!Init, InLine, Waiting, Working, Queued, Done, AnsweredInOrder
<1> QED
  BY <1>1, <1>2, <1>3, <1>4 DEF IInv

\* Every step of a call, a worker, an answer or a collection leaves the calls of
\* each thread in line and the two maps of functions in agreement.
THEOREM InvStep == IInv /\ [Next]_vars => IInv'
<1> SUFFICES ASSUME IInv, [Next]_vars PROVE IInv'
  OBVIOUS
<1>1. ASSUME NEW o \in Objects, Call(o) PROVE IInv'
  BY <1>1, TypesOfCall, KeptByCall, LineOfCall DEF IInv
<1>2. ASSUME NEW n \in Names, Work(n) PROVE IInv'
  <2>1. UNCHANGED callVars
    BY <1>2 DEF Work, Run, Promote, PostAnswer, Release
  <2> QED
    BY <1>2, <2>1, TypesOfWork, IdsElsewhere, KeptElsewhere, LineOfWork DEF IInv
<1>3. CASE Deliver
  <2>1. UNCHANGED callVars
    BY <1>3 DEF Deliver
  <2> QED
    BY <1>3, <2>1, TypesOfScript, IdsElsewhere, KeptByDeliver, LineOfDeliver DEF IInv
<1>4. CASE (\E o \in Objects : Collect(o) \/ FreeMethods(o)) \/ FreeContext
  <2>1. UNCHANGED <<callVars, threadVars, stage, tasks, answered>>
    BY <1>4 DEF Collect, FreeMethods, FreeContext
  <2>2. InLine'
    BY <2>1, LineStays
  <2> QED
    BY <1>4, <2>1, <2>2, TypesOfScript, IdsElsewhere, KeptElsewhere DEF IInv
<1>5. CASE UNCHANGED vars
  <2>1. UNCHANGED <<callVars, objectVars, callbacks, functions, context, threadVars, stage, tasks, answered>>
    BY <1>5 DEF vars
  <2>2. TypeOK' /\ ThreadTypes' /\ Numbered'
    BY <2>1 DEF callVars, objectVars, threadVars, IInv, TypeOK, ThreadTypes, Numbered
  <2>3. Kept'
    BY <2>1 DEF callVars, IInv, Kept, Entries
  <2>4. InLine'
    BY <2>1, LineStays
  <2> QED
    BY <2>1, <2>2, <2>3, <2>4, IdsElsewhere DEF IInv
<1> QED
  BY <1>1, <1>2, <1>3, <1>4, <1>5 DEF Next

THEOREM Invariance == Spec => []IInv
BY InitInv, InvStep, PTL DEF Spec

\* The variables keep their types: among them that no id and no call number
\* exceeds the number of calls made.
THEOREM TypeCorrect == Spec => []TypeOK
<1>1. IInv => TypeOK
  BY DEF IInv
<1> QED
  BY <1>1, Invariance, PTL

\* As long as an executor can be reached, the functions of the calls in its map
\* (_callbackMap) are in the map of the context: addCallback and createPromise
\* of other executors, and the _freeDescVec of other calls, do not take them.  And
\* nothing else is in it: an answered call leaves no function behind.
THEOREM FunctionsStayHeld == Spec => []FunctionsHeld
<1>1. IInv => FunctionsHeld
  BY DEF IInv, Kept, FunctionsHeld
<1> QED
  BY <1>1, Invariance, PTL

\* PostOnNamedThread, the post of an answer and the queue of the script thread
\* together answer no call twice, and the calls of a thread in their order.
THEOREM AnswersInOrder == Spec => []AnsweredInOrder
<1>1. IInv => AnsweredInOrder
  BY DEF IInv, InLine
<1> QED
  BY <1>1, Invariance, PTL
=============================================================================
