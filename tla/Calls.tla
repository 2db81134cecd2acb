-------------------------------- MODULE Calls --------------------------------
(***************************************************************************)
(* Asynchronous calls of native methods (native/sdk .. jqutil_v2).  The    *)
(* script thread calls a method of an object: JQObjectTemplate::Caller     *)
(* registers the callback or the two functions of a promise with the       *)
(* object's JQAsyncExecutor and posts the method to a named thread.  The   *)
(* worker answers through the object, if that is still there, and the      *)
(* answer is delivered by a task of the script thread.  The object may be  *)
(* collected, and the context freed, at any time in between.               *)
(*                                                                         *)
(* The worker threads are those of SerialExecutor (see NamedThread); the   *)
(* queue of the script thread is the Handler's, which is not part of the   *)
(* repository: first in, first out.                                        *)
(***************************************************************************)
EXTENDS Naturals, Sequences

CONSTANTS
    Objects,    \* JS objects with a JQBaseObject, made by one template each
    PerObject,  \* those whose template has MODE_OBJECT; the others MODE_MODULE
    Module,     \* the name of the module's thread
    WithCallback, \* those whose method takes a callback; the others promise
    MaxCalls,   \* bound: calls made
    None

ASSUME CallsAssumption ==
    /\ PerObject \subseteq Objects
    /\ Module \notin Objects
    /\ WithCallback \subseteq Objects
    /\ MaxCalls \in Nat
    /\ None \notin 1..MaxCalls
    /\ {"value", "methods"} \cap (Objects \cup {Module}) = {}

VARIABLES
    made,       \* calls made so far; they are numbered in order
    owner,      \* per call: the object it was made on
    kind,       \* per call: how it is answered
    id,         \* per call: _callbackId, 0 without a callback
    token,      \* _tokenId, shared by all executors
    sent,       \* the calls posted to a worker
    attached,   \* per object: it still has its JS value (_ctx, _valuePtr)
    refs,       \* per object: who holds a strong reference to it
    executor,   \* per object: its executor in _objAsyncExecutorMap
    callbacks,  \* per object: _callbackMap of its executor, by call
    functions,  \* the JS functions kept in the context's __jq_AE_cbMap
    context,    \* the JSContext, and with it its CtxHolder, is alive
    backlog, active, stalled,   \* the named threads
    stage,      \* per thread: how far the running method is
    tasks,      \* the tasks of the script thread
    answered    \* the calls answered, in this order

objectVars == <<attached, refs, executor>>
threadVars == <<backlog, active, stalled>>
callVars == <<made, owner, kind, id, token, sent>>
vars == <<callVars, objectVars, callbacks, functions, context, threadVars,
          stage, tasks, answered>>

Calls == 1..MaxCalls
Names == PerObject \cup {Module}

Thread == INSTANCE SerialExecutor WITH
    Names <- Names, Closures <- Calls, None <- None,
    backlog <- backlog, active <- active, stalled <- stalled

\* JQAsyncSchedule::dispatch without a hook: the thread of a method.
Key(o) == IF o \in PerObject THEN o ELSE Module

KindOf(o) == IF o \in WithCallback THEN "std" ELSE "promise"

\* A callback is one function of the JS context, a promise two.
Types(k) == CASE k = "promise" -> {"resolve", "reject"}
              [] k = "std"     -> {"callback"}
              [] OTHER         -> {}

Entries(c) == {<<id[c], t, c>> : t \in Types(kind[c])}

Init ==
    /\ made = 0
    /\ owner = [c \in Calls |-> None]
    /\ kind = [c \in Calls |-> "quiet"]
    /\ id = [c \in Calls |-> 0]
    /\ token = 0
    /\ sent = {}
    /\ attached = [o \in Objects |-> TRUE]
    /\ refs = [o \in Objects |-> {"value", "methods"}]
    /\ executor = [o \in Objects |-> "none"]
    /\ callbacks = [o \in Objects |-> {}]
    /\ functions = {}
    /\ context = TRUE
    /\ Thread!Init
    /\ stage = [n \in Names |-> "idle"]
    /\ tasks = <<>>
    /\ answered = <<>>

-----------------------------------------------------------------------------
\* The script thread: a call.  `this` must have its JS value, else Caller
\* throws "js call is disabled".

\* _genId.
FreshId(o) == token + 1

\* The functions kept in the context: one of the same key is replaced.
Keep(i, k, c) ==
    functions' = {f \in functions : f[1] # i \/ f[2] \notin Types(k)}
                   \cup {<<i, t, c>> : t \in Types(k)}

Enter(o, c, k) ==
    /\ token' = token + 1
    /\ id' = [id EXCEPT ![c] = FreshId(o)]
    /\ callbacks' = [callbacks EXCEPT ![o] = @ \cup {c}]
    /\ Keep(FreshId(o), k, c)

AddCallback(o, c) == Enter(o, c, "std")

CreatePromise(o, c) == Enter(o, c, "promise")

Register(o, c) == IF o \in WithCallback THEN AddCallback(o, c) ELSE CreatePromise(o, c)

MakeCall(o, c, k) ==
    /\ context /\ attached[o]
    /\ c = made + 1 /\ c \in Calls
    /\ made' = c
    /\ owner' = [owner EXCEPT ![c] = o]
    /\ kind' = [kind EXCEPT ![c] = k]

Created(o) == [executor EXCEPT ![o] = "made"]

\* A call with a callback or a promise, sent to its thread.
CallSent(o, c) ==
    /\ MakeCall(o, c, KindOf(o))
    /\ Register(o, c)
    /\ executor' = Created(o)
    /\ Thread!Post(Key(o), c)
    /\ sent' = sent \cup {c}
    /\ UNCHANGED <<attached, refs, context, stage, tasks, answered>>

\* A call without a callback has no callback id.
CallQuiet(o, c) ==
    /\ o \in WithCallback
    /\ MakeCall(o, c, "quiet")
    /\ Thread!Post(Key(o), c)
    /\ sent' = sent \cup {c}
    /\ UNCHANGED <<id, token, objectVars, callbacks, functions, context, stage,
                   tasks, answered>>

\* The callback, or the one of the promise's functions that fits, is called.
CallDescVec(c) == answered' = Append(answered, c)

\* prepareParamsHook settles the call, which is then not sent.  The fault:
\* the hook keeps the callback (autoDel off), and the call is sent as well.
CallSettledAndSent(o, c) ==
    /\ MakeCall(o, c, KindOf(o))
    /\ Register(o, c)
    /\ executor' = Created(o)
    /\ CallDescVec(c)
    /\ Thread!Post(Key(o), c)
    /\ sent' = sent \cup {c}
    /\ UNCHANGED <<attached, refs, context, stage, tasks>>

CallSettled(o, c) ==
    /\ MakeCall(o, c, KindOf(o))
    /\ token' = token + 1
    /\ id' = [id EXCEPT ![c] = FreshId(o)]
    /\ executor' = Created(o)
    /\ CallDescVec(c)
    /\ UNCHANGED <<sent, attached, refs, callbacks, functions, context, threadVars,
                   stage, tasks>>

\* With a hook and no callback hasCallbackid(0) is false: taken for settled,
\* the method is never run.
CallLost(o, c) ==
    /\ o \in WithCallback
    /\ MakeCall(o, c, "quiet")
    /\ executor' = Created(o)
    /\ UNCHANGED <<id, token, sent, attached, refs, callbacks, functions, context,
                   threadVars, stage, tasks, answered>>

Call(o) ==
    \E c \in Calls :
        CallSent(o, c) \/ CallSettled(o, c) \/ CallQuiet(o, c) \/ CallLost(o, c)

-----------------------------------------------------------------------------
\* Dropping a strong reference; the destructor behind the last one takes the
\* executor out of the map.  The fault: it does so at every release.
UnrefEager(o, h) ==
    /\ refs' = [refs EXCEPT ![o] = @ \ {h}]
    /\ executor' = [executor EXCEPT ![o] = IF @ = "made" THEN "gone" ELSE @]

Unref(o, h) ==
    /\ refs' = [refs EXCEPT ![o] = @ \ {h}]
    /\ executor' = [executor EXCEPT ![o] =
                      IF refs[o] \subseteq {h} /\ @ = "made" THEN "gone" ELSE @]

\* A worker: AsyncCaller runs the method, which takes its time; its last step
\* is one post of the answer (each method of panet posts once on every path).
Run(n) ==
    /\ Thread!Begin(n)
    /\ stage' = [stage EXCEPT ![n] = "running"]
    /\ UNCHANGED <<callVars, objectVars, callbacks, functions, context, tasks,
                   answered>>

\* post, postJSON, postError, postJSThread: first _thisCppObj.promote().
Promote(n) ==
    /\ stage[n] = "running"
    /\ LET c == active[n]
           o == owner[c]
       IN IF refs[o] = {}
            THEN /\ stage' = [stage EXCEPT ![n] = "idle"]
                 /\ Thread!Finish(n)
                 /\ UNCHANGED refs
            ELSE /\ stage' = [stage EXCEPT ![n] = "posting"]
                 /\ refs' = [refs EXCEPT ![o] = @ \cup {n}]
                 /\ UNCHANGED threadVars
    /\ UNCHANGED <<callVars, attached, executor, callbacks, functions, context,
                   tasks, answered>>

\* .. then a task for the script thread: an answer, which holds the executor,
\* or a function that makes one (postJSThread), which holds nothing.  The
\* fault: the task overtakes those before it.
PostedFirst(c, via) == <<[call |-> c, via |-> via]>> \o tasks

Posted(c, via) == Append(tasks, [call |-> c, via |-> via])

PostAnswer(n) ==
    /\ stage[n] = "posting"
    /\ stage' = [stage EXCEPT ![n] = "posted"]
    /\ LET c == active[n]
       IN IF executor[owner[c]] # "made"
            THEN UNCHANGED tasks
            ELSE \/ id[c] # 0 /\ tasks' = Posted(c, "value")
                 \/ id[c] = 0 /\ UNCHANGED tasks
                 \/ tasks' = Posted(c, "function")
    /\ UNCHANGED <<callVars, objectVars, callbacks, functions, context, threadVars,
                   answered>>

\* .. and the end of post: the reference goes, perhaps the last, and the method
\* returns.
Release(n) ==
    /\ stage[n] = "posted"
    /\ Unref(owner[active[n]], n)
    /\ Thread!Finish(n)
    /\ stage' = [stage EXCEPT ![n] = "idle"]
    /\ UNCHANGED <<callVars, attached, callbacks, functions, context, tasks,
                   answered>>

-----------------------------------------------------------------------------
\* _freeDescVec.  The fault: a key without the id.
FreedOfType(c) == {f \in functions : f[2] \notin Types(kind[c])}

Freed(c) == {f \in functions : f[1] # id[c] \/ f[2] \notin Types(kind[c])}

\* Caller_postJSThread needs the object, its context and its executor again.
Reachable(t) ==
    LET o == owner[t.call]
    IN t.via = "function" => refs[o] # {} /\ attached[o] /\ executor[o] = "made"

\* onCallback, onCallbackJSON, onCallbackJSValue: find the callback, call it
\* and delete it.
Deliver ==
    /\ tasks # <<>>
    /\ tasks' = Tail(tasks)
    /\ LET t == Head(tasks)
           c == t.call
       IN IF context /\ Reachable(t) /\ c \in callbacks[owner[c]]
            THEN /\ CallDescVec(c)
                 /\ callbacks' = [callbacks EXCEPT ![owner[c]] = @ \ {c}]
                 /\ functions' = Freed(c)
            ELSE UNCHANGED <<answered, callbacks, functions>>
    /\ UNCHANGED <<callVars, objectVars, context, threadVars, stage>>

\* The finalizer of the JS object: _on_js_detach, then UNREF.
Collect(o) ==
    /\ attached[o]
    /\ attached' = [attached EXCEPT ![o] = FALSE]
    /\ Unref(o, "value")
    /\ UNCHANGED <<callVars, callbacks, functions, context, threadVars, stage, tasks,
                   answered>>

\* The last method function of the object, which holds it too, is freed: with
\* the object, or later, if the script has kept one.
FreeMethods(o) ==
    /\ ~attached[o] /\ "methods" \in refs[o]
    /\ Unref(o, "methods")
    /\ UNCHANGED <<callVars, attached, callbacks, functions, context, threadVars,
                   stage, tasks, answered>>

\* The context goes with its global object, its functions and its holder; the
\* finalizers of what is left follow.
FreeContext ==
    /\ context
    /\ context' = FALSE
    /\ functions' = {}
    /\ attached' = [o \in Objects |-> FALSE]
    /\ refs' = [o \in Objects |-> refs[o] \ {"value", "methods"}]
    /\ executor' = [o \in Objects |->
                      IF refs'[o] = {} /\ executor[o] = "made" THEN "gone" ELSE executor[o]]
    /\ UNCHANGED <<callVars, callbacks, threadVars, stage, tasks, answered>>

Work(n) == Run(n) \/ Promote(n) \/ PostAnswer(n) \/ Release(n)

Next ==
    \/ \E o \in Objects : Call(o) \/ Collect(o) \/ FreeMethods(o)
    \/ \E n \in Names : Work(n)
    \/ Deliver
    \/ FreeContext

\* The threads run; a method returns (the C library's timeouts bound it); the
\* script need not call, and nothing need be collected.
Spec == Init /\ [][Next]_vars /\ (\A n \in Names : WF_vars(Work(n))) /\ WF_vars(Deliver)

-----------------------------------------------------------------------------
\* Types of the variables.
TypeOK ==
    /\ made \in 0..MaxCalls
    /\ owner \in [Calls -> Objects \cup {None}]
    /\ kind \in [Calls -> {"quiet", "std", "promise"}]
    /\ id \in [Calls -> 0..MaxCalls] /\ token \in 0..MaxCalls
    /\ sent \subseteq Calls
    /\ attached \in [Objects -> BOOLEAN]
    /\ refs \in [Objects -> SUBSET ({"value", "methods"} \cup Names)]
    /\ executor \in [Objects -> {"none", "made", "gone"}]
    /\ callbacks \in [Objects -> SUBSET Calls]
    /\ functions \subseteq (1..MaxCalls) \X {"callback", "resolve", "reject"} \X Calls
    /\ context \in BOOLEAN
    /\ stage \in [Names -> {"idle", "running", "posting", "posted"}]
    /\ tasks \in Seq([call : Calls, via : {"value", "function"}])
    /\ answered \in Seq(Calls)

\* The executor's map does not own the functions it calls; the context's map
\* does.  As long as an executor can be reached, each function in its map is
\* still there, whatever other executors register and free; and a function is
\* there only for a call that is in such a map, an answered one leaves nothing.
ExecutorLives(o) ==
    \/ executor[o] = "made"
    \/ \E i \in DOMAIN tasks : owner[tasks[i].call] = o /\ tasks[i].via = "value"

FunctionsHeld ==
    /\ context => \A o \in Objects : ExecutorLives(o) =>
                     \A c \in callbacks[o] : Entries(c) \subseteq functions
    /\ \A f \in functions : f[3] \in callbacks[owner[f[3]]]

\* No call is answered twice, not even one that a hook has settled, and the calls
\* of one thread are answered in the order they were made.
AnsweredInOrder ==
    \A i, j \in DOMAIN answered :
        i < j => /\ answered[i] # answered[j]
                 /\ {answered[i], answered[j]} \subseteq sent
                    /\ Key(owner[answered[i]]) = Key(owner[answered[j]])
                      => answered[i] < answered[j]

IsAnswered(c) == \E i \in DOMAIN answered : answered[i] = c

\* Every call with a callback on an object that stays is answered, unless its
\* thread could not be made.
Answered ==
    \A c \in Calls :
        (c \in sent /\ kind[c] # "quiet")
            ~> (c \in sent => \/ IsAnswered(c)
                               \/ ~attached[owner[c]]
                               \/ Key(owner[c]) \in stalled)
=============================================================================
